--------------------------- MODULE MCExchangeSync ---------------------------
(* ExchangeSync on small instances: the values its configurations share.   *)
EXTENDS SyncOverlaps, TLC

CONSTANTS u1, u2, btc, eth, BTC, ETH

MCLower == [n \in Names |-> IF n = "Binance" THEN "binance" ELSE n]
MCUpper == [a \in Assets |-> IF a = btc THEN BTC ELSE ETH]

(* BTC is sold at revision 1.                                              *)
HeldAt == <<{btc, eth}, {eth}>>
MCHeld == [c \in CredIds |-> [r \in Revs |-> HeldAt[r + 1] \cap Assets]]

(* Users are told apart by nothing but who they are.                       *)
UserSymmetry == Permutations(Users)
=============================================================================
