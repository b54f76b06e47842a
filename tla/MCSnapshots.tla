----------------------------- MODULE MCSnapshots -----------------------------
(* Snapshots on a small instance: 10 units make a second and 2^20 of them  *)
(* overflow, so that 29 hours and 104857 seconds fit and one more does not.*)
EXTENDS Snapshots

CONSTANTS s1, s2

Given(secret, expiry, price, exchange, defi) ==
  [given |-> Required, secret |-> secret,
   number |-> [s \in Settings |->
     CASE s = "JWT_EXPIRY_HOURS"         -> expiry
       [] s = "PRICE_SYNC_INTERVAL_S"    -> price
       [] s = "EXCHANGE_SYNC_INTERVAL_S" -> exchange
       [] s = "DEFI_SYNC_INTERVAL_S"     -> defi]]

(* Numbers that a default replaces; the largest numbers that fit; one of   *)
(* the two intervals one too many, once with an hour too many; a variable  *)
(* that is missing.                                                        *)
MCEnvs ==
  LET fit == Given(s1, 2, 104858, 0, Junk) IN
  { fit,
    Given(s2, 29, 104857, 104857, 104857),
    Given(s1, 2, Unset, 104858, 104857),
    Given(s1, 30, Unset, 104857, 104858),
    [fit EXCEPT !.given = Required \ {"JWT_SECRET"}] }
=============================================================================
