----------------------------- MODULE MCDefiSync -----------------------------
(* DefiSync on small instances: t1 and t3 are positions of the first       *)
(* protocol, t2 is one of the second.                                      *)
EXTENDS DefiSync

CONSTANTS u1, u2, a1, a2, blank, t1, t2, t3

MCNormal     == [n \in Chains |-> IF n = "Ethereum " THEN "ethereum" ELSE n]
MCProtocols  == <<"uniswap-v3", "aave-v3">>
MCProtocolOf == [t \in Tokens |-> IF t = t2 THEN "aave-v3" ELSE "uniswap-v3"]
MCTypeOf     == [t \in Tokens |-> IF t = t2 THEN "lending" ELSE "lp"]
=============================================================================
