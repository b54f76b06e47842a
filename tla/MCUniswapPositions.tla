------------------------- MODULE MCUniswapPositions -------------------------
(* UniswapPositions on small instances: a wallet that starts with three    *)
(* positions; a fourth may arrive.                                         *)
EXTENDS UniswapPositions

CONSTANTS t1, t2, t3, t4

MCInitial == <<t1, t2, t3>>
=============================================================================
