---------------------------- MODULE PriceOverlaps ----------------------------
(***************************************************************************)
(* PriceFeed with a history of which FetchAndSave calls overlapped.        *)
(* FetchAndSave locks nothing (price_service.go): the goroutine and manual *)
(* syncs may hold answers of the provider at the same time and store them  *)
(* in either order.                                                        *)
(***************************************************************************)
EXTENDS PriceFeed

VARIABLE overlapped  \* history: the goroutines in a FetchAndSave whose
                     \* answer was not the only one being stored

overlapVars == <<quote, latest, stored, run, cancelled, loop, tick, stopped, overlapped>>

HoldsAnswer(p) == run[p].stage \in {"save", "publish"}

NoteOverlaps ==
  overlapped' = {p \in Procs : HoldsAnswer(p)' /\
                   (p \in overlapped \/ \E q \in Procs \ {p} : HoldsAnswer(q)')}

OverlapInit == Init /\ overlapped = {}

OverlapNext == Next /\ NoteOverlaps

OverlapSpec == OverlapInit /\ [][OverlapNext]_overlapVars

FairOverlapSpec == OverlapSpec /\ LoopFairness

-----------------------------------------------------------------------------
LatestMovesOn ==
  \A s \in Symbols :
    latest[s] # NoPrice => latest'[s] # NoPrice /\ latest[s].rev <= latest'[s].rev

(* Overlapping is the only way back: the newest row of a symbol steps back *)
(* to an older quote only by a FetchAndSave that, between its FetchPrices  *)
(* and that INSERT, met another one with an answer to store.  Failures,    *)
(* cancellation, ticks and restarts do not do it.                          *)
LatestRegressesOnlyByOverlap ==
  [][LatestMovesOn \/ \E p \in overlapped : run'[p] # run[p]]_overlapVars
=============================================================================
