---------------------------- MODULE SyncOverlaps ----------------------------
(***************************************************************************)
(* ExchangeSync with a history of which syncs overlapped.  SyncBalances    *)
(* locks nothing (exchange_service.go): two syncs of one credential may    *)
(* hold reports of it at the same time and store them in either order.     *)
(***************************************************************************)
EXTENDS ExchangeSync

VARIABLE overlapped  \* history: the syncs storing a report while another
                     \* sync had a report of the same credential to store

overlapVars == <<creds, nextId, balances, account, sync, loop, tick, stopped, overlapped>>

(* Another sync has a report of the same credential to store.              *)
Meets(p) ==
  \E q \in Procs \ {p} : sync[q].stage = "save" /\ sync[q].cred = sync[p].cred

NoteOverlaps ==
  overlapped' = {p \in Procs :
                   sync'[p].stage = "save" /\ (p \in overlapped \/ Meets(p)')}

OverlapInit == Init /\ overlapped = {}

OverlapNext == Next /\ NoteOverlaps

OverlapSpec == OverlapInit /\ [][OverlapNext]_overlapVars

FairOverlapSpec == OverlapSpec /\ LoopFairness /\ RequestFairness

-----------------------------------------------------------------------------
NewerRowsStay ==
  \A c \in CredIds, s \in Symbols :
    (balances[c][s] # NoRow /\ balances'[c][s] # NoRow) =>
      balances[c][s].rev <= balances'[c][s].rev

(* Overlapping is the only way back: an amount is replaced by one of an    *)
(* older report only by a sync that, between its GetBalances and that      *)
(* statement, met another one storing the same credential.  Failures, lost *)
(* answers, deletions, re-added credentials, syncs of other credentials and*)
(* restarts do not do it.                                                  *)
RowsRegressOnlyByOverlap ==
  [][NewerRowsStay \/ \E p \in overlapped : sync'[p] # sync[p]]_overlapVars
=============================================================================
