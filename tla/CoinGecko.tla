------------------------------ MODULE CoinGecko ------------------------------
(***************************************************************************)
(* The rate limiting and the retries of internal/client/coingecko/client.go*)
(* One Client is shared by everyone who fetches prices (the background     *)
(* goroutine and every manually triggered sync), without a lock: Callers   *)
(* run FetchPrices concurrently and meet in its field lastRequest.         *)
(*                                                                         *)
(* Time is counted in seconds and only in the ways the code looks at it:   *)
(* the age of lastRequest up to MinInterval (a zero lastRequest makes no   *)
(* caller wait, like an age of MinInterval), and the seconds left of each  *)
(* sleep.  lastRequest is read and written without synchronisation; a read *)
(* torn by the first write shows a time far in the past, which is the old  *)
(* value as far as the wait is concerned, and a later one shows the old or *)
(* the new time, so reading it in one step loses no outcome.               *)
(***************************************************************************)
EXTENDS Naturals

CONSTANTS
  Callers,      \* goroutines that call FetchPrices
  MinInterval,  \* minRequestInterval
  MaxAttempts   \* attempts of doWithRetry

ASSUME TimesAssumption == MinInterval \in Nat /\ MaxAttempts \in Nat \ {0}

VARIABLES
  sinceOK,     \* age of lastRequest, which only a 200 response sets
  call,        \* where each caller stands in FetchPrices
  cancelled,   \* callers whose context is cancelled
  overtaken    \* history: callers whose call began before the last 200

vars == <<sinceOK, call, cancelled, overtaken>>

Ages     == 0..MinInterval
Attempts == 0..(MaxAttempts - 1)

Results == {"ok", "error"}

Idle(result)       == [stage |-> "idle", result |-> result]
Waiting(left)      == [stage |-> "wait", left |-> left]
Ready(k, b)        == [stage |-> "ready", attempt |-> k, backoff |-> b]
InFlight(k, b)     == [stage |-> "sent", attempt |-> k, backoff |-> b]
BackingOff(k, b, left) == [stage |-> "backoff", attempt |-> k, backoff |-> b,
                           left |-> left]

(* doWithRetry starts with attempt 0 and a back-off of one second.         *)
FirstAttempt == Ready(0, 1)

CallState ==
  [stage : {"idle"}, result : Results]
    \cup [stage : {"wait"}, left : Ages]
    \cup [stage : {"ready", "sent"}, attempt : Attempts, backoff : Nat]
    \cup [stage : {"backoff"}, attempt : Attempts, backoff : Nat, left : Nat]

Init ==
  /\ sinceOK = MinInterval
  /\ call = [p \in Callers |-> Idle("ok")]
  /\ cancelled = {}
  /\ overtaken = {}

Busy == {p \in Callers : call[p].stage # "idle"}

GoTo(p, state) == call' = [call EXCEPT ![p] = state]

(* Mutant: nobody waits.                                                   *)
BeginFetch_NoWait(p) ==
  /\ p \notin Busy
  /\ GoTo(p, FirstAttempt)
  /\ cancelled' = cancelled \ {p}
  /\ overtaken' = overtaken \ {p}
  /\ UNCHANGED sinceOK

(* Mutant: it sleeps as long as has elapsed, not what is left.             *)
BeginFetch_SleepsElapsed(p) ==
  /\ p \notin Busy
  /\ GoTo(p, IF sinceOK < MinInterval THEN Waiting(sinceOK) ELSE FirstAttempt)
  /\ cancelled' = cancelled \ {p}
  /\ overtaken' = overtaken \ {p}
  /\ UNCHANGED sinceOK

(* FetchPrices up to waitForRateLimit, which decides how long to sleep from*)
(* the lastRequest it reads here.                                          *)
BeginFetch(p) ==
  /\ p \notin Busy
  /\ GoTo(p, IF sinceOK < MinInterval THEN Waiting(MinInterval - sinceOK) ELSE FirstAttempt)
  /\ cancelled' = cancelled \ {p}
  /\ overtaken' = overtaken \ {p}
  /\ UNCHANGED sinceOK

(* The sleep of waitForRateLimit ends, or the context does.                *)
WaitOver(p) ==
  /\ call[p].stage = "wait"
  /\ call[p].left = 0 \/ p \in cancelled
  /\ GoTo(p, FirstAttempt)
  /\ UNCHANGED <<sinceOK, cancelled, overtaken>>

(* httpClient.Do: the request leaves, ...                                  *)
SendRequest(p) ==
  /\ call[p].stage = "ready"
  /\ p \notin cancelled
  /\ GoTo(p, InFlight(call[p].attempt, call[p].backoff))
  /\ UNCHANGED <<sinceOK, cancelled, overtaken>>

(* ... or is refused because the context is cancelled.                     *)
RefuseRequest(p) ==
  /\ call[p].stage = "ready"
  /\ p \in cancelled
  /\ GoTo(p, Idle("error"))
  /\ UNCHANGED <<sinceOK, cancelled, overtaken>>

(* A 200: lastRequest is set, then the body is read and parsed, which may  *)
(* still fail.                                                             *)
Answered(p) ==
  /\ call[p].stage = "sent"
  /\ \E result \in Results : GoTo(p, Idle(result))
  /\ sinceOK' = 0
  /\ overtaken' = Busy \ {p}
  /\ UNCHANGED cancelled

(* A 429: sleep, whatever the number of the attempt.                       *)
TooManyRequests(p) ==
  /\ call[p].stage = "sent"
  /\ GoTo(p, BackingOff(call[p].attempt, call[p].backoff, call[p].backoff))
  /\ UNCHANGED <<sinceOK, cancelled, overtaken>>

NextAttempt(state) == Ready(state.attempt + 1, 2 * state.backoff)

(* Mutant: the attempts are not counted.                                   *)
BackoffOver_Uncounted(p) ==
  /\ call[p].stage = "backoff"
  /\ call[p].left = 0
  /\ GoTo(p, Ready(call[p].attempt, call[p].backoff))
  /\ UNCHANGED <<sinceOK, cancelled, overtaken>>

(* The back-off ends with the next attempt, whose own would be twice as    *)
(* long, or with "max retries exceeded".                                   *)
BackoffOver(p) ==
  /\ call[p].stage = "backoff"
  /\ call[p].left = 0
  /\ GoTo(p, IF call[p].attempt + 1 \in Attempts THEN NextAttempt(call[p])
             ELSE Idle("error"))
  /\ UNCHANGED <<sinceOK, cancelled, overtaken>>

(* Any other status, a transport error or time-out, or a context cancelled *)
(* under way: the call fails and lastRequest stays as it is.               *)
FailFetch(p) ==
  /\ \/ call[p].stage = "sent"
     \/ call[p].stage = "backoff" /\ p \in cancelled
  /\ GoTo(p, Idle("error"))
  /\ UNCHANGED <<sinceOK, cancelled, overtaken>>

CancelContext(p) ==
  /\ p \in Busy \ cancelled
  /\ cancelled' = cancelled \cup {p}
  /\ UNCHANGED <<sinceOK, call, overtaken>>

Older(age) == IF age < MinInterval THEN age + 1 ELSE age

Slept(state) ==
  IF state.stage \in {"wait", "backoff"} /\ state.left > 0
    THEN [state EXCEPT !.left = @ - 1] ELSE state

(* A second passes.                                                        *)
Tick ==
  /\ sinceOK' = Older(sinceOK)
  /\ call' = [p \in Callers |-> Slept(call[p])]
  /\ UNCHANGED <<cancelled, overtaken>>

CallStep(p) ==
  \/ WaitOver(p)
  \/ SendRequest(p)
  \/ RefuseRequest(p)
  \/ Answered(p)
  \/ TooManyRequests(p)
  \/ BackoffOver(p)
  \/ FailFetch(p)

Next ==
  \/ \E p \in Callers : BeginFetch(p)
  \/ \E p \in Callers : CallStep(p)
  \/ \E p \in Callers : CancelContext(p)
  \/ Tick

Spec == Init /\ [][Next]_vars

(* Time passes, timers fire, and the HTTP client gives up after its        *)
(* Timeout if no answer comes.                                             *)
FairSpec == Spec /\ WF_vars(Tick) /\ \A p \in Callers : WF_vars(CallStep(p))

-----------------------------------------------------------------------------
TypeOK ==
  /\ sinceOK \in Ages
  /\ call \in [Callers -> CallState]
  /\ cancelled \in SUBSET Callers
  /\ overtaken \in SUBSET Callers

(* However many goroutines share the client and however they are           *)
(* cancelled, a call that began after the last successful one sends none of*)
(* its requests within MinInterval of it.                                  *)
SpacedFromSuccess ==
  \A p \in Callers :
    call[p].stage = "sent" /\ p \notin overtaken => sinceOK = MinInterval

(* What a call still has to sleep covers what is missing of the interval.  *)
WaitsAreLongEnough ==
  \A p \in Callers \ overtaken :
    /\ call[p].stage = "wait" => sinceOK + call[p].left >= MinInterval
    /\ call[p].stage = "ready" /\ p \notin cancelled => sinceOK = MinInterval
    /\ call[p].stage \in {"sent", "backoff"} => sinceOK = MinInterval

(* A fetch always comes to an end: waits, back-offs and retries are        *)
(* bounded, also for a cancelled caller.                                   *)
FetchesReturn == \A p \in Callers : p \in Busy ~> p \notin Busy
==============================================================================
