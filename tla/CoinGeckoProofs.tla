--------------------------- MODULE CoinGeckoProofs ---------------------------
(***************************************************************************)
(* CoinGecko keeps its distance for any number of goroutines that share    *)
(* the client, any minimal interval and any number of attempts.            *)
(*                                                                         *)
(* What a call may do later is decided from a lastRequest it read before a *)
(* sleep.  WaitsAreLongEnough carries the decision through the sleep: the  *)
(* age of lastRequest and what is left of the sleep make up the interval   *)
(* unless a 200 came in between, which makes the call an overtaken one.    *)
(***************************************************************************)
EXTENDS CoinGecko, TLAPS

IInv == TypeOK /\ WaitsAreLongEnough

(* The states of a call, constructor by constructor.                       *)
LEMMA ShapesAreCallStates ==
  /\ \A result \in Results : Idle(result) \in CallState
  /\ \A left \in Ages : Waiting(left) \in CallState
  /\ FirstAttempt \in CallState
  /\ \A k \in Attempts, b \in Nat : Ready(k, b) \in CallState
  /\ \A k \in Attempts, b \in Nat : InFlight(k, b) \in CallState
  /\ \A k \in Attempts, b, left \in Nat : BackingOff(k, b, left) \in CallState
<1>1. 0 \in Attempts
  BY TimesAssumption DEF Attempts
<1>2. QED
  BY <1>1 DEF CallState, Idle, Waiting, FirstAttempt, Ready, InFlight, BackingOff

(* What a call's own step needs to keep the invariant: its new state is a  *)
(* call state and keeps the distance; nobody else moves.                   *)
LEMMA OwnStep ==
  ASSUME IInv, NEW p \in Callers, NEW state \in CallState,
         GoTo(p, state), sinceOK' = sinceOK, cancelled' \in SUBSET Callers,
         overtaken' \in SUBSET Callers,
         cancelled' \ {p} = cancelled \ {p}, overtaken' \ {p} = overtaken \ {p},
         p \notin overtaken' =>
           /\ state.stage = "wait" => sinceOK + state.left >= MinInterval
           /\ state.stage = "ready" /\ p \notin cancelled' => sinceOK = MinInterval
           /\ state.stage \in {"sent", "backoff"} => sinceOK = MinInterval
  PROVE  IInv'
<1>1. TypeOK'
  BY DEF IInv, TypeOK, GoTo
<1>2. call'[p] = state /\ \A q \in Callers \ {p} : call'[q] = call[q]
  BY DEF IInv, TypeOK, GoTo
<1>3. ASSUME NEW q \in Callers \ overtaken' PROVE
        /\ call'[q].stage = "wait" => sinceOK' + call'[q].left >= MinInterval
        /\ call'[q].stage = "ready" /\ q \notin cancelled' => sinceOK' = MinInterval
        /\ call'[q].stage \in {"sent", "backoff"} => sinceOK' = MinInterval
  <2>1. CASE q = p
    BY <1>2, <2>1
  <2>2. CASE q # p
    <3>1. q \in Callers \ overtaken /\ call'[q] = call[q]
      BY <1>2, <2>2
    <3>2. q \in cancelled' <=> q \in cancelled
      BY <2>2
    <3>3. QED
      BY <3>1, <3>2 DEF IInv, WaitsAreLongEnough
  <2>3. QED
    BY <2>1, <2>2
<1>4. QED
  BY <1>1, <1>3 DEF IInv, WaitsAreLongEnough

(* The read of lastRequest and the sleep it decides on.                    *)
LEMMA BeginFetchStep ==
  ASSUME IInv, NEW p \in Callers, BeginFetch(p)
  PROVE  IInv'
<1> DEFINE state == IF sinceOK < MinInterval THEN Waiting(MinInterval - sinceOK) ELSE FirstAttempt
<1>1. sinceOK \in Ages /\ MinInterval \in Nat
  BY TimesAssumption DEF IInv, TypeOK
<1>2. CASE sinceOK < MinInterval
  <2>1. MinInterval - sinceOK \in Ages /\ sinceOK + (MinInterval - sinceOK) >= MinInterval
    BY <1>1, <1>2 DEF Ages
  <2>2. state = Waiting(MinInterval - sinceOK) /\ state \in CallState
    BY <1>2, <2>1, ShapesAreCallStates
  <2>3. QED
    BY <2>1, <2>2, OwnStep DEF BeginFetch, IInv, TypeOK, Waiting
<1>3. CASE ~(sinceOK < MinInterval)
  <2>1. sinceOK = MinInterval
    BY <1>1, <1>3 DEF Ages
  <2>2. state = FirstAttempt /\ state \in CallState
    BY <1>3, ShapesAreCallStates
  <2>3. QED
    BY <2>1, <2>2, OwnStep DEF BeginFetch, IInv, TypeOK, FirstAttempt, Ready
<1>4. QED
  BY <1>2, <1>3

(* The end of the sleep: nothing is left of it, or the call is cancelled   *)
(* and sends nothing.                                                      *)
LEMMA WaitOverStep ==
  ASSUME IInv, NEW p \in Callers, WaitOver(p)
  PROVE  IInv'
<1>1. sinceOK \in Ages /\ MinInterval \in Nat /\ FirstAttempt \in CallState
  BY TimesAssumption, ShapesAreCallStates DEF IInv, TypeOK
<1>2. p \notin overtaken /\ p \notin cancelled => sinceOK = MinInterval
  BY <1>1 DEF WaitOver, IInv, WaitsAreLongEnough, Ages
<1>3. QED
  BY <1>1, <1>2, OwnStep DEF WaitOver, IInv, TypeOK, FirstAttempt, Ready

(* The attempts of a call, which all keep the distance the first one had.  *)
LEMMA AttemptStep ==
  ASSUME IInv, NEW p \in Callers,
         \/ SendRequest(p) \/ RefuseRequest(p) \/ TooManyRequests(p)
         \/ BackoffOver(p) \/ FailFetch(p)
  PROVE  IInv'
<1>1. call[p] \in CallState /\ Idle("error") \in CallState
  BY ShapesAreCallStates DEF IInv, TypeOK, Results
<1>2. CASE SendRequest(p)
  <2>1. call[p].attempt \in Attempts /\ call[p].backoff \in Nat
    BY <1>1, <1>2 DEF SendRequest, CallState
  <2>2. InFlight(call[p].attempt, call[p].backoff) \in CallState
    BY <2>1, ShapesAreCallStates
  <2>3. QED
    BY <1>2, <2>2, OwnStep DEF SendRequest, IInv, TypeOK, WaitsAreLongEnough, InFlight
<1>3. CASE RefuseRequest(p)
  BY <1>1, <1>3, OwnStep DEF RefuseRequest, IInv, TypeOK, Idle
<1>4. CASE TooManyRequests(p)
  <2>1. call[p].attempt \in Attempts /\ call[p].backoff \in Nat
    BY <1>1, <1>4 DEF TooManyRequests, CallState
  <2>2. BackingOff(call[p].attempt, call[p].backoff, call[p].backoff) \in CallState
    BY <2>1, ShapesAreCallStates
  <2>3. QED
    BY <1>4, <2>2, OwnStep DEF TooManyRequests, IInv, TypeOK, WaitsAreLongEnough, BackingOff
<1>5. CASE BackoffOver(p)
  <2>1. call[p].attempt \in Attempts /\ call[p].backoff \in Nat
    BY <1>1, <1>5 DEF BackoffOver, CallState
  <2>2. CASE call[p].attempt + 1 \in Attempts
    <3>1. NextAttempt(call[p]) \in CallState
      <4>1. 2 * call[p].backoff \in Nat
        BY <2>1
      <4>2. QED
        BY <4>1, <2>2, ShapesAreCallStates DEF NextAttempt
    <3>2. QED
      BY <1>5, <2>2, <3>1, OwnStep
         DEF BackoffOver, IInv, TypeOK, WaitsAreLongEnough, NextAttempt, Ready
  <2>3. CASE call[p].attempt + 1 \notin Attempts
    BY <1>1, <1>5, <2>3, OwnStep DEF BackoffOver, IInv, TypeOK, Idle
  <2>4. QED
    BY <2>2, <2>3
<1>6. CASE FailFetch(p)
  BY <1>1, <1>6, OwnStep DEF FailFetch, IInv, TypeOK, Idle
<1>7. QED
  BY <1>2, <1>3, <1>4, <1>5, <1>6

(* A 200 overtakes every other call under way; whoever is not overtaken is *)
(* idle.                                                                   *)
LEMMA AnsweredStep ==
  ASSUME IInv, NEW p \in Callers, Answered(p)
  PROVE  IInv'
<1>1. PICK result \in Results : GoTo(p, Idle(result))
  BY DEF Answered
<1>2. 0 \in Ages /\ Idle(result) \in CallState
  BY TimesAssumption, ShapesAreCallStates DEF Ages
<1>3. TypeOK'
  BY <1>1, <1>2 DEF IInv, TypeOK, Answered, GoTo, Busy
<1>4. ASSUME NEW q \in Callers \ overtaken' PROVE call'[q].stage = "idle"
  BY <1>1 DEF IInv, TypeOK, Answered, GoTo, Busy, Idle
<1>5. QED
  BY <1>3, <1>4 DEF IInv, WaitsAreLongEnough

(* A second passes: what lastRequest gains in age, the sleeps lose.        *)
LEMMA TickStep ==
  ASSUME IInv, Tick
  PROVE  IInv'
<1>1. sinceOK \in Ages /\ MinInterval \in Nat
  BY TimesAssumption DEF IInv, TypeOK
<1>2. /\ sinceOK' \in Ages
      /\ sinceOK = MinInterval => sinceOK' = MinInterval
      /\ sinceOK' = sinceOK + 1 \/ sinceOK' = MinInterval
  BY <1>1 DEF Tick, Older, Ages
<1>3. ASSUME NEW q \in Callers PROVE
        /\ Slept(call[q]) \in CallState
        /\ Slept(call[q]).stage = call[q].stage
        /\ call[q].stage = "wait" =>
             /\ call[q].left \in Nat
             /\ Slept(call[q]).left \in Nat
             /\ Slept(call[q]).left + 1 >= call[q].left
  <2>1. call[q] \in CallState
    BY DEF IInv, TypeOK
  <2>2. CASE call[q].stage = "wait" /\ call[q].left > 0
    <3>1. PICK left \in Ages : call[q] = Waiting(left)
      BY <2>1, <2>2 DEF CallState, Waiting
    <3>2. Slept(call[q]) = Waiting(left - 1)
      BY <2>2, <3>1 DEF Slept, Waiting
    <3>3. left - 1 \in Ages
      BY <1>1, <2>2, <3>1 DEF Ages, Waiting
    <3>4. QED
      BY <3>1, <3>2, <3>3, <1>1, ShapesAreCallStates DEF Waiting, Ages
  <2>3. CASE call[q].stage = "backoff" /\ call[q].left > 0
    <3>1. PICK k \in Attempts, b \in Nat, left \in Nat : call[q] = BackingOff(k, b, left)
      BY <2>1, <2>3 DEF CallState, BackingOff
    <3>2. Slept(call[q]) = BackingOff(k, b, left - 1)
      BY <2>3, <3>1 DEF Slept, BackingOff
    <3>3. left - 1 \in Nat
      BY <2>3, <3>1 DEF BackingOff
    <3>4. QED
      BY <3>1, <3>2, <3>3, ShapesAreCallStates DEF BackingOff
  <2>4. CASE ~(call[q].stage \in {"wait", "backoff"} /\ call[q].left > 0)
    <3>1. Slept(call[q]) = call[q]
      BY <2>4 DEF Slept
    <3>2. call[q].stage = "wait" => call[q].left \in Nat
      BY <2>1, <1>1 DEF CallState, Ages
    <3>3. QED
      BY <2>1, <3>1, <3>2
  <2>5. QED
    BY <2>2, <2>3, <2>4
<1>4. TypeOK'
  BY <1>2, <1>3 DEF Tick, IInv, TypeOK
<1>5. ASSUME NEW q \in Callers \ overtaken' PROVE
        /\ call'[q].stage = "wait" => sinceOK' + call'[q].left >= MinInterval
        /\ call'[q].stage = "ready" /\ q \notin cancelled' => sinceOK' = MinInterval
        /\ call'[q].stage \in {"sent", "backoff"} => sinceOK' = MinInterval
  <2>1. q \in Callers \ overtaken /\ call'[q] = Slept(call[q]) /\ cancelled' = cancelled
    BY DEF Tick, IInv, TypeOK
  <2>2. ASSUME call'[q].stage = "wait" PROVE sinceOK' + call'[q].left >= MinInterval
    <3>1. sinceOK + call[q].left >= MinInterval
      BY <1>3, <2>1, <2>2 DEF IInv, WaitsAreLongEnough
    <3>2. call[q].left \in Nat /\ call'[q].left \in Nat /\ call'[q].left + 1 >= call[q].left
      BY <1>3, <2>1, <2>2
    <3>3. QED
      BY <1>1, <1>2, <3>1, <3>2 DEF Ages
  <2>3. QED
    BY <1>2, <1>3, <2>1, <2>2 DEF IInv, WaitsAreLongEnough
<1>6. QED
  BY <1>4, <1>5 DEF IInv, WaitsAreLongEnough

(* A cancellation asks no more of anybody.                                 *)
LEMMA CancelContextStep ==
  ASSUME IInv, NEW p \in Callers, CancelContext(p)
  PROVE  IInv'
BY DEF CancelContext, IInv, TypeOK, WaitsAreLongEnough

LEMMA InitIInv == Init => IInv
<1> SUFFICES ASSUME Init PROVE IInv
  OBVIOUS
<1>1. TypeOK
  BY TimesAssumption, ShapesAreCallStates DEF Init, TypeOK, Ages, Results
<1>2. QED
  BY <1>1 DEF Init, IInv, WaitsAreLongEnough, Idle

LEMMA NextIInv == IInv /\ [Next]_vars => IInv'
<1> SUFFICES ASSUME IInv, [Next]_vars PROVE IInv'
  OBVIOUS
<1>1. ASSUME NEW p \in Callers, BeginFetch(p) PROVE IInv'
  BY <1>1, BeginFetchStep
<1>2. ASSUME NEW p \in Callers, CallStep(p) PROVE IInv'
  BY <1>2, WaitOverStep, AttemptStep, AnsweredStep DEF CallStep
<1>3. ASSUME NEW p \in Callers, CancelContext(p) PROVE IInv'
  BY <1>3, CancelContextStep
<1>4. CASE Tick
  BY <1>4, TickStep
<1>5. CASE UNCHANGED vars
  BY <1>5 DEF vars, IInv, TypeOK, WaitsAreLongEnough
<1>6. QED
  BY <1>1, <1>2, <1>3, <1>4, <1>5 DEF Next

-----------------------------------------------------------------------------
(* The inductive invariant.                                                *)
THEOREM IInvHolds == Spec => []IInv
BY InitIInv, NextIInv, PTL DEF Spec

(* The shared client's time stamp, the calls and their back-offs keep their*)
(* types, however many goroutines use it.                                  *)
THEOREM TypeCorrect == Spec => []TypeOK
<1>1. IInv => TypeOK
  BY DEF IInv
<1>2. QED
  BY IInvHolds, <1>1, PTL

(* What a call still has to sleep covers what is missing of the interval.  *)
THEOREM WaitsStayLongEnough == Spec => []WaitsAreLongEnough
<1>1. IInv => WaitsAreLongEnough
  BY DEF IInv
<1>2. QED
  BY IInvHolds, <1>1, PTL

(* A call that began after the last 200 sends none of its requests within  *)
(* MinInterval of it, although lastRequest has no lock and the calls sleep *)
(* between reading it and sending.                                         *)
THEOREM RequestsStaySpaced == Spec => []SpacedFromSuccess
<1>1. IInv => SpacedFromSuccess
  BY DEF IInv, WaitsAreLongEnough, SpacedFromSuccess
<1>2. QED
  BY IInvHolds, <1>1, PTL
==============================================================================
