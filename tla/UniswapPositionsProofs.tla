------------------------ MODULE UniswapPositionsProofs ------------------------
(***************************************************************************)
(* For any tokens, any holdings at the start and any number of moves: what *)
(* GetPositions promises of the list it returns.                           *)
(*                                                                         *)
(* The loop relates what it has read (Read, by ReadCount indices) to what  *)
(* the wallet holds.  A token that was read is still held or has left, and *)
(* is not ahead unless it returned: a departure moves tokens only towards  *)
(* lower indices.  As long as nothing left the wallet, what is kept is     *)
(* read or ahead; once something left and nothing came, the last index     *)
(* will revert, unless it has been read.                                   *)
(***************************************************************************)
EXTENDS UniswapPositions, TLAPS

Arrived  == came # {}
Departed == left # {}

Looping   == call.stage \in {"index", "token"}
Read      == IF call.stage = "token" THEN Range(call.list) \cup {call.token} ELSE Range(call.list)
ReadCount == IF call.stage = "token" THEN call.i + 1 ELSE call.i

(* How many tokens the wallet has by what came and left since balanceOf.   *)
CountTells ==
  /\ ~Departed => Len(owned) >= call.balance
  /\ ~Arrived => Len(owned) <= call.balance
  /\ ~Arrived /\ Departed => Len(owned) < call.balance

(* What was read is still there, and what is listed was held open, except  *)
(* for tokens that left.                                                   *)
ReadIsHeld ==
  Read \subseteq Range(owned) \cup left /\ Range(call.list) \subseteq seen \cup left

(* No two entries of a list are equal, except for tokens that returned.    *)
Once(list) ==
  \A j, k \in DOMAIN list : list[j] = list[k] => j = k \/ list[j] \in returned

(* Nothing that was read is ahead, except for tokens that returned.        *)
ReadOnce ==
  /\ Once(call.list)
  /\ call.stage = "token" => call.token \notin Range(call.list) \/ call.token \in returned
  /\ \A j \in DOMAIN owned : j > ReadCount => owned[j] \notin Read \/ owned[j] \in returned

(* What is kept was read, or is ahead among the indices that will be read. *)
KeptIsRead ==
  /\ ~Departed => kept \subseteq Read \cup {owned[j] : j \in (ReadCount + 1)..call.balance}
  /\ Departed /\ ~Arrived => ReadCount < call.balance \/ kept \subseteq Read

LoopInv == Looping => CountTells /\ ReadIsHeld /\ ReadOnce /\ KeptIsRead

HistoryInv ==
  /\ kept \subseteq HeldOpen
  /\ call.stage \in {"index", "token", "done"} => HeldOpen \subseteq seen

DoneInv == AnswersAreComplete /\ NoPositionTwice /\ ListedWereHeldOpen

IInv == TypeOK /\ HistoryInv /\ LoopInv /\ DoneInv

-----------------------------------------------------------------------------
(* Sequences.                                                              *)
LEMMA RangeOfSeq ==
  ASSUME NEW S, NEW s \in Seq(S)
  PROVE  /\ DOMAIN s = 1..Len(s) /\ Len(s) \in Nat
         /\ Range(s) \subseteq S
         /\ \A j \in 1..Len(s) : s[j] \in Range(s) /\ s[j] \in S
         /\ \A x \in Range(s) : \E j \in 1..Len(s) : s[j] = x
BY DEF Range

LEMMA RangeOfEmpty == Range(<<>>) = {} /\ Once(<<>>)
BY DEF Range, Once

LEMMA AppendFacts ==
  ASSUME NEW S, NEW s \in Seq(S), NEW x \in S
  PROVE  /\ Append(s, x) \in Seq(S) /\ Len(Append(s, x)) = Len(s) + 1
         /\ Range(Append(s, x)) = Range(s) \cup {x}
         /\ \A j \in 1..Len(s) : Append(s, x)[j] = s[j]
         /\ Append(s, x)[Len(s) + 1] = x
         /\ IsInjective(s) /\ x \notin Range(s) => IsInjective(Append(s, x))
         /\ Once(s) /\ (x \notin Range(s) \/ x \in returned) => Once(Append(s, x))
<1> DEFINE a == Append(s, x)
<1>1. /\ a \in Seq(S) /\ Len(a) = Len(s) + 1 /\ Len(s) \in Nat
      /\ \A j \in 1..Len(s) : a[j] = s[j]
      /\ a[Len(s) + 1] = x
  OBVIOUS
<1>2. DOMAIN a = 1..(Len(s) + 1) /\ DOMAIN s = 1..Len(s)
  BY <1>1
<1> HIDE DEF a
<1>3. \A j \in 1..(Len(s) + 1) : j \in 1..Len(s) \/ j = Len(s) + 1
  BY <1>1
<1>4. Range(a) = Range(s) \cup {x}
  <2>1. Len(s) + 1 \in DOMAIN a /\ DOMAIN s \subseteq DOMAIN a
    BY <1>1, <1>2
  <2>2. Range(a) \subseteq Range(s) \cup {x}
    BY <1>1, <1>2, <1>3 DEF Range
  <2>3. Range(s) \cup {x} \subseteq Range(a)
    BY <1>1, <1>2, <2>1 DEF Range
  <2>4. QED
    BY <2>2, <2>3
<1>5. IsInjective(s) /\ x \notin Range(s) => IsInjective(a)
  <2>1. SUFFICES ASSUME IsInjective(s), x \notin Range(s),
                        NEW j \in DOMAIN a, NEW k \in DOMAIN a, a[j] = a[k]
                 PROVE  j = k
    BY DEF IsInjective
  <2>2. j \in 1..Len(s) => s[j] \in Range(s)
    BY <1>2 DEF Range
  <2>3. k \in 1..Len(s) => s[k] \in Range(s)
    BY <1>2 DEF Range
  <2>4. QED
    BY <1>1, <1>2, <1>3, <2>1, <2>2, <2>3 DEF IsInjective
<1>6. Once(s) /\ (x \notin Range(s) \/ x \in returned) => Once(a)
  <2>1. SUFFICES ASSUME Once(s), x \notin Range(s) \/ x \in returned,
                        NEW j \in DOMAIN a, NEW k \in DOMAIN a, a[j] = a[k]
                 PROVE  j = k \/ a[j] \in returned
    BY DEF Once
  <2>2. j \in 1..Len(s) => s[j] \in Range(s)
    BY <1>2 DEF Range
  <2>3. k \in 1..Len(s) => s[k] \in Range(s)
    BY <1>2 DEF Range
  <2>4. QED
    BY <1>1, <1>2, <1>3, <2>1, <2>2, <2>3 DEF Once
<1>7. QED
  BY <1>1, <1>4, <1>5, <1>6 DEF a

(* The last token takes the place of the one that leaves.                  *)
LEMMA SwapAndPopFacts ==
  ASSUME TypeOK, NEW i \in DOMAIN owned
  PROVE  LET n == Len(owned)
             s == SwapAndPop(i)
         IN  /\ n \in Nat /\ n >= 1 /\ i \in 1..n
             /\ s \in Seq(Tokens) /\ Len(s) = n - 1 /\ IsInjective(s)
             /\ \A j \in 1..(n - 1) : s[j] = IF j = i THEN owned[n] ELSE owned[j]
             /\ Range(s) \subseteq Range(owned) /\ owned[i] \notin Range(s)
<1> DEFINE n == Len(owned)
           e == [owned EXCEPT ![i] = owned[n]]
           s == SwapAndPop(i)
<1>1. /\ owned \in Seq(Tokens) /\ IsInjective(owned) /\ DOMAIN owned = 1..n
      /\ n \in Nat /\ n >= 1 /\ i \in 1..n
  BY DEF TypeOK
<1>2. e \in Seq(Tokens) /\ Len(e) = n /\ \A j \in 1..n : e[j] = IF j = i THEN owned[n] ELSE owned[j]
  BY <1>1
<1>3. s = SubSeq(e, 1, n - 1)
  BY DEF SwapAndPop
<1> HIDE DEF e
<1>4. s \in Seq(Tokens) /\ Len(s) = n - 1 /\ \A j \in 1..(n - 1) : s[j] = e[j]
  BY <1>1, <1>2, <1>3
<1> HIDE DEF s, n
<1>5. DOMAIN s = 1..(n - 1) /\ \A j \in 1..(n - 1) : j \in 1..n /\ j # n
  BY <1>1, <1>4, RangeOfSeq
<1>6. \A j \in 1..(n - 1) : s[j] = IF j = i THEN owned[n] ELSE owned[j]
  BY <1>2, <1>4, <1>5
<1>7. IsInjective(s)
  <2>1. SUFFICES ASSUME NEW j \in 1..(n - 1), NEW k \in 1..(n - 1), s[j] = s[k] PROVE j = k
    BY <1>5 DEF IsInjective
  <2>2. \A l, m \in 1..n : owned[l] = owned[m] => l = m
    BY <1>1 DEF IsInjective
  <2>3. QED
    BY <1>1, <1>5, <1>6, <2>1, <2>2
<1>8. Range(s) \subseteq Range(owned)
  <2>1. \A j \in 1..(n - 1) : s[j] \in {owned[k] : k \in 1..n}
    BY <1>1, <1>5, <1>6
  <2>2. QED
    BY <1>1, <1>5, <2>1 DEF Range
<1>9. owned[i] \notin Range(s)
  <2>1. \A l, m \in 1..n : owned[l] = owned[m] => l = m
    BY <1>1 DEF IsInjective
  <2>2. \A j \in 1..(n - 1) : s[j] # owned[i]
    BY <1>1, <1>5, <1>6, <2>1
  <2>3. QED
    BY <1>5, <2>2 DEF Range
<1>10. QED
  BY <1>1, <1>4, <1>6, <1>7, <1>8, <1>9 DEF s, n

-----------------------------------------------------------------------------
(* The chain moves.                                                        *)
LEMMA InitIInv == Init => IInv
<1> SUFFICES ASSUME Init PROVE IInv
  OBVIOUS
<1>1. /\ owned \in Seq(Tokens) /\ IsInjective(owned) /\ liquid \in SUBSET Tokens
      /\ burnt = {} /\ moves \in 0..MaxMoves /\ call = [stage |-> "idle"]
      /\ kept = {} /\ seen = {} /\ came = {} /\ left = {} /\ returned = {}
  BY UniswapAssumption DEF Init, Idle
<1>2. short \in BOOLEAN
  BY DEF Init
<1>3. TypeOK
  BY <1>1, <1>2 DEF TypeOK
<1>4. QED
  BY <1>1, <1>3 DEF IInv, HistoryInv, LoopInv, Looping, DoneInv,
     AnswersAreComplete, NoPositionTwice, ListedWereHeldOpen

(* What every move does to the histories and to answers already given.     *)
LEMMA MoveFacts ==
  ASSUME IInv, NEW A \in SUBSET Tokens, NEW D \in SUBSET Tokens, Move(A, D),
         liquid' \in SUBSET Tokens, Range(owned') \subseteq Tokens
  PROVE  /\ call' = call /\ moves' \in 0..MaxMoves
         /\ kept' \subseteq kept /\ seen \subseteq seen'
         /\ came' = came \cup A /\ left' = left \cup D
         /\ returned' = returned \cup (A \cap left) /\ short' = short
         /\ kept' \in SUBSET Tokens /\ seen' \in SUBSET Tokens
         /\ came' \in SUBSET Tokens /\ left' \in SUBSET Tokens /\ returned' \in SUBSET Tokens
         /\ HistoryInv' /\ DoneInv'
<1>1. moves' \in 0..MaxMoves
  BY UniswapAssumption DEF Move, IInv, TypeOK
<1>2. /\ call' = call /\ kept' = kept \cap HeldOpen' /\ seen' = seen \cup HeldOpen'
      /\ came' = came \cup A /\ left' = left \cup D
      /\ returned' = returned \cup (A \cap left) /\ short' = short
  BY DEF Move
<1>3. HeldOpen' \subseteq Tokens
  BY DEF HeldOpen
<1>4. HistoryInv'
  BY <1>2 DEF HistoryInv
<1>5. DoneInv'
  BY <1>2 DEF IInv, DoneInv, AnswersAreComplete, NoPositionTwice, ListedWereHeldOpen
<1>6. /\ kept \in SUBSET Tokens /\ seen \in SUBSET Tokens /\ came \in SUBSET Tokens
      /\ left \in SUBSET Tokens /\ returned \in SUBSET Tokens
  BY DEF IInv, TypeOK
<1>7. QED
  BY <1>1, <1>2, <1>3, <1>4, <1>5, <1>6

LEMMA OwnedFacts ==
  ASSUME TypeOK
  PROVE  /\ owned \in Seq(Tokens) /\ IsInjective(owned)
         /\ DOMAIN owned = 1..Len(owned) /\ Len(owned) \in Nat
         /\ Range(owned) \subseteq Tokens
         /\ \A j \in 1..Len(owned) : owned[j] \in Range(owned)
BY RangeOfSeq DEF TypeOK

LEMMA LoopTypes ==
  ASSUME TypeOK, Looping
  PROVE  /\ call.i \in Nat /\ call.balance \in Nat /\ call.i < call.balance
         /\ ReadCount \in Nat /\ ReadCount <= call.balance
         /\ call.list \in Seq(Tokens) /\ Read \subseteq Tokens
<1>1. /\ call.i \in Nat /\ call.balance \in Nat /\ call.i < call.balance
      /\ call.list \in Seq(Tokens) /\ (call.stage = "token" => call.token \in Tokens)
  BY DEF TypeOK, Looping
<1>2. Range(call.list) \subseteq Tokens
  BY <1>1, RangeOfSeq
<1>3. QED
  BY <1>1, <1>2 DEF Read, ReadCount

(* A token arrives at the end, ahead of all that was read.                 *)
LEMMA ReceiveStep ==
  ASSUME IInv, NEW t \in Tokens, Receive(t)
  PROVE  IInv'
<1> DEFINE n == Len(owned)
<1>1. /\ owned' = Append(owned, t) /\ t \notin Range(owned) /\ t \notin burnt
      /\ UNCHANGED <<liquid, burnt>> /\ Move({t}, {}) /\ {t} \in SUBSET Tokens
  BY DEF Receive
<1>2. /\ owned \in Seq(Tokens) /\ IsInjective(owned) /\ n \in Nat /\ DOMAIN owned = 1..n
      /\ Range(owned) \subseteq Tokens
  BY OwnedFacts DEF IInv
<1>3. /\ owned' \in Seq(Tokens) /\ Len(owned') = n + 1 /\ Range(owned') = Range(owned) \cup {t}
      /\ \A j \in 1..n : owned'[j] = owned[j]
      /\ owned'[n + 1] = t /\ IsInjective(owned')
  BY <1>1, <1>2, AppendFacts
<1>4. /\ call' = call /\ moves' \in 0..MaxMoves
      /\ kept' \subseteq kept /\ seen \subseteq seen' /\ short' = short
      /\ came' = came \cup {t} /\ left' = left
      /\ returned' = returned \cup ({t} \cap left)
      /\ kept' \in SUBSET Tokens /\ seen' \in SUBSET Tokens
      /\ came' \in SUBSET Tokens /\ left' \in SUBSET Tokens /\ returned' \in SUBSET Tokens
      /\ HistoryInv' /\ DoneInv'
  <2>1. liquid' \in SUBSET Tokens /\ Range(owned') \subseteq Tokens /\ {} \in SUBSET Tokens
    BY <1>1, <1>2, <1>3 DEF IInv, TypeOK
  <2>2. left \cup {} = left
    OBVIOUS
  <2>3. QED
    BY <1>1, <2>1, <2>2, MoveFacts
<1>5. TypeOK'
  BY <1>1, <1>3, <1>4 DEF IInv, TypeOK
<1>6. Arrived' /\ (Departed' <=> Departed) /\ (Looping' <=> Looping)
      /\ Read' = Read /\ ReadCount' = ReadCount
  BY <1>4 DEF Arrived, Departed, Looping, Read, ReadCount
<1>7. ASSUME Looping PROVE CountTells' /\ ReadIsHeld' /\ ReadOnce' /\ KeptIsRead'
  <2>1. /\ Read \subseteq Range(owned) \cup left /\ Range(call.list) \subseteq seen \cup left
        /\ ReadCount \in Nat /\ ReadCount <= call.balance /\ call.balance \in Nat
    BY <1>7, LoopTypes DEF IInv, LoopInv, ReadIsHeld
  <2>2. ~Departed => n >= call.balance
    BY <1>7 DEF IInv, LoopInv, CountTells
  <2>3. CountTells'
    BY <1>2, <1>3, <1>4, <1>6, <2>1, <2>2 DEF CountTells
  <2>4. ReadIsHeld'
    BY <1>3, <1>4, <1>6, <2>1 DEF ReadIsHeld
  <2>5. ReadOnce'
    <3>1. /\ Once(call.list)
          /\ call.stage = "token" => call.token \notin Range(call.list) \/ call.token \in returned
          /\ \A j \in DOMAIN owned :
               j > ReadCount => owned[j] \notin Read \/ owned[j] \in returned
      BY <1>7 DEF IInv, LoopInv, ReadOnce
    <3>2. DOMAIN owned' = 1..(n + 1) /\ \A j \in 1..(n + 1) : j \in 1..n \/ j = n + 1
      BY <1>2, <1>3, RangeOfSeq
    <3>3. t \in Read => t \in returned'
      BY <1>1, <1>4, <2>1
    <3>4. \A j \in DOMAIN owned' :
            j > ReadCount => owned'[j] \notin Read \/ owned'[j] \in returned'
      BY <1>2, <1>3, <1>4, <3>1, <3>2, <3>3
    <3>5. Once(call.list)'
      BY <1>4, <3>1 DEF Once
    <3>6. QED
      BY <1>4, <1>6, <3>1, <3>4, <3>5 DEF ReadOnce
  <2>6. KeptIsRead'
    <3>1. CASE Departed
      BY <1>6, <3>1 DEF KeptIsRead
    <3>2. CASE ~Departed
      <4>1. kept \subseteq Read \cup {owned[j] : j \in (ReadCount + 1)..call.balance}
        BY <1>7, <3>2 DEF IInv, LoopInv, KeptIsRead
      <4>2. \A j \in (ReadCount + 1)..call.balance : j \in 1..n
        BY <1>2, <2>1, <2>2, <3>2
      <4>3. \A j \in (ReadCount + 1)..call.balance : owned'[j] = owned[j]
        BY <1>3, <4>2
      <4>4. kept' \subseteq Read \cup {owned'[j] : j \in (ReadCount + 1)..call.balance}
        BY <1>4, <4>1, <4>3
      <4>5. QED
        BY <1>4, <1>6, <3>2, <4>4 DEF KeptIsRead
    <3>3. QED
      BY <3>1, <3>2
  <2>7. QED
    BY <2>3, <2>4, <2>5, <2>6
<1>8. QED
  BY <1>4, <1>5, <1>6, <1>7 DEF IInv, LoopInv

(* A token leaves: if none came, the enumeration is shorter than the loop  *)
(* will go, unless it has read the last index.                             *)
LEMMA SendStep ==
  ASSUME IInv, NEW i \in DOMAIN owned, Send(i)
  PROVE  IInv'
<1> DEFINE n == Len(owned)
<1>1. /\ owned' = SwapAndPop(i) /\ liquid' = liquid
      /\ burnt' \in {burnt, burnt \cup {owned[i]}}
      /\ Move({}, {owned[i]})
  BY DEF Send
<1>2. /\ n \in Nat /\ n >= 1 /\ i \in 1..n /\ DOMAIN owned = 1..n /\ Range(owned) \subseteq Tokens
      /\ owned[i] \in Tokens
  BY OwnedFacts, SwapAndPopFacts DEF IInv, TypeOK
<1>3. /\ owned' \in Seq(Tokens) /\ Len(owned') = n - 1 /\ IsInjective(owned')
      /\ \A j \in 1..(n - 1) : owned'[j] = IF j = i THEN owned[n] ELSE owned[j]
      /\ Range(owned') \subseteq Range(owned) /\ owned[i] \notin Range(owned')
  BY <1>1, SwapAndPopFacts DEF IInv
<1>4. /\ call' = call /\ moves' \in 0..MaxMoves
      /\ kept' \subseteq kept /\ seen \subseteq seen' /\ short' = short
      /\ came' = came /\ left' = left \cup {owned[i]} /\ returned' = returned
      /\ kept' \in SUBSET Tokens /\ seen' \in SUBSET Tokens
      /\ came' \in SUBSET Tokens /\ left' \in SUBSET Tokens /\ returned' \in SUBSET Tokens
      /\ HistoryInv' /\ DoneInv'
  <2>1. liquid' \in SUBSET Tokens /\ Range(owned') \subseteq Tokens /\ {owned[i]} \in SUBSET Tokens
    BY <1>1, <1>2, <1>3 DEF IInv, TypeOK
  <2>2. came \cup {} = came /\ returned \cup ({} \cap left) = returned /\ {} \in SUBSET Tokens
    OBVIOUS
  <2>3. QED
    BY <1>1, <2>1, <2>2, MoveFacts
<1>5. TypeOK'
  BY <1>1, <1>2, <1>3, <1>4 DEF IInv, TypeOK
<1>6. (Arrived' <=> Arrived) /\ Departed' /\ (Looping' <=> Looping)
      /\ Read' = Read /\ ReadCount' = ReadCount
  BY <1>4 DEF Arrived, Departed, Looping, Read, ReadCount
<1>7. ASSUME Looping PROVE CountTells' /\ ReadIsHeld' /\ ReadOnce' /\ KeptIsRead'
  <2>1. /\ Read \subseteq Range(owned) \cup left /\ Range(call.list) \subseteq seen \cup left
        /\ ReadCount \in Nat /\ ReadCount <= call.balance /\ call.balance \in Nat
    BY <1>7, LoopTypes DEF IInv, LoopInv, ReadIsHeld
  <2>2. ~Arrived => n <= call.balance
    BY <1>7 DEF IInv, LoopInv, CountTells
  <2>3. CountTells'
    BY <1>2, <1>3, <1>4, <1>6, <2>1, <2>2 DEF CountTells
  <2>4. ReadIsHeld'
    <3>1. Range(owned) \subseteq Range(owned') \cup {owned[i]}
      <4>1. \A j \in 1..n : owned[j] \in Range(owned') \cup {owned[i]}
        <5>1. SUFFICES ASSUME NEW j \in 1..n, j # i PROVE owned[j] \in Range(owned')
          OBVIOUS
        <5>2. \A l \in 1..(n - 1) : owned'[l] \in Range(owned')
          BY <1>3, RangeOfSeq
        <5>3. CASE j = n
          BY <1>2, <1>3, <5>1, <5>2, <5>3
        <5>4. CASE j # n
          <6>1. j \in 1..(n - 1)
            <7>1. \A m \in Nat : \A x \in 1..m : x # m => x \in 1..(m - 1)
              OBVIOUS
            <7>2. QED
              BY <1>2, <5>1, <5>4, <7>1
          <6>2. owned'[j] = owned[j]
            BY <1>3, <5>1, <6>1
          <6>3. QED
            BY <5>2, <6>1, <6>2
        <5>5. QED
          BY <5>3, <5>4
      <4>2. QED
        BY <1>2, <4>1 DEF Range
    <3>2. QED
      BY <1>4, <1>6, <2>1, <3>1 DEF ReadIsHeld
  <2>5. ReadOnce'
    <3>1. /\ Once(call.list)
          /\ call.stage = "token" => call.token \notin Range(call.list) \/ call.token \in returned
          /\ \A j \in DOMAIN owned :
               j > ReadCount => owned[j] \notin Read \/ owned[j] \in returned
      BY <1>7 DEF IInv, LoopInv, ReadOnce
    <3>2. DOMAIN owned' = 1..(n - 1)
      BY <1>3, RangeOfSeq
    <3>3. \A j \in 1..(n - 1) :
            j > ReadCount => owned'[j] \notin Read \/ owned'[j] \in returned
      <4>1. \A j \in 1..(n - 1) : j \in 1..n /\ (j > ReadCount => n > ReadCount)
        BY <1>2, <2>1
      <4>2. n \in 1..n
        BY <1>2
      <4>3. QED
        BY <1>2, <1>3, <3>1, <4>1, <4>2
    <3>4. Once(call.list)'
      BY <1>4, <3>1 DEF Once
    <3>5. QED
      BY <1>4, <1>6, <3>1, <3>2, <3>3, <3>4 DEF ReadOnce
  <2>6. KeptIsRead'
    <3>1. CASE Arrived
      BY <1>6, <3>1 DEF KeptIsRead
    <3>2. CASE ~Arrived
      <4>1. CASE Departed
        <5>1. ReadCount < call.balance \/ kept \subseteq Read
          BY <1>7, <3>2, <4>1 DEF IInv, LoopInv, KeptIsRead
        <5>2. QED
          BY <1>4, <1>6, <5>1 DEF KeptIsRead
      <4>2. CASE ~Departed /\ ReadCount = call.balance
        <5>1. kept \subseteq Read \cup {owned[j] : j \in (ReadCount + 1)..call.balance}
          BY <1>7, <4>2 DEF IInv, LoopInv, KeptIsRead
        <5>2. (ReadCount + 1)..call.balance = {}
          BY <2>1, <4>2
        <5>3. QED
          BY <1>4, <1>6, <5>1, <5>2 DEF KeptIsRead
      <4>3. CASE ReadCount < call.balance
        BY <1>4, <1>6, <4>3 DEF KeptIsRead
      <4>4. QED
        BY <2>1, <4>1, <4>2, <4>3
    <3>3. QED
      BY <3>1, <3>2
  <2>7. QED
    BY <2>3, <2>4, <2>5, <2>6
<1>8. QED
  BY <1>4, <1>5, <1>6, <1>7 DEF IInv, LoopInv

LEMMA ChangeLiquidityStep ==
  ASSUME IInv, NEW t \in Tokens, ChangeLiquidity(t)
  PROVE  IInv'
<1>1. /\ liquid' \in SUBSET Tokens /\ UNCHANGED <<owned, burnt>>
      /\ Move({}, {}) /\ {} \in SUBSET Tokens /\ Range(owned') \subseteq Tokens
  BY OwnedFacts DEF ChangeLiquidity, IInv, TypeOK
<1>2. /\ call' = call /\ moves' \in 0..MaxMoves
      /\ kept' \subseteq kept /\ seen \subseteq seen' /\ short' = short
      /\ UNCHANGED <<came, left, returned>>
      /\ kept' \in SUBSET Tokens /\ seen' \in SUBSET Tokens
      /\ HistoryInv' /\ DoneInv'
  <2>1. came \cup {} = came /\ left \cup {} = left /\ returned \cup ({} \cap left) = returned
    OBVIOUS
  <2>2. QED
    BY <1>1, <2>1, MoveFacts
<1>3. TypeOK'
  BY <1>1, <1>2 DEF IInv, TypeOK
<1>4. LoopInv'
  BY <1>1, <1>2 DEF IInv, LoopInv, Looping, CountTells, ReadIsHeld, ReadOnce, Once,
     KeptIsRead, Arrived, Departed, Read, ReadCount
<1>5. QED
  BY <1>2, <1>3, <1>4 DEF IInv

-----------------------------------------------------------------------------
(* GetPositions.                                                           *)
LEMMA BeginStep == ASSUME IInv, BeginGetPositions PROVE IInv'
BY DEF BeginGetPositions, Watch, chain, Counting, IInv, TypeOK, HistoryInv, LoopInv, Looping, DoneInv,
   AnswersAreComplete, NoPositionTwice, ListedWereHeldOpen

LEMMA FailCallStep == ASSUME IInv, FailCall PROVE IInv'
BY DEF FailCall, chain, past, Failed, HeldOpen, IInv, TypeOK, HistoryInv, LoopInv, Looping, DoneInv,
   AnswersAreComplete, NoPositionTwice, ListedWereHeldOpen

LEMMA BalanceOfShortStep ==
  ASSUME IInv, BalanceOfShort
  PROVE  IInv'
<1>1. /\ call' = [stage |-> "done", list |-> <<>>] /\ short'
      /\ kept' = HeldOpen /\ seen' = HeldOpen /\ HeldOpen' = HeldOpen
      /\ came' = {} /\ left' = {} /\ returned' = {} /\ short' \in BOOLEAN
      /\ UNCHANGED <<owned, liquid, burnt, moves>>
  BY DEF BalanceOfShort, Watch, Done, chain, HeldOpen
<1>2. HeldOpen \in SUBSET Tokens /\ <<>> \in Seq(Tokens)
  BY DEF HeldOpen, IInv, TypeOK
<1>3. TypeOK'
  BY <1>1, <1>2 DEF IInv, TypeOK
<1>4. DoneInv'
  BY <1>1, RangeOfEmpty DEF DoneInv, AnswersAreComplete, NoPositionTwice, ListedWereHeldOpen
<1>5. QED
  BY <1>1, <1>3, <1>4 DEF IInv, HistoryInv, LoopInv, Looping

LEMMA BalanceOfStep ==
  ASSUME IInv, BalanceOf
  PROVE  IInv'
<1> DEFINE n == Len(owned)
<1>1. /\ kept' = HeldOpen /\ seen' = HeldOpen /\ HeldOpen' = HeldOpen
      /\ came' = {} /\ left' = {} /\ returned' = {} /\ short' = FALSE
      /\ UNCHANGED <<owned, liquid, burnt, moves>>
      /\ call' = IF 0 < n THEN [stage |-> "index", balance |-> n, i |-> 0, list |-> <<>>]
                          ELSE [stage |-> "done", list |-> <<>>]
  BY DEF BalanceOf, Watch, Continue, Indexing, Done, chain, HeldOpen
<1>2. HeldOpen \in SUBSET Tokens /\ <<>> \in Seq(Tokens) /\ Len(<<>>) = 0
  BY DEF HeldOpen, IInv, TypeOK
<1>3. /\ n \in Nat /\ DOMAIN owned = 1..n /\ HeldOpen \subseteq {owned[j] : j \in 1..n}
  BY OwnedFacts, RangeOfSeq DEF IInv, HeldOpen
<1>4. TypeOK'
  <2>1. short' \in BOOLEAN
    BY <1>1
  <2>2. call'.stage \in {"index", "done"} /\ call'.list = <<>>
    BY <1>1
  <2>3. call'.stage = "index" => call'.i = 0 /\ call'.balance = n /\ 0 < n
    BY <1>1
  <2>4. QED
    BY <1>1, <1>2, <1>3, <2>1, <2>2, <2>3 DEF IInv, TypeOK
<1>5. ~Arrived' /\ ~Departed'
  BY <1>1 DEF Arrived, Departed
<1>6. CASE 0 < n
  <2>1. call' = [stage |-> "index", balance |-> n, i |-> 0, list |-> <<>>]
    BY <1>1, <1>6
  <2>2. Read' = {} /\ ReadCount' = 0
    BY <2>1, RangeOfEmpty DEF Read, ReadCount
  <2>3. CountTells'
    BY <1>1, <1>3, <1>5, <2>1 DEF CountTells
  <2>4. ReadIsHeld' /\ ReadOnce'
    BY <2>1, <2>2, RangeOfEmpty DEF ReadIsHeld, ReadOnce, Once
  <2>5. KeptIsRead'
    <3>1. (0 + 1)..n = 1..n
      OBVIOUS
    <3>2. QED
      BY <1>1, <1>3, <1>5, <2>1, <2>2, <3>1 DEF KeptIsRead
  <2>6. QED
    BY <1>1, <1>4, <2>1, <2>3, <2>4, <2>5 DEF IInv, HistoryInv, LoopInv, DoneInv,
       AnswersAreComplete, NoPositionTwice, ListedWereHeldOpen
<1>7. CASE ~(0 < n)
  <2>1. call' = [stage |-> "done", list |-> <<>>]
    BY <1>1, <1>7
  <2>2. HeldOpen = {}
    BY <1>3, <1>7
  <2>3. DoneInv'
    BY <1>1, <2>1, <2>2, RangeOfEmpty DEF DoneInv, AnswersAreComplete, NoPositionTwice,
       ListedWereHeldOpen
  <2>4. QED
    BY <1>1, <1>4, <2>1, <2>3 DEF IInv, HistoryInv, LoopInv, Looping
<1>8. QED
  BY <1>6, <1>7

(* The next index is read: it was ahead.                                   *)
LEMMA TokenOfOwnerByIndexStep ==
  ASSUME IInv, TokenOfOwnerByIndex
  PROVE  IInv'
<1> DEFINE n == Len(owned)
           i == call.i
           t == owned[i + 1]
<1>1. /\ call.stage = "index" /\ Looping
      /\ call' = IF i < n THEN [stage |-> "token", balance |-> call.balance, i |-> i,
                                list |-> call.list, token |-> t]
                          ELSE [stage |-> "failed"]
      /\ UNCHANGED <<owned, liquid, burnt, moves, kept, seen, came, left, returned, short>>
  BY DEF TokenOfOwnerByIndex, Describing, Failed, chain, past, Looping
<1>2. /\ i \in Nat /\ call.balance \in Nat /\ i < call.balance /\ call.list \in Seq(Tokens)
      /\ Read = Range(call.list) /\ ReadCount = i
  BY <1>1, LoopTypes DEF IInv, Read, ReadCount
<1>3. /\ n \in Nat /\ DOMAIN owned = 1..n /\ IsInjective(owned) /\ Range(owned) \subseteq Tokens
      /\ \A j \in 1..n : owned[j] \in Range(owned)
  BY OwnedFacts DEF IInv
<1>4. CASE ~(i < n)
  BY <1>1, <1>4 DEF IInv, TypeOK, HistoryInv, HeldOpen, LoopInv, Looping, DoneInv,
     AnswersAreComplete, NoPositionTwice, ListedWereHeldOpen
<1>5. CASE i < n
  <2>1. call' = [stage |-> "token", balance |-> call.balance, i |-> i,
                 list |-> call.list, token |-> t]
    BY <1>1, <1>5
  <2>2. i + 1 \in 1..n /\ t \in Range(owned) /\ t \in Tokens
    BY <1>2, <1>3, <1>5
  <2>3. TypeOK'
    BY <1>1, <2>1, <2>2 DEF IInv, TypeOK
  <2>4. /\ Read' = Read \cup {t} /\ ReadCount' = i + 1
        /\ (Arrived' <=> Arrived) /\ (Departed' <=> Departed)
    BY <1>1, <1>2, <2>1 DEF Read, ReadCount, Arrived, Departed
  <2>5. CountTells'
    BY <1>1, <2>1, <2>4 DEF IInv, LoopInv, CountTells
  <2>6. ReadIsHeld'
    BY <1>1, <2>1, <2>2, <2>4 DEF IInv, LoopInv, ReadIsHeld
  <2>7. ReadOnce'
    <3>1. Once(call.list)
          /\ \A j \in 1..n : j > i => owned[j] \notin Read \/ owned[j] \in returned
      BY <1>1, <1>2, <1>3 DEF IInv, LoopInv, ReadOnce
    <3>2. i + 1 > i /\ \A j \in 1..n : j > i + 1 => j > i /\ j # i + 1
      BY <1>2, <1>3
    <3>3. \A j \in 1..n : j # i + 1 => owned[j] # t
      BY <1>3, <2>2 DEF IsInjective
    <3>4. t \notin Range(call.list) \/ t \in returned
      BY <1>2, <2>2, <3>1, <3>2
    <3>5. \A j \in 1..n : j > i + 1 => owned[j] \notin Read \cup {t} \/ owned[j] \in returned
      BY <3>1, <3>2, <3>3
    <3>6. Once(call.list)'
      BY <1>1, <2>1, <3>1 DEF Once
    <3>7. QED
      BY <1>1, <1>3, <2>1, <2>4, <3>4, <3>5, <3>6 DEF ReadOnce
  <2>8. KeptIsRead'
    <3>1. ASSUME ~Departed
          PROVE  kept \subseteq Read' \cup {owned[j] : j \in (i + 2)..call.balance}
      <4>1. kept \subseteq Read \cup {owned[j] : j \in (i + 1)..call.balance}
        BY <1>1, <1>2, <3>1 DEF IInv, LoopInv, KeptIsRead
      <4>2. \A j \in (i + 1)..call.balance : j = i + 1 \/ j \in (i + 2)..call.balance
        BY <1>2
      <4>3. QED
        BY <2>4, <4>1, <4>2
    <3>2. ASSUME Departed, ~Arrived PROVE i + 1 < call.balance
      BY <1>1, <1>2, <1>3, <1>5, <3>2 DEF IInv, LoopInv, CountTells
    <3>3. (i + 1) + 1 = i + 2
      BY <1>2
    <3>4. QED
      BY <1>1, <2>1, <2>4, <3>1, <3>2, <3>3 DEF KeptIsRead
  <2>9. QED
    BY <1>1, <2>1, <2>3, <2>5, <2>6, <2>7, <2>8 DEF IInv, HistoryInv, HeldOpen, LoopInv, DoneInv,
       AnswersAreComplete, NoPositionTwice, ListedWereHeldOpen
<1>6. QED
  BY <1>4, <1>5

(* What the loop knows after positions(tokenId), at the end or not.        *)
LEMMA PositionsFacts ==
  ASSUME IInv, call.stage = "token", NEW list,
         list = IF call.token \in liquid THEN Append(call.list, call.token) ELSE call.list
  PROVE  /\ list \in Seq(Tokens) /\ Len(list) <= call.i + 1
         /\ Range(list) \subseteq Read /\ kept \cap Read \subseteq Range(list)
         /\ Range(list) \subseteq seen \cup left
         /\ Once(list)
<1> DEFINE t == call.token
<1>1. /\ call.list \in Seq(Tokens) /\ t \in Tokens /\ call.i \in Nat /\ Len(call.list) <= call.i
      /\ Len(call.list) \in Nat
  BY DEF IInv, TypeOK
<1>2. /\ Looping /\ Read = Range(call.list) \cup {t}
      /\ kept \subseteq liquid /\ HeldOpen \subseteq seen
  BY DEF Looping, Read, IInv, HistoryInv, HeldOpen
<1>3. t \in Range(owned) \cup left /\ Range(call.list) \subseteq seen \cup left
  BY <1>2 DEF IInv, LoopInv, ReadIsHeld
<1>4. Once(call.list) /\ (t \notin Range(call.list) \/ t \in returned)
  BY <1>2 DEF IInv, LoopInv, ReadOnce
<1>5. CASE t \in liquid
  <2>1. list = Append(call.list, t)
    BY <1>5
  <2>2. /\ list \in Seq(Tokens) /\ Len(list) = Len(call.list) + 1
        /\ Range(list) = Range(call.list) \cup {t}
        /\ Once(list)
    BY <1>1, <1>4, <2>1, AppendFacts
  <2>3. t \in seen \cup left
    BY <1>2, <1>3, <1>5 DEF HeldOpen
  <2>4. QED
    BY <1>1, <1>2, <1>3, <1>4, <2>2, <2>3
<1>6. CASE t \notin liquid
  BY <1>1, <1>2, <1>3, <1>4, <1>6
<1>7. QED
  BY <1>5, <1>6

(* The end of the loop: all indices are read.                              *)
LEMMA PositionsStep ==
  ASSUME IInv, Positions
  PROVE  IInv'
<1> DEFINE i == call.i
           list == IF call.token \in liquid THEN Append(call.list, call.token) ELSE call.list
<1>1. /\ call.stage = "token" /\ Looping
      /\ UNCHANGED <<owned, liquid, burnt, moves, kept, seen, came, left, returned, short>>
      /\ call' \in {[stage |-> "failed"],
                    IF i + 1 < call.balance
                      THEN [stage |-> "index", balance |-> call.balance, i |-> i + 1, list |-> list]
                      ELSE [stage |-> "done", list |-> list]}
  BY DEF Positions, Continue, Indexing, Done, Failed, chain, past, Looping
<1>2. /\ i \in Nat /\ call.balance \in Nat /\ i < call.balance /\ ReadCount = i + 1
  BY <1>1, LoopTypes DEF IInv, ReadCount
<1>3. /\ list \in Seq(Tokens) /\ Len(list) <= i + 1
      /\ Range(list) \subseteq Read /\ kept \cap Read \subseteq Range(list)
      /\ Range(list) \subseteq seen \cup left
      /\ Once(list)
  BY <1>1, PositionsFacts
<1> HIDE DEF list
<1>4. /\ (Arrived' <=> Arrived) /\ (Departed' <=> Departed)
  BY <1>1 DEF Arrived, Departed
<1>5. /\ CountTells /\ ReadIsHeld /\ ReadOnce /\ KeptIsRead
  BY <1>1 DEF IInv, LoopInv
<1>6. CASE call' = [stage |-> "failed"]
  BY <1>1, <1>6 DEF IInv, TypeOK, HistoryInv, HeldOpen, LoopInv, Looping, DoneInv,
     AnswersAreComplete, NoPositionTwice, ListedWereHeldOpen
<1>7. CASE /\ i + 1 < call.balance
           /\ call' = [stage |-> "index", balance |-> call.balance, i |-> i + 1, list |-> list]
  <2>1. TypeOK'
    BY <1>1, <1>2, <1>3, <1>7 DEF IInv, TypeOK
  <2>2. Read' = Range(list) /\ ReadCount' = ReadCount
    BY <1>2, <1>7 DEF Read, ReadCount
  <2>3. CountTells'
    BY <1>1, <1>4, <1>5, <1>7 DEF CountTells
  <2>4. ReadIsHeld'
    BY <1>1, <1>3, <1>5, <1>7, <2>2 DEF ReadIsHeld
  <2>5. ReadOnce'
    BY <1>1, <1>3, <1>5, <1>7, <2>2 DEF ReadOnce, Once
  <2>6. KeptIsRead'
    BY <1>1, <1>2, <1>3, <1>4, <1>5, <1>7, <2>2 DEF KeptIsRead
  <2>7. QED
    BY <1>1, <1>7, <2>1, <2>3, <2>4, <2>5, <2>6 DEF IInv, HistoryInv, HeldOpen, LoopInv, DoneInv,
       AnswersAreComplete, NoPositionTwice, ListedWereHeldOpen
<1>8. CASE ~(i + 1 < call.balance) /\ call' = [stage |-> "done", list |-> list]
  <2>1. TypeOK'
    BY <1>1, <1>3, <1>8 DEF IInv, TypeOK
  <2>2. ReadCount = call.balance /\ (ReadCount + 1)..call.balance = {}
    BY <1>2, <1>8
  <2>3. kept \subseteq Read \/ (Arrived /\ Departed)
    BY <1>2, <1>5, <2>2 DEF KeptIsRead
  <2>4. DoneInv'
    BY <1>1, <1>3, <1>8, <2>3 DEF DoneInv, AnswersAreComplete, NoPositionTwice,
       ListedWereHeldOpen, Arrived, Departed, Once
  <2>5. QED
    BY <1>1, <1>8, <2>1, <2>4 DEF IInv, HistoryInv, HeldOpen, LoopInv, Looping
<1>9. QED
  BY <1>1, <1>6, <1>7, <1>8

LEMMA NextIInv == IInv /\ [Next]_vars => IInv'
<1>1. CASE Next
  BY <1>1, ReceiveStep, SendStep, ChangeLiquidityStep, BeginStep, BalanceOfStep, BalanceOfShortStep,
     TokenOfOwnerByIndexStep, PositionsStep, FailCallStep DEF Next, CallStep
<1>2. CASE UNCHANGED vars
  BY <1>2 DEF vars, IInv, TypeOK, HistoryInv, HeldOpen, LoopInv, Looping, CountTells, ReadIsHeld,
     ReadOnce, Once, KeptIsRead, Arrived, Departed, Read, ReadCount, DoneInv,
     AnswersAreComplete, NoPositionTwice, ListedWereHeldOpen
<1>3. QED
  BY <1>1, <1>2

(* The loop of GetPositions never loses track of what it has read.         *)
THEOREM IInvHolds == Spec => []IInv
BY InitIInv, NextIInv, PTL DEF Spec

(* The types of the chain and of the call under way.                       *)
THEOREM TypeCorrect == Spec => []TypeOK
BY IInvHolds, PTL DEF IInv

(* An answer of GetPositions lists every position held open throughout,    *)
(* unless tokens both arrived and left meanwhile.                          *)
THEOREM AnswersStayComplete == Spec => []AnswersAreComplete
BY IInvHolds, PTL DEF IInv, DoneInv

(* GetPositions lists no position twice, unless that very one left the     *)
(* wallet and came back.                                                   *)
THEOREM ListedOnce == Spec => []NoPositionTwice
BY IInvHolds, PTL DEF IInv, DoneInv

(* GetPositions lists only what the wallet held open, unless that very     *)
(* position left.                                                          *)
THEOREM ListedStayHeld == Spec => []ListedWereHeldOpen
BY IInvHolds, PTL DEF IInv, DoneInv
=============================================================================
