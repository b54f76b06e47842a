------------------------ MODULE PortfolioSummaryProofs ------------------------
(***************************************************************************)
(* For any credentials, symbols, amounts and prices: the types, that a     *)
(* source is only called "unknown" if its credential is gone, and that the *)
(* summary adds up.                                                        *)
(*                                                                         *)
(* UnknownIsGone goes back to the balances read before the names: a row    *)
(* was there only while its credential was live, so that a credential      *)
(* without a name that had one is no longer live, and was not new.         *)
(*                                                                         *)
(* The sums are folds.  What a fold computes needs induction over finite   *)
(* sets, which FiniteSetTheorems has as an order without infinite descent, *)
(* a fact about sets: SubsetInduction turns it into a principle, and from  *)
(* there to SumChange, that a sum changes as one of its summands does.     *)
(* That is all that the loop over the balances needs (Accounts).           *)
(***************************************************************************)
EXTENDS PortfolioSummary, FiniteSetTheorems, TLAPS

-----------------------------------------------------------------------------
(* Sums over finite sets.                                                  *)

Pick(T) == CHOOSE x \in T : TRUE

(* g is what the fold computes, on every subset of S.                      *)
IsSum(g, f, S) ==
  g = [T \in SUBSET S |-> IF T = {} THEN 0 ELSE f[Pick(T)] + g[T \ {Pick(T)}]]

(* The elements of B are closed under putting together strict subsets.     *)
LEMMA SubsetInduction ==
  ASSUME NEW S, IsFiniteSet(S), NEW B,
         \A T \in SUBSET S : (\A U \in SUBSET T : U # T => U \in B) => T \in B
  PROVE  S \in B
<1> DEFINE W == (SUBSET S) \ B
<1>1. SUFFICES ASSUME S \notin B PROVE FALSE
  OBVIOUS
<1>2. W \subseteq FiniteSubsetsOf(S) /\ W # {}
  BY <1>1, FS_FiniteSubsetsOfFinite
<1>3. \E M \in W : \A U \in W : <<U, M>> \notin StrictSubsetOrdering(S)
  <2> HIDE DEF W
  <2>1. QED
    BY <1>2, FS_StrictSubsetOrderingWellFounded, WFMin
<1>4. PICK M \in W : \A U \in W : <<U, M>> \notin StrictSubsetOrdering(S)
  BY <1>3
<1>5. \A U \in SUBSET M : U # M => U \in B
  BY <1>4 DEF StrictSubsetOrdering
<1>6. QED
  BY <1>4, <1>5

LEMMA PickIsIn == \A T : T # {} => Pick(T) \in T /\ T \ {Pick(T)} \subseteq T /\ T \ {Pick(T)} # T
BY DEF Pick

LEMMA SumRestricts ==
  ASSUME NEW S, NEW f, NEW g, IsSum(g, f, S), NEW T \in SUBSET S
  PROVE  IsSum([U \in SUBSET T |-> g[U]], f, T)
<1> DEFINE h == [U \in SUBSET T |-> g[U]]
<1>1. ASSUME NEW U \in SUBSET T
      PROVE  h[U] = IF U = {} THEN 0 ELSE f[Pick(U)] + h[U \ {Pick(U)}]
  BY PickIsIn DEF IsSum
<1>2. h = [U \in SUBSET T |-> IF U = {} THEN 0 ELSE f[Pick(U)] + h[U \ {Pick(U)}]]
  BY <1>1
<1>3. QED
  BY <1>2 DEF IsSum

LEMMA SumUnique ==
  ASSUME NEW S, IsFiniteSet(S), NEW f, NEW g, NEW h, IsSum(g, f, S), IsSum(h, f, S)
  PROVE  g[S] = h[S]
<1> DEFINE B == {T \in SUBSET S : g[T] = h[T]}
<1>1. ASSUME NEW T \in SUBSET S, \A U \in SUBSET T : U # T => U \in B
      PROVE  T \in B
  <2>1. g[T] = (IF T = {} THEN 0 ELSE f[Pick(T)] + g[T \ {Pick(T)}])
    BY DEF IsSum
  <2>2. h[T] = (IF T = {} THEN 0 ELSE f[Pick(T)] + h[T \ {Pick(T)}])
    BY DEF IsSum
  <2>3. T # {} => T \ {Pick(T)} \in B
    BY <1>1, PickIsIn
  <2>4. QED
    BY <2>1, <2>2, <2>3
<1>2. S \in B
  <2> HIDE DEF B
  <2>1. QED
    BY <1>1, SubsetInduction
<1>3. QED
  BY <1>2

LEMMA SumExists ==
  ASSUME NEW S, IsFiniteSet(S), NEW f
  PROVE  \E g : IsSum(g, f, S)
<1> DEFINE B == {T \in SUBSET S : \E g : IsSum(g, f, T)}
           h(T) == CHOOSE g : IsSum(g, f, T)
<1>1. ASSUME NEW M \in SUBSET S, \A U \in SUBSET M : U # M => U \in B
      PROVE  M \in B
  <2>1. \A U \in SUBSET M : U # M => IsSum(h(U), f, U)
    BY <1>1
  <2>2. \A U \in SUBSET M : IsFiniteSet(U)
    BY FS_Subset
  <2>3. ASSUME NEW U \in SUBSET M, U # M, U # {}
        PROVE  h(U)[U] = f[Pick(U)] + h(U \ {Pick(U)})[U \ {Pick(U)}]
    <3> DEFINE V == U \ {Pick(U)}
    <3>1. V \in SUBSET U /\ V \in SUBSET M /\ V # M
      BY <2>3, PickIsIn
    <3>2. IsSum(h(U), f, U) /\ IsSum(h(V), f, V)
      BY <2>1, <2>3, <3>1
    <3>3. PICK k, l : k = h(U) /\ l = h(V)
      OBVIOUS
    <3>4. k[V] = l[V]
      <4>1. IsSum(k, f, U) /\ IsSum(l, f, V)
        BY <3>2, <3>3
      <4>2. IsSum([X \in SUBSET V |-> k[X]], f, V)
        BY <3>1, <4>1, SumRestricts
      <4>3. [X \in SUBSET V |-> k[X]][V] = l[V]
        BY <2>2, <3>1, <4>1, <4>2, SumUnique
      <4>4. QED
        BY <4>3
    <3>5. h(U)[U] = f[Pick(U)] + h(U)[V]
      <4> HIDE DEF h
      <4>1. QED
        BY <2>3, <3>2 DEF IsSum
    <3>6. QED
      BY <3>3, <3>4, <3>5
  <2>4. \A U \in SUBSET M : U # M /\ U = {} => h(U)[U] = 0
    <3> HIDE DEF h
    <3>1. QED
      BY <2>1 DEF IsSum
  <2> HIDE DEF h
  <2> DEFINE g == [U \in SUBSET M |->
                     IF U = {} THEN 0
                     ELSE IF U = M THEN f[Pick(M)] + h(M \ {Pick(M)})[M \ {Pick(M)}]
                     ELSE h(U)[U]]
  <2>5. ASSUME NEW U \in SUBSET M
        PROVE  g[U] = IF U = {} THEN 0 ELSE f[Pick(U)] + g[U \ {Pick(U)}]
    <3>1. CASE U = {}
      BY <3>1
    <3>2. CASE U # {}
      <4> DEFINE V == U \ {Pick(U)}
      <4>1. V \in SUBSET M /\ V # M
        BY <3>2, PickIsIn
      <4>2. g[V] = h(V)[V]
        BY <2>4, <4>1
      <4>3. g[U] = f[Pick(U)] + h(V)[V]
        BY <2>3, <3>2
      <4>4. QED
        BY <3>2, <4>2, <4>3
    <3>3. QED
      BY <3>1, <3>2
  <2>6. g = [U \in SUBSET M |-> IF U = {} THEN 0 ELSE f[Pick(U)] + g[U \ {Pick(U)}]]
    BY <2>5
  <2>7. QED
    BY <2>6 DEF IsSum
<1>2. S \in B
  <2> HIDE DEF B
  <2>1. QED
    BY <1>1, SubsetInduction
<1>3. QED
  BY <1>2

LEMMA SumIsFold ==
  ASSUME NEW S, IsFiniteSet(S), NEW f
  PROVE  \E g : IsSum(g, f, S) /\ SumFunctionOnSet(f, S) = g[S]
<1> DEFINE G == CHOOSE g : IsSum(g, f, S)
<1>1. IsSum(G, f, S)
  BY SumExists
<1>2. SumFunctionOnSet(f, S) = G[S]
  BY DEF SumFunctionOnSet, FoldFunctionOnSet, MapThenFoldSet, IsSum, Pick
<1>3. QED
  BY <1>1, <1>2

LEMMA SumEmpty == \A f : SumFunctionOnSet(f, {}) = 0
<1> TAKE f
<1>1. PICK g : IsSum(g, f, {}) /\ SumFunctionOnSet(f, {}) = g[{}]
  BY SumIsFold, FS_EmptySet
<1>2. QED
  BY <1>1 DEF IsSum

LEMMA SumStep ==
  ASSUME NEW S, IsFiniteSet(S), S # {}, NEW f
  PROVE  SumFunctionOnSet(f, S) = f[Pick(S)] + SumFunctionOnSet(f, S \ {Pick(S)})
<1> DEFINE T == S \ {Pick(S)}
<1>1. PICK g : IsSum(g, f, S) /\ SumFunctionOnSet(f, S) = g[S]
  BY SumIsFold
<1>2. T \in SUBSET S /\ IsFiniteSet(T)
  BY FS_Subset
<1>3. PICK h : IsSum(h, f, T) /\ SumFunctionOnSet(f, T) = h[T]
  BY <1>2, SumIsFold
<1>4. IsSum([U \in SUBSET T |-> g[U]], f, T)
  BY <1>1, <1>2, SumRestricts
<1>5. [U \in SUBSET T |-> g[U]][T] = h[T]
  BY <1>2, <1>3, <1>4, SumUnique
<1>6. g[S] = f[Pick(S)] + g[T]
  BY <1>1 DEF IsSum
<1>7. QED
  BY <1>1, <1>3, <1>5, <1>6

(* Sum looks at f on S alone, and is a natural number if f is on S.        *)
LEMMA SumCongruence ==
  ASSUME NEW S, IsFiniteSet(S), NEW f, NEW g, \A x \in S : f[x] = g[x]
  PROVE  SumFunctionOnSet(f, S) = SumFunctionOnSet(g, S)
<1> DEFINE B == {T \in SUBSET S : SumFunctionOnSet(f, T) = SumFunctionOnSet(g, T)}
<1>1. ASSUME NEW T \in SUBSET S, \A U \in SUBSET T : U # T => U \in B
      PROVE  T \in B
  <2>1. CASE T = {}
    BY <2>1, SumEmpty
  <2>2. CASE T # {}
    <3>1. IsFiniteSet(T)
      BY FS_Subset
    <3>2. Pick(T) \in S /\ T \ {Pick(T)} \in B
      BY <1>1, <2>2, PickIsIn
    <3>3. SumFunctionOnSet(f, T \ {Pick(T)}) = SumFunctionOnSet(g, T \ {Pick(T)})
      BY <3>2
    <3>4. f[Pick(T)] = g[Pick(T)]
      BY <3>2
    <3>5. QED
      BY <2>2, <3>1, <3>3, <3>4, SumStep
  <2>3. QED
    BY <2>1, <2>2
<1>2. S \in B
  <2> HIDE DEF B
  <2>1. QED
    BY <1>1, SubsetInduction
<1>3. QED
  BY <1>2

LEMMA SumType ==
  ASSUME NEW S, IsFiniteSet(S), NEW f, \A x \in S : f[x] \in Nat
  PROVE  SumFunctionOnSet(f, S) \in Nat
<1> DEFINE B == {T \in SUBSET S : SumFunctionOnSet(f, T) \in Nat}
<1>1. ASSUME NEW T \in SUBSET S, \A U \in SUBSET T : U # T => U \in B
      PROVE  T \in B
  <2>1. CASE T = {}
    BY <2>1, SumEmpty
  <2>2. CASE T # {}
    <3>1. IsFiniteSet(T)
      BY FS_Subset
    <3>2. f[Pick(T)] \in Nat /\ SumFunctionOnSet(f, T \ {Pick(T)}) \in Nat
      BY <1>1, <2>2, PickIsIn
    <3>3. QED
      BY <2>2, <3>1, <3>2, SumStep
  <2>3. QED
    BY <2>1, <2>2
<1>2. S \in B
  <2> HIDE DEF B
  <2>1. QED
    BY <1>1, SubsetInduction
<1>3. QED
  BY <1>2

(* Any element may be taken out, not only the one the fold picks.          *)
LEMMA SumTakeOut ==
  ASSUME NEW S, IsFiniteSet(S), NEW f, \A x \in S : f[x] \in Nat
  PROVE  \A x \in S : SumFunctionOnSet(f, S) = f[x] + SumFunctionOnSet(f, S \ {x})
<1> DEFINE B == {T \in SUBSET S : \A x \in T : SumFunctionOnSet(f, T) = f[x] + SumFunctionOnSet(f, T \ {x})}
<1>1. ASSUME NEW T \in SUBSET S, \A U \in SUBSET T : U # T => U \in B
      PROVE  T \in B
  <2>1. SUFFICES ASSUME NEW x \in T PROVE SumFunctionOnSet(f, T) = f[x] + SumFunctionOnSet(f, T \ {x})
    OBVIOUS
  <2> DEFINE p == Pick(T)
  <2>2. p \in T
    BY <2>1, PickIsIn
  <2>3. SumFunctionOnSet(f, T) = f[p] + SumFunctionOnSet(f, T \ {p})
    BY <2>1, SumStep, FS_Subset
  <2>4. CASE x = p
    BY <2>3, <2>4
  <2>5. CASE x # p
    <3> DEFINE R == T \ {x, p}
    <3>1. /\ T \ {p} \in B /\ x \in T \ {p}
          /\ T \ {x} \in B /\ p \in T \ {x}
          /\ (T \ {p}) \ {x} = R /\ (T \ {x}) \ {p} = R
      <4> HIDE DEF B
      <4>1. QED
        BY <1>1, <2>1, <2>2, <2>5
    <3>2. /\ SumFunctionOnSet(f, T \ {p}) = f[x] + SumFunctionOnSet(f, R)
          /\ SumFunctionOnSet(f, T \ {x}) = f[p] + SumFunctionOnSet(f, R)
      <4> HIDE DEF p, R
      <4>1. QED
        BY <3>1
    <3>3. SumFunctionOnSet(f, R) \in Nat /\ f[x] \in Nat /\ f[p] \in Nat
      <4>1. R \in SUBSET S
        OBVIOUS
      <4>2. IsFiniteSet(R) /\ \A y \in R : f[y] \in Nat
        BY <4>1, FS_Subset
      <4>3. SumFunctionOnSet(f, R) \in Nat
        <5> HIDE DEF R
        <5>1. QED
          BY <4>2, SumType
      <4>4. QED
        BY <2>1, <2>2, <4>3
    <3>4. QED
      BY <2>3, <3>2, <3>3
  <2>6. QED
    BY <2>4, <2>5
<1>2. S \in B
  <2> HIDE DEF B
  <2>1. QED
    BY <1>1, SubsetInduction
<1>3. QED
  BY <1>2

(* A summand changes: so does the sum, by as much.                         *)
LEMMA SumChange ==
  ASSUME NEW S, IsFiniteSet(S), NEW f, NEW g, NEW a \in S,
         \A x \in S : f[x] \in Nat /\ g[x] \in Nat,
         \A x \in S \ {a} : g[x] = f[x]
  PROVE  SumFunctionOnSet(g, S) + f[a] = SumFunctionOnSet(f, S) + g[a]
<1>1. IsFiniteSet(S \ {a})
  BY FS_Subset
<1>2. SumFunctionOnSet(f, S \ {a}) = SumFunctionOnSet(g, S \ {a}) /\ SumFunctionOnSet(f, S \ {a}) \in Nat
  BY <1>1, SumCongruence, SumType
<1>3. SumFunctionOnSet(f, S) = f[a] + SumFunctionOnSet(f, S \ {a}) /\ SumFunctionOnSet(g, S) = g[a] + SumFunctionOnSet(g, S \ {a})
  BY SumTakeOut
<1>4. QED
  BY <1>2, <1>3

LEMMA SumZero ==
  ASSUME NEW S, IsFiniteSet(S), NEW f, \A x \in S : f[x] = 0
  PROVE  SumFunctionOnSet(f, S) = 0
<1> DEFINE B == {T \in SUBSET S : SumFunctionOnSet(f, T) = 0}
<1>1. ASSUME NEW T \in SUBSET S, \A U \in SUBSET T : U # T => U \in B
      PROVE  T \in B
  <2>1. CASE T # {}
    <3>1. f[Pick(T)] = 0 /\ SumFunctionOnSet(f, T \ {Pick(T)}) = 0
      BY <1>1, <2>1, PickIsIn
    <3>2. IsFiniteSet(T)
      BY FS_Subset
    <3>3. SumFunctionOnSet(f, T) = 0 + 0
      BY <2>1, <3>1, <3>2, SumStep
    <3>4. QED
      BY <3>3
  <2>2. CASE T = {}
    BY <2>2, SumEmpty
  <2>3. QED
    BY <2>1, <2>2
<1>2. S \in B
  <2> HIDE DEF B
  <2>1. QED
    BY <1>1, SubsetInduction
<1>3. QED
  BY <1>2

-----------------------------------------------------------------------------
(* The invariant.                                                          *)
Reading == {"value", "symbols", "done"}
Counting == {"credentials"} \cup Reading

(* Where rows, values and names come from.                                 *)
SourcesKnown ==
  /\ \A r \in Rows : qty[r] > 0 => status[r[1]] = "live"
  /\ \A r \in Rows : held[r] > 0 => status[r[1]] # "fresh"
  /\ \A c \in Credentials : value[c] > 0 => \E s \in Symbols : held[<<c, s>>] > 0
  /\ stage \in {"idle", "balances", "credentials"} => \A c \in Credentials : value[c] = 0
  /\ stage \in Reading /\ "names" \notin changes =>
       \A r \in Rows : held[r] > 0 /\ r[1] \notin named => status[r[1]] = "gone"

(* What has been counted so far: of a credential with no row left, of the  *)
(* rows of a symbol, of the rows of a credential, and of all rows.         *)
Settled == [c \in Credentials |-> IF \E q \in todo : q[1] = c THEN 0 ELSE value[c]]
Counted(s) == [c \in Credentials |-> IF <<c, s>> \in todo THEN 0 ELSE held[<<c, s>>]]
ValuedOf(c) ==
  [s \in Symbols |-> IF <<c, s>> \in todo THEN 0 ELSE held[<<c, s>>] * price[s]]
Valued == [r \in Rows |-> IF r \in todo THEN 0 ELSE held[r] * price[r[2]]]
Worths == [s \in Symbols |-> amount[s] * price[s]]

(* Nothing is counted before the balances are read, and no symbol is       *)
(* valued before all rows are.                                             *)
NothingYet ==
  /\ stage \in {"idle", "balances", "credentials"} =>
       /\ total = 0
       /\ \A s \in Symbols : amount[s] = 0
  /\ stage \notin {"symbols", "done", "failed"} => \A s \in Symbols : worth[s] = 0
  /\ stage \in {"symbols", "done"} => todo = {}
  /\ stage = "done" => unpriced = {}

(* The total, the amounts and the values are sums of what was counted, the *)
(* latter as long as the prices stay.                                      *)
Accounts ==
  stage \in Counting =>
    /\ total = SumFunctionOnSet(Settled, Credentials)
    /\ \A s \in Symbols : amount[s] = SumFunctionOnSet(Counted(s), Credentials)
    /\ "price" \notin changes =>
         /\ \A c \in Credentials : value[c] = SumFunctionOnSet(ValuedOf(c), Symbols)
         /\ SumFunctionOnSet(value, Credentials) = SumFunctionOnSet(Valued, Rows)
         /\ SumFunctionOnSet(value, Credentials) = SumFunctionOnSet(Worths, Symbols)

(* A symbol that has been valued was valued at the price there is, and the *)
(* balances that were read are those there are, as long as nothing changes.*)
StillCurrent ==
  /\ stage \in {"symbols", "done"} /\ "price" \notin changes =>
       \A s \in Symbols \ unpriced : worth[s] = amount[s] * price[s]
  /\ stage \in Counting /\ changes = {} => held = qty

Base == TypeOK /\ SourcesKnown
Books == NothingYet /\ Accounts /\ StillCurrent
IInv == Base /\ Books

LEMMA BoundsAreNat == MaxSymbol \in Nat /\ MaxQty \in Nat /\ MaxPrice \in Nat
BY SummaryAssumption

LEMMA RowShape == \A r \in Rows : r[1] \in Credentials /\ r[2] \in Symbols /\ r = <<r[1], r[2]>>
BY DEF Rows

LEMMA ProductIsNat ==
  ASSUME NEW a \in Nat, NEW b \in Nat
  PROVE  a * b \in Nat
OBVIOUS

-----------------------------------------------------------------------------
LEMMA InitBase == Init => Base
<1> SUFFICES ASSUME Init PROVE Base
  OBVIOUS
<1>1. None \in [Rows -> 0..MaxQty] /\ \A r \in Rows : None[r] = 0
  BY BoundsAreNat DEF None
<1>2. TypeOK
  BY <1>1, BoundsAreNat DEF Init, TypeOK, Prices, Stages
<1>3. SourcesKnown
  BY <1>1 DEF Init, SourcesKnown, Reading
<1>4. QED
  BY <1>2, <1>3 DEF Base

(* A credential is new once, and never comes back.                         *)
LEMMA CredentialStep ==
  ASSUME Base, NEW c \in Credentials, AddCredential(c) \/ DeleteCredential(c)
  PROVE  Base'
<1>1. UNCHANGED summary /\ changes' = changes \cup {"rows"} /\ price' = price
  BY DEF AddCredential, DeleteCredential
<1>2. CASE AddCredential(c)
  <2>1. status[c] = "fresh" /\ status' = [status EXCEPT ![c] = "live"] /\ qty' = qty
    BY <1>2 DEF AddCredential
  <2>2. TypeOK'
    BY <1>1, <2>1 DEF Base, TypeOK, summary, Changes
  <2>3. \A d \in Credentials : d # c => status'[d] = status[d]
    BY <2>1 DEF Base, TypeOK
  <2>4. \A r \in Rows : r[1] = c => ~(qty[r] > 0) /\ ~(held[r] > 0)
    BY <2>1 DEF Base, SourcesKnown
  <2>5. SourcesKnown'
    BY <1>1, <2>1, <2>3, <2>4, RowShape DEF Base, SourcesKnown, summary
  <2>6. QED
    BY <2>2, <2>5 DEF Base
<1>3. CASE DeleteCredential(c)
  <2>1. /\ status[c] = "live" /\ status' = [status EXCEPT ![c] = "gone"]
        /\ qty' = [r \in Rows |-> IF r[1] = c THEN 0 ELSE qty[r]]
    BY <1>3 DEF DeleteCredential
  <2>2. TypeOK'
    BY <1>1, <2>1, BoundsAreNat DEF Base, TypeOK, summary, Changes
  <2>3. \A d \in Credentials : status'[d] = IF d = c THEN "gone" ELSE status[d]
    BY <2>1 DEF Base, TypeOK
  <2>4. SourcesKnown'
    BY <1>1, <2>1, <2>3, RowShape DEF Base, SourcesKnown, summary
  <2>5. QED
    BY <2>2, <2>4 DEF Base
<1>4. QED
  BY <1>2, <1>3

LEMMA TableStep ==
  ASSUME Base,
         \/ \E r \in Rows, q \in 1..MaxQty : UpsertBalance(r, q)
         \/ \E s \in Symbols, x \in 1..MaxPrice : SavePrice(s, x)
  PROVE  Base'
<1>1. ASSUME NEW r \in Rows, NEW q \in 1..MaxQty, UpsertBalance(r, q) PROVE Base'
  <2>1. /\ status[r[1]] = "live" /\ qty' = [qty EXCEPT ![r] = q]
        /\ changes' = changes \cup {"rows"} /\ UNCHANGED <<status, price, summary>>
    BY <1>1 DEF UpsertBalance
  <2>2. TypeOK'
    BY <2>1, BoundsAreNat DEF Base, TypeOK, summary, Changes
  <2>3. SourcesKnown'
    BY <2>1 DEF Base, TypeOK, SourcesKnown, summary
  <2>4. QED
    BY <2>2, <2>3 DEF Base
<1>2. ASSUME NEW s \in Symbols, NEW x \in 1..MaxPrice, SavePrice(s, x) PROVE Base'
  <2>1. /\ price' = [price EXCEPT ![s] = x]
        /\ changes' = changes \cup {"price"} /\ UNCHANGED <<status, qty, summary>>
    BY <1>2 DEF SavePrice
  <2>2. TypeOK'
    BY <2>1, BoundsAreNat DEF Base, TypeOK, summary, Changes, Prices
  <2>3. SourcesKnown'
    BY <2>1 DEF Base, SourcesKnown, summary
  <2>4. QED
    BY <2>2, <2>3 DEF Base
<1>3. QED
  BY <1>1, <1>2

(* The reads of GetSummary; names are read after the balances.             *)
LEMMA ReadStep ==
  ASSUME Base,
         \/ BeginSummary \/ ReadBalances \/ ReadCredentials
         \/ \E read \in SUBSET Credentials : CredentialsFail(read)
         \/ ReadPositions \/ EndSummary \/ FailSummary
  PROVE  Base'
<1> USE DEF database
<1>1. CASE BeginSummary
  BY <1>1 DEF BeginSummary, Base, TypeOK, SourcesKnown, Stages, Reading
<1>2. CASE ReadBalances
  <2>1. TypeOK'
    BY <1>2 DEF ReadBalances, Base, TypeOK, Stages
  <2>2. SourcesKnown'
    BY <1>2 DEF ReadBalances, Base, TypeOK, SourcesKnown, Reading
  <2>3. QED
    BY <2>1, <2>2 DEF Base
<1>3. CASE ReadCredentials
  <2>1. TypeOK'
    BY <1>3 DEF ReadCredentials, Base, TypeOK, Stages
  <2>2. ASSUME NEW r \in Rows, held[r] > 0, r[1] \notin named' PROVE status[r[1]] = "gone"
    <3>1. status[r[1]] # "fresh" /\ status[r[1]] # "live"
      BY <1>3, <2>2, RowShape DEF ReadCredentials, Base, SourcesKnown
    <3>2. QED
      BY <3>1, RowShape DEF Base, TypeOK
  <2>3. SourcesKnown'
    BY <1>3, <2>2 DEF ReadCredentials, Base, SourcesKnown, Reading
  <2>4. QED
    BY <2>1, <2>3 DEF Base
<1>4. ASSUME NEW read \in SUBSET Credentials, CredentialsFail(read) PROVE Base'
  BY <1>4 DEF CredentialsFail, Base, TypeOK, SourcesKnown, Stages, Reading, Changes
<1>5. CASE ReadPositions \/ EndSummary \/ FailSummary
  BY <1>5 DEF ReadPositions, EndSummary, FailSummary, Base, TypeOK, SourcesKnown, Stages, Reading
<1>6. QED
  BY <1>1, <1>2, <1>3, <1>4, <1>5

(* A row that is valued is one that was held.                              *)
LEMMA ValueRowStep ==
  ASSUME Base, NEW r \in Rows, NEW x \in Prices, ValueRow(r, x)
  PROVE  Base'
<1>1. /\ stage = "value" /\ r \in todo
      /\ amount' = [amount EXCEPT ![r[2]] = amount[r[2]] + held[r]]
      /\ value' = [value EXCEPT ![r[1]] = value[r[1]] + held[r] * x]
      /\ todo' = todo \ {r}
      /\ total' \in {total, total + value'[r[1]]}
      /\ changes' \in {changes, changes \cup {"price"}}
      /\ UNCHANGED <<status, qty, price, stage, held, named, unpriced, worth>>
  BY DEF ValueRow, IsNext, GetPrice, database
<1>2. /\ r[1] \in Credentials /\ r[2] \in Symbols /\ r = <<r[1], r[2]>>
      /\ held[r] \in Nat /\ held[r] > 0 /\ x \in Nat
  BY <1>1, RowShape, BoundsAreNat DEF Base, TypeOK, Prices
<1>3. held[r] * x \in Nat
  BY <1>2, ProductIsNat
<1>4. value[r[1]] + held[r] * x \in Nat /\ amount[r[2]] + held[r] \in Nat
  BY <1>2, <1>3 DEF Base, TypeOK
<1>5. value' \in [Credentials -> Nat] /\ amount' \in [Symbols -> Nat]
  BY <1>1, <1>4 DEF Base, TypeOK
<1>6. total' \in Nat
  BY <1>1, <1>2, <1>5 DEF Base, TypeOK
<1>7. TypeOK'
  BY <1>1, <1>5, <1>6 DEF Base, TypeOK, Changes
<1>8. \A c \in Credentials : value'[c] > 0 => \E s \in Symbols : held[<<c, s>>] > 0
  <2>1. ASSUME NEW c \in Credentials, value'[c] > 0 PROVE \E s \in Symbols : held[<<c, s>>] > 0
    <3>1. CASE c = r[1]
      BY <1>2, <3>1
    <3>2. CASE c # r[1]
      BY <1>1, <2>1, <3>2 DEF Base, TypeOK, SourcesKnown
    <3>3. QED
      BY <3>1, <3>2
  <2>2. QED
    BY <2>1
<1>9. SourcesKnown'
  BY <1>1, <1>8 DEF Base, SourcesKnown, Reading
<1>10. QED
  BY <1>7, <1>9 DEF Base

LEMMA ValueSymbolStep ==
  ASSUME Base, NEW s \in Symbols, NEW x \in Prices, ValueSymbol(s, x)
  PROVE  Base'
<1>1. /\ worth' = [worth EXCEPT ![s] = amount[s] * x] /\ unpriced' = unpriced \ {s}
      /\ changes' \in {changes, changes \cup {"price"}}
      /\ UNCHANGED <<status, qty, price, stage, held, todo, named, value, total, amount>>
  BY DEF ValueSymbol, GetPrice, database
<1>2. amount[s] * x \in Nat
  BY BoundsAreNat, ProductIsNat DEF Base, TypeOK, Prices
<1>3. TypeOK'
  BY <1>1, <1>2 DEF Base, TypeOK, Changes
<1>4. SourcesKnown'
  BY <1>1 DEF Base, SourcesKnown
<1>5. QED
  BY <1>3, <1>4 DEF Base

LEMMA NextBase == Base /\ [Next]_vars => Base'
<1> SUFFICES ASSUME Base, [Next]_vars PROVE Base'
  OBVIOUS
<1>1. CASE UNCHANGED vars
  BY <1>1 DEF vars, database, summary, Base, TypeOK, SourcesKnown
<1>2. QED
  BY <1>1, CredentialStep, TableStep, ReadStep, ValueRowStep, ValueSymbolStep DEF Next

-----------------------------------------------------------------------------
(* The books: what is summed is a natural number, over finite sets.        *)
LEMMA SetsAreFinite ==
  IsFiniteSet(Credentials) /\ IsFiniteSet(Symbols) /\ IsFiniteSet(Rows)
<1>1. IsFiniteSet(Credentials) /\ IsFiniteSet(Symbols)
  BY SummaryAssumption, BoundsAreNat, FS_Interval DEF Symbols
<1>2. QED
  BY <1>1, FS_Product DEF Rows

SummandsNat ==
  /\ \A c \in Credentials : value[c] \in Nat /\ Settled[c] \in Nat
  /\ \A s \in Symbols, c \in Credentials :
       Counted(s)[c] \in Nat /\ ValuedOf(c)[s] \in Nat
  /\ \A r \in Rows : Valued[r] \in Nat
  /\ \A s \in Symbols : Worths[s] \in Nat

LEMMA SummandsAreNat == TypeOK => SummandsNat
<1> SUFFICES ASSUME TypeOK PROVE SummandsNat
  OBVIOUS
<1>1. \A r \in Rows : held[r] \in Nat /\ r[2] \in Symbols
  BY BoundsAreNat, RowShape DEF TypeOK
<1>2. \A s \in Symbols : price[s] \in Nat /\ amount[s] \in Nat
  BY BoundsAreNat DEF TypeOK, Prices
<1>3. \A c \in Credentials : value[c] \in Nat
  BY DEF TypeOK
<1>4. \A c \in Credentials, s \in Symbols : <<c, s>> \in Rows
  BY DEF Rows
<1>5. \A c \in Credentials : Settled[c] \in Nat
  BY <1>3 DEF Settled
<1>6. \A s \in Symbols, c \in Credentials : Counted(s)[c] \in Nat
  BY <1>1, <1>4 DEF Counted
<1>7. \A s \in Symbols, c \in Credentials : ValuedOf(c)[s] \in Nat
  BY <1>1, <1>2, <1>4, ProductIsNat DEF ValuedOf
<1>8. \A r \in Rows : Valued[r] \in Nat
  BY <1>1, <1>2, ProductIsNat DEF Valued
<1>9. \A s \in Symbols : Worths[s] \in Nat
  BY <1>2, ProductIsNat DEF Worths
<1>10. QED
  BY <1>3, <1>5, <1>6, <1>7, <1>8, <1>9 DEF SummandsNat

LEMMA SummandsStayNat == TypeOK' => SummandsNat'
BY SummandsAreNat, PTL

(* No summand changes as long as nothing is counted.                       *)
LEMMA SummandsStay ==
  ASSUME UNCHANGED <<held, todo, value>>
  PROVE  /\ Settled' = Settled
         /\ \A s \in Symbols : Counted(s)' = Counted(s)
         /\ UNCHANGED price =>
              /\ \A c \in Credentials : ValuedOf(c)' = ValuedOf(c)
              /\ Valued' = Valued
              /\ UNCHANGED amount => Worths' = Worths
BY DEF Settled, Counted, ValuedOf, Valued, Worths

LEMMA AccountsStay ==
  ASSUME Accounts, UNCHANGED <<held, todo, value, total, amount>>,
         stage' \in Counting => stage \in Counting,
         "price" \notin changes' => "price" \notin changes /\ price' = price
  PROVE  Accounts'
BY SummandsStay DEF Accounts

LEMMA InitBooks == Init => Books
<1> SUFFICES ASSUME Init PROVE Books
  OBVIOUS
<1>1. NothingYet
  BY DEF Init, NothingYet
<1>2. stage \notin Counting
  BY DEF Init, Counting, Reading
<1>3. QED
  BY <1>1, <1>2 DEF Books, Accounts, StillCurrent, Init

(* Writers of the tables leave the books alone, and a trace in changes.    *)
LEMMA TablesBooks ==
  ASSUME IInv,
         \/ \E c \in Credentials : AddCredential(c) \/ DeleteCredential(c)
         \/ \E r \in Rows, q \in 1..MaxQty : UpsertBalance(r, q)
         \/ \E s \in Symbols, x \in 1..MaxPrice : SavePrice(s, x)
  PROVE  Books'
<1>1. /\ UNCHANGED summary
      /\ \/ changes' = changes \cup {"rows"} /\ price' = price
         \/ changes' = changes \cup {"price"}
  BY DEF AddCredential, DeleteCredential, UpsertBalance, SavePrice
<1>2. UNCHANGED <<stage, held, todo, value, total, amount, unpriced, worth>>
  BY <1>1 DEF summary
<1>3. changes' # {}
  BY <1>1
<1>4. "price" \notin changes' => "price" \notin changes /\ price' = price
  BY <1>1
<1>5. NothingYet' /\ Accounts'
  BY <1>2, <1>4, AccountsStay DEF IInv, Books, NothingYet
<1>6. StillCurrent'
  BY <1>2, <1>3, <1>4 DEF IInv, Books, StillCurrent
<1>7. QED
  BY <1>5, <1>6 DEF Books

(* Before any row is valued, every sum is 0.                               *)
LEMMA ReadBalancesBooks ==
  ASSUME IInv, ReadBalances
  PROVE  Books'
<1>1. /\ stage = "balances" /\ stage' = "credentials" /\ held' = qty
      /\ todo' = {r \in Rows : qty[r] > 0}
      /\ UNCHANGED <<database, named, value, total, amount, unpriced, worth, changes>>
  BY DEF ReadBalances
<1>2. \A c \in Credentials : value'[c] = 0
  BY <1>1 DEF IInv, Base, SourcesKnown
<1>3. total' = 0 /\ \A s \in Symbols : amount'[s] = 0 /\ worth'[s] = 0
  BY <1>1 DEF IInv, Books, NothingYet
<1>4. \A r \in Rows : r \notin todo' => held'[r] = 0
  <2>1. \A r \in Rows : qty[r] \in Nat
    BY BoundsAreNat DEF IInv, Base, TypeOK
  <2>2. QED
    BY <1>1, <2>1
<1>5. \A s \in Symbols : price'[s] \in Nat
  BY <1>1, BoundsAreNat DEF IInv, Base, TypeOK, Prices, database
<1>6. \A c \in Credentials, s \in Symbols : <<c, s>> \in Rows
  BY DEF Rows
<1>7. \A n \in Nat : 0 * n = 0
  OBVIOUS
<1>8. /\ \A c \in Credentials : Settled'[c] = 0
      /\ \A s \in Symbols : \A c \in Credentials : (Counted(s)')[c] = 0
      /\ \A c \in Credentials : \A s \in Symbols : (ValuedOf(c)')[s] = 0
      /\ \A r \in Rows : Valued'[r] = 0
      /\ \A s \in Symbols : Worths'[s] = 0
  <2>1. \A c \in Credentials : Settled'[c] = 0
    BY <1>2 DEF Settled
  <2>2. \A s \in Symbols : \A c \in Credentials : (Counted(s)')[c] = 0
    BY <1>4, <1>6 DEF Counted
  <2>3. \A c \in Credentials : \A s \in Symbols : (ValuedOf(c)')[s] = 0
    BY <1>4, <1>5, <1>6, <1>7 DEF ValuedOf
  <2>4. \A r \in Rows : Valued'[r] = 0
    BY <1>4, <1>5, <1>7, RowShape DEF Valued
  <2>5. \A s \in Symbols : Worths'[s] = 0
    BY <1>3, <1>5, <1>7 DEF Worths
  <2>6. QED
    BY <2>1, <2>2, <2>3, <2>4, <2>5
<1>9. Accounts'
  <2>1. SumFunctionOnSet(Settled', Credentials) = 0
    BY <1>8, SetsAreFinite, SumZero
  <2>2. \A s \in Symbols : SumFunctionOnSet(Counted(s)', Credentials) = 0
    BY <1>8, SetsAreFinite, SumZero
  <2>3. \A c \in Credentials : SumFunctionOnSet(ValuedOf(c)', Symbols) = 0
    BY <1>8, SetsAreFinite, SumZero
  <2>4. SumFunctionOnSet(Valued', Rows) = 0
    BY <1>8, SetsAreFinite, SumZero
  <2>5. SumFunctionOnSet(Worths', Symbols) = 0
    BY <1>8, SetsAreFinite, SumZero
  <2>6. SumFunctionOnSet(value', Credentials) = 0
    BY <1>2, SetsAreFinite, SumZero
  <2>7. QED
    BY <1>2, <1>3, <2>1, <2>2, <2>3, <2>4, <2>5, <2>6 DEF Accounts
<1>10. NothingYet' /\ StillCurrent'
  BY <1>1, <1>3 DEF NothingYet, StillCurrent, database
<1>11. QED
  BY <1>9, <1>10 DEF Books

(* The other queries and ends count nothing.                               *)
LEMMA QueriesBooks ==
  ASSUME IInv,
         \/ BeginSummary \/ ReadCredentials
         \/ \E read \in SUBSET Credentials : CredentialsFail(read)
         \/ ReadPositions \/ EndSummary \/ FailSummary
  PROVE  Books'
<1>1. UNCHANGED <<database, held, todo, value, total, amount, worth>>
  BY DEF BeginSummary, ReadCredentials, CredentialsFail, ReadPositions, EndSummary, FailSummary
<1>2. UNCHANGED <<qty, price>>
  BY <1>1 DEF database
<1>3. CASE BeginSummary
  <2>1. stage = "idle" /\ stage' = "balances"
    BY <1>3 DEF BeginSummary
  <2>2. QED
    BY <1>1, <2>1 DEF IInv, Books, NothingYet, Accounts, StillCurrent, Counting, Reading
<1>4. CASE ReadCredentials \/ \E read \in SUBSET Credentials : CredentialsFail(read)
  <2>1. /\ stage = "credentials" /\ stage' = "value" /\ unpriced' = unpriced
        /\ changes' \in {changes, changes \cup {"names"}}
    BY <1>4 DEF ReadCredentials, CredentialsFail
  <2>2. Accounts'
    BY <1>1, <1>2, <2>1, AccountsStay DEF IInv, Books, Counting
  <2>3. NothingYet' /\ StillCurrent'
    BY <1>1, <1>2, <2>1 DEF IInv, Books, NothingYet, StillCurrent, Counting
  <2>4. QED
    BY <2>2, <2>3 DEF Books
<1>5. CASE ReadPositions
  <2>1. /\ stage = "value" /\ stage' = "symbols" /\ todo = {} /\ changes' = changes
        /\ unpriced' = {s \in Symbols : amount[s] > 0}
    BY <1>5 DEF ReadPositions
  <2>2. Accounts'
    BY <1>1, <1>2, <2>1, AccountsStay DEF IInv, Books, Counting, Reading
  <2>3. \A s \in Symbols \ unpriced' : worth[s] = amount[s] * price[s]
    <3>1. \A s \in Symbols : amount[s] \in Nat /\ price[s] \in Nat /\ worth[s] = 0
      BY <2>1, BoundsAreNat DEF IInv, Base, Books, TypeOK, Prices, NothingYet
    <3>2. \A n \in Nat : 0 * n = 0
      OBVIOUS
    <3>3. QED
      BY <2>1, <3>1, <3>2
  <2>4. NothingYet' /\ StillCurrent'
    BY <1>1, <1>2, <2>1, <2>3 DEF IInv, Books, NothingYet, StillCurrent, Counting, Reading
  <2>5. QED
    BY <2>2, <2>4 DEF Books
<1>6. CASE EndSummary
  <2>1. /\ stage = "symbols" /\ stage' = "done" /\ unpriced = {}
        /\ UNCHANGED <<unpriced, changes>>
    BY <1>6 DEF EndSummary
  <2>2. Accounts'
    BY <1>1, <1>2, <2>1, AccountsStay DEF IInv, Books, Counting, Reading
  <2>3. NothingYet' /\ StillCurrent'
    BY <1>1, <1>2, <2>1 DEF IInv, Books, NothingYet, StillCurrent, Counting, Reading
  <2>4. QED
    BY <2>2, <2>3 DEF Books
<1>7. CASE FailSummary
  <2>1. stage' = "failed"
    BY <1>7 DEF FailSummary
  <2>2. QED
    BY <2>1 DEF Books, NothingYet, Accounts, StillCurrent, Counting, Reading
<1>8. QED
  BY <1>3, <1>4, <1>5, <1>6, <1>7

LEMMA ValueSymbolBooks ==
  ASSUME IInv, NEW s \in Symbols, NEW x \in Prices, ValueSymbol(s, x)
  PROVE  Books'
<1>1. /\ stage = "symbols" /\ s \in unpriced
      /\ worth' = [worth EXCEPT ![s] = amount[s] * x] /\ unpriced' = unpriced \ {s}
      /\ \/ x = price[s] /\ changes' = changes
         \/ changes' = changes \cup {"price"}
      /\ UNCHANGED <<qty, price, stage, held, todo, value, total, amount>>
  BY DEF ValueSymbol, GetPrice, database
<1>2. Accounts'
  BY <1>1, AccountsStay DEF IInv, Books
<1>3. NothingYet'
  BY <1>1 DEF IInv, Books, NothingYet
<1>4. ASSUME "price" \notin changes', NEW t \in Symbols \ unpriced'
      PROVE  worth'[t] = amount[t] * price[t]
  BY <1>1, <1>4 DEF IInv, Base, TypeOK, Books, StillCurrent
<1>5. StillCurrent'
  BY <1>1, <1>4 DEF IInv, Books, StillCurrent
<1>6. QED
  BY <1>2, <1>3, <1>5 DEF Books

LEMMA ProductOfSum == \A a, b, n \in Nat : (a + b) * n = a * n + b * n
OBVIOUS

(* A row is counted: one summand of each sum changes, by its worth.        *)
LEMMA ValueRowBooks ==
  ASSUME IInv, TypeOK', NEW r \in Rows, NEW x \in Prices, ValueRow(r, x)
  PROVE  Books'
<1> DEFINE c == r[1]
           s == r[2]
           h == held[r]
<1>1. /\ stage = "value" /\ r \in todo
      /\ amount' = [amount EXCEPT ![s] = amount[s] + h]
      /\ value' = [value EXCEPT ![c] = value[c] + h * x]
      /\ todo' = todo \ {r}
      /\ total' = IF \E q \in todo' : q[1] = c THEN total ELSE total + value'[c]
      /\ \/ x = price[s] /\ changes' = changes
         \/ changes' = changes \cup {"price"}
      /\ UNCHANGED <<qty, price, stage, held, unpriced, worth>>
  BY DEF ValueRow, IsNext, GetPrice, database
<1>2. /\ c \in Credentials /\ s \in Symbols /\ r = <<c, s>>
      /\ h \in Nat /\ x \in Nat /\ h * x \in Nat
  BY RowShape, BoundsAreNat, ProductIsNat DEF IInv, Base, TypeOK, Prices
<1>3. /\ \A t \in Symbols : amount'[t] = IF t = s THEN amount[s] + h ELSE amount[t]
      /\ \A d \in Credentials : value'[d] = IF d = c THEN value[c] + h * x ELSE value[d]
  BY <1>1 DEF IInv, Base, TypeOK
<1>4. TypeOK /\ Accounts
  BY DEF IInv, Base, Books
<1>5. total \in Nat /\ (\A t \in Symbols : amount[t] \in Nat)
      /\ (\A d \in Credentials : value[d] \in Nat)
  BY <1>4 DEF TypeOK
<1> HIDE DEF c, s, h
<1>6. total' = SumFunctionOnSet(Settled', Credentials)
  <2>1. Settled[c] = 0 /\ \A d \in Credentials \ {c} : Settled'[d] = Settled[d]
    <3>1. \A d \in Credentials \ {c} : (\E q \in todo' : q[1] = d) <=> (\E q \in todo : q[1] = d)
      BY <1>1, <1>2
    <3>2. \E q \in todo : q[1] = c
      BY <1>1, <1>2
    <3>3. QED
      BY <1>2, <1>3, <3>1, <3>2 DEF Settled
  <2>2. Settled'[c] = IF \E q \in todo' : q[1] = c THEN 0 ELSE value'[c]
    BY <1>2 DEF Settled
  <2>3. \A d \in Credentials : Settled[d] \in Nat /\ Settled'[d] \in Nat
    BY <1>4, SummandsAreNat, SummandsStayNat DEF SummandsNat
  <2>4. SumFunctionOnSet(Settled', Credentials) + Settled[c]
          = SumFunctionOnSet(Settled, Credentials) + Settled'[c]
    BY <1>2, <2>1, <2>3, SetsAreFinite, SumChange
  <2>5. SumFunctionOnSet(Settled', Credentials) \in Nat
    BY <2>3, SetsAreFinite, SumType
  <2>6. total = SumFunctionOnSet(Settled, Credentials)
    BY <1>1, <1>4 DEF Accounts, Counting, Reading
  <2>7. SumFunctionOnSet(Settled', Credentials) = total + Settled'[c]
    BY <1>5, <2>1, <2>4, <2>5, <2>6
  <2>8. QED
    BY <1>1, <1>5, <2>2, <2>7
<1>7. ASSUME NEW t \in Symbols
      PROVE  amount'[t] = SumFunctionOnSet(Counted(t)', Credentials)
  <2>1. amount[t] = SumFunctionOnSet(Counted(t), Credentials)
    BY <1>1, <1>4 DEF Accounts, Counting, Reading
  <2>2. PICK f, g : f = Counted(t) /\ g = Counted(t)'
    OBVIOUS
  <2>3. CASE t # s
    <3>1. \A d \in Credentials : g[d] = f[d]
      BY <1>1, <1>2, <2>2, <2>3 DEF Counted
    <3>2. SumFunctionOnSet(g, Credentials) = SumFunctionOnSet(f, Credentials)
      BY <3>1, SetsAreFinite, SumCongruence
    <3>3. QED
      BY <1>3, <2>1, <2>2, <2>3, <3>2
  <2>4. CASE t = s
    <3>1. \A d \in Credentials : f[d] \in Nat /\ g[d] \in Nat
      BY <1>4, <2>2, SummandsAreNat, SummandsStayNat DEF SummandsNat
    <3>2. f[c] = 0 /\ g[c] = h /\ \A d \in Credentials \ {c} : g[d] = f[d]
      BY <1>1, <1>2, <2>2, <2>4 DEF Counted, h
    <3>3. SumFunctionOnSet(g, Credentials) + f[c] = SumFunctionOnSet(f, Credentials) + g[c]
      BY <1>2, <3>1, <3>2, SetsAreFinite, SumChange
    <3>4. SumFunctionOnSet(g, Credentials) \in Nat
      BY <3>1, SetsAreFinite, SumType
    <3>5. QED
      BY <1>2, <1>3, <1>5, <2>1, <2>2, <2>4, <3>2, <3>3, <3>4
  <2>5. QED
    BY <2>3, <2>4
<1>8. ASSUME "price" \notin changes'
      PROVE  /\ \A d \in Credentials : value'[d] = SumFunctionOnSet(ValuedOf(d)', Symbols)
             /\ SumFunctionOnSet(value', Credentials) = SumFunctionOnSet(Valued', Rows)
             /\ SumFunctionOnSet(value', Credentials) = SumFunctionOnSet(Worths', Symbols)
  <2>1. /\ x = price[s] /\ "price" \notin changes
        /\ \A d \in Credentials : value[d] = SumFunctionOnSet(ValuedOf(d), Symbols)
        /\ SumFunctionOnSet(value, Credentials) = SumFunctionOnSet(Valued, Rows)
        /\ SumFunctionOnSet(value, Credentials) = SumFunctionOnSet(Worths, Symbols)
    BY <1>1, <1>4, <1>8 DEF Accounts, Counting, Reading
  <2>2. ASSUME NEW d \in Credentials
        PROVE  value'[d] = SumFunctionOnSet(ValuedOf(d)', Symbols)
    <3>1. PICK f, g : f = ValuedOf(d) /\ g = ValuedOf(d)'
      OBVIOUS
    <3>2. CASE d # c
      <4>1. \A t \in Symbols : g[t] = f[t]
        BY <1>1, <1>2, <3>1, <3>2 DEF ValuedOf
      <4>2. SumFunctionOnSet(g, Symbols) = SumFunctionOnSet(f, Symbols)
        BY <4>1, SetsAreFinite, SumCongruence
      <4>3. QED
        BY <1>3, <2>1, <3>1, <3>2, <4>2
    <3>3. CASE d = c
      <4>1. \A t \in Symbols : f[t] \in Nat /\ g[t] \in Nat
        BY <1>4, <3>1, SummandsAreNat, SummandsStayNat DEF SummandsNat
      <4>2. f[s] = 0 /\ g[s] = h * x /\ \A t \in Symbols \ {s} : g[t] = f[t]
        BY <1>1, <1>2, <2>1, <3>1, <3>3 DEF ValuedOf, h
      <4>3. SumFunctionOnSet(g, Symbols) + f[s] = SumFunctionOnSet(f, Symbols) + g[s]
        BY <1>2, <4>1, <4>2, SetsAreFinite, SumChange
      <4>4. SumFunctionOnSet(g, Symbols) \in Nat
        BY <4>1, SetsAreFinite, SumType
      <4>5. QED
        BY <1>2, <1>3, <1>5, <2>1, <3>1, <3>3, <4>2, <4>3, <4>4
    <3>4. QED
      BY <3>2, <3>3
  <2>3. /\ SumFunctionOnSet(value', Credentials) = SumFunctionOnSet(value, Credentials) + h * x
        /\ SumFunctionOnSet(value, Credentials) \in Nat
    <3>1. \A d \in Credentials : value'[d] \in Nat
      BY SummandsStayNat DEF SummandsNat
    <3>2. SumFunctionOnSet(value', Credentials) + value[c]
            = SumFunctionOnSet(value, Credentials) + value'[c]
      BY <1>2, <1>3, <1>5, <3>1, SetsAreFinite, SumChange
    <3>3. SumFunctionOnSet(value, Credentials) \in Nat
          /\ SumFunctionOnSet(value', Credentials) \in Nat
      BY <1>5, <3>1, SetsAreFinite, SumType
    <3>4. QED
      BY <1>2, <1>3, <1>5, <3>2, <3>3
  <2>4. SumFunctionOnSet(Valued', Rows) = SumFunctionOnSet(Valued, Rows) + h * x
    <3>1. \A q \in Rows : Valued[q] \in Nat /\ Valued'[q] \in Nat
      BY <1>4, SummandsAreNat, SummandsStayNat DEF SummandsNat
    <3>2. Valued[r] = 0 /\ Valued'[r] = h * x /\ \A q \in Rows \ {r} : Valued'[q] = Valued[q]
      BY <1>1, <2>1 DEF Valued, h, s
    <3>3. SumFunctionOnSet(Valued', Rows) + Valued[r] = SumFunctionOnSet(Valued, Rows) + Valued'[r]
      BY <3>1, <3>2, SetsAreFinite, SumChange
    <3>4. SumFunctionOnSet(Valued', Rows) \in Nat /\ SumFunctionOnSet(Valued, Rows) \in Nat
      BY <3>1, SetsAreFinite, SumType
    <3>5. QED
      BY <1>2, <3>2, <3>3, <3>4
  <2>5. SumFunctionOnSet(Worths', Symbols) = SumFunctionOnSet(Worths, Symbols) + h * x
    <3>1. \A t \in Symbols : Worths[t] \in Nat /\ Worths'[t] \in Nat
      BY <1>4, SummandsAreNat, SummandsStayNat DEF SummandsNat
    <3>2. /\ Worths[s] = amount[s] * x /\ Worths'[s] = (amount[s] + h) * x
          /\ \A t \in Symbols \ {s} : Worths'[t] = Worths[t]
      BY <1>1, <1>2, <1>3, <2>1 DEF Worths
    <3>3. Worths'[s] = Worths[s] + h * x
      BY <1>2, <1>5, <3>2, ProductOfSum
    <3>4. SumFunctionOnSet(Worths', Symbols) + Worths[s]
            = SumFunctionOnSet(Worths, Symbols) + Worths'[s]
      BY <1>2, <3>1, <3>2, SetsAreFinite, SumChange
    <3>5. SumFunctionOnSet(Worths', Symbols) \in Nat /\ SumFunctionOnSet(Worths, Symbols) \in Nat
      BY <3>1, SetsAreFinite, SumType
    <3>6. \A a, b, u, k \in Nat : a + u = b + (u + k) => a = b + k
      OBVIOUS
    <3>7. Worths[s] \in Nat
      BY <1>2, <3>1
    <3>8. QED
      BY <1>2, <3>3, <3>4, <3>5, <3>6, <3>7
  <2>6. QED
    BY <2>1, <2>2, <2>3, <2>4, <2>5
<1>9. Accounts'
  BY <1>6, <1>7, <1>8 DEF Accounts
<1>10. NothingYet' /\ StillCurrent'
  BY <1>1 DEF IInv, Books, NothingYet, StillCurrent, Counting, Reading
<1>11. QED
  BY <1>9, <1>10 DEF Books

LEMMA InitIInv == Init => IInv
BY InitBase, InitBooks DEF IInv

LEMMA NextIInv == IInv /\ [Next]_vars => IInv'
<1> SUFFICES ASSUME IInv, [Next]_vars PROVE IInv'
  OBVIOUS
<1>1. Base'
  BY NextBase DEF IInv
<1>2. Books'
  <2>1. CASE UNCHANGED vars
    <3>1. UNCHANGED <<stage, held, todo, value, total, amount, unpriced, worth, qty, price, changes>>
      BY <2>1 DEF vars, database, summary
    <3>2. Accounts'
      BY <3>1, AccountsStay DEF IInv, Books
    <3>3. QED
      BY <3>1, <3>2 DEF IInv, Books, NothingYet, StillCurrent
  <2>2. TypeOK'
    BY <1>1 DEF Base
  <2>3. QED
    BY <2>1, <2>2, TablesBooks, ReadBalancesBooks, QueriesBooks, ValueRowBooks, ValueSymbolBooks
       DEF Next
<1>3. QED
  BY <1>1, <1>2 DEF IInv

-----------------------------------------------------------------------------
(* What is proved of the summary below, for every value of the constants.  *)
THEOREM IInvHolds == Spec => []IInv
BY InitIInv, NextIInv, PTL DEF Spec

(* Type correctness of the tables and of the summary (GetSummary).         *)
THEOREM TypeCorrect == Spec => []TypeOK
<1>1. IInv => TypeOK
  BY DEF IInv, Base
<1>2. QED
  BY <1>1, IInvHolds, PTL

(* A source is called "unknown" only if its credential was deleted since   *)
(* the balances were read, or the credentials could not be read.           *)
THEOREM UnknownAlwaysGone == Spec => []UnknownIsGone
<1>1. ASSUME IInv PROVE UnknownIsGone
  <2>1. SUFFICES ASSUME stage = "done", "names" \notin changes,
                        NEW c \in Credentials, value[c] > 0, c \notin named
                 PROVE  status[c] = "gone"
    BY DEF UnknownIsGone
  <2>2. PICK s \in Symbols : held[<<c, s>>] > 0
    BY <1>1, <2>1 DEF IInv, Base, SourcesKnown
  <2>3. <<c, s>> \in Rows
    BY DEF Rows
  <2>4. QED
    BY <1>1, <2>1, <2>2, <2>3 DEF IInv, Base, SourcesKnown, Reading
<1>2. QED
  BY <1>1, IInvHolds, PTL

(* The answer's by_symbol adds up to its total_usd as long as no price     *)
(* changes or fails to be read meanwhile.                                  *)
THEOREM BreakdownAlwaysAddsUp == Spec => []BreakdownAddsUpAtSteadyPrices
<1>1. ASSUME IInv PROVE BreakdownAddsUpAtSteadyPrices
  <2>1. SUFFICES ASSUME stage = "done", "price" \notin changes
                 PROVE  SumFunction(worth) = total
    BY DEF BreakdownAddsUpAtSteadyPrices
  <2>2. todo = {} /\ unpriced = {}
    BY <1>1, <2>1 DEF IInv, Books, NothingYet
  <2>3. SumFunction(worth) = SumFunctionOnSet(worth, Symbols)
    BY <1>1 DEF SumFunction, IInv, Base, TypeOK
  <2>4. SumFunctionOnSet(worth, Symbols) = SumFunctionOnSet(Worths, Symbols)
    <3>1. \A s \in Symbols : worth[s] = Worths[s]
      BY <1>1, <2>1, <2>2 DEF IInv, Books, StillCurrent, Worths
    <3>2. QED
      BY <3>1, SetsAreFinite, SumCongruence
  <2>5. SumFunctionOnSet(Settled, Credentials) = SumFunctionOnSet(value, Credentials)
    <3>1. \A c \in Credentials : Settled[c] = value[c]
      BY <2>2 DEF Settled
    <3>2. QED
      BY <3>1, SetsAreFinite, SumCongruence
  <2>6. /\ total = SumFunctionOnSet(Settled, Credentials)
        /\ SumFunctionOnSet(value, Credentials) = SumFunctionOnSet(Worths, Symbols)
    BY <1>1, <2>1 DEF IInv, Books, Accounts, Counting, Reading
  <2>7. QED
    BY <2>3, <2>4, <2>5, <2>6
<1>2. QED
  BY <1>1, IInvHolds, PTL

(* A summary during which nothing moves and nothing fails counts every     *)
(* balance once in its total, in its symbol and in its source.             *)
THEOREM QuietSummaryAlwaysExact == Spec => []QuietSummaryIsExact
<1>1. ASSUME IInv, stage = "done", changes = {}
      PROVE  /\ total = SumFunction([r \in Rows |-> qty[r] * price[r[2]]])
             /\ \A s \in Symbols :
                  worth[s] = SumFunction([c \in Credentials |-> qty[<<c, s>>]]) * price[s]
             /\ \A c \in Credentials :
                  value[c] = SumFunction([s \in Symbols |-> qty[<<c, s>>] * price[s]])
  <2>1. todo = {} /\ unpriced = {} /\ held = qty
    BY <1>1 DEF IInv, Books, NothingYet, StillCurrent, Counting, Reading
  <2>2. /\ total = SumFunctionOnSet(Settled, Credentials)
        /\ \A s \in Symbols : amount[s] = SumFunctionOnSet(Counted(s), Credentials)
        /\ \A c \in Credentials : value[c] = SumFunctionOnSet(ValuedOf(c), Symbols)
        /\ SumFunctionOnSet(value, Credentials) = SumFunctionOnSet(Valued, Rows)
        /\ \A s \in Symbols : worth[s] = amount[s] * price[s]
    BY <1>1, <2>1 DEF IInv, Books, Accounts, StillCurrent, Counting, Reading
  <2>3. total = SumFunction([r \in Rows |-> qty[r] * price[r[2]]])
    <3>1. SumFunctionOnSet(Settled, Credentials) = SumFunctionOnSet(value, Credentials)
      <4>1. \A c \in Credentials : Settled[c] = value[c]
        BY <2>1 DEF Settled
      <4>2. QED
        BY <4>1, SetsAreFinite, SumCongruence
    <3>2. Valued = [r \in Rows |-> qty[r] * price[r[2]]]
      BY <2>1 DEF Valued
    <3>3. SumFunction(Valued) = SumFunctionOnSet(Valued, Rows)
      BY DEF SumFunction, Valued
    <3>4. QED
      BY <2>2, <3>1, <3>2, <3>3
  <2>4. ASSUME NEW s \in Symbols
        PROVE  worth[s] = SumFunction([c \in Credentials |-> qty[<<c, s>>]]) * price[s]
    <3>1. Counted(s) = [c \in Credentials |-> qty[<<c, s>>]]
      BY <2>1 DEF Counted
    <3>2. SumFunction([c \in Credentials |-> qty[<<c, s>>]])
            = SumFunctionOnSet([c \in Credentials |-> qty[<<c, s>>]], Credentials)
      BY DEF SumFunction
    <3>3. QED
      BY <2>2, <3>1, <3>2
  <2>5. ASSUME NEW c \in Credentials
        PROVE  value[c] = SumFunction([s \in Symbols |-> qty[<<c, s>>] * price[s]])
    <3>1. ValuedOf(c) = [s \in Symbols |-> qty[<<c, s>>] * price[s]]
      BY <2>1 DEF ValuedOf
    <3>2. SumFunction([s \in Symbols |-> qty[<<c, s>>] * price[s]])
            = SumFunctionOnSet([s \in Symbols |-> qty[<<c, s>>] * price[s]], Symbols)
      BY DEF SumFunction
    <3>3. QED
      BY <2>2, <3>1, <3>2
  <2>6. QED
    BY <2>3, <2>4, <2>5
<1>2. IInv => QuietSummaryIsExact
  BY <1>1 DEF QuietSummaryIsExact
<1>3. QED
  BY <1>2, IInvHolds, PTL
=============================================================================
