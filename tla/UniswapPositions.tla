--------------------------- MODULE UniswapPositions ---------------------------
(***************************************************************************)
(* GetPositions of internal/client/defi/uniswap/client.go: the positions   *)
(* of one wallet read with a series of eth_calls (balanceOf, and per index *)
(* tokenOfOwnerByIndex and positions), each at whatever block is then the  *)
(* latest, while the wallet keeps receiving, sending, changing and burning *)
(* positions.                                                              *)
(*                                                                         *)
(* The enumeration of the contract: a token received is appended, and the  *)
(* last one takes the place of a token that leaves.  An index beyond the   *)
(* end and the id of a burnt token make the call revert.                   *)
(***************************************************************************)
EXTENDS Naturals, Sequences, Functions

CONSTANTS
  Tokens,      \* position NFTs
  Initial,     \* what the wallet holds at the start, in enumeration order
  MaxMoves     \* bound: how often the wallet's holdings change

ASSUME UniswapAssumption ==
  /\ Initial \in Seq(Tokens)
  /\ IsInjective(Initial)
  /\ MaxMoves \in Nat

VARIABLES
  owned,    \* the wallet's tokens in enumeration order
  liquid,   \* the tokens with liquidity
  burnt,    \* the tokens that no longer exist
  moves,    \* how often the holdings have changed
  call,     \* where GetPositions stands
  kept,     \* history: tokens held and liquid ever since balanceOf answered
  seen,     \* history: tokens held and liquid at some time since then
  came,     \* history: tokens that arrived at the wallet since then
  left,     \* history: tokens that left it since then
  returned, \* history: tokens that left it and arrived again since then
  short     \* history: that answer had too few bytes

chain == <<owned, liquid, burnt, moves>>
past  == <<kept, seen, came, left, returned, short>>
vars  == <<owned, liquid, burnt, moves, call, kept, seen, came, left, returned, short>>

-----------------------------------------------------------------------------
(* "balance", "index" and "token" are about to make the call of that name; *)
(* "done" returned the list, "failed" an error, and "idle" did not start.  *)
(* i counts the indices already read.                                      *)
Idle                      == [stage |-> "idle"]
Counting                  == [stage |-> "balance"]
Indexing(n, i, list)      == [stage |-> "index", balance |-> n, i |-> i, list |-> list]
Describing(n, i, list, t) == [stage |-> "token", balance |-> n, i |-> i,
                              list |-> list, token |-> t]
Done(list)                == [stage |-> "done", list |-> list]
Failed                    == [stage |-> "failed"]

Init ==
  /\ owned = Initial
  /\ liquid \in SUBSET Tokens
  /\ burnt = {}
  /\ moves = 0
  /\ call = Idle
  /\ kept = {}
  /\ seen = {}
  /\ came = {} /\ left = {} /\ returned = {}
  /\ short = FALSE

(* The wallet's open positions.                                            *)
HeldOpen == Range(owned) \cap liquid

(* A change of the chain, with the history of the call under way.          *)
Move(arrivals, departures) ==
  /\ moves < MaxMoves
  /\ moves' = moves + 1
  /\ kept' = kept \cap HeldOpen'
  /\ seen' = seen \cup HeldOpen'
  /\ came' = came \cup arrivals
  /\ left' = left \cup departures
  /\ returned' = returned \cup (arrivals \cap left)
  /\ UNCHANGED <<call, short>>

Receive(t) ==
  /\ t \notin Range(owned) \cup burnt
  /\ owned' = Append(owned, t)
  /\ UNCHANGED <<liquid, burnt>>
  /\ Move({t}, {})

(* The enumeration without the token at index i.                           *)
SwapAndPop(i) ==
  LET n == Len(owned) IN SubSeq([owned EXCEPT ![i] = owned[n]], 1, n - 1)

(* A position may be burnt once it is closed.                              *)
Send(i) ==
  /\ owned' = SwapAndPop(i)
  /\ \/ UNCHANGED burnt
     \/ owned[i] \notin liquid /\ burnt' = burnt \cup {owned[i]}
  /\ UNCHANGED liquid
  /\ Move({}, {owned[i]})

ChangeLiquidity(t) ==
  /\ t \notin burnt
  /\ liquid' = IF t \in liquid THEN liquid \ {t} ELSE liquid \cup {t}
  /\ UNCHANGED <<owned, burnt>>
  /\ Move({}, {})

-----------------------------------------------------------------------------
(* The history starts anew, with what the wallet now holds open.           *)
Watch(held) ==
  /\ kept' = held /\ seen' = held
  /\ came' = {} /\ left' = {} /\ returned' = {}

BeginGetPositions ==
  /\ call.stage \in {"idle", "done", "failed"}
  /\ call' = Counting
  /\ Watch({})
  /\ short' = FALSE
  /\ UNCHANGED chain

(* The loop head: i < balance, or return the list.                         *)
Continue(n, i, list) ==
  call' = IF i < n THEN Indexing(n, i, list) ELSE Done(list)

BalanceOf ==
  /\ call.stage = "balance"
  /\ Continue(Len(owned), 0, <<>>)
  /\ Watch(HeldOpen)
  /\ short' = FALSE
  /\ UNCHANGED chain

(* An answer of fewer than 32 bytes is taken for a balance of zero.        *)
BalanceOfShort ==
  /\ call.stage = "balance"
  /\ call' = Done(<<>>)
  /\ Watch(HeldOpen)
  /\ short' = TRUE
  /\ UNCHANGED chain

(* Mutant: an index that reverts is skipped.                               *)
TokenOfOwnerByIndex_Skips ==
  /\ call.stage = "index"
  /\ IF call.i < Len(owned)
       THEN call' = Describing(call.balance, call.i, call.list, owned[call.i + 1])
       ELSE Continue(call.balance, call.i + 1, call.list)
  /\ UNCHANGED <<chain, past>>

(* Mutant: an index that reverts starts the loop over, the list as it is.  *)
TokenOfOwnerByIndex_StartsOver ==
  /\ call.stage = "index"
  /\ IF call.i < Len(owned)
       THEN call' = Describing(call.balance, call.i, call.list, owned[call.i + 1])
       ELSE Continue(Len(owned), 0, call.list)
  /\ UNCHANGED <<chain, past>>

TokenOfOwnerByIndex ==
  /\ call.stage = "index"
  /\ call' = IF call.i < Len(owned)
               THEN Describing(call.balance, call.i, call.list, owned[call.i + 1])
               ELSE Failed
  /\ UNCHANGED <<chain, past>>

(* Mutant: closed positions are listed as well.                            *)
Positions_KeepsClosed ==
  /\ call.stage = "token"
  /\ IF call.token \in burnt THEN call' = Failed
     ELSE Continue(call.balance, call.i + 1, Append(call.list, call.token))
  /\ UNCHANGED <<chain, past>>

(* Mutant: the index is not advanced past a closed position.               *)
Positions_Stuck ==
  /\ call.stage = "token"
  /\ IF call.token \in burnt THEN call' = Failed
     ELSE IF call.token \in liquid
       THEN Continue(call.balance, call.i + 1, Append(call.list, call.token))
       ELSE Continue(call.balance, call.i, call.list)
  /\ UNCHANGED <<chain, past>>

(* positions(tokenId), which asks nothing about the owner; a position      *)
(* without liquidity is skipped.                                           *)
Positions ==
  /\ call.stage = "token"
  /\ IF call.token \in burnt THEN call' = Failed
     ELSE Continue(call.balance, call.i + 1,
                   IF call.token \in liquid THEN Append(call.list, call.token)
                                            ELSE call.list)
  /\ UNCHANGED <<chain, past>>

(* Any of the calls fails, or one after balanceOf answers too little.      *)
FailCall ==
  /\ call.stage \in {"balance", "index", "token"}
  /\ call' = Failed
  /\ UNCHANGED <<chain, past>>

CallStep ==
  \/ BalanceOf
  \/ BalanceOfShort
  \/ TokenOfOwnerByIndex
  \/ Positions
  \/ FailCall

Next ==
  \/ \E t \in Tokens : Receive(t)
  \/ \E i \in DOMAIN owned : Send(i)
  \/ \E t \in Tokens : ChangeLiquidity(t)
  \/ BeginGetPositions
  \/ CallStep

Spec == Init /\ [][Next]_vars

(* Every eth_call returns: the HTTP client behind it answers or fails.     *)
FairSpec == Spec /\ WF_vars(CallStep)

-----------------------------------------------------------------------------
(* Properties.                                                             *)

TypeOK ==
  /\ owned \in Seq(Tokens) /\ IsInjective(owned)
  /\ liquid \in SUBSET Tokens
  /\ burnt \in SUBSET (Tokens \ Range(owned))
  /\ moves \in 0..MaxMoves
  /\ kept \in SUBSET Tokens /\ seen \in SUBSET Tokens
  /\ came \in SUBSET Tokens /\ left \in SUBSET Tokens /\ returned \in SUBSET Tokens
  /\ short \in BOOLEAN
  /\ call.stage \in {"idle", "balance", "index", "token", "done", "failed"}
  /\ call.stage \in {"index", "token"} =>
       /\ call.i \in Nat /\ call.balance \in Nat /\ call.i < call.balance
       /\ Len(call.list) <= call.i
  /\ call.stage = "token" => call.token \in Tokens
  /\ call.stage \in {"index", "token", "done"} => call.list \in Seq(Tokens)

(* An answer lists every position the wallet held open all the time, even  *)
(* if tokens left it between the calls (the last index then reverts), or   *)
(* arrived (the indices stay as they are).  When tokens both left and      *)
(* arrived, one may have moved to an index that was already read.          *)
AnswersAreComplete ==
  call.stage = "done" /\ ~short =>
    kept \subseteq Range(call.list) \/ (came # {} /\ left # {})

(* No position is listed twice, unless that very position left the wallet  *)
(* and came back meanwhile, whatever other tokens came, left and moved.    *)
NoPositionTwice ==
  call.stage = "done" =>
    \A j, k \in DOMAIN call.list :
      call.list[j] = call.list[k] => j = k \/ call.list[j] \in returned

(* Every position an answer lists was held open by the wallet at some time *)
(* during the call, although its owner and its liquidity are read by       *)
(* different calls, unless that very position left in between.             *)
ListedWereHeldOpen ==
  call.stage = "done" => Range(call.list) \subseteq seen \cup left

(* GetPositions returns, whatever happens on the chain meanwhile.          *)
CallsReturn == call.stage = "balance" ~> call.stage \in {"done", "failed"}
=============================================================================
