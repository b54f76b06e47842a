----------------------------- MODULE PriceEvents -----------------------------
(***************************************************************************)
(* The price topic between PriceFeed's producer and the consumer group of  *)
(* internal/event/kafka.go (NewKafkaProducer, NewKafkaConsumer, Start).    *)
(* The server at hand does not start a consumer; it is written to be       *)
(* started with a handler of price events, and this is what it promises.   *)
(*                                                                         *)
(* The writer's balancer is LeastBytes, which looks at sizes and not at    *)
(* the key: a message goes to any partition.  The reader belongs to a      *)
(* group.  ReadMessage is two remote steps: it fetches a message, then     *)
(* commits its offset; only then the message is handled.  When the group   *)
(* is rebalanced in between, the commit goes out under the new generation, *)
(* of which every member is one, whoever owns the partition by then.       *)
(*                                                                         *)
(* Data.  An entry of the log is its partition and its index, from 1.      *)
(* The retries inside the writer are left out: one call, one message.      *)
(***************************************************************************)
EXTENDS PriceFeed, Sequences

CONSTANTS
  Partitions,
  Members,    \* the consumers of the group: processes that called Start
  MaxEntries, \* bound: how long a partition grows
  NoEntry     \* a consumer has no message

Entry == Partitions \X (1..MaxEntries)

ASSUME EventsAssumption == MaxEntries \in Nat /\ NoEntry \notin Entry

VARIABLES
  log,       \* broker: per partition, the messages
  committed, \* broker: per partition, the offset the group committed last
  owner,     \* broker: the member each partition is assigned to
  position,  \* owner: per partition, how many it has gone past
  fetched,   \* member: the entry ReadMessage has fetched and not committed
  hand,      \* member: the entry it is about to handle
  handled,   \* history: the entries that were given to a handler
  overtaken  \* history: the entries fetched, not committed, at a rebalance

broker   == <<log, committed, owner>>
consumer == <<position, fetched, hand, handled, overtaken>>
allVars  == <<quote, latest, stored, run, cancelled, loop, tick, stopped,
              log, committed, owner, position, fetched, hand, handled, overtaken>>

EventsInit ==
  /\ Init
  /\ log = [i \in Partitions |-> <<>>]
  /\ committed = [i \in Partitions |-> 0]
  /\ owner \in [Partitions -> Members]
  /\ position = [i \in Partitions |-> 0]
  /\ fetched = [c \in Members |-> NoEntry]
  /\ hand = [c \in Members |-> NoEntry]
  /\ handled = {}
  /\ overtaken = {}

-----------------------------------------------------------------------------
(* The producer: the message is appended to some partition, whether or not *)
(* the writer learns of it: it sends in the background, so that a cancelled*)
(* call may still deliver.  Where PublishPriceEvent is a step of the feed  *)
(* alone the message is lost, with an error in the log or, as the writer   *)
(* asks for no acknowledgement, without.                                   *)
Deliver(p, i) ==
  /\ Len(log[i]) < MaxEntries
  /\ PublishPriceEvent(p)
  /\ log' = [log EXCEPT ![i] = Append(@, <<run[p].symbol, run[p].prices[run[p].symbol]>>)]
  /\ UNCHANGED <<committed, owner, consumer>>

FeedStep ==
  \/ \E p \in Procs, i \in Partitions : Deliver(p, i)
  \/ Next /\ UNCHANGED <<broker, consumer>>

-----------------------------------------------------------------------------
(* A consumer: for { ReadMessage; handler }.                               *)
FetchMessage(c, i) ==
  /\ fetched[c] = NoEntry /\ hand[c] = NoEntry
  /\ owner[i] = c
  /\ position[i] < Len(log[i])
  /\ position' = [position EXCEPT ![i] = @ + 1]
  /\ fetched' = [fetched EXCEPT ![c] = <<i, position[i] + 1>>]
  /\ UNCHANGED <<vars, broker, hand, handled, overtaken>>

(* The offset becomes the one committed, also if a later one was.          *)
CommitOffset(e) == committed' = [committed EXCEPT ![e[1]] = e[2]]

(* Mutant: FetchMessage, and nothing commits.                              *)
CommitMessages_Skips(c) ==
  /\ fetched[c] # NoEntry
  /\ fetched' = [fetched EXCEPT ![c] = NoEntry]
  /\ hand' = [hand EXCEPT ![c] = fetched[c]]
  /\ UNCHANGED <<vars, broker, position, handled, overtaken>>

CommitMessages(c) ==
  /\ fetched[c] # NoEntry
  /\ CommitOffset(fetched[c])
  /\ fetched' = [fetched EXCEPT ![c] = NoEntry]
  /\ hand' = [hand EXCEPT ![c] = fetched[c]]
  /\ UNCHANGED <<vars, log, owner, position, handled, overtaken>>

(* The commit fails, in effect or for want of an answer: ReadMessage       *)
(* returns the error, which is logged, and the loop reads on.              *)
CommitFails(c) ==
  /\ fetched[c] # NoEntry
  /\ UNCHANGED committed \/ CommitOffset(fetched[c])
  /\ fetched' = [fetched EXCEPT ![c] = NoEntry]
  /\ UNCHANGED <<vars, log, owner, position, hand, handled, overtaken>>

(* The handler is called; its error is only logged.                        *)
Handle(c) ==
  /\ hand[c] # NoEntry
  /\ handled' = handled \cup {hand[c]}
  /\ hand' = [hand EXCEPT ![c] = NoEntry]
  /\ UNCHANGED <<vars, broker, position, fetched, overtaken>>

(* The group is rebalanced, because members died, which lose what they     *)
(* have, joined, or were late.  The partitions are assigned anew, and what *)
(* is not committed is read again; what the others have they keep.         *)
Rebalance(dead, assignment) ==
  /\ owner' = assignment
  /\ position' = committed
  /\ fetched' = [c \in Members |-> IF c \in dead THEN NoEntry ELSE fetched[c]]
  /\ hand' = [c \in Members |-> IF c \in dead THEN NoEntry ELSE hand[c]]
  /\ overtaken' = overtaken \cup ({fetched'[c] : c \in Members} \ {NoEntry})
  /\ UNCHANGED <<vars, log, committed, handled>>

ConsumerStep ==
  \/ \E c \in Members, i \in Partitions : FetchMessage(c, i)
  \/ \E c \in Members : CommitMessages(c)
  \/ \E c \in Members : CommitFails(c)
  \/ \E c \in Members : Handle(c)
  \/ \E dead \in SUBSET Members, assignment \in [Partitions -> Members] :
       Rebalance(dead, assignment)

EventsNext == FeedStep \/ ConsumerStep

EventsSpec == EventsInit /\ [][EventsNext]_allVars

-----------------------------------------------------------------------------
EventsTypeOK ==
  /\ TypeOK
  /\ log \in [Partitions -> Seq(Symbols \X Price)]
  /\ committed \in [Partitions -> 0..MaxEntries]
  /\ owner \in [Partitions -> Members]
  /\ position \in [Partitions -> 0..MaxEntries]
  /\ fetched \in [Members -> Entry \cup {NoEntry}]
  /\ hand \in [Members -> Entry \cup {NoEntry}]
  /\ handled \subseteq Entry
  /\ overtaken \subseteq Entry

(* Whoever hears of a price on the topic finds it in asset_prices, whatever*)
(* failed, was cancelled or died around it.                                *)
EventsAreStored ==
  \A i \in Partitions : \A j \in DOMAIN log[i] : log[i][j] \in stored

(* A message is handled twice only in the wake of a rebalance that came    *)
(* between a fetch and its commit, and then from the entry fetched on: the *)
(* late commit may take the group back to it, though others went further.  *)
(* Consumers that die, commits that fail or lose their answer and any      *)
(* other rebalance may lose messages, but make none be handled twice.      *)
Overtaken(e) == \E o \in overtaken : o[1] = e[1] /\ o[2] <= e[2]

TwiceOnlyIfOvertaken ==
  \A c \in Members : hand[c] \in handled => Overtaken(hand[c])
=============================================================================
