--------------------------- MODULE EventLoop_proofs ---------------------------
(***************************************************************************)
(* Proofs about EventLoop for every number of messages and of faults: what *)
(* is committed is settled, messages are first settled in the order of the *)
(* topic, and the loop implements Delivery.                                *)
(***************************************************************************)
EXTENDS EventLoop, TLAPS

\* All messages below n are settled.
SettledBelow(n) == \A o \in Offsets : o < n => o \in Settled

\* The reader is at most one unsettled message ahead, the one in hand.
ReaderInv ==
  \A o \in Offsets : o < next =>
    \/ o \in Settled
    \/ o = msg /\ pc \in {"dispatch", "dlq", "returned"}

HandInv ==
  /\ pc \in {"dispatch", "dlq", "commit"} => SettledBelow(msg)
  /\ pc = "commit" => msg \in Settled

LoopInv == TypeOK /\ ReaderInv /\ HandInv /\ CommittedIsSettled /\ FirstInOrder

LEMMA InitInv == Init => LoopInv
  BY NAssumption, FaultsAssumption
  DEF Init, LoopInv, TypeOK, ReaderInv, HandInv, CommittedIsSettled,
      FirstInOrder, Settled, Offsets, SettledBelow

\* Recording an outcome settles the message in hand and no other.
LEMMA RecordSettles ==
  ASSUME TypeOK, msg \in Offsets, NEW x \in {"handled", "skipped", "dead"}, Record(x)
  PROVE  /\ outcomes' \in [Offsets -> SUBSET {"handled", "skipped", "dead"}]
         /\ Settled' = Settled \cup {msg}
  BY DEF TypeOK, Record, Settled

\* Nothing is unsettled: outcomes is the only state Settled reads.
LEMMA SameSettled == UNCHANGED outcomes => Settled' = Settled
  BY DEF Settled

\* Every step leaves the settled messages alone, or settles the one in hand
\* after all before it.
LEMMA StepSettles ==
  ASSUME LoopInv, [Next]_vars
  PROVE  \/ Settled' = Settled
         \/ /\ msg \in Offsets
            /\ SettledBelow(msg)
            /\ Settled' = Settled \cup {msg}
            /\ msg' = msg
            /\ committed' = committed
<1>1. CASE Skip \/ HandlerSucceeds \/ Forward
  BY <1>1, RecordSettles
  DEF LoopInv, TypeOK, HandInv, Skip, HandlerSucceeds, Forward, loop
<1>2. CASE ForwardFails
  <2>1. CASE UNCHANGED outcomes
    BY <2>1, SameSettled
  <2>2. CASE Record("dead")
    BY <1>2, <2>2, RecordSettles DEF LoopInv, TypeOK, HandInv, ForwardFails, loop
  <2> QED BY <1>2, <2>1, <2>2 DEF ForwardFails
<1>3. CASE UNCHANGED outcomes
  BY <1>3, SameSettled
<1> QED
  BY <1>1, <1>2, <1>3
  DEF Next, LoopStep, vars, loop, life, Fetch, FetchEnds, HandlerFails, Commit,
      CommitFails, Rebalance, Stop, Exit, Crash, Restart, Blocked

LEMMA TypesKept ==
  ASSUME LoopInv, [Next]_vars
  PROVE  TypeOK'
<1> USE NAssumption, FaultsAssumption DEF TypeOK, LoopInv, Offsets
<1>1. CASE Skip \/ HandlerSucceeds \/ Forward
  BY <1>1, RecordSettles DEF Skip, HandlerSucceeds, Forward, loop, life
<1>2. CASE ForwardFails
  BY <1>2, RecordSettles DEF ForwardFails, CallFails, Fault, loop, life
<1>3. CASE Fetch \/ FetchEnds \/ HandlerFails
  BY <1>3 DEF Fetch, FetchEnds, HandlerFails, Fault, loop, life
<1>4. CASE Commit \/ CommitFails
  BY <1>4 DEF Commit, CommitFails, CallFails, Fault, loop, life
<1>5. CASE Rebalance \/ Stop \/ Exit \/ Crash \/ Restart
  BY <1>5 DEF Rebalance, Stop, Exit, Crash, Restart, Fault, loop, life
<1>6. CASE UNCHANGED vars
  BY <1>6 DEF vars
<1> QED
  BY <1>1, <1>2, <1>3, <1>4, <1>5, <1>6 DEF Next, LoopStep, Blocked

\* What has been settled stays so, and messages are settled in order.
LEMMA OrderKept ==
  ASSUME LoopInv, [Next]_vars
  PROVE  FirstInOrder' /\ Settled \subseteq Settled'
  BY StepSettles, NAssumption DEF LoopInv, FirstInOrder, SettledBelow, Offsets

\* Where the reader stands, what it holds and what is committed, for each
\* action that moves one of them.
LEMMA PositionsKept ==
  ASSUME LoopInv, [Next]_vars
  PROVE  ReaderInv' /\ HandInv' /\ CommittedIsSettled'
<1>0. Settled \subseteq Settled'
  BY OrderKept
<1> USE <1>0, NAssumption
    DEF LoopInv, ReaderInv, HandInv, CommittedIsSettled, SettledBelow, TypeOK, Offsets
<1>1. CASE Fetch
  <2>1. Settled' = Settled
    BY <1>1, SameSettled DEF Fetch
  <2> HIDE DEF Settled
  <2> QED BY <1>1, <2>1 DEF Fetch, loop, life
<1>2. CASE Skip \/ HandlerSucceeds \/ Forward
  <2>1. msg \in Settled'
    BY <1>2, RecordSettles DEF Skip, HandlerSucceeds, Forward
  <2>2. UNCHANGED <<committed, next, msg>> /\ pc' = "commit" /\ pc \in {"dispatch", "dlq"}
    BY <1>2 DEF Skip, HandlerSucceeds, Forward, loop
  <2> QED BY <2>1, <2>2
<1>3. CASE HandlerFails \/ ForwardFails \/ FetchEnds
  BY <1>3 DEF HandlerFails, ForwardFails, FetchEnds, loop
<1>4. CASE Commit \/ CommitFails
  <2>1. Settled' = Settled
    BY <1>4, SameSettled DEF Commit, CommitFails
  <2>2. /\ pc = "commit" /\ pc' = "fetch"
        /\ UNCHANGED <<next, msg>>
        /\ committed' \in {committed, msg + 1}
    BY <1>4 DEF Commit, CommitFails
  <2> QED BY <2>1, <2>2
<1>5. CASE Rebalance \/ Restart
  <2>1. Settled' = Settled
    BY <1>5, SameSettled DEF Rebalance, Restart
  <2>2. committed' = committed /\ next' = committed
    BY <1>5 DEF Rebalance, Restart, loop
  <2>3. \/ UNCHANGED <<msg, pc>>
        \/ pc' = "fetch"
    BY <1>5 DEF Rebalance, Restart, loop
  <2> QED BY <2>1, <2>2, <2>3
<1>6. CASE Stop \/ Exit \/ Crash \/ UNCHANGED vars
  BY <1>6 DEF Stop, Exit, Crash, vars, loop
<1> QED
  BY <1>1, <1>2, <1>3, <1>4, <1>5, <1>6 DEF Next, LoopStep, Blocked

\* The inductive invariant holds in every behaviour.
THEOREM LoopInvAlways == Spec => []LoopInv
<1>1. LoopInv /\ [Next]_vars => LoopInv'
  BY TypesKept, OrderKept, PositionsKept DEF LoopInv
<1> QED
  BY InitInv, <1>1, PTL DEF Spec

\* The variables of the loop have their types.
THEOREM TypeCorrect == Spec => []TypeOK
<1>1. LoopInv => TypeOK
  BY DEF LoopInv
<1> QED BY LoopInvAlways, <1>1, PTL

\* No crash, rebalance or failed call makes the consumer group commit past an
\* event that was not handled, skipped or forwarded.
THEOREM NoEventLost == Spec => []CommittedIsSettled
<1>1. LoopInv => CommittedIsSettled
  BY DEF LoopInv
<1> QED BY LoopInvAlways, <1>1, PTL

\* Events are taken up for the first time in the order of the topic.
THEOREM OrderAlways == Spec => []FirstInOrder
<1>1. LoopInv => FirstInOrder
  BY DEF LoopInv
<1> QED BY LoopInvAlways, <1>1, PTL

\* Every step of the loop is a step of Delivery or leaves it alone.
LEMMA StepDelivers ==
  ASSUME LoopInv, LoopInv', [Next]_vars
  PROVE  [D!Next]_<<Settled, committed>>
<1>1. /\ \A p \in Offsets : p < committed' => p \in Settled'
      /\ committed' \in 0..N
  BY DEF LoopInv, TypeOK, CommittedIsSettled, Offsets
<1>2. CASE Settled' = Settled
  <2>1. \A p \in D!Offsets : p < committed' => p \in Settled
    BY <1>1, <1>2 DEF D!Offsets, Offsets
  <2>2. D!Commit
    BY <1>1, <1>2, <2>1 DEF D!Commit
  <2> QED BY <2>2 DEF D!Next
<1>3. CASE /\ msg \in Offsets
           /\ SettledBelow(msg)
           /\ Settled' = Settled \cup {msg}
           /\ committed' = committed
  <2>1. CASE msg \in Settled
    <3>1. Settled' = Settled
      BY <1>3, <2>1
    <3> QED BY <3>1, <1>3
  <2>2. CASE msg \notin Settled
    BY <1>3, <2>2 DEF D!Next, D!Settle, D!Offsets, Offsets, SettledBelow
  <2> QED BY <2>1, <2>2
<1> QED
  BY StepSettles, <1>2, <1>3

\* The loop, with its crashes, restarts and rebalances, implements Delivery.
THEOREM LoopDelivers == Spec => Delivers
<1>1. Init => D!Init
  BY DEF Init, D!Init, Settled
<1>2. LoopInv /\ LoopInv' /\ [Next]_vars => [D!Next]_<<Settled, committed>>
  BY StepDelivers
<1> QED
  BY LoopInvAlways, <1>1, <1>2, PTL DEF Spec, Delivers, D!Spec
=============================================================================
