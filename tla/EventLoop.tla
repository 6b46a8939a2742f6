------------------------------ MODULE EventLoop ------------------------------
(***************************************************************************)
(* The loop that reads one partition of the capability topic and hands its *)
(* events to their handlers (internal/event/event.go), and the process     *)
(* around it (cmd/orchestrator/main.go): a loop that returns an error      *)
(* stops the process, which is then restarted and reads on from the last   *)
(* committed offset.                                                       *)
(***************************************************************************)
EXTENDS Naturals

CONSTANTS
  N,            \* messages in the topic
  FetchErrors,  \* can FetchMessage fail?
  MaxFaults     \* bound: failed calls, signals, crashes and rebalances

ASSUME NAssumption == N \in Nat
ASSUME FaultsAssumption == MaxFaults \in Nat /\ FetchErrors \in BOOLEAN

VARIABLES
  kind,       \* offset -> "event" if a handler is registered for it, or "skip"
  outcomes,   \* offset -> what has been done with the message so far
  committed,  \* offset the consumer group continues from
  next,       \* offset FetchMessage returns next
  msg,        \* offset of the message in hand
  pc,         \* where the loop is; "returned" once StartEventHandlers is back
  ctx,        \* the context of the process
  process,    \* is the process up?
  faults

loop == <<kind, committed, msg>>
life == <<ctx, process>>
vars == <<kind, outcomes, committed, next, msg, pc, ctx, process, faults>>

-----------------------------------------------------------------------------
(* State *)

Offsets == 0..(N - 1)

TypeOK ==
  /\ kind \in [Offsets -> {"event", "skip"}]
  /\ outcomes \in [Offsets -> SUBSET {"handled", "skipped", "dead"}]
  /\ committed \in 0..N
  /\ next \in 0..N
  /\ msg \in 0..N
  /\ pc \in {"fetch", "dispatch", "dlq", "commit", "returned"}
  /\ pc \in {"dispatch", "dlq", "commit"} => msg \in Offsets
  /\ ctx \in {"live", "cancelled"}
  /\ process \in {"up", "down"}
  /\ faults \in 0..MaxFaults

Init ==
  /\ kind \in [Offsets -> {"event", "skip"}]
  /\ outcomes = [o \in Offsets |-> {}]
  /\ committed = 0
  /\ next = 0
  /\ msg = N
  /\ pc = "fetch"
  /\ ctx = "live"
  /\ process = "up"
  /\ faults = 0

Settled == {o \in Offsets : outcomes[o] # {}}
Record(x) == outcomes' = [outcomes EXCEPT ![msg] = @ \cup {x}]
Fault == faults < MaxFaults /\ faults' = faults + 1

\* A call whose context is cancelled may fail without any other fault.
CallFails == \/ Fault
             \/ ctx = "cancelled" /\ UNCHANGED faults

-----------------------------------------------------------------------------
(* One iteration of the loop *)

\* A variant: ReadMessage, which commits what it returns.
ReadCommitting ==
  /\ process = "up"
  /\ pc = "fetch"
  /\ next < N
  /\ msg' = next
  /\ next' = next + 1
  /\ committed' = next + 1
  /\ pc' = "dispatch"
  /\ UNCHANGED <<kind, outcomes, life, faults>>

\* FetchMessage returns a message; it may do so with the context cancelled.
Fetch ==
  /\ process = "up"
  /\ pc = "fetch"
  /\ next < N
  /\ msg' = next
  /\ next' = next + 1
  /\ pc' = "dispatch"
  /\ UNCHANGED <<kind, outcomes, committed, life, faults>>

\* EOF, a cancelled context or any other error ends the loop, and
\* StartEventHandlers returns nil.
FetchEnds ==
  /\ process = "up"
  /\ pc = "fetch"
  /\ \/ ctx = "cancelled" /\ UNCHANGED faults
     \/ FetchErrors /\ Fault
  /\ pc' = "returned"
  /\ UNCHANGED <<loop, outcomes, next, life>>

\* No JSON, no event type or no handler for the type.
Skip ==
  /\ process = "up"
  /\ pc = "dispatch"
  /\ kind[msg] = "skip"
  /\ Record("skipped")
  /\ pc' = "commit"
  /\ UNCHANGED <<loop, next, life, faults>>

HandlerSucceeds ==
  /\ process = "up"
  /\ pc = "dispatch"
  /\ kind[msg] = "event"
  /\ Record("handled")
  /\ pc' = "commit"
  /\ UNCHANGED <<loop, next, life, faults>>

\* A variant: the error of a handler is logged, and its message committed.
HandlerErrorLogged ==
  /\ process = "up"
  /\ pc = "dispatch"
  /\ kind[msg] = "event"
  /\ pc' = "commit"
  /\ UNCHANGED <<loop, outcomes, next, life, faults>>

HandlerFails ==
  /\ process = "up"
  /\ pc = "dispatch"
  /\ kind[msg] = "event"
  /\ pc' = "dlq"
  /\ UNCHANGED <<loop, outcomes, next, life, faults>>

Forward ==
  /\ process = "up"
  /\ pc = "dlq"
  /\ Record("dead")
  /\ pc' = "commit"
  /\ UNCHANGED <<loop, next, life, faults>>

\* A variant: the loop goes on with the next message.
ForwardErrorLogged ==
  /\ process = "up"
  /\ pc = "dlq"
  /\ CallFails
  /\ UNCHANGED outcomes \/ Record("dead")
  /\ pc' = "fetch"
  /\ UNCHANGED <<loop, next, life>>

\* The write may have reached the broker.  The loop returns the error, and the
\* goroutine of main calls stop.
ForwardFails ==
  /\ process = "up"
  /\ pc = "dlq"
  /\ CallFails
  /\ UNCHANGED outcomes \/ Record("dead")
  /\ pc' = "returned"
  /\ ctx' = "cancelled"
  /\ UNCHANGED <<loop, next, process>>

\* A variant: CommitMessages adds one to the offset by itself, so does the caller.
CommitTwice ==
  /\ process = "up"
  /\ pc = "commit"
  /\ committed' = msg + 2
  /\ pc' = "fetch"
  /\ UNCHANGED <<kind, outcomes, next, msg, life, faults>>

Commit ==
  /\ process = "up"
  /\ pc = "commit"
  /\ committed' = msg + 1
  /\ pc' = "fetch"
  /\ UNCHANGED <<kind, outcomes, next, msg, life, faults>>

\* The commit may have reached the broker.  The error is logged, no more.
CommitFails ==
  /\ process = "up"
  /\ pc = "commit"
  /\ CallFails
  /\ committed' \in {committed, msg + 1}
  /\ pc' = "fetch"
  /\ UNCHANGED <<kind, outcomes, next, msg, life>>

-----------------------------------------------------------------------------
(* The consumer group, the process and its restarts *)

\* A new generation of the group (external): the reader goes back to what is
\* committed, under the feet of the loop.
Rebalance ==
  /\ process = "up"
  /\ Fault
  /\ next' = committed
  /\ UNCHANGED <<loop, outcomes, pc, life>>

Stop ==
  /\ process = "up"
  /\ ctx = "live"
  /\ Fault
  /\ ctx' = "cancelled"
  /\ UNCHANGED <<loop, outcomes, next, pc, process>>

\* main returns once the context is cancelled and the loop is gone.
Exit ==
  /\ process = "up"
  /\ ctx = "cancelled"
  /\ pc = "returned"
  /\ process' = "down"
  /\ UNCHANGED <<loop, outcomes, next, pc, ctx, faults>>

Crash ==
  /\ process = "up"
  /\ Fault
  /\ process' = "down"
  /\ UNCHANGED <<loop, outcomes, next, pc, ctx>>

\* The pod is started again (external).
Restart ==
  /\ process = "down"
  /\ process' = "up"
  /\ ctx' = "live"
  /\ pc' = "fetch"
  /\ next' = committed
  /\ msg' = N
  /\ UNCHANGED <<kind, outcomes, committed, faults>>

\* Nothing to read: FetchMessage blocks, as does main once the loop has
\* returned without an error.
Blocked ==
  /\ process = "up"
  /\ ctx = "live"
  /\ pc = "returned" \/ (pc = "fetch" /\ next = N)
  /\ UNCHANGED vars

LoopStep ==
  \/ Fetch \/ FetchEnds \/ Skip \/ HandlerSucceeds \/ HandlerFails
  \/ Forward \/ ForwardFails \/ Commit \/ CommitFails

Next == LoopStep \/ Rebalance \/ Stop \/ Exit \/ Crash \/ Restart \/ Blocked

Spec == Init /\ [][Next]_vars
\* The loop goes on by itself, main returns when it can, and the cluster starts
\* a pod again that has ended.
FairSpec == Spec /\ WF_vars(LoopStep) /\ WF_vars(Exit) /\ WF_vars(Restart)

-----------------------------------------------------------------------------
(* Properties *)

\* Nothing is committed that was not handled, skipped or forwarded, whatever
\* fails in between: no event is lost.
CommittedIsSettled == \A o \in Offsets : o < committed => o \in Settled

\* A message is taken up for the first time only when all before it are
\* settled: a member's leaving is never handled before the joining.
FirstInOrder == \A o \in Settled : \A p \in Offsets : p < o => p \in Settled

\* The loop keeps the promise of Delivery.
D == INSTANCE Delivery WITH settled <- Settled, committed <- committed
Delivers == D!Spec

\* A failed FetchMessage has ended the loop, and nothing tells main.
EndedQuietly == process = "up" /\ pc = "returned" /\ ctx = "live"

\* Every message of the topic is settled in the end, whatever failed, unless a
\* failed FetchMessage ended the loop and nothing has stopped the process since.
AllSettled == <>[](Settled = Offsets \/ EndedQuietly)

\* "Event loop error, shutting down.": a loop that has ended takes the process
\* with it.
LoopEndsProcess == pc = "returned" ~> process = "down"
=============================================================================
