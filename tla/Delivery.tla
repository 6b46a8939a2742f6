------------------------------- MODULE Delivery -------------------------------
(***************************************************************************)
(* What the event loop promises about the topic it reads                   *)
(* (internal/event/event.go): messages are settled for the first time in   *)
(* the order of the topic, and the consumer group never commits past a     *)
(* message that is not settled.  A committed offset may go back.           *)
(***************************************************************************)
EXTENDS Naturals

CONSTANT N   \* messages in the topic, a natural number

VARIABLES
  settled,     \* offsets that were handled, skipped or forwarded to the DLQ
  committed    \* offset the consumer group continues from

Offsets == 0..(N - 1)

Init == settled = {} /\ committed = 0

Settle ==
  /\ \E o \in Offsets \ settled :
       /\ \A p \in Offsets : p < o => p \in settled
       /\ settled' = settled \cup {o}
  /\ UNCHANGED committed

Commit ==
  /\ \E n \in 0..N :
       /\ \A p \in Offsets : p < n => p \in settled
       /\ committed' = n
  /\ UNCHANGED settled

Next == Settle \/ Commit

Spec == Init /\ [][Next]_<<settled, committed>>
=============================================================================
