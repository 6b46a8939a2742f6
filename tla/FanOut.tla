-------------------------------- MODULE FanOut --------------------------------
(***************************************************************************)
(* The goroutines that fetch the members of all groups, or ask all         *)
(* accounts for their roles, a few at a time.  Three handlers do it in the *)
(* same way, with a weighted semaphore, a wait group and a locked map:     *)
(* capSvc2Aad (handler/capsvc2aad.go), aws2K8s (aws/aws.go:GetSsoRoles)    *)
(* and capabilityEmailAlias (handler/capability_email_alias.go).           *)
(*                                                                         *)
(* The last one waits for the semaphore with the context of the job, which *)
(* the shutdown cancels, and goes on whether it was acquired or not; and   *)
(* it reads the result of a fetch whether it failed or not.  The semaphore *)
(* is that of golang.org/x/sync, all weights being one.  What the calls do *)
(* is in GroupFetch, with the next-state relation.                         *)
(***************************************************************************)
EXTENDS Integers, FiniteSets, Sequences

CONSTANTS
  Items,       \* groups or accounts, one goroutine each
  Size,        \* of the semaphore: 50 or 30
  MaxFaults    \* bound: fetches that fail

ASSUME FanOutAssumption == IsFiniteSet(Items) /\ Size \in Nat \ {0} /\ MaxFaults \in Nat

VARIABLES
  caller,     \* the handler
  ctx,        \* its context: "live" or "cancelled"
  main,       \* the goroutine of the handler: "loop", "after" it, or "panic"
  phase,      \* of each goroutine
  held,       \* the semaphore: how much of it is held,
  waiters,    \*   and who waits for it
  wg,         \* count of the wait group
  payload,    \* the items stored in the map
  failed,     \* those whose fetch failed
  faults

fanVars == <<caller, ctx, main, phase, held, waiters, wg, payload, failed, faults>>

-----------------------------------------------------------------------------
(* State *)

Callers == {"capSvc2Aad", "aws2K8s", "capabilityEmailAlias"}

\* A goroutine goes through the phases "none", "acquire", "wait", "ready", "call",
\* "store", "done", "release" and "ended"; "ready" is the moment when it has been
\* handed the semaphore but does not run yet.
FanInit ==
  /\ caller \in Callers
  /\ ctx = "live"
  /\ main = "loop"
  /\ phase = [i \in Items |-> "none"]
  /\ held = 0
  /\ waiters = <<>>
  /\ wg = 0
  /\ payload = {}
  /\ failed = {}
  /\ faults = 0

GoesOn(i, p) == phase' = [phase EXCEPT ![i] = p]

-----------------------------------------------------------------------------
(* The semaphore *)

\* notifyWaiters: as many of the waiters as fit, in their order, when n of the
\* semaphore are held and w wait.
Notified(n, w) == {w[k] : k \in 1..(IF Size - n < Len(w) THEN Size - n ELSE Len(w))}

\* What that does to the goroutines, with i going on to p.
Notify(i, p, n, w) ==
  LET woken == Notified(n, w)
  IN  /\ held' = n + Cardinality(woken)
      /\ waiters' = SubSeq(w, Cardinality(woken) + 1, Len(w))
      /\ phase' = [j \in Items |-> IF j = i THEN p
                                   ELSE IF j \in woken THEN "ready" ELSE phase[j]]

\* A queue without its k-th element.
Without(w, k) == [n \in 1..(Len(w) - 1) |-> w[IF n < k THEN n ELSE n + 1]]

\* Variant: a goroutine that comes while others wait is let through.
AcquireBarging(i) ==
  /\ phase[i] = "acquire"
  /\ IF held <= Size
     THEN /\ held' = held + 1
          /\ GoesOn(i, "call")
          /\ UNCHANGED waiters
     ELSE /\ waiters' = Append(waiters, i)
          /\ GoesOn(i, "wait")
          /\ UNCHANGED held
  /\ UNCHANGED <<caller, ctx, main, wg, payload, failed, faults>>

\* Acquire: at once when there is room and nobody waits, whatever the context.
Acquire(i) ==
  /\ phase[i] = "acquire"
  /\ IF held < Size /\ waiters = <<>>
     THEN /\ held' = held + 1
          /\ GoesOn(i, "call")
          /\ UNCHANGED waiters
     ELSE /\ waiters' = Append(waiters, i)
          /\ GoesOn(i, "wait")
          /\ UNCHANGED held
  /\ UNCHANGED <<caller, ctx, main, wg, payload, failed, faults>>

\* The rest of Acquire: the semaphore has been handed over.
Acquired(i) ==
  /\ phase[i] = "ready"
  /\ GoesOn(i, "call")
  /\ UNCHANGED <<caller, ctx, main, held, waiters, wg, payload, failed, faults>>

\* Or the context is done, which nobody asks about: the goroutine goes on
\* without having acquired anything.  Who leaves the front of the queue wakes
\* others when there is room.
NotAcquired(i) ==
  /\ phase[i] = "wait"
  /\ ctx = "cancelled"
  /\ \E k \in DOMAIN waiters :
       /\ waiters[k] = i
       /\ IF k = 1 /\ Size > held
          THEN Notify(i, "call", held, Without(waiters, k))
          ELSE waiters' = Without(waiters, k) /\ GoesOn(i, "call") /\ UNCHANGED held
  /\ UNCHANGED <<caller, ctx, main, wg, payload, failed, faults>>

\* Variant: the waiters are not told.
ReleaseQuietly(i) ==
  /\ phase[i] = "release"
  /\ IF held = 0
     THEN main' = "panic" /\ GoesOn(i, "ended") /\ UNCHANGED <<held, waiters>>
     ELSE held' = held - 1 /\ GoesOn(i, "ended") /\ UNCHANGED <<main, waiters>>
  /\ UNCHANGED <<caller, ctx, wg, payload, failed, faults>>

\* Release, deferred: it panics when less is held.
Release(i) ==
  /\ phase[i] = "release"
  /\ IF held = 0
     THEN main' = "panic" /\ GoesOn(i, "ended") /\ UNCHANGED <<held, waiters>>
     ELSE Notify(i, "ended", held - 1, waiters) /\ UNCHANGED main
  /\ UNCHANGED <<caller, ctx, wg, payload, failed, faults>>

-----------------------------------------------------------------------------
(* The handler and its goroutines *)

\* One iteration: wg.Add, and a goroutine.  Nobody looks at the context.
Spawn(i) ==
  /\ main = "loop"
  /\ phase[i] = "none"
  /\ GoesOn(i, "acquire")
  /\ wg' = wg + 1
  /\ UNCHANGED <<caller, ctx, main, held, waiters, payload, failed, faults>>

\* The remote call.  After an error capSvc2Aad and aws2K8s return; the third
\* handler reads the members all the same, of which there are none: a panic.
Fetch(i) ==
  /\ phase[i] = "call"
  /\ \/ GoesOn(i, "store") /\ UNCHANGED <<main, failed, faults>>
     \/ /\ faults < MaxFaults
        /\ faults' = faults + 1
        /\ failed' = failed \cup {i}
        /\ GoesOn(i, "done")
        /\ main' = IF caller = "capabilityEmailAlias" THEN "panic" ELSE main
  /\ UNCHANGED <<caller, ctx, held, waiters, wg, payload>>

\* The map is written under a lock.
Store(i) ==
  /\ phase[i] = "store"
  /\ payload' = payload \cup {i}
  /\ GoesOn(i, "done")
  /\ UNCHANGED <<caller, ctx, main, held, waiters, wg, failed, faults>>

\* Variant: Done is called when the fetch begins.
DoneFirst(i) ==
  /\ phase[i] \in {"store", "done"}
  /\ IF phase[i] = "store"
     THEN wg' = wg - 1 /\ UNCHANGED phase
     ELSE GoesOn(i, "release") /\ UNCHANGED wg
  /\ UNCHANGED <<caller, ctx, main, held, waiters, payload, failed, faults>>

\* The deferred calls run in reverse order: waitGroup.Done comes first.
Done(i) ==
  /\ phase[i] = "done"
  /\ wg' = wg - 1
  /\ GoesOn(i, "release")
  /\ UNCHANGED <<caller, ctx, main, held, waiters, payload, failed, faults>>

\* waitGroup.Wait returns, and the map is read without the lock.
Wait ==
  /\ main = "loop"
  /\ \A i \in Items : phase[i] # "none"
  /\ wg = 0
  /\ main' = "after"
  /\ UNCHANGED <<caller, ctx, phase, held, waiters, wg, payload, failed, faults>>

\* A shutdown.  Two of the handlers wait with a context of their own.
Cancel ==
  /\ caller = "capabilityEmailAlias"
  /\ ctx = "live"
  /\ ctx' = "cancelled"
  /\ UNCHANGED <<caller, main, phase, held, waiters, wg, payload, failed, faults>>

-----------------------------------------------------------------------------
(* Properties *)

Holding == {i \in Items : phase[i] \in {"ready", "call", "store", "done", "release"}}

\* The semaphore knows of everybody who waits for it and, as long as the context
\* lives, of every call under way: no more than Size are.
AtMostSize ==
  /\ {i \in Items : phase[i] = "wait"} = {waiters[k] : k \in DOMAIN waiters}
  /\ ctx = "live" => Cardinality(Holding) = held /\ held <= Size

\* As long as Wait has not returned, some goroutine can go on, or all are counted
\* off: each has a bounded number of steps, so that Wait does return.
NeverStuck ==
  main = "loop" => \/ \E i \in Items : phase[i] \notin {"wait", "ended"}
                   \/ wg = 0

\* When Wait returns, all that could be fetched is in the map, and no
\* goroutine writes to it any more.
CompleteAfterWait ==
  main = "after" => /\ payload = Items \ failed
                    /\ \A i \in Items : phase[i] \in {"release", "ended"}
=============================================================================
