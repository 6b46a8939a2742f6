------------------------------ MODULE GroupFetch ------------------------------
(***************************************************************************)
(* The goroutines of FanOut, those that ask Azure AD with the one client   *)
(* of their handler: they share its token, as TokenClient has it.  The     *)
(* semaphore bounds how many of them refresh it at once, and a refresh     *)
(* that fails is a fetch that fails.  GetSsoRoles asks AWS and has no      *)
(* token.                                                                  *)
(***************************************************************************)
EXTENDS FanOut, TokenClient

CONSTANT Handler    \* the goroutine of the handler

ASSUME SharedAssumption == Handler \notin Items /\ Goroutines = Items \cup {Handler}

fetchVars == <<fanVars, vars>>

FetchInit == FanInit /\ Init

-----------------------------------------------------------------------------
(* One client for all *)

UsesToken == caller # "aws2K8s"

\* The handler has listed the groups with the client before it fetches their
\* members: the token may be as old as can be, and has been filled in.
Listing ==
  /\ UsesToken /\ main = "loop"
  /\ \A i \in Items : phase[i] = "none"
  /\ RefreshStep(Handler)
  /\ UNCHANGED fanVars

Listed ==
  UsesToken /\ (\A i \in Items : phase[i] = "none") =>
    req[Handler].phase = "idle" /\ heap[cur].text = "complete"

StartGoroutine(i) ==
  /\ Listed
  /\ Spawn(i)
  /\ UNCHANGED vars

\* GetGroupMembers: prepareHttpRequest, whose error it returns, and the request.
GetGroupMembers(i) ==
  /\ UsesToken
  /\ phase[i] = "call"
  /\ RefreshStep(i)
  /\ IF req'[i] # Idle THEN UNCHANGED fanVars
     ELSE /\ Fetch(i)
          /\ req[i].phase = "refresh" => i \in failed'

GetSsoRoles(i) == ~UsesToken /\ Fetch(i) /\ UNCHANGED vars

Elsewhere(i) ==
  /\ Acquire(i) \/ Acquired(i) \/ NotAcquired(i) \/ Release(i) \/ Store(i) \/ Done(i)
  /\ UNCHANGED vars

FetchStep(i) ==
  StartGoroutine(i) \/ GetGroupMembers(i) \/ GetSsoRoles(i) \/ Elsewhere(i)

\* A panic ends the process.
Alive == main # "panic" /\ \A g \in Goroutines : req[g].phase # "panic"

FetchNext ==
  /\ Alive
  /\ \/ Listing
     \/ \E i \in Items : FetchStep(i)
     \/ ((Wait /\ Listed) \/ Cancel) /\ UNCHANGED vars
     \/ Tick /\ UNCHANGED fanVars

FetchSpec == FetchInit /\ [][FetchNext]_fetchVars

-----------------------------------------------------------------------------
(* Properties *)

\* When Wait returns nobody is filling in a token any more: whatever the
\* goroutines did to it, and whichever refreshes failed, the handler goes on
\* with one that is complete.
FinishedAfterWait == UsesToken /\ main = "after" => heap[cur].text = "complete"
=============================================================================
