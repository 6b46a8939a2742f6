----------------------------- MODULE TokenClient ------------------------------
(***************************************************************************)
(* The access token that all requests of a client share                    *)
(* (internal/util/auth.go, and prepareHttpRequest of the clients).  Fifty  *)
(* goroutines use one client without a lock: the check of the token, its   *)
(* replacement and its use interleave.                                     *)
(*                                                                         *)
(* A token object on the heap has the two fields that RefreshAuth fills in *)
(* one after the other, each through the shared pointer, which another     *)
(* goroutine may have changed.  Time is relative: a token's life and the   *)
(* recorded expiry are the seconds that are left, below zero when passed.  *)
(***************************************************************************)
EXTENDS Integers, FiniteSets

CONSTANTS
  Goroutines,   \* make requests with one client, one after the other each
  Objects,      \* token objects
  NoObject,
  Lifetime,     \* ExpiresIn: seconds a token lives
  MaxDelay      \* bound: seconds from the begin of RefreshAuth to GetToken

ASSUME ObjectsAssumption == NoObject \notin Objects
ASSUME TimesAssumption ==
  Lifetime \in Nat /\ MaxDelay \in Nat /\ MaxDelay <= Lifetime

VARIABLES
  cur,    \* c.Token: the object all share
  heap,   \* the objects
  req     \* local state of every goroutine

vars == <<cur, heap, req>>

-----------------------------------------------------------------------------
(* State *)

\* A string is written in two parts.  A reader between them finds a length
\* without its characters.
Text  == {"empty", "torn", "complete"}
Floor == -(2 * MaxDelay + 1)              \* as good as any longer time ago
Life  == Floor..Lifetime
Until == -1..Lifetime                     \* IsExpired asks only for the sign

Token    == [text : Text, life : Life, expiresIn : Until]
NewToken == [text |-> "empty", life |-> Floor, expiresIn |-> -1]

Phase    == {"idle", "expiresIn", "refresh", "publish", "setExpiry",
             "setToken", "setText", "use", "reuse", "sent", "panic"}
Writing  == {"setExpiry", "setToken", "setText"}

Request ==
  [phase     : Phase,
   at        : Objects \cup {NoObject},   \* being looked at or written to
   own       : Objects \cup {NoObject},   \* allocated by this goroutine
   life      : Life,          \* of the token received, later of the token sent
   expiresIn : Until,         \* the value to be recorded
   text      : Text,          \* of the token sent
   delay     : 0..MaxDelay]   \* seconds since the request began

\* The type invariant.
TypeOK ==
  /\ cur \in Objects
  /\ heap \in [Objects -> Token]
  /\ req \in [Goroutines -> Request]

Idle == [phase |-> "idle", at |-> NoObject, own |-> NoObject, life |-> Floor,
         expiresIn |-> -1, text |-> "empty", delay |-> 0]

\* NewTokenClient: a token that is empty.
Init ==
  /\ cur \in Objects
  /\ heap = [o \in Objects |-> NewToken]
  /\ req = [g \in Goroutines |-> Idle]

-----------------------------------------------------------------------------
(* RefreshAuth *)

Goes(g, p) == req' = [req EXCEPT ![g].phase = p]

\* prepareHttpRequest begins; IsExpired looks at the token first.  The empty
\* one is expired.
ReadToken(g) ==
  /\ req[g].phase = "idle"
  /\ \E p \in {"expiresIn", "refresh"} :
       /\ heap[cur].text = "empty"    => p = "refresh"
       /\ heap[cur].text = "complete" => p = "expiresIn"
       /\ req' = [req EXCEPT ![g].phase = p,
                             ![g].at = IF p = "expiresIn" THEN cur ELSE NoObject]
  /\ UNCHANGED <<cur, heap>>

\* IsExpired: the second in which the token expires still counts.
ReadExpiry(g) ==
  /\ req[g].phase = "expiresIn"
  /\ req' = [req EXCEPT
               ![g].phase = IF heap[req[g].at].expiresIn < 0 THEN "refresh"
                                                             ELSE "reuse",
               ![g].at = NoObject]
  /\ UNCHANGED <<cur, heap>>

\* Variant: the shared token is reset before a new one has been asked for.
CallAuthReset(g) ==
  /\ req[g].phase = "refresh"
  /\ \/ req' = [req EXCEPT ![g].phase = "publish", ![g].life = Lifetime]
     \/ Goes(g, "idle")
  /\ heap' = [heap EXCEPT ![cur] = NewToken]
  /\ UNCHANGED cur

\* refreshAuthFunc: a token is issued, or the request fails.
CallAuth(g) ==
  /\ req[g].phase = "refresh"
  /\ \/ req' = [req EXCEPT ![g].phase = "publish", ![g].life = Lifetime]
     \/ req' = [req EXCEPT ![g] = Idle]
  /\ UNCHANGED <<cur, heap>>

Free == Objects \ ({cur} \cup {req[g].at : g \in Goroutines}
                        \cup {req[g].own : g \in Goroutines})

\* Variant: the shared object is filled in again, not replaced.
PublishInPlace(g) ==
  /\ req[g].phase = "publish"
  /\ req' = [req EXCEPT ![g].phase = "setExpiry", ![g].own = cur,
                        ![g].expiresIn = Lifetime]
  /\ UNCHANGED <<cur, heap>>

\* The answer is here: from now on the seconds of ExpiresIn are counted.  The
\* empty token is published.
Publish(g) ==
  /\ req[g].phase = "publish"
  /\ \E o \in Free :
       /\ cur' = o
       /\ heap' = [heap EXCEPT ![o] = NewToken]
       /\ req' = [req EXCEPT ![g].phase = "setExpiry", ![g].own = o,
                             ![g].expiresIn = Lifetime]

\* The object a statement "c.Token.x = ..." writes to.  The pointer is read
\* again, unless the compiler keeps the one just stored.
Target(g) == {cur, req[g].own}

SetExpiry(g) ==
  /\ req[g].phase = "setExpiry"
  /\ \E o \in Target(g) :
       heap' = [heap EXCEPT ![o].expiresIn = req[g].expiresIn]
  /\ Goes(g, "setToken")
  /\ UNCHANGED cur

\* The first half of the string.  Tokens are equally long: one that is written
\* over another is never torn.
SetToken(g) ==
  /\ req[g].phase = "setToken"
  /\ \E o \in Target(g) :
       /\ heap' = [heap EXCEPT ![o].text = IF @ = "empty" THEN "torn" ELSE @]
       /\ req' = [req EXCEPT ![g].phase = "setText", ![g].at = o]
  /\ UNCHANGED cur

SetText(g) ==
  /\ req[g].phase = "setText"
  /\ heap' = [heap EXCEPT ![req[g].at].text = "complete",
                          ![req[g].at].life = req[g].life]
  /\ req' = [req EXCEPT ![g] = [Idle EXCEPT !.phase = "use", !.delay = req[g].delay]]
  /\ UNCHANGED cur

\* GetToken, through the shared pointer once more.  The header is formatted
\* with whatever is there.  A torn string is read as empty, or it is copied
\* from nowhere and the process panics.
UseToken(g) ==
  /\ req[g].phase \in {"use", "reuse"}
  /\ \E p \in {"sent", "panic"} :
       /\ p = "panic" => heap[cur].text = "torn"
       /\ req' = [req EXCEPT ![g] = [Idle EXCEPT !.phase = p,
                                                 !.life = heap[cur].life,
                                                 !.text = heap[cur].text]]
  /\ UNCHANGED <<cur, heap>>

Answered(g) ==
  /\ req[g].phase = "sent"
  /\ req' = [req EXCEPT ![g] = Idle]
  /\ UNCHANGED <<cur, heap>>

RefreshStep(g) ==
  ReadToken(g) \/ ReadExpiry(g) \/ CallAuth(g) \/ Publish(g) \/ SetExpiry(g)
  \/ SetToken(g) \/ SetText(g) \/ UseToken(g) \/ Answered(g)

Waiting(g) == req[g].phase \notin {"idle", "sent", "panic"}

Less(n, floor) == IF n = floor THEN floor ELSE n - 1

\* A second passes.  No request takes longer than MaxDelay up to its GetToken.
Tick ==
  /\ \A g \in Goroutines : Waiting(g) => req[g].delay < MaxDelay
  /\ heap' = [o \in Objects |->
                [heap[o] EXCEPT !.life = Less(@, Floor), !.expiresIn = Less(@, -1)]]
  /\ req' = [g \in Goroutines |->
               IF Waiting(g)
               THEN [req[g] EXCEPT !.life = Less(@, Floor), !.expiresIn = Less(@, -1),
                                   !.delay = @ + 1]
               ELSE req[g]]
  /\ UNCHANGED cur

\* A panic ends the process.
Next == /\ \A g \in Goroutines : req[g].phase # "panic"
        /\ \/ \E g \in Goroutines : RefreshStep(g)
           \/ Tick

Spec == Init /\ [][Next]_vars

-----------------------------------------------------------------------------
(* Properties *)

\* However refreshes overlap, and whoever's expiry is recorded beside whoever's
\* token, the cache believes in a token at most MaxDelay seconds too long.
DriftBounded ==
  heap[cur].text = "complete" /\ heap[cur].expiresIn >= 0 =>
    heap[cur].expiresIn - heap[cur].life <= MaxDelay

\* So a token that is sent has expired at most twice that long ago.
NotLongExpired ==
  \A g \in Goroutines :
    req[g].phase = "sent" /\ req[g].text = "complete" =>
      req[g].life >= -(2 * MaxDelay)

\* An unfinished token is sent, or breaks the process, only while some other
\* goroutine is filling in the token it has published: a failed refresh leaves
\* the last token in place.
UnfinishedOnlyMeanwhile ==
  [][\A g \in Goroutines :
       UseToken(g) /\ heap[cur].text # "complete" =>
         \E h \in Goroutines \ {g} : req[h].phase \in Writing /\ req[h].own = cur
    ]_vars
=============================================================================
