--------------------------- MODULE GroupFetch_proofs ---------------------------
(***************************************************************************)
(* Theorems about TokenClient, FanOut and GroupFetch, for any number of    *)
(* goroutines and groups, any semaphore and any times.  First TokenClient  *)
(* by itself, then what composes it with the fan-out.                      *)
(***************************************************************************)
EXTENDS GroupFetch, FiniteSetTheorems, TLAPS

-----------------------------------------------------------------------------
(* TokenClient: the ranges of its counters *)

LEMMA LessTypes ==
  /\ \A n \in Life : Less(n, Floor) \in Life /\ Less(n, Floor) >= n - 1
  /\ \A n \in Until : /\ Less(n, -1) \in Until
                      /\ Less(n, -1) >= 0 => Less(n, -1) = n - 1
  BY TimesAssumption DEF Less, Life, Until, Floor

LEMMA Numbers ==
  /\ Floor \in Life /\ Lifetime \in Life
  /\ -1 \in Until /\ Lifetime \in Until
  /\ 0 \in 0..MaxDelay
  BY TimesAssumption DEF Life, Until, Floor

LEMMA IdleType == Idle \in Request /\ NewToken \in Token
  BY Numbers DEF Idle, NewToken, Request, Token, Phase, Text

-----------------------------------------------------------------------------
(* Types *)

(* A goroutine that reads or writes an object has a pointer to it. *)
Points(q) ==
  /\ q.phase = "expiresIn" => q.at \in Objects
  /\ q.phase \in Writing => q.own \in Objects
  /\ q.phase = "setText" => q.at \in Objects

TypeInv == TypeOK /\ \A g \in Goroutines : Points(req[g])

LEMMA OneRequest ==
  ASSUME TypeInv, NEW g \in Goroutines, NEW q \in Request, Points(q),
         req' = [req EXCEPT ![g] = q],
         cur' \in Objects, heap' \in [Objects -> Token]
  PROVE  TypeInv'
  <1>1. req' \in [Goroutines -> Request]
    BY DEF TypeInv, TypeOK
  <1>2. ASSUME NEW h \in Goroutines PROVE Points(req'[h])
    BY DEF TypeInv, TypeOK
  <1> QED BY <1>1, <1>2 DEF TypeInv, TypeOK, Points

(* What each action makes of the request of its goroutine. *)
LEMMA TypeStep == TypeInv /\ [Next]_vars => TypeInv'
  <1> SUFFICES ASSUME TypeInv, [Next]_vars PROVE TypeInv'
    OBVIOUS
  <1>0. /\ cur \in Objects /\ heap \in [Objects -> Token]
        /\ req \in [Goroutines -> Request]
        /\ \A g \in Goroutines : Points(req[g])
    BY DEF TypeInv, TypeOK
  <1>1. ASSUME NEW g \in Goroutines, ReadToken(g) PROVE TypeInv'
    <2>1. PICK p \in {"expiresIn", "refresh"} :
            req' = [req EXCEPT ![g].phase = p,
                               ![g].at = IF p = "expiresIn" THEN cur ELSE NoObject]
      BY <1>1 DEF ReadToken
    <2> DEFINE q == [req[g] EXCEPT !.phase = p,
                                   !.at = IF p = "expiresIn" THEN cur ELSE NoObject]
    <2>2. q \in Request /\ Points(q)
      BY <1>0 DEF Request, Phase, Points, Writing
    <2>3. req' = [req EXCEPT ![g] = q]
      BY <2>1, <1>0
    <2> HIDE DEF q
    <2> QED BY <1>0, <1>1, <2>2, <2>3, OneRequest DEF ReadToken
  <1>2. ASSUME NEW g \in Goroutines, ReadExpiry(g) PROVE TypeInv'
    <2> DEFINE p == IF heap[req[g].at].expiresIn < 0 THEN "refresh" ELSE "reuse"
               q == [req[g] EXCEPT !.phase = p, !.at = NoObject]
    <2>1. p \in {"refresh", "reuse"}
      OBVIOUS
    <2>2. req' = [req EXCEPT ![g] = q]
      BY <1>2, <1>0 DEF ReadExpiry
    <2> HIDE DEF p
    <2>3. q \in Request /\ Points(q)
      BY <1>0, <2>1 DEF Request, Phase, Points, Writing
    <2> HIDE DEF q
    <2> QED BY <1>0, <1>2, <2>2, <2>3, OneRequest DEF ReadExpiry
  <1>3. ASSUME NEW g \in Goroutines, CallAuth(g) PROVE TypeInv'
    <2> DEFINE q == [req[g] EXCEPT !.phase = "publish", !.life = Lifetime]
    <2>1. q \in Request /\ Points(q)
      BY <1>0, Numbers DEF Request, Phase, Points, Writing
    <2>2. Points(Idle)
      BY DEF Idle, Points, Writing
    <2>3. req' = [req EXCEPT ![g] = q] \/ req' = [req EXCEPT ![g] = Idle]
      BY <1>3, <1>0 DEF CallAuth
    <2> HIDE DEF q
    <2> QED BY <1>0, <1>3, <2>1, <2>2, <2>3, OneRequest, IdleType DEF CallAuth
  <1>4. ASSUME NEW g \in Goroutines, Publish(g) PROVE TypeInv'
    <2>1. PICK o \in Free :
            /\ cur' = o
            /\ heap' = [heap EXCEPT ![o] = NewToken]
            /\ req' = [req EXCEPT ![g].phase = "setExpiry", ![g].own = o,
                                  ![g].expiresIn = Lifetime]
      BY <1>4 DEF Publish
    <2> DEFINE q == [req[g] EXCEPT !.phase = "setExpiry", !.own = o,
                                   !.expiresIn = Lifetime]
    <2>2. q \in Request /\ Points(q)
      BY <1>0, Numbers DEF Request, Phase, Points, Writing, Free
    <2>3. req' = [req EXCEPT ![g] = q]
      BY <2>1, <1>0
    <2>4. heap' \in [Objects -> Token] /\ cur' \in Objects
      BY <2>1, <1>0, IdleType DEF Free
    <2> HIDE DEF q
    <2> QED BY <2>2, <2>3, <2>4, OneRequest
  <1>5. ASSUME NEW g \in Goroutines, SetExpiry(g) PROVE TypeInv'
    <2> DEFINE q == [req[g] EXCEPT !.phase = "setToken"]
    <2>1. q \in Request /\ Points(q)
      BY <1>0, <1>5 DEF SetExpiry, Request, Phase, Points, Writing
    <2>2. req' = [req EXCEPT ![g] = q]
      BY <1>5, <1>0 DEF SetExpiry, Goes
    <2>3. heap' \in [Objects -> Token]
      <3>1. PICK o \in Target(g) :
              heap' = [heap EXCEPT ![o].expiresIn = req[g].expiresIn]
        BY <1>5 DEF SetExpiry
      <3>2. req[g].expiresIn \in Until
        BY <1>0 DEF Request
      <3> QED BY <1>0, <3>1, <3>2 DEF Token
    <2> HIDE DEF q
    <2> QED BY <1>0, <1>5, <2>1, <2>2, <2>3, OneRequest DEF SetExpiry
  <1>6. ASSUME NEW g \in Goroutines, SetToken(g) PROVE TypeInv'
    <2>1. PICK o \in Target(g) :
            /\ heap' = [heap EXCEPT ![o].text = IF @ = "empty" THEN "torn" ELSE @]
            /\ req' = [req EXCEPT ![g].phase = "setText", ![g].at = o]
      BY <1>6 DEF SetToken
    <2> DEFINE q == [req[g] EXCEPT !.phase = "setText", !.at = o]
    <2>2. o \in Objects
      BY <1>0, <1>6, <2>1 DEF SetToken, Target, Points, Writing
    <2>3. q \in Request /\ Points(q)
      <3>1. q.own \in Objects
        BY <1>0, <1>6 DEF SetToken, Request, Points, Writing
      <3>2. q \in Request
        BY <1>0, <2>2 DEF Request, Phase
      <3>3. q.at \in Objects /\ q.phase = "setText"
        BY <1>0, <2>2 DEF Request
      <3> QED BY <3>1, <3>2, <3>3 DEF Points
    <2>4. req' = [req EXCEPT ![g] = q]
      BY <2>1, <1>0
    <2>5. heap' \in [Objects -> Token]
      <3> DEFINE t == [heap[o] EXCEPT !.text = IF @ = "empty" THEN "torn" ELSE @]
      <3>1. t \in Token
        BY <2>2, <1>0 DEF Token, Text
      <3>2. heap' = [heap EXCEPT ![o] = t]
        BY <2>1, <1>0
      <3> HIDE DEF t
      <3> QED BY <1>0, <3>1, <3>2
    <2> HIDE DEF q
    <2> QED BY <1>0, <1>6, <2>3, <2>4, <2>5, OneRequest DEF SetToken
  <1>7. ASSUME NEW g \in Goroutines, SetText(g) PROVE TypeInv'
    <2> DEFINE q == [Idle EXCEPT !.phase = "use", !.delay = req[g].delay]
    <2>1. q \in Request /\ Points(q)
      BY <1>0, IdleType DEF Request, Phase, Idle, Points, Writing
    <2>2. req' = [req EXCEPT ![g] = q]
      BY <1>7 DEF SetText
    <2>3. heap' \in [Objects -> Token]
      <3> DEFINE o == req[g].at
      <3> DEFINE t == [heap[o] EXCEPT !.text = "complete", !.life = req[g].life]
      <3>1. req[g].life \in Life /\ o \in Objects
        BY <1>0, <1>7 DEF SetText, Request, Points
      <3>2. t \in Token
        BY <1>0, <3>1 DEF Token, Text
      <3>3. heap' = [heap EXCEPT ![o] = t]
        BY <1>0, <1>7, <3>1 DEF SetText
      <3> HIDE DEF t, o
      <3> QED BY <1>0, <3>1, <3>2, <3>3
    <2> HIDE DEF q
    <2> QED BY <1>0, <1>7, <2>1, <2>2, <2>3, OneRequest DEF SetText
  <1>8. ASSUME NEW g \in Goroutines, UseToken(g) PROVE TypeInv'
    <2>1. PICK p \in {"sent", "panic"} :
            req' = [req EXCEPT ![g] = [Idle EXCEPT !.phase = p,
                                                   !.life = heap[cur].life,
                                                   !.text = heap[cur].text]]
      BY <1>8 DEF UseToken
    <2> DEFINE q == [Idle EXCEPT !.phase = p, !.life = heap[cur].life,
                                 !.text = heap[cur].text]
    <2>2. q \in Request /\ Points(q)
      BY <1>0, IdleType DEF Request, Phase, Token, Idle, Points, Writing
    <2>3. req' = [req EXCEPT ![g] = q]
      BY <2>1
    <2> HIDE DEF q
    <2> QED BY <1>0, <1>8, <2>2, <2>3, OneRequest DEF UseToken
  <1>9. ASSUME NEW g \in Goroutines, Answered(g) PROVE TypeInv'
    <2>1. Points(Idle)
      BY DEF Idle, Points, Writing
    <2> QED BY <1>0, <1>9, <2>1, OneRequest, IdleType DEF Answered
  <1>10. ASSUME Tick PROVE TypeInv'
    <2>1. heap' \in [Objects -> Token]
      BY <1>0, <1>10, LessTypes DEF Tick, Token
    <2>2. ASSUME NEW g \in Goroutines PROVE req'[g] \in Request /\ Points(req'[g])
      <3> DEFINE q == [req[g] EXCEPT !.life = Less(@, Floor),
                                     !.expiresIn = Less(@, -1),
                                     !.delay = @ + 1]
      <3>1. CASE ~Waiting(g)
        BY <1>0, <1>10, <3>1 DEF Tick
      <3>2. CASE Waiting(g)
        <4>1. req'[g] = q
          BY <1>0, <1>10, <3>2 DEF Tick
        <4>2. req[g] \in Request
          BY <1>0
        <4>3. req[g].delay + 1 \in 0..MaxDelay
          <5>1. req[g].delay \in 0..MaxDelay
            BY <4>2 DEF Request
          <5>2. req[g].delay < MaxDelay
            BY <1>10, <3>2 DEF Tick
          <5> QED BY <5>1, <5>2, TimesAssumption
        <4>4. /\ Less(req[g].life, Floor) \in Life
              /\ Less(req[g].expiresIn, -1) \in Until
          BY <4>2, LessTypes DEF Request
        <4>5. q \in Request
          BY <4>2, <4>3, <4>4 DEF Request
        <4>6. Points(q)
          BY <1>0, <4>2 DEF Points, Request
        <4> QED BY <4>1, <4>5, <4>6
      <3> QED BY <3>1, <3>2
    <2>3. req' \in [Goroutines -> Request]
      BY <1>10, <2>2 DEF Tick
    <2> QED BY <1>0, <1>10, <2>1, <2>2, <2>3 DEF Tick, TypeInv, TypeOK, Points
  <1>11. CASE UNCHANGED vars
    BY <1>11 DEF vars, TypeInv, TypeOK, Points
  <1> QED
    BY <1>1, <1>2, <1>3, <1>4, <1>5, <1>6, <1>7, <1>8, <1>9, <1>10, <1>11
       DEF Next, RefreshStep

LEMMA TypeInit == Init => TypeInv
  BY IdleType DEF Init, TypeInv, TypeOK, Points, Idle, Writing

LEMMA TypeInvAlways == Spec => []TypeInv
  BY TypeInit, TypeStep, PTL DEF Spec

(* The type invariant holds in every reachable state. *)
THEOREM TypeCorrect == Spec => []TypeOK
  BY TypeInvAlways, PTL DEF TypeInv

-----------------------------------------------------------------------------
(* How long a token can be believed in *)

Complete == heap[cur].text = "complete"

(* The shared token, as goroutine g will use it, is not long expired. *)
Recent(g) == Complete => heap[cur].life >= -(MaxDelay + req[g].delay)

(* What a goroutine is about to write is recent; what it is about to record is
   no later than the shared token allows; what it is about to use, or has just
   checked, is recent, or has been replaced by something recent meanwhile. *)
HandOK(g) ==
  /\ req[g].phase \in Writing \cup {"publish"} =>
       req[g].life >= Lifetime - req[g].delay
  /\ req[g].phase = "setExpiry" /\ Complete /\ req[g].expiresIn >= 0 =>
       req[g].expiresIn - heap[cur].life <= MaxDelay
  /\ req[g].phase = "expiresIn" => req[g].at = cur \/ Recent(g)
  /\ req[g].phase \in Writing \cup {"use", "reuse"} => Recent(g)
  /\ req[g].phase = "sent" /\ req[g].text = "complete" =>
       req[g].life >= -(2 * MaxDelay)

CacheInv == TypeInv /\ DriftBounded /\ \A g \in Goroutines : HandOK(g)

LEMMA Ranges ==
  ASSUME TypeInv
  PROVE  /\ Lifetime \in Nat /\ MaxDelay \in Nat /\ MaxDelay <= Lifetime
         /\ \A o \in Objects : /\ heap[o].life \in Int
                                /\ heap[o].expiresIn \in Int
                                /\ heap[o].expiresIn <= Lifetime
                                /\ heap[o].text \in Text
         /\ \A g \in Goroutines : /\ req[g].life \in Int
                                   /\ req[g].expiresIn \in Int
                                   /\ req[g].expiresIn <= Lifetime
                                   /\ req[g].delay \in Nat
                                   /\ req[g].delay <= MaxDelay
         /\ cur \in Objects
  BY TimesAssumption DEF TypeInv, TypeOK, Token, Request, Life, Until, Floor

LEMMA CacheInit == Init => CacheInv
  BY TypeInit, TimesAssumption
     DEF Init, CacheInv, DriftBounded, HandOK, NewToken, Idle, Writing

(* A step that leaves the shared token alone disturbs only its own request. *)
LEMMA OwnStep ==
  ASSUME CacheInv, TypeInv', NEW g \in Goroutines,
         cur' = cur, heap'[cur] = heap[cur],
         \A h \in Goroutines \ {g} : req'[h] = req[h],
         HandOK(g)'
  PROVE  CacheInv'
  <1>1. ASSUME NEW h \in Goroutines \ {g} PROVE HandOK(h)'
    BY DEF CacheInv, HandOK, Complete, Recent
  <1> QED BY <1>1 DEF CacheInv, DriftBounded

LEMMA CacheStep == CacheInv /\ [Next]_vars => CacheInv'
  <1> SUFFICES ASSUME CacheInv, [Next]_vars PROVE CacheInv'
    OBVIOUS
  <1>0. TypeInv /\ TypeInv'
    BY TypeStep DEF CacheInv
  <1>t. /\ cur \in Objects /\ heap \in [Objects -> Token]
        /\ req \in [Goroutines -> Request]
    BY <1>0 DEF TypeInv, TypeOK
  <1>1. ASSUME NEW g \in Goroutines, ReadToken(g) PROVE CacheInv'
    <2>1. PICK p \in {"expiresIn", "refresh"} :
            req' = [req EXCEPT ![g].phase = p,
                               ![g].at = IF p = "expiresIn" THEN cur ELSE NoObject]
      BY <1>1 DEF ReadToken
    <2>2. /\ req'[g].phase = p
          /\ p = "expiresIn" => req'[g].at = cur
          /\ \A h \in Goroutines \ {g} : req'[h] = req[h]
      BY <2>1, <1>t DEF Request
    <2>3. HandOK(g)'
      BY <1>1, <2>2 DEF ReadToken, HandOK, Writing
    <2> QED BY <1>0, <1>1, <2>2, <2>3, OwnStep DEF ReadToken
  <1>2. ASSUME NEW g \in Goroutines, ReadExpiry(g) PROVE CacheInv'
    <2>1. /\ req'[g].phase = IF heap[req[g].at].expiresIn < 0 THEN "refresh"
                                                             ELSE "reuse"
          /\ req'[g].delay = req[g].delay
          /\ \A h \in Goroutines \ {g} : req'[h] = req[h]
          /\ cur' = cur /\ heap' = heap
      BY <1>2, <1>t DEF ReadExpiry, Request
    <2>2. ASSUME ~(heap[req[g].at].expiresIn < 0) PROVE Recent(g)
      <3>1. CASE req[g].at = cur
        BY <2>2, <3>1, <1>0, Ranges DEF CacheInv, DriftBounded, Recent, Complete
      <3> QED BY <1>2, <3>1 DEF CacheInv, HandOK, ReadExpiry
    <2>3. HandOK(g)'
      BY <2>1, <2>2 DEF HandOK, Recent, Complete, Writing
    <2> QED BY <1>0, <2>1, <2>3, OwnStep
  <1>3. ASSUME NEW g \in Goroutines, CallAuth(g) PROVE CacheInv'
    <2>1. /\ \/ req'[g] = Idle
             \/ req'[g].phase = "publish" /\ req'[g].life = Lifetime
          /\ \A h \in Goroutines \ {g} : req'[h] = req[h]
          /\ cur' = cur /\ heap' = heap
      BY <1>3, <1>t DEF CallAuth, Request
    <2>2. req'[g].delay \in Nat
      BY <1>0, TimesAssumption DEF TypeInv, TypeOK, Request
    <2>3. HandOK(g)'
      BY <2>1, <2>2, TimesAssumption DEF HandOK, Writing, Idle
    <2> QED BY <1>0, <2>1, <2>3, OwnStep
  <1>9. ASSUME NEW g \in Goroutines, Answered(g) PROVE CacheInv'
    <2>1. HandOK(g)'
      BY <1>9, <1>t DEF Answered, HandOK, Idle, Writing
    <2> QED BY <1>0, <1>9, <1>t, <2>1, OwnStep DEF Answered
  <1>4. ASSUME NEW g \in Goroutines, Publish(g) PROVE CacheInv'
    <2>1. PICK o \in Free :
            /\ cur' = o
            /\ heap' = [heap EXCEPT ![o] = NewToken]
            /\ req' = [req EXCEPT ![g].phase = "setExpiry", ![g].own = o,
                                  ![g].expiresIn = Lifetime]
      BY <1>4 DEF Publish
    <2>2. heap'[cur'] = NewToken
      BY <2>1, <1>t DEF Free
    <2>3. ~Complete'
      BY <2>2 DEF Complete, NewToken
    <2>4. ASSUME NEW h \in Goroutines PROVE HandOK(h)'
      <3>1. /\ req'[g].phase = "setExpiry" /\ req'[g].life = req[g].life
            /\ req'[g].delay = req[g].delay
            /\ h # g => req'[h] = req[h]
        BY <2>1, <1>t DEF Request
      <3> QED BY <1>4, <2>3, <3>1 DEF CacheInv, HandOK, Recent, Writing, Publish
    <2> QED BY <1>0, <2>3, <2>4 DEF CacheInv, DriftBounded, Complete
  <1>5. ASSUME NEW g \in Goroutines, SetExpiry(g) PROVE CacheInv'
    <2>1. PICK o \in Target(g) :
            heap' = [heap EXCEPT ![o].expiresIn = req[g].expiresIn]
      BY <1>5 DEF SetExpiry
    <2>2. o \in Objects
      BY <1>0, <1>t, <1>5, <2>1 DEF TypeInv, Points, SetExpiry, Target, Writing
    <2>3. /\ req'[g].phase = "setToken" /\ req'[g].life = req[g].life
          /\ req'[g].delay = req[g].delay
          /\ \A h \in Goroutines \ {g} : req'[h] = req[h]
          /\ cur' = cur
      BY <1>5, <1>t DEF SetExpiry, Goes, Request
    <2>4. /\ heap'[cur].text = heap[cur].text /\ heap'[cur].life = heap[cur].life
          /\ heap'[cur].expiresIn \in {heap[cur].expiresIn, req[g].expiresIn}
      BY <2>1, <2>2, <1>t DEF Token
    <2>5. DriftBounded'
      BY <1>5, <2>3, <2>4 DEF CacheInv, DriftBounded, HandOK, Complete, SetExpiry
    <2>6. ASSUME NEW h \in Goroutines PROVE HandOK(h)'
      BY <1>5, <2>3, <2>4
         DEF CacheInv, HandOK, Recent, Complete, SetExpiry, Writing
    <2> QED BY <1>0, <2>5, <2>6 DEF CacheInv
  <1>6. ASSUME NEW g \in Goroutines, SetToken(g) PROVE CacheInv'
    <2>1. PICK o \in Target(g) :
            /\ heap' = [heap EXCEPT ![o].text = IF @ = "empty" THEN "torn" ELSE @]
            /\ req' = [req EXCEPT ![g].phase = "setText", ![g].at = o]
      BY <1>6 DEF SetToken
    <2>2. o \in Objects
      BY <1>0, <1>t, <1>6, <2>1 DEF TypeInv, Points, SetToken, Target, Writing
    <2>3. /\ req'[g].phase = "setText" /\ req'[g].life = req[g].life
          /\ req'[g].delay = req[g].delay
          /\ \A h \in Goroutines \ {g} : req'[h] = req[h]
          /\ cur' = cur
      BY <1>6, <2>1, <1>t DEF SetToken, Request
    <2>4. /\ heap'[cur].life = heap[cur].life
          /\ heap'[cur].expiresIn = heap[cur].expiresIn
          /\ heap'[cur].text = "complete" => heap[cur].text = "complete"
      BY <2>1, <2>2, <1>t DEF Token
    <2>5. DriftBounded'
      BY <2>3, <2>4 DEF CacheInv, DriftBounded
    <2>6. ASSUME NEW h \in Goroutines PROVE HandOK(h)'
      BY <1>6, <2>3, <2>4
         DEF CacheInv, HandOK, Recent, Complete, SetToken, Writing
    <2> QED BY <1>0, <2>5, <2>6 DEF CacheInv
  <1>7. ASSUME NEW g \in Goroutines, SetText(g) PROVE CacheInv'
    <2> DEFINE o == req[g].at
    <2>1. o \in Objects
      BY <1>0, <1>7 DEF TypeInv, Points, SetText
    <2>2. /\ req'[g].phase = "use" /\ req'[g].delay = req[g].delay
          /\ \A h \in Goroutines \ {g} : req'[h] = req[h]
          /\ cur' = cur
      BY <1>7, <1>t DEF SetText, Idle
    <2>3. /\ heap'[cur].expiresIn = heap[cur].expiresIn
          /\ \/ heap'[cur] = heap[cur]
             \/ heap'[cur].life = req[g].life
      BY <1>7, <2>1, <1>t DEF SetText, Token
    <2>4. req[g].life >= Lifetime - req[g].delay
      BY <1>7 DEF CacheInv, HandOK, SetText, Writing
    <2>5. /\ req[g].life \in Int /\ req[g].life >= Lifetime - MaxDelay
          /\ req[g].life >= 0
      BY <1>0, <2>4, Ranges
    <2>6. DriftBounded'
      BY <1>0, <2>2, <2>3, <2>5, Ranges DEF CacheInv, DriftBounded
    <2>7. ASSUME NEW h \in Goroutines PROVE HandOK(h)'
      <3>1. HandOK(h)
        BY DEF CacheInv
      <3>2. CASE heap'[cur] = heap[cur]
        BY <1>7, <2>2, <3>1, <3>2
           DEF HandOK, Recent, Complete, SetText, Writing
      <3>3. CASE heap'[cur].life = req[g].life
        <4>1. Recent(h)'
          BY <1>0, <2>2, <2>5, <3>3, Ranges DEF Recent
        <4>2. req[h].expiresIn - req[g].life <= MaxDelay
          BY <1>0, <2>5, Ranges
        <4>3. CASE h = g
          BY <2>2, <4>1, <4>3 DEF HandOK, Writing
        <4>4. CASE h # g
          BY <2>2, <3>1, <3>3, <4>1, <4>2, <4>4 DEF HandOK
        <4> QED BY <4>3, <4>4
      <3> QED BY <2>3, <3>2, <3>3
    <2> QED BY <1>0, <2>6, <2>7 DEF CacheInv
  <1>8. ASSUME NEW g \in Goroutines, UseToken(g) PROVE CacheInv'
    <2>1. PICK p \in {"sent", "panic"} :
            req' = [req EXCEPT ![g] = [Idle EXCEPT !.phase = p,
                                                   !.life = heap[cur].life,
                                                   !.text = heap[cur].text]]
      BY <1>8 DEF UseToken
    <2>2. /\ req'[g].phase = p /\ req'[g].life = heap[cur].life
          /\ req'[g].text = heap[cur].text
          /\ \A h \in Goroutines \ {g} : req'[h] = req[h]
          /\ cur' = cur /\ heap' = heap
      BY <1>8, <2>1, <1>t DEF UseToken, Idle
    <2>3. Recent(g)
      BY <1>8 DEF CacheInv, HandOK, UseToken
    <2>4. Complete => heap[cur].life >= -(2 * MaxDelay)
      BY <1>0, <2>3, Ranges DEF Recent
    <2>5. HandOK(g)'
      BY <2>2, <2>4 DEF HandOK, Complete, Writing
    <2> QED BY <1>0, <2>2, <2>5, OwnStep
  <1>10. ASSUME Tick PROVE CacheInv'
    <2>1. /\ cur' = cur
          /\ heap'[cur].text = heap[cur].text
          /\ heap'[cur].life >= heap[cur].life - 1
          /\ heap'[cur].expiresIn >= 0 =>
               heap'[cur].expiresIn = heap[cur].expiresIn - 1
      BY <1>10, <1>t, LessTypes DEF Tick, Token
    <2>2. /\ heap'[cur].life \in Int /\ heap'[cur].expiresIn \in Int
          /\ heap[cur].life \in Int /\ heap[cur].expiresIn \in Int
          /\ MaxDelay \in Nat
      <3>1. heap'[cur] \in Token /\ heap[cur] \in Token
        BY <1>0, <2>1 DEF TypeInv, TypeOK
      <3> QED BY <3>1, TimesAssumption DEF Token, Life, Until, Floor
    <2>3. DriftBounded'
      BY <2>1, <2>2 DEF CacheInv, DriftBounded
    <2>4. ASSUME NEW h \in Goroutines PROVE HandOK(h)'
      <3>0. HandOK(h)
        BY DEF CacheInv
      <3>1. CASE Waiting(h)
        <4>1. req[h] \in Request
          BY <1>t
        <4>2. /\ req'[h].phase = req[h].phase /\ req'[h].at = req[h].at
              /\ req'[h].life = Less(req[h].life, Floor)
              /\ req'[h].expiresIn = Less(req[h].expiresIn, -1)
              /\ req'[h].delay = req[h].delay + 1
          BY <1>10, <1>t, <3>1, <4>1 DEF Tick, Request
        <4>3. /\ req[h].life \in Int /\ req[h].expiresIn \in Int
              /\ req[h].delay \in Int
          BY <1>0, Ranges
        <4>4. /\ req'[h].life >= req[h].life - 1
              /\ req'[h].expiresIn >= 0 =>
                   req'[h].expiresIn = req[h].expiresIn - 1
          BY <4>1, <4>2, LessTypes DEF Request
        <4>5. req'[h].life \in Int
          BY <4>1, <4>2, LessTypes, TimesAssumption DEF Request, Life, Floor
        <4>6. Recent(h) => Recent(h)'
          BY <2>1, <2>2, <4>2, <4>3 DEF Recent, Complete
        <4>7. req[h].phase \notin {"sent", "idle", "panic"}
          BY <3>1 DEF Waiting
        <4>8. /\ req'[h].phase \in Writing \cup {"publish"} =>
                   req'[h].life >= Lifetime - req'[h].delay
              /\ req'[h].phase = "setExpiry" /\ Complete' /\ req'[h].expiresIn >= 0 =>
                   req'[h].expiresIn - heap'[cur].life <= MaxDelay
          BY <2>1, <2>2, <3>0, <4>2, <4>3, <4>4, <4>5, TimesAssumption
             DEF HandOK, Complete
        <4> QED BY <2>1, <3>0, <4>2, <4>6, <4>7, <4>8 DEF HandOK
      <3>2. CASE ~Waiting(h)
        <4>1. req'[h] = req[h]
          BY <1>10, <1>t, <3>2 DEF Tick
        <4> QED BY <3>0, <3>2, <4>1 DEF HandOK, Waiting, Writing
      <3> QED BY <3>1, <3>2
    <2> QED BY <1>0, <2>3, <2>4 DEF CacheInv
  <1>11. CASE UNCHANGED vars
    <2>1. ASSUME NEW h \in Goroutines PROVE HandOK(h)'
      BY <1>11 DEF vars, CacheInv, HandOK, Recent, Complete
    <2> QED BY <1>0, <1>11, <2>1 DEF vars, CacheInv, DriftBounded
  <1> QED
    BY <1>1, <1>2, <1>3, <1>4, <1>5, <1>6, <1>7, <1>8, <1>9, <1>10, <1>11
       DEF Next, RefreshStep

LEMMA CacheInvAlways == Spec => []CacheInv
  BY CacheInit, CacheStep, PTL DEF Spec

(* The recorded expiry of the shared token is at most MaxDelay seconds late.  *)
THEOREM DriftBoundedAlways == Spec => []DriftBounded
  BY CacheInvAlways, PTL DEF CacheInv

(* No request carries a token that expired more than 2 * MaxDelay ago. *)
THEOREM NotLongExpiredAlways == Spec => []NotLongExpired
  <1>1. CacheInv => NotLongExpired
    BY DEF CacheInv, HandOK, NotLongExpired
  <1> QED BY <1>1, CacheInvAlways, PTL

-----------------------------------------------------------------------------
(* Who fills in an unfinished token *)

(* Nobody has published a token yet. *)
Untouched ==
  /\ heap[cur].text = "empty"
  /\ \A g \in Goroutines : req[g].phase \in {"idle", "refresh", "publish"}

Meanwhile == \E h \in Goroutines : req[h].phase \in Writing /\ req[h].own = cur

(* Who published the shared token writes to no other.  No old object becomes
   the shared one again, so a request that does is through with it. *)
AimOK == \A g \in Goroutines :
           req[g].phase = "setText" /\ req[g].own = cur => req[g].at = cur

WriterInv == TypeInv /\ AimOK /\ (Complete \/ Untouched \/ Meanwhile)

LEMMA WriterInit == Init => WriterInv
  BY TypeInit DEF Init, WriterInv, AimOK, Untouched, NewToken, Idle

LEMMA WriterStep == WriterInv /\ [Next]_vars => WriterInv'
  <1> SUFFICES ASSUME WriterInv, [Next]_vars PROVE WriterInv'
    OBVIOUS
  <1>0. TypeInv /\ TypeInv'
    BY TypeStep DEF WriterInv
  <1>t. /\ cur \in Objects /\ heap \in [Objects -> Token]
        /\ req \in [Goroutines -> Request]
    BY <1>0 DEF TypeInv, TypeOK
  <1>u. AimOK /\ (Complete \/ Untouched \/ Meanwhile)
    BY DEF WriterInv
  (* Steps that change no object, and by which nobody begins or ends to write. *)
  <1>r. ASSUME NEW g \in Goroutines, cur' = cur, heap' = heap,
               req[g].phase \notin Writing, req'[g].phase \notin Writing,
               \A h \in Goroutines \ {g} : req'[h] = req[h],
               Untouched => req'[g].phase \in {"idle", "refresh", "publish"}
        PROVE  WriterInv'
    <2>1. AimOK'
      BY <1>r, <1>u DEF AimOK, Writing
    <2>2. Untouched => Untouched'
      BY <1>r DEF Untouched
    <2>3. Meanwhile => Meanwhile'
      BY <1>r DEF Meanwhile
    <2> QED BY <1>0, <1>r, <1>u, <2>1, <2>2, <2>3 DEF WriterInv, Complete
  <1>1. ASSUME NEW g \in Goroutines, ReadToken(g) PROVE WriterInv'
    <2>1. PICK p \in {"expiresIn", "refresh"} :
            /\ heap[cur].text = "empty" => p = "refresh"
            /\ req' = [req EXCEPT ![g].phase = p,
                               ![g].at = IF p = "expiresIn" THEN cur ELSE NoObject]
      BY <1>1 DEF ReadToken
    <2>2. /\ req'[g].phase = p
          /\ \A h \in Goroutines \ {g} : req'[h] = req[h]
      BY <2>1, <1>t DEF Request
    <2> QED BY <1>1, <1>r, <2>1, <2>2 DEF ReadToken, Untouched, Writing
  <1>2. ASSUME NEW g \in Goroutines, ReadExpiry(g) PROVE WriterInv'
    <2>1. /\ req'[g].phase \in {"refresh", "reuse"}
          /\ \A h \in Goroutines \ {g} : req'[h] = req[h]
      BY <1>2, <1>t DEF ReadExpiry, Request
    <2> QED BY <1>2, <1>r, <2>1 DEF ReadExpiry, Untouched, Writing
  <1>3. ASSUME NEW g \in Goroutines, CallAuth(g) PROVE WriterInv'
    <2>1. /\ req'[g].phase \in {"idle", "publish"}
          /\ \A h \in Goroutines \ {g} : req'[h] = req[h]
      BY <1>3, <1>t DEF CallAuth, Request, Idle
    <2> QED BY <1>3, <1>r, <2>1 DEF CallAuth, Writing
  <1>4. ASSUME NEW g \in Goroutines, Publish(g) PROVE WriterInv'
    <2>1. PICK o \in Free :
            /\ cur' = o
            /\ req' = [req EXCEPT ![g].phase = "setExpiry", ![g].own = o,
                                  ![g].expiresIn = Lifetime]
      BY <1>4 DEF Publish
    <2>2. /\ req'[g].phase = "setExpiry" /\ req'[g].own = cur'
          /\ \A h \in Goroutines \ {g} : req'[h] = req[h]
      BY <2>1, <1>t DEF Request
    <2>3. Meanwhile'
      BY <2>2 DEF Meanwhile, Writing
    <2>4. AimOK'
      BY <2>1, <2>2 DEF AimOK, Free
    <2> QED BY <1>0, <2>3, <2>4 DEF WriterInv
  <1>5. ASSUME NEW g \in Goroutines, SetExpiry(g) PROVE WriterInv'
    <2>1. /\ req'[g].phase = "setToken" /\ req'[g].own = req[g].own
          /\ \A h \in Goroutines \ {g} : req'[h] = req[h]
          /\ cur' = cur /\ req[g].phase = "setExpiry"
      BY <1>5, <1>t DEF SetExpiry, Goes, Request
    <2>2. PICK o \in Target(g) :
            heap' = [heap EXCEPT ![o].expiresIn = req[g].expiresIn]
      BY <1>5 DEF SetExpiry
    <2>3. heap'[cur].text = heap[cur].text
      BY <2>2, <1>t DEF Token
    <2>4. AimOK'
      BY <2>1, <1>u DEF AimOK
    <2>5. ~Untouched
      BY <2>1 DEF Untouched
    <2>6. Meanwhile => Meanwhile'
      BY <2>1 DEF Meanwhile, Writing
    <2> QED BY <1>0, <1>u, <2>1, <2>3, <2>4, <2>5, <2>6 DEF WriterInv, Complete
  <1>6. ASSUME NEW g \in Goroutines, SetToken(g) PROVE WriterInv'
    <2>1. PICK o \in Target(g) :
            /\ heap' = [heap EXCEPT ![o].text = IF @ = "empty" THEN "torn" ELSE @]
            /\ req' = [req EXCEPT ![g].phase = "setText", ![g].at = o]
      BY <1>6 DEF SetToken
    <2>2. /\ req'[g].phase = "setText" /\ req'[g].own = req[g].own
          /\ req'[g].at = o
          /\ \A h \in Goroutines \ {g} : req'[h] = req[h]
          /\ cur' = cur /\ req[g].phase = "setToken"
      BY <1>6, <2>1, <1>t DEF SetToken, Request
    <2>3. Complete => Complete'
      BY <2>1, <2>2, <1>t DEF Token, Complete
    <2>4. AimOK'
      BY <2>1, <2>2, <1>u DEF AimOK, Target
    <2>5. ~Untouched
      BY <2>2 DEF Untouched
    <2>6. Meanwhile => Meanwhile'
      BY <2>2 DEF Meanwhile, Writing
    <2> QED BY <1>0, <1>u, <2>3, <2>4, <2>5, <2>6 DEF WriterInv
  <1>7. ASSUME NEW g \in Goroutines, SetText(g) PROVE WriterInv'
    <2>1. /\ req'[g].phase = "use"
          /\ \A h \in Goroutines \ {g} : req'[h] = req[h]
          /\ cur' = cur /\ req[g].phase = "setText"
      BY <1>7, <1>t DEF SetText, Idle
    <2>2. AimOK'
      BY <2>1, <1>u DEF AimOK
    <2>3. ~Untouched
      BY <2>1 DEF Untouched
    <2>4. Complete => Complete'
      BY <1>7, <2>1, <1>t DEF SetText, Complete, Token
    <2>5. CASE req[g].own = cur
      <3>1. req[g].at = cur
        BY <2>1, <2>5, <1>u DEF AimOK
      <3>2. Complete'
        BY <1>7, <2>1, <3>1, <1>t DEF SetText, Complete, Token
      <3> QED BY <1>0, <2>2, <3>2 DEF WriterInv
    <2>6. CASE req[g].own # cur
      <3>1. Meanwhile => Meanwhile'
        BY <2>1, <2>6 DEF Meanwhile
      <3> QED BY <1>0, <1>u, <2>2, <2>3, <2>4, <3>1 DEF WriterInv
    <2> QED BY <2>5, <2>6
  <1>8. ASSUME NEW g \in Goroutines, UseToken(g) PROVE WriterInv'
    <2>1. /\ req'[g].phase \in {"sent", "panic"}
          /\ \A h \in Goroutines \ {g} : req'[h] = req[h]
      BY <1>8, <1>t DEF UseToken, Idle
    <2> QED BY <1>8, <1>r, <2>1 DEF UseToken, Untouched, Writing
  <1>9. ASSUME NEW g \in Goroutines, Answered(g) PROVE WriterInv'
    <2>1. /\ req'[g].phase = "idle"
          /\ \A h \in Goroutines \ {g} : req'[h] = req[h]
      BY <1>9, <1>t DEF Answered, Idle
    <2> QED BY <1>9, <1>r, <2>1 DEF Answered, Writing
  <1>10. ASSUME Tick PROVE WriterInv'
    <2>1. \A h \in Goroutines : /\ req'[h].phase = req[h].phase
                                /\ req'[h].own = req[h].own
                                /\ req'[h].at = req[h].at
      BY <1>10, <1>t DEF Tick, Request
    <2>2. cur' = cur /\ heap'[cur].text = heap[cur].text
      BY <1>10, <1>t DEF Tick, Token
    <2> QED BY <1>0, <1>u, <2>1, <2>2
            DEF WriterInv, AimOK, Complete, Untouched, Meanwhile
  <1>11. CASE UNCHANGED vars
    BY <1>0, <1>11, <1>u
       DEF vars, WriterInv, AimOK, Complete, Untouched, Meanwhile
  <1> QED
    BY <1>1, <1>2, <1>3, <1>4, <1>5, <1>6, <1>7, <1>8, <1>9, <1>10, <1>11
       DEF Next, RefreshStep

(* An unfinished token is used only while its publisher is filling it in. *)
THEOREM UnfinishedOnlyMeanwhileAlways == Spec => UnfinishedOnlyMeanwhile
  <1>1. ASSUME WriterInv, NEW g \in Goroutines, UseToken(g), ~Complete
        PROVE  \E h \in Goroutines \ {g} :
                 req[h].phase \in Writing /\ req[h].own = cur
    <2>1. req[g].phase \in {"use", "reuse"}
      BY <1>1 DEF UseToken
    <2>2. Meanwhile
      BY <1>1, <2>1 DEF WriterInv, Untouched
    <2> QED BY <2>1, <2>2 DEF Meanwhile, Writing
  <1> DEFINE A == \A g \in Goroutines :
                UseToken(g) /\ heap[cur].text # "complete" =>
                  \E h \in Goroutines \ {g} :
                    req[h].phase \in Writing /\ req[h].own = cur
  <1>2. WriterInv => A
    BY <1>1 DEF Complete
  <1>3. Spec => []WriterInv
    BY WriterInit, WriterStep, PTL DEF Spec
  <1>4. Spec => [][A]_vars
    BY <1>2, <1>3, PTL
  <1> QED BY <1>4 DEF UnfinishedOnlyMeanwhile

-----------------------------------------------------------------------------
(* The composition implements TokenClient *)

LEMMA FetchIsToken == [FetchNext]_fetchVars => [Next]_vars
<1> SUFFICES ASSUME [FetchNext]_fetchVars PROVE [Next]_vars
  OBVIOUS
<1>1. CASE Alive /\ Listing
  BY <1>1, SharedAssumption DEF Listing, Next, Alive
<1>2. ASSUME NEW i \in Items, Alive, FetchStep(i) PROVE [Next]_vars
  BY <1>2, SharedAssumption
  DEF FetchStep, StartGoroutine, GetGroupMembers, GetSsoRoles, Elsewhere, Next, Alive
<1>3. CASE Alive /\ Tick
  BY <1>3 DEF Next, Alive
<1>4. CASE UNCHANGED vars
  BY <1>4
<1> QED
  BY <1>1, <1>2, <1>3, <1>4 DEF FetchNext, fetchVars

\* What the goroutines do to their token is what TokenClient allows for: a
\* listing, the fan-out and its semaphore only restrict it.
THEOREM ImplementsToken == FetchSpec => Spec
<1>1. FetchInit => Init
  BY DEF FetchInit
<1> QED
  BY <1>1, FetchIsToken, PTL DEF FetchSpec, Spec

\* So the recorded expiry of their token is at most MaxDelay seconds late.
THEOREM FetchDriftBounded == FetchSpec => []DriftBounded
BY ImplementsToken, DriftBoundedAlways, PTL

\* And they use an unfinished one only while another fills it in.
THEOREM FetchUnfinishedOnlyMeanwhile == FetchSpec => UnfinishedOnlyMeanwhile
BY ImplementsToken, UnfinishedOnlyMeanwhileAlways, PTL

-----------------------------------------------------------------------------
(* Types and the semaphore *)

FanPhase == {"none", "acquire", "wait", "ready", "call", "store", "done",
             "release", "ended"}

FanTypes ==
  /\ caller \in Callers /\ ctx \in {"live", "cancelled"}
  /\ main \in {"loop", "after", "panic"}
  /\ phase \in [Items -> FanPhase]
  /\ held \in Nat
  /\ waiters \in Seq(Items)
  /\ payload \subseteq Items /\ failed \subseteq Items

\* Who waits is in the queue, once.
Queued ==
  /\ \A k \in DOMAIN waiters : phase[waiters[k]] = "wait"
  /\ \A i \in Items : phase[i] = "wait" => \E k \in DOMAIN waiters : waiters[k] = i
  /\ \A k, l \in DOMAIN waiters : waiters[k] = waiters[l] => k = l

\* Nobody waits while there is room.
Full == held <= Size /\ (waiters # <<>> => held = Size)

\* A shutdown lets goroutines through that hold nothing.
HeldCount ==
  /\ held <= Cardinality(Holding)
  /\ ctx = "live" => held = Cardinality(Holding)

SemInv == FanTypes /\ Queued /\ Full /\ HeldCount

\* All that a step of the composition does to the fan-out.
FanStep ==
  \/ \E i \in Items : \/ Spawn(i) \/ Fetch(i) \/ Acquire(i) \/ Acquired(i)
                      \/ NotAcquired(i) \/ Release(i) \/ Store(i) \/ Done(i)
  \/ Wait
  \/ Cancel
  \/ UNCHANGED fanVars

LEMMA FetchIsFan == [FetchNext]_fetchVars => FanStep
BY DEF FetchNext, Listing, FetchStep, StartGoroutine, GetGroupMembers, GetSsoRoles,
       Elsewhere, FanStep, fetchVars

LEMMA HoldingFinite == IsFiniteSet(Holding) /\ Cardinality(Holding) \in Nat
<1>1. Holding \subseteq Items
  BY DEF Holding
<1> QED
  BY <1>1, FanOutAssumption, FS_Subset, FS_CardinalityType

LEMMA HoldingFiniteNext == IsFiniteSet(Holding') /\ Cardinality(Holding') \in Nat
<1>1. Holding' \subseteq Items
  BY DEF Holding
<1> QED
  BY <1>1, FanOutAssumption, FS_Subset, FS_CardinalityType

\* One goroutine more, one less, or one for another.
LEMMA HoldingMore ==
  ASSUME NEW i \in Items, i \notin Holding, Holding' = Holding \cup {i}
  PROVE  Cardinality(Holding') = Cardinality(Holding) + 1
BY HoldingFinite, FS_AddElement

LEMMA HoldingLess ==
  ASSUME NEW i \in Holding, Holding' = Holding \ {i}
  PROVE  Cardinality(Holding') = Cardinality(Holding) - 1
BY HoldingFinite, FS_RemoveElement

LEMMA HoldingPassed ==
  ASSUME NEW i \in Holding, NEW j \in Items, j \notin Holding,
         Holding' = (Holding \ {i}) \cup {j}
  PROVE  Cardinality(Holding') = Cardinality(Holding)
<1>1. /\ IsFiniteSet(Holding \ {i})
      /\ Cardinality(Holding \ {i}) = Cardinality(Holding) - 1
  BY HoldingFinite, FS_RemoveElement
<1>2. Cardinality((Holding \ {i}) \cup {j}) = Cardinality(Holding \ {i}) + 1
  BY <1>1, FS_AddElement
<1> QED
  BY <1>1, <1>2, HoldingFinite

\* One goroutine goes on, and the semaphore is left alone.
LEMMA QuietMove ==
  ASSUME SemInv, FanTypes', NEW i \in Items, UNCHANGED <<held, waiters, ctx>>,
         NEW p, phase' = [phase EXCEPT ![i] = p],
         phase[i] # "wait", p # "wait",
         p \in {"ready", "call", "store", "done", "release"} <=> i \in Holding
  PROVE  SemInv'
<1>1. Holding' = Holding
  BY DEF SemInv, FanTypes, Holding
<1>2. Queued'
  BY DEF SemInv, FanTypes, Queued
<1> QED
  BY <1>1, <1>2 DEF SemInv, Full, HeldCount, Holding

\* Who leaves the queue, from whatever place, leaves the others in it.
LEMMA QueueLeft ==
  ASSUME SemInv, NEW k \in DOMAIN waiters, waiters' = Without(waiters, k),
         phase'[waiters[k]] # "wait",
         \A i \in Items \ {waiters[k]} : phase'[i] = "wait" <=> phase[i] = "wait"
  PROVE  waiters' \in Seq(Items) /\ Queued'
<1>0. /\ waiters \in Seq(Items) /\ Len(waiters) \in Nat
      /\ DOMAIN waiters = 1..Len(waiters)
      /\ \A n \in DOMAIN waiters : waiters[n] \in Items
  BY DEF SemInv, FanTypes
<1> DEFINE old(n) == IF n < k THEN n ELSE n + 1
<1>1. \A n \in DOMAIN waiters' :
        /\ old(n) \in DOMAIN waiters /\ old(n) # k /\ waiters'[n] = waiters[old(n)]
  BY <1>0 DEF Without
<1>s. waiters' \in Seq(Items) /\ DOMAIN waiters' = 1..(Len(waiters) - 1)
  BY <1>0 DEF Without
<1>2. \A m \in DOMAIN waiters : m # k => \E n \in DOMAIN waiters' : m = old(n)
  <2> TAKE m \in DOMAIN waiters
  <2>1. CASE m < k
    BY <1>0, <1>s, <2>1
  <2>2. CASE m > k
    <3>1. m - 1 \in DOMAIN waiters' /\ m = old(m - 1)
      BY <1>0, <1>s, <2>2
    <3> QED
      BY <3>1
  <2> QED
    BY <1>0, <2>1, <2>2
<1>3. \A m, n \in DOMAIN waiters' : old(m) = old(n) => m = n
  BY <1>0, <1>s
<1> HIDE DEF old
<1>4. \A n \in DOMAIN waiters' : phase'[waiters'[n]] = "wait"
  BY <1>0, <1>1 DEF SemInv, Queued
<1>5. \A i \in Items : phase'[i] = "wait" => \E n \in DOMAIN waiters' : waiters'[n] = i
  <2> SUFFICES ASSUME NEW i \in Items, phase'[i] = "wait"
               PROVE  \E n \in DOMAIN waiters' : waiters'[n] = i
    OBVIOUS
  <2>1. phase[i] = "wait" /\ i # waiters[k]
    OBVIOUS
  <2>2. PICK m \in DOMAIN waiters : waiters[m] = i
    BY <2>1 DEF SemInv, Queued
  <2>3. PICK n \in DOMAIN waiters' : m = old(n)
    BY <1>2, <2>1, <2>2
  <2> QED
    BY <1>1, <2>2, <2>3
<1>6. \A m, n \in DOMAIN waiters' : waiters'[m] = waiters'[n] => m = n
  BY <1>1, <1>3 DEF SemInv, Queued
<1> QED
  BY <1>4, <1>5, <1>6, <1>s DEF Queued

\* Release: it panics, or nobody waits, or it hands over to the first who does.
LEMMA ReleaseEffect ==
  ASSUME SemInv, NEW i \in Items, Release(i)
  PROVE  \/ /\ held = 0 /\ main' = "panic"
            /\ phase' = [phase EXCEPT ![i] = "ended"]
            /\ UNCHANGED <<held, waiters>>
         \/ /\ held > 0 /\ waiters = << >>
            /\ held' = held - 1
            /\ phase' = [phase EXCEPT ![i] = "ended"]
            /\ UNCHANGED <<main, waiters>>
         \/ /\ held > 0 /\ waiters # << >>
            /\ waiters' = SubSeq(waiters, 2, Len(waiters))
            /\ phase' = [j \in Items |-> IF j = i THEN "ended"
                                         ELSE IF j = waiters[1] THEN "ready"
                                         ELSE phase[j]]
            /\ UNCHANGED <<main, held>>
<1>0. held \in Nat /\ Size \in Nat /\ waiters \in Seq(Items) /\ Len(waiters) \in Nat
      /\ held <= Size /\ phase \in [Items -> FanPhase]
  BY FanOutAssumption DEF SemInv, FanTypes, Full
<1>1. CASE held = 0
  BY <1>1 DEF Release, GoesOn
<1>2. ASSUME held # 0 PROVE Notify(i, "ended", held - 1, waiters) /\ main' = main
  BY <1>2 DEF Release
<1>3. CASE held # 0 /\ waiters = << >>
  <2>1. Notified(held - 1, waiters) = {}
    BY <1>0, <1>3 DEF Notified
  <2>2. Cardinality({}) = 0
    BY FS_EmptySet
  <2>3. SubSeq(waiters, 1, Len(waiters)) = << >>
    BY <1>3
  <2>4. /\ held' = (held - 1) + Cardinality(Notified(held - 1, waiters))
        /\ waiters' = SubSeq(waiters, Cardinality(Notified(held - 1, waiters)) + 1,
                             Len(waiters))
    BY <1>2, <1>3 DEF Notify
  <2>6. held' = (held - 1) + 0 /\ waiters' = SubSeq(waiters, 0 + 1, Len(waiters))
    BY <2>1, <2>2, <2>4, Zenon
  <2>5. phase' = [phase EXCEPT ![i] = "ended"]
    BY <1>0, <1>2, <1>3, <2>1 DEF Notify
  <2> QED
    BY <1>0, <1>2, <1>3, <2>3, <2>5, <2>6
<1>4. CASE held # 0 /\ waiters # << >>
  <2>1. held = Size /\ Len(waiters) > 0
    BY <1>0, <1>4 DEF SemInv, Full
  <2>2. Size - (held - 1) = 1
    BY <1>0, <2>1
  <2>3. Notified(held - 1, waiters) = {waiters[1]}
    BY <1>0, <2>1, <2>2 DEF Notified
  <2>4. Cardinality({waiters[1]}) = 1
    BY FS_Singleton
  <2>5. /\ held' = (held - 1) + Cardinality(Notified(held - 1, waiters))
        /\ waiters' = SubSeq(waiters, Cardinality(Notified(held - 1, waiters)) + 1,
                             Len(waiters))
    BY <1>2, <1>4 DEF Notify
  <2>7. held' = (held - 1) + 1 /\ waiters' = SubSeq(waiters, 1 + 1, Len(waiters))
    BY <2>3, <2>4, <2>5, Zenon
  <2>6. phase' = [j \in Items |-> IF j = i THEN "ended"
                                  ELSE IF j = waiters[1] THEN "ready"
                                  ELSE phase[j]]
    BY <1>2, <1>4, <2>3 DEF Notify
  <2> QED
    BY <1>0, <1>2, <1>4, <2>6, <2>7
<1> QED
  BY <1>1, <1>3, <1>4

\* NotAcquired never wakes anybody: nobody waits while there is room.
LEMMA NotAcquiredEffect ==
  ASSUME SemInv, NEW i \in Items, NotAcquired(i)
  PROVE  \E k \in DOMAIN waiters :
           /\ waiters[k] = i
           /\ waiters' = Without(waiters, k)
           /\ phase' = [phase EXCEPT ![i] = "call"]
           /\ UNCHANGED held
<1>1. held <= Size /\ (waiters # << >> => held = Size) /\ held \in Nat /\ Size \in Nat
  BY FanOutAssumption DEF SemInv, Full, FanTypes
<1>2. ASSUME NEW k \in DOMAIN waiters PROVE ~(Size > held)
  <2>1. waiters # << >>
    BY <1>2
  <2> QED
    BY <1>1, <2>1
<1> QED
  BY <1>2 DEF NotAcquired, GoesOn

LEMMA FirstOut ==
  ASSUME NEW w \in Seq(Items), w # << >>
  PROVE  SubSeq(w, 2, Len(w)) = Without(w, 1) /\ 1 \in DOMAIN w
BY DEF Without

LEMMA SemInit == FetchInit => SemInv
<1> SUFFICES ASSUME FetchInit PROVE SemInv
  OBVIOUS
<1>1. FanTypes
  BY DEF FetchInit, FanInit, FanTypes, FanPhase
<1>2. Holding = {}
  BY DEF FetchInit, FanInit, Holding
<1>3. Queued /\ Full
  BY FanOutAssumption DEF FetchInit, FanInit, Queued, Full
<1>4. HeldCount
  BY <1>2, FS_EmptySet DEF FetchInit, FanInit, HeldCount
<1> QED
  BY <1>1, <1>3, <1>4 DEF SemInv

LEMMA SemNext == SemInv /\ FanStep => SemInv'
<1> SUFFICES ASSUME SemInv, FanStep PROVE SemInv'
  OBVIOUS
<1>0. /\ phase \in [Items -> FanPhase] /\ held \in Nat /\ waiters \in Seq(Items)
      /\ Len(waiters) \in Nat /\ Size \in Nat \ {0}
      /\ Queued /\ Full /\ HeldCount /\ FanTypes
      /\ DOMAIN waiters = 1..Len(waiters)
  BY FanOutAssumption DEF SemInv, FanTypes
<1>n. Cardinality(Holding) \in Nat
  BY HoldingFinite
<1>1. ASSUME NEW i \in Items, Spawn(i) PROVE SemInv'
  <2>1. FanTypes'
    BY <1>0, <1>1 DEF Spawn, GoesOn, FanTypes, FanPhase
  <2> QED
    BY <1>0, <1>1, <2>1, QuietMove DEF Spawn, GoesOn, Holding
<1>2. ASSUME NEW i \in Items, Acquired(i) PROVE SemInv'
  <2>1. FanTypes'
    BY <1>0, <1>2 DEF Acquired, GoesOn, FanTypes, FanPhase
  <2> QED
    BY <1>0, <1>2, <2>1, QuietMove DEF Acquired, GoesOn, Holding
<1>3. ASSUME NEW i \in Items, Fetch(i) PROVE SemInv'
  <2>1. FanTypes'
    BY <1>0, <1>3 DEF Fetch, GoesOn, FanTypes, FanPhase
  <2>2. PICK p \in {"store", "done"} : GoesOn(i, p)
    BY <1>3 DEF Fetch
  <2> QED
    BY <1>0, <1>3, <2>1, <2>2, QuietMove DEF Fetch, GoesOn, Holding
<1>4. ASSUME NEW i \in Items, Store(i) PROVE SemInv'
  <2>1. FanTypes'
    BY <1>0, <1>4 DEF Store, GoesOn, FanTypes, FanPhase
  <2> QED
    BY <1>0, <1>4, <2>1, QuietMove DEF Store, GoesOn, Holding
<1>5. ASSUME NEW i \in Items, Done(i) PROVE SemInv'
  <2>1. FanTypes'
    BY <1>0, <1>5 DEF Done, GoesOn, FanTypes, FanPhase
  <2> QED
    BY <1>0, <1>5, <2>1, QuietMove DEF Done, GoesOn, Holding
<1>6. ASSUME NEW i \in Items, Acquire(i) PROVE SemInv'
  <2>0. phase[i] = "acquire" /\ i \notin Holding
    BY <1>6 DEF Acquire, Holding
  <2>1. CASE held < Size /\ waiters = << >>
    <3>1. FanTypes'
      BY <1>0, <1>6, <2>1 DEF Acquire, GoesOn, FanTypes, FanPhase
    <3>2. Holding' = Holding \cup {i}
      BY <1>0, <1>6, <2>1 DEF Acquire, GoesOn, Holding
    <3>3. Cardinality(Holding') = Cardinality(Holding) + 1
      BY <2>0, <3>2, HoldingMore
    <3>4. Queued'
      BY <1>0, <1>6, <2>1 DEF Acquire, GoesOn, Queued
    <3>5. held' = held + 1 /\ waiters' = waiters /\ ctx' = ctx
      BY <1>6, <2>1 DEF Acquire
    <3>6. Full' /\ HeldCount'
      BY <1>0, <1>n, <2>1, <3>3, <3>5 DEF Full, HeldCount
    <3> QED
      BY <3>1, <3>4, <3>6 DEF SemInv
  <2>2. CASE ~(held < Size /\ waiters = << >>)
    <3>1. /\ waiters' = Append(waiters, i) /\ held' = held /\ ctx' = ctx
          /\ phase' = [phase EXCEPT ![i] = "wait"]
      BY <1>6, <2>2 DEF Acquire, GoesOn
    <3>2. FanTypes'
      <4>1. waiters' \in Seq(Items)
        BY <1>0, <3>1
      <4>2. phase' \in [Items -> FanPhase]
        BY <1>0, <3>1 DEF FanPhase
      <4>3. UNCHANGED <<caller, ctx, main, held, payload, failed>>
        BY <1>6, <3>1 DEF Acquire
      <4> QED
        BY <1>0, <4>1, <4>2, <4>3 DEF FanTypes
    <3>3. Holding' = Holding
      BY <1>0, <2>0, <3>1 DEF Holding
    <3>4. held = Size
      BY <1>0, <2>2 DEF Full
    <3>5. /\ DOMAIN waiters' = 1..(Len(waiters) + 1)
          /\ waiters'[Len(waiters) + 1] = i
          /\ \A k \in DOMAIN waiters : waiters'[k] = waiters[k] /\ waiters[k] \in Items
      BY <1>0, <3>1
    <3>6. \A k \in DOMAIN waiters : waiters[k] # i
      BY <1>0, <2>0 DEF Queued
    <3>7. Queued'
      <4>1. \A k \in DOMAIN waiters' : k \in DOMAIN waiters \/ k = Len(waiters) + 1
        BY <1>0, <3>5
      <4>2. DOMAIN waiters \subseteq DOMAIN waiters' /\ Len(waiters) + 1 \in DOMAIN waiters'
        BY <1>0, <3>5
      <4>3. \A k \in DOMAIN waiters' : phase'[waiters'[k]] = "wait"
        BY <1>0, <3>1, <3>5, <4>1 DEF Queued
      <4>4. \A j \in Items : phase'[j] = "wait" =>
              \E k \in DOMAIN waiters' : waiters'[k] = j
        BY <1>0, <3>1, <3>5, <4>2 DEF Queued
      <4>5. \A k, l \in DOMAIN waiters' : waiters'[k] = waiters'[l] => k = l
        BY <1>0, <3>5, <3>6, <4>1 DEF Queued
      <4> QED
        BY <4>3, <4>4, <4>5 DEF Queued
    <3> QED
      BY <1>0, <3>1, <3>2, <3>3, <3>4, <3>7 DEF SemInv, Full, HeldCount
  <2> QED
    BY <2>1, <2>2
<1>7. ASSUME NEW i \in Items, NotAcquired(i) PROVE SemInv'
  <2>1. PICK k \in DOMAIN waiters : /\ waiters[k] = i
                                    /\ waiters' = Without(waiters, k)
                                    /\ phase' = [phase EXCEPT ![i] = "call"]
                                    /\ held' = held
    BY <1>7, NotAcquiredEffect
  <2>2. ctx = "cancelled" /\ ctx' = ctx /\ phase[i] = "wait"
    BY <1>7 DEF NotAcquired
  <2>3. waiters' \in Seq(Items) /\ Queued'
    BY <1>0, <2>1, QueueLeft
  <2>4. FanTypes'
    BY <1>0, <1>7, <2>1, <2>3 DEF NotAcquired, FanTypes, FanPhase
  <2>5. Holding' = Holding \cup {i} /\ i \notin Holding
    BY <1>0, <2>1, <2>2 DEF Holding
  <2>6. Cardinality(Holding') = Cardinality(Holding) + 1
    BY <2>5, HoldingMore
  <2>7. HeldCount'
    BY <1>0, <1>n, <2>1, <2>2, <2>6 DEF HeldCount
  <2>8. waiters # << >>
    BY <2>1
  <2>9. Full'
    BY <1>0, <2>1, <2>8 DEF Full
  <2> QED
    BY <2>3, <2>4, <2>7, <2>9 DEF SemInv
<1>8. ASSUME NEW i \in Items, Release(i) PROVE SemInv'
  <2>0. i \in Holding /\ phase[i] = "release" /\ ctx' = ctx
    BY <1>8 DEF Release, Holding
  <2>f. /\ caller' = caller /\ payload' = payload /\ failed' = failed
        /\ main' \in {main, "panic"}
    BY <1>8 DEF Release
  <2>1. CASE /\ held = 0 /\ UNCHANGED <<held, waiters>>
             /\ phase' = [phase EXCEPT ![i] = "ended"]
    <3>1. FanTypes'
      BY <1>0, <2>0, <2>1, <2>f DEF FanTypes, FanPhase
    <3>2. Holding' = Holding \ {i}
      BY <1>0, <2>1 DEF Holding
    <3>3. Cardinality(Holding') = Cardinality(Holding) - 1
      BY <2>0, <3>2, HoldingLess
    <3>4. Cardinality(Holding') \in Nat
      BY HoldingFiniteNext
    <3>5. Queued'
      BY <1>0, <2>0, <2>1 DEF Queued
    <3>6. HeldCount'
      BY <1>0, <1>n, <2>0, <2>1, <3>3, <3>4 DEF HeldCount
    <3> QED
      BY <1>0, <2>1, <3>1, <3>5, <3>6 DEF SemInv, Full
  <2>2. CASE /\ held > 0 /\ waiters = << >> /\ held' = held - 1 /\ waiters' = waiters
             /\ phase' = [phase EXCEPT ![i] = "ended"]
    <3>1. FanTypes'
      BY <1>0, <2>0, <2>2, <2>f DEF FanTypes, FanPhase
    <3>2. Holding' = Holding \ {i}
      BY <1>0, <2>2 DEF Holding
    <3>3. Cardinality(Holding') = Cardinality(Holding) - 1
      BY <2>0, <3>2, HoldingLess
    <3>5. Queued'
      BY <1>0, <2>0, <2>2 DEF Queued
    <3>6. HeldCount'
      BY <1>0, <1>n, <2>0, <2>2, <3>3 DEF HeldCount
    <3>7. Full'
      BY <1>0, <2>2 DEF Full
    <3> QED
      BY <3>1, <3>5, <3>6, <3>7 DEF SemInv
  <2>3. CASE /\ held > 0 /\ waiters # << >>
             /\ waiters' = SubSeq(waiters, 2, Len(waiters))
             /\ phase' = [j \in Items |-> IF j = i THEN "ended"
                                          ELSE IF j = waiters[1] THEN "ready"
                                          ELSE phase[j]]
             /\ held' = held
    <3>1. waiters' = Without(waiters, 1) /\ 1 \in DOMAIN waiters
      BY <1>0, <2>3, FirstOut
    <3>2. PICK w \in Items : w = waiters[1] /\ phase[w] = "wait" /\ w # i
      BY <1>0, <2>0, <3>1 DEF Queued
    <3>3. /\ phase' \in [Items -> FanPhase] /\ phase'[w] = "ready" /\ phase'[i] = "ended"
          /\ \A j \in Items \ {w, i} : phase'[j] = phase[j]
      BY <1>0, <2>3, <3>2 DEF FanPhase
    <3>4. waiters' \in Seq(Items) /\ Queued'
      BY <1>0, <2>0, <3>1, <3>2, <3>3, QueueLeft
    <3>5. FanTypes'
      BY <1>0, <2>0, <2>3, <2>f, <3>3, <3>4 DEF FanTypes
    <3>6. Holding' = (Holding \ {i}) \cup {w} /\ w \notin Holding
      BY <3>2, <3>3 DEF Holding
    <3>7. Cardinality(Holding') = Cardinality(Holding)
      BY <2>0, <3>6, HoldingPassed
    <3>8. HeldCount'
      BY <1>0, <2>0, <2>3, <3>7 DEF HeldCount
    <3>9. Full'
      BY <1>0, <2>3 DEF Full
    <3> QED
      BY <3>4, <3>5, <3>8, <3>9 DEF SemInv
  <2> QED
    BY <1>8, <2>1, <2>2, <2>3, ReleaseEffect
<1>9. CASE Wait \/ Cancel \/ UNCHANGED fanVars
  <2>1. FanTypes'
    BY <1>0, <1>9 DEF Wait, Cancel, fanVars, FanTypes
  <2>2. UNCHANGED <<phase, held, waiters>> /\ (ctx' = "live" => ctx = "live")
    BY <1>9 DEF Wait, Cancel, fanVars
  <2>3. Holding' = Holding
    BY <2>2 DEF Holding
  <2> QED
    BY <1>0, <2>1, <2>2, <2>3 DEF SemInv, Queued, Full, HeldCount
<1> QED
  BY <1>1, <1>2, <1>3, <1>4, <1>5, <1>6, <1>7, <1>8, <1>9 DEF FanStep

LEMMA SemInvAlways == FetchSpec => []SemInv
BY SemInit, SemNext, FetchIsFan, PTL DEF FetchSpec

\* As long as the context lives, no more than Size calls are under way, and the
\* semaphore knows of all of them.
THEOREM AtMostSizeAlways == FetchSpec => []AtMostSize
<1>1. ASSUME SemInv PROVE AtMostSize
  <2>1. \A k \in DOMAIN waiters : waiters[k] \in Items
    BY <1>1 DEF SemInv, FanTypes
  <2>2. {i \in Items : phase[i] = "wait"} = {waiters[k] : k \in DOMAIN waiters}
    BY <1>1, <2>1 DEF SemInv, Queued
  <2> QED
    BY <1>1, <2>2 DEF SemInv, Full, HeldCount, AtMostSize
<1> QED
  BY <1>1, SemInvAlways, PTL

-----------------------------------------------------------------------------
(* The wait group and the map *)

Running == {i \in Items : phase[i] \in {"acquire", "wait", "ready", "call",
                                        "store", "done"}}
Past == {i \in Items : phase[i] \in {"done", "release", "ended"}}

\* The wait group counts who runs, what is fetched is stored or has failed, and
\* after Wait nobody runs.
RunInv ==
  /\ wg = Cardinality(Running)
  /\ Past = payload \cup failed
  /\ payload \cap failed = {}
  /\ main = "after" => \A i \in Items : phase[i] \in {"release", "ended"}

LEMMA RunningFinite == IsFiniteSet(Running) /\ Cardinality(Running) \in Nat
<1>1. Running \subseteq Items
  BY DEF Running
<1> QED
  BY <1>1, FanOutAssumption, FS_Subset, FS_CardinalityType

LEMMA RunInit == FetchInit => RunInv
<1> SUFFICES ASSUME FetchInit PROVE RunInv
  OBVIOUS
<1>1. Running = {} /\ Past = {}
  BY DEF FetchInit, FanInit, Running, Past
<1> QED
  BY <1>1, FS_EmptySet DEF FetchInit, FanInit, RunInv

\* Steps by which nobody starts, finishes a fetch or is counted off.
LEMMA RunQuiet ==
  ASSUME RunInv, Running' = Running, Past' = Past, UNCHANGED <<wg, payload, failed>>,
         main' \in {main, "panic"},
         \A i \in Items : phase[i] \in {"release", "ended"} =>
                            phase'[i] \in {"release", "ended"}
  PROVE  RunInv'
BY DEF RunInv

LEMMA RunNext == SemInv /\ RunInv /\ FanStep => RunInv'
<1> SUFFICES ASSUME SemInv, RunInv, FanStep PROVE RunInv'
  OBVIOUS
<1>0. /\ phase \in [Items -> FanPhase]
      /\ \A k \in DOMAIN waiters : waiters[k] \in Items /\ phase[waiters[k]] = "wait"
  BY DEF SemInv, FanTypes, Queued
<1>1. ASSUME NEW i \in Items, Spawn(i) PROVE RunInv'
  <2>1. Running' = Running \cup {i} /\ i \notin Running /\ Past' = Past
    BY <1>0, <1>1 DEF Spawn, GoesOn, Running, Past
  <2>2. Cardinality(Running') = Cardinality(Running) + 1
    BY <2>1, RunningFinite, FS_AddElement
  <2>3. wg' = wg + 1 /\ main' = "loop" /\ UNCHANGED <<payload, failed>>
    BY <1>1 DEF Spawn
  <2> QED
    BY <2>1, <2>2, <2>3 DEF RunInv
<1>2. ASSUME NEW i \in Items, Done(i) PROVE RunInv'
  <2>1. Running' = Running \ {i} /\ i \in Running /\ Past' = Past
    BY <1>0, <1>2 DEF Done, GoesOn, Running, Past
  <2>2. Cardinality(Running') = Cardinality(Running) - 1
    BY <2>1, RunningFinite, FS_RemoveElement
  <2>3. /\ wg' = wg - 1 /\ UNCHANGED <<main, payload, failed>>
        /\ phase[i] = "done"
    BY <1>2 DEF Done
  <2>4. main # "after"
    BY <2>3 DEF RunInv
  <2> QED
    BY <2>1, <2>2, <2>3, <2>4 DEF RunInv
<1>3. ASSUME NEW i \in Items, Fetch(i) PROVE RunInv'
  <2>1. PICK p \in {"store", "done"} :
          /\ GoesOn(i, p)
          /\ p = "store" => failed' = failed
          /\ p = "done"  => failed' = failed \cup {i}
    BY <1>3 DEF Fetch
  <2>2. phase[i] = "call" /\ UNCHANGED <<wg, payload>> /\ main' \in {main, "panic"}
    BY <1>3 DEF Fetch
  <2>3. Running' = Running /\ i \notin Past
    BY <1>0, <2>1, <2>2 DEF GoesOn, Running, Past
  <2>4. Past' = IF p = "done" THEN Past \cup {i} ELSE Past
    BY <1>0, <2>1, <2>2 DEF GoesOn, Past
  <2>5. main' # "after"
    BY <2>2 DEF RunInv
  <2> QED
    BY <2>1, <2>2, <2>3, <2>4, <2>5 DEF RunInv
<1>4. ASSUME NEW i \in Items, Store(i) PROVE RunInv'
  <2>1. Running' = Running /\ Past' = Past \cup {i} /\ i \notin Past
    BY <1>0, <1>4 DEF Store, GoesOn, Running, Past
  <2>2. main # "after"
    BY <1>4 DEF RunInv, Store
  <2>3. payload' = payload \cup {i} /\ UNCHANGED <<main, wg, failed>>
    BY <1>4 DEF Store
  <2> QED
    BY <2>1, <2>2, <2>3 DEF RunInv
<1>5. ASSUME NEW i \in Items, Acquire(i) \/ Acquired(i) PROVE RunInv'
  <2>1. PICK p \in {"wait", "call"} : GoesOn(i, p)
    BY <1>5 DEF Acquire, Acquired
  <2>2. phase[i] \in {"acquire", "ready"} /\ UNCHANGED <<main, wg, payload, failed>>
    BY <1>5 DEF Acquire, Acquired
  <2>3. \A j \in Items : phase'[j] = IF j = i THEN p ELSE phase[j]
    BY <1>0, <2>1 DEF GoesOn
  <2>4. Running' = Running /\ Past' = Past
    BY <2>2, <2>3 DEF Running, Past
  <2> QED
    BY <2>2, <2>3, <2>4, RunQuiet
<1>6. ASSUME NEW i \in Items, NotAcquired(i) PROVE RunInv'
  <2>1. phase' = [phase EXCEPT ![i] = "call"]
    BY <1>6, NotAcquiredEffect
  <2>2. phase[i] = "wait" /\ UNCHANGED <<main, wg, payload, failed>>
    BY <1>6 DEF NotAcquired
  <2>3. \A j \in Items : phase'[j] = IF j = i THEN "call" ELSE phase[j]
    BY <1>0, <2>1
  <2>4. Running' = Running /\ Past' = Past
    BY <2>2, <2>3 DEF Running, Past
  <2> QED
    BY <2>2, <2>3, <2>4, RunQuiet
<1>7. ASSUME NEW i \in Items, Release(i) PROVE RunInv'
  <2>1. /\ phase[i] = "release" /\ main' \in {main, "panic"}
        /\ UNCHANGED <<wg, payload, failed>>
    BY <1>7 DEF Release
  <2>2. \A j \in Items : \/ j = i /\ phase'[j] = "ended"
                         \/ phase'[j] = phase[j]
                         \/ phase[j] = "wait" /\ phase'[j] = "ready"
    <3>1. CASE phase' = [phase EXCEPT ![i] = "ended"]
      BY <1>0, <3>1
    <3>2. CASE /\ waiters # << >>
               /\ phase' = [j \in Items |-> IF j = i THEN "ended"
                                            ELSE IF j = waiters[1] THEN "ready"
                                            ELSE phase[j]]
      <4>1. phase[waiters[1]] = "wait"
        BY <1>0, <3>2, FirstOut DEF SemInv, FanTypes
      <4> QED
        BY <3>2, <4>1
    <3> QED
      BY <1>7, <3>1, <3>2, ReleaseEffect
  <2>3. Running' = Running /\ Past' = Past
    BY <2>1, <2>2 DEF Running, Past
  <2> QED
    BY <2>1, <2>2, <2>3, RunQuiet
<1>8. CASE Wait
  <2>1. Running = {}
    BY <1>8, RunningFinite, FS_EmptySet DEF Wait, RunInv
  <2>2. \A i \in Items : phase[i] \in {"release", "ended"}
    BY <1>0, <1>8, <2>1 DEF Wait, Running, FanPhase
  <2> QED
    BY <1>8, <2>2 DEF Wait, RunInv, Running, Past
<1>9. CASE Cancel \/ UNCHANGED fanVars
  BY <1>9 DEF Cancel, fanVars, RunInv, Running, Past
<1> QED
  BY <1>1, <1>2, <1>3, <1>4, <1>5, <1>6, <1>7, <1>8, <1>9 DEF FanStep

LEMMA RunInvAlways == FetchSpec => [](SemInv /\ RunInv)
BY SemInit, SemNext, RunInit, RunNext, FetchIsFan, PTL DEF FetchSpec

\* As long as Wait has not returned, some goroutine can go on, or none is left:
\* with or without a shutdown, and whatever failed.
THEOREM NeverStuckAlways == FetchSpec => []NeverStuck
<1>1. ASSUME SemInv, RunInv PROVE NeverStuck
  <2> SUFFICES ASSUME \A i \in Items : phase[i] \in {"wait", "ended"} PROVE wg = 0
    BY DEF NeverStuck
  <2>1. Holding = {}
    BY DEF Holding
  <2>2. held = 0 /\ Size # 0
    BY <1>1, <2>1, FS_EmptySet, FanOutAssumption DEF SemInv, FanTypes, HeldCount
  <2>3. waiters = << >>
    BY <1>1, <2>2 DEF SemInv, Full
  <2>4. \A i \in Items : phase[i] # "wait"
    BY <1>1, <2>3 DEF SemInv, Queued
  <2>5. Running = {}
    BY <2>4 DEF Running
  <2> QED
    BY <1>1, <2>5, FS_EmptySet DEF RunInv
<1> QED
  BY <1>1, RunInvAlways, PTL

\* When Wait returns the map holds all that could be fetched, and nobody writes
\* to it any more.
THEOREM CompleteAfterWaitAlways == FetchSpec => []CompleteAfterWait
<1>1. ASSUME SemInv, RunInv PROVE CompleteAfterWait
  BY <1>1 DEF SemInv, FanTypes, RunInv, Past, CompleteAfterWait
<1> QED
  BY <1>1, RunInvAlways, PTL

-----------------------------------------------------------------------------
(* The token after Wait *)

\* Only who fetches has a request under way.
AtRest == UsesToken => \A i \in Items : phase[i] # "call" => req[i] = Idle

\* The handler starts its goroutines when it has a token.  From then on that
\* is complete, or somebody is filling it in.
Started == main # "loop" \/ \E i \in Items : phase[i] # "none"

Provided ==
  UsesToken /\ Started => req[Handler].phase = "idle" /\ (Complete \/ Meanwhile)

TokenInv == WriterInv /\ AtRest /\ Provided

\* A request is the business of its goroutine alone.
LEMMA OwnRequest ==
  ASSUME req \in [Goroutines -> Request], NEW g \in Goroutines, RefreshStep(g)
  PROVE  \A h \in Goroutines \ {g} : req'[h] = req[h]
BY DEF RefreshStep, ReadToken, ReadExpiry, CallAuth, Publish, SetExpiry, SetToken,
       SetText, UseToken, Answered, Goes

\* Once a token is there or on its way it never becomes untouched again.
LEMMA StaysTouched ==
  ASSUME TypeInv, Complete \/ Meanwhile, [Next]_vars
  PROVE  ~Untouched'
<1>t. /\ cur \in Objects /\ heap \in [Objects -> Token]
      /\ req \in [Goroutines -> Request]
  BY DEF TypeInv, TypeOK
<1> DEFINE Busy(g) == req'[g].phase \notin {"idle", "refresh", "publish"}
<1>1. \/ UNCHANGED vars \/ Tick
      \/ \E g \in Goroutines : RefreshStep(g)
  BY DEF Next
<1>2. CASE UNCHANGED vars
  BY <1>2 DEF vars, Untouched, Complete, Meanwhile, Writing
<1>3. CASE Tick
  <2>1. \A h \in Goroutines : req'[h].phase = req[h].phase
    BY <1>3, <1>t DEF Tick, Request
  <2>2. cur' = cur /\ heap'[cur].text = heap[cur].text
    BY <1>3, <1>t DEF Tick, Token
  <2> QED
    BY <2>1, <2>2 DEF Untouched, Complete, Meanwhile, Writing
<1>4. ASSUME NEW g \in Goroutines, RefreshStep(g) PROVE ~Untouched'
  <2>1. \A h \in Goroutines \ {g} : req'[h] = req[h]
    BY <1>4, <1>t, OwnRequest
  <2>2. CASE Publish(g)
    <3>1. req'[g].phase = "setExpiry"
      BY <2>2, <1>t DEF Publish, Request
    <3> QED
      BY <3>1 DEF Untouched
  <2>3. CASE SetExpiry(g)
    <3>1. req'[g].phase = "setToken"
      BY <2>3, <1>t DEF SetExpiry, Goes, Request
    <3> QED
      BY <3>1 DEF Untouched
  <2>4. CASE SetToken(g)
    <3>1. req'[g].phase = "setText"
      BY <2>4, <1>t DEF SetToken, Request
    <3> QED
      BY <3>1 DEF Untouched
  <2>5. CASE SetText(g)
    <3>1. req'[g].phase = "use"
      BY <2>5, <1>t DEF SetText, Idle
    <3> QED
      BY <3>1 DEF Untouched
  <2>6. CASE ReadToken(g) \/ ReadExpiry(g) \/ CallAuth(g) \/ UseToken(g) \/ Answered(g)
    <3>1. /\ req[g].phase \notin Writing /\ UNCHANGED <<cur, heap>>
      BY <2>6 DEF ReadToken, ReadExpiry, CallAuth, UseToken, Answered, Writing
    <3>2. Meanwhile => \E h \in Goroutines \ {g} : req[h].phase \in Writing
      BY <3>1 DEF Meanwhile
    <3> QED
      BY <2>1, <3>1, <3>2 DEF Untouched, Complete, Writing
  <2> QED
    BY <1>4, <2>2, <2>3, <2>4, <2>5, <2>6 DEF RefreshStep
<1> QED
  BY <1>1, <1>2, <1>3, <1>4

LEMMA TokenInit == FetchInit => TokenInv
BY WriterInit, SharedAssumption
   DEF FetchInit, FanInit, Init, TokenInv, AtRest, Provided, Started

\* Who fetches goes on fetching until its call returns.
LEMMA CallStays ==
  ASSUME SemInv, NEW i \in Items,
         Acquire(i) \/ Acquired(i) \/ NotAcquired(i) \/ Release(i) \/ Store(i) \/ Done(i)
  PROVE  \A j \in Items : phase[j] = "call" => phase'[j] = "call"
<1>0. /\ phase \in [Items -> FanPhase]
      /\ \A k \in DOMAIN waiters : phase[waiters[k]] = "wait"
  BY DEF SemInv, FanTypes, Queued
<1>1. CASE Acquire(i) \/ Acquired(i) \/ Store(i) \/ Done(i)
  <2>1. phase[i] # "call" /\ \E p \in {"wait", "call", "done", "release"} : GoesOn(i, p)
    BY <1>1 DEF Acquire, Acquired, Store, Done
  <2> QED
    BY <1>0, <2>1 DEF GoesOn
<1>2. CASE NotAcquired(i)
  <2>1. phase' = [phase EXCEPT ![i] = "call"]
    BY <1>2, NotAcquiredEffect
  <2> QED
    BY <1>0, <2>1
<1>3. CASE Release(i)
  <2>0. phase[i] = "release"
    BY <1>3 DEF Release
  <2>1. CASE phase' = [phase EXCEPT ![i] = "ended"]
    BY <1>0, <2>0, <2>1
  <2>2. CASE /\ waiters # << >>
             /\ phase' = [j \in Items |-> IF j = i THEN "ended"
                                          ELSE IF j = waiters[1] THEN "ready"
                                          ELSE phase[j]]
    <3>1. phase[waiters[1]] = "wait"
      BY <1>0, <2>2, FirstOut DEF SemInv, FanTypes
    <3> QED
      BY <2>0, <2>2, <3>1
  <2> QED
    BY <1>3, <2>1, <2>2, ReleaseEffect
<1> QED
  BY <1>1, <1>2, <1>3

LEMMA TokenNext == SemInv /\ TokenInv /\ [FetchNext]_fetchVars => TokenInv'
<1> SUFFICES ASSUME SemInv, TokenInv, [FetchNext]_fetchVars PROVE TokenInv'
  OBVIOUS
<1>0. WriterInv /\ WriterInv' /\ [Next]_vars
  BY FetchIsToken, WriterStep DEF TokenInv
<1>t. /\ TypeInv /\ req \in [Goroutines -> Request]
      /\ phase \in [Items -> FanPhase]
      /\ Handler \in Goroutines /\ Items \subseteq Goroutines /\ Handler \notin Items
  BY <1>0, SharedAssumption DEF WriterInv, TypeInv, TypeOK, SemInv, FanTypes
<1>c. caller' = caller
  BY FetchIsFan
     DEF FanStep, Spawn, Fetch, Acquire, Acquired, NotAcquired, Release, Store, Done,
         Wait, Cancel, fanVars
<1>k. Complete \/ Meanwhile => Complete' \/ Meanwhile'
  BY <1>0, <1>t, StaysTouched DEF WriterInv
\* It is enough to look at the requests and at the moment of the first start.
<1>q. ASSUME UsesToken => \A i \in Items : phase'[i] # "call" => req'[i] = Idle,
             UsesToken /\ Started' /\ ~Started =>
               req[Handler].phase = "idle" /\ Complete,
             UsesToken /\ Started' => req'[Handler].phase = req[Handler].phase
      PROVE  TokenInv'
  BY <1>0, <1>c, <1>k, <1>q DEF TokenInv, AtRest, Provided, UsesToken
<1>1. CASE Listing
  <2>1. \A i \in Items : req'[i] = req[i]
    BY <1>1, <1>t, OwnRequest DEF Listing
  <2>2. UNCHANGED <<main, phase>> /\ ~Started
    BY <1>1 DEF Listing, fanVars, Started
  <2> QED
    BY <2>1, <2>2, <1>q DEF TokenInv, AtRest, Started
<1>2. ASSUME NEW i \in Items, StartGoroutine(i) PROVE TokenInv'
  <2>1. \A j \in Items : phase'[j] # "call" => phase[j] # "call"
    BY <1>2, <1>t DEF StartGoroutine, Spawn, GoesOn
  <2>2. req' = req
    BY <1>2 DEF StartGoroutine, vars
  <2>3. UsesToken /\ ~Started => req[Handler].phase = "idle" /\ Complete
    BY <1>2 DEF StartGoroutine, Listed, Started, Complete
  <2> QED
    BY <2>1, <2>2, <2>3, <1>q DEF TokenInv, AtRest
<1>3. ASSUME NEW i \in Items, GetGroupMembers(i) PROVE TokenInv'
  <2>1. \A h \in Goroutines \ {i} : req'[h] = req[h]
    BY <1>3, <1>t, OwnRequest DEF GetGroupMembers
  <2>2. /\ phase[i] = "call"
        /\ \A j \in Items \ {i} : phase'[j] = phase[j]
    BY <1>3, <1>t DEF GetGroupMembers, Fetch, GoesOn, fanVars
  <2>3. phase'[i] # "call" => req'[i] = Idle
    BY <1>3 DEF GetGroupMembers, fanVars
  <2> QED
    BY <1>t, <2>1, <2>2, <2>3, <1>q DEF TokenInv, AtRest, Started
<1>4. ASSUME NEW i \in Items, GetSsoRoles(i) PROVE TokenInv'
  BY <1>4, <1>q DEF GetSsoRoles
<1>5. ASSUME NEW i \in Items, Elsewhere(i) PROVE TokenInv'
  <2>1. \A j \in Items : phase'[j] # "call" => phase[j] # "call"
    BY <1>5, CallStays DEF Elsewhere
  <2>2. req' = req
    BY <1>5 DEF Elsewhere, vars
  <2>3. phase[i] # "none"
    BY <1>5 DEF Elsewhere, Acquire, Acquired, NotAcquired, Release, Store, Done
  <2> QED
    BY <2>1, <2>2, <2>3, <1>q DEF TokenInv, AtRest, Started
<1>6. CASE Wait /\ Listed /\ UNCHANGED vars
  <2>1. UsesToken /\ ~Started => req[Handler].phase = "idle" /\ Complete
    BY <1>6 DEF Listed, Started, Complete
  <2>2. phase' = phase /\ req' = req
    BY <1>6 DEF Wait, vars
  <2> QED
    BY <2>1, <2>2, <1>q DEF TokenInv, AtRest
<1>7. CASE (Cancel /\ UNCHANGED vars) \/ UNCHANGED fetchVars
  <2>1. UNCHANGED <<main, phase, req>>
    BY <1>7 DEF Cancel, vars, fanVars, fetchVars
  <2> QED
    BY <2>1, <1>q DEF TokenInv, AtRest, Started
<1>8. CASE Tick /\ UNCHANGED fanVars
  <2>1. UNCHANGED <<main, phase>>
    BY <1>8 DEF fanVars
  <2>2. /\ req'[Handler].phase = req[Handler].phase
        /\ \A i \in Items : req[i] = Idle => req'[i] = Idle
    <3>1. \A g \in Goroutines : req'[g].phase = req[g].phase
      BY <1>8, <1>t DEF Tick, Request
    <3>2. \A g \in Goroutines : ~Waiting(g) => req'[g] = req[g]
      BY <1>8 DEF Tick
    <3>3. \A g \in Goroutines : req[g] = Idle => ~Waiting(g)
      BY DEF Waiting, Idle
    <3> QED
      BY <1>t, <3>1, <3>2, <3>3
  <2> QED
    BY <2>1, <2>2, <1>q DEF TokenInv, AtRest, Started
<1> QED
  BY <1>1, <1>2, <1>3, <1>4, <1>5, <1>6, <1>7, <1>8 DEF FetchNext, FetchStep

LEMMA TokenInvAlways == FetchSpec => [](SemInv /\ RunInv /\ TokenInv)
<1>1. SemInv /\ [FetchNext]_fetchVars => SemInv'
  BY SemNext, FetchIsFan
<1>2. SemInv /\ RunInv /\ [FetchNext]_fetchVars => RunInv'
  BY RunNext, FetchIsFan
<1> QED
  BY <1>1, <1>2, SemInit, RunInit, TokenInit, TokenNext, PTL DEF FetchSpec

\* When Wait returns nobody fills in the token any more, and it is complete.
THEOREM FinishedAfterWaitAlways == FetchSpec => []FinishedAfterWait
<1>1. ASSUME RunInv, TokenInv PROVE FinishedAfterWait
  <2> SUFFICES ASSUME UsesToken, main = "after" PROVE Complete
    BY DEF FinishedAfterWait, Complete
  <2>1. \A i \in Items : req[i] = Idle
    BY <1>1 DEF RunInv, TokenInv, AtRest
  <2>2. req[Handler].phase = "idle" /\ (Complete \/ Meanwhile)
    BY <1>1 DEF TokenInv, Provided, Started
  <2>3. \A g \in Goroutines : req[g].phase = "idle"
    BY <2>1, <2>2, SharedAssumption DEF Idle
  <2> QED
    BY <2>2, <2>3 DEF Meanwhile, Writing
<1> QED
  BY <1>1, TokenInvAlways, PTL
=============================================================================
