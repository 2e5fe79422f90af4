--------------------------- MODULE TimerWheelProofs ---------------------------
(***************************************************************************)
(* For every set of positions and every size of the wheel: the state keeps *)
(* its type, the bucket lists stay well linked and no armed timer is lost, *)
(* whatever the expiry callbacks do.  When callbacks leave other timers    *)
(* alone and the timeouts fit their fields, timers also fire in time: only *)
(* when armed, not early, and at most one revolution late.                 *)
(***************************************************************************)
EXTENDS TimerWheel, LeastNumber, TLAPS

\* Unlink keeps the type of the wheel and leaves p in no bucket.
LEMMA UnlinkType ==
    ASSUME NEW w \in WheelType, NEW p \in Pos
    PROVE  /\ Unlink(w, p) \in WheelType
           /\ Unlink(w, p).bucket[p] = Unlinked
  <1>0. /\ w.next \in [Pos -> Link] /\ w.prev \in [Pos -> Link]
        /\ w.bucket \in [Pos -> 0 .. Slots] /\ w.heads \in [Buckets -> Link]
        /\ w.rounds \in [Pos -> Nat]
        /\ NIL \in Link /\ Unlinked \in 0 .. Slots
    BY SlotsAssumption DEF WheelType, Link, Unlinked
  <1>1. CASE ~Linked(w, p)
    BY <1>0, <1>1, SlotsAssumption DEF Unlink, Linked, Buckets, Unlinked
  <1>2. CASE Linked(w, p)
    <2> DEFINE nx == w.next[p]
               pv == w.prev[p]
               b == w.bucket[p]
               h == IF pv = NIL /\ w.heads[b] = p THEN [w.heads EXCEPT ![b] = nx] ELSE w.heads
               n == [q \in Pos |-> IF q = p THEN NIL ELSE IF q = pv THEN nx ELSE w.next[q]]
               v == [q \in Pos |-> IF q = p THEN NIL ELSE IF q = nx THEN pv ELSE w.prev[q]]
               c == [w.bucket EXCEPT ![p] = Unlinked]
               r == [w.rounds EXCEPT ![p] = 0]
    <2>1. h \in [Buckets -> Link]
      BY <1>0, <1>2 DEF Linked
    <2>2. n \in [Pos -> Link] /\ v \in [Pos -> Link]
      BY <1>0
    <2>3. c \in [Pos -> 0 .. Slots] /\ r \in [Pos -> Nat] /\ c[p] = Unlinked
      BY <1>0
    <2>4. Unlink(w, p) = [w EXCEPT !.heads = h, !.next = n, !.prev = v, !.bucket = c, !.rounds = r]
      BY <1>2 DEF Unlink
    <2> HIDE DEF h, n, v, c, r
    <2>5. QED
      BY <2>1, <2>2, <2>3, <2>4 DEF WheelType
  <1>3. QED
    BY <1>1, <1>2

\* Unlink of a well linked wheel gives a well linked wheel.
LEMMA UnlinkLinks ==
    ASSUME NEW w \in WheelType, NEW p \in Pos, WellLinked(w)
    PROVE  WellLinked(Unlink(w, p))
  <1>1. CASE ~Linked(w, p)
    BY <1>1 DEF Unlink
  <1>2. CASE Linked(w, p)
    <2> DEFINE u == Unlink(w, p)
               nx == w.next[p]
               pv == w.prev[p]
               b == w.bucket[p]
    <2>1. /\ u.heads = IF pv = NIL /\ w.heads[b] = p THEN [w.heads EXCEPT ![b] = nx] ELSE w.heads
          /\ u.next = [q \in Pos |-> IF q = p THEN NIL ELSE IF q = pv THEN nx ELSE w.next[q]]
          /\ u.prev = [q \in Pos |-> IF q = p THEN NIL ELSE IF q = nx THEN pv ELSE w.prev[q]]
          /\ u.bucket = [w.bucket EXCEPT ![p] = Unlinked]
      BY <1>2 DEF Unlink, WheelType
    <2>2. /\ w.next \in [Pos -> Link] /\ w.prev \in [Pos -> Link]
          /\ w.bucket \in [Pos -> 0 .. Slots] /\ w.heads \in [Buckets -> Link]
          /\ b \in Buckets /\ Unlinked \notin Buckets
      BY <1>2, SlotsAssumption DEF WheelType, Linked, Buckets, Unlinked
    <2> HIDE DEF u
    <2>3. HeadsOK(u)
      BY <2>1, <2>2, NilAssumption DEF WellLinked, HeadsOK, NextOK, PrevOK, FirstOK, Linked, Link
    <2>4. NextOK(u)
      BY <2>1, <2>2, NilAssumption DEF WellLinked, HeadsOK, NextOK, PrevOK, FirstOK, Linked, Link
    <2>5. PrevOK(u)
      BY <2>1, <2>2, NilAssumption DEF WellLinked, HeadsOK, NextOK, PrevOK, FirstOK, Linked, Link
    <2>6. FirstOK(u)
      BY <2>1, <2>2, NilAssumption DEF WellLinked, HeadsOK, NextOK, PrevOK, FirstOK, Linked, Link
    <2>7. QED
      BY <2>3, <2>4, <2>5, <2>6 DEF WellLinked, u
  <1>3. QED
    BY <1>1, <1>2

\* Linking an unlinked position at the head of a bucket keeps the type ...
LEMMA LinkHeadType ==
    ASSUME NEW w \in WheelType, NEW p \in Pos, NEW b \in Buckets, NEW r \in Nat
    PROVE  LinkHead(w, p, b, r) \in WheelType
  <1> DEFINE nx == w.heads[b]
             h == [w.heads EXCEPT ![b] = p]
             n == [w.next EXCEPT ![p] = nx]
             v == [q \in Pos |-> IF q = p THEN NIL ELSE IF q = nx THEN p ELSE w.prev[q]]
             c == [w.bucket EXCEPT ![p] = b]
             k == [w.rounds EXCEPT ![p] = r]
             x == [w.extra EXCEPT ![p] = Tag[p]]
  <1>1. /\ h \in [Buckets -> Link] /\ n \in [Pos -> Link] /\ v \in [Pos -> Link]
        /\ c \in [Pos -> 0 .. Slots] /\ k \in [Pos -> Nat]
    BY SlotsAssumption DEF WheelType, Link, Buckets
  <1>2. x \in [Pos -> Nat]
    BY TagAssumption DEF WheelType
  <1>3. LinkHead(w, p, b, r) = [w EXCEPT !.heads = h, !.next = n, !.prev = v, !.bucket = c,
                                         !.rounds = k, !.extra = x]
    BY DEF LinkHead
  <1> HIDE DEF h, n, v, c, k, x
  <1>4. QED
    BY <1>1, <1>2, <1>3 DEF WheelType

\* ... and the good order of the lists.
LEMMA LinkHeadLinks ==
    ASSUME NEW w \in WheelType, NEW p \in Pos, NEW b \in Buckets, NEW r \in Nat,
           WellLinked(w), w.bucket[p] = Unlinked
    PROVE  WellLinked(LinkHead(w, p, b, r))
  <1> DEFINE u == LinkHead(w, p, b, r)
             nx == w.heads[b]
  <1>1. /\ u.heads = [w.heads EXCEPT ![b] = p]
        /\ u.next = [w.next EXCEPT ![p] = nx]
        /\ u.prev = [q \in Pos |-> IF q = p THEN NIL ELSE IF q = nx THEN p ELSE w.prev[q]]
        /\ u.bucket = [w.bucket EXCEPT ![p] = b]
    BY DEF LinkHead, WheelType
  <1>2. /\ w.next \in [Pos -> Link] /\ w.prev \in [Pos -> Link]
        /\ w.bucket \in [Pos -> 0 .. Slots] /\ w.heads \in [Buckets -> Link]
        /\ Unlinked \notin Buckets
    BY SlotsAssumption DEF WheelType, Buckets, Unlinked
  <1> HIDE DEF u
  <1>3. HeadsOK(u)
    BY <1>1, <1>2, NilAssumption DEF WellLinked, HeadsOK, NextOK, PrevOK, FirstOK, Linked, Link
  <1>4. NextOK(u)
    BY <1>1, <1>2, NilAssumption DEF WellLinked, HeadsOK, NextOK, PrevOK, FirstOK, Linked, Link
  <1>5. PrevOK(u)
    BY <1>1, <1>2, NilAssumption DEF WellLinked, HeadsOK, NextOK, PrevOK, FirstOK, Linked, Link
  <1>6. FirstOK(u)
    BY <1>1, <1>2, NilAssumption DEF WellLinked, HeadsOK, NextOK, PrevOK, FirstOK, Linked, Link
  <1>7. QED
    BY <1>3, <1>4, <1>5, <1>6 DEF WellLinked, u

\* The wheels in good order.
GoodWheel(w) == w \in WheelType /\ WellLinked(w)

\* Unlink, Schedule and Cancel lead from good wheels to good wheels.
LEMMA UnlinkGood ==
    ASSUME NEW w, GoodWheel(w), NEW p \in Pos
    PROVE  GoodWheel(Unlink(w, p))
  BY UnlinkType, UnlinkLinks DEF GoodWheel

LEMMA ScheduleGood ==
    ASSUME NEW w, GoodWheel(w), NEW p \in Pos, NEW now \in Nat, NEW ticks \in Nat
    PROVE  GoodWheel(Schedule(w, now, p, ticks))
  <1> DEFINE b == ExpireBucket(now, ticks)
             r == ExpireRounds(now, ticks)
             u == Unlink(w, p)
  <1>1. b \in Buckets
    <2>1. now + ticks \in Int
      OBVIOUS
    <2>2. QED
      BY <2>1, SlotsAssumption DEF ExpireBucket, Buckets
  <1>2. r \in Nat
    BY SlotsAssumption, NumberAssumption DEF ExpireRounds
  <1>3. GoodWheel(u) /\ u.bucket[p] = Unlinked
    BY UnlinkGood, UnlinkType DEF GoodWheel
  <1> HIDE DEF b, r, u
  <1>4. GoodWheel(LinkHead(u, p, b, r))
    BY <1>1, <1>2, <1>3, LinkHeadType, LinkHeadLinks DEF GoodWheel
  <1>5. QED
    BY <1>4 DEF Schedule, b, r, u

LEMMA CancelGood ==
    ASSUME NEW w, GoodWheel(w), NEW p \in Pos
    PROVE  GoodWheel(Cancel(w, p))
  <1> DEFINE u == Unlink(w, p)
             c == ClearSlot(u, p)
  <1>1. GoodWheel(u) /\ u.bucket[p] = Unlinked
    BY UnlinkGood, UnlinkType DEF GoodWheel
  <1> HIDE DEF u
  <1>2. u.next[p] = NIL /\ u.prev[p] = NIL
    BY <1>1, SlotsAssumption DEF GoodWheel, WellLinked, NextOK, PrevOK, Linked, Buckets, Unlinked
  <1> DEFINE n == [u.next EXCEPT ![p] = NIL]
             v == [u.prev EXCEPT ![p] = NIL]
             k == [u.bucket EXCEPT ![p] = Unlinked]
             r == [u.rounds EXCEPT ![p] = 0]
             x == [u.extra EXCEPT ![p] = 0]
  <1>3. n = u.next /\ v = u.prev /\ k = u.bucket /\ r \in [Pos -> Nat] /\ x \in [Pos -> Nat]
    BY <1>1, <1>2 DEF GoodWheel, WheelType
  <1>4. c = [u EXCEPT !.next = n, !.prev = v, !.bucket = k, !.rounds = r, !.extra = x]
    BY DEF ClearSlot
  <1> HIDE DEF n, v, k, r, x, c
  <1>5. /\ c \in WheelType
        /\ c.next = u.next /\ c.prev = u.prev /\ c.bucket = u.bucket /\ c.heads = u.heads
    BY <1>1, <1>3, <1>4 DEF GoodWheel, WheelType
  <1>6. WellLinked(c)
    BY <1>1, <1>5 DEF GoodWheel, WellLinked, HeadsOK, NextOK, PrevOK, FirstOK, Linked
  <1>7. QED
    BY <1>5, <1>6 DEF GoodWheel, Cancel, c, u

-------------------------------------------------------------------------------
(* The invariant: the type, and the good order of the lists.  Every step that *)
(* changes the wheel goes through the three operations above, or only lowers  *)
(* a round count.                                                             *)

Inv == TypeOK /\ LinksOK

LEMMA InitInv == Init => Inv
  <1> SUFFICES ASSUME Init PROVE Inv
    OBVIOUS
  <1>1. wheel \in WheelType
    BY SlotsAssumption DEF Init, EmptyWheel, WheelType, Link, Unlinked, Buckets
  <1>2. asked \in [Pos -> [at : Nat, tick : Nat, secs : Nat]]
    BY DEF Init, Never
  <1>3. TypeOK
    BY <1>1, <1>2, NumberAssumption DEF Init, TypeOK, Link
  <1>4. LinksOK
    BY SlotsAssumption DEF Init, EmptyWheel, LinksOK, WellLinked, HeadsOK, NextOK, PrevOK,
                           FirstOK, Linked, Unlinked, Buckets
  <1>5. QED
    BY <1>3, <1>4 DEF Inv

\* What Inv says of the wheel, and how a good wheel gives it back.
LEMMA InvGood == Inv => GoodWheel(wheel)
  BY DEF Inv, TypeOK, LinksOK, GoodWheel

LEMMA GoodTypes == GoodWheel(wheel)' => wheel' \in WheelType /\ LinksOK'
  BY DEF GoodWheel, LinksOK

\* The two calls that change the wheel and what was asked of it.
LEMMA RefreshExpiryInv ==
    ASSUME Inv, NEW p \in Pos, NEW secs \in Timeouts, RefreshExpiry(p, secs)
    PROVE  GoodWheel(wheel)' /\ asked' \in [Pos -> [at : Nat, tick : Nat, secs : Nat]]
  <1>1. secs \in Nat /\ secs % TimeoutMod \in Nat /\ nowTick \in Nat /\ clock \in Nat
    BY NumberAssumption DEF Inv, TypeOK
  <1>2. GoodWheel(Schedule(wheel, nowTick, p, secs % TimeoutMod))
    BY <1>1, InvGood, ScheduleGood
  <1>3. QED
    BY <1>1, <1>2 DEF RefreshExpiry, Inv, TypeOK, GoodWheel

LEMMA CancelTimerInv ==
    ASSUME Inv, NEW p \in Pos, CancelTimer(p)
    PROVE  GoodWheel(wheel)' /\ asked' \in [Pos -> [at : Nat, tick : Nat, secs : Nat]]
  <1>1. GoodWheel(Cancel(wheel, p))
    BY InvGood, CancelGood
  <1>2. QED
    BY <1>1 DEF CancelTimer, Inv, TypeOK, GoodWheel, Never

LEMMA NextInv == Inv /\ [Next]_vars => Inv'
  <1> SUFFICES ASSUME Inv, [Next]_vars PROVE Inv'
    OBVIOUS
  <1> USE DEF Inv
  <1>0. /\ nowTick \in Nat /\ clock \in Nat /\ nextTick \in Nat /\ calls \in 0 .. MaxCalls
        /\ curr \in Link /\ saved \in Link /\ MaxCalls \in Nat /\ Cooldown \in Nat
        /\ asked \in [Pos -> [at : Nat, tick : Nat, secs : Nat]]
        /\ wheel \in WheelType
    BY NumberAssumption DEF TypeOK
  <1>1. ASSUME NEW p \in Pos, NEW secs \in Timeouts, HandlerSchedules(p, secs) PROVE Inv'
    <2>1. GoodWheel(wheel)' /\ asked' \in [Pos -> [at : Nat, tick : Nat, secs : Nat]]
      BY <1>1, RefreshExpiryInv DEF HandlerSchedules
    <2>2. QED
      BY <1>1, <2>1, GoodTypes DEF HandlerSchedules, TypeOK
  <1>2. ASSUME NEW p \in Pos, HandlerCancels(p) PROVE Inv'
    <2>1. GoodWheel(wheel)' /\ asked' \in [Pos -> [at : Nat, tick : Nat, secs : Nat]]
      BY <1>2, CancelTimerInv DEF HandlerCancels
    <2>2. QED
      BY <1>2, <2>1, GoodTypes DEF HandlerCancels, TypeOK
  <1>3. CASE ClockAdvances
    BY <1>3, <1>0 DEF ClockAdvances, TypeOK, LinksOK
  <1>4. CASE HandleTimeoutTimer
    BY <1>4, <1>0 DEF HandleTimeoutTimer, TypeOK, LinksOK
  <1>5. CASE NextBucket
    <2>1. nowTick % Slots \in Buckets
      BY <1>0, SlotsAssumption DEF Buckets
    <2>2. curr' \in Link
      BY <1>5, <1>0, <2>1 DEF NextBucket, WheelType
    <2>3. QED
      BY <1>5, <2>2 DEF NextBucket, TypeOK, LinksOK
  <1>6. CASE TickDone
    BY <1>6, <1>0 DEF TickDone, TypeOK, LinksOK
  <1>7. CASE SkipRound
    <2>1. curr \in Pos
      BY <1>7, <1>0 DEF SkipRound, Link
    <2>2. /\ wheel' \in WheelType /\ curr' \in Link
          /\ wheel'.next = wheel.next /\ wheel'.prev = wheel.prev
          /\ wheel'.bucket = wheel.bucket /\ wheel'.heads = wheel.heads
      <3>1. wheel.rounds[curr] \in Nat /\ wheel.rounds[curr] # 0
        BY <1>7, <1>0, <2>1 DEF SkipRound, WheelType
      <3>2. wheel.rounds[curr] - 1 \in Nat
        BY <3>1
      <3>3. [wheel.rounds EXCEPT ![curr] = wheel.rounds[curr] - 1] \in [Pos -> Nat]
        BY <3>2, <1>0 DEF WheelType
      <3>4. wheel' = [wheel EXCEPT !.rounds = [wheel.rounds EXCEPT ![curr] = wheel.rounds[curr] - 1]]
        BY <1>7, <1>0 DEF SkipRound, WheelType
      <3>5. QED
        BY <1>7, <1>0, <2>1, <3>3, <3>4 DEF SkipRound, WheelType
    <2>3. LinksOK'
      BY <2>2 DEF LinksOK, WellLinked, HeadsOK, NextOK, PrevOK, FirstOK, Linked
    <2>4. QED
      BY <1>7, <2>2, <2>3 DEF SkipRound, TypeOK
  <1>8. CASE Expire
    <2>1. curr \in Pos /\ saved' \in Link
      BY <1>8, <1>0 DEF Expire, Link, WheelType
    <2>2. GoodWheel(wheel)' /\ asked' \in [Pos -> [at : Nat, tick : Nat, secs : Nat]]
      <3>1. CASE CancelTimer(curr)
        BY <2>1, <3>1, CancelTimerInv
      <3>2. CASE UNCHANGED <<wheel, asked>>
        BY <1>0, <3>2, InvGood
      <3>3. QED
        BY <1>8, <3>1, <3>2 DEF Expire
    <2>3. QED
      BY <1>8, <2>1, <2>2, GoodTypes DEF Expire, TypeOK
  <1>9. CASE CallbackReturns
    <2>1. curr \in Pos
      BY <1>9 DEF CallbackReturns, TypeOK
    <2>2. GoodWheel(wheel)'
      BY <1>9, <2>1, InvGood, UnlinkGood DEF CallbackReturns
    <2>3. asked' \in [Pos -> [at : Nat, tick : Nat, secs : Nat]]
      BY <1>9, <1>0 DEF CallbackReturns, Never
    <2>4. QED
      BY <1>9, <2>2, <2>3, GoodTypes DEF CallbackReturns, TypeOK, Link
  <1>10. CASE BucketDone
    BY <1>10, <1>0 DEF BucketDone, TypeOK, LinksOK
  <1>11. ASSUME NEW p \in Pos, CallbackTouches(p) PROVE Inv'
    <2>1. GoodWheel(wheel)' /\ asked' \in [Pos -> [at : Nat, tick : Nat, secs : Nat]]
      BY <1>11, CancelTimerInv, RefreshExpiryInv DEF CallbackTouches
    <2>2. calls' \in 0 .. MaxCalls
      BY <1>11, <1>0 DEF CallbackTouches
    <2>3. QED
      BY <1>11, <2>1, <2>2, GoodTypes DEF CallbackTouches, TypeOK
  <1>12. CASE UNCHANGED vars
    BY <1>12 DEF vars, TypeOK, LinksOK
  <1>13. QED
    BY <1>1, <1>2, <1>3, <1>4, <1>5, <1>6, <1>7, <1>8, <1>9, <1>10, <1>11, <1>12 DEF Next, TickStep

\* For all positions, sizes and timeouts: the state keeps its type.
THEOREM TypeCorrect == Spec => []TypeOK
  <1>1. Inv => TypeOK
    BY DEF Inv
  <1>2. QED
    BY InitInv, NextInv, <1>1, PTL DEF Spec

\* For all positions and sizes, and whatever callbacks do to the list that Tick
\* is walking: the lists of the buckets stay well linked.
THEOREM ListsWellLinked == Spec => []LinksOK
  <1>1. Inv => LinksOK
    BY DEF Inv
  <1>2. QED
    BY InitInv, NextInv, <1>1, PTL DEF Spec

-------------------------------------------------------------------------------
(* No timer is lost.  The lists being well linked does not exclude a ring  *)
(* that no head leads to.  What does is that every linked position has a   *)
(* rank, its distance from the head of its bucket.                         *)

RankOK(w, k) ==
    /\ k \in [Pos -> Nat]
    /\ \A p \in Pos : w.prev[p] # NIL => k[p] = k[w.prev[p]] + 1
    /\ \A p \in Pos : Linked(w, p) /\ w.prev[p] = NIL => k[p] = 0
    /\ \A p, q \in Pos :
          Linked(w, p) /\ w.bucket[p] = w.bucket[q] /\ k[p] = k[q] => p = q

Ranked(w) == \E k : RankOK(w, k)

\* The ranks after p has left its list, and after it was put at its head.
RankOut(w, k, p) ==
    [q \in Pos |-> IF w.bucket[q] = w.bucket[p] /\ k[q] > k[p] THEN k[q] - 1 ELSE k[q]]
RankIn(w, k, p, b) ==
    [q \in Pos |-> IF q = p THEN 0 ELSE IF w.bucket[q] = b THEN k[q] + 1 ELSE k[q]]

LEMMA UnlinkRank ==
    ASSUME NEW w, GoodWheel(w), NEW p \in Pos, NEW k, RankOK(w, k), Linked(w, p)
    PROVE  RankOK(Unlink(w, p), RankOut(w, k, p))
  <1> DEFINE u == Unlink(w, p)
             j == RankOut(w, k, p)
             nx == w.next[p]
             pv == w.prev[p]
  <1>1. /\ u.prev = [q \in Pos |-> IF q = p THEN NIL ELSE IF q = nx THEN pv ELSE w.prev[q]]
        /\ u.bucket = [w.bucket EXCEPT ![p] = Unlinked]
    BY DEF Unlink, GoodWheel, WheelType
  <1>2. /\ w.next \in [Pos -> Link] /\ w.prev \in [Pos -> Link]
        /\ w.bucket \in [Pos -> 0 .. Slots] /\ Unlinked \notin Buckets
        /\ k \in [Pos -> Nat] /\ NIL \notin Pos
    BY SlotsAssumption, NilAssumption DEF GoodWheel, WheelType, Buckets, Unlinked, RankOK
  <1>3. j \in [Pos -> Nat]
    <2>1. \A q \in Pos : k[q] > k[p] => k[q] - 1 \in Nat
      BY <1>2
    <2>2. QED
      BY <1>2, <2>1 DEF RankOut
  <1>4. \A q \in Pos : j[q] = IF w.bucket[q] = w.bucket[p] /\ k[q] > k[p] THEN k[q] - 1 ELSE k[q]
    BY DEF RankOut
  <1>5. /\ nx \in Pos => w.prev[nx] = p /\ w.bucket[nx] = w.bucket[p] /\ k[nx] = k[p] + 1
        /\ pv \in Pos => w.bucket[pv] = w.bucket[p] /\ k[p] = k[pv] + 1
        /\ pv = NIL => k[p] = 0
    BY <1>2 DEF GoodWheel, WellLinked, NextOK, PrevOK, RankOK
  <1> HIDE DEF u, j
  <1>6. ASSUME NEW q \in Pos, u.prev[q] # NIL PROVE j[q] = j[u.prev[q]] + 1
    <2>1. q # p
      BY <1>1, <1>6, <1>2
    <2>2. CASE q = nx
      <3>1. u.prev[q] = pv /\ pv \in Pos
        BY <1>1, <1>2, <1>6, <2>1, <2>2 DEF Link
      <3>2. k[q] = k[p] + 1 /\ k[p] = k[pv] + 1 /\ w.bucket[q] = w.bucket[p]
        BY <1>5, <2>2, <3>1
      <3>3. j[q] = k[p] /\ j[pv] = k[pv]
        BY <1>2, <1>4, <3>1, <3>2
      <3>4. QED
        BY <3>1, <3>2, <3>3
    <2>3. CASE q # nx
      <3> DEFINE r == w.prev[q]
      <3>1. u.prev[q] = r /\ r \in Pos
        BY <1>1, <1>2, <1>6, <2>1, <2>3 DEF Link
      <3>2. k[q] = k[r] + 1 /\ w.bucket[r] = w.bucket[q] /\ w.next[r] = q /\ Linked(w, q)
        BY <3>1, <1>2 DEF GoodWheel, WellLinked, PrevOK, RankOK
      <3>3. r # p
        BY <3>2, <2>3
      <3>4. w.bucket[q] = w.bucket[p] => k[r] # k[p]
        BY <3>1, <3>2, <3>3 DEF RankOK, Linked
      <3>5. QED
        BY <1>2, <1>4, <3>1, <3>2, <3>4
    <2>4. QED
      BY <2>2, <2>3
  <1>7. ASSUME NEW q \in Pos, Linked(u, q), u.prev[q] = NIL PROVE j[q] = 0
    <2>1. q # p /\ Linked(w, q) /\ u.bucket[q] = w.bucket[q]
      BY <1>1, <1>2, <1>7 DEF Linked
    <2>2. CASE q = nx
      BY <1>1, <1>2, <1>4, <1>5, <1>7, <2>1, <2>2
    <2>3. CASE q # nx
      <3>1. k[q] = 0
        BY <1>1, <1>7, <2>1, <2>3 DEF RankOK
      <3>2. QED
        BY <1>2, <1>4, <3>1
    <2>4. QED
      BY <2>2, <2>3
  <1>8. ASSUME NEW q \in Pos, NEW r \in Pos, Linked(u, q), u.bucket[q] = u.bucket[r], j[q] = j[r]
        PROVE  q = r
    <2>1. /\ q # p /\ r # p /\ Linked(w, q) /\ Linked(w, r)
          /\ w.bucket[q] = w.bucket[r]
      BY <1>1, <1>2, <1>8 DEF Linked
    <2>2. k[q] = k[r] => q = r
      BY <2>1 DEF RankOK
    <2>3. w.bucket[q] = w.bucket[p] => k[q] # k[p] /\ k[r] # k[p]
      BY <2>1 DEF RankOK
    <2>4. QED
      BY <1>2, <1>4, <1>8, <2>1, <2>2, <2>3
  <1>9. QED
    BY <1>3, <1>6, <1>7, <1>8 DEF RankOK, u, j

LEMMA LinkHeadRank ==
    ASSUME NEW w, GoodWheel(w), NEW p \in Pos, NEW b \in Buckets, NEW r \in Nat,
           w.bucket[p] = Unlinked, NEW k, RankOK(w, k)
    PROVE  RankOK(LinkHead(w, p, b, r), RankIn(w, k, p, b))
  <1> DEFINE u == LinkHead(w, p, b, r)
             j == RankIn(w, k, p, b)
             nx == w.heads[b]
  <1>1. /\ u.prev = [q \in Pos |-> IF q = p THEN NIL ELSE IF q = nx THEN p ELSE w.prev[q]]
        /\ u.bucket = [w.bucket EXCEPT ![p] = b]
    BY DEF LinkHead, GoodWheel, WheelType
  <1>2. /\ w.prev \in [Pos -> Link] /\ nx \in Link
        /\ w.bucket \in [Pos -> 0 .. Slots] /\ Unlinked \notin Buckets
        /\ k \in [Pos -> Nat] /\ NIL \notin Pos
    BY SlotsAssumption, NilAssumption DEF GoodWheel, WheelType, Buckets, Unlinked, RankOK
  <1>3. j \in [Pos -> Nat]
    BY <1>2 DEF RankIn
  <1>4. \A q \in Pos : j[q] = IF q = p THEN 0 ELSE IF w.bucket[q] = b THEN k[q] + 1 ELSE k[q]
    BY DEF RankIn
  <1>5. nx \in Pos => w.bucket[nx] = b /\ w.prev[nx] = NIL /\ k[nx] = 0
    BY <1>2 DEF GoodWheel, WellLinked, HeadsOK, RankOK, Linked
  <1> HIDE DEF u, j
  <1>6. ASSUME NEW q \in Pos, u.prev[q] # NIL PROVE j[q] = j[u.prev[q]] + 1
    <2>1. q # p
      BY <1>1, <1>6
    <2>2. CASE q = nx
      BY <1>1, <1>2, <1>4, <1>5, <2>1, <2>2
    <2>3. CASE q # nx
      <3> DEFINE s == w.prev[q]
      <3>1. u.prev[q] = s /\ s \in Pos
        BY <1>1, <1>2, <1>6, <2>1, <2>3 DEF Link
      <3>2. k[q] = k[s] + 1 /\ w.bucket[s] = w.bucket[q] /\ Linked(w, q)
        BY <3>1, <1>2 DEF GoodWheel, WellLinked, PrevOK, RankOK
      <3>3. s # p
        BY <3>2, <1>2 DEF Linked
      <3>4. QED
        BY <1>2, <1>4, <2>1, <3>1, <3>2, <3>3
    <2>4. QED
      BY <2>2, <2>3
  <1>7. ASSUME NEW q \in Pos, Linked(u, q), u.prev[q] = NIL PROVE j[q] = 0
    <2>1. CASE q = p
      BY <1>4, <2>1
    <2>2. CASE q # p
      <3>1. q # nx /\ w.prev[q] = NIL /\ Linked(w, q)
        BY <1>1, <1>2, <1>7, <2>2 DEF Linked
      <3>2. k[q] = 0 /\ w.heads[w.bucket[q]] = q
        BY <3>1 DEF RankOK, GoodWheel, WellLinked, FirstOK
      <3>3. QED
        BY <1>4, <2>2, <3>1, <3>2
    <2>3. QED
      BY <2>1, <2>2
  <1>8. ASSUME NEW q \in Pos, NEW s \in Pos, Linked(u, q), u.bucket[q] = u.bucket[s], j[q] = j[s]
        PROVE  q = s
    <2>1. CASE q # p /\ s # p
      <3>1. Linked(w, q) /\ w.bucket[q] = w.bucket[s]
        BY <1>1, <1>2, <1>8, <2>1 DEF Linked
      <3>2. k[q] = k[s]
        BY <1>2, <1>4, <1>8, <2>1, <3>1
      <3>3. QED
        BY <3>1, <3>2 DEF RankOK
    <2>2. CASE q = p /\ s # p
      BY <1>1, <1>2, <1>4, <1>8, <2>2
    <2>3. CASE q # p /\ s = p
      BY <1>1, <1>2, <1>4, <1>8, <2>3
    <2>4. QED
      BY <2>1, <2>2, <2>3
  <1>9. QED
    BY <1>3, <1>6, <1>7, <1>8 DEF RankOK, u, j

LEMMA UnlinkRanked ==
    ASSUME NEW w, GoodWheel(w), NEW p \in Pos, Ranked(w)
    PROVE  Ranked(Unlink(w, p))
  <1>1. CASE Linked(w, p)
    BY <1>1, UnlinkRank DEF Ranked
  <1>2. CASE ~Linked(w, p)
    BY <1>2 DEF Unlink
  <1>3. QED
    BY <1>1, <1>2

\* What the ranks are about: the wheels that agree on it share them.
SameLists(w, u) == w.prev = u.prev /\ w.bucket = u.bucket

LEMMA SameRanks ==
    ASSUME NEW w, NEW u, SameLists(w, u), NEW k, RankOK(w, k)
    PROVE  RankOK(u, k)
  BY DEF RankOK, SameLists, Linked

LEMMA ScheduleRanked ==
    ASSUME NEW w, GoodWheel(w), NEW p \in Pos, NEW now \in Nat, NEW ticks \in Nat, Ranked(w)
    PROVE  Ranked(Schedule(w, now, p, ticks))
  <1>1. ExpireBucket(now, ticks) \in Buckets /\ ExpireRounds(now, ticks) \in Nat
    <2>1. now + ticks \in Int
      OBVIOUS
    <2>2. ExpireBucket(now, ticks) \in Buckets
      BY <2>1, SlotsAssumption DEF ExpireBucket, Buckets
    <2>3. QED
      BY <2>2, SlotsAssumption, NumberAssumption DEF ExpireRounds
  <1>2. /\ GoodWheel(Unlink(w, p)) /\ Unlink(w, p).bucket[p] = Unlinked
        /\ Ranked(Unlink(w, p))
    BY UnlinkGood, UnlinkType, UnlinkRanked DEF GoodWheel
  <1>3. QED
    BY <1>1, <1>2, LinkHeadRank DEF Schedule, Ranked

\* Cancel is Unlink as far as the lists go.
LEMMA CancelLists ==
    ASSUME NEW w, GoodWheel(w), NEW p \in Pos
    PROVE  /\ SameLists(Unlink(w, p), Cancel(w, p))
           /\ Cancel(w, p).rounds = [Unlink(w, p).rounds EXCEPT ![p] = 0]
           /\ Cancel(w, p).extra = [Unlink(w, p).extra EXCEPT ![p] = 0]
           /\ Cancel(w, p).next = Unlink(w, p).next
           /\ Cancel(w, p).heads = Unlink(w, p).heads
  <1> DEFINE u == Unlink(w, p)
  <1>1. GoodWheel(u) /\ u.bucket[p] = Unlinked
    BY UnlinkGood, UnlinkType DEF GoodWheel
  <1> HIDE DEF u
  <1>2. u.next[p] = NIL /\ u.prev[p] = NIL
    BY <1>1, SlotsAssumption DEF GoodWheel, WellLinked, NextOK, PrevOK, Linked, Buckets, Unlinked
  <1>3. /\ [u.next EXCEPT ![p] = NIL] = u.next /\ [u.prev EXCEPT ![p] = NIL] = u.prev
        /\ [u.bucket EXCEPT ![p] = Unlinked] = u.bucket
    BY <1>1, <1>2 DEF GoodWheel, WheelType
  <1>4. QED
    BY <1>1, <1>3 DEF Cancel, ClearSlot, SameLists, GoodWheel, WheelType, u

LEMMA CancelRanked ==
    ASSUME NEW w, GoodWheel(w), NEW p \in Pos, Ranked(w)
    PROVE  Ranked(Cancel(w, p))
  <1>1. PICK k : RankOK(Unlink(w, p), k)
    BY UnlinkRanked DEF Ranked
  <1>2. SameLists(Unlink(w, p), Cancel(w, p))
    BY CancelLists
  <1>3. RankOK(Cancel(w, p), k)
    BY <1>1, <1>2, SameRanks
  <1>4. QED
    BY <1>3 DEF Ranked

\* Following next from a head meets exactly the positions of its bucket.
LEMMA ChainIsBucket ==
    ASSUME Inv, Ranked(wheel), NEW b \in Buckets
    PROVE  Chain(b) = {p \in Pos : wheel.bucket[p] = b}
  <1> DEFINE B == {p \in Pos : wheel.bucket[p] = b}
  <1>1. GoodWheel(wheel) /\ NIL \notin Pos /\ wheel.heads \in [Buckets -> Link]
        /\ wheel.next \in [Pos -> Link] /\ wheel.prev \in [Pos -> Link]
    BY InvGood, NilAssumption DEF GoodWheel, WheelType
  <1>2. Follows(B, b)
    BY <1>1 DEF Follows, GoodWheel, WellLinked, HeadsOK, NextOK, Link
  <1>3. ASSUME NEW S \in SUBSET Pos, Follows(S, b), NEW p \in B, p \notin S PROVE FALSE
    <2>1. PICK k : RankOK(wheel, k)
      BY DEF Ranked
    <2> DEFINE T == {k[q] : q \in B \ S}
    <2>2. T \subseteq Nat /\ T # {}
      BY <1>3, <2>1 DEF RankOK
    <2>3. PICK n \in T : \A m \in T : n <= m
      BY <2>2, LeastNatural
    <2>4. PICK q \in B \ S : k[q] = n
      BY <2>3
    <2>5. wheel.prev[q] # NIL
      BY <1>1, <1>3, <2>4 DEF GoodWheel, WellLinked, FirstOK, Linked, Follows
    <2>6. /\ wheel.prev[q] \in B /\ wheel.next[wheel.prev[q]] = q
          /\ k[q] = k[wheel.prev[q]] + 1
      BY <1>1, <2>1, <2>4, <2>5 DEF GoodWheel, WellLinked, PrevOK, RankOK, Link
    <2>7. wheel.prev[q] \notin S
      BY <1>1, <1>3, <2>4, <2>6 DEF Follows
    <2>8. k[wheel.prev[q]] \in T
      BY <2>6, <2>7
    <2>9. n <= k[wheel.prev[q]] /\ k[wheel.prev[q]] \in Nat
      BY <2>1, <2>3, <2>6, <2>8 DEF RankOK
    <2>10. QED
      BY <2>4, <2>6, <2>9
  <1>4. QED
    BY <1>2, <1>3 DEF Chain

\* An armed timer is in a bucket, except the one whose callback is running.
ArmedLinked == \A p \in Pos : Armed(p) /\ ~(pc = "callback" /\ p = curr) => Linked(wheel, p)

\* How a step changes the wheel and what was asked of it.
LEMMA ScheduleLinked ==
    ASSUME NEW w, GoodWheel(w), NEW p \in Pos, NEW now \in Nat, NEW ticks \in Nat
    PROVE  /\ Schedule(w, now, p, ticks).bucket[p] = ExpireBucket(now, ticks)
           /\ ExpireBucket(now, ticks) \in Buckets
           /\ \A q \in Pos \ {p} : Schedule(w, now, p, ticks).bucket[q] = w.bucket[q]
  <1>1. Unlink(w, p) \in WheelType
    BY UnlinkType DEF GoodWheel
  <1>2. \A q \in Pos \ {p} : Unlink(w, p).bucket[q] = w.bucket[q]
    BY DEF Unlink, GoodWheel, WheelType
  <1>3. now + ticks \in Int
    OBVIOUS
  <1>4. ExpireBucket(now, ticks) \in Buckets
    BY <1>3, SlotsAssumption DEF ExpireBucket, Buckets
  <1>5. QED
    BY <1>1, <1>2, <1>4 DEF Schedule, LinkHead, WheelType

LEMMA CancelLinked ==
    ASSUME NEW w, GoodWheel(w), NEW p \in Pos
    PROVE  \A q \in Pos \ {p} : /\ Cancel(w, p).bucket[q] = w.bucket[q]
                                /\ Unlink(w, p).bucket[q] = w.bucket[q]
  <1>1. \A q \in Pos \ {p} : Unlink(w, p).bucket[q] = w.bucket[q]
    BY DEF Unlink, GoodWheel, WheelType
  <1>2. SameLists(Unlink(w, p), Cancel(w, p))
    BY CancelLists
  <1>3. Cancel(w, p).bucket = Unlink(w, p).bucket
    BY <1>2 DEF SameLists
  <1>4. QED
    BY <1>1, <1>3

LEMMA CallsKept ==
    ASSUME Inv, Ranked(wheel), NEW p \in Pos,
           CancelTimer(p) \/ \E secs \in Timeouts : RefreshExpiry(p, secs)
    PROVE  /\ Ranked(wheel')
           /\ \A q \in Pos \ {p} : wheel'.bucket[q] = wheel.bucket[q] /\ asked'[q] = asked[q]
           /\ asked'[p] # Never => Linked(wheel', p)
  <1>1. GoodWheel(wheel) /\ nowTick \in Nat /\ asked \in [Pos -> [at : Nat, tick : Nat, secs : Nat]]
    BY InvGood DEF Inv, TypeOK
  <1>2. CASE CancelTimer(p)
    BY <1>1, <1>2, CancelRanked, CancelLinked DEF CancelTimer
  <1>3. ASSUME NEW secs \in Timeouts, RefreshExpiry(p, secs)
        PROVE  /\ Ranked(wheel')
               /\ \A q \in Pos \ {p} : wheel'.bucket[q] = wheel.bucket[q] /\ asked'[q] = asked[q]
               /\ Linked(wheel', p)
    <2>1. secs % TimeoutMod \in Nat
      BY NumberAssumption
    <2>2. QED
      BY <1>1, <1>3, <2>1, ScheduleRanked, ScheduleLinked DEF RefreshExpiry, Linked
  <1>4. QED
    BY <1>2, <1>3

LEMMA LostInit == Init => Ranked(wheel) /\ ArmedLinked
  <1> SUFFICES ASSUME Init PROVE Ranked(wheel) /\ ArmedLinked
    OBVIOUS
  <1>1. RankOK(wheel, [p \in Pos |-> 0])
    BY SlotsAssumption DEF Init, EmptyWheel, RankOK, Linked, Unlinked, Buckets
  <1>2. QED
    BY <1>1 DEF Init, Ranked, ArmedLinked, Armed

LEMMA LostNext ==
    ASSUME Inv, Ranked(wheel), ArmedLinked, [Next]_vars
    PROVE  (Ranked(wheel) /\ ArmedLinked)'
  <1>1. ASSUME NEW p \in Pos,
               \/ HandlerCancels(p)
               \/ \E secs \in Timeouts : HandlerSchedules(p, secs)
        PROVE  (Ranked(wheel) /\ ArmedLinked)'
    <2>1. /\ pc' = pc /\ curr' = curr /\ pc = "idle"
          /\ CancelTimer(p) \/ \E secs \in Timeouts : RefreshExpiry(p, secs)
      BY <1>1 DEF HandlerCancels, HandlerSchedules
    <2>2. QED
      BY <2>1, CallsKept DEF ArmedLinked, Armed, Linked
  <1>2. ASSUME NEW p \in Pos, CallbackTouches(p)
        PROVE  (Ranked(wheel) /\ ArmedLinked)'
    <2>1. /\ pc' = pc /\ curr' = curr
          /\ CancelTimer(p) \/ \E secs \in Timeouts : RefreshExpiry(p, secs)
      BY <1>2 DEF CallbackTouches
    <2>2. QED
      BY <2>1, CallsKept DEF ArmedLinked, Armed, Linked
  <1>3. CASE ClockAdvances \/ HandleTimeoutTimer \/ NextBucket \/ TickDone \/ BucketDone
    BY <1>3 DEF ClockAdvances, HandleTimeoutTimer, NextBucket, TickDone, BucketDone, Ranked, RankOK,
                ArmedLinked, Armed, Linked
  <1>4. CASE SkipRound
    <2>1. SameLists(wheel, wheel') /\ asked' = asked /\ pc = "walking" /\ pc' = "walking"
      BY <1>4 DEF SkipRound, SameLists, Inv, TypeOK, WheelType
    <2>2. QED
      BY <2>1, SameRanks DEF Ranked, ArmedLinked, Armed, Linked, SameLists
  <1>5. CASE Expire
    <2>1. curr \in Pos /\ curr' = curr /\ pc' = "callback" /\ pc = "walking"
      BY <1>5 DEF Expire, Inv, TypeOK, Link
    <2>2. CASE CancelTimer(curr)
      BY <2>1, <2>2, CallsKept DEF ArmedLinked, Armed, Linked
    <2>3. CASE UNCHANGED <<wheel, asked>>
      BY <2>1, <2>3 DEF ArmedLinked, Armed, Linked, Ranked, RankOK
    <2>4. QED
      BY <1>5, <2>2, <2>3 DEF Expire
  <1>6. CASE CallbackReturns
    <2>1. /\ curr \in Pos /\ wheel' = Unlink(wheel, curr) /\ pc = "callback"
          /\ asked' = [asked EXCEPT ![curr] = Never] /\ asked \in [Pos -> [at : Nat, tick : Nat, secs : Nat]]
      BY <1>6 DEF CallbackReturns, Inv, TypeOK
    <2>2. Ranked(wheel')
      BY <2>1, InvGood, UnlinkRanked
    <2>3. \A q \in Pos \ {curr} : wheel'.bucket[q] = wheel.bucket[q]
      BY <2>1, InvGood, CancelLinked
    <2>4. ArmedLinked'
      BY <2>1, <2>3 DEF ArmedLinked, Armed, Linked
    <2>5. QED
      BY <2>2, <2>4
  <1>7. CASE UNCHANGED vars
    BY <1>7 DEF vars, Ranked, RankOK, ArmedLinked, Armed, Linked
  <1>8. QED
    BY <1>1, <1>2, <1>3, <1>4, <1>5, <1>6, <1>7 DEF Next, TickStep

\* Whatever callbacks do to the list that Tick is walking: the walk from the
\* head of a bucket meets every timer armed in it and no other, so no timer is
\* lost and no connection leaks because its timeout never fires.
THEOREM NothingLost == Spec => []NoTimerLost
  <1>1. Inv /\ Ranked(wheel) /\ ArmedLinked => NoTimerLost
    BY ChainIsBucket DEF NoTimerLost, ArmedLinked
  <1>2. Inv /\ (Ranked(wheel) /\ ArmedLinked) /\ [Next]_vars => (Ranked(wheel) /\ ArmedLinked)'
    BY LostNext
  <1>3. QED
    BY <1>1, <1>2, InitInv, NextInv, LostInit, PTL DEF Spec

-------------------------------------------------------------------------------
(* Deadlines.  The wheel keeps them when callbacks do not touch the list   *)
(* being walked and the timeouts fit the two narrowings of Schedule.       *)

Untroubled ==
    /\ ~Reentrant
    /\ FirstTick <= Cooldown
    /\ \A secs \in Timeouts : secs < TimeoutMod /\ (secs \div Slots) + 1 < RoundsMod

\* Two ticks of the same bucket less than a revolution apart are the same.
LEMMA SameTick ==
    ASSUME NEW v \in Nat, NEW t \in Nat, v % Slots = t % Slots, t <= v, v < t + Slots
    PROVE  v = t
  <1> DEFINE x == v \div Slots
             y == t \div Slots
             m == t % Slots
  <1>1. /\ x \in Int /\ y \in Int /\ m \in Int
        /\ v = x * Slots + m /\ t = y * Slots + m
    BY SlotsAssumption
  <1> HIDE DEF x, y, m
  <1>2. (x - y) * Slots = v - t /\ x - y \in Int
    BY <1>1, SlotsAssumption
  <1>3. CASE x - y >= 1
    <2>1. (x - y) * Slots >= Slots
      BY <1>2, <1>3, SlotsAssumption
    <2>2. QED
      BY <2>1, <1>2, SlotsAssumption
  <1>4. CASE x - y <= -1
    <2>1. (x - y) * Slots <= -Slots
      BY <1>2, <1>4, SlotsAssumption
    <2>2. QED
      BY <2>1, <1>2, SlotsAssumption
  <1>5. CASE x - y = 0
    BY <1>1, <1>2, <1>5, SlotsAssumption
  <1>6. QED
    BY <1>2, <1>3, <1>4, <1>5

\* A tick is in the bucket of its remainder, wherever the revolution starts.
LEMMA Remainder ==
    ASSUME NEW a \in Int, NEW d \in 0 .. Slots - 1
    PROVE  (a * Slots + d) % Slots = d
  <1> DEFINE n == a * Slots + d
             x == n \div Slots
             m == n % Slots
  <1>1. n \in Int /\ x \in Int /\ m \in 0 .. Slots - 1 /\ n = x * Slots + m
    BY SlotsAssumption
  <1>2. d \in Int /\ 0 <= d /\ d < Slots
    BY SlotsAssumption
  <1>3. (x - a) * Slots = d - m /\ x - a \in Int
    BY <1>1, <1>2, SlotsAssumption
  <1> HIDE DEF n, x, m
  <1>4. CASE x - a >= 1
    <2>1. (x - a) * Slots >= Slots
      BY <1>3, <1>4, SlotsAssumption
    <2>2. QED
      BY <2>1, <1>1, <1>2, <1>3, SlotsAssumption
  <1>5. CASE x - a <= -1
    <2>1. (x - a) * Slots <= -Slots
      BY <1>3, <1>5, SlotsAssumption
    <2>2. QED
      BY <2>1, <1>1, <1>2, <1>3, SlotsAssumption
  <1>6. CASE x - a = 0
    BY <1>1, <1>2, <1>3, <1>6, SlotsAssumption DEF m, n
  <1>7. QED
    BY <1>3, <1>4, <1>5, <1>6

\* The bucket and rounds of Schedule: the wheel comes to the timer first at v,
\* and after the rounds at its deadline or one revolution later.
LEMMA ScheduledVisit ==
    ASSUME NEW now \in Nat, NEW secs \in Nat, (secs \div Slots) + 1 < RoundsMod
    PROVE  \E v \in Nat :
              /\ v % Slots = ExpireBucket(now, secs)
              /\ now <= v /\ v < now + Slots
              /\ \/ v + ExpireRounds(now, secs) * Slots = now + secs
                 \/ v + ExpireRounds(now, secs) * Slots = now + secs + Slots
  <1> DEFINE D == now + secs
             a == now \div Slots
             t == now % Slots
             c == D \div Slots
             d == D % Slots
             e == secs \div Slots
             f == secs % Slots
  <1>1. /\ a \in Nat /\ t \in 0 .. Slots - 1 /\ now = a * Slots + t
        /\ c \in Nat /\ d \in 0 .. Slots - 1 /\ D = c * Slots + d
        /\ e \in Nat /\ f \in 0 .. Slots - 1 /\ secs = e * Slots + f
    BY SlotsAssumption
  <1>2. (c - a - e) * Slots = t + f - d /\ (c - a) * Slots = c * Slots - a * Slots
    BY <1>1, SlotsAssumption
  <1>3. ExpireBucket(now, secs) = d /\ ExpireRounds(now, secs) = (c - a) % RoundsMod
    BY DEF ExpireBucket, ExpireRounds
  <1>4. e + 1 < RoundsMod /\ RoundsMod \in Nat \ {0} /\ D \in Nat /\ now + secs = D
    BY NumberAssumption
  <1> HIDE DEF D, a, t, c, d, e, f
  <1>5. c - a - e \in {0, 1}
    <2>1. CASE c - a - e >= 2
      <3>1. (c - a - e) * Slots >= 2 * Slots
        BY <1>1, <2>1, SlotsAssumption
      <3>2. QED
        BY <3>1, <1>1, <1>2, SlotsAssumption
    <2>2. CASE c - a - e <= -1
      <3>1. (c - a - e) * Slots <= -Slots
        BY <1>1, <2>2, SlotsAssumption
      <3>2. QED
        BY <3>1, <1>1, <1>2, SlotsAssumption
    <2>3. QED
      BY <1>1, <2>1, <2>2
  <1>6. c - a \in Nat /\ c - a < RoundsMod
    BY <1>1, <1>4, <1>5
  <1>7. (c - a) % RoundsMod = c - a
    BY <1>4, <1>6
  <1>8. CASE d >= t
    <2> DEFINE v == a * Slots + d
    <2>1. v \in Nat /\ now <= v /\ v < now + Slots
      BY <1>1, <1>8, SlotsAssumption
    <2>2. v % Slots = d
      BY <1>1, Remainder
    <2>3. v + (c - a) * Slots = D
      BY <1>1, <1>2, SlotsAssumption
    <2>4. QED
      BY <1>3, <1>4, <1>7, <2>1, <2>2, <2>3
  <1>9. CASE d < t
    <2> DEFINE v == (a + 1) * Slots + d
    <2>1. v = a * Slots + Slots + d
      BY <1>1, SlotsAssumption
    <2>2. v \in Nat /\ now <= v /\ v < now + Slots
      BY <1>1, <1>9, <2>1, SlotsAssumption
    <2>3. v % Slots = d
      BY <1>1, Remainder
    <2>4. v + (c - a) * Slots = D + Slots
      BY <1>1, <1>2, <2>1, SlotsAssumption
    <2>5. QED
      BY <1>3, <1>4, <1>7, <2>2, <2>3, <2>4
  <1>10. QED
    BY <1>1, <1>8, <1>9, SlotsAssumption

-------------------------------------------------------------------------------
\* Nobody ranks between p and its successor, nor after the last of a list.
LEMMA NextRank ==
    ASSUME NEW w, GoodWheel(w), NEW k, RankOK(w, k), NEW p \in Pos, Linked(w, p),
           NEW q \in Pos, q # p, w.bucket[q] = w.bucket[p]
    PROVE  (w.next[p] = NIL \/ k[q] < k[w.next[p]]) <=> k[q] < k[p]
  <1>1. /\ k \in [Pos -> Nat] /\ w.next \in [Pos -> Link] /\ w.prev \in [Pos -> Link]
        /\ NIL \notin Pos
    BY NilAssumption DEF RankOK, GoodWheel, WheelType
  <1>2. k[q] # k[p]
    BY DEF RankOK, Linked
  <1>3. CASE w.next[p] # NIL
    <2>1. w.next[p] \in Pos /\ k[w.next[p]] = k[p] + 1
      BY <1>1, <1>3 DEF GoodWheel, WellLinked, NextOK, RankOK, Link
    <2>2. QED
      BY <1>1, <1>2, <1>3, <2>1
  <1>4. CASE w.next[p] = NIL
    <2>1. ASSUME k[q] > k[p] PROVE FALSE
      <3> DEFINE B == {r \in Pos : w.bucket[r] = w.bucket[p] /\ k[r] > k[p]}
                 T == {k[r] : r \in B}
      <3>1. T \subseteq Nat /\ T # {}
        BY <1>1, <2>1
      <3>2. PICK n \in T : \A m \in T : n <= m
        BY <3>1, LeastNatural
      <3>3. PICK r \in B : k[r] = n
        BY <3>2
      <3>4. w.prev[r] # NIL
        BY <1>1, <3>3 DEF RankOK, Linked
      <3>5. /\ w.prev[r] \in Pos /\ w.bucket[w.prev[r]] = w.bucket[p] /\ k[r] = k[w.prev[r]] + 1
            /\ w.next[w.prev[r]] = r
        BY <1>1, <3>3, <3>4 DEF GoodWheel, WellLinked, PrevOK, RankOK, Link
      <3>6. w.prev[r] # p
        BY <1>1, <1>4, <3>3, <3>5
      <3>7. k[w.prev[r]] # k[p]
        BY <3>5, <3>6 DEF RankOK, Linked
      <3>8. k[w.prev[r]] \in T
        BY <1>1, <3>3, <3>5, <3>7
      <3>9. n <= k[w.prev[r]]
        BY <3>2, <3>8
      <3>10. QED
        BY <1>1, <3>3, <3>5, <3>9
    <2>2. QED
      BY <1>1, <1>2, <1>4, <2>1
  <1>5. QED
    BY <1>3, <1>4

\* Taking p out keeps the order of the others.
LEMMA OutKeepsOrder ==
    ASSUME NEW w, GoodWheel(w), NEW k, RankOK(w, k), NEW p \in Pos, Linked(w, p),
           NEW q \in Pos \ {p}, NEW r \in Pos \ {p},
           w.bucket[q] = w.bucket[p], w.bucket[r] = w.bucket[p]
    PROVE  RankOut(w, k, p)[q] < RankOut(w, k, p)[r] <=> k[q] < k[r]
  <1>1. k \in [Pos -> Nat] /\ k[q] # k[p] /\ k[r] # k[p]
    BY DEF RankOK, Linked
  <1>2. QED
    BY <1>1 DEF RankOut

\* A bucket with no head is empty.
LEMMA HeadlessEmpty ==
    ASSUME Inv, Ranked(wheel), NEW p \in Pos, Linked(wheel, p)
    PROVE  wheel.heads[wheel.bucket[p]] # NIL
  <1>1. Follows({}, wheel.bucket[p]) <=> wheel.heads[wheel.bucket[p]] = NIL
    BY DEF Follows
  <1>2. p \in Chain(wheel.bucket[p])
    BY ChainIsBucket DEF Linked
  <1>3. QED
    BY <1>1, <1>2 DEF Chain

-------------------------------------------------------------------------------
\* The clock and the wheel: Tick brings nowTick up to the clock, and the next
\* Tick is one period away.
ClockInv ==
    /\ nowTick <= clock /\ clock <= nextTick
    /\ pc = "idle" => nextTick <= nowTick + Cooldown
    /\ pc # "idle" => nextTick = clock + Cooldown
    /\ pc \in {"walking", "callback"} => nowTick < clock
    /\ \A p \in Pos : asked[p].at <= asked[p].tick + Cooldown

\* Where Tick goes on in the list, and who it is done with there.
Cursor == IF pc = "callback" THEN saved ELSE curr
Walking == pc \in {"walking", "callback"}
InCall(p) == pc = "callback" /\ p = curr
Behind(k, p) ==
    /\ Walking
    /\ wheel.bucket[p] = nowTick % Slots
    /\ Cursor = NIL \/ k[p] < k[Cursor]

\* Tick walks the bucket of nowTick; the successor it saved is still next.
WalkInv ==
    /\ Walking /\ Cursor # NIL => wheel.bucket[Cursor] = nowTick % Slots
    /\ pc = "callback" =>
          /\ saved # curr
          /\ Linked(wheel, curr) => wheel.bucket[curr] = nowTick % Slots /\ wheel.next[curr] = saved
          /\ Armed(curr) => nowTick <= Deadline(curr) + Slots

\* The wheel comes to p at v, and fires it there when no rounds are left.
VisitAt(p, behind, v) ==
    /\ v % Slots = wheel.bucket[p]
    /\ behind => v = nowTick + Slots
    /\ ~behind => nowTick <= v /\ v < nowTick + Slots
    /\ \/ v + wheel.rounds[p] * Slots = Deadline(p)
       \/ v + wheel.rounds[p] * Slots = Deadline(p) + Slots
Timely(p, behind) == \E v \in Nat : VisitAt(p, behind, v)

Due(k) ==
    \A p \in Pos : Linked(wheel, p) /\ ~InCall(p) =>
        /\ Armed(p) /\ wheel.extra[p] = Tag[p]
        /\ Timely(p, Behind(k, p))

Ordered == \E k : RankOK(wheel, k) /\ Due(k)

TimeInv == ClockInv /\ WalkInv /\ Ordered

LEMMA TimeInit == Untroubled /\ Init => TimeInv
  <1> SUFFICES ASSUME Untroubled, Init PROVE TimeInv
    OBVIOUS
  <1>1. ClockInv
    BY NumberAssumption DEF Init, ClockInv, Never, Untroubled
  <1>2. WalkInv
    BY DEF Init, WalkInv, Walking
  <1>3. \A p \in Pos : ~Linked(wheel, p)
    BY SlotsAssumption DEF Init, EmptyWheel, Linked, Unlinked, Buckets
  <1>4. Ranked(wheel)
    BY LostInit
  <1>5. QED
    BY <1>1, <1>2, <1>3, <1>4 DEF TimeInv, Ordered, Ranked, Due

LEMMA ClockNext ==
    ASSUME Untroubled, Inv, ClockInv, [Next]_vars
    PROVE  ClockInv'
  <1>0. /\ nowTick \in Nat /\ clock \in Nat /\ nextTick \in Nat /\ Cooldown \in Nat
        /\ asked \in [Pos -> [at : Nat, tick : Nat, secs : Nat]] /\ ~Reentrant
    BY NumberAssumption DEF Inv, TypeOK, Untroubled
  <1>1. ASSUME NEW p \in Pos, NEW secs \in Timeouts, HandlerSchedules(p, secs) PROVE ClockInv'
    BY <1>0, <1>1 DEF ClockInv, HandlerSchedules, RefreshExpiry
  <1>2. ASSUME NEW p \in Pos, HandlerCancels(p) PROVE ClockInv'
    BY <1>0, <1>2 DEF ClockInv, HandlerCancels, CancelTimer, Never
  <1>3. CASE ClockAdvances \/ HandleTimeoutTimer \/ NextBucket \/ TickDone \/ BucketDone \/ SkipRound
    BY <1>0, <1>3 DEF ClockInv, ClockAdvances, HandleTimeoutTimer, NextBucket, TickDone, BucketDone,
                      SkipRound
  <1>4. CASE Expire
    BY <1>0, <1>4 DEF ClockInv, Expire, CancelTimer, Never
  <1>5. CASE CallbackReturns
    BY <1>0, <1>5 DEF ClockInv, CallbackReturns, Never
  <1>6. ASSUME NEW p \in Pos, CallbackTouches(p) PROVE ClockInv'
    BY <1>0, <1>6 DEF CallbackTouches
  <1>7. CASE UNCHANGED vars
    BY <1>7 DEF vars, ClockInv
  <1>8. QED
    BY <1>1, <1>2, <1>3, <1>4, <1>5, <1>6, <1>7 DEF Next, TickStep

-------------------------------------------------------------------------------
\* What Schedule, Cancel and Unlink leave of the metadata.
LEMMA ScheduleFields ==
    ASSUME NEW w, GoodWheel(w), NEW p \in Pos, NEW now \in Nat, NEW ticks \in Nat
    PROVE  LET u == Schedule(w, now, p, ticks)
           IN  /\ u.bucket[p] = ExpireBucket(now, ticks)
               /\ u.rounds[p] = ExpireRounds(now, ticks)
               /\ u.extra[p] = Tag[p]
               /\ \A q \in Pos \ {p} : /\ u.bucket[q] = w.bucket[q]
                                       /\ u.rounds[q] = w.rounds[q]
                                       /\ u.extra[q] = w.extra[q]
  <1>1. Unlink(w, p) \in WheelType
    BY UnlinkType DEF GoodWheel
  <1>2. \A q \in Pos \ {p} : /\ Unlink(w, p).bucket[q] = w.bucket[q]
                             /\ Unlink(w, p).rounds[q] = w.rounds[q]
                             /\ Unlink(w, p).extra[q] = w.extra[q]
    BY DEF Unlink, GoodWheel, WheelType
  <1>3. QED
    BY <1>1, <1>2 DEF Schedule, LinkHead, WheelType

LEMMA RemovalFields ==
    ASSUME NEW w, GoodWheel(w), NEW p \in Pos, NEW u, u \in {Unlink(w, p), Cancel(w, p)}
    PROVE  /\ ~Linked(u, p)
           /\ \A q \in Pos \ {p} : /\ u.bucket[q] = w.bucket[q]
                                   /\ u.rounds[q] = w.rounds[q]
                                   /\ u.extra[q] = w.extra[q]
           /\ SameLists(Unlink(w, p), u)
  <1>1. Unlink(w, p) \in WheelType /\ Unlink(w, p).bucket[p] = Unlinked
    BY UnlinkType DEF GoodWheel
  <1>2. \A q \in Pos \ {p} : /\ Unlink(w, p).bucket[q] = w.bucket[q]
                             /\ Unlink(w, p).rounds[q] = w.rounds[q]
                             /\ Unlink(w, p).extra[q] = w.extra[q]
    BY DEF Unlink, GoodWheel, WheelType
  <1>3. Unlinked \notin Buckets
    BY SlotsAssumption DEF Unlinked, Buckets
  <1>4. CASE u = Unlink(w, p)
    BY <1>1, <1>2, <1>3, <1>4 DEF Linked, SameLists
  <1>5. CASE u = Cancel(w, p)
    <2>1. /\ SameLists(Unlink(w, p), u)
          /\ u.rounds = [Unlink(w, p).rounds EXCEPT ![p] = 0]
          /\ u.extra = [Unlink(w, p).extra EXCEPT ![p] = 0]
      BY <1>5, CancelLists
    <2>2. QED
      BY <1>1, <1>2, <1>3, <2>1 DEF Linked, SameLists, WheelType
  <1>6. QED
    BY <1>4, <1>5

\* Outside Tick nobody is behind the cursor, and any ranks will do.
LEMMA IdleDue ==
    ASSUME Inv, Ranked(wheel'), pc' \in {"idle", "ticking"},
           \A p \in Pos : Linked(wheel', p) =>
               Armed(p)' /\ wheel'.extra[p] = Tag[p] /\ Timely(p, FALSE)'
    PROVE  (WalkInv /\ Ordered)'
  <1>1. PICK k : RankOK(wheel', k)
    BY DEF Ranked
  <1>2. \A p \in Pos : ~(Behind(k, p)') /\ ~InCall(p)'
    BY DEF Behind, Walking, InCall
  <1>3. ASSUME NEW p \in Pos, Linked(wheel', p)
        PROVE  Timely(p, Behind(k, p))'
    BY <1>2, <1>3 DEF Timely, VisitAt
  <1>4. Ordered'
    BY <1>1, <1>3 DEF Ordered, Due
  <1>5. QED
    BY <1>4 DEF WalkInv, Walking

LEMMA HandlersTime ==
    ASSUME Untroubled, Inv, Ranked(wheel), TimeInv, NEW p \in Pos,
           \/ HandlerCancels(p)
           \/ \E secs \in Timeouts : HandlerSchedules(p, secs)
    PROVE  (WalkInv /\ Ordered)'
  <1>1. /\ pc' = "idle" /\ pc = "idle" /\ nowTick' = nowTick
        /\ CancelTimer(p) \/ \E secs \in Timeouts : RefreshExpiry(p, secs)
    BY DEF HandlerCancels, HandlerSchedules
  <1>2. /\ GoodWheel(wheel) /\ nowTick \in Nat /\ Slots \in Nat \ {0}
        /\ asked \in [Pos -> [at : Nat, tick : Nat, secs : Nat]]
    BY InvGood, SlotsAssumption DEF Inv, TypeOK
  <1>3. Ranked(wheel')
    BY <1>1, CallsKept
  <1>4. PICK k : RankOK(wheel, k) /\ Due(k)
    BY DEF TimeInv, Ordered
  <1>5. ASSUME NEW q \in Pos, Linked(wheel, q)
        PROVE  Armed(q) /\ wheel.extra[q] = Tag[q] /\ Timely(q, FALSE)
    BY <1>1, <1>4, <1>5 DEF Due, InCall, Behind, Walking
  <1>6. ASSUME NEW q \in Pos \ {p}, Linked(wheel', q),
               wheel'.bucket[q] = wheel.bucket[q], wheel'.rounds[q] = wheel.rounds[q],
               wheel'.extra[q] = wheel.extra[q], asked'[q] = asked[q]
        PROVE  Armed(q)' /\ wheel'.extra[q] = Tag[q] /\ Timely(q, FALSE)'
    <2>1. Linked(wheel, q)
      BY <1>6 DEF Linked
    <2>2. Armed(q) /\ wheel.extra[q] = Tag[q] /\ Timely(q, FALSE)
      BY <1>5, <2>1
    <2>3. QED
      BY <1>1, <1>6, <2>2 DEF Armed, Timely, VisitAt, Deadline
  <1>7. CASE CancelTimer(p)
    <2>1. wheel' = Cancel(wheel, p) /\ asked' = [asked EXCEPT ![p] = Never]
      BY <1>7 DEF CancelTimer
    <2>2. ~Linked(wheel', p)
      BY <1>2, <2>1, RemovalFields
    <2>3. \A q \in Pos \ {p} : /\ wheel'.bucket[q] = wheel.bucket[q]
                               /\ wheel'.rounds[q] = wheel.rounds[q]
                               /\ wheel'.extra[q] = wheel.extra[q]
                               /\ asked'[q] = asked[q]
      BY <1>2, <2>1, RemovalFields
    <2>4. QED
      BY <1>1, <1>3, <1>6, <2>2, <2>3, IdleDue
  <1>8. ASSUME NEW secs \in Timeouts, RefreshExpiry(p, secs) PROVE (WalkInv /\ Ordered)'
    <2>1. /\ secs \in Nat /\ secs # 0 /\ secs % TimeoutMod = secs
          /\ (secs \div Slots) + 1 < RoundsMod
      BY NumberAssumption DEF Untroubled
    <2>2. /\ wheel' = Schedule(wheel, nowTick, p, secs)
          /\ asked' = [asked EXCEPT ![p] = [at |-> clock, tick |-> nowTick, secs |-> secs]]
      BY <1>8, <2>1 DEF RefreshExpiry
    <2>3. /\ wheel'.bucket[p] = ExpireBucket(nowTick, secs)
          /\ wheel'.rounds[p] = ExpireRounds(nowTick, secs)
          /\ wheel'.extra[p] = Tag[p]
          /\ \A q \in Pos \ {p} : /\ wheel'.bucket[q] = wheel.bucket[q]
                                  /\ wheel'.rounds[q] = wheel.rounds[q]
                                  /\ wheel'.extra[q] = wheel.extra[q]
      BY <1>2, <2>1, <2>2, ScheduleFields
    <2>4. \A q \in Pos \ {p} : asked'[q] = asked[q]
      BY <2>2
    <2>5. asked'[p].tick = nowTick /\ asked'[p].secs = secs
      BY <1>2, <2>2
    <2>6. Armed(p)'
      BY <2>1, <2>5 DEF Armed, Never
    <2>7. Timely(p, FALSE)'
      <3>1. PICK v \in Nat :
               /\ v % Slots = ExpireBucket(nowTick, secs)
               /\ nowTick <= v /\ v < nowTick + Slots
               /\ \/ v + ExpireRounds(nowTick, secs) * Slots = nowTick + secs
                  \/ v + ExpireRounds(nowTick, secs) * Slots = nowTick + secs + Slots
        BY <1>2, <2>1, ScheduledVisit
      <3>2. VisitAt(p, FALSE, v)'
        BY <1>1, <2>3, <2>5, <3>1 DEF VisitAt, Deadline
      <3>3. QED
        BY <3>2 DEF Timely
    <2>8. QED
      BY <1>1, <1>3, <1>6, <2>3, <2>4, <2>6, <2>7, IdleDue
  <1>9. QED
    BY <1>1, <1>7, <1>8

LEMMA QuietTime ==
    ASSUME Inv, Ranked(wheel), TimeInv, ClockAdvances \/ HandleTimeoutTimer \/ TickDone
    PROVE  (WalkInv /\ Ordered)'
  <1>1. /\ pc \in {"idle", "ticking"} /\ pc' \in {"idle", "ticking"}
        /\ wheel' = wheel /\ asked' = asked /\ nowTick' = nowTick
    BY DEF ClockAdvances, HandleTimeoutTimer, TickDone
  <1>2. PICK k : RankOK(wheel, k) /\ Due(k)
    BY DEF TimeInv, Ordered
  <1>3. ASSUME NEW q \in Pos, Linked(wheel, q)
        PROVE  Armed(q) /\ wheel.extra[q] = Tag[q] /\ Timely(q, FALSE)
    BY <1>1, <1>2, <1>3 DEF Due, InCall, Behind, Walking
  <1>4. ASSUME NEW q \in Pos, Linked(wheel', q)
        PROVE  Armed(q)' /\ wheel'.extra[q] = Tag[q] /\ Timely(q, FALSE)'
    BY <1>1, <1>3, <1>4 DEF Armed, Timely, VisitAt, Deadline
  <1>5. QED
    BY <1>1, <1>4, IdleDue

LEMMA BucketDoneTime ==
    ASSUME Inv, Ranked(wheel), TimeInv, BucketDone
    PROVE  (WalkInv /\ Ordered)'
  <1>1. /\ pc = "walking" /\ pc' = "ticking" /\ curr = NIL
        /\ wheel' = wheel /\ asked' = asked /\ nowTick' = nowTick + 1
    BY DEF BucketDone
  <1>2. PICK k : RankOK(wheel, k) /\ Due(k)
    BY DEF TimeInv, Ordered
  <1>3. nowTick \in Nat /\ Slots \in Nat \ {0}
    BY SlotsAssumption DEF Inv, TypeOK
  <1>4. ASSUME NEW q \in Pos, Linked(wheel', q)
        PROVE  Armed(q)' /\ wheel'.extra[q] = Tag[q] /\ Timely(q, FALSE)'
    <2>1. Armed(q) /\ wheel.extra[q] = Tag[q] /\ Timely(q, Behind(k, q))
      BY <1>1, <1>2, <1>4 DEF Due, InCall
    <2>2. Behind(k, q) <=> wheel.bucket[q] = nowTick % Slots
      BY <1>1 DEF Behind, Walking, Cursor
    <2>3. PICK v \in Nat : VisitAt(q, Behind(k, q), v)
      BY <2>1 DEF Timely
    <2>4. nowTick + 1 <= v /\ v < nowTick + 1 + Slots
      BY <1>3, <2>2, <2>3 DEF VisitAt
    <2>5. VisitAt(q, FALSE, v)'
      BY <1>1, <2>3, <2>4 DEF VisitAt, Deadline
    <2>6. QED
      BY <1>1, <2>1, <2>5 DEF Armed, Timely
  <1>5. QED
    BY <1>1, <1>4, IdleDue

LEMMA NextBucketTime ==
    ASSUME Inv, Ranked(wheel), TimeInv, NextBucket
    PROVE  (WalkInv /\ Ordered)'
  <1> DEFINE b == nowTick % Slots
  <1>1. /\ pc = "ticking" /\ pc' = "walking" /\ curr' = wheel.heads[b]
        /\ wheel' = wheel /\ asked' = asked /\ nowTick' = nowTick
    BY DEF NextBucket
  <1>2. PICK k : RankOK(wheel, k) /\ Due(k)
    BY DEF TimeInv, Ordered
  <1>3. nowTick \in Nat /\ b \in Buckets /\ GoodWheel(wheel) /\ wheel.heads \in [Buckets -> Link]
    BY SlotsAssumption, InvGood DEF Inv, TypeOK, Buckets, GoodWheel, WheelType
  <1>4. WalkInv'
    BY <1>1, <1>3 DEF WalkInv, Walking, Cursor, GoodWheel, WellLinked, HeadsOK
  <1>5. ASSUME NEW q \in Pos, Linked(wheel, q) PROVE ~Behind(k, q) /\ ~(Behind(k, q)')
    <2>1. ~Behind(k, q)
      BY <1>1 DEF Behind, Walking
    <2>2. ASSUME wheel.bucket[q] = b PROVE curr' # NIL /\ ~(k[q] < k[curr'])
      <3>1. curr' # NIL
        BY <1>1, <1>5, <2>2, HeadlessEmpty
      <3>2. curr' \in Pos /\ wheel.prev[curr'] = NIL /\ wheel.bucket[curr'] = b
        BY <1>1, <1>3, <3>1 DEF GoodWheel, WellLinked, HeadsOK, Link
      <3>3. k[curr'] = 0 /\ k[q] \in Nat
        BY <1>2, <1>3, <3>2 DEF RankOK, Linked
      <3>4. QED
        BY <3>1, <3>3
    <2>3. QED
      BY <1>1, <2>1, <2>2 DEF Behind, Cursor
  <1>6. ASSUME NEW q \in Pos, Linked(wheel, q)
        PROVE  Armed(q)' /\ wheel'.extra[q] = Tag[q] /\ Timely(q, Behind(k, q))'
    <2>1. Armed(q) /\ wheel.extra[q] = Tag[q] /\ Timely(q, Behind(k, q))
      BY <1>1, <1>2, <1>6 DEF Due, InCall
    <2>2. PICK v \in Nat : VisitAt(q, Behind(k, q), v)
      BY <2>1 DEF Timely
    <2>3. VisitAt(q, Behind(k, q), v)'
      BY <1>1, <1>5, <1>6, <2>2 DEF VisitAt, Deadline
    <2>4. QED
      BY <1>1, <2>1, <2>3 DEF Armed, Timely
  <1>7. QED
    BY <1>1, <1>2, <1>4, <1>6 DEF Ordered, Due, RankOK, Linked

\* The timer under the cursor is met at the tick being processed.
LEMMA MetNow ==
    ASSUME Inv, TimeInv, pc = "walking", curr # NIL, NEW k, RankOK(wheel, k), Due(k)
    PROVE  /\ curr \in Pos /\ Linked(wheel, curr) /\ wheel.bucket[curr] = nowTick % Slots
           /\ Armed(curr) /\ wheel.extra[curr] = Tag[curr]
           /\ \/ nowTick + wheel.rounds[curr] * Slots = Deadline(curr)
              \/ nowTick + wheel.rounds[curr] * Slots = Deadline(curr) + Slots
  <1>1. nowTick \in Nat /\ Slots \in Nat \ {0} /\ curr \in Pos
    BY SlotsAssumption DEF Inv, TypeOK, Link
  <1>2. wheel.bucket[curr] = nowTick % Slots /\ Linked(wheel, curr)
    BY <1>1 DEF TimeInv, WalkInv, Walking, Cursor, Linked, Buckets
  <1>3. /\ Armed(curr) /\ wheel.extra[curr] = Tag[curr] /\ Timely(curr, Behind(k, curr))
    BY <1>1, <1>2 DEF Due, InCall
  <1>4. ~Behind(k, curr)
    <2>1. k[curr] \in Nat
      BY <1>1 DEF RankOK
    <2>2. QED
      BY <2>1 DEF Behind, Cursor
  <1>5. PICK v \in Nat : VisitAt(curr, Behind(k, curr), v)
    BY <1>3 DEF Timely
  <1>6. v = nowTick
    BY <1>1, <1>2, <1>4, <1>5, SameTick DEF VisitAt
  <1>7. QED
    BY <1>1, <1>2, <1>3, <1>5, <1>6 DEF VisitAt

\* A revolution later the wheel is at the same bucket.
LEMMA Revolution ==
    ASSUME NEW n \in Nat
    PROVE  (n + Slots) % Slots = n % Slots
  <1> DEFINE x == n \div Slots
             m == n % Slots
  <1>1. x \in Int /\ m \in 0 .. Slots - 1 /\ n = x * Slots + m
    BY SlotsAssumption
  <1> HIDE DEF x, m
  <1>2. (x + 1) * Slots = x * Slots + Slots /\ x * Slots \in Int /\ Slots \in Int
    BY <1>1, SlotsAssumption
  <1>3. (x + 1) * Slots + m = n + Slots
    BY <1>1, <1>2
  <1>4. x + 1 \in Int
    BY <1>1
  <1>5. ((x + 1) * Slots + m) % Slots = m
    BY <1>1, <1>4, Remainder
  <1>6. QED
    BY <1>3, <1>5 DEF m

LEMMA SkipRoundTime ==
    ASSUME Inv, Ranked(wheel), TimeInv, SkipRound
    PROVE  (WalkInv /\ Ordered)'
  <1>1. /\ pc = "walking" /\ pc' = "walking" /\ curr # NIL /\ curr' = wheel.next[curr]
        /\ asked' = asked /\ nowTick' = nowTick /\ wheel.rounds[curr] # 0
        /\ wheel' = [wheel EXCEPT !.rounds[curr] = @ - 1]
    BY DEF SkipRound
  <1>2. PICK k : RankOK(wheel, k) /\ Due(k)
    BY DEF TimeInv, Ordered
  <1>3. /\ GoodWheel(wheel) /\ nowTick \in Nat /\ Slots \in Nat \ {0} /\ curr \in Pos
        /\ wheel.rounds \in [Pos -> Nat] /\ wheel.next \in [Pos -> Link]
        /\ asked \in [Pos -> [at : Nat, tick : Nat, secs : Nat]]
    BY <1>1, InvGood, SlotsAssumption DEF Inv, TypeOK, Link, GoodWheel, WheelType
  <1>4. /\ wheel'.bucket = wheel.bucket /\ wheel'.extra = wheel.extra /\ wheel'.prev = wheel.prev
        /\ wheel'.rounds = [wheel.rounds EXCEPT ![curr] = @ - 1]
    BY <1>1 DEF Inv, TypeOK, WheelType
  <1>5. /\ Linked(wheel, curr) /\ wheel.bucket[curr] = nowTick % Slots
        /\ Armed(curr) /\ wheel.extra[curr] = Tag[curr]
        /\ \/ nowTick + wheel.rounds[curr] * Slots = Deadline(curr)
           \/ nowTick + wheel.rounds[curr] * Slots = Deadline(curr) + Slots
    BY <1>1, <1>2, MetNow
  <1>6. WalkInv'
    BY <1>1, <1>3, <1>4, <1>5 DEF WalkInv, Walking, Cursor, GoodWheel, WellLinked, NextOK
  <1>7. RankOK(wheel', k)
    BY <1>2, <1>4, SameRanks DEF SameLists
  <1>0. PICK c \in Pos : c = curr
    BY <1>3
  <1>8. Armed(c)' /\ wheel'.extra[c] = Tag[c] /\ Timely(c, Behind(k, c))'
    <2>1. Behind(k, c)'
      <3>1. ASSUME curr' # NIL PROVE k[c] < k[curr']
        <4>1. curr' \in Pos /\ wheel.prev[curr'] = c
          BY <1>0, <1>1, <1>3, <3>1 DEF GoodWheel, WellLinked, NextOK, Link
        <4>2. k[curr'] = k[c] + 1 /\ k[c] \in Nat
          BY <1>0, <1>2, <1>3, <4>1, NilAssumption DEF RankOK
        <4>3. QED
          BY <4>2
      <3>2. QED
        BY <1>0, <1>1, <1>4, <1>5, <3>1 DEF Behind, Walking, Cursor
    <2>2. /\ (nowTick + Slots) % Slots = wheel'.bucket[c] /\ nowTick + Slots \in Nat
      <3>1. (nowTick + Slots) % Slots = nowTick % Slots
        BY <1>3, Revolution
      <3>2. QED
        BY <1>0, <1>3, <1>4, <1>5, <3>1
    <2>3. wheel'.rounds[c] = wheel.rounds[c] - 1 /\ wheel.rounds[c] \in Nat
      BY <1>0, <1>3, <1>4
    <2>4. (wheel.rounds[c] - 1) * Slots = wheel.rounds[c] * Slots - Slots
      BY <1>0, <1>3, <2>3
    <2>5. Deadline(c)' = Deadline(c) /\ Deadline(c) \in Nat
      BY <1>0, <1>1, <1>3 DEF Deadline
    <2>6. wheel.rounds[c] * Slots \in Nat
      BY <1>0, <1>3, <2>3
    <2>7. \/ (nowTick + Slots) + wheel'.rounds[c] * Slots = Deadline(c)'
          \/ (nowTick + Slots) + wheel'.rounds[c] * Slots = Deadline(c)' + Slots
      <3>1. \/ nowTick + wheel.rounds[c] * Slots = Deadline(c)
            \/ nowTick + wheel.rounds[c] * Slots = Deadline(c) + Slots
        BY <1>0, <1>5 DEF Deadline
      <3>2. wheel'.rounds[c] * Slots = wheel.rounds[c] * Slots - Slots
        BY <2>3, <2>4
      <3>3. QED
        BY <1>3, <2>5, <2>6, <3>1, <3>2
    <2>8. VisitAt(c, Behind(k, c), nowTick + Slots)'
      BY <1>0, <1>1, <2>1, <2>2, <2>7 DEF VisitAt
    <2>9. QED
      BY <1>0, <1>1, <1>4, <1>5, <2>2, <2>8 DEF Armed, Timely
  <1>9. ASSUME NEW q \in Pos \ {c}, Linked(wheel, q)
        PROVE  Armed(q)' /\ wheel'.extra[q] = Tag[q] /\ Timely(q, Behind(k, q))'
    <2>1. Armed(q) /\ wheel.extra[q] = Tag[q] /\ Timely(q, Behind(k, q))
      BY <1>0, <1>1, <1>2, <1>9 DEF Due, InCall
    <2>2. Behind(k, q) <=> Behind(k, q)'
      BY <1>0, <1>1, <1>2, <1>3, <1>4, <1>5, <1>9, NextRank DEF Behind, Walking, Cursor
    <2>3. PICK v \in Nat : VisitAt(q, Behind(k, q), v)
      BY <2>1 DEF Timely
    <2>4. wheel'.rounds[q] = wheel.rounds[q]
      BY <1>0, <1>3, <1>4, <1>9
    <2>5. VisitAt(q, Behind(k, q), v)'
      BY <1>0, <1>1, <1>4, <2>2, <2>3, <2>4 DEF VisitAt, Deadline
    <2>6. QED
      BY <1>0, <1>1, <1>4, <2>1, <2>5 DEF Armed, Timely
  <1>10. QED
    BY <1>0, <1>4, <1>6, <1>7, <1>8, <1>9 DEF Ordered, Due, Linked

\* Taking p, which the cursor has just passed, out of the list being walked.
LEMMA RemovalDue ==
    ASSUME Inv, NEW k, RankOK(wheel, k), NEW p \in Pos, Linked(wheel, p),
           wheel.bucket[p] = nowTick % Slots, wheel' \in {Unlink(wheel, p), Cancel(wheel, p)},
           Cursor' = wheel.next[p], Walking', nowTick' = nowTick,
           \A q \in Pos \ {p} : asked'[q] = asked[q],
           \A q \in Pos \ {p} : Linked(wheel, q) =>
               /\ Armed(q) /\ wheel.extra[q] = Tag[q]
               /\ Timely(q, wheel.bucket[q] = nowTick % Slots /\ k[q] < k[p])
    PROVE  Ordered'
  <1>0. PICK j : j = RankOut(wheel, k, p)
    OBVIOUS
  <1>1. GoodWheel(wheel) /\ wheel.next \in [Pos -> Link] /\ k \in [Pos -> Nat]
    BY InvGood DEF GoodWheel, WheelType, RankOK
  <1>2. /\ ~Linked(wheel', p)
        /\ \A q \in Pos \ {p} : /\ wheel'.bucket[q] = wheel.bucket[q]
                                /\ wheel'.rounds[q] = wheel.rounds[q]
                                /\ wheel'.extra[q] = wheel.extra[q]
        /\ SameLists(Unlink(wheel, p), wheel')
    BY <1>1, RemovalFields
  <1>3. RankOK(wheel', j)
    BY <1>0, <1>1, <1>2, UnlinkRank, SameRanks
  <1>4. ASSUME NEW q \in Pos \ {p}, Linked(wheel, q)
        PROVE  Armed(q)' /\ wheel'.extra[q] = Tag[q] /\ Timely(q, Behind(j, q))'
    <2> DEFINE behind == wheel.bucket[q] = nowTick % Slots /\ k[q] < k[p]
    <2>1. Armed(q) /\ wheel.extra[q] = Tag[q] /\ Timely(q, behind)
      BY <1>4
    <2>2. ASSUME wheel.bucket[q] = wheel.bucket[p]
          PROVE  (Cursor' = NIL \/ j[q] < j[Cursor']) <=> k[q] < k[p]
      <3>1. (wheel.next[p] = NIL \/ k[q] < k[wheel.next[p]]) <=> k[q] < k[p]
        BY <1>1, <2>2, NextRank
      <3>2. ASSUME wheel.next[p] # NIL
            PROVE  j[q] < j[wheel.next[p]] <=> k[q] < k[wheel.next[p]]
        <4>1. /\ wheel.next[p] \in Pos /\ wheel.bucket[wheel.next[p]] = wheel.bucket[p]
              /\ wheel.prev[wheel.next[p]] = p
          BY <1>1, <3>2 DEF GoodWheel, WellLinked, NextOK, Link
        <4>2. k[wheel.next[p]] = k[p] + 1
          BY <4>1, NilAssumption DEF RankOK
        <4>3. wheel.next[p] # p
          BY <1>1, <4>2
        <4>4. QED
          BY <1>0, <1>1, <2>2, <4>1, <4>3, OutKeepsOrder
      <3>3. QED
        BY <3>1, <3>2
    <2>3. behind <=> Behind(j, q)'
      BY <1>2, <2>2 DEF Behind
    <2>4. PICK v \in Nat : VisitAt(q, behind, v)
      BY <2>1 DEF Timely
    <2>5. VisitAt(q, Behind(j, q), v)'
      BY <1>2, <2>3, <2>4 DEF VisitAt, Deadline
    <2>6. QED
      BY <1>2, <2>1, <2>5 DEF Armed, Timely
  <1>5. \A q \in Pos \ {p} : Linked(wheel', q) <=> Linked(wheel, q)
    BY <1>2 DEF Linked
  <1>6. QED
    BY <1>2, <1>3, <1>4, <1>5 DEF Ordered, Due

LEMMA ExpireTime ==
    ASSUME Inv, Ranked(wheel), TimeInv, Expire
    PROVE  (WalkInv /\ Ordered)'
  <1>1. /\ pc = "walking" /\ pc' = "callback" /\ curr # NIL /\ curr' = curr
        /\ saved' = wheel.next[curr] /\ nowTick' = nowTick /\ wheel.rounds[curr] = 0
    BY DEF Expire
  <1>2. PICK k : RankOK(wheel, k) /\ Due(k)
    BY DEF TimeInv, Ordered
  <1>3. /\ GoodWheel(wheel) /\ nowTick \in Nat /\ Slots \in Nat \ {0}
        /\ wheel.next \in [Pos -> Link] /\ k \in [Pos -> Nat]
        /\ asked \in [Pos -> [at : Nat, tick : Nat, secs : Nat]]
    BY <1>2, InvGood, SlotsAssumption DEF Inv, TypeOK, GoodWheel, WheelType, RankOK
  <1>4. PICK c \in Pos : c = curr
    BY <1>1, <1>2, MetNow
  <1>5. /\ Linked(wheel, c) /\ wheel.bucket[c] = nowTick % Slots
        /\ nowTick = Deadline(c) \/ nowTick = Deadline(c) + Slots
    <2>1. wheel.rounds[curr] * Slots = 0
      BY <1>1, <1>3
    <2>2. QED
      BY <1>1, <1>2, <1>3, <1>4, <2>1, MetNow DEF Deadline
  <1>6. Cursor = c /\ Cursor' = saved' /\ Walking /\ Walking'
    BY <1>1, <1>4 DEF Cursor, Walking
  <1>7. ASSUME saved' # NIL
        PROVE  saved' \in Pos \ {c} /\ wheel.bucket[saved'] = nowTick % Slots
    <2>1. saved' \in Pos /\ wheel.prev[saved'] = c /\ wheel.bucket[saved'] = wheel.bucket[c]
      BY <1>1, <1>3, <1>4, <1>7 DEF GoodWheel, WellLinked, NextOK, Link
    <2>2. k[saved'] = k[c] + 1
      BY <1>2, <2>1, NilAssumption DEF RankOK
    <2>3. QED
      BY <1>3, <1>5, <2>1, <2>2
  <1>8. saved' # c
    BY <1>4, <1>7, NilAssumption
  <1>9. ASSUME NEW q \in Pos \ {c}, Linked(wheel, q)
        PROVE  /\ Armed(q) /\ wheel.extra[q] = Tag[q]
               /\ Timely(q, wheel.bucket[q] = nowTick % Slots /\ k[q] < k[c])
    <2>1. Behind(k, q) <=> wheel.bucket[q] = nowTick % Slots /\ k[q] < k[c]
      BY <1>1, <1>4, <1>6 DEF Behind
    <2>2. Armed(q) /\ wheel.extra[q] = Tag[q] /\ Timely(q, Behind(k, q))
      BY <1>1, <1>2, <1>9 DEF Due, InCall
    <2>3. QED
      BY <2>1, <2>2 DEF Timely, VisitAt
  <1>10. CASE CancelTimer(curr)
    <2>1. wheel' = Cancel(wheel, c) /\ asked' = [asked EXCEPT ![c] = Never]
      BY <1>4, <1>10 DEF CancelTimer
    <2>2. \A q \in Pos \ {c} : asked'[q] = asked[q]
      BY <2>1
    <2>3. asked'[c] = Never
      BY <1>3, <2>1
    <2>4. /\ ~Linked(wheel', c)
          /\ \A q \in Pos \ {c} : wheel'.bucket[q] = wheel.bucket[q]
      BY <1>3, <2>1, RemovalFields
    <2>5. Cursor' = wheel.next[c]
      BY <1>1, <1>4, <1>6
    <2>6. Ordered'
      BY <1>1, <1>2, <1>5, <1>6, <1>9, <2>1, <2>2, <2>5, RemovalDue
    <2>7. WalkInv'
      <3>1. (Cursor # NIL => wheel.bucket[Cursor] = nowTick % Slots)'
        BY <1>1, <1>6, <1>7, <2>4
      <3>2. ~(Armed(curr)') /\ ~Linked(wheel', curr') /\ saved' # curr'
        BY <1>1, <1>4, <1>8, <2>3, <2>4 DEF Armed
      <3>3. QED
        BY <3>1, <3>2 DEF WalkInv
    <2>8. QED
      BY <2>6, <2>7
  <1>11. CASE UNCHANGED <<wheel, asked>>
    <2>1. wheel' = wheel /\ asked' = asked
      BY <1>11
    <2>2. WalkInv'
      <3>1. (Cursor # NIL => wheel.bucket[Cursor] = nowTick % Slots)'
        BY <1>1, <1>6, <1>7, <2>1
      <3>2. (nowTick <= Deadline(curr) + Slots)'
        <4>1. nowTick <= Deadline(c) + Slots
          BY <1>3, <1>5 DEF Deadline
        <4>2. QED
          BY <1>1, <1>4, <2>1, <4>1 DEF Deadline
      <3>3. (/\ saved # curr /\ wheel.bucket[curr] = nowTick % Slots /\ wheel.next[curr] = saved)'
        BY <1>1, <1>4, <1>5, <1>8, <2>1
      <3>4. QED
        BY <3>1, <3>2, <3>3 DEF WalkInv
    <2>3. ASSUME NEW q \in Pos, Linked(wheel', q), ~(InCall(q)')
          PROVE  Armed(q)' /\ wheel'.extra[q] = Tag[q] /\ Timely(q, Behind(k, q))'
      <3> DEFINE behind == wheel.bucket[q] = nowTick % Slots /\ k[q] < k[c]
      <3>1. q # c /\ Linked(wheel, q)
        BY <1>1, <1>4, <2>1, <2>3 DEF InCall
      <3>2. Armed(q) /\ wheel.extra[q] = Tag[q] /\ Timely(q, behind)
        BY <1>9, <3>1
      <3>3. behind <=> Behind(k, q)'
        BY <1>1, <1>2, <1>3, <1>4, <1>5, <1>6, <2>1, <3>1, NextRank DEF Behind
      <3>4. PICK v \in Nat : VisitAt(q, behind, v)
        BY <3>2 DEF Timely
      <3>5. VisitAt(q, Behind(k, q), v)'
        BY <1>1, <2>1, <3>3, <3>4 DEF VisitAt, Deadline
      <3>6. QED
        BY <2>1, <3>2, <3>5 DEF Armed, Timely
    <2>4. RankOK(wheel', k)
      BY <1>2, <2>1
    <2>5. QED
      BY <2>2, <2>3, <2>4 DEF Ordered, Due
  <1>12. QED
    BY <1>10, <1>11 DEF Expire

LEMMA CallbackReturnsTime ==
    ASSUME Inv, Ranked(wheel), TimeInv, CallbackReturns
    PROVE  (WalkInv /\ Ordered)'
  <1>1. /\ pc = "callback" /\ pc' = "walking" /\ curr' = saved /\ nowTick' = nowTick
        /\ wheel' = Unlink(wheel, curr) /\ asked' = [asked EXCEPT ![curr] = Never]
    BY DEF CallbackReturns
  <1>2. PICK k : RankOK(wheel, k) /\ Due(k)
    BY DEF TimeInv, Ordered
  <1>3. /\ GoodWheel(wheel) /\ wheel.next \in [Pos -> Link] /\ k \in [Pos -> Nat]
        /\ asked \in [Pos -> [at : Nat, tick : Nat, secs : Nat]]
    BY <1>2, InvGood DEF Inv, TypeOK, GoodWheel, WheelType, RankOK
  <1>4. PICK c \in Pos : c = curr
    BY <1>1 DEF Inv, TypeOK
  <1>5. /\ saved # c
        /\ saved # NIL => wheel.bucket[saved] = nowTick % Slots
        /\ Linked(wheel, c) => wheel.bucket[c] = nowTick % Slots /\ wheel.next[c] = saved
    BY <1>1, <1>4 DEF TimeInv, WalkInv, Walking, Cursor
  <1>6. Cursor = saved /\ Cursor' = saved /\ Walking /\ Walking' /\ saved \in Link
    BY <1>1 DEF Cursor, Walking, Inv, TypeOK
  <1>7. /\ ~Linked(wheel', c)
        /\ \A q \in Pos \ {c} : /\ wheel'.bucket[q] = wheel.bucket[q]
                                /\ asked'[q] = asked[q]
    BY <1>1, <1>3, <1>4, RemovalFields
  <1>8. WalkInv'
    BY <1>1, <1>5, <1>6, <1>7 DEF WalkInv, Link
  <1>9. ASSUME NEW q \in Pos \ {c}, Linked(wheel, q)
        PROVE  Armed(q) /\ wheel.extra[q] = Tag[q] /\ Timely(q, Behind(k, q))
    BY <1>1, <1>2, <1>4, <1>9 DEF Due, InCall
  <1>10. CASE Linked(wheel, c)
    <2>1. ASSUME NEW q \in Pos \ {c}, Linked(wheel, q)
          PROVE  /\ Armed(q) /\ wheel.extra[q] = Tag[q]
                 /\ Timely(q, wheel.bucket[q] = nowTick % Slots /\ k[q] < k[c])
      <3>1. Behind(k, q) <=> wheel.bucket[q] = nowTick % Slots /\ k[q] < k[c]
        BY <1>2, <1>3, <1>5, <1>6, <1>10, <2>1, NextRank DEF Behind
      <3>2. QED
        BY <1>9, <2>1, <3>1 DEF Timely, VisitAt
    <2>2. Cursor' = wheel.next[c] /\ wheel.bucket[c] = nowTick % Slots
      BY <1>5, <1>6, <1>10
    <2>3. wheel' \in {Unlink(wheel, c), Cancel(wheel, c)}
      BY <1>1, <1>4
    <2>4. Ordered'
      BY <1>1, <1>2, <1>6, <1>7, <1>10, <2>1, <2>2, <2>3, RemovalDue
    <2>5. QED
      BY <1>8, <2>4
  <1>11. CASE ~Linked(wheel, c)
    <2>1. wheel' = wheel
      BY <1>1, <1>4, <1>11 DEF Unlink
    <2>2. ASSUME NEW q \in Pos, Linked(wheel', q)
          PROVE  Armed(q)' /\ wheel'.extra[q] = Tag[q] /\ Timely(q, Behind(k, q))'
      <3>1. q # c /\ Linked(wheel, q) /\ asked'[q] = asked[q]
        BY <1>7, <2>1, <2>2
      <3>2. Armed(q) /\ wheel.extra[q] = Tag[q] /\ Timely(q, Behind(k, q))
        BY <1>9, <3>1
      <3>3. Behind(k, q) <=> Behind(k, q)'
        BY <1>1, <1>6, <2>1 DEF Behind
      <3>4. PICK v \in Nat : VisitAt(q, Behind(k, q), v)
        BY <3>2 DEF Timely
      <3>5. VisitAt(q, Behind(k, q), v)'
        BY <1>1, <2>1, <3>1, <3>3, <3>4 DEF VisitAt, Deadline
      <3>6. QED
        BY <2>1, <3>1, <3>2, <3>5 DEF Armed, Timely
    <2>3. RankOK(wheel', k)
      BY <1>2, <2>1
    <2>4. QED
      BY <1>8, <2>2, <2>3 DEF Ordered, Due
  <1>12. QED
    BY <1>10, <1>11

LEMMA TimeNext ==
    ASSUME Untroubled, Inv, Ranked(wheel), TimeInv, [Next]_vars
    PROVE  TimeInv'
  <1> SUFFICES (WalkInv /\ Ordered)'
    BY ClockNext DEF TimeInv
  <1>1. ASSUME NEW p \in Pos, NEW secs \in Timeouts, HandlerSchedules(p, secs)
        PROVE  (WalkInv /\ Ordered)'
    BY <1>1, HandlersTime
  <1>2. ASSUME NEW p \in Pos, HandlerCancels(p) PROVE (WalkInv /\ Ordered)'
    BY <1>2, HandlersTime
  <1>3. CASE ClockAdvances \/ HandleTimeoutTimer \/ TickDone
    BY <1>3, QuietTime
  <1>4. CASE NextBucket
    BY <1>4, NextBucketTime
  <1>5. CASE SkipRound
    BY <1>5, SkipRoundTime
  <1>6. CASE Expire
    BY <1>6, ExpireTime
  <1>7. CASE CallbackReturns
    BY <1>7, CallbackReturnsTime
  <1>8. CASE BucketDone
    BY <1>8, BucketDoneTime
  <1>9. ASSUME NEW p \in Pos, CallbackTouches(p) PROVE FALSE
    BY <1>9 DEF CallbackTouches, Untroubled
  <1>10. CASE UNCHANGED vars
    <2>1. PICK k : RankOK(wheel, k) /\ Due(k)
      BY DEF TimeInv, Ordered
    <2>2. WalkInv'
      BY <1>10 DEF TimeInv, WalkInv, vars, Walking, Cursor, Armed, Deadline
    <2>3. RankOK(wheel', k) /\ Due(k)'
      BY <1>10, <2>1 DEF vars, Due, InCall, Armed, Timely, VisitAt, Deadline, Behind, Walking, Cursor
    <2>4. QED
      BY <2>2, <2>3 DEF Ordered
  <1>11. QED
    BY <1>1, <1>2, <1>3, <1>4, <1>5, <1>6, <1>7, <1>8, <1>9, <1>10 DEF Next, TickStep

-------------------------------------------------------------------------------
LEMMA TimeAlways == ASSUME Untroubled PROVE Spec => [](Inv /\ TimeInv)
  <1>1. Init => TimeInv
    BY TimeInit
  <1>2. Inv /\ (Ranked(wheel) /\ ArmedLinked) /\ [Next]_vars => (Ranked(wheel) /\ ArmedLinked)'
    BY LostNext
  <1>3. Inv /\ Ranked(wheel) /\ TimeInv /\ [Next]_vars => TimeInv'
    BY TimeNext
  <1>4. QED
    BY <1>1, <1>2, <1>3, InitInv, NextInv, LostInit, PTL DEF Spec

\* What TimeInv says of a step that fires a timer.
LEMMA FiresNow ==
    ASSUME Inv, TimeInv, [Next]_vars, Fires
    PROVE  /\ Armed(curr) /\ wheel.extra[curr] = Tag[curr]
           /\ nowTick >= Deadline(curr)
           /\ clock + Cooldown > asked[curr].at + asked[curr].secs
  <1>1. Expire
    BY DEF Fires, Next, vars, TickStep, HandlerSchedules, HandlerCancels, ClockAdvances,
           HandleTimeoutTimer, NextBucket, TickDone, SkipRound, Expire, CallbackReturns,
           BucketDone, CallbackTouches
  <1>2. pc = "walking" /\ curr # NIL /\ wheel.rounds[curr] = 0
    BY <1>1 DEF Expire
  <1>3. PICK k : RankOK(wheel, k) /\ Due(k)
    BY DEF TimeInv, Ordered
  <1>4. /\ curr \in Pos /\ Armed(curr) /\ wheel.extra[curr] = Tag[curr]
        /\ \/ nowTick + wheel.rounds[curr] * Slots = Deadline(curr)
           \/ nowTick + wheel.rounds[curr] * Slots = Deadline(curr) + Slots
    BY <1>2, <1>3, MetNow
  <1>5. /\ nowTick \in Nat /\ clock \in Nat /\ Slots \in Nat /\ Cooldown \in Nat
        /\ asked[curr] \in [at : Nat, tick : Nat, secs : Nat]
    BY <1>4, SlotsAssumption, NumberAssumption DEF Inv, TypeOK
  <1>6. wheel.rounds[curr] * Slots = 0
    BY <1>2, <1>5
  <1>7. Deadline(curr) = asked[curr].tick + asked[curr].secs
    BY DEF Deadline
  <1>8. nowTick >= Deadline(curr)
    BY <1>4, <1>5, <1>6, <1>7
  <1>9. nowTick < clock /\ asked[curr].at <= asked[curr].tick + Cooldown
    BY <1>2, <1>4 DEF TimeInv, ClockInv
  <1>10. QED
    BY <1>4, <1>5, <1>7, <1>8, <1>9

\* When no callback touches the list being walked and the timeouts fit the two
\* narrowings, the wheel processes every armed timer within a revolution of its
\* deadline, however many timers share its bucket.
THEOREM NeverLate == ASSUME Untroubled PROVE Spec => []LateByOneRevolution
  <1>1. Inv /\ TimeInv /\ (Ranked(wheel) /\ ArmedLinked) => LateByOneRevolution
    <2> SUFFICES ASSUME Inv, TimeInv, ArmedLinked, NEW p \in Pos, Armed(p)
                 PROVE  nowTick <= Deadline(p) + Slots
      BY DEF LateByOneRevolution
    <2>1. /\ nowTick \in Nat /\ Slots \in Nat /\ wheel.rounds[p] \in Nat
          /\ asked[p] \in [at : Nat, tick : Nat, secs : Nat]
      BY SlotsAssumption DEF Inv, TypeOK, WheelType
    <2>2. CASE InCall(p)
      BY <2>2 DEF InCall, TimeInv, WalkInv
    <2>3. CASE ~InCall(p)
      <3>1. PICK k : RankOK(wheel, k) /\ Due(k)
        BY DEF TimeInv, Ordered
      <3>2. Linked(wheel, p)
        BY <2>3 DEF ArmedLinked, InCall
      <3>3. PICK v \in Nat : VisitAt(p, Behind(k, p), v)
        BY <2>3, <3>1, <3>2 DEF Due, Timely
      <3>4. wheel.rounds[p] * Slots \in Nat
        BY <2>1
      <3>5. nowTick <= v
        BY <2>1, <3>3 DEF VisitAt
      <3>6. QED
        BY <2>1, <3>3, <3>4, <3>5 DEF VisitAt, Deadline
    <2>4. QED
      BY <2>2, <2>3
  <1>2. Inv /\ (Ranked(wheel) /\ ArmedLinked) /\ [Next]_vars => (Ranked(wheel) /\ ArmedLinked)'
    BY LostNext
  <1>3. Spec => [](Inv /\ TimeInv)
    BY TimeAlways
  <1>4. QED
    BY <1>1, <1>2, <1>3, InitInv, LostInit, PTL DEF Spec

\* onExpire_ is called only for an armed timer and with its own tag: Tick meets
\* nobody whose timer was cancelled or whose slot was cleared.
THEOREM OnlyArmedFire == ASSUME Untroubled PROVE Spec => FiresOnlyArmed
  <1>1. Inv /\ TimeInv /\ [Next]_vars
          => [Fires => Armed(curr) /\ wheel.extra[curr] = Tag[curr]]_vars
    BY FiresNow
  <1>2. Spec => [](Inv /\ TimeInv)
    BY TimeAlways
  <1>3. QED
    BY <1>1, <1>2, PTL DEF Spec, FiresOnlyArmed

\* No timer fires before the ticks it was asked for have passed, nor, in the
\* clock's time, earlier than a period of the timerfd before its deadline.
THEOREM NeverEarly == ASSUME Untroubled PROVE Spec => FiresInTime
  <1>1. Inv /\ TimeInv /\ [Next]_vars
          => /\ [Fires => nowTick >= Deadline(curr)]_vars
             /\ [Fires => clock + Cooldown > asked[curr].at + asked[curr].secs]_vars
    BY FiresNow
  <1>2. Spec => [](Inv /\ TimeInv)
    BY TimeAlways
  <1>3. QED
    BY <1>1, <1>2, PTL DEF Spec, FiresInTime, NeverBeforeDeadline, EarlyByLessThanCooldown

===============================================================================
