-------------------------- MODULE EndpointSlotsProofs --------------------------
(*****************************************************************************)
(* For every set of clients and slots, every endpoint the constant Setups    *)
(* describes (but one whose handlers both hold reservations and call again   *)
(* after a failure) and any number of events, errors and re-entrant          *)
(* coroutines: a slot and the client it serves agree about each other, and a *)
(* reservation is one coroutine's.                                           *)
(*                                                                           *)
(* The invariant SInv speaks of the handlers that are half way through: where*)
(* on the stack a frame may be, whom it will still wake, what it expects of  *)
(* its slot when it goes on, and that no coroutine it woke has taken that    *)
(* slot meanwhile.  The first part is about the operators on one slot, which *)
(* all are Effects; the lemmas after the invariant say what is left to show  *)
(* when a step changes one slot, one client or the top of the stack only;    *)
(* then follows one lemma per action.                                        *)
(*****************************************************************************)
EXTENDS EndpointSlots, SequenceTheorems, FiniteSetTheorems, TLAPS

SlotFields ==
    {"gen", "leased", "marked", "pooledIdle", "inUse", "reserved", "client", "ev", "alive",
     "key", "deferred", "owes", "aborted", "onconn", "awaiting", "ssl", "shutting",
     "attempts", "tried", "timer"}
SlotShape(r) ==
    /\ DOMAIN r = SlotFields
    /\ r.gen \in Nat
    /\ r.client \in Clients \cup {None}
    /\ r.key \in Coalesced \cup {None}
    /\ r.deferred \in Reqs \cup {None} /\ r.owes \in Reqs \cup {None}

\* How the flags of a slot go together, whatever its event type is.
Wired(r) ==
    /\ r.awaiting => r.ev = "ACCEPT" /\ ~r.onconn
    /\ r.onconn => r.alive
    /\ r.ev = "ONCONNECT" => r.alive
    /\ r.ev \in {"CONNECT", "RECV"} => ~r.onconn

Dialling(r) == IsConnecting(r) \/ r.awaiting

\* Whose the slot is: the operators on one slot leave that alone.
Same(r, q) ==
    /\ q.gen = r.gen /\ q.reserved = r.reserved
    /\ q.client = r.client /\ q.key = r.key
    /\ q.deferred = r.deferred /\ q.owes = r.owes /\ q.aborted = r.aborted
Kept(r, q) == q.leased = r.leased /\ q.inUse = r.inUse /\ q.pooledIdle = r.pooledIdle
Pooled(r, q) ==
    /\ ~q.leased /\ q.inUse = r.inUse - 1 /\ q.pooledIdle
    /\ r.client = None /\ ~r.reserved

\* An operator that moves the record of a slot.
Moves(r, q) ==
    /\ SlotShape(q) /\ Wired(q)
    /\ Same(r, q)
    /\ q.awaiting => r.awaiting
    /\ Kept(r, q) \/ (Pooled(r, q) /\ ~Dialling(q))

LEMMA ReturnToPoolMoves ==
  ASSUME NEW r, SlotShape(r), Wired(r)
  PROVE  LET q == ReturnToPool(r) IN
         /\ SlotShape(q) /\ Wired(q) /\ Same(r, q)
         /\ q.ev = r.ev /\ q.onconn = r.onconn /\ q.awaiting = r.awaiting
         /\ Kept(r, q) \/ (r.client = None => Pooled(r, q))
<1>1. Same(r, ReturnToPool(r)) /\ DOMAIN ReturnToPool(r) = SlotFields
  BY DEF SlotShape, SlotFields, Same, ReturnToPool
<1>2. /\ ReturnToPool(r).ev = r.ev /\ ReturnToPool(r).onconn = r.onconn
      /\ ReturnToPool(r).awaiting = r.awaiting /\ ReturnToPool(r).alive = r.alive
      /\ Kept(r, ReturnToPool(r)) \/ (r.client = None => Pooled(r, ReturnToPool(r)))
  BY DEF SlotShape, SlotFields, Kept, Pooled, ReturnToPool
<1> QED BY <1>1, <1>2 DEF Same, SlotShape, Wired

LEMMA EnterStateMoves ==
  ASSUME NEW r, SlotShape(r), NEW e
  PROVE  LET q == EnterState(r, e) IN
         /\ SlotShape(q) /\ Same(r, q) /\ Kept(r, q)
         /\ q.ev \in {e, "FATAL"}
         /\ q.onconn = r.onconn /\ q.awaiting = r.awaiting /\ q.alive = r.alive
         /\ q.ssl = r.ssl
  BY DEF SlotShape, SlotFields, Same, Kept, EnterState

LEMMA DialledMoves ==
  ASSUME NEW r, SlotShape(r), Wired(r), ~r.onconn, ~r.awaiting
  PROVE  LET q == Dialled(r).slot IN
         Moves(r, q) /\ q.onconn = r.onconn /\ q.awaiting = r.awaiting
<1>1. CASE r.ev \in {"CONNECT", "HANDSHAKE", "ONCONNECT"} \/ r.client # None
  <2>1. PICK t : Dialled(r).slot = [r EXCEPT !.timer = t]
    BY <1>1 DEF Dialled
  <2> QED BY <2>1 DEF Moves, SlotShape, SlotFields, Wired, Same, Kept
<1>2. CASE r.ev \notin {"CONNECT", "HANDSHAKE", "ONCONNECT"} /\ r.client = None
  <2>1. Dialled(r).slot = ReturnToPool(r)
    BY <1>2 DEF Dialled
  <2> QED BY <2>1, <1>2, ReturnToPoolMoves DEF Moves, Dialling, IsConnecting
<1> QED BY <1>1, <1>2

\* What WrapConnect may leave in a slot.
LEMMA WrapConnectMoves ==
  ASSUME NEW r, SlotShape(r), Wired(r), ~r.onconn, ~r.awaiting, NEW y \in WrapConnect(r)
  PROVE  /\ Moves(r, y.slot) /\ ~y.slot.onconn /\ ~y.slot.awaiting
         /\ y.status # "PENDING" => Kept(r, y.slot)
<1> DEFINE q == [r EXCEPT !.tried = @ + 1]
           t == [q EXCEPT !.alive = TRUE, !.ssl = TRUE]
           a == [q EXCEPT !.alive = TRUE]
<1>1. /\ SlotShape(q) /\ Wired(q) /\ ~q.onconn /\ ~q.awaiting /\ Same(r, q) /\ Kept(r, q)
      /\ q.ev = r.ev
  BY DEF SlotShape, SlotFields, Wired, Same, Kept
<1>2. /\ SlotShape(t) /\ ~t.onconn /\ ~t.awaiting /\ Same(r, t) /\ Kept(r, t)
      /\ t.alive /\ t.ev = q.ev
  <2> HIDE DEF q
  <2> QED BY <1>1 DEF SlotShape, SlotFields, Same, Kept
<1>3. /\ SlotShape(a) /\ ~a.onconn /\ ~a.awaiting /\ Same(r, a) /\ Kept(r, a)
      /\ a.alive /\ a.ev = q.ev
  <2> HIDE DEF q
  <2> QED BY <1>1 DEF SlotShape, SlotFields, Same, Kept
<1>4. /\ Wired(t) /\ Wired(a)
  BY <1>2, <1>3 DEF Wired
<1> DEFINE good(x) == Moves(r, x.slot) /\ ~x.slot.onconn /\ ~x.slot.awaiting
<1>5. ASSUME NEW u, SlotShape(u), ~u.onconn, ~u.awaiting, Same(r, u), Kept(r, u),
             NEW e \in {"CONNECT", "HANDSHAKE", "ONCONNECT", "SEND"}, u.alive \/ e = "CONNECT"
      PROVE  good(Dialled(EnterState(u, e)))
  <2> DEFINE v == EnterState(u, e)
  <2>1. /\ SlotShape(v) /\ Same(u, v) /\ Kept(u, v) /\ ~v.onconn /\ ~v.awaiting
        /\ Wired(v)
    BY <1>5, EnterStateMoves DEF Wired
  <2>2. Moves(v, Dialled(v).slot) /\ ~Dialled(v).slot.onconn /\ ~Dialled(v).slot.awaiting
    BY <2>1, DialledMoves
  <2>3. v = EnterState(u, e)
    OBVIOUS
  <2> HIDE DEF v
  <2>4. Moves(r, Dialled(v).slot)
    BY <1>5, <2>1, <2>2 DEF Moves, Same, Kept, Pooled
  <2> QED BY <2>2, <2>3, <2>4
<1>6. good([status |-> "CONNECT_FAILURE", slot |-> q]) /\ good([status |-> "SOCKET_FAILURE", slot |-> q])
      /\ good([status |-> "SSL_FAILURE", slot |-> t])
  BY <1>1, <1>2, <1>4 DEF Moves
<1>7. Up \in {"ONCONNECT", "SEND"}
  BY DEF Up
<1>8. good(Dialled(EnterState(q, "CONNECT")))
  BY <1>1, <1>5
<1>9. /\ good(Dialled(EnterState(t, "HANDSHAKE"))) /\ good(Dialled(EnterState(t, Up)))
      /\ good(Dialled(EnterState(a, Up)))
  BY <1>2, <1>3, <1>5, <1>7
<1> DEFINE fails == {[status |-> "CONNECT_FAILURE", slot |-> q], [status |-> "SOCKET_FAILURE", slot |-> q],
                     [status |-> "SSL_FAILURE", slot |-> t]}
           opens == {Dialled(EnterState(q, "CONNECT")), Dialled(EnterState(t, "HANDSHAKE")),
                     Dialled(EnterState(t, Up)), Dialled(EnterState(a, Up))}
<1> DEFINE outcomes(answer) ==
             CASE answer = "progress" -> {Dialled(EnterState(q, "CONNECT"))}
               [] answer = "refused"  -> {[status |-> "CONNECT_FAILURE", slot |-> q]}
               [] answer = "broken"   -> {[status |-> "SOCKET_FAILURE", slot |-> q]}
               [] answer = "once" /\ UseTls ->
                    {Dialled(EnterState(t, "HANDSHAKE")), Dialled(EnterState(t, Up)),
                     [status |-> "SSL_FAILURE", slot |-> t]}
               [] OTHER -> {Dialled(EnterState(a, Up))}
           all == UNION {outcomes(answer) : answer \in Connects}
<1>a. \A answer : outcomes(answer) \subseteq fails \cup opens
  <2> HIDE DEF q, t, a
  <2> QED OBVIOUS
<1>b. WrapConnect(r) = all \cup IF ~Local THEN {}
              ELSE {[status |-> "EPOLL_ERROR", slot |-> [x.slot EXCEPT !.timer = r.timer]]
                    : x \in {z \in {w \in all : w.status = "PENDING"} : ~z.slot.pooledIdle}}
  BY DEF WrapConnect
<1>10. CASE y.status # "EPOLL_ERROR"
  <2> HIDE DEF q, t, a, fails, opens, outcomes
  <2>1. y \in fails \cup opens
    BY <1>10, <1>a, <1>b
  <2>2. \A x \in fails : Kept(r, x.slot)
    BY <1>1, <1>2 DEF fails
  <2>3. \A x \in opens : x.status = "PENDING"
    BY DEF opens, Dialled
  <2> QED BY <2>1, <2>2, <2>3, <1>6, <1>8, <1>9 DEF fails, opens
<1>11. CASE y.status = "EPOLL_ERROR"
  <2> HIDE DEF q, t, a, fails, opens, outcomes
  <2>0. \A x \in fails : x.status # "EPOLL_ERROR" /\ x.status # "PENDING"
    BY DEF fails
  <2>5. \A x \in opens : x.status = "PENDING"
    BY DEF opens, Dialled
  <2>6. all \subseteq fails \cup opens
    BY <1>a
  <2> HIDE DEF all
  <2>7. y \notin all
    BY <1>11, <2>0, <2>5, <2>6
  <2>8. PICK x \in {z \in {w \in all : w.status = "PENDING"} : ~z.slot.pooledIdle} :
            y = [status |-> "EPOLL_ERROR", slot |-> [x.slot EXCEPT !.timer = r.timer]]
    BY <1>b, <2>7
  <2>1. x \in opens /\ y.slot = [x.slot EXCEPT !.timer = r.timer]
    BY <2>0, <2>6, <2>8
  <2>2. good(x)
    BY <2>1, <1>8, <1>9 DEF opens
  <2>3. \A p : DOMAIN p = SlotFields => LET u == [p EXCEPT !.timer = r.timer] IN
               /\ DOMAIN u = SlotFields /\ \A f \in SlotFields \ {"timer"} : u[f] = p[f]
    OBVIOUS
  <2>9. Kept(r, x.slot)
    BY <2>2, <2>8 DEF Moves, Pooled
  <2> QED BY <2>1, <2>2, <2>3, <2>9
        DEF Moves, SlotShape, SlotFields, Wired, Same, Kept, Pooled, Dialling, IsConnecting
<1> QED BY <1>10, <1>11

\* The calls a handler on slot s may leave to be made.
CallsFrom(s, q, calls) ==
    \/ calls = <<>>
    \/ \E w \in {None, "refused"} : calls = <<Frame("release", s, w)>>
    \/ /\ ~Dialling(q) /\ HasRequestInFlight(q)
       /\ \E v \in {"KEEP_ALIVE", "CLOSE"} : calls = <<Frame("complete", s, v)>>
    \/ calls = <<Frame("parseError", s, None)>>

\* The request that waited for onConnect is the one to be answered now.
Flushed(r, q) ==
    /\ r.deferred # None /\ q.owes = r.deferred /\ q.deferred = None
    /\ q.alive /\ ~Dialling(q)

\* What a handler may do to slot s holding r: the slot keeps its generation and
\* its reservation; it keeps its client and key, or fails its deferred request;
\* it stays leased, or goes idle into the pool when it serves nobody.
Effect(s, r, x) ==
    /\ SlotShape(x.slot) /\ Wired(x.slot)
    /\ x.slot.gen = r.gen /\ x.slot.reserved = r.reserved /\ x.slot.aborted = r.aborted
    /\ Kept(r, x.slot) \/ (Pooled(r, x.slot) /\ ~Dialling(x.slot))
    /\ x.slot.awaiting => r.awaiting \/ (r.client = None /\ ~x.unlinks)
    /\ r.deferred = None => x.slot.deferred = None /\ x.slot.owes = r.owes
    /\ IF x.unlinks
       THEN /\ x.slot.client = None /\ x.slot.key = None
            /\ x.calls = <<Frame("resume", r.client, None), Frame("close", s, None)>>
            /\ x.registers = None /\ ~x.again
            /\ r.deferred # None /\ x.slot.deferred = None /\ x.slot.owes = r.owes
       ELSE /\ x.slot.client = r.client /\ x.slot.key = r.key
            /\ CallsFrom(s, x.slot, x.calls)
            /\ x.registers = None \/ (x.registers = r.key /\ Flushed(r, x.slot))
            /\ \/ x.slot.owes = r.owes /\ x.slot.deferred = r.deferred
               \/ Flushed(r, x.slot)

LEMMA DoesEffect ==
  ASSUME NEW s, NEW r, NEW q, NEW calls, Moves(r, q), CallsFrom(s, q, calls)
  PROVE  Effect(s, r, Does(q, calls))
  BY DEF Effect, Does, Moves, Same

LEMMA EffectFrom ==
  ASSUME NEW s, NEW r, NEW q, NEW x, Same(r, q), Kept(r, q), q.awaiting => r.awaiting,
         Effect(s, q, x)
  PROVE  Effect(s, r, x)
  BY DEF Effect, Same, Kept, Pooled, Flushed

LEMMA CloseForEffect ==
  ASSUME NEW s, NEW r, NEW q, Moves(r, q), NEW why \in {None, "refused"}
  PROVE  /\ Effect(s, r, CloseFor(s, q, why)) /\ ~CloseFor(s, q, why).unlinks
         /\ Dialling(CloseFor(s, q, why).slot) = Dialling(q)
         /\ Same(q, CloseFor(s, q, why).slot) /\ Kept(q, CloseFor(s, q, why).slot)
         /\ CloseFor(s, q, why).calls = <<Frame("release", s, why)>>
<1> DEFINE p == [q EXCEPT !.shutting = TRUE, !.ssl = FALSE]
<1>1. /\ SlotShape(p) /\ Same(q, p) /\ Kept(q, p) /\ Dialling(p) = Dialling(q)
      /\ p.awaiting = q.awaiting
  BY DEF Moves, SlotShape, SlotFields, Same, Kept, Dialling, IsConnecting
<1>2. Wired(p)
  BY DEF Moves, SlotShape, SlotFields, Wired
<1>3. Moves(r, p)
  <2> HIDE DEF p
  <2> QED BY <1>1, <1>2 DEF Moves, Same, Kept, Pooled
<1>4. CloseFor(s, q, why) = Does(p, <<Frame("release", s, why)>>)
  BY DEF CloseFor
<1>5. CallsFrom(s, p, <<Frame("release", s, why)>>)
  BY DEF CallsFrom
<1> HIDE DEF p
<1> QED BY <1>1, <1>3, <1>4, <1>5, DoesEffect DEF Does

LEMMA MovesSelf ==
  ASSUME NEW r, SlotShape(r), Wired(r)
  PROVE  Moves(r, r)
  BY DEF Moves, Same, Kept

\* Close(ctx) leaves a slot as calm as it was.
LEMMA CloseGentlyEffect ==
  ASSUME NEW s, NEW r, SlotShape(r), Wired(r), NEW broken,
         (~r.awaiting /\ ~r.onconn) \/ broken, NEW x \in CloseGently(s, r, broken)
  PROVE  /\ Effect(s, r, x) /\ ~x.unlinks /\ Kept(r, x.slot)
         /\ ~Dialling(r) => ~Dialling(x.slot)
<1>1. CASE x = Does(r, <<>>)
  BY <1>1, DoesEffect, MovesSelf DEF CallsFrom, Does, Kept
<1>2. CASE x = CloseForce(s, r)
  BY <1>2, CloseForEffect, MovesSelf DEF CloseForce, Kept
<1>3. CASE ~broken /\ x = Does(EnterState([r EXCEPT !.shutting = TRUE], "SHUTDOWN"), <<>>)
  <2> DEFINE p == [r EXCEPT !.shutting = TRUE]
             q == EnterState(p, "SHUTDOWN")
  <2>1. SlotShape(p) /\ Same(r, p) /\ Kept(r, p) /\ ~p.awaiting /\ ~p.onconn
    BY <1>3 DEF SlotShape, SlotFields, Same, Kept
  <2>2. /\ SlotShape(q) /\ Same(p, q) /\ Kept(p, q) /\ ~q.awaiting /\ ~q.onconn
        /\ q.ev \in {"SHUTDOWN", "FATAL"}
    <3> HIDE DEF p
    <3> QED BY <2>1, EnterStateMoves
  <2> HIDE DEF p, q
  <2>3. Moves(r, q) /\ ~Dialling(q) /\ Kept(r, q)
    BY <2>1, <2>2 DEF Moves, Same, Kept, Wired, Dialling, IsConnecting
  <2>4. x = Does(q, <<>>)
    BY <1>3 DEF p, q
  <2> QED BY <2>3, <2>4, DoesEffect DEF CallsFrom, Does
<1> QED BY <1>1, <1>2, <1>3 DEF CloseGently

LEMMA TryNextAddressMoves ==
  ASSUME NEW r, SlotShape(r), Wired(r), ~r.onconn, ~r.awaiting, NEW y \in TryNextAddress(r)
  PROVE  /\ Moves(r, y.slot) /\ ~y.slot.onconn /\ ~y.slot.awaiting
         /\ y.status # "PENDING" => Kept(r, y.slot)
<1> DEFINE left  == Addrs - r.tried
           at(n) == IF n = 0 /\ left = 0 THEN r
                    ELSE [r EXCEPT !.tried = @ + n, !.timer = "none", !.ev = "ACCEPT"]
           runs  == IF "refused" \in Connects THEN 0 .. left ELSE {0}
<1>1. PICK n : \/ y = [status |-> "CONNECT_FAILURE", slot |-> at(n)]
               \/ y \in WrapConnect(at(n))
  <2> HIDE DEF left, at
  <2>1. y \in UNION {IF n = left THEN {[status |-> "CONNECT_FAILURE", slot |-> at(n)]}
                     ELSE {x \in WrapConnect(at(n)) : x.status # "CONNECT_FAILURE"} : n \in runs}
    BY DEF TryNextAddress, left, at
  <2> HIDE DEF runs
  <2> QED BY <2>1
<1>2. SlotShape(at(n)) /\ Wired(at(n)) /\ Same(r, at(n)) /\ Kept(r, at(n))
      /\ ~at(n).onconn /\ ~at(n).awaiting
  <2> DEFINE q == [r EXCEPT !.tried = @ + n, !.timer = "none", !.ev = "ACCEPT"]
  <2>1. SlotShape(q) /\ Same(r, q) /\ Kept(r, q) /\ ~q.onconn /\ ~q.awaiting /\ q.ev = "ACCEPT"
    BY DEF SlotShape, SlotFields, Same, Kept
  <2>2. Wired(q)
    BY <2>1 DEF Wired
  <2>3. at(n) \in {r, q}
    OBVIOUS
  <2> HIDE DEF at, q
  <2> QED BY <2>1, <2>2, <2>3 DEF Same, Kept
<1> HIDE DEF at
<1>3. CASE y \in WrapConnect(at(n))
  <2>1. /\ Moves(at(n), y.slot) /\ ~y.slot.onconn /\ ~y.slot.awaiting
        /\ y.status # "PENDING" => Kept(at(n), y.slot)
    BY <1>2, <1>3, WrapConnectMoves
  <2> QED BY <1>2, <2>1 DEF Moves, Same, Kept, Pooled
<1>4. CASE y = [status |-> "CONNECT_FAILURE", slot |-> at(n)]
  BY <1>2, <1>4 DEF Moves
<1> QED BY <1>1, <1>3, <1>4

LEMMA HandleConnectFailureEffect ==
  ASSUME NEW s, NEW r, SlotShape(r), Wired(r), ~r.awaiting, NEW fatal, NEW refused,
         NEW x \in HandleConnectFailure(s, r, fatal, refused)
  PROVE  Effect(s, r, x) /\ ~x.unlinks /\ x.registers = None
<1> DEFINE walks == ~fatal /\ refused /\ ~r.alive
           tried == IF walks THEN TryNextAddress(r)
                    ELSE {[status |-> "FAILURE", slot |-> r]}
           done(y) ==
             IF y.status = "PENDING" THEN Does(y.slot, <<>>)
             ELSE IF \/ y.slot.client # None
                     \/ fatal
                     \/ y.slot.attempts >= MaxReconnect
             THEN CloseFor(s, y.slot, Blame(y.status))
             ELSE [Does(ScheduleReconnect(y.slot), <<>>) EXCEPT !.again = TRUE]
<1>1. PICK y \in tried : x = done(y)
  <2>1. x \in {done(y) : y \in tried}
    BY DEF HandleConnectFailure
  <2> HIDE DEF done, tried
  <2> QED BY <2>1
<1>2. Moves(r, y.slot) /\ ~y.slot.awaiting /\ (y.status # "PENDING" => Kept(r, y.slot))
  <2>1. CASE walks
    BY <1>1, <2>1, TryNextAddressMoves DEF Wired
  <2>2. CASE ~walks
    <3>1. y.slot = r
      BY <1>1, <2>2
    <3> QED BY <3>1, MovesSelf DEF Kept
  <2> QED BY <2>1, <2>2
<1> HIDE DEF tried
<1>3. CASE x = Does(y.slot, <<>>)
  BY <1>2, <1>3, DoesEffect DEF CallsFrom, Does
<1>4. CASE x = CloseFor(s, y.slot, Blame(y.status))
  <2>1. Blame(y.status) \in {None, "refused"}
    BY DEF Blame
  <2>2. Effect(s, r, x) /\ ~x.unlinks
    BY <1>2, <1>4, <2>1, CloseForEffect
  <2> QED BY <1>4, <2>2 DEF CloseFor, Does
<1>5. CASE y.status # "PENDING" /\ y.slot.client = None /\ x = [Does(ScheduleReconnect(y.slot), <<>>) EXCEPT !.again = TRUE]
  <2> DEFINE p == y.slot
             q == ScheduleReconnect(p)
  <2>0. SlotShape(p)
    BY <1>2 DEF Moves
  <2>1. SlotShape(q) /\ Same(p, q) /\ Kept(p, q)
    <3> HIDE DEF p
    <3> QED BY <2>0 DEF ScheduleReconnect, SlotShape, SlotFields, Same, Kept
  <2>2. q.ev = "ACCEPT" /\ ~q.onconn
    <3> HIDE DEF p
    <3> QED BY <2>0 DEF ScheduleReconnect, SlotShape, SlotFields
  <2>3. Wired(q)
    BY <2>2 DEF Wired
  <2>5. /\ x.slot = q /\ x.calls = <<>> /\ ~x.unlinks /\ x.registers = None
    BY <1>5 DEF Does
  <2> HIDE DEF q
  <2>6. r.client = None
    BY <1>2, <1>5 DEF Moves, Same
  <2> QED BY <1>2, <1>5, <2>1, <2>3, <2>5, <2>6 DEF Effect, Moves, Same, Kept, CallsFrom
<1> QED BY <1>1, <1>3, <1>4, <1>5

\* A slot that is not being connected is left leased or pooled as it is.
Calm(r, x) == ~Dialling(r) => Kept(r, x.slot) /\ ~Dialling(x.slot) /\ ~x.unlinks

LEMMA CalmFrom ==
  ASSUME NEW r, NEW q, NEW x, Kept(r, q), Dialling(r) = Dialling(q), Calm(q, x)
  PROVE  Calm(r, x)
  BY DEF Calm, Kept

LEMMA IgnoredEffect ==
  ASSUME NEW s, NEW r, SlotShape(r), Wired(r), NEW x \in Ignored(r)
  PROVE  Effect(s, r, x) /\ Calm(r, x)
<1>1. x = Does(r, <<>>)
  BY DEF Ignored
<1> QED BY <1>1, MovesSelf, DoesEffect DEF CallsFrom, Calm, Kept, Does

LEMMA CloseForceEffect ==
  ASSUME NEW s, NEW r, SlotShape(r), Wired(r)
  PROVE  Effect(s, r, CloseForce(s, r)) /\ Calm(r, CloseForce(s, r))
<1>1. /\ Effect(s, r, CloseFor(s, r, None)) /\ ~CloseFor(s, r, None).unlinks
      /\ Dialling(CloseFor(s, r, None).slot) = Dialling(r) /\ Kept(r, CloseFor(s, r, None).slot)
  BY MovesSelf, CloseForEffect
<1> QED BY <1>1 DEF CloseForce, Calm

LEMMA FailEndpointIOEffect ==
  ASSUME NEW s, NEW r, SlotShape(r), Wired(r), NEW x \in FailEndpointIO(s, r)
  PROVE  Effect(s, r, x) /\ ~x.unlinks /\ Calm(r, x)
<1>1. CASE IsConnecting(r)
  <2>1. ~r.awaiting
    BY <1>1 DEF IsConnecting, Wired
  <2>2. x \in HandleConnectFailure(s, r, FALSE, TRUE)
    BY <1>1 DEF FailEndpointIO
  <2> QED BY <1>1, <2>1, <2>2, HandleConnectFailureEffect DEF Calm, Dialling
<1>2. CASE ~IsConnecting(r)
  <2>1. x \in CloseGently(s, r, TRUE)
    BY <1>2 DEF FailEndpointIO
  <2> QED BY <2>1, CloseGentlyEffect DEF Calm
<1> QED BY <1>1, <1>2

\* A change of event type that keeps the flags wired.
LEMMA EntersEffect ==
  ASSUME NEW s, NEW r, SlotShape(r), Wired(r), ~r.awaiting,
         NEW e \in {"HANDSHAKE", "ONCONNECT", "SEND", "RECV"},
         e = "ONCONNECT" => r.alive, e = "RECV" => ~r.onconn
  PROVE  LET q == EnterState(r, e) IN
         /\ Moves(r, q) /\ Kept(r, q)
         /\ q.onconn = r.onconn /\ ~q.awaiting /\ q.alive = r.alive
         /\ q.ev \in {e, "FATAL"}
         /\ Effect(s, r, Does(q, <<>>)) /\ ~Does(q, <<>>).unlinks
<1> DEFINE q == EnterState(r, e)
<1>1. /\ SlotShape(q) /\ Same(r, q) /\ Kept(r, q) /\ q.ev \in {e, "FATAL"}
      /\ q.onconn = r.onconn /\ q.awaiting = r.awaiting /\ q.alive = r.alive
  BY EnterStateMoves
<1> HIDE DEF q
<1>2. Moves(r, q)
  BY <1>1 DEF Moves, Wired
<1> QED BY <1>1, <1>2, DoesEffect DEF q, CallsFrom, Does

LEMMA SendBytesEffect ==
  ASSUME NEW s, NEW r, SlotShape(r), Wired(r), ~r.onconn, ~r.awaiting,
         NEW x \in SendBytes(s, r)
  PROVE  Effect(s, r, x) /\ ~x.unlinks /\ Calm(r, x)
<1>1. CASE \E e \in {"RECV", "SEND"} : x = Does(EnterState(r, e), <<>>)
  <2>1. PICK e \in {"RECV", "SEND"} : x = Does(EnterState(r, e), <<>>)
    BY <1>1
  <2>2. x.slot = EnterState(r, e)
    BY <2>1 DEF Does
  <2> QED BY <2>1, <2>2, EntersEffect DEF Calm, Dialling, IsConnecting
<1>2. CASE x \in FailEndpointIO(s, r)
  BY <1>2, FailEndpointIOEffect
<1> QED BY <1>1, <1>2 DEF SendBytes

LEMMA IdleEffect ==
  ASSUME NEW s, NEW r, SlotShape(r), Wired(r), ~Dialling(r), r.client = None,
         NEW x \in Idle(s, r)
  PROVE  Effect(s, r, x) /\ ~x.unlinks
<1> DEFINE q == ReturnToPool(r)
<1>1. Moves(r, q)
  BY ReturnToPoolMoves DEF Moves, Dialling, IsConnecting
<1> HIDE DEF q
<1>2. x \in {Does(q, <<>>), CloseForce(s, q)}
  BY DEF Idle, q
<1> QED BY <1>1, <1>2, DoesEffect, CloseForEffect DEF CloseForce, CallsFrom, Does

LEMMA TimerOnly ==
  ASSUME NEW r, SlotShape(r), Wired(r), NEW t
  PROVE  LET q == [r EXCEPT !.timer = t] IN
         /\ SlotShape(q) /\ Wired(q) /\ Same(r, q) /\ Kept(r, q)
         /\ Dialling(q) = Dialling(r) /\ IsConnecting(q) = IsConnecting(r)
         /\ q.onconn = r.onconn /\ q.awaiting = r.awaiting /\ q.ev = r.ev /\ q.alive = r.alive
  BY DEF SlotShape, SlotFields, Wired, Same, Kept, Dialling, IsConnecting

\* A slot that is connected stays so and owes what it owed.
Rests(r, q) ==
    /\ q.alive = r.alive /\ q.owes = r.owes /\ q.deferred = r.deferred
    /\ ~Dialling(q)

LEMMA EnterStateRests ==
  ASSUME NEW r, SlotShape(r), ~r.onconn, ~r.awaiting, NEW e \in {"SEND", "RECV", "SHUTDOWN"}
  PROVE  LET q == EnterState(r, e) IN
         /\ SlotShape(q) /\ Rests(r, q) /\ ~q.onconn /\ ~q.awaiting /\ q.client = r.client
<1> DEFINE q == EnterState(r, e)
<1>1. /\ SlotShape(q) /\ Same(r, q) /\ q.ev \in {e, "FATAL"}
      /\ q.onconn = r.onconn /\ q.awaiting = r.awaiting /\ q.alive = r.alive
  BY EnterStateMoves
<1> HIDE DEF q
<1> QED BY <1>1 DEF Same, Rests, Dialling, IsConnecting, q

LEMMA FlagsRest ==
  ASSUME NEW r, SlotShape(r), ~Dialling(r), NEW a, NEW b, NEW t
  PROVE  /\ Rests(r, [r EXCEPT !.shutting = a]) /\ Rests(r, [r EXCEPT !.ssl = b])
         /\ Rests(r, [r EXCEPT !.shutting = a, !.ssl = b])
         /\ Rests(r, [r EXCEPT !.timer = t])
         /\ SlotShape([r EXCEPT !.shutting = a])
  BY DEF SlotShape, SlotFields, Rests, Dialling, IsConnecting

LEMMA CloseGentlyRests ==
  ASSUME NEW s, NEW r, SlotShape(r), ~Dialling(r), NEW broken,
         NEW x \in CloseGently(s, r, broken)
  PROVE  Rests(r, x.slot)
<1>0. ~r.onconn /\ ~r.awaiting
  BY DEF Dialling, IsConnecting
<1> DEFINE p == [r EXCEPT !.shutting = TRUE]
           u == [r EXCEPT !.shutting = TRUE, !.ssl = FALSE]
<1>1. Rests(r, p) /\ SlotShape(p) /\ Rests(r, u)
  BY FlagsRest
<1>2. ~p.onconn /\ ~p.awaiting
  BY <1>0 DEF SlotShape, SlotFields
<1>3. x.slot \in {r, u, EnterState(p, "SHUTDOWN")}
  BY DEF CloseGently, CloseForce, CloseFor, Does
<1> HIDE DEF p, u
<1>4. Rests(p, EnterState(p, "SHUTDOWN"))
  BY <1>1, <1>2, EnterStateRests
<1> QED BY <1>1, <1>3, <1>4 DEF Rests

LEMMA SendBytesRests ==
  ASSUME NEW s, NEW r, SlotShape(r), ~Dialling(r), NEW x \in SendBytes(s, r)
  PROVE  Rests(r, x.slot)
<1>0. ~r.onconn /\ ~r.awaiting /\ ~IsConnecting(r)
  BY DEF Dialling, IsConnecting
<1>1. CASE \E e \in {"RECV", "SEND"} : x = Does(EnterState(r, e), <<>>)
  <2>1. PICK e \in {"RECV", "SEND"} : x.slot = EnterState(r, e)
    BY <1>1 DEF Does
  <2> QED BY <1>0, <2>1, EnterStateRests
<1>2. CASE x \in FailEndpointIO(s, r)
  <2>1. x \in CloseGently(s, r, TRUE)
    BY <1>0, <1>2 DEF FailEndpointIO
  <2> QED BY <2>1, CloseGentlyRests
<1> QED BY <1>1, <1>2 DEF SendBytes

LEMMA IdleRests ==
  ASSUME NEW s, NEW r, SlotShape(r), ~Dialling(r), NEW x \in Idle(s, r)
  PROVE  Rests(r, x.slot)
<1> DEFINE q == ReturnToPool(r)
<1>1. SlotShape(q) /\ ~Dialling(q) /\ Rests(r, q)
  BY DEF SlotShape, SlotFields, ReturnToPool, Rests, Dialling, IsConnecting
<1> HIDE DEF q
<1>2. x.slot \in {q, [q EXCEPT !.shutting = TRUE, !.ssl = FALSE]}
  BY DEF Idle, CloseForce, CloseFor, Does, q
<1>3. Rests(q, [q EXCEPT !.shutting = TRUE, !.ssl = FALSE])
  BY <1>1, FlagsRest
<1> QED BY <1>1, <1>2, <1>3 DEF Rests

LEMMA ReadyRests ==
  ASSUME NEW s, NEW r, SlotShape(r), ~r.onconn, ~r.awaiting, NEW x \in Ready(s, r)
  PROVE  Rests(r, x.slot)
<1> DEFINE p == EnterState(r, "SEND")
           q == [p EXCEPT !.timer = "request"]
           u == EnterState(r, "RECV")
<1>1. SlotShape(p) /\ Rests(r, p) /\ SlotShape(u) /\ Rests(r, u)
  BY EnterStateRests
<1>2. x \in SendBytes(s, q) \/ x \in Idle(s, u)
  BY DEF Ready
<1> HIDE DEF p, u
<1>3. SlotShape(q) /\ Rests(p, q)
  BY <1>1 DEF SlotShape, SlotFields, Rests, Dialling, IsConnecting
<1> HIDE DEF q
<1>4. \/ Rests(q, x.slot)
      \/ Rests(u, x.slot)
  BY <1>1, <1>2, <1>3, SendBytesRests, IdleRests DEF Rests
<1> QED BY <1>1, <1>3, <1>4 DEF Rests

LEMMA ReadyEffect ==
  ASSUME NEW s, NEW r, SlotShape(r), Wired(r), ~r.onconn, ~r.awaiting, NEW x \in Ready(s, r)
  PROVE  Effect(s, r, x) /\ ~x.unlinks
<1>1. CASE r.client # None
  <2> DEFINE p == EnterState(r, "SEND")
             q == [p EXCEPT !.timer = "request"]
  <2>1. /\ SlotShape(p) /\ Wired(p) /\ Same(r, p) /\ Kept(r, p) /\ ~p.onconn /\ ~p.awaiting
    BY EntersEffect DEF Moves
  <2>2. SlotShape(q) /\ Wired(q) /\ Same(p, q) /\ Kept(p, q) /\ ~q.onconn /\ ~q.awaiting
    <3> HIDE DEF p
    <3> QED BY <2>1, TimerOnly
  <2>3. x \in SendBytes(s, q)
    BY <1>1 DEF Ready
  <2> HIDE DEF p, q
  <2>4. Effect(s, q, x) /\ ~x.unlinks
    BY <2>2, <2>3, SendBytesEffect
  <2> QED BY <2>1, <2>2, <2>4, EffectFrom DEF Same, Kept
<1>2. CASE r.client = None
  <2> DEFINE p == EnterState(r, "RECV")
  <2>1. /\ SlotShape(p) /\ Wired(p) /\ Same(r, p) /\ Kept(r, p) /\ ~Dialling(p)
        /\ ~p.awaiting
    BY EntersEffect DEF Moves, Dialling, IsConnecting
  <2>2. x \in Idle(s, p)
    BY <1>2 DEF Ready
  <2> HIDE DEF p
  <2>3. Effect(s, p, x) /\ ~x.unlinks
    BY <1>2, <2>1, <2>2, IdleEffect DEF Same
  <2> QED BY <2>1, <2>3, EffectFrom
<1> QED BY <1>1, <1>2

LEMMA FlushDeferredRequestEffect ==
  ASSUME NEW s, NEW r, SlotShape(r), Wired(r), ~r.onconn, ~r.awaiting, r.alive, r.deferred # None,
         NEW x \in FlushDeferredRequest(s, r)
  PROVE  Effect(s, r, x)
<1> DEFINE q == [r EXCEPT !.deferred = None]
           p == [q EXCEPT !.owes = r.deferred]
           u == [q EXCEPT !.client = None, !.key = None]
<1>1. /\ SlotShape(q) /\ Wired(q) /\ Kept(r, q) /\ ~q.onconn /\ ~q.awaiting
      /\ q.gen = r.gen /\ q.reserved = r.reserved /\ q.client = r.client /\ q.key = r.key
      /\ q.aborted = r.aborted /\ q.alive /\ q.deferred = None /\ q.owes = r.owes
  BY DEF SlotShape, SlotFields, Wired, Kept
<1>2. /\ SlotShape(p) /\ Wired(p) /\ Kept(q, p) /\ ~p.onconn /\ ~p.awaiting
      /\ p.gen = q.gen /\ p.reserved = q.reserved /\ p.client = q.client /\ p.key = q.key
      /\ p.aborted = q.aborted /\ p.alive /\ p.deferred = None /\ p.owes = r.deferred
  <2> HIDE DEF q
  <2> QED BY <1>1 DEF SlotShape, SlotFields, Wired, Kept
<1>3. /\ SlotShape(u) /\ Wired(u) /\ Kept(q, u) /\ u.gen = q.gen /\ u.reserved = q.reserved
      /\ u.client = None /\ u.key = None /\ ~u.awaiting /\ u.aborted = q.aborted
      /\ u.deferred = None /\ u.owes = r.owes
  <2> HIDE DEF q
  <2> QED BY <1>1 DEF SlotShape, SlotFields, Wired, Kept
<1>4. \/ \E y \in Ready(s, p) : x = [y EXCEPT !.registers = r.key]
      \/ x = [Does(u, <<Frame("resume", r.client, None), Frame("close", s, None)>>)
                 EXCEPT !.unlinks = TRUE]
  BY DEF FlushDeferredRequest
<1> HIDE DEF p, q, u
<1>5. ASSUME NEW y \in Ready(s, p), x = [y EXCEPT !.registers = r.key]
      PROVE  Effect(s, r, x)
  <2>1. Effect(s, p, y) /\ ~y.unlinks
    BY <1>2, ReadyEffect
  <2>4. Rests(p, y.slot)
    BY <1>2, ReadyRests
  <2>2. DOMAIN y = {"slot", "calls", "again", "registers", "unlinks"}
    <3>1. \A z, c : DOMAIN Does(z, c) = {"slot", "calls", "again", "registers", "unlinks"}
      BY DEF Does
    <3>2. \A w \in FailEndpointIO(s, [EnterState(p, "SEND") EXCEPT !.timer = "request"]) :
            DOMAIN w = {"slot", "calls", "again", "registers", "unlinks"}
      BY <3>1 DEF FailEndpointIO, HandleConnectFailure, CloseGently, CloseForce, CloseFor
    <3> QED BY <3>1, <3>2 DEF Ready, SendBytes, Idle, CloseForce, CloseFor
  <2>3. /\ x.slot = y.slot /\ x.calls = y.calls /\ x.unlinks = y.unlinks
        /\ x.registers = r.key
    BY <1>5, <2>2
  <2>5. Flushed(r, x.slot)
    BY <1>2, <2>3, <2>4 DEF Rests, Flushed
  <2> QED BY <1>1, <1>2, <2>1, <2>3, <2>5 DEF Effect, Kept, Pooled, Flushed
<1>6. ASSUME x = [Does(u, <<Frame("resume", r.client, None), Frame("close", s, None)>>)
                    EXCEPT !.unlinks = TRUE]
      PROVE  Effect(s, r, x)
  <2>1. /\ x.slot = u /\ x.unlinks /\ x.registers = None /\ x.again = FALSE
        /\ x.calls = <<Frame("resume", r.client, None), Frame("close", s, None)>>
    BY <1>6 DEF Does
  <2> QED BY <1>1, <1>3, <2>1 DEF Effect, Kept
<1> QED BY <1>4, <1>5, <1>6

LEMMA OnSlotConnectedEffect ==
  ASSUME NEW s, NEW r, SlotShape(r), Wired(r), ~r.awaiting, r.alive, NEW result,
         NEW x \in OnSlotConnected(s, r, result)
  PROVE  Effect(s, r, x)
<1> DEFINE q == [r EXCEPT !.onconn = FALSE]
<1>1. SlotShape(q) /\ Same(r, q) /\ Kept(r, q) /\ ~q.onconn /\ ~q.awaiting /\ q.alive
  BY DEF SlotShape, SlotFields, Same, Kept
<1>2. Wired(q)
  BY DEF SlotShape, SlotFields, Wired
<1>3. \/ x \in HandleConnectFailure(s, q, result = "FATAL", TRUE)
      \/ r.deferred # None /\ x \in FlushDeferredRequest(s, q)
      \/ x \in Ready(s, q)
  BY DEF OnSlotConnected
<1> HIDE DEF q
<1>4. Effect(s, q, x)
  BY <1>1, <1>2, <1>3, HandleConnectFailureEffect, FlushDeferredRequestEffect, ReadyEffect
     DEF Same
<1> QED BY <1>1, <1>4, EffectFrom

LEMMA RunOnConnectEffect ==
  ASSUME NEW s, NEW r, SlotShape(r), Wired(r), ~r.awaiting, r.onconn,
         NEW x \in RunOnConnect(s, r)
  PROVE  Effect(s, r, x)
<1>0. r.alive
  BY DEF Wired
<1>1. CASE x \in {Does(EnterState(r, "SEND"), <<>>), Does(EnterState(r, "ONCONNECT"), <<>>)}
  BY <1>0, <1>1, EntersEffect
<1>2. CASE x = Does(EnterState([r EXCEPT !.ssl = TRUE], "HANDSHAKE"), <<>>)
  <2> DEFINE q == [r EXCEPT !.ssl = TRUE]
  <2>1. SlotShape(q) /\ Wired(q) /\ Same(r, q) /\ Kept(r, q) /\ ~q.awaiting
    BY DEF SlotShape, SlotFields, Wired, Same, Kept
  <2> HIDE DEF q
  <2>2. Effect(s, q, Does(EnterState(q, "HANDSHAKE"), <<>>))
    BY <2>1, EntersEffect
  <2> QED BY <1>2, <2>1, <2>2, EffectFrom DEF q
<1>3. CASE \E result \in {"READY", "RETRY", "FATAL"} : x \in OnSlotConnected(s, r, result)
  BY <1>0, <1>3, OnSlotConnectedEffect
<1> QED BY <1>1, <1>2, <1>3 DEF RunOnConnect

LEMMA FireOnConnectEffect ==
  ASSUME NEW s, NEW r, SlotShape(r), Wired(r), ~r.awaiting, r.alive,
         NEW x \in FireOnConnect(s, r)
  PROVE  Effect(s, r, x)
<1> DEFINE p == EnterState(r, "ONCONNECT")
           q == [p EXCEPT !.onconn = TRUE]
<1>1. /\ SlotShape(p) /\ Wired(p) /\ Same(r, p) /\ Kept(r, p) /\ ~p.awaiting /\ p.alive
      /\ p.ev \in {"ONCONNECT", "FATAL"}
  BY EntersEffect DEF Moves
<1>2. SlotShape(q) /\ Wired(q) /\ Same(p, q) /\ Kept(p, q) /\ ~q.awaiting /\ q.onconn
  <2> HIDE DEF p
  <2> QED BY <1>1 DEF SlotShape, SlotFields, Wired, Same, Kept
<1>3. x \in RunOnConnect(s, q)
  BY DEF FireOnConnect
<1> HIDE DEF p, q
<1>4. Effect(s, q, x)
  BY <1>2, <1>3, RunOnConnectEffect
<1> QED BY <1>1, <1>2, <1>4, EffectFrom DEF Same, Kept

LEMMA HandleEndpointHandshakeEffect ==
  ASSUME NEW s, NEW r, SlotShape(r), Wired(r), ~r.awaiting,
         NEW x \in HandleEndpointHandshake(s, r)
  PROVE  Effect(s, r, x)
<1> DEFINE p == EnterState(r, Up)
           q == [p EXCEPT !.alive = TRUE]
           t == [q EXCEPT !.timer = "request"]
<1>0. Up \in {"ONCONNECT", "SEND"}
  BY DEF Up
<1>1. /\ SlotShape(p) /\ Same(r, p) /\ Kept(r, p) /\ p.ev \in {Up, "FATAL"}
      /\ p.onconn = r.onconn /\ ~p.awaiting
  BY EnterStateMoves
<1>2. /\ SlotShape(q) /\ Wired(q) /\ Same(p, q) /\ Kept(p, q) /\ q.ev = p.ev
      /\ q.onconn = p.onconn /\ ~q.awaiting /\ q.alive
  <2> HIDE DEF p
  <2> QED BY <1>0, <1>1 DEF SlotShape, SlotFields, Wired, Same, Kept
<1>3. \/ x = Does(EnterState(r, "HANDSHAKE"), <<>>)
      \/ x \in HandleConnectFailure(s, r, FALSE, FALSE)
      \/ q.onconn /\ x \in RunOnConnect(s, q)
      \/ q.ev = "ONCONNECT" /\ x \in FireOnConnect(s, q)
      \/ ~q.onconn /\ x \in SendBytes(s, t)
      \/ ~q.onconn /\ q.ev # "ONCONNECT" /\ q.client = None /\ x \in Idle(s, q)
  BY DEF HandleEndpointHandshake
<1> HIDE DEF p, q
<1>4. SlotShape(t) /\ Wired(t) /\ Same(q, t) /\ Kept(q, t) /\ t.onconn = q.onconn /\ ~t.awaiting
  BY <1>2, TimerOnly
<1> HIDE DEF t
<1>5. CASE x = Does(EnterState(r, "HANDSHAKE"), <<>>)
  BY <1>5, EntersEffect
<1>6. CASE x \in HandleConnectFailure(s, r, FALSE, FALSE)
  BY <1>6, HandleConnectFailureEffect
<1>7. ASSUME \/ q.onconn /\ x \in RunOnConnect(s, q)
             \/ x \in FireOnConnect(s, q)
             \/ ~q.onconn /\ q.ev # "ONCONNECT" /\ q.client = None /\ x \in Idle(s, q)
      PROVE  Effect(s, q, x)
  <2>1. CASE ~q.onconn /\ q.ev # "ONCONNECT" /\ q.client = None /\ x \in Idle(s, q)
    <3>1. ~Dialling(q)
      BY <1>0, <1>1, <1>2, <2>1 DEF Dialling, IsConnecting
    <3> QED BY <1>2, <2>1, <3>1, IdleEffect
  <2> QED BY <1>2, <1>7, <2>1, RunOnConnectEffect, FireOnConnectEffect
<1>8. ASSUME ~q.onconn /\ x \in SendBytes(s, t)
      PROVE  Effect(s, q, x)
  <2>1. Effect(s, t, x)
    BY <1>4, <1>8, SendBytesEffect
  <2> QED BY <1>4, <2>1, EffectFrom
<1>9. ASSUME Effect(s, q, x)
      PROVE  Effect(s, r, x)
  BY <1>1, <1>2, <1>9, EffectFrom DEF Same, Kept
<1> QED BY <1>3, <1>5, <1>6, <1>7, <1>8, <1>9

LEMMA ConnectDoneEffect ==
  ASSUME NEW s, NEW r, SlotShape(r), Wired(r), r.ev = "CONNECT", NEW x \in ConnectDone(s, r)
  PROVE  Effect(s, r, x)
<1> DEFINE q == [r EXCEPT !.alive = TRUE]
           t == [q EXCEPT !.ssl = TRUE]
           u == [q EXCEPT !.timer = "request"]
           v == EnterState(q, "RECV")
<1>0. ~r.awaiting /\ ~r.onconn
  BY DEF Wired
<1>1. /\ SlotShape(q) /\ Wired(q) /\ Same(r, q) /\ Kept(r, q) /\ ~q.awaiting /\ ~q.onconn
      /\ q.alive
  BY <1>0 DEF SlotShape, SlotFields, Wired, Same, Kept
<1>2. \/ x \in HandleConnectFailure(s, r, FALSE, TRUE)
      \/ x \in HandleEndpointHandshake(s, t)
      \/ x \in FireOnConnect(s, q)
      \/ x \in SendBytes(s, u)
      \/ q.client = None /\ x \in Idle(s, v)
  BY DEF ConnectDone
<1> HIDE DEF q
<1>3. SlotShape(t) /\ Wired(t) /\ Same(q, t) /\ Kept(q, t) /\ ~t.awaiting
  BY <1>1 DEF SlotShape, SlotFields, Wired, Same, Kept
<1>4. SlotShape(u) /\ Wired(u) /\ Same(q, u) /\ Kept(q, u) /\ ~u.awaiting /\ ~u.onconn
  BY <1>1, TimerOnly
<1>5. SlotShape(v) /\ Wired(v) /\ Same(q, v) /\ Kept(q, v) /\ ~Dialling(v) /\ ~v.awaiting
  BY <1>1, EntersEffect DEF Moves, Dialling, IsConnecting
<1> HIDE DEF t, u, v
<1>6. CASE x \in HandleConnectFailure(s, r, FALSE, TRUE)
  BY <1>0, <1>6, HandleConnectFailureEffect
<1>7. ASSUME x \in HandleEndpointHandshake(s, t) PROVE Effect(s, q, x)
  BY <1>3, <1>7, HandleEndpointHandshakeEffect, EffectFrom
<1>8. ASSUME x \in FireOnConnect(s, q) PROVE Effect(s, q, x)
  BY <1>1, <1>8, FireOnConnectEffect
<1>9. ASSUME x \in SendBytes(s, u) PROVE Effect(s, q, x)
  BY <1>4, <1>9, SendBytesEffect, EffectFrom
<1>10. ASSUME q.client = None, x \in Idle(s, v) PROVE Effect(s, q, x)
  <2>1. Effect(s, v, x)
    BY <1>5, <1>10, IdleEffect DEF Same
  <2> QED BY <1>5, <2>1, EffectFrom
<1> QED BY <1>1, <1>2, <1>6, <1>7, <1>8, <1>9, <1>10, EffectFrom

LEMMA HandleEndpointWriteReadyEffect ==
  ASSUME NEW s, NEW r, SlotShape(r), Wired(r), NEW x \in HandleEndpointWriteReady(s, r)
  PROVE  Effect(s, r, x) /\ Calm(r, x)
<1>1. CASE r.ev = "SEND" /\ r.onconn
  <2>1. x \in Ignored(r) \cup RunOnConnect(s, r) \cup FailEndpointIO(s, r)
    BY <1>1 DEF HandleEndpointWriteReady
  <2>2. Dialling(r) /\ ~r.awaiting
    BY <1>1 DEF Dialling, IsConnecting, Wired
  <2> QED BY <1>1, <2>1, <2>2, IgnoredEffect, RunOnConnectEffect, FailEndpointIOEffect DEF Calm
<1>2. CASE r.ev = "SEND" /\ ~r.onconn
  <2>1. x \in SendBytes(s, r)
    BY <1>2 DEF HandleEndpointWriteReady
  <2> QED BY <1>2, <2>1, SendBytesEffect DEF Wired
<1>3. CASE r.ev = "ONCONNECT" /\ ~r.onconn
  <2>1. x \in FireOnConnect(s, r)
    BY <1>3 DEF HandleEndpointWriteReady
  <2> QED BY <1>3, <2>1, FireOnConnectEffect DEF Wired, Calm, Dialling, IsConnecting
<1>4. CASE r.ev = "CONNECT"
  <2>1. x \in ConnectDone(s, r)
    BY <1>4 DEF HandleEndpointWriteReady
  <2> QED BY <1>4, <2>1, ConnectDoneEffect DEF Calm, Dialling, IsConnecting
<1>5. CASE ~(r.ev \in {"SEND", "CONNECT"} \/ (r.ev = "ONCONNECT" /\ ~r.onconn))
  <2>1. x \in Ignored(r)
    BY <1>5 DEF HandleEndpointWriteReady
  <2> QED BY <2>1, IgnoredEffect
<1> QED BY <1>1, <1>2, <1>3, <1>4, <1>5

LEMMA HandleReceiveSingleSlotEffect ==
  ASSUME NEW s, NEW r, SlotShape(r), Wired(r), r.ev = "RECV", HasRequestInFlight(r),
         NEW x \in HandleReceiveSingleSlot(s, r)
  PROVE  Effect(s, r, x) /\ Calm(r, x)
<1> DEFINE q == [r EXCEPT !.shutting = TRUE]
<1>1. CASE x \in Ignored(r)
  BY <1>1, IgnoredEffect
<1>2. CASE x = CloseForce(s, q)
  <2>1. /\ SlotShape(q) /\ Wired(q) /\ Same(r, q) /\ Kept(r, q) /\ Dialling(q) = Dialling(r)
        /\ q.awaiting = r.awaiting
    BY DEF SlotShape, SlotFields, Wired, Same, Kept, Dialling, IsConnecting
  <2> HIDE DEF q
  <2>2. Effect(s, q, x) /\ Calm(q, x)
    BY <1>2, <2>1, CloseForceEffect
  <2> QED BY <2>1, <2>2, EffectFrom, CalmFrom
<1>3. CASE \/ \E v \in {"KEEP_ALIVE", "CLOSE"} : x = Does(r, <<Frame("complete", s, v)>>)
           \/ x = Does(r, <<Frame("parseError", s, None)>>)
  <2>1. ~Dialling(r)
    BY DEF Dialling, IsConnecting, Wired
  <2> QED BY <1>3, <2>1, MovesSelf, DoesEffect DEF CallsFrom, Calm, Kept, Does
<1> QED BY <1>1, <1>2, <1>3 DEF HandleReceiveSingleSlot

LEMMA HandleEndpointEpollInEffect ==
  ASSUME NEW s, NEW r, SlotShape(r), Wired(r), NEW x \in HandleEndpointEpollIn(s, r)
  PROVE  Effect(s, r, x) /\ Calm(r, x)
<1>1. CASE r.ev = "RECV"
  <2>1. \/ x \in FailEndpointIO(s, r) \cup HandleEndpointPush(s, r)
        \/ HasRequestInFlight(r) /\ x \in HandleReceiveSingleSlot(s, r)
    BY <1>1 DEF HandleEndpointEpollIn
  <2>2. CASE x \in HandleEndpointPush(s, r)
    BY <2>2, IgnoredEffect, CloseForceEffect DEF HandleEndpointPush
  <2> QED BY <1>1, <2>1, <2>2, FailEndpointIOEffect, HandleReceiveSingleSlotEffect
<1>2. CASE r.ev = "ONCONNECT"
  <2>1. Dialling(r) /\ ~r.awaiting /\ r.alive
    BY <1>2 DEF Dialling, IsConnecting, Wired
  <2>2. CASE r.onconn
    <3>1. x \in Ignored(r) \cup RunOnConnect(s, r) \cup HandleConnectFailure(s, r, FALSE, TRUE)
      BY <1>2, <2>2 DEF HandleEndpointEpollIn
    <3> QED BY <2>1, <2>2, <3>1, IgnoredEffect, RunOnConnectEffect, HandleConnectFailureEffect
            DEF Calm
  <2>3. CASE ~r.onconn
    <3>1. x \in {Does(EnterState(r, "RECV"), <<>>)} \cup HandleConnectFailure(s, r, FALSE, TRUE)
      BY <1>2, <2>3 DEF HandleEndpointEpollIn
    <3>2. CASE x \in HandleConnectFailure(s, r, FALSE, TRUE)
      BY <2>1, <3>2, HandleConnectFailureEffect DEF Calm
    <3>3. CASE x = Does(EnterState(r, "RECV"), <<>>)
      BY <2>1, <2>3, <3>3, EntersEffect DEF Calm
    <3> QED BY <3>1, <3>2, <3>3
  <2> QED BY <2>2, <2>3
<1>3. CASE r.ev \notin {"RECV", "ONCONNECT"}
  <2>1. x \in Ignored(r)
    BY <1>3 DEF HandleEndpointEpollIn
  <2> QED BY <2>1, IgnoredEffect
<1> QED BY <1>1, <1>2, <1>3

\* HandleEndpointEvent and HandleExpiry, whatever the event reports.
LEMMA HandleEndpointEventEffect ==
  ASSUME NEW s, NEW r, SlotShape(r), Wired(r), NEW x \in HandleEndpointEvent(s, r)
  PROVE  Effect(s, r, x) /\ Calm(r, x)
<1>1. CASE r.ev = "HANDSHAKE"
  <2>1. x \in HandleEndpointHandshake(s, r)
    BY <1>1 DEF HandleEndpointEvent
  <2> QED BY <1>1, <2>1, HandleEndpointHandshakeEffect DEF Wired, Calm, Dialling, IsConnecting
<1>2. CASE r.ev = "SHUTDOWN"
  <2> DEFINE q == [r EXCEPT !.ssl = FALSE]
  <2>1. /\ SlotShape(q) /\ Wired(q) /\ Same(r, q) /\ Kept(r, q) /\ Dialling(q) = Dialling(r)
        /\ q.awaiting = r.awaiting
    BY DEF SlotShape, SlotFields, Wired, Same, Kept, Dialling, IsConnecting
  <2>2. x \in Ignored(r) \cup {Does(q, <<Frame("release", s, None)>>)}
    BY <1>2 DEF HandleEndpointEvent
  <2> HIDE DEF q
  <2>3. CASE x = Does(q, <<Frame("release", s, None)>>)
    <3>1. Effect(s, q, x) /\ ~x.unlinks /\ x.slot = q
      BY <2>1, <2>3, DoesEffect, MovesSelf DEF CallsFrom, Does
    <3> QED BY <2>1, <3>1, EffectFrom DEF Calm, Kept
  <2> QED BY <2>2, <2>3, IgnoredEffect
<1>3. CASE r.ev \notin {"HANDSHAKE", "SHUTDOWN"}
  <2>1. x \in FailEndpointIO(s, r) \cup HandleEndpointEpollIn(s, r)
              \cup HandleEndpointWriteReady(s, r)
    BY <1>3 DEF HandleEndpointEvent
  <2> QED BY <2>1, FailEndpointIOEffect, HandleEndpointEpollInEffect, HandleEndpointWriteReadyEffect
<1> QED BY <1>1, <1>2, <1>3

LEMMA HandleExpiryEffect ==
  ASSUME NEW s, NEW p, SlotShape(p), Wired(p),
         NEW x \in HandleExpiry(s, [p EXCEPT !.timer = "none"])
  PROVE  Effect(s, p, x) /\ Calm(p, x)
<1> DEFINE r == [p EXCEPT !.timer = "none"]
<1>1. /\ SlotShape(r) /\ Wired(r) /\ Same(p, r) /\ Kept(p, r) /\ Dialling(r) = Dialling(p)
      /\ r.awaiting = p.awaiting
  BY TimerOnly
<1> HIDE DEF r
<1>2. Effect(s, r, x) /\ Calm(r, x)
  <2>1. CASE IsConnecting(r)
    <3>1. x \in HandleConnectFailure(s, r, FALSE, FALSE) /\ ~r.awaiting /\ Dialling(r)
      BY <1>1, <2>1 DEF HandleExpiry, r, Wired, IsConnecting, Dialling
    <3> QED BY <1>1, <3>1, HandleConnectFailureEffect DEF Calm
  <2>2. CASE ~IsConnecting(r)
    <3>1. x = CloseForce(s, r)
      BY <2>2 DEF HandleExpiry, r
    <3> QED BY <1>1, <3>1, CloseForceEffect
  <2> QED BY <2>1, <2>2
<1> QED BY <1>1, <1>2, EffectFrom, CalmFrom

-------------------------------------------------------------------------------
(* The inductive invariant.                                                  *)

\* A handler that calls again after a failure holds no reservation.
Tame == ~(Pinning /\ Retries)

Tokens == [on : Clients, gen : Nat]
Pins == [slot : Slots \cup {None}, gen : Nat]
SlotOps == {"release", "complete", "finish", "parseError", "close", "notify", "free"}
FrameType ==
    [op : {"run"}, on : Clients, arg : {"ok", "failed"}]
    \cup [op : {"resume"}, on : Clients \cup {None}, arg : Reqs \cup {None}]
    \cup [op : {"waiters"}, on : Seq(Tokens), arg : Reqs \cup {None}]
    \cup [op : SlotOps, on : Slots, arg : {None, "refused", "KEEP_ALIVE", "CLOSE"}]
    \cup [op : {"erase"}, on : Coalesced, arg : {None}]
    \cup [op : {"unpin"}, on : Clients, arg : Pins]
    \cup [op : {"detach", "freeClient"}, on : Clients, arg : {None}]

ClientFields == {"live", "gen", "co", "async", "ep", "pin", "req"}
ClientShape(d) ==
    /\ DOMAIN d = ClientFields
    /\ d.gen \in Nat
    /\ d.ep \in Slots \cup {None}
    /\ d.pin \in Pins

Typed ==
    /\ DOMAIN slot = Slots /\ \A s \in Slots : SlotShape(slot[s]) /\ Wired(slot[s])
    /\ DOMAIN client = Clients /\ \A c \in Clients : ClientShape(client[c])
    /\ pending \in [Coalesced -> [by : Slots \cup {None}, waiters : Seq(Tokens)]]
    /\ stack \in Seq(FrameType)
    /\ reconnects \subseteq [on : Slots, gen : Nat]

\* The stack from its bottom: a handler keeps its place while others run above it.
Height == Len(stack)
Down == [p \in 1 .. Len(stack) |-> stack[Len(stack) + 1 - p]]
Depth == 1 .. Height

Ending(s) == \E p \in Depth : /\ Down[p].op \in {"release", "notify", "free", "close"}
                              /\ Down[p].on = s
Erasing(k) == \E p \in Depth : Down[p].op = "erase" /\ Down[p].on = k

\* A slot serves the client that waits for it.
Linked ==
    /\ \A c \in Clients : client[c].ep # None => client[c].co = "waits" /\ client[c].live
    /\ \A s \in Slots, c \in Clients : slot[s].client = c <=> client[c].ep = s

\* A list of waiters names client c of generation g, at most once, and no later
\* generation of it.
Waits(tokens, c, g) == \E j \in 1 .. Len(tokens) : tokens[j].on = c /\ tokens[j].gen = g
Old(tokens, c, g) == \A j \in 1 .. Len(tokens) : tokens[j].on = c => tokens[j].gen <= g
Once(tokens, c, g) ==
    \A i, j \in 1 .. Len(tokens) :
        tokens[i].on = c /\ tokens[i].gen = g /\ tokens[j].on = c /\ tokens[j].gen = g
        => i = j

\* The frame at p will wake client c; c is parked under key k.
Owes(f, c, g) ==
    \/ f.op \in {"run", "resume"} /\ f.on = c
    \/ f.op = "waiters" /\ Waits(f.on, c, g)
Woken(p, c) == Owes(Down[p], c, client[c].gen)
Parked(k, c) == Waits(pending[k].waiters, c, client[c].gen)

\* Every suspended client has one frame, one slot or one entry to wake it.
WokenOnce ==
    /\ \A p \in Depth, c \in Clients : Woken(p, c) =>
          /\ client[c].live /\ client[c].ep = None
          /\ client[c].co = IF Down[p].op = "run" THEN "runs" ELSE "waits"
    /\ \A p, q \in Depth, c \in Clients : Woken(p, c) /\ Woken(q, c) => p = q
    /\ \A p \in Depth, c \in Clients : Down[p].op = "waiters" =>
          Old(Down[p].on, c, client[c].gen) /\ Once(Down[p].on, c, client[c].gen)
ParkedOnce ==
    /\ \A k \in Coalesced, c \in Clients : Old(pending[k].waiters, c, client[c].gen)
    /\ \A k \in Coalesced, c \in Clients :
          ~Erasing(k) => Once(pending[k].waiters, c, client[c].gen)
    /\ \A k \in Coalesced, c \in Clients : ~Erasing(k) /\ Parked(k, c) =>
          /\ client[c].live /\ client[c].ep = None /\ client[c].co = "waits"
          /\ \A p \in Depth : ~Woken(p, c)
          /\ \A l \in Coalesced : ~Erasing(l) /\ Parked(l, c) => l = k
    /\ \A k \in Coalesced : pending[k].by = None => pending[k].waiters = <<>>

\* A client that is being closed does not run any more.
Closing ==
    \A p \in Depth : Down[p].op = "freeClient" =>
        /\ ~client[Down[p].on].async
        /\ \A q \in Depth : ~(Down[q].op = "run" /\ Down[q].on = Down[p].on)
        /\ client[Down[p].on].ep = None \/ (Height > 1 /\ Down[2].op = "detach")

\* Where in the stack a frame may be.
Placed ==
    \A p \in Depth :
        /\ Down[p].op \in {"release", "unpin"} => p = Height
        /\ Down[p].op \in {"complete", "parseError"} => Height = 1
        /\ Down[p].op \in {"close", "freeClient"} => p = 1
        /\ Down[p].op = "finish" => p = 2 /\ Down[1].op = "resume"
        /\ Down[p].op = "detach" =>
              p = 2 /\ Down[1].op = "freeClient" /\ Down[1].on = Down[p].on
        /\ Down[p].op = "notify" =>
              p > 1 /\ Down[p - 1].op = "free" /\ Down[p - 1].on = Down[p].on
        /\ Down[p].op = "erase" => p > 2

\* A frame that wakes nobody, neither itself nor through the calls it makes.
Mute(f) ==
    \/ f.op \in {"unpin", "erase", "free"}
    \/ f.op = "resume" /\ f.on = None
    \/ f.op = "waiters" /\ f.on = <<>>
    \/ f.op = "notify" /\ slot[f.on].client = None
    \/ /\ f.op = "release" /\ slot[f.on].client = None
       /\ slot[f.on].key # None => pending[slot[f.on].key].waiters = <<>>
\* ... or a coroutine that only cleans up.
Dumb(f) == Mute(f) \/ (f.op = "run" /\ f.arg = "failed" /\ ~Retries)
DumbAbove(p) == \A q \in Depth : q > p => Dumb(Down[q])

\* Nothing wakes a coroutine above a coroutine.
NoNesting ==
    /\ \A p, q \in Depth : Down[p].op = "run" /\ q > p => Mute(Down[q])
    /\ \A p \in Depth : Down[p].op = "release" => Mute(Down[p]) \/ p <= 2
\* A slot that has been given back is not taken again while a handler has still
\* to touch it.
NotTaken ==
    /\ \A p \in Depth : Down[p].op \in SlotOps => slot[Down[p].on].leased \/ DumbAbove(p)
    /\ \A p, q \in Depth :
          /\ p < q /\ Down[p].op \in SlotOps /\ Down[q].op \in SlotOps
          /\ Down[p].on = Down[q].on
          => \/ Pinning /\ DumbAbove(p)
             \/ q = p + 1 /\ Down[p].op = "free" /\ Down[q].op = "notify"
    /\ \A p, q \in Depth : Down[p].op \in SlotOps /\ slot[Down[p].on].reserved /\ q > p =>
          \/ Dumb(Down[q])
          \/ q = Height /\ Down[q].op = "notify" /\ Down[q].on = Down[p].on
          \/ q = Height /\ Down[q].op = "resume" /\ Down[q].arg = None
\* What a handler that goes on finds in its slot.
Expected ==
    \A p \in Depth :
        /\ Down[p].op = "finish" =>
              /\ slot[Down[p].on].client = None /\ slot[Down[p].on].key = None
              /\ ~Dialling(slot[Down[p].on])
        /\ Down[p].op = "complete" => ~Dialling(slot[Down[p].on])
        /\ Down[p].op = "free" =>
              \/ slot[Down[p].on].client = None
              \/ p < Height /\ Down[p + 1].op = "notify" /\ Down[p + 1].on = Down[p].on

\* What a slot carries.
Carried ==
    \A s \in Slots :
        /\ slot[s].client # None => slot[s].leased
        /\ ~slot[s].leased => slot[s].key = None /\ ~slot[s].reserved
        /\ slot[s].key # None => ~slot[s].reserved
        /\ slot[s].awaiting => slot[s].client = None
        /\ Dialling(slot[s]) /\ slot[s].client = None
           /\ (slot[s].key # None \/ slot[s].reserved) => Ending(s)
        /\ Dialling(slot[s]) /\ ~slot[s].leased => Ending(s)

\* Who holds a reservation.
Pinned ==
    /\ \A s \in Slots : slot[s].reserved => Pinning
    /\ \A c \in Clients : client[c].pin.slot # None =>
          /\ client[c].pin.gen <= slot[client[c].pin.slot].gen
          /\ \A d \in Clients : client[d].pin = client[c].pin => d = c
          /\ \A p \in Depth : Down[p].op = "unpin" => Down[p].arg # client[c].pin
    /\ \A p \in Depth : Down[p].op = "unpin" /\ Down[p].arg.slot # None =>
          Down[p].arg.gen <= slot[Down[p].arg.slot].gen
    /\ \A s \in Slots, c \in Clients : slot[s].client = c /\ slot[s].reserved =>
          \/ client[c].pin = [slot |-> s, gen |-> slot[s].gen]
          \/ \E p \in Depth : /\ Down[p].op = "unpin"
                              /\ Down[p].arg = [slot |-> s, gen |-> slot[s].gen]

SInv ==
    /\ Typed /\ Linked /\ WokenOnce /\ ParkedOnce /\ Closing /\ Placed
    /\ NoNesting /\ NotTaken /\ Expected /\ Carried /\ Pinned

-------------------------------------------------------------------------------
(* The stack from its bottom. *)

\* The frame on top is replaced by the calls G.
LEMMA Replaced ==
  ASSUME NEW S, NEW F, NEW G \in Seq(S), F \in Seq(S), F # <<>>, NEW T, T = G \o Tail(F)
  PROVE  /\ T \in Seq(S) /\ Len(T) = Len(F) - 1 + Len(G)
         /\ \A i \in 1 .. Len(F) - 1 : T[Len(T) + 1 - i] = F[Len(F) + 1 - i]
         /\ \A i \in 1 .. Len(G) : T[Len(T) + 1 - (Len(F) - 1 + i)] = G[Len(G) + 1 - i]
<1>1. Tail(F) \in Seq(S) /\ Len(Tail(F)) = Len(F) - 1 /\ Len(F) \in Nat \ {0} /\ Len(G) \in Nat
  OBVIOUS
<1>2. \A i \in 1 .. Len(F) - 1 : Tail(F)[i] = F[i + 1]
  OBVIOUS
<1>3. T \in Seq(S) /\ Len(T) = Len(G) + Len(Tail(F))
  BY <1>1
<1>4. \A i \in 1 .. Len(G) : T[i] = G[i]
  BY <1>1
<1>5. \A i \in Len(G) + 1 .. Len(T) : T[i] = Tail(F)[i - Len(G)]
  BY <1>1, <1>3
<1>6. ASSUME NEW i \in 1 .. Len(F) - 1
      PROVE  T[Len(T) + 1 - i] = F[Len(F) + 1 - i]
  <2>1. Len(T) + 1 - i \in Len(G) + 1 .. Len(T) /\ Len(T) + 1 - i - Len(G) = Len(F) - i
    BY <1>1, <1>3
  <2>2. Len(F) - i \in 1 .. Len(F) - 1
    BY <1>1
  <2>3. T[Len(T) + 1 - i] = Tail(F)[Len(F) - i]
    BY <1>5, <2>1
  <2> QED BY <1>1, <1>2, <2>2, <2>3
<1>7. ASSUME NEW i \in 1 .. Len(G)
      PROVE  T[Len(T) + 1 - (Len(F) - 1 + i)] = G[Len(G) + 1 - i]
  <2>j. PICK j, m : j = Len(G) + 1 - i /\ m = Len(T) + 1 - (Len(F) - 1 + i)
    OBVIOUS
  <2>1. m = j
    BY <1>1, <1>3, <2>j
  <2>2. j \in 1 .. Len(G)
    BY <1>1, <2>j
  <2>3. T[j] = G[j]
    BY <1>4, <2>2
  <2> QED BY <2>1, <2>3, <2>j
<1>8. T \in Seq(S) /\ Len(T) = Len(F) - 1 + Len(G)
  BY <1>1, <1>3
<1> QED BY <1>6, <1>7, <1>8

\* What a step leaves of the stack: the frames up to b, and the calls G on top.
Pushed(b, G) ==
    /\ Height' = b + Len(G)
    /\ \A p \in 1 .. b : Down'[p] = Down[p]
    /\ \A i \in 1 .. Len(G) : Down'[b + i] = G[Len(G) + 1 - i]

LEMMA TopReplaced ==
  ASSUME stack \in Seq(FrameType), stack # <<>>, NEW G \in Seq(FrameType),
         stack' = G \o Tail(stack)
  PROVE  /\ stack' \in Seq(FrameType)
         /\ Pushed(Height - 1, G)
         /\ Height \in Nat \ {0} /\ Head(stack) = Down[Height]
         /\ Down[Height] \in FrameType
<1> DEFINE F == stack
           T == stack'
<1>1. /\ T \in Seq(FrameType) /\ Len(T) = Len(F) - 1 + Len(G)
      /\ \A i \in 1 .. Len(F) - 1 : T[Len(T) + 1 - i] = F[Len(F) + 1 - i]
      /\ \A i \in 1 .. Len(G) : T[Len(T) + 1 - (Len(F) - 1 + i)] = G[Len(G) + 1 - i]
  <2> HIDE DEF T
  <2>1. T = G \o Tail(F)
    BY DEF T
  <2> QED BY <2>1, Replaced
<1>2. Len(F) \in Nat \ {0} /\ Len(G) \in Nat
  OBVIOUS
<1>3. \A i \in 1 .. Len(T) : Down'[i] = T[Len(T) + 1 - i]
  BY DEF Down
<1>4. \A i \in 1 .. Len(F) : Down[i] = F[Len(F) + 1 - i]
  BY DEF Down
<1>5. Head(F) = F[1] /\ F[1] \in FrameType
  OBVIOUS
<1> HIDE DEF F, T
<1>6. Down[Len(F)] = F[1]
  <2>1. Len(F) \in 1 .. Len(F) /\ Len(F) + 1 - Len(F) = 1
    BY <1>2
  <2> QED BY <2>1, <1>4
<1>7. \A i \in 1 .. Len(F) - 1 : Down'[i] = Down[i]
  BY SMTT(40), <1>1, <1>2, <1>3, <1>4
<1>8. \A i \in 1 .. Len(G) : Down'[Len(F) - 1 + i] = G[Len(G) + 1 - i]
  <2> TAKE i \in 1 .. Len(G)
  <2>1. Len(F) - 1 + i \in 1 .. Len(T)
    BY <1>1, <1>2
  <2> QED BY <2>1, <1>1, <1>3
<1>9. Height = Len(F) /\ Height' = Len(T)
  BY DEF Height, F, T
<1> QED BY <1>1, <1>2, <1>5, <1>6, <1>7, <1>8, <1>9 DEF Pushed, F, T

LEMMA EmptyReplaced ==
  ASSUME stack = <<>>, NEW G \in Seq(FrameType), stack' = G
  PROVE  /\ stack' \in Seq(FrameType)
         /\ Pushed(0, G) /\ Height = 0
<1>1. Len(G) \in Nat /\ Height = 0 /\ Height' = Len(G)
  BY DEF Height
<1>2. \A i \in 1 .. Len(G) : Down'[i] = G[Len(G) + 1 - i]
  BY DEF Down
<1> QED BY <1>1, <1>2 DEF Pushed

\* The frames that are pushed have their types.
LEMMA FrameFacts ==
  ASSUME NEW f \in FrameType
  PROVE  /\ f.op \in {"run", "resume", "waiters", "erase", "unpin", "detach", "freeClient"}
                     \cup SlotOps
         /\ f.op = "run" => f.on \in Clients
         /\ f.op = "resume" => f.on \in Clients \cup {None} /\ f.arg \in Reqs \cup {None}
         /\ f.op = "waiters" => f.on \in Seq(Tokens) /\ f.arg \in Reqs \cup {None}
         /\ f.op \in SlotOps => /\ f.on \in Slots
                                /\ f.arg \in {None, "refused", "KEEP_ALIVE", "CLOSE"}
         /\ f.op = "erase" => f.on \in Coalesced
         /\ f.op = "unpin" => f.on \in Clients /\ f.arg \in Pins
         /\ f.op \in {"detach", "freeClient"} => f.on \in Clients
  BY DEF FrameType, SlotOps

LEMMA FrameTypes ==
  /\ \A c \in Clients, a \in {"ok", "failed"} : Frame("run", c, a) \in FrameType
  /\ \A c \in Clients \cup {None}, a \in Reqs \cup {None} : Frame("resume", c, a) \in FrameType
  /\ \A w \in Seq(Tokens), a \in Reqs \cup {None} : Frame("waiters", w, a) \in FrameType
  /\ \A o \in SlotOps, s \in Slots, a \in {None, "refused", "KEEP_ALIVE", "CLOSE"} :
        Frame(o, s, a) \in FrameType
  /\ \A k \in Coalesced : Frame("erase", k, None) \in FrameType
  /\ \A c \in Clients, a \in Pins : Frame("unpin", c, a) \in FrameType
  /\ \A c \in Clients, o \in {"detach", "freeClient"} : Frame(o, c, None) \in FrameType
  BY DEF FrameType, Frame

-------------------------------------------------------------------------------
(* Lists of waiters. *)

LEMMA WaitsEmpty ==
  ASSUME NEW c, NEW g
  PROVE  ~Waits(<<>>, c, g) /\ Old(<<>>, c, g) /\ Once(<<>>, c, g)
  BY DEF Waits, Old, Once

LEMMA WaitsTail ==
  ASSUME NEW w \in Seq(Tokens), w # <<>>, NEW c, NEW g
  PROVE  /\ Waits(w, c, g) <=> Waits(Tail(w), c, g) \/ (Head(w).on = c /\ Head(w).gen = g)
         /\ Old(w, c, g) => Old(Tail(w), c, g)
         /\ Once(w, c, g) => /\ Once(Tail(w), c, g)
                             /\ Head(w).on = c /\ Head(w).gen = g => ~Waits(Tail(w), c, g)
         /\ Tail(w) \in Seq(Tokens) /\ Head(w) \in Tokens
<1>1. /\ Tail(w) \in Seq(Tokens) /\ Len(Tail(w)) = Len(w) - 1 /\ Len(w) \in Nat \ {0}
      /\ Head(w) = w[1] /\ \A i \in 1 .. Len(w) - 1 : Tail(w)[i] = w[i + 1]
      /\ w[1] \in Tokens
  OBVIOUS
<1> DEFINE v == Tail(w)
           n == Len(w)
<1>2. /\ Len(v) = n - 1 /\ n \in Nat \ {0} /\ \A i \in 1 .. n - 1 : v[i] = w[i + 1]
      /\ \A i \in 2 .. n : w[i] = v[i - 1]
  <2>1. \A i \in 2 .. n : i - 1 \in 1 .. n - 1 /\ (i - 1) + 1 = i
    BY <1>1
  <2> QED BY <1>1, <2>1
<1> HIDE DEF v, n
<1>3. Waits(w, c, g) <=> Waits(v, c, g) \/ (w[1].on = c /\ w[1].gen = g)
  <2>1. ASSUME Waits(w, c, g) PROVE Waits(v, c, g) \/ (w[1].on = c /\ w[1].gen = g)
    <3>1. PICK j \in 1 .. n : w[j].on = c /\ w[j].gen = g
      BY <2>1 DEF Waits, n
    <3>2. CASE j # 1
      <4>1. j \in 2 .. n /\ j - 1 \in 1 .. n - 1
        BY <1>2, <3>1, <3>2
      <4> QED BY <1>2, <3>1, <4>1 DEF Waits
    <3> QED BY <3>1, <3>2
  <2>2. ASSUME Waits(v, c, g) PROVE Waits(w, c, g)
    <3>1. PICK j \in 1 .. n - 1 : v[j].on = c /\ v[j].gen = g
      BY <1>2, <2>2 DEF Waits
    <3>2. j + 1 \in 1 .. n /\ v[j] = w[j + 1]
      BY <1>2, <3>1
    <3> QED BY <3>1, <3>2 DEF Waits, n
  <2>3. ASSUME w[1].on = c, w[1].gen = g PROVE Waits(w, c, g)
    BY <1>2, <2>3 DEF Waits, n
  <2> QED BY <2>1, <2>2, <2>3
<1>4. Old(w, c, g) => Old(v, c, g)
  <2> SUFFICES ASSUME Old(w, c, g), NEW j \in 1 .. n - 1, v[j].on = c PROVE v[j].gen <= g
    BY <1>2 DEF Old
  <2>1. j + 1 \in 1 .. n /\ v[j] = w[j + 1]
    BY <1>2
  <2> QED BY <2>1 DEF Old, n
<1>5. Once(w, c, g) => Once(v, c, g)
  <2> SUFFICES ASSUME Once(w, c, g), NEW i \in 1 .. n - 1, NEW j \in 1 .. n - 1,
                      v[i].on = c, v[i].gen = g, v[j].on = c, v[j].gen = g
               PROVE  i = j
    BY <1>2 DEF Once
  <2>1. i + 1 \in 1 .. n /\ v[i] = w[i + 1] /\ j + 1 \in 1 .. n /\ v[j] = w[j + 1]
    BY <1>2
  <2>2. i + 1 = j + 1
    BY <2>1 DEF Once, n
  <2> QED BY <2>2
<1>6. Once(w, c, g) /\ w[1].on = c /\ w[1].gen = g => ~Waits(v, c, g)
  <2> SUFFICES ASSUME Once(w, c, g), w[1].on = c, w[1].gen = g,
                      NEW j \in 1 .. n - 1, v[j].on = c, v[j].gen = g
               PROVE  FALSE
    BY <1>2 DEF Waits
  <2>1. j + 1 \in 1 .. n /\ v[j] = w[j + 1] /\ 1 \in 1 .. n /\ j + 1 # 1
    BY <1>2
  <2> QED BY <2>1 DEF Once, n
<1> QED BY <1>1, <1>3, <1>4, <1>5, <1>6 DEF v

LEMMA WaitsAppend ==
  ASSUME NEW w \in Seq(Tokens), NEW d \in Clients, NEW h \in Nat, NEW c, NEW g \in Nat
  PROVE  LET v == Append(w, Source(d, h)) IN
         /\ v \in Seq(Tokens)
         /\ Waits(v, c, g) <=> Waits(w, c, g) \/ (d = c /\ h = g)
         /\ Old(w, c, g) /\ (d = c => h <= g) => Old(v, c, g)
         /\ Once(w, c, g) /\ ~(Waits(w, c, g) /\ d = c /\ h = g) => Once(v, c, g)
<1> DEFINE t == Source(d, h)
           v == Append(w, t)
           n == Len(w)
<1>1. t \in Tokens /\ t.on = d /\ t.gen = h
  BY DEF Source, Tokens
<1>2. /\ v \in Seq(Tokens) /\ Len(v) = n + 1 /\ n \in Nat /\ v[n + 1] = t
      /\ \A i \in 1 .. n : v[i] = w[i]
  <2> HIDE DEF t
  <2> QED BY <1>1
<1> HIDE DEF t, v, n
<1>3. 1 .. Len(v) = 1 .. n \cup {n + 1} /\ n + 1 \notin 1 .. n /\ n = Len(w)
  BY <1>2 DEF n
<1>4. Waits(v, c, g) <=> Waits(w, c, g) \/ (d = c /\ h = g)
  BY <1>1, <1>2, <1>3 DEF Waits
<1>5. Old(w, c, g) /\ (d = c => h <= g) => Old(v, c, g)
  BY <1>1, <1>2, <1>3 DEF Old
<1>6. Once(w, c, g) /\ ~(Waits(w, c, g) /\ d = c /\ h = g) => Once(v, c, g)
  BY <1>1, <1>2, <1>3 DEF Once, Waits
<1> QED BY <1>2, <1>4, <1>5, <1>6 DEF v, t

\* Nobody waits for the next generation of a client.
LEMMA WaitsNext ==
  ASSUME NEW w \in Seq(Tokens), NEW c, NEW g \in Nat, Old(w, c, g)
  PROVE  Old(w, c, g + 1) /\ ~Waits(w, c, g + 1) /\ Once(w, c, g + 1)
<1>1. \A j \in 1 .. Len(w) : w[j].gen \in Nat
  <2>1. \A j \in 1 .. Len(w) : w[j] \in Tokens
    OBVIOUS
  <2> QED BY <2>1 DEF Tokens
<1> QED BY <1>1 DEF Old, Waits, Once

-------------------------------------------------------------------------------
(* What a step has to keep of the frames it leaves alone. *)

LEMMA SetupKept ==
  ASSUME setup' = setup
  PROVE  /\ Coalesced' = Coalesced /\ Reqs' = Reqs
         /\ Retries' = Retries /\ Pinning' = Pinning
  BY DEF Coalesced, Reqs, Retries, Pinning

\* The frames 1 .. b stay, the one above them (if there was one) is replaced.
KeepsBelow(b) ==
    /\ b \in Nat /\ Height \in Nat /\ Height' \in Nat /\ b <= Height'
    /\ Height = b + 1 \/ (Height = 0 /\ b = 0)
    /\ \A p \in 1 .. b : Down'[p] = Down[p]
Fresh(b) == b + 1 .. Height'

\* Where the frames that are pushed may be.
PlacedFresh(b) ==
    \A p \in Fresh(b) :
        /\ Down'[p].op \in {"release", "unpin"} => p = Height'
        /\ Down'[p].op \in {"complete", "parseError"} => Height' = 1
        /\ Down'[p].op \in {"close", "freeClient"} => p = 1
        /\ Down'[p].op = "finish" => p = 2 /\ Down'[1].op = "resume"
        /\ Down'[p].op = "detach" =>
              p = 2 /\ Down'[1].op = "freeClient" /\ Down'[1].on = Down'[p].on
        /\ Down'[p].op = "notify" =>
              p > 1 /\ Down'[p - 1].op = "free" /\ Down'[p - 1].on = Down'[p].on
        /\ Down'[p].op = "erase" => p > 2

LEMMA PlacedStep ==
  ASSUME Placed, NEW b, KeepsBelow(b), PlacedFresh(b)
  PROVE  Placed'
<1> SUFFICES ASSUME NEW p \in Depth'
             PROVE  /\ Down'[p].op \in {"release", "unpin"} => p = Height'
                    /\ Down'[p].op \in {"complete", "parseError"} => Height' = 1
                    /\ Down'[p].op \in {"close", "freeClient"} => p = 1
                    /\ Down'[p].op = "finish" => p = 2 /\ Down'[1].op = "resume"
                    /\ Down'[p].op = "detach" =>
                          p = 2 /\ Down'[1].op = "freeClient" /\ Down'[1].on = Down'[p].on
                    /\ Down'[p].op = "notify" =>
                          p > 1 /\ Down'[p - 1].op = "free" /\ Down'[p - 1].on = Down'[p].on
                    /\ Down'[p].op = "erase" => p > 2
  BY DEF Placed
<1>1. CASE p \in Fresh(b)
  BY <1>1 DEF PlacedFresh
<1>2. CASE p \in 1 .. b
  <2>1. p \in Depth /\ p < Height /\ Height # 1 /\ Down'[p] = Down[p]
    BY <1>2 DEF KeepsBelow, Depth
  <2>2. p > 1 => p - 1 \in 1 .. b
    BY <1>2 DEF KeepsBelow
  <2>3. 1 \in 1 .. b
    BY <1>2 DEF KeepsBelow
  <2> QED BY <2>1, <2>2, <2>3 DEF Placed, KeepsBelow
<1> QED BY <1>1, <1>2 DEF KeepsBelow, Fresh, Depth

\* What the frames that stay rely on in their slots.
SlotsKept(b) ==
    \A p \in 1 .. b : Down[p].op \in SlotOps =>
        LET r == slot[Down[p].on]
            q == slot'[Down[p].on]
        IN  /\ r.leased /\ ~q.leased => DumbAbove(p)
            /\ q.reserved => r.reserved
            /\ r.client = None => q.client = None
            /\ r.key = None => q.key = None
            /\ ~Dialling(r) => ~Dialling(q)

\* What a frame that wakes nobody may push.
DumbFresh(b) ==
    /\ Height > 0 /\ Mute(Down[Height]) => \A q \in Fresh(b) : Mute(Down[q])'
    /\ Height > 0 /\ Dumb(Down[Height]) => \A q \in Fresh(b) : Dumb(Down[q])'
    /\ \A p, q \in Fresh(b) : Down'[p].op = "run" /\ q > p => Mute(Down[q])'
    /\ \A p \in Fresh(b) : Down'[p].op = "release" => Mute(Down[p])' \/ p <= 2

LEMMA MuteKept ==
  ASSUME Placed, NEW b, KeepsBelow(b), SlotsKept(b), setup' = setup, NEW p \in 1 .. b
  PROVE  /\ Mute(Down[p]) => Mute(Down[p])'
         /\ Dumb(Down[p]) => Dumb(Down[p])'
<1>1. p \in Depth /\ p < Height /\ Down'[p] = Down[p]
  BY DEF KeepsBelow, Depth
<1>2. Down[p].op # "release"
  BY <1>1 DEF Placed
<1>3. Mute(Down[p]) => Mute(Down[p])'
  BY <1>1, <1>2 DEF Mute, SlotsKept, SlotOps
<1>4. Retries' = Retries
  BY SetupKept
<1> QED BY <1>1, <1>3, <1>4 DEF Dumb

LEMMA DumbAboveKept ==
  ASSUME Placed, NEW b, KeepsBelow(b), SlotsKept(b), DumbFresh(b), setup' = setup,
         NEW p \in 1 .. b, DumbAbove(p)
  PROVE  DumbAbove(p)'
<1> SUFFICES ASSUME NEW q \in Depth', q > p PROVE Dumb(Down[q])'
  BY DEF DumbAbove
<1>1. CASE q \in 1 .. b
  <2>1. Dumb(Down[q])
    BY <1>1 DEF DumbAbove, KeepsBelow, Depth
  <2> QED BY <1>1, <2>1, MuteKept
<1>2. CASE q \in Fresh(b)
  <2>1. Height > 0 /\ Dumb(Down[Height])
    BY DEF DumbAbove, KeepsBelow, Depth
  <2> QED BY <1>2, <2>1 DEF DumbFresh
<1> QED BY <1>1, <1>2 DEF KeepsBelow, Fresh, Depth

LEMMA NoNestingStep ==
  ASSUME Placed, NoNesting, NEW b, KeepsBelow(b), SlotsKept(b), DumbFresh(b), setup' = setup
  PROVE  NoNesting'
<1>1. ASSUME NEW p \in Depth', NEW q \in Depth', Down'[p].op = "run", q > p
      PROVE  Mute(Down[q])'
  <2>1. CASE q \in 1 .. b
    <3>1. p \in 1 .. b /\ p \in Depth /\ q \in Depth
      BY <1>1, <2>1 DEF KeepsBelow, Depth
    <3>2. Mute(Down[q])
      BY <1>1, <3>1 DEF NoNesting, KeepsBelow
    <3> QED BY <2>1, <3>2, MuteKept
  <2>2. CASE p \in 1 .. b /\ q \in Fresh(b)
    <3>1. p \in Depth /\ Height \in Depth /\ Height > p /\ Height > 0
      BY <2>2 DEF KeepsBelow, Depth
    <3>2. Mute(Down[Height])
      BY <1>1, <2>2, <3>1 DEF NoNesting, KeepsBelow
    <3> QED BY <2>2, <3>1, <3>2 DEF DumbFresh
  <2>3. CASE p \in Fresh(b) /\ q \in Fresh(b)
    BY <1>1, <2>3 DEF DumbFresh
  <2> QED BY <1>1, <2>1, <2>2, <2>3 DEF KeepsBelow, Fresh, Depth
<1>2. ASSUME NEW p \in Depth', Down'[p].op = "release"
      PROVE  Mute(Down[p])' \/ p <= 2
  <2>1. p \notin 1 .. b
    BY <1>2 DEF Placed, KeepsBelow, Depth
  <2>2. p \in Fresh(b)
    BY <2>1 DEF KeepsBelow, Fresh, Depth
  <2> QED BY <1>2, <2>2 DEF DumbFresh
<1> QED BY <1>1, <1>2 DEF NoNesting

\* What the slots of the frames that are pushed have to be like.
TakenFresh(b) ==
    /\ \A p \in Fresh(b) : Down'[p].op \in SlotOps =>
          slot'[Down'[p].on].leased \/ \A q \in Fresh(b) : q > p => Dumb(Down[q])'
    /\ \A p \in 1 .. b, q \in Fresh(b) :
          Down[p].op \in SlotOps /\ Down'[q].op \in SlotOps /\ Down[p].on = Down'[q].on
          => Pinning /\ DumbAbove(p)
    /\ \A p, q \in Fresh(b) :
          /\ p < q /\ Down'[p].op \in SlotOps /\ Down'[q].op \in SlotOps
          /\ Down'[p].on = Down'[q].on
          => q = p + 1 /\ Down'[p].op = "free" /\ Down'[q].op = "notify"
    /\ \A p, q \in Fresh(b) : Down'[p].op \in SlotOps /\ slot'[Down'[p].on].reserved /\ q > p =>
          \/ Dumb(Down[q])'
          \/ q = Height' /\ Down'[q].op = "notify" /\ Down'[q].on = Down'[p].on
          \/ q = Height' /\ Down'[q].op = "resume" /\ Down'[q].arg = None
    /\ \A p \in 1 .. b : Down[p].op \in SlotOps /\ slot'[Down[p].on].reserved
          /\ (\/ Down[Height].op = "notify" /\ Down[Height].on = Down[p].on
              \/ Down[Height].op = "resume" /\ Down[Height].arg = None) =>
          \A q \in Fresh(b) :
             \/ Dumb(Down[q])'
             \/ q = Height' /\ Down'[q].op = "resume" /\ Down'[q].arg = None

LEMMA NotTakenStep ==
  ASSUME Placed, NotTaken, NEW b, KeepsBelow(b), SlotsKept(b), DumbFresh(b), TakenFresh(b),
         setup' = setup
  PROVE  NotTaken'
<1>0. Pinning' = Pinning
  BY SetupKept
<1>a. \A p \in Depth' : p \in 1 .. b \/ p \in Fresh(b)
  BY DEF KeepsBelow, Fresh, Depth
<1>b. \A p \in 1 .. b : p \in Depth /\ p < Height /\ Height \in Depth /\ Down'[p] = Down[p]
  BY DEF KeepsBelow, Depth
<1>c. \A p \in 1 .. b, q \in Fresh(b) : p < q
  BY DEF KeepsBelow, Fresh
<1>1. ASSUME NEW p \in Depth', Down'[p].op \in SlotOps
      PROVE  slot'[Down'[p].on].leased \/ DumbAbove(p)'
  <2>1. CASE p \in 1 .. b
    <3>1. slot[Down[p].on].leased \/ DumbAbove(p)
      BY <1>1, <1>b, <2>1 DEF NotTaken
    <3>2. slot'[Down[p].on].leased \/ DumbAbove(p)
      BY <1>1, <1>b, <2>1, <3>1 DEF SlotsKept
    <3> QED BY <1>b, <2>1, <3>2, DumbAboveKept
  <2>2. CASE p \in Fresh(b)
    <3>1. \A q \in Depth' : q > p => q \in Fresh(b)
      BY <1>a, <1>c, <2>2 DEF KeepsBelow, Fresh, Depth
    <3> QED BY <1>1, <2>2, <3>1 DEF TakenFresh, DumbAbove
  <2> QED BY <1>a, <2>1, <2>2
<1>2. ASSUME NEW p \in Depth', NEW q \in Depth', p < q, Down'[p].op \in SlotOps,
             Down'[q].op \in SlotOps, Down'[p].on = Down'[q].on
      PROVE  \/ Pinning' /\ DumbAbove(p)'
             \/ q = p + 1 /\ Down'[p].op = "free" /\ Down'[q].op = "notify"
  <2>1. CASE q \in 1 .. b
    <3>1. p \in 1 .. b
      BY <1>2, <2>1 DEF KeepsBelow, Depth
    <3>2. \/ Pinning /\ DumbAbove(p)
          \/ q = p + 1 /\ Down[p].op = "free" /\ Down[q].op = "notify"
      BY <1>2, <1>b, <2>1, <3>1 DEF NotTaken
    <3> QED BY <1>0, <1>b, <2>1, <3>1, <3>2, DumbAboveKept
  <2>2. CASE p \in 1 .. b /\ q \in Fresh(b)
    <3>1. Pinning /\ DumbAbove(p)
      BY <1>2, <1>b, <2>2 DEF TakenFresh
    <3> QED BY <1>0, <2>2, <3>1, DumbAboveKept
  <2>3. CASE p \in Fresh(b) /\ q \in Fresh(b)
    BY <1>2, <2>3 DEF TakenFresh
  <2> QED BY <1>2, <1>a, <1>c, <2>1, <2>2, <2>3
<1>3. ASSUME NEW p \in Depth', NEW q \in Depth', Down'[p].op \in SlotOps,
             slot'[Down'[p].on].reserved, q > p
      PROVE  \/ Dumb(Down[q])'
             \/ q = Height' /\ Down'[q].op = "notify" /\ Down'[q].on = Down'[p].on
             \/ q = Height' /\ Down'[q].op = "resume" /\ Down'[q].arg = None
  <2>1. CASE q \in 1 .. b
    <3>1. p \in 1 .. b
      BY <1>3, <2>1 DEF KeepsBelow, Depth
    <3>2. Dumb(Down[q])
      BY <1>3, <1>b, <2>1, <3>1 DEF NotTaken, SlotsKept
    <3> QED BY <2>1, <3>2, MuteKept
  <2>2. CASE p \in 1 .. b /\ q \in Fresh(b)
    <3>1. \/ Dumb(Down[Height])
          \/ Down[Height].op = "notify" /\ Down[Height].on = Down[p].on
          \/ Down[Height].op = "resume" /\ Down[Height].arg = None
      BY <1>3, <1>b, <2>2 DEF NotTaken, SlotsKept
    <3>2. CASE Dumb(Down[Height])
      BY <1>b, <2>2, <3>2 DEF DumbFresh, Depth
    <3>3. CASE ~Dumb(Down[Height])
      BY <1>3, <1>b, <2>2, <3>1, <3>3 DEF TakenFresh
    <3> QED BY <3>2, <3>3
  <2>3. CASE p \in Fresh(b) /\ q \in Fresh(b)
    BY <1>3, <2>3 DEF TakenFresh
  <2> QED BY <1>3, <1>a, <1>c, <2>1, <2>2, <2>3 DEF KeepsBelow, Fresh, Depth
<1> QED BY <1>1, <1>2, <1>3 DEF NotTaken

\* What the frames that are pushed find in their slots.
ExpectedFresh(b) ==
    /\ \A p \in Fresh(b) :
          /\ Down'[p].op = "finish" =>
                /\ slot'[Down'[p].on].client = None /\ slot'[Down'[p].on].key = None
                /\ ~Dialling(slot'[Down'[p].on])
          /\ Down'[p].op = "complete" => ~Dialling(slot'[Down'[p].on])
          /\ Down'[p].op = "free" =>
                \/ slot'[Down'[p].on].client = None
                \/ p < Height' /\ Down'[p + 1].op = "notify" /\ Down'[p + 1].on = Down'[p].on
    /\ Height > 0 /\ Down[Height].op = "notify" => slot'[Down[Height].on].client = None

LEMMA ExpectedStep ==
  ASSUME Placed, Expected, NEW b, KeepsBelow(b), SlotsKept(b), ExpectedFresh(b)
  PROVE  Expected'
<1> SUFFICES ASSUME NEW p \in Depth'
             PROVE  /\ Down'[p].op = "finish" =>
                          /\ slot'[Down'[p].on].client = None /\ slot'[Down'[p].on].key = None
                          /\ ~Dialling(slot'[Down'[p].on])
                    /\ Down'[p].op = "complete" => ~Dialling(slot'[Down'[p].on])
                    /\ Down'[p].op = "free" =>
                          \/ slot'[Down'[p].on].client = None
                          \/ /\ p < Height' /\ Down'[p + 1].op = "notify"
                             /\ Down'[p + 1].on = Down'[p].on
  BY DEF Expected, Dialling, IsConnecting
<1>1. CASE p \in Fresh(b)
  BY <1>1 DEF ExpectedFresh
<1>2. CASE p \in 1 .. b
  <2>1. p \in Depth /\ p < Height /\ Down'[p] = Down[p]
    BY <1>2 DEF KeepsBelow, Depth
  <2>2. Down[p].op # "complete"
    BY <1>2, <2>1 DEF Placed, KeepsBelow
  <2>3. ASSUME Down[p].op = "free"
        PROVE  \/ slot'[Down[p].on].client = None
               \/ p < Height' /\ Down'[p + 1].op = "notify" /\ Down'[p + 1].on = Down[p].on
    <3>1. CASE slot[Down[p].on].client = None
      BY <1>2, <2>3, <3>1 DEF SlotsKept, SlotOps
    <3>2. CASE Down[p + 1].op = "notify" /\ Down[p + 1].on = Down[p].on
      <4>1. CASE p + 1 \in 1 .. b
        BY <1>2, <3>2, <4>1 DEF KeepsBelow
      <4>2. CASE p + 1 = Height
        BY <1>2, <2>1, <3>2, <4>2 DEF ExpectedFresh, KeepsBelow
      <4> QED BY <1>2, <2>1, <4>1, <4>2 DEF KeepsBelow
    <3> QED BY <2>1, <2>3, <3>1, <3>2 DEF Expected
  <2> QED BY <1>2, <2>1, <2>2, <2>3 DEF Expected, SlotsKept, SlotOps
<1> QED BY <1>1, <1>2 DEF KeepsBelow, Fresh, Depth

\* Client c is in no frame that stays and under no key that is not being erased.
Loose(b, c) ==
    /\ \A p \in 1 .. b : ~Woken(p, c)
    /\ \A k \in Coalesced : ~Erasing(k)' => ~Parked(k, c)'
TokensKept(b) ==
    /\ \A c \in Clients : client'[c].gen = client[c].gen
    /\ \A c \in Clients :
          \/ /\ client'[c].live = client[c].live /\ client'[c].ep = client[c].ep
             /\ client'[c].co = client[c].co
          \/ Loose(b, c)
    /\ \A p \in Fresh(b), c \in Clients : Woken(p, c)' =>
          /\ Loose(b, c)
          /\ client'[c].live /\ client'[c].ep = None
          /\ client'[c].co = IF Down'[p].op = "run" THEN "runs" ELSE "waits"
          /\ \A q \in Fresh(b) : Woken(q, c)' => q = p
    /\ \A p \in Fresh(b), c \in Clients : Down'[p].op = "waiters" =>
          Old(Down'[p].on, c, client[c].gen) /\ Once(Down'[p].on, c, client[c].gen)
EntriesKept ==
    \A k \in Coalesced :
        /\ pending'[k].waiters = pending[k].waiters \/ pending'[k].waiters = <<>>
        /\ Erasing(k) /\ ~Erasing(k)' => pending'[k].waiters = <<>>
        /\ pending'[k].by = None => pending'[k].waiters = <<>>

LEMMA TokensStep ==
  ASSUME WokenOnce, ParkedOnce, NEW b, KeepsBelow(b), TokensKept(b), EntriesKept,
         setup' = setup
  PROVE  WokenOnce' /\ ParkedOnce'
<1>0. Coalesced' = Coalesced
  BY SetupKept
<1>a. \A p \in Depth' : p \in 1 .. b \/ p \in Fresh(b)
  BY DEF KeepsBelow, Fresh, Depth
<1>b. \A p \in 1 .. b : p \in Depth /\ Down'[p] = Down[p]
  BY DEF KeepsBelow, Depth
<1>c. \A c \in Clients : client'[c].gen = client[c].gen
  BY DEF TokensKept
<1>d. \A p \in 1 .. b, c \in Clients : Woken(p, c)' <=> Woken(p, c)
  BY <1>b, <1>c DEF Woken
<1>1. ASSUME NEW p \in Depth', NEW c \in Clients, Woken(p, c)'
      PROVE  /\ client'[c].live /\ client'[c].ep = None
             /\ client'[c].co = IF Down'[p].op = "run" THEN "runs" ELSE "waits"
             /\ \A q \in Depth' : Woken(q, c)' => p = q
  <2>1. CASE p \in 1 .. b
    <3>1. Woken(p, c) /\ ~Loose(b, c)
      BY <1>1, <1>d, <2>1 DEF Loose
    <3>2. /\ client'[c].live = client[c].live /\ client'[c].ep = client[c].ep
          /\ client'[c].co = client[c].co
      BY <3>1 DEF TokensKept
    <3>3. \A q \in Depth' : Woken(q, c)' => q \in 1 .. b
      BY <1>a, <3>1 DEF TokensKept
    <3> QED BY <1>b, <1>d, <2>1, <3>1, <3>2, <3>3 DEF WokenOnce
  <2>2. CASE p \in Fresh(b)
    <3>1. /\ Loose(b, c) /\ client'[c].live /\ client'[c].ep = None
          /\ client'[c].co = IF Down'[p].op = "run" THEN "runs" ELSE "waits"
          /\ \A q \in Fresh(b) : Woken(q, c)' => q = p
      BY <1>1, <2>2 DEF TokensKept
    <3>2. \A q \in 1 .. b : ~Woken(q, c)'
      BY <1>d, <3>1 DEF Loose
    <3> QED BY <1>a, <3>1, <3>2
  <2> QED BY <1>a, <2>1, <2>2
<1>2. ASSUME NEW p \in Depth', NEW c \in Clients, Down'[p].op = "waiters"
      PROVE  Old(Down'[p].on, c, client'[c].gen) /\ Once(Down'[p].on, c, client'[c].gen)
  BY <1>2, <1>a, <1>b, <1>c DEF WokenOnce, TokensKept
<1>3. ASSUME NEW k \in Coalesced, NEW c \in Clients
      PROVE  /\ Old(pending'[k].waiters, c, client'[c].gen)
             /\ ~Erasing(k)' => Once(pending'[k].waiters, c, client'[c].gen)
             /\ ~Erasing(k)' /\ Parked(k, c)' => ~Erasing(k) /\ Parked(k, c)
  BY <1>c, WaitsEmpty DEF EntriesKept, ParkedOnce, Parked
<1>4. ASSUME NEW k \in Coalesced, NEW c \in Clients, ~Erasing(k)', Parked(k, c)'
      PROVE  /\ client'[c].live /\ client'[c].ep = None /\ client'[c].co = "waits"
             /\ \A p \in Depth' : ~Woken(p, c)'
             /\ \A l \in Coalesced : ~Erasing(l)' /\ Parked(l, c)' => l = k
  <2>1. ~Erasing(k) /\ Parked(k, c) /\ ~Loose(b, c)
    BY <1>3, <1>4 DEF Loose
  <2>2. /\ client'[c].live = client[c].live /\ client'[c].ep = client[c].ep
        /\ client'[c].co = client[c].co
    BY <2>1 DEF TokensKept
  <2>3. \A p \in Fresh(b) : ~Woken(p, c)'
    BY <2>1 DEF TokensKept
  <2>4. \A p \in 1 .. b : ~Woken(p, c)'
    BY <1>b, <1>d, <2>1 DEF ParkedOnce
  <2> QED BY <1>3, <1>a, <2>1, <2>2, <2>3, <2>4 DEF ParkedOnce
<1>5. \A k \in Coalesced : pending'[k].by = None => pending'[k].waiters = <<>>
  BY DEF EntriesKept
<1>6. WokenOnce'
  BY <1>1, <1>2 DEF WokenOnce
<1>7. ParkedOnce'
  BY <1>0, <1>3, <1>4, <1>5 DEF ParkedOnce
<1> QED BY <1>6, <1>7

\* A client that is being closed goes on not running.
ClosingKept(b) ==
    /\ \A c \in Clients :
          \/ Height > 0 /\ Down[Height].op = "run" /\ Down[Height].on = c
          \/ /\ client'[c].async => client[c].async
             /\ client[c].ep = None => client'[c].ep = None
             /\ \A q \in Fresh(b) : Down'[q].op = "run" /\ Down'[q].on = c => client[c].async
    /\ Height > 0 /\ Down[Height].op = "detach" => client'[Down[Height].on].ep = None
    /\ \A p \in Fresh(b) : Down'[p].op # "freeClient"

LEMMA ClosingStep ==
  ASSUME Placed, Closing, NEW b, KeepsBelow(b), ClosingKept(b),
         \A p \in Depth : Down[p].op = "freeClient" => Down[p].on \in Clients
  PROVE  Closing'
<1> SUFFICES ASSUME NEW p \in Depth', Down'[p].op = "freeClient"
             PROVE  /\ ~client'[Down'[p].on].async
                    /\ \A q \in Depth' : ~(Down'[q].op = "run" /\ Down'[q].on = Down'[p].on)
                    /\ \/ client'[Down'[p].on].ep = None
                       \/ Height' > 1 /\ Down'[2].op = "detach"
  BY DEF Closing
<1>1. p \in 1 .. b /\ p \in Depth /\ Down'[p] = Down[p] /\ p = 1 /\ Height \in Depth
      /\ Height = b + 1
  BY DEF ClosingKept, KeepsBelow, Fresh, Depth, Placed
<1> DEFINE c == Down[p].on
<1>2. /\ c \in Clients /\ ~client[c].async
      /\ \A q \in Depth : ~(Down[q].op = "run" /\ Down[q].on = c)
      /\ client[c].ep = None \/ (Height > 1 /\ Down[2].op = "detach")
  BY <1>1 DEF Closing
<1>3. /\ ~client'[c].async
      /\ client[c].ep = None => client'[c].ep = None
      /\ \A q \in Fresh(b) : ~(Down'[q].op = "run" /\ Down'[q].on = c)
  BY <1>1, <1>2 DEF ClosingKept
<1>4. \A q \in Depth' : ~(Down'[q].op = "run" /\ Down'[q].on = c)
  BY <1>2, <1>3 DEF KeepsBelow, Fresh, Depth
<1>5. CASE Height > 1 /\ Down[2].op = "detach"
  <2>1. CASE Height = 2
    <3>1. Down[2].on = c
      BY <1>1, <1>5 DEF Placed, Depth
    <3> QED BY <1>1, <1>3, <1>4, <1>5, <2>1, <3>1 DEF ClosingKept
  <2>2. CASE Height > 2
    <3>1. 2 \in 1 .. b /\ Height' > 1 /\ Down'[2] = Down[2]
      BY <1>1, <2>2 DEF KeepsBelow
    <3> QED BY <1>1, <1>3, <1>4, <1>5, <3>1
  <2> QED BY <1>1, <1>5, <2>1, <2>2 DEF KeepsBelow
<1> QED BY <1>1, <1>2, <1>3, <1>4, <1>5

CarriedAt(s) ==
    /\ slot[s].client # None => slot[s].leased
    /\ ~slot[s].leased => slot[s].key = None /\ ~slot[s].reserved
    /\ slot[s].key # None => ~slot[s].reserved
    /\ slot[s].awaiting => slot[s].client = None
    /\ Dialling(slot[s]) /\ slot[s].client = None
       /\ (slot[s].key # None \/ slot[s].reserved) => Ending(s)
    /\ Dialling(slot[s]) /\ ~slot[s].leased => Ending(s)

\* A step on slot t leaves the other slots as they are.
LEMMA CarriedStep ==
  ASSUME Carried, NEW b, KeepsBelow(b), NEW t,
         \A s \in Slots \ {t} : slot'[s] = slot[s],
         Height > 0 /\ Down[Height].op \in {"release", "notify", "free", "close"}
             => Down[Height].on = t,
         t \in Slots => CarriedAt(t)'
  PROVE  Carried'
<1>1. ASSUME NEW s \in Slots, s # t, Ending(s)
      PROVE  Ending(s)'
  <2>1. PICK p \in Depth : /\ Down[p].op \in {"release", "notify", "free", "close"}
                           /\ Down[p].on = s
    BY <1>1 DEF Ending
  <2>2. p # Height
    BY <1>1, <2>1 DEF Depth, KeepsBelow
  <2>3. p \in 1 .. b /\ p \in Depth' /\ Down'[p] = Down[p]
    BY <2>1, <2>2 DEF Depth, KeepsBelow
  <2> QED BY <2>1, <2>3 DEF Ending
<1>2. ASSUME NEW s \in Slots PROVE CarriedAt(s)'
  BY <1>1 DEF Carried, CarriedAt, Dialling, IsConnecting
<1> QED BY <1>2 DEF Carried, CarriedAt

\* Reservations are given by Reserve and taken back by ReleaseSlot.
PinsKept(b) ==
    /\ \A s \in Slots :
          /\ slot[s].gen \in Nat /\ slot'[s].gen \in Nat /\ slot[s].gen <= slot'[s].gen
          /\ slot'[s].reserved => slot[s].reserved /\ slot'[s].gen = slot[s].gen
          /\ \A c \in Clients : slot'[s].reserved /\ slot'[s].client = c =>
                \/ slot[s].client = c
                \/ client'[c].pin = [slot |-> s, gen |-> slot'[s].gen]
          /\ Height > 0 /\ Down[Height].op = "unpin" /\ slot'[s].reserved =>
                Down[Height].arg # [slot |-> s, gen |-> slot[s].gen]
    /\ \A c \in Clients :
          \/ client'[c].pin = client[c].pin
          \/ client'[c].pin.slot = None
             /\ \A s \in Slots : ~(slot'[s].client = c /\ slot'[s].reserved)
    /\ \A p \in Fresh(b) : Down'[p].op # "unpin"

LEMMA PinnedStep ==
  ASSUME Typed, Pinned, NEW b, KeepsBelow(b), PinsKept(b), setup' = setup
  PROVE  Pinned'
<1>0. Pinning' = Pinning
  BY SetupKept
<1>a. \A p \in Depth' : Down'[p].op = "unpin" => p \in 1 .. b /\ p \in Depth /\ Down'[p] = Down[p]
  BY DEF KeepsBelow, Fresh, Depth, PinsKept
<1>b. \A c \in Clients : client[c].pin \in Pins
  BY DEF Typed, ClientShape
<1>c. \A p \in Depth : Down[p].op = "unpin" => Down[p].arg \in Pins
  <2>1. \A p \in Depth : Down[p] \in FrameType
    BY DEF Typed, Down, Depth, Height
  <2> QED BY <2>1, FrameFacts
<1>d. \A x \in Pins : x.slot \in Slots \cup {None} /\ x.gen \in Nat
  BY DEF Pins
<1>e. \A s \in Slots : \A n \in Nat : n <= slot[s].gen => n <= slot'[s].gen
  <2>1. \A s \in Slots : slot[s].gen \in Nat /\ slot'[s].gen \in Nat /\ slot[s].gen <= slot'[s].gen
    BY DEF PinsKept
  <2> QED BY <2>1
<1>1. \A s \in Slots : slot'[s].reserved => Pinning'
  BY <1>0 DEF Pinned, PinsKept
<1>2. ASSUME NEW c \in Clients, client'[c].pin.slot # None
      PROVE  /\ client'[c].pin.gen <= slot'[client'[c].pin.slot].gen
             /\ \A d \in Clients : client'[d].pin = client'[c].pin => d = c
             /\ \A p \in Depth' : Down'[p].op = "unpin" => Down'[p].arg # client'[c].pin
  <2>1. client'[c].pin = client[c].pin
    BY <1>2 DEF PinsKept
  <2>2. client[c].pin.gen <= slot'[client[c].pin.slot].gen
    <3>1. client[c].pin.slot \in Slots /\ client[c].pin.gen \in Nat
      BY <1>2, <1>b, <1>d, <2>1
    <3>2. client[c].pin.gen <= slot[client[c].pin.slot].gen
      BY <1>2, <2>1 DEF Pinned
    <3> QED BY <1>e, <3>1, <3>2
  <2>3. \A d \in Clients : client'[d].pin = client'[c].pin => client'[d].pin = client[d].pin
    BY <1>2 DEF PinsKept
  <2> QED BY <1>2, <1>a, <2>1, <2>2, <2>3 DEF Pinned
<1>3. ASSUME NEW p \in Depth', Down'[p].op = "unpin", Down'[p].arg.slot # None
      PROVE  Down'[p].arg.gen <= slot'[Down'[p].arg.slot].gen
  <2>1. Down[p].arg.gen <= slot[Down[p].arg.slot].gen /\ Down[p].arg \in Pins
    BY <1>3, <1>a, <1>c DEF Pinned
  <2>2. Down[p].arg.slot \in Slots /\ Down[p].arg.gen \in Nat /\ Down'[p] = Down[p]
    BY <1>3, <1>a, <1>d, <2>1
  <2> QED BY <1>e, <2>1, <2>2
<1>4. ASSUME NEW s \in Slots, NEW c \in Clients, slot'[s].client = c, slot'[s].reserved
      PROVE  \/ client'[c].pin = [slot |-> s, gen |-> slot'[s].gen]
             \/ \E p \in Depth' : /\ Down'[p].op = "unpin"
                                  /\ Down'[p].arg = [slot |-> s, gen |-> slot'[s].gen]
  <2>1. \/ slot[s].reserved /\ slot'[s].gen = slot[s].gen /\ client'[c].pin = client[c].pin
        \/ client'[c].pin = [slot |-> s, gen |-> slot'[s].gen]
    BY <1>4 DEF PinsKept
  <2>2. CASE slot[s].client = c /\ client'[c].pin # [slot |-> s, gen |-> slot'[s].gen]
    <3>1. PICK p \in Depth : /\ Down[p].op = "unpin"
                             /\ Down[p].arg = [slot |-> s, gen |-> slot[s].gen]
      BY <2>1, <2>2 DEF Pinned
    <3>2. p # Height
      <4>1. Height \in Depth => Height > 0
        BY DEF Depth, KeepsBelow
      <4>2. Height > 0 /\ Down[Height].op = "unpin" =>
               Down[Height].arg # [slot |-> s, gen |-> slot[s].gen]
        BY <1>4 DEF PinsKept
      <4> QED BY <3>1, <4>1, <4>2
    <3>3. p \in Depth' /\ Down'[p] = Down[p]
      BY <3>1, <3>2 DEF Depth, KeepsBelow
    <3> QED BY <2>1, <2>2, <3>1, <3>3
  <2> QED BY <1>4, <2>2 DEF PinsKept
<1> QED BY <1>1, <1>2, <1>3, <1>4 DEF Pinned

-------------------------------------------------------------------------------
(* The shapes of the steps. *)

LEMMA TopFacts ==
  ASSUME Typed, stack # <<>>
  PROVE  /\ Height \in Nat \ {0} /\ Height \in Depth
         /\ Top = Down[Height] /\ Down[Height] \in FrameType
<1>1. stack \in Seq(FrameType) /\ Len(stack) \in Nat \ {0} /\ Head(stack) = stack[1]
      /\ stack[1] \in FrameType
  BY DEF Typed
<1>2. Down[Len(stack)] = stack[Len(stack) + 1 - Len(stack)]
  BY <1>1 DEF Down
<1> QED BY <1>1, <1>2 DEF Height, Depth, Top

LEMMA FramesTyped ==
  ASSUME Typed
  PROVE  Height \in Nat /\ \A p \in Depth : Down[p] \in FrameType
<1>1. stack \in Seq(FrameType) /\ Len(stack) \in Nat
  BY DEF Typed
<1>2. \A p \in 1 .. Len(stack) : Len(stack) + 1 - p \in 1 .. Len(stack)
  BY <1>1
<1> QED BY <1>1, <1>2 DEF Down, Depth, Height

LEMMA Pops ==
  ASSUME Typed, stack # <<>>, stack' = Tail(stack)
  PROVE  /\ KeepsBelow(Height - 1) /\ stack' \in Seq(FrameType)
         /\ Fresh(Height - 1) = {} /\ Height' = Height - 1
<1>1. stack' = <<>> \o Tail(stack) /\ <<>> \in Seq(FrameType) /\ stack \in Seq(FrameType)
  BY DEF Typed
<1>2. stack' \in Seq(FrameType) /\ Pushed(Height - 1, <<>>) /\ Height \in Nat \ {0}
  BY <1>1, TopReplaced
<1> QED BY <1>2 DEF Pushed, KeepsBelow, Fresh

LEMMA Pushes1 ==
  ASSUME Typed, stack # <<>>, NEW f \in FrameType,
         stack' = <<f>> \o Tail(stack)
  PROVE  /\ KeepsBelow(Height - 1) /\ stack' \in Seq(FrameType)
         /\ Fresh(Height - 1) = {Height} /\ Height' = Height
         /\ Down'[Height] = f
<1> DEFINE G == <<f>>
<1>1. /\ G \in Seq(FrameType) /\ Len(G) = 1
      /\ G[1] = f
  OBVIOUS
<1>2. stack' = G \o Tail(stack) /\ stack \in Seq(FrameType)
  BY DEF Typed
<1> HIDE DEF G
<1>3. stack' \in Seq(FrameType) /\ Pushed(Height - 1, G) /\ Height \in Nat \ {0}
  BY <1>1, <1>2, TopReplaced
<1>4. \A i \in 1 .. Len(G) : Down'[Height - 1 + i] = G[Len(G) + 1 - i]
  BY <1>3 DEF Pushed
<1>4a. Down'[Height] = f
  <2>1. Height - 1 + 1 = Height /\ Len(G) + 1 - 1 = 1 /\ 1 \in 1 .. Len(G)
    BY <1>1, <1>3
  <2> QED BY <1>1, <1>4, <2>1
<1>5. Height' = Height
  BY <1>1, <1>3 DEF Pushed
<1>6. Fresh(Height - 1) = {Height}
  BY <1>3, <1>5 DEF Fresh
<1>7. KeepsBelow(Height - 1)
  BY <1>3, <1>5 DEF Pushed, KeepsBelow
<1> QED BY <1>3, <1>5, <1>6, <1>7, <1>4a

LEMMA Pushes2 ==
  ASSUME Typed, stack # <<>>, NEW f \in FrameType, NEW g \in FrameType,
         stack' = <<f, g>> \o Tail(stack)
  PROVE  /\ KeepsBelow(Height - 1) /\ stack' \in Seq(FrameType)
         /\ Fresh(Height - 1) = {Height, Height + 1} /\ Height' = Height + 1
         /\ Down'[Height] = g /\ Down'[Height + 1] = f
<1> DEFINE G == <<f, g>>
<1>1. /\ G \in Seq(FrameType) /\ Len(G) = 2
      /\ G[1] = f /\ G[2] = g
  OBVIOUS
<1>2. stack' = G \o Tail(stack) /\ stack \in Seq(FrameType)
  BY DEF Typed
<1> HIDE DEF G
<1>3. stack' \in Seq(FrameType) /\ Pushed(Height - 1, G) /\ Height \in Nat \ {0}
  BY <1>1, <1>2, TopReplaced
<1>4. \A i \in 1 .. Len(G) : Down'[Height - 1 + i] = G[Len(G) + 1 - i]
  BY <1>3 DEF Pushed
<1>4a. Down'[Height] = g
  <2>1. Height - 1 + 1 = Height /\ Len(G) + 1 - 1 = 2 /\ 1 \in 1 .. Len(G)
    BY <1>1, <1>3
  <2> QED BY <1>1, <1>4, <2>1
<1>4b. Down'[Height + 1] = f
  <2>1. Height - 1 + 2 = Height + 1 /\ Len(G) + 1 - 2 = 1 /\ 2 \in 1 .. Len(G)
    BY <1>1, <1>3
  <2> QED BY <1>1, <1>4, <2>1
<1>5. Height' = Height + 1
  BY <1>1, <1>3 DEF Pushed
<1>6. Fresh(Height - 1) = {Height, Height + 1}
  <2>1. Fresh(Height - 1) = Height .. Height + 1
    BY <1>3, <1>5 DEF Fresh
  <2>2. \A x \in Height .. Height + 1 : x = Height \/ x = Height + 1
    BY <1>3
  <2> QED BY <1>3, <2>1, <2>2
<1>7. KeepsBelow(Height - 1)
  BY <1>3, <1>5 DEF Pushed, KeepsBelow
<1> QED BY <1>3, <1>5, <1>6, <1>7, <1>4a, <1>4b

LEMMA Pushes3 ==
  ASSUME Typed, stack # <<>>, NEW f \in FrameType, NEW g \in FrameType, NEW h \in FrameType,
         stack' = <<f, g, h>> \o Tail(stack)
  PROVE  /\ KeepsBelow(Height - 1) /\ stack' \in Seq(FrameType)
         /\ Fresh(Height - 1) = {Height, Height + 1, Height + 2} /\ Height' = Height + 2
         /\ Down'[Height] = h /\ Down'[Height + 1] = g /\ Down'[Height + 2] = f
<1> DEFINE G == <<f, g, h>>
<1>1. /\ G \in Seq(FrameType) /\ Len(G) = 3
      /\ G[1] = f /\ G[2] = g /\ G[3] = h
  OBVIOUS
<1>2. stack' = G \o Tail(stack) /\ stack \in Seq(FrameType)
  BY DEF Typed
<1> HIDE DEF G
<1>3. stack' \in Seq(FrameType) /\ Pushed(Height - 1, G) /\ Height \in Nat \ {0}
  BY <1>1, <1>2, TopReplaced
<1>4. \A i \in 1 .. Len(G) : Down'[Height - 1 + i] = G[Len(G) + 1 - i]
  BY <1>3 DEF Pushed
<1>4a. Down'[Height] = h
  <2>1. Height - 1 + 1 = Height /\ Len(G) + 1 - 1 = 3 /\ 1 \in 1 .. Len(G)
    BY <1>1, <1>3
  <2> QED BY <1>1, <1>4, <2>1
<1>4b. Down'[Height + 1] = g
  <2>1. Height - 1 + 2 = Height + 1 /\ Len(G) + 1 - 2 = 2 /\ 2 \in 1 .. Len(G)
    BY <1>1, <1>3
  <2> QED BY <1>1, <1>4, <2>1
<1>4c. Down'[Height + 2] = f
  <2>1. Height - 1 + 3 = Height + 2 /\ Len(G) + 1 - 3 = 1 /\ 3 \in 1 .. Len(G)
    BY <1>1, <1>3
  <2> QED BY <1>1, <1>4, <2>1
<1>5. Height' = Height + 2
  BY <1>1, <1>3 DEF Pushed
<1>6. Fresh(Height - 1) = {Height, Height + 1, Height + 2}
  <2>1. Fresh(Height - 1) = Height .. Height + 2
    BY <1>3, <1>5 DEF Fresh
  <2>2. \A x \in Height .. Height + 2 : x = Height \/ x = Height + 1 \/ x = Height + 2
    BY <1>3
  <2> QED BY <1>3, <2>1, <2>2
<1>7. KeepsBelow(Height - 1)
  BY <1>3, <1>5 DEF Pushed, KeepsBelow
<1> QED BY <1>3, <1>5, <1>6, <1>7, <1>4a, <1>4b, <1>4c

LEMMA Pushes4 ==
  ASSUME Typed, stack # <<>>, NEW e \in FrameType, NEW f \in FrameType, NEW g \in FrameType, NEW h \in FrameType,
         stack' = <<e, f, g, h>> \o Tail(stack)
  PROVE  /\ KeepsBelow(Height - 1) /\ stack' \in Seq(FrameType)
         /\ Fresh(Height - 1) = {Height, Height + 1, Height + 2, Height + 3} /\ Height' = Height + 3
         /\ Down'[Height] = h /\ Down'[Height + 1] = g /\ Down'[Height + 2] = f /\ Down'[Height + 3] = e
<1> DEFINE G == <<e, f, g, h>>
<1>1. /\ G \in Seq(FrameType) /\ Len(G) = 4
      /\ G[1] = e /\ G[2] = f /\ G[3] = g /\ G[4] = h
  OBVIOUS
<1>2. stack' = G \o Tail(stack) /\ stack \in Seq(FrameType)
  BY DEF Typed
<1> HIDE DEF G
<1>3. stack' \in Seq(FrameType) /\ Pushed(Height - 1, G) /\ Height \in Nat \ {0}
  BY <1>1, <1>2, TopReplaced
<1>4. \A i \in 1 .. Len(G) : Down'[Height - 1 + i] = G[Len(G) + 1 - i]
  BY <1>3 DEF Pushed
<1>4a. Down'[Height] = h
  <2>1. Height - 1 + 1 = Height /\ Len(G) + 1 - 1 = 4 /\ 1 \in 1 .. Len(G)
    BY <1>1, <1>3
  <2> QED BY <1>1, <1>4, <2>1
<1>4b. Down'[Height + 1] = g
  <2>1. Height - 1 + 2 = Height + 1 /\ Len(G) + 1 - 2 = 3 /\ 2 \in 1 .. Len(G)
    BY <1>1, <1>3
  <2> QED BY <1>1, <1>4, <2>1
<1>4c. Down'[Height + 2] = f
  <2>1. Height - 1 + 3 = Height + 2 /\ Len(G) + 1 - 3 = 2 /\ 3 \in 1 .. Len(G)
    BY <1>1, <1>3
  <2> QED BY <1>1, <1>4, <2>1
<1>4d. Down'[Height + 3] = e
  <2>1. Height - 1 + 4 = Height + 3 /\ Len(G) + 1 - 4 = 1 /\ 4 \in 1 .. Len(G)
    BY <1>1, <1>3
  <2> QED BY <1>1, <1>4, <2>1
<1>5. Height' = Height + 3
  BY <1>1, <1>3 DEF Pushed
<1>6. Fresh(Height - 1) = {Height, Height + 1, Height + 2, Height + 3}
  <2>1. Fresh(Height - 1) = Height .. Height + 3
    BY <1>3, <1>5 DEF Fresh
  <2>2. \A x \in Height .. Height + 3 : x = Height \/ x = Height + 1 \/ x = Height + 2 \/ x = Height + 3
    BY <1>3
  <2> QED BY SMTT(40), <1>3, <2>1, <2>2
<1>7. KeepsBelow(Height - 1)
  BY <1>3, <1>5 DEF Pushed, KeepsBelow
<1> QED BY <1>3, <1>5, <1>6, <1>7, <1>4a, <1>4b, <1>4c, <1>4d

\* The event loop starts a handler.
LEMMA Starts ==
  ASSUME stack = <<>>, NEW f \in FrameType, NEW g \in FrameType, NEW h \in FrameType
  PROVE  /\ stack' = <<>> => /\ KeepsBelow(0) /\ stack' \in Seq(FrameType)
                             /\ Fresh(0) = {} /\ Height = 0 /\ Height' = 0
         /\ stack' = <<f>> => /\ KeepsBelow(0) /\ stack' \in Seq(FrameType)
                              /\ Fresh(0) = {1} /\ Height = 0 /\ Height' = 1
                              /\ Down'[1] = f
         /\ stack' = <<f, g>> => /\ KeepsBelow(0) /\ stack' \in Seq(FrameType)
                                 /\ Fresh(0) = {1, 2} /\ Height = 0 /\ Height' = 2
                                 /\ Down'[1] = g /\ Down'[2] = f
         /\ stack' = <<f, g, h>> => /\ KeepsBelow(0) /\ stack' \in Seq(FrameType)
                                    /\ Fresh(0) = {1, 2, 3} /\ Height = 0 /\ Height' = 3
                                    /\ Down'[1] = h /\ Down'[2] = g /\ Down'[3] = f
<1>1. ASSUME stack' = <<>>
      PROVE  /\ KeepsBelow(0) /\ stack' \in Seq(FrameType)
             /\ Fresh(0) = {} /\ Height = 0 /\ Height' = 0
  <2>0. <<>> \in Seq(FrameType)
    OBVIOUS
  <2>1. Pushed(0, <<>>) /\ Height = 0 /\ stack' \in Seq(FrameType)
    BY <1>1, <2>0, EmptyReplaced
  <2> QED BY <2>1 DEF Pushed, KeepsBelow, Fresh
<1>2. ASSUME stack' = <<f>>
      PROVE  /\ KeepsBelow(0) /\ stack' \in Seq(FrameType)
             /\ Fresh(0) = {1} /\ Height = 0 /\ Height' = 1 /\ Down'[1] = f
  <2>0. <<f>> \in Seq(FrameType)
    OBVIOUS
  <2>1. Pushed(0, <<f>>) /\ Height = 0 /\ stack' \in Seq(FrameType)
    BY <1>2, <2>0, EmptyReplaced
  <2>2. Down'[0 + 1] = <<f>>[1]
    BY <2>1 DEF Pushed
  <2> QED BY <2>1, <2>2 DEF Pushed, KeepsBelow, Fresh
<1>3. ASSUME stack' = <<f, g>>
      PROVE  /\ KeepsBelow(0) /\ stack' \in Seq(FrameType)
             /\ Fresh(0) = {1, 2} /\ Height = 0 /\ Height' = 2
             /\ Down'[1] = g /\ Down'[2] = f
  <2>0. <<f, g>> \in Seq(FrameType)
    OBVIOUS
  <2>1. Pushed(0, <<f, g>>) /\ Height = 0 /\ stack' \in Seq(FrameType)
    BY <1>3, <2>0, EmptyReplaced
  <2>2. Down'[0 + 1] = <<f, g>>[2] /\ Down'[0 + 2] = <<f, g>>[1]
    BY <2>1 DEF Pushed
  <2> QED BY <2>1, <2>2 DEF Pushed, KeepsBelow, Fresh
<1>4. ASSUME stack' = <<f, g, h>>
      PROVE  /\ KeepsBelow(0) /\ stack' \in Seq(FrameType)
             /\ Fresh(0) = {1, 2, 3} /\ Height = 0 /\ Height' = 3
             /\ Down'[1] = h /\ Down'[2] = g /\ Down'[3] = f
  <2>0. <<f, g, h>> \in Seq(FrameType)
    OBVIOUS
  <2>1. Pushed(0, <<f, g, h>>) /\ Height = 0 /\ stack' \in Seq(FrameType)
    BY <1>4, <2>0, EmptyReplaced
  <2>2. /\ Down'[0 + 1] = <<f, g, h>>[3] /\ Down'[0 + 2] = <<f, g, h>>[2]
        /\ Down'[0 + 3] = <<f, g, h>>[1]
    BY <2>1 DEF Pushed
  <2> QED BY <2>1, <2>2 DEF Pushed, KeepsBelow, Fresh
<1> QED BY <1>1, <1>2, <1>3, <1>4

LEMMA ErasingSame ==
  ASSUME NEW b, KeepsBelow(b), Height > 0 => Down[Height].op # "erase",
         \A p \in Fresh(b) : Down'[p].op # "erase", NEW k
  PROVE  Erasing(k)' <=> Erasing(k)
<1>1. Erasing(k) => Erasing(k)'
  BY DEF Erasing, KeepsBelow, Depth
<1>2. Erasing(k)' => Erasing(k)
  BY DEF Erasing, KeepsBelow, Depth, Fresh
<1> QED BY <1>1, <1>2

\* A step of a client, on no slot.
LEMMA ClientSteps ==
  ASSUME SInv, Tame, setup' = setup, NEW b, KeepsBelow(b), slot' = slot, Height > 0,
         Down[Height].op \notin SlotOps,
         \A p \in Fresh(b) : \/ Down'[p].op \in {"run", "resume", "waiters"}
                             \/ Down'[p].op = "unpin" /\ p = Height',
         DumbFresh(b),
         Down[Height].op = "resume" /\ Down[Height].arg = None /\ ~Retries =>
             \A q \in Fresh(b) : Dumb(Down[q])'
  PROVE  Placed' /\ NoNesting' /\ NotTaken' /\ Expected' /\ Carried'
<1>1. SlotsKept(b)
  BY DEF SlotsKept
<1>2. PlacedFresh(b)
  BY DEF PlacedFresh
<1>3. \A p \in Fresh(b) : Down'[p].op \notin SlotOps /\ Down'[p].op \notin {"finish", "complete", "free"}
  BY DEF SlotOps
<1>4. \A s \in Slots : slot[s].reserved => ~Retries
  BY DEF SInv, Pinned, Tame
<1>5. TakenFresh(b)
  <2>1. \A p \in 1 .. b : Down[p].op \in SlotOps => Down[p].on \in Slots
    BY FramesTyped, FrameFacts DEF SInv, KeepsBelow, Depth
  <2> QED BY <1>3, <1>4, <2>1 DEF TakenFresh, SlotOps
<1>6. ExpectedFresh(b)
  BY <1>3 DEF ExpectedFresh, SlotOps
<1>7. Carried'
  <2>1. None \notin Slots
    BY SetsAssumption
  <2>2. Down[Height].op \notin {"release", "notify", "free", "close"}
    BY DEF SlotOps
  <2> QED BY <2>1, <2>2, CarriedStep DEF SInv
<1> QED BY <1>1, <1>2, <1>5, <1>6, <1>7, PlacedStep, NoNestingStep, NotTakenStep, ExpectedStep
      DEF SInv

-------------------------------------------------------------------------------
(* One lemma per action. *)

LEMMA TypedStep ==
  ASSUME setup' = setup,
         DOMAIN slot' = Slots, \A s \in Slots : SlotShape(slot'[s]) /\ Wired(slot'[s]),
         DOMAIN client' = Clients, \A c \in Clients : ClientShape(client'[c]),
         pending' \in [Coalesced -> [by : Slots \cup {None}, waiters : Seq(Tokens)]],
         stack' \in Seq(FrameType), reconnects' \subseteq [on : Slots, gen : Nat]
  PROVE  Typed'
<1>1. Coalesced' = Coalesced /\ Reqs' = Reqs
  BY SetupKept
<1>2. FrameType' = FrameType
  BY <1>1 DEF FrameType
<1>3. \A s \in Slots : SlotShape(slot[s])' /\ Wired(slot[s])'
  BY <1>1 DEF SlotShape, Wired
<1>4. \A c \in Clients : ClientShape(client[c])'
  BY DEF ClientShape
<1> QED BY <1>1, <1>2, <1>3, <1>4 DEF Typed

\* What the frame on top knows of the client it is about to wake.
LEMMA TopWakes ==
  ASSUME SInv, stack # <<>>, NEW c \in Clients, Woken(Height, c)
  PROVE  /\ client[c].live /\ client[c].ep = None
         /\ client[c].co = IF Down[Height].op = "run" THEN "runs" ELSE "waits"
         /\ \A p \in 1 .. Height - 1 : ~Woken(p, c)
         /\ \A k \in Coalesced : ~Erasing(k) => ~Parked(k, c)
<1>1. Height \in Nat \ {0} /\ Height \in Depth
  BY TopFacts DEF SInv
<1>2. \A p \in 1 .. Height - 1 : p \in Depth /\ p # Height
  BY <1>1 DEF Depth
<1> QED BY <1>1, <1>2 DEF SInv, WokenOnce, ParkedOnce

LEMMA ResumeStep ==
  ASSUME SInv, Tame, setup' = setup, Resume
  PROVE  SInv'
<1> PICK h, c, a : h = Height /\ c = Down[h].on /\ a = Down[h].arg
  OBVIOUS
<1> DEFINE b == h - 1
           f == Frame("run", c, IF a = None THEN "failed" ELSE "ok")
<1>0. Typed /\ stack # <<>>
  BY DEF SInv, Resume, Running
<1>1. /\ h \in Nat \ {0} /\ h \in Depth /\ Top = Down[h] /\ Down[h] \in FrameType
      /\ Down[h].op = "resume" /\ c \in Clients \cup {None}
  <2>1. h \in Nat \ {0} /\ h \in Depth /\ Top = Down[h] /\ Down[h] \in FrameType
    BY <1>0, TopFacts
  <2>2. Down[h].op = "resume"
    BY <2>1 DEF Resume, Running
  <2> QED BY <2>1, <2>2, FrameFacts
<1>2. slot' = slot /\ pending' = pending /\ reconnects' = reconnects
  BY DEF Resume
<1>3. None \notin Clients
  BY SetsAssumption
<1>4. CASE c # None /\ client[c].async
  <2>1. /\ c \in Clients
        /\ client' = [client EXCEPT ![c].async = FALSE, ![c].co = "runs"]
        /\ stack' = <<f>> \o Tail(stack)
    BY <1>1, <1>4 DEF Resume
  <2>2. f \in FrameType /\ f.op = "run" /\ f.on = c
        /\ (Down[h].arg = None => f.arg = "failed")
    BY <2>1, FrameTypes DEF Frame
  <2>3. /\ KeepsBelow(b) /\ stack' \in Seq(FrameType) /\ Fresh(b) = {h} /\ Height' = h
        /\ Down'[h] = f
    <3> HIDE DEF f
    <3> QED BY <1>0, <2>1, <2>2, Pushes1
  <2> HIDE DEF f
  <2>4. /\ DOMAIN client' = Clients
        /\ \A d \in Clients \ {c} : client'[d] = client[d]
        /\ ClientShape(client'[c]) /\ client'[c].gen = client[c].gen
        /\ client'[c].live = client[c].live /\ client'[c].ep = client[c].ep
        /\ client'[c].pin = client[c].pin /\ ~client'[c].async /\ client'[c].co = "runs"
    <3>1. DOMAIN client = Clients /\ ClientShape(client[c])
      BY <1>0, <2>1 DEF Typed
    <3> QED BY <2>1, <3>1 DEF ClientShape, ClientFields
  <2>5. Typed'
    BY <1>0, <1>2, <2>3, <2>4, TypedStep DEF Typed
  <2>6. Woken(h, c)
    BY <1>1 DEF Woken, Owes
  <2>7. /\ client[c].live /\ client[c].ep = None
        /\ \A p \in 1 .. b : ~Woken(p, c)
        /\ \A k \in Coalesced : ~Erasing(k) => ~Parked(k, c)
    BY <1>0, <2>1, <2>6, TopWakes
  <2>8. Linked'
    BY <1>2, <2>4, <2>7 DEF SInv, Linked
  <2>9. \A k : Erasing(k)' <=> Erasing(k)
    BY <1>1, <2>2, <2>3, ErasingSame
  <2>10. \A k \in Coalesced, d \in Clients : Parked(k, d)' <=> Parked(k, d)
    BY <1>2, <2>4 DEF Parked
  <2>11. TokensKept(b)
    <3>1. Loose(b, c)
      BY <2>1, <2>7, <2>9, <2>10 DEF Loose
    <3>2. \A d \in Clients : Woken(h, d)' => d = c
      BY <2>2, <2>3 DEF Woken, Owes
    <3> QED BY <2>2, <2>3, <2>4, <2>7, <3>1, <3>2 DEF TokensKept
  <2>12. EntriesKept
    BY <1>2, <2>9 DEF EntriesKept, SInv, ParkedOnce
  <2>13. WokenOnce' /\ ParkedOnce'
    BY <2>3, <2>11, <2>12, TokensStep DEF SInv
  <2>14. Closing'
    <3>1. ClosingKept(b)
      BY <1>1, <1>4, <2>2, <2>3, <2>4 DEF ClosingKept
    <3>2. \A p \in Depth : Down[p].op = "freeClient" => Down[p].on \in Clients
      BY <1>0, FramesTyped, FrameFacts
    <3> QED BY <2>3, <3>1, <3>2, ClosingStep DEF SInv
  <2>15. DumbFresh(b)
    <3>1. ~Mute(Down[h]) /\ ~Dumb(Down[h])
      BY <1>1, <1>4 DEF Mute, Dumb
    <3> QED BY <1>1, <2>2, <2>3, <3>1 DEF DumbFresh
  <2>16. Placed' /\ NoNesting' /\ NotTaken' /\ Expected' /\ Carried'
    <3>1. Down[h].arg = None /\ ~Retries => Dumb(Down[h])'
      <4>1. Retries' = Retries
        BY SetupKept
      <4> QED BY <2>2, <2>3, <4>1 DEF Dumb
    <3>2. Down[h].op \notin SlotOps
      BY <1>1 DEF SlotOps
    <3> QED BY <1>1, <1>2, <2>2, <2>3, <2>15, <3>1, <3>2, ClientSteps
  <2>17. Pinned'
    <3>0. \A d \in Clients : client'[d].pin = client[d].pin
      BY <2>4
    <3>1. PinsKept(b)
      BY <1>0, <1>1, <1>2, <2>2, <2>3, <3>0 DEF PinsKept, Typed, SlotShape
    <3> QED BY <1>0, <2>3, <3>1, PinnedStep DEF SInv
  <2> QED BY <2>5, <2>8, <2>13, <2>14, <2>16, <2>17 DEF SInv
<1>5. CASE ~(c # None /\ client[c].async)
  <2>1. client' = client /\ stack' = Tail(stack)
    BY <1>1, <1>5 DEF Resume
  <2>2. KeepsBelow(b) /\ stack' \in Seq(FrameType) /\ Fresh(b) = {} /\ Height' = h - 1
    BY <1>0, <2>1, Pops
  <2>3. Typed'
    BY <1>0, <1>2, <2>1, <2>2, TypedStep DEF Typed
  <2>4. Linked'
    BY <1>2, <2>1 DEF SInv, Linked
  <2>5. \A k : Erasing(k)' <=> Erasing(k)
    BY <1>1, <2>2, ErasingSame
  <2>6. TokensKept(b)
    BY <2>1, <2>2 DEF TokensKept
  <2>7. EntriesKept
    BY <1>2, <2>5 DEF EntriesKept, SInv, ParkedOnce
  <2>8. WokenOnce' /\ ParkedOnce'
    BY <2>2, <2>6, <2>7, TokensStep DEF SInv
  <2>9. Closing'
    <3>1. ClosingKept(b)
      BY <1>1, <2>1, <2>2 DEF ClosingKept
    <3>2. \A p \in Depth : Down[p].op = "freeClient" => Down[p].on \in Clients
      BY <1>0, FramesTyped, FrameFacts
    <3> QED BY <2>2, <3>1, <3>2, ClosingStep DEF SInv
  <2>10. Placed' /\ NoNesting' /\ NotTaken' /\ Expected' /\ Carried'
    <3>1. DumbFresh(b)
      BY <2>2 DEF DumbFresh
    <3>2. Down[h].op \notin SlotOps
      BY <1>1 DEF SlotOps
    <3> QED BY <1>1, <1>2, <2>2, <3>1, <3>2, ClientSteps
  <2>11. Pinned'
    <3>1. PinsKept(b)
      BY <1>0, <1>1, <1>2, <2>1, <2>2 DEF PinsKept, Typed, SlotShape
    <3> QED BY <1>0, <2>2, <3>1, PinnedStep DEF SInv
  <2> QED BY <2>3, <2>4, <2>8, <2>9, <2>10, <2>11 DEF SInv
<1> QED BY <1>4, <1>5

\* What is left to show for a step that touches no slot.
LEMMA ClientStepInv ==
  ASSUME SInv, Tame, setup' = setup, NEW b, KeepsBelow(b), slot' = slot, reconnects' = reconnects,
         stack' \in Seq(FrameType), Height > 0,
         Down[Height].op \in {"run", "resume", "waiters", "erase"},
         DOMAIN client' = Clients, \A c \in Clients : ClientShape(client'[c]),
         \A c \in Clients : client'[c].pin = client[c].pin,
         pending' \in [Coalesced -> [by : Slots \cup {None}, waiters : Seq(Tokens)]],
         Linked', WokenOnce', ParkedOnce', ClosingKept(b),
         \A p \in Fresh(b) : Down'[p].op \in {"run", "resume", "waiters"},
         DumbFresh(b),
         Down[Height].op = "resume" /\ Down[Height].arg = None /\ ~Retries =>
             \A q \in Fresh(b) : Dumb(Down[q])'
  PROVE  SInv'
<1>1. Typed'
  BY TypedStep DEF SInv, Typed
<1>2. Closing'
  <2>1. \A p \in Depth : Down[p].op = "freeClient" => Down[p].on \in Clients
    BY FramesTyped, FrameFacts DEF SInv
  <2> QED BY <2>1, ClosingStep DEF SInv
<1>3. Placed' /\ NoNesting' /\ NotTaken' /\ Expected' /\ Carried'
  <2>1. Down[Height].op \notin SlotOps
    BY DEF SlotOps
  <2> QED BY <2>1, ClientSteps
<1>4. Pinned'
  <2>1. PinsKept(b)
    BY DEF PinsKept, SInv, Typed, SlotShape
  <2> QED BY <2>1, PinnedStep DEF SInv
<1> QED BY <1>1, <1>2, <1>3, <1>4 DEF SInv

LEMMA WaitersStep ==
  ASSUME SInv, Tame, setup' = setup, Waiters
  PROVE  SInv'
<1>h. PICK h, ws, a : h = Height /\ ws = Down[h].on /\ a = Down[h].arg
  OBVIOUS
<1>g. PICK c, g, rest : /\ c = Head(ws).on /\ g = Head(ws).gen
                      /\ rest = Frame("waiters", Tail(ws), a)
  OBVIOUS
<1> DEFINE b == h - 1
           f == Frame("resume", c, a)
<1>0. Typed /\ stack # <<>>
  BY DEF SInv, Waiters, Running
<1>1. /\ h \in Nat \ {0} /\ h \in Depth /\ Top = Down[h] /\ Down[h] \in FrameType
      /\ Down[h].op = "waiters" /\ ws \in Seq(Tokens) /\ a \in Reqs \cup {None}
  <2>1. h \in Nat \ {0} /\ h \in Depth /\ Top = Down[h] /\ Down[h] \in FrameType
    BY <1>h, <1>0, TopFacts
  <2>2. Down[h].op = "waiters"
    BY <2>1 DEF Waiters, Running
  <2> QED BY <1>h, <2>1, <2>2, FrameFacts
<1>2. slot' = slot /\ pending' = pending /\ reconnects' = reconnects
  BY DEF Waiters
<1>t. /\ DOMAIN client = Clients /\ \A d \in Clients : ClientShape(client[d])
      /\ pending \in [Coalesced -> [by : Slots \cup {None}, waiters : Seq(Tokens)]]
  BY <1>0 DEF Typed
<1>3. \A d \in Clients : Woken(h, d) <=> Waits(ws, d, client[d].gen)
  BY <1>h, <1>1 DEF Woken, Owes
<1>4. /\ \A d \in Clients : Old(ws, d, client[d].gen) /\ Once(ws, d, client[d].gen)
  BY <1>h, <1>1 DEF SInv, WokenOnce
<1>5. CASE ws = <<>>
  <2>1. client' = client /\ stack' = Tail(stack)
    BY <1>h, <1>1, <1>5 DEF Waiters
  <2>2. KeepsBelow(b) /\ stack' \in Seq(FrameType) /\ Fresh(b) = {} /\ Height' = h - 1
    BY <1>h, <1>0, <2>1, Pops
  <2>3. Linked'
    BY <1>2, <2>1 DEF SInv, Linked
  <2>4. \A k : Erasing(k)' <=> Erasing(k)
    BY <1>h, <1>1, <2>2, ErasingSame
  <2>5. TokensKept(b)
    BY <2>1, <2>2 DEF TokensKept
  <2>6. EntriesKept
    BY <1>2, <2>4 DEF EntriesKept, SInv, ParkedOnce
  <2>7. WokenOnce' /\ ParkedOnce'
    BY <2>2, <2>5, <2>6, TokensStep DEF SInv
  <2>8. ClosingKept(b) /\ DumbFresh(b)
    BY <1>h, <1>1, <2>1, <2>2 DEF ClosingKept, DumbFresh
  <2> QED BY <1>h, <1>1, <1>2, <1>t, <2>1, <2>2, <2>3, <2>7, <2>8, ClientStepInv
<1>6. ASSUME ws # <<>>
      PROVE  /\ c \in Clients /\ g \in Nat /\ rest \in FrameType /\ rest.op = "waiters"
             /\ rest.on = Tail(ws)
             /\ \A d \in Clients : /\ Old(Tail(ws), d, client[d].gen)
                                   /\ Once(Tail(ws), d, client[d].gen)
                                   /\ Waits(Tail(ws), d, client[d].gen) => Woken(h, d)
             /\ g = client[c].gen => Woken(h, c) /\ ~Waits(Tail(ws), c, client[c].gen)
             /\ ~Mute(Down[h]) /\ ~Dumb(Down[h])
  <2>1. Tail(ws) \in Seq(Tokens) /\ Head(ws) \in Tokens
    BY <1>1, <1>6, WaitsTail
  <2>2. c \in Clients /\ g \in Nat
    BY <1>g, <1>h, <2>1 DEF Tokens
  <2>3. rest \in FrameType /\ rest.op = "waiters" /\ rest.on = Tail(ws)
    BY <1>g, <1>h, <1>1, <2>1, FrameTypes DEF Frame
  <2>4. \A d \in Clients : /\ Old(Tail(ws), d, client[d].gen)
                           /\ Once(Tail(ws), d, client[d].gen)
                           /\ Waits(Tail(ws), d, client[d].gen) => Woken(h, d)
    BY <1>1, <1>3, <1>4, <1>6, WaitsTail
  <2>5. g = client[c].gen => Woken(h, c) /\ ~Waits(Tail(ws), c, client[c].gen)
    BY <1>g, <1>h, <1>1, <1>3, <1>4, <1>6, <2>2, WaitsTail
  <2>6. ~Mute(Down[h]) /\ ~Dumb(Down[h])
    BY <1>h, <1>1, <1>6 DEF Mute, Dumb
  <2> QED BY <2>2, <2>3, <2>4, <2>5, <2>6
<1>7. ASSUME NEW d \in Clients, Woken(h, d)
      PROVE  /\ client[d].live /\ client[d].ep = None /\ client[d].co = "waits"
             /\ \A p \in 1 .. b : ~Woken(p, d)
             /\ \A k \in Coalesced : ~Erasing(k) => ~Parked(k, d)
  BY <1>h, <1>0, <1>1, <1>7, TopWakes
<1>8. CASE ws # <<>> /\ client[c].gen # g
  <2>1. client' = client /\ stack' = <<rest>> \o Tail(stack)
    BY <1>g, <1>h, <1>1, <1>8 DEF Waiters
  <2>2. /\ KeepsBelow(b) /\ stack' \in Seq(FrameType) /\ Fresh(b) = {h} /\ Height' = h
        /\ Down'[h] = rest
    BY <1>h, <1>0, <1>6, <1>8, <2>1, Pushes1
  <2>3. Linked'
    BY <1>2, <2>1 DEF SInv, Linked
  <2>4. \A k : Erasing(k)' <=> Erasing(k)
    BY <1>h, <1>1, <1>6, <1>8, <2>2, ErasingSame
  <2>5. TokensKept(b)
    <3>1. \A d \in Clients : Woken(h, d)' => Woken(h, d)
      BY <1>6, <1>8, <2>1, <2>2 DEF Woken, Owes
    <3>2. \A k \in Coalesced, d \in Clients : Parked(k, d)' <=> Parked(k, d)
      BY <1>2, <2>1 DEF Parked
    <3>3. \A d \in Clients : Woken(h, d) => Loose(b, d)
      BY <1>7, <2>4, <3>2 DEF Loose
    <3> QED BY <1>6, <1>7, <1>8, <2>1, <2>2, <3>1, <3>3 DEF TokensKept
  <2>6. EntriesKept
    BY <1>2, <2>4 DEF EntriesKept, SInv, ParkedOnce
  <2>7. WokenOnce' /\ ParkedOnce'
    BY <2>2, <2>5, <2>6, TokensStep DEF SInv
  <2>8. ClosingKept(b) /\ DumbFresh(b)
    BY <1>h, <1>1, <1>6, <1>8, <2>1, <2>2 DEF ClosingKept, DumbFresh
  <2>9. rest.op = "waiters"
    BY <1>6, <1>8
  <2> QED BY <1>h, <1>1, <1>2, <1>t, <2>1, <2>2, <2>3, <2>7, <2>8, <2>9, ClientStepInv
<1>9. CASE ws # <<>> /\ client[c].gen = g
  <2>1. /\ client' = [client EXCEPT ![c].ep = None]
        /\ stack' = <<f, rest>> \o Tail(stack)
    BY <1>g, <1>h, <1>1, <1>9 DEF Waiters
  <2>2. f \in FrameType /\ f.op = "resume" /\ f.on = c
    BY <1>1, <1>6, <1>9, FrameTypes DEF Frame
  <2> HIDE DEF f
  <2>3. /\ KeepsBelow(b) /\ stack' \in Seq(FrameType) /\ Fresh(b) = {h, h + 1} /\ Height' = h + 1
        /\ Down'[h] = rest /\ Down'[h + 1] = f
    BY <1>h, <1>0, <1>6, <1>9, <2>1, <2>2, Pushes2
  <2>4. Woken(h, c) /\ client[c].ep = None
    BY <1>6, <1>7, <1>9
  <2>5. /\ DOMAIN client' = Clients
        /\ \A d \in Clients : /\ ClientShape(client'[d]) /\ client'[d].gen = client[d].gen
                              /\ client'[d].live = client[d].live /\ client'[d].ep = client[d].ep
                              /\ client'[d].co = client[d].co /\ client'[d].async = client[d].async
                              /\ client'[d].pin = client[d].pin
    <3>1. DOMAIN client = Clients /\ \A d \in Clients : ClientShape(client[d])
      BY <1>0 DEF Typed
    <3> QED BY <1>6, <1>9, <2>1, <2>4, <3>1 DEF ClientShape, ClientFields
  <2>6. Linked'
    BY <1>2, <2>5 DEF SInv, Linked
  <2>7. \A k : Erasing(k)' <=> Erasing(k)
    BY <1>h, <1>1, <1>6, <1>9, <2>2, <2>3, ErasingSame
  <2>8. TokensKept(b)
    <3>1. \A d \in Clients : Woken(h, d)' => Woken(h, d) /\ d # c
      BY <1>6, <1>9, <2>3, <2>5 DEF Woken, Owes
    <3>2. \A d \in Clients : Woken(h + 1, d)' => d = c
      BY <2>2, <2>3 DEF Woken, Owes
    <3>3. \A k \in Coalesced, d \in Clients : Parked(k, d)' <=> Parked(k, d)
      BY <1>2, <2>5 DEF Parked
    <3>4. \A d \in Clients : Woken(h, d) => Loose(b, d)
      BY <1>7, <2>7, <3>3 DEF Loose
    <3>5. ASSUME NEW p \in {h, h + 1}, NEW d \in Clients, Woken(p, d)'
          PROVE  /\ Loose(b, d) /\ Woken(h, d) /\ Down'[p].op # "run"
                 /\ \A q \in {h, h + 1} : Woken(q, d)' => q = p
      BY <1>1, <1>6, <1>9, <2>2, <2>3, <2>4, <3>1, <3>2, <3>4, <3>5
    <3>6. \A d \in Clients : Old(rest.on, d, client[d].gen) /\ Once(rest.on, d, client[d].gen)
      BY <1>6, <1>9
    <3> QED BY <1>7, <2>2, <2>3, <2>5, <3>5, <3>6 DEF TokensKept
  <2>9. EntriesKept
    BY <1>2, <2>7 DEF EntriesKept, SInv, ParkedOnce
  <2>10. WokenOnce' /\ ParkedOnce'
    BY <2>3, <2>8, <2>9, TokensStep DEF SInv
  <2>11. ClosingKept(b) /\ DumbFresh(b)
    BY <1>h, <1>1, <1>6, <1>9, <2>2, <2>3, <2>5 DEF ClosingKept, DumbFresh
  <2>12. rest.op = "waiters"
    BY <1>6, <1>9
  <2>13. \A p \in Fresh(b) : Down'[p].op \in {"run", "resume", "waiters"}
    BY <2>2, <2>3, <2>12
  <2>14. /\ Height > 0 /\ Down[Height].op = "waiters" /\ pending' = pending
         /\ KeepsBelow(b) /\ stack' \in Seq(FrameType)
    BY <1>h, <1>1, <1>2, <2>3
  <2> HIDE DEF b
  <2> QED BY <1>2, <1>t, <2>5, <2>6, <2>10, <2>11, <2>13, <2>14, ClientStepInv
<1> QED BY <1>5, <1>8, <1>9

LEMMA EraseEntryStep ==
  ASSUME SInv, Tame, setup' = setup, EraseEntry
  PROVE  SInv'
<1>h. PICK h, k : h = Height /\ k = Down[h].on
  OBVIOUS
<1> DEFINE b == h - 1
<1>0. Typed /\ stack # <<>>
  BY DEF SInv, EraseEntry, Running
<1>1. /\ h \in Nat \ {0} /\ h \in Depth /\ Top = Down[h] /\ Down[h] \in FrameType
      /\ Down[h].op = "erase" /\ k \in Coalesced
  <2>1. h \in Nat \ {0} /\ h \in Depth /\ Top = Down[h] /\ Down[h] \in FrameType
    BY <1>h, <1>0, TopFacts
  <2>2. Down[h].op = "erase"
    BY <2>1 DEF EraseEntry, Running
  <2> QED BY <1>h, <2>1, <2>2, FrameFacts
<1>2. /\ slot' = slot /\ client' = client /\ reconnects' = reconnects
      /\ stack' = Tail(stack) /\ pending' = [pending EXCEPT ![k] = NoEntry]
  BY <1>h, <1>1 DEF EraseEntry
<1>t. /\ DOMAIN client = Clients /\ \A d \in Clients : ClientShape(client[d])
      /\ pending \in [Coalesced -> [by : Slots \cup {None}, waiters : Seq(Tokens)]]
  BY <1>0 DEF Typed
<1>3. KeepsBelow(b) /\ stack' \in Seq(FrameType) /\ Fresh(b) = {} /\ Height' = h - 1
  BY <1>h, <1>0, <1>2, Pops
<1>4. /\ pending' \in [Coalesced -> [by : Slots \cup {None}, waiters : Seq(Tokens)]]
      /\ pending'[k].waiters = <<>> /\ \A l \in Coalesced \ {k} : pending'[l] = pending[l]
  <2>1. NoEntry \in [by : Slots \cup {None}, waiters : Seq(Tokens)] /\ NoEntry.waiters = <<>>
    BY DEF NoEntry
  <2> QED BY <1>0, <1>1, <1>2, <2>1 DEF Typed
<1>5. Linked'
  BY <1>2 DEF SInv, Linked
<1>6. \A l \in Coalesced \ {k} : Erasing(l) => Erasing(l)'
  BY <1>h, <1>1, <1>3 DEF Erasing, KeepsBelow, Depth
<1>7. TokensKept(b)
  BY <1>2, <1>3 DEF TokensKept
<1>8. EntriesKept
  BY <1>4, <1>6 DEF EntriesKept, SInv, ParkedOnce
<1>9. WokenOnce' /\ ParkedOnce'
  BY <1>3, <1>7, <1>8, TokensStep DEF SInv
<1>10. ClosingKept(b) /\ DumbFresh(b)
  BY <1>h, <1>1, <1>2, <1>3 DEF ClosingKept, DumbFresh
<1>11. /\ Height > 0 /\ Down[Height].op = "erase"
       /\ \A d \in Clients : client'[d].pin = client[d].pin
       /\ DOMAIN client' = Clients /\ \A d \in Clients : ClientShape(client'[d])
  BY <1>h, <1>1, <1>2, <1>t
<1>12. slot' = slot /\ reconnects' = reconnects
  BY <1>2
<1> HIDE DEF b
<1> QED BY <1>3, <1>4, <1>5, <1>9, <1>10, <1>11, <1>12, ClientStepInv

\* Nothing is left to say of the frames of an empty stack.
LEMMA EmptyStack ==
  ASSUME Height' = 0
  PROVE  /\ WokenOnce' /\ Closing' /\ Placed' /\ NoNesting' /\ NotTaken' /\ Expected'
         /\ \A k : ~Erasing(k)'
<1>1. Depth' = {}
  BY DEF Depth
<1> QED BY <1>1 DEF WokenOnce, Closing, Placed, NoNesting, NotTaken, Expected, Erasing

LEMMA FreeClientStep ==
  ASSUME SInv, Tame, setup' = setup, FreeClient
  PROVE  SInv'
<1> PICK h, c : h = Height /\ c = Down[h].on
  OBVIOUS
<1> DEFINE b == h - 1
<1>0. Typed /\ stack # <<>>
  BY DEF SInv, FreeClient, Running
<1>1. /\ h \in Nat \ {0} /\ h \in Depth /\ Top = Down[h] /\ Down[h] \in FrameType
      /\ Down[h].op = "freeClient" /\ c \in Clients
  <2>1. h \in Nat \ {0} /\ h \in Depth /\ Top = Down[h] /\ Down[h] \in FrameType
    BY <1>0, TopFacts
  <2>2. Down[h].op = "freeClient"
    BY <2>1 DEF FreeClient, Running
  <2> QED BY <2>1, <2>2, FrameFacts
<1>2. /\ slot' = slot /\ pending' = pending /\ reconnects' = reconnects
      /\ stack' = Tail(stack)
      /\ client' = [client EXCEPT ![c] = [NoClient EXCEPT !.gen = client[c].gen + 1]]
  BY <1>1 DEF FreeClient
<1>3. h = 1 /\ client[c].ep = None
  BY <1>1 DEF SInv, Placed, Closing
<1>4. KeepsBelow(b) /\ stack' \in Seq(FrameType) /\ Fresh(b) = {} /\ Height' = 0
  BY <1>0, <1>2, <1>3, Pops
<1>5. /\ DOMAIN client' = Clients
      /\ \A d \in Clients \ {c} : client'[d] = client[d]
      /\ ClientShape(client'[c]) /\ client'[c].gen = client[c].gen + 1 /\ client[c].gen \in Nat
      /\ client'[c].ep = None /\ client'[c].pin.slot = None
  <2>1. DOMAIN client = Clients /\ ClientShape(client[c])
    BY <1>0, <1>1 DEF Typed
  <2>2. client'[c] = [NoClient EXCEPT !.gen = client[c].gen + 1]
    BY <1>1, <1>2, <2>1
  <2>3. client[c].gen + 1 \in Nat
    BY <2>1 DEF ClientShape
  <2> QED BY <1>1, <1>2, <2>1, <2>2, <2>3 DEF ClientShape, ClientFields, NoClient, NoPin, Pins
<1>6. Typed'
  BY <1>0, <1>2, <1>4, <1>5, TypedStep DEF Typed
<1>7. Linked'
  BY <1>1, <1>2, <1>3, <1>5, SetsAssumption DEF SInv, Linked
<1>8. /\ WokenOnce' /\ Closing' /\ Placed' /\ NoNesting' /\ NotTaken' /\ Expected'
      /\ \A k : ~Erasing(k)'
  BY <1>4, EmptyStack
<1>9. \A k : ~Erasing(k)
  BY <1>1, <1>3 DEF Erasing, Depth
<1>10. Coalesced' = Coalesced
  BY SetupKept
<1>11. ParkedOnce'
  <2>1. ASSUME NEW k \in Coalesced
        PROVE  /\ Old(pending[k].waiters, c, client'[c].gen)
               /\ Once(pending[k].waiters, c, client'[c].gen)
               /\ ~Waits(pending[k].waiters, c, client'[c].gen)
    <3>1. pending[k].waiters \in Seq(Tokens)
      BY <1>0 DEF Typed
    <3>2. Old(pending[k].waiters, c, client[c].gen)
      BY <1>1 DEF SInv, ParkedOnce
    <3> QED BY <1>5, <3>1, <3>2, WaitsNext
  <2>2. \A k \in Coalesced, d \in Clients :
           /\ Old(pending'[k].waiters, d, client'[d].gen)
           /\ Once(pending'[k].waiters, d, client'[d].gen)
           /\ Parked(k, d)' => d # c /\ Parked(k, d)
    BY <1>2, <1>5, <1>9, <2>1 DEF SInv, ParkedOnce, Parked
  <2>3. Depth' = {}
    BY <1>4 DEF Depth
  <2> QED BY <1>2, <1>5, <1>8, <1>9, <1>10, <2>2, <2>3 DEF SInv, ParkedOnce
<1>12. Carried'
  <2>1. None \notin Slots
    BY SetsAssumption
  <2> QED BY <1>1, <1>2, <1>4, <2>1, CarriedStep DEF SInv
<1>13. Pinned'
  <2>1. \A s \in Slots : slot[s].client # c /\ slot[s].gen \in Nat
    BY <1>0, <1>1, <1>3, SetsAssumption DEF SInv, Linked, Typed, SlotShape
  <2>2. PinsKept(b)
    BY <1>1, <1>2, <1>4, <1>5, <2>1 DEF PinsKept
  <2> QED BY <1>0, <1>4, <2>2, PinnedStep DEF SInv
<1> QED BY <1>6, <1>7, <1>8, <1>11, <1>12, <1>13 DEF SInv

\* The coroutine that runs is on top of the stack.
LEMMA RunsFacts ==
  ASSUME SInv, NEW c \in Clients, Runs(c)
  PROVE  /\ stack # <<>> /\ Height \in Nat \ {0} /\ Height \in Depth
         /\ Top = Down[Height] /\ Down[Height] \in FrameType
         /\ Down[Height].op = "run" /\ Down[Height].on = c
         /\ Woken(Height, c) /\ client[c].live /\ client[c].ep = None /\ client[c].co = "runs"
         /\ \A p \in 1 .. Height - 1 : ~Woken(p, c)
         /\ \A k \in Coalesced : ~Erasing(k) => ~Parked(k, c)
         /\ \A d \in Clients : Woken(Height, d) => d = c
         /\ ~Mute(Down[Height])
         /\ Frame("run", c, "failed") \in FrameType
<1>0. Typed /\ stack # <<>>
  BY DEF SInv, Runs, Running
<1>1. /\ Height \in Nat \ {0} /\ Height \in Depth /\ Top = Down[Height]
      /\ Down[Height] \in FrameType
  BY <1>0, TopFacts
<1>2. Down[Height].op = "run" /\ Down[Height].on = c
  BY <1>1 DEF Runs, Running
<1>3. Woken(Height, c) /\ \A d \in Clients : Woken(Height, d) => d = c
  BY <1>2 DEF Woken, Owes
<1>4. ~Mute(Down[Height])
  BY <1>2 DEF Mute
<1> QED BY <1>0, <1>1, <1>2, <1>3, <1>4, TopWakes, FrameTypes

LEMMA SendRefusedStep ==
  ASSUME SInv, Tame, setup' = setup, NEW c \in Clients, SendRefused(c)
  PROVE  SInv'
<1> PICK h, f : h = Height /\ f = Frame("run", c, "failed")
  OBVIOUS
<1> DEFINE b == h - 1
<1>0. Typed /\ Runs(c)
  BY DEF SInv, SendRefused, Calls
<1>1. /\ stack # <<>> /\ h \in Nat \ {0} /\ h \in Depth
      /\ Down[h].op = "run" /\ Down[h].on = c
      /\ Woken(h, c) /\ client[c].live /\ client[c].ep = None /\ client[c].co = "runs"
      /\ \A p \in 1 .. b : ~Woken(p, c)
      /\ \A k \in Coalesced : ~Erasing(k) => ~Parked(k, c)
      /\ ~Mute(Down[h]) /\ f \in FrameType
  BY <1>0, RunsFacts
<1>2. /\ slot' = slot /\ client' = client /\ pending' = pending /\ reconnects' = reconnects
      /\ stack' = <<f>> \o Tail(stack)
  BY DEF SendRefused, Failed
<1>3. ~Dumb(Down[h])
  <2>1. Retries \/ Down[h].arg # "failed"
    BY <1>0, RunsFacts DEF SendRefused, Calls
  <2> QED BY <1>1, <2>1 DEF Dumb
<1>t. /\ DOMAIN client = Clients /\ \A d \in Clients : ClientShape(client[d])
      /\ pending \in [Coalesced -> [by : Slots \cup {None}, waiters : Seq(Tokens)]]
  BY <1>0 DEF Typed
<1>4. /\ KeepsBelow(b) /\ stack' \in Seq(FrameType) /\ Fresh(b) = {h} /\ Height' = h
      /\ Down'[h] = f /\ f.op = "run" /\ f.on = c
  BY <1>0, <1>1, <1>2, Pushes1 DEF Frame
<1>5. Linked'
  BY <1>2 DEF SInv, Linked
<1>6. \A k : Erasing(k)' <=> Erasing(k)
  BY <1>1, <1>4, ErasingSame
<1>7. TokensKept(b)
  <2>1. \A d \in Clients : Woken(h, d)' => d = c
    BY <1>4 DEF Woken, Owes
  <2>2. \A k \in Coalesced : Parked(k, c)' <=> Parked(k, c)
    BY <1>2 DEF Parked
  <2>3. Loose(b, c)
    BY <1>1, <1>6, <2>2 DEF Loose
  <2> QED BY <1>1, <1>2, <1>4, <2>1, <2>3 DEF TokensKept
<1>8. EntriesKept
  BY <1>2, <1>6 DEF EntriesKept, SInv, ParkedOnce
<1>9. WokenOnce' /\ ParkedOnce'
  BY <1>4, <1>7, <1>8, TokensStep DEF SInv
<1>10. ClosingKept(b) /\ DumbFresh(b)
  BY <1>1, <1>2, <1>3, <1>4 DEF ClosingKept, DumbFresh
<1> QED BY <1>1, <1>2, <1>t, <1>4, <1>5, <1>9, <1>10, ClientStepInv

LEMMA ReturnsStep ==
  ASSUME SInv, Tame, setup' = setup, NEW c \in Clients, Returns(c)
  PROVE  SInv'
<1> PICK h : h = Height
  OBVIOUS
<1> DEFINE b == h - 1
<1>0. Typed /\ Runs(c)
  BY DEF SInv, Returns
<1>1. /\ stack # <<>> /\ h \in Nat \ {0} /\ h \in Depth
      /\ Down[h].op = "run" /\ Down[h].on = c
      /\ client[c].ep = None
      /\ \A p \in 1 .. b : ~Woken(p, c)
      /\ \A k \in Coalesced : ~Erasing(k) => ~Parked(k, c)
  BY <1>0, RunsFacts
<1>2. /\ slot' = slot /\ pending' = pending /\ reconnects' = reconnects
      /\ stack' = Tail(stack) /\ client' = [client EXCEPT ![c].co = "done"]
  BY DEF Returns
<1>t. /\ DOMAIN client = Clients /\ \A d \in Clients : ClientShape(client[d])
      /\ pending \in [Coalesced -> [by : Slots \cup {None}, waiters : Seq(Tokens)]]
  BY <1>0 DEF Typed
<1>3. /\ KeepsBelow(b) /\ stack' \in Seq(FrameType) /\ Fresh(b) = {} /\ Height' = h - 1
  BY <1>0, <1>1, <1>2, Pops
<1>4. /\ DOMAIN client' = Clients /\ ClientShape(client'[c])
      /\ \A d \in Clients \ {c} : client'[d] = client[d]
      /\ client'[c].gen = client[c].gen /\ client'[c].ep = client[c].ep
      /\ client'[c].async = client[c].async /\ client'[c].pin = client[c].pin
  BY <1>2, <1>t DEF ClientShape, ClientFields
<1>5. Linked'
  BY <1>1, <1>2, <1>4 DEF SInv, Linked
<1>6. \A k : Erasing(k)' <=> Erasing(k)
  BY <1>1, <1>3, ErasingSame
<1>7. TokensKept(b)
  <2>1. \A k \in Coalesced : Parked(k, c)' <=> Parked(k, c)
    BY <1>2, <1>4 DEF Parked
  <2>2. Loose(b, c)
    BY <1>1, <1>6, <2>1 DEF Loose
  <2> QED BY <1>3, <1>4, <2>2 DEF TokensKept
<1>8. EntriesKept
  BY <1>2, <1>6 DEF EntriesKept, SInv, ParkedOnce
<1>9. WokenOnce' /\ ParkedOnce'
  BY <1>3, <1>7, <1>8, TokensStep DEF SInv
<1>10. ClosingKept(b) /\ DumbFresh(b)
  BY <1>1, <1>3, <1>4 DEF ClosingKept, DumbFresh
<1>11. \A d \in Clients : ClientShape(client'[d]) /\ client'[d].pin = client[d].pin
  BY <1>t, <1>4
<1>12. /\ Height > 0 /\ Down[Height].op = "run" /\ DOMAIN client' = Clients
       /\ \A p \in Fresh(b) : Down'[p].op \in {"run", "resume", "waiters"}
       /\ pending' \in [Coalesced -> [by : Slots \cup {None}, waiters : Seq(Tokens)]]
  BY <1>1, <1>2, <1>t, <1>3, <1>4
<1> HIDE DEF b
<1> QED BY <1>2, <1>3, <1>5, <1>9, <1>10, <1>11, <1>12, ClientStepInv

LEMMA SendCoalescedStep ==
  ASSUME SInv, Tame, setup' = setup, NEW c \in Clients, NEW req, SendCoalesced(c, req)
  PROVE  SInv'
<1> PICK h : h = Height
  OBVIOUS
<1> DEFINE b == h - 1
           t == Source(c, client[c].gen)
<1>0. Typed /\ Runs(c)
  BY DEF SInv, SendCoalesced, Calls
<1>1. /\ stack # <<>> /\ h \in Nat \ {0} /\ h \in Depth
      /\ Down[h].op = "run" /\ Down[h].on = c
      /\ client[c].live /\ client[c].ep = None
      /\ \A p \in 1 .. b : ~Woken(p, c)
      /\ \A k \in Coalesced : ~Erasing(k) => ~Parked(k, c)
  BY <1>0, RunsFacts
<1>2. /\ slot' = slot /\ reconnects' = reconnects /\ stack' = Tail(stack)
      /\ client' = [client EXCEPT ![c].async = TRUE, ![c].co = "waits", ![c].req = req]
      /\ pending' = [pending EXCEPT ![req].waiters = Append(@, t)]
      /\ req \in Coalesced /\ pending[req].by # None
  BY DEF SendCoalesced, InFlight
<1>t. /\ DOMAIN client = Clients /\ \A d \in Clients : ClientShape(client[d])
      /\ pending \in [Coalesced -> [by : Slots \cup {None}, waiters : Seq(Tokens)]]
  BY <1>0 DEF Typed
<1>3. /\ KeepsBelow(b) /\ stack' \in Seq(FrameType) /\ Fresh(b) = {} /\ Height' = h - 1
  BY <1>0, <1>1, <1>2, Pops
<1>4. /\ DOMAIN client' = Clients /\ ClientShape(client'[c])
      /\ \A d \in Clients \ {c} : client'[d] = client[d]
      /\ client'[c].gen = client[c].gen /\ client'[c].ep = client[c].ep
      /\ client'[c].live = client[c].live /\ client'[c].co = "waits"
      /\ client'[c].pin = client[c].pin
  BY <1>2, <1>t DEF ClientShape, ClientFields
<1>5. Linked'
  BY <1>1, <1>2, <1>4 DEF SInv, Linked
<1>6. \A k : Erasing(k)' <=> Erasing(k)
  BY <1>1, <1>3, ErasingSame
<1>7. \A d \in Clients : client[d].gen \in Nat /\ client'[d].gen = client[d].gen
  BY <1>t, <1>4 DEF ClientShape
<1>8. /\ pending'[req].waiters = Append(pending[req].waiters, t)
      /\ pending'[req].by = pending[req].by /\ pending[req].waiters \in Seq(Tokens)
      /\ \A k \in Coalesced \ {req} : pending'[k] = pending[k]
  BY <1>2, <1>t
<1>9. ASSUME NEW d \in Clients
      PROVE  /\ pending'[req].waiters \in Seq(Tokens)
             /\ Parked(req, d)' <=> Parked(req, d) \/ d = c
             /\ Old(pending'[req].waiters, d, client'[d].gen)
             /\ ~Erasing(req) => Once(pending'[req].waiters, d, client'[d].gen)
  <2>1. /\ Old(pending[req].waiters, d, client[d].gen)
        /\ ~Erasing(req) => Once(pending[req].waiters, d, client[d].gen)
    BY <1>2 DEF SInv, ParkedOnce
  <2>2. ~Erasing(req) => ~Waits(pending[req].waiters, c, client[c].gen)
    BY <1>1, <1>2 DEF Parked
  <2>3. client[c].gen \in Nat /\ client[d].gen \in Nat /\ client'[d].gen = client[d].gen
    BY <1>7
  <2>4. /\ pending'[req].waiters \in Seq(Tokens)
        /\ Waits(pending'[req].waiters, d, client[d].gen) <=>
              Waits(pending[req].waiters, d, client[d].gen) \/ (c = d /\ client[c].gen = client[d].gen)
        /\ Old(pending'[req].waiters, d, client[d].gen)
        /\ ~Erasing(req) => Once(pending'[req].waiters, d, client[d].gen)
    BY <1>8, <2>1, <2>2, <2>3, WaitsAppend
  <2> QED BY <2>3, <2>4 DEF Parked
<1>10. pending' \in [Coalesced -> [by : Slots \cup {None}, waiters : Seq(Tokens)]]
  <2>1. pending'[req].waiters \in Seq(Tokens)
    BY <1>9
  <2>2. Append(pending[req].waiters, t) \in Seq(Tokens)
    BY <1>8, <2>1
  <2> HIDE DEF t
  <2> QED BY <1>2, <1>t, <2>2
<1>11. \A p \in 1 .. b : p \in Depth /\ Down'[p] = Down[p]
  BY <1>1, <1>3 DEF KeepsBelow, Depth
<1>12. \A p \in 1 .. b, d \in Clients : Woken(p, d)' <=> Woken(p, d)
  BY <1>7, <1>11 DEF Woken
<1>13. Depth' = 1 .. b
  BY <1>3 DEF Depth
<1>14. WokenOnce'
  <2>1. \A p \in 1 .. b, d \in Clients : Woken(p, d) => client'[d] = client[d]
    BY <1>1, <1>4
  <2> QED BY <1>7, <1>11, <1>12, <1>13, <2>1 DEF SInv, WokenOnce
<1>15. \A k \in Coalesced \ {req}, d \in Clients : Parked(k, d)' <=> Parked(k, d)
  BY <1>7, <1>8 DEF Parked
<1>16. ParkedOnce'
  <2>0. Coalesced' = Coalesced
    BY SetupKept
  <2>1. \A k \in Coalesced, d \in Clients :
           /\ Old(pending'[k].waiters, d, client'[d].gen)
           /\ ~Erasing(k)' => Once(pending'[k].waiters, d, client'[d].gen)
    BY <1>6, <1>7, <1>8, <1>9 DEF SInv, ParkedOnce
  <2>2. ASSUME NEW k \in Coalesced, NEW d \in Clients, ~Erasing(k)', Parked(k, d)'
        PROVE  /\ client'[d].live /\ client'[d].ep = None /\ client'[d].co = "waits"
               /\ \A p \in Depth' : ~Woken(p, d)'
               /\ \A l \in Coalesced : ~Erasing(l)' /\ Parked(l, d)' => l = k
    <3>1. CASE d = c
      <4>1. k = req
        BY <1>1, <1>6, <1>15, <2>2, <3>1
      <4>2. \A l \in Coalesced : ~Erasing(l)' /\ Parked(l, c)' => l = req
        BY <1>1, <1>6, <1>15
      <4> QED BY <1>1, <1>4, <1>12, <1>13, <3>1, <4>1, <4>2
    <3>2. CASE d # c
      <4>1. \A l \in Coalesced : Parked(l, d)' <=> Parked(l, d)
        BY <1>9, <1>15, <3>2
      <4>2. ~Erasing(k) /\ Parked(k, d)
        BY <1>6, <2>2, <4>1
      <4>3. /\ client[d].live /\ client[d].ep = None /\ client[d].co = "waits"
            /\ \A p \in Depth : ~Woken(p, d)
            /\ \A l \in Coalesced : ~Erasing(l) /\ Parked(l, d) => l = k
        BY <4>2 DEF SInv, ParkedOnce
      <4> QED BY <1>4, <1>6, <1>11, <1>12, <1>13, <3>2, <4>1, <4>3
    <3> QED BY <3>1, <3>2
  <2>3. \A k \in Coalesced : pending'[k].by = None => pending'[k].waiters = <<>>
    BY <1>2, <1>8 DEF SInv, ParkedOnce
  <2> QED BY <2>0, <2>1, <2>2, <2>3 DEF ParkedOnce
<1>17. ClosingKept(b) /\ DumbFresh(b)
  BY <1>1, <1>3, <1>4 DEF ClosingKept, DumbFresh
<1>18. \A d \in Clients : ClientShape(client'[d]) /\ client'[d].pin = client[d].pin
  BY <1>t, <1>4
<1>19. /\ Height > 0 /\ Down[Height].op = "run" /\ DOMAIN client' = Clients
       /\ \A p \in Fresh(b) : Down'[p].op \in {"run", "resume", "waiters"}
  BY <1>1, <1>3, <1>4
<1> HIDE DEF b
<1> QED BY <1>2, <1>3, <1>5, <1>10, <1>14, <1>16, <1>17, <1>18, <1>19, ClientStepInv

LEMMA UnpinsStep ==
  ASSUME SInv, Tame, setup' = setup, NEW c \in Clients, Unpins(c)
  PROVE  SInv'
<1> PICK h, x, f, g : /\ h = Height /\ x = client[c].pin
                      /\ f = Frame("unpin", c, x) /\ g = Down[h]
  OBVIOUS
<1> DEFINE b == h - 1
<1>0. Typed /\ Runs(c)
  BY DEF SInv, Unpins
<1>1. /\ stack # <<>> /\ h \in Nat \ {0} /\ h \in Depth /\ g = Head(stack) /\ g \in FrameType
      /\ g.op = "run" /\ g.on = c
      /\ client[c].live /\ client[c].ep = None /\ client[c].co = "runs"
      /\ \A p \in 1 .. b : ~Woken(p, c)
      /\ \A k \in Coalesced : ~Erasing(k) => ~Parked(k, c)
      /\ ~Mute(g)
  BY <1>0, RunsFacts DEF Top
<1>2. /\ slot' = slot /\ pending' = pending /\ reconnects' = reconnects
      /\ client' = [client EXCEPT ![c].pin = NoPin] /\ stack' = <<f>> \o stack
  BY DEF Unpins
<1>t. /\ DOMAIN client = Clients /\ \A d \in Clients : ClientShape(client[d])
      /\ pending \in [Coalesced -> [by : Slots \cup {None}, waiters : Seq(Tokens)]]
      /\ stack \in Seq(FrameType)
  BY <1>0 DEF Typed
<1>3. f \in FrameType /\ f.op = "unpin" /\ f.arg = x /\ x \in Pins
  <2>1. x \in Pins
    BY <1>t DEF ClientShape
  <2> QED BY <2>1, FrameTypes DEF Frame
<1>4. stack' = <<f, g>> \o Tail(stack)
  <2>1. stack = <<g>> \o Tail(stack)
    BY <1>1, <1>t
  <2>2. <<f>> \o (<<g>> \o Tail(stack)) = (<<f>> \o <<g>>) \o Tail(stack)
    <3>1. <<f>> \in Seq(FrameType) /\ <<g>> \in Seq(FrameType) /\ Tail(stack) \in Seq(FrameType)
      BY <1>1, <1>3, <1>t
    <3> QED BY <3>1, ConcatAssociative
  <2>3. <<f>> \o <<g>> = <<f, g>>
    <3> DEFINE u == <<f>> \o <<g>>
               v == <<f, g>>
    <3>1. u \in Seq(FrameType) /\ Len(u) = 2 /\ u[1] = f /\ u[2] = g
      BY <1>1, <1>3
    <3>2. v \in Seq(FrameType) /\ Len(v) = 2 /\ v[1] = f /\ v[2] = g
      BY <1>1, <1>3
    <3> HIDE DEF u, v
    <3>3. u = v
      BY <3>1, <3>2, SeqEqual
    <3> QED BY <3>3 DEF u, v
  <2> QED BY <1>2, <2>1, <2>2, <2>3
<1>5. /\ KeepsBelow(b) /\ stack' \in Seq(FrameType) /\ Fresh(b) = {h, h + 1} /\ Height' = h + 1
      /\ Down'[h] = g /\ Down'[h + 1] = f
  BY <1>0, <1>1, <1>3, <1>4, Pushes2
<1>6. /\ DOMAIN client' = Clients /\ ClientShape(client'[c])
      /\ \A d \in Clients \ {c} : client'[d] = client[d]
      /\ client'[c].gen = client[c].gen /\ client'[c].ep = client[c].ep
      /\ client'[c].live = client[c].live /\ client'[c].co = client[c].co
      /\ client'[c].async = client[c].async /\ client'[c].pin = NoPin
  <2>1. NoPin \in Pins
    BY DEF NoPin, Pins
  <2> QED BY <1>2, <1>t, <2>1 DEF ClientShape, ClientFields
<1>7. Typed'
  BY <1>0, <1>2, <1>5, <1>6, TypedStep DEF Typed
<1>8. Linked'
  BY <1>2, <1>6 DEF SInv, Linked
<1>9. \A k : Erasing(k)' <=> Erasing(k)
  BY <1>1, <1>3, <1>5, ErasingSame
<1>10. TokensKept(b)
  <2>1. \A d \in Clients : (Woken(h, d)' => d = c) /\ ~Woken(h + 1, d)'
    BY <1>1, <1>3, <1>5 DEF Woken, Owes
  <2>2. \A k \in Coalesced : Parked(k, c)' <=> Parked(k, c)
    BY <1>2, <1>6 DEF Parked
  <2>3. Loose(b, c)
    BY <1>1, <1>9, <2>2 DEF Loose
  <2>4. \A d \in Clients : /\ client'[d].gen = client[d].gen /\ client'[d].live = client[d].live
                          /\ client'[d].ep = client[d].ep /\ client'[d].co = client[d].co
    BY <1>6
  <2>5. ASSUME NEW p \in Fresh(b), NEW d \in Clients, Woken(p, d)'
        PROVE  p = h /\ d = c
    BY <1>5, <2>1, <2>5
  <2>6. /\ Down'[h].op = "run" /\ Down'[h + 1].op = "unpin"
        /\ client'[c].live /\ client'[c].ep = None /\ client'[c].co = "runs"
    BY <1>1, <1>3, <1>5, <2>4
  <2>7. \A p \in Fresh(b) : Down'[p].op # "waiters"
    BY <1>5, <2>6
  <2> HIDE DEF b
  <2> QED BY <2>3, <2>4, <2>5, <2>6, <2>7 DEF TokensKept
<1>11. EntriesKept
  BY <1>2, <1>9 DEF EntriesKept, SInv, ParkedOnce
<1>12. WokenOnce' /\ ParkedOnce'
  BY <1>5, <1>10, <1>11, TokensStep DEF SInv
<1>13. Closing'
  <2>1. ClosingKept(b)
    BY <1>1, <1>3, <1>5, <1>6 DEF ClosingKept
  <2>2. \A p \in Depth : Down[p].op = "freeClient" => Down[p].on \in Clients
    BY <1>0, FramesTyped, FrameFacts
  <2> QED BY <1>5, <2>1, <2>2, ClosingStep DEF SInv
<1>14. Placed' /\ NoNesting' /\ NotTaken' /\ Expected' /\ Carried'
  <2>1. Mute(Down[h + 1])'
    BY <1>1, <1>3, <1>5 DEF Mute
  <2>2. Dumb(Down[h]) => Dumb(Down[h])'
    <3>1. Retries' = Retries
      BY SetupKept
    <3> QED BY <1>1, <1>5, <3>1 DEF Dumb
  <2>3. Dumb(Down[h + 1])'
    BY <2>1 DEF Dumb
  <2>4. DumbFresh(b)
    BY <1>1, <1>3, <1>5, <2>1, <2>2, <2>3 DEF DumbFresh
  <2>5. Down[h].op \notin SlotOps
    BY <1>1 DEF SlotOps
  <2> QED BY SMTT(40), <1>1, <1>2, <1>3, <1>5, <2>4, <2>5, ClientSteps
<1>15. Pinned'
  <2>0. Pinning' = Pinning
    BY SetupKept
  <2>1. /\ \A p \in Depth' : p \in 1 .. b \/ p = h \/ p = h + 1
        /\ \A p \in 1 .. b : p \in Depth /\ p \in Depth' /\ Down'[p] = Down[p]
        /\ h + 1 \in Depth' /\ h \in Depth'
    BY <1>1, <1>5 DEF Depth, KeepsBelow
  <2>2. \A d \in Clients : client'[d].pin.slot # None => d # c /\ client'[d].pin = client[d].pin
    BY <1>6 DEF NoPin
  <2>3. x.slot # None => x.gen <= slot[x.slot].gen
    BY DEF SInv, Pinned
  <2>4. ASSUME NEW d \in Clients, client'[d].pin.slot # None
        PROVE  /\ client'[d].pin.gen <= slot'[client'[d].pin.slot].gen
               /\ \A e \in Clients : client'[e].pin = client'[d].pin => e = d
               /\ \A p \in Depth' : Down'[p].op = "unpin" => Down'[p].arg # client'[d].pin
    <3>1. d # c /\ client'[d].pin = client[d].pin
      BY <2>2, <2>4
    <3>2. \A e \in Clients : client'[e].pin = client'[d].pin => client'[e].pin = client[e].pin
      BY <2>2, <2>4
    <3>3. x # client[d].pin
      BY <2>4, <3>1 DEF SInv, Pinned
    <3>4. /\ client[d].pin.gen <= slot[client[d].pin.slot].gen
          /\ \A e \in Clients : client[e].pin = client[d].pin => e = d
          /\ \A p \in Depth : Down[p].op = "unpin" => Down[p].arg # client[d].pin
      BY <2>4, <3>1 DEF SInv, Pinned
    <3>5. \A p \in Depth' : Down'[p].op = "unpin" => Down'[p].arg # client[d].pin
      BY <1>1, <1>3, <1>5, <2>1, <3>3, <3>4
    <3> QED BY <1>2, <3>1, <3>2, <3>4, <3>5
  <2>5. ASSUME NEW p \in Depth', Down'[p].op = "unpin", Down'[p].arg.slot # None
        PROVE  Down'[p].arg.gen <= slot'[Down'[p].arg.slot].gen
    <3>1. CASE p \in 1 .. b
      BY <1>2, <2>1, <2>5, <3>1 DEF SInv, Pinned
    <3>2. CASE p = h
      BY <1>1, <1>5, <2>5, <3>2
    <3>3. CASE p = h + 1
      BY <1>2, <1>3, <1>5, <2>3, <2>5, <3>3
    <3> QED BY <2>1, <3>1, <3>2, <3>3
  <2>6. ASSUME NEW s \in Slots, NEW d \in Clients, slot'[s].client = d, slot'[s].reserved
        PROVE  \/ client'[d].pin = [slot |-> s, gen |-> slot'[s].gen]
               \/ \E p \in Depth' : /\ Down'[p].op = "unpin"
                                    /\ Down'[p].arg = [slot |-> s, gen |-> slot'[s].gen]
    <3>1. d # c
      BY <1>1, <1>2, <2>6, SetsAssumption DEF SInv, Linked
    <3>2. \/ client[d].pin = [slot |-> s, gen |-> slot[s].gen]
          \/ \E p \in Depth : /\ Down[p].op = "unpin"
                              /\ Down[p].arg = [slot |-> s, gen |-> slot[s].gen]
      BY <1>2, <2>6 DEF SInv, Pinned
    <3>3. \A p \in Depth : Down[p].op = "unpin" => p \in 1 .. b
      <4>1. \A p \in 1 .. h : p \in 1 .. b \/ p = h
        BY <1>1
      <4>2. Down[h].op = "run"
        BY <1>1
      <4> QED BY <4>1, <4>2 DEF Depth
    <3>4. client'[d].pin = client[d].pin /\ slot'[s].gen = slot[s].gen
      BY <1>2, <1>6, <2>6, <3>1
    <3>5. \A p \in Depth : Down[p].op = "unpin" => p \in Depth' /\ Down'[p] = Down[p]
      BY <2>1, <3>3
    <3> QED BY <3>2, <3>4, <3>5
  <2>7. \A s \in Slots : slot'[s].reserved => Pinning'
    BY <1>2, <2>0 DEF SInv, Pinned
  <2> QED BY <2>4, <2>5, <2>6, <2>7 DEF Pinned
<1> QED BY <1>7, <1>8, <1>12, <1>13, <1>14, <1>15 DEF SInv

-------------------------------------------------------------------------------
(* Handlers on a slot.                                                       *)

\* What is left to show for a step on slot t, the reservations apart.
LEMMA SlotStepPinned ==
  ASSUME SInv, Tame, setup' = setup, NEW b, KeepsBelow(b), Typed', Linked',
         TokensKept(b), EntriesKept, ClosingKept(b), PlacedFresh(b), SlotsKept(b),
         DumbFresh(b), TakenFresh(b), ExpectedFresh(b), Pinned',
         NEW t, \A s \in Slots \ {t} : slot'[s] = slot[s],
         Height > 0 /\ Down[Height].op \in {"release", "notify", "free", "close"}
             => Down[Height].on = t,
         t \in Slots => CarriedAt(t)'
  PROVE  SInv'
<1>1. WokenOnce' /\ ParkedOnce'
  BY TokensStep DEF SInv
<1>2. Closing'
  <2>1. \A p \in Depth : Down[p].op = "freeClient" => Down[p].on \in Clients
    BY FramesTyped, FrameFacts DEF SInv
  <2> QED BY <2>1, ClosingStep DEF SInv
<1>3. Placed' /\ NoNesting' /\ NotTaken' /\ Expected'
  BY PlacedStep, NoNestingStep, NotTakenStep, ExpectedStep DEF SInv
<1>4. Carried'
  BY CarriedStep DEF SInv
<1> QED BY <1>1, <1>2, <1>3, <1>4 DEF SInv

\* ... and with them.
LEMMA SlotStepInv ==
  ASSUME SInv, Tame, setup' = setup, NEW b, KeepsBelow(b), Typed', Linked',
         TokensKept(b), EntriesKept, ClosingKept(b), PlacedFresh(b), SlotsKept(b),
         DumbFresh(b), TakenFresh(b), ExpectedFresh(b), PinsKept(b),
         NEW t, \A s \in Slots \ {t} : slot'[s] = slot[s],
         Height > 0 /\ Down[Height].op \in {"release", "notify", "free", "close"}
             => Down[Height].on = t,
         t \in Slots => CarriedAt(t)'
  PROVE  SInv'
<1>1. Pinned'
  BY PinnedStep DEF SInv
<1> QED BY <1>1, SlotStepPinned

LEMMA SlotSet ==
  ASSUME Typed, NEW s \in Slots, NEW q, SlotShape(q), Wired(q), slot' = [slot EXCEPT ![s] = q]
  PROVE  /\ DOMAIN slot' = Slots /\ slot'[s] = q
         /\ \A t \in Slots \ {s} : slot'[t] = slot[t]
         /\ \A t \in Slots : SlotShape(slot'[t]) /\ Wired(slot'[t])
  BY DEF Typed

\* A client that a slot serves is in no frame and under no key.
LEMMA LinkedLoose ==
  ASSUME SInv, NEW s \in Slots, NEW c \in Clients, slot[s].client = c
  PROVE  /\ client[c].ep = s /\ client[c].live /\ client[c].co = "waits"
         /\ \A p \in Depth : ~Woken(p, c)
         /\ \A k \in Coalesced : ~Erasing(k) => ~Parked(k, c)
<1>1. client[c].ep = s /\ client[c].ep # None
  BY SetsAssumption DEF SInv, Linked
<1> QED BY <1>1 DEF SInv, Linked, WokenOnce, ParkedOnce

\* The client of slot s is unlinked.
LEMMA Unlinked ==
  ASSUME SInv, NEW s \in Slots, NEW c, c = slot[s].client,
         client' = IF c = None THEN client ELSE [client EXCEPT ![c].ep = None],
         DOMAIN slot' = Slots, slot'[s].client = None,
         \A t \in Slots \ {s} : slot'[t] = slot[t]
  PROVE  /\ Linked' /\ c \in Clients \cup {None}
         /\ DOMAIN client' = Clients /\ \A d \in Clients : ClientShape(client'[d])
         /\ \A d \in Clients :
               /\ client'[d].gen = client[d].gen /\ client'[d].live = client[d].live
               /\ client'[d].co = client[d].co /\ client'[d].async = client[d].async
               /\ client'[d].pin = client[d].pin
               /\ client'[d].ep = IF d = c THEN None ELSE client[d].ep
<1>1. c \in Clients \cup {None} /\ None \notin Clients /\ None \notin Slots
  BY SetsAssumption DEF SInv, Typed, SlotShape
<1>2. DOMAIN client = Clients /\ \A d \in Clients : ClientShape(client[d])
  BY DEF SInv, Typed
<1>3. /\ DOMAIN client' = Clients /\ \A d \in Clients : ClientShape(client'[d])
      /\ \A d \in Clients :
            /\ client'[d].gen = client[d].gen /\ client'[d].live = client[d].live
            /\ client'[d].co = client[d].co /\ client'[d].async = client[d].async
            /\ client'[d].pin = client[d].pin
            /\ client'[d].ep = IF d = c THEN None ELSE client[d].ep
  BY <1>1, <1>2 DEF ClientShape, ClientFields
<1>4. /\ \A d \in Clients : client[d].ep # None => client[d].co = "waits" /\ client[d].live
      /\ \A t \in Slots, d \in Clients : slot[t].client = d <=> client[d].ep = t
  BY DEF SInv, Linked
<1>5. Linked'
  <2>1. ASSUME NEW t \in Slots, NEW d \in Clients
        PROVE  slot'[t].client = d <=> client'[d].ep = t
    <3>1. CASE t = s
      BY <1>1, <1>3, <1>4, <3>1
    <3>2. CASE t # s
      BY <1>1, <1>3, <1>4, <3>2
    <3> QED BY <3>1, <3>2
  <2> QED BY <1>3, <1>4, <2>1 DEF Linked
<1> QED BY <1>1, <1>3, <1>5

LEMMA NotifyClientStep ==
  ASSUME SInv, Tame, setup' = setup, NotifyClient
  PROVE  SInv'
<1>h. PICK h, s, c : h = Height /\ s = Down[h].on /\ c = slot[s].client
  OBVIOUS
<1>q. PICK q, f : q = [slot[s] EXCEPT !.client = None] /\ f = Frame("resume", c, None)
  OBVIOUS
<1> DEFINE b == h - 1
<1>0. Typed /\ stack # <<>>
  BY DEF SInv, NotifyClient, Running
<1>1. /\ h \in Nat \ {0} /\ h \in Depth /\ Top = Down[h] /\ Down[h] \in FrameType
      /\ Down[h].op = "notify" /\ s \in Slots
  <2>1. h \in Nat \ {0} /\ h \in Depth /\ Top = Down[h] /\ Down[h] \in FrameType
    BY <1>h, <1>0, TopFacts
  <2>2. Down[h].op = "notify"
    BY <2>1 DEF NotifyClient, Running
  <2> QED BY <1>h, <2>1, <2>2, FrameFacts DEF SlotOps
<1>2. /\ slot' = [slot EXCEPT ![s] = q] /\ pending' = pending /\ reconnects' = reconnects
      /\ client' = IF c = None THEN client ELSE [client EXCEPT ![c].ep = None]
      /\ stack' = <<f>> \o Tail(stack)
  BY <1>q, <1>h, <1>0, <1>1 DEF NotifyClient, Typed
<1>3. /\ SlotShape(q) /\ Wired(q) /\ q.client = None /\ Dialling(q) = Dialling(slot[s])
      /\ \A x \in SlotFields \ {"client"} : q[x] = slot[s][x]
  BY <1>q, <1>h, <1>0, <1>1 DEF Typed, SlotShape, SlotFields, Wired, Dialling, IsConnecting
<1>4. /\ DOMAIN slot' = Slots /\ slot'[s] = q
      /\ \A t \in Slots \ {s} : slot'[t] = slot[t]
      /\ \A t \in Slots : SlotShape(slot'[t]) /\ Wired(slot'[t])
  BY <1>0, <1>1, <1>2, <1>3, SlotSet
<1>5. /\ Linked' /\ c \in Clients \cup {None}
      /\ DOMAIN client' = Clients /\ \A d \in Clients : ClientShape(client'[d])
      /\ \A d \in Clients :
            /\ client'[d].gen = client[d].gen /\ client'[d].live = client[d].live
            /\ client'[d].co = client[d].co /\ client'[d].async = client[d].async
            /\ client'[d].pin = client[d].pin
            /\ client'[d].ep = IF d = c THEN None ELSE client[d].ep
  <2>1. /\ c = slot[s].client /\ s \in Slots /\ DOMAIN slot' = Slots /\ slot'[s].client = None
        /\ \A t \in Slots \ {s} : slot'[t] = slot[t]
        /\ client' = IF c = None THEN client ELSE [client EXCEPT ![c].ep = None]
    BY <1>h, <1>1, <1>2, <1>3, <1>4
  <2> QED BY <2>1, Unlinked
<1>6. f \in FrameType /\ f.op = "resume" /\ f.on = c /\ f.arg = None
  BY <1>q, <1>h, <1>5, FrameTypes DEF Frame
<1>7. /\ KeepsBelow(b) /\ stack' \in Seq(FrameType) /\ Fresh(b) = {h} /\ Height' = h
      /\ Down'[h] = f
  BY <1>h, <1>0, <1>2, <1>6, Pushes1
<1>8. Typed'
  BY <1>0, <1>2, <1>4, <1>5, <1>7, TypedStep DEF Typed
<1>9. \A k : Erasing(k)' <=> Erasing(k)
  BY <1>h, <1>1, <1>6, <1>7, ErasingSame
<1>10. TokensKept(b)
  <2>1. ASSUME c \in Clients
        PROVE  Loose(b, c) /\ client[c].live /\ client[c].co = "waits"
    <3>1. /\ client[c].live /\ client[c].co = "waits"
          /\ \A p \in Depth : ~Woken(p, c)
          /\ \A k \in Coalesced : ~Erasing(k) => ~Parked(k, c)
      BY <1>h, <1>1, <2>1, LinkedLoose
    <3>2. \A p \in 1 .. b : p \in Depth
      BY <1>h, <1>1 DEF Depth
    <3>3. \A k \in Coalesced : Parked(k, c)' <=> Parked(k, c)
      BY <1>2, <1>5, <2>1 DEF Parked
    <3> QED BY <1>9, <3>1, <3>2, <3>3 DEF Loose
  <2>2. \A d \in Clients : Woken(h, d)' => d = c
    BY <1>6, <1>7 DEF Woken, Owes
  <2> QED BY <1>5, <1>6, <1>7, <2>1, <2>2 DEF TokensKept
<1>11. EntriesKept
  BY <1>2, <1>9 DEF EntriesKept, SInv, ParkedOnce
<1>12. ClosingKept(b) /\ PlacedFresh(b) /\ SlotsKept(b)
  <2>1. ClosingKept(b)
    BY <1>h, <1>1, <1>5, <1>6, <1>7 DEF ClosingKept
  <2>2. PlacedFresh(b)
    BY <1>6, <1>7 DEF PlacedFresh
  <2>3. \A p \in 1 .. b : Down[p].op \in SlotOps => Down[p].on \in Slots
    BY <1>0, <1>1, FramesTyped, FrameFacts DEF Depth
  <2>4. \A t \in Slots : /\ slot'[t].leased = slot[t].leased /\ slot'[t].reserved = slot[t].reserved
                         /\ slot'[t].client \in {slot[t].client, None}
                         /\ slot'[t].key = slot[t].key /\ Dialling(slot'[t]) = Dialling(slot[t])
    BY <1>1, <1>3, <1>4 DEF SlotFields
  <2>5. SlotsKept(b)
    BY <2>3, <2>4 DEF SlotsKept
  <2> QED BY <2>1, <2>2, <2>5
<1>13. DumbFresh(b)
  <2>1. Dumb(Down[h]) => c = None
    BY <1>h, <1>1 DEF Dumb, Mute
  <2>2. c = None => Mute(Down[h])'
    BY <1>6, <1>7 DEF Mute
  <2> QED BY <1>h, <1>6, <1>7, <2>1, <2>2 DEF DumbFresh, Dumb
<1>14. TakenFresh(b) /\ ExpectedFresh(b)
  <2>1. Down'[h].op \notin SlotOps
    BY <1>6, <1>7 DEF SlotOps
  <2>2. TakenFresh(b)
    BY <1>6, <1>7, <2>1 DEF TakenFresh
  <2>3. ExpectedFresh(b)
    BY <1>h, <1>1, <1>3, <1>4, <1>6, <1>7 DEF ExpectedFresh
  <2> QED BY <2>2, <2>3
<1>15. PinsKept(b)
  <2>1. \A t \in Slots : /\ slot[t].gen \in Nat /\ slot'[t].gen = slot[t].gen
                         /\ slot'[t].reserved = slot[t].reserved
                         /\ slot'[t].client \in {slot[t].client, None}
    BY <1>0, <1>1, <1>3, <1>4 DEF Typed, SlotShape, SlotFields
  <2>2. \A d \in Clients : client'[d].pin = client[d].pin
    BY <1>5
  <2> QED BY <1>h, <1>1, <1>6, <1>7, <2>1, <2>2, SetsAssumption DEF PinsKept
<1>16. CarriedAt(s)'
  <2>1. h > 1 /\ Down[h - 1].op = "free" /\ Down[h - 1].on = s
    BY <1>h, <1>1 DEF SInv, Placed
  <2>2. h - 1 \in Depth' /\ Down'[h - 1] = Down[h - 1]
    BY <1>1, <1>7, <2>1 DEF KeepsBelow, Depth
  <2>3. Ending(s)'
    BY <2>1, <2>2 DEF Ending
  <2> QED BY <1>1, <1>3, <1>4, <2>3 DEF SInv, Carried, CarriedAt, SlotFields
<1> HIDE DEF b
<1> QED BY <1>h, <1>1, <1>4, <1>5, <1>7, <1>8, <1>10, <1>11, <1>12, <1>13, <1>14, <1>15, <1>16,
           SlotStepInv

LEMMA FreeSlotStep ==
  ASSUME SInv, Tame, setup' = setup, FreeSlot
  PROVE  SInv'
<1>h. PICK h, s : h = Height /\ s = Down[h].on
  OBVIOUS
<1>q. PICK q : q = Reset(slot[s])
  OBVIOUS
<1> DEFINE b == h - 1
<1>0. Typed /\ stack # <<>>
  BY DEF SInv, FreeSlot, Running
<1>1. /\ h \in Nat \ {0} /\ h \in Depth /\ Top = Down[h] /\ Down[h] \in FrameType
      /\ Down[h].op = "free" /\ s \in Slots
  <2>1. h \in Nat \ {0} /\ h \in Depth /\ Top = Down[h] /\ Down[h] \in FrameType
    BY <1>h, <1>0, TopFacts
  <2>2. Down[h].op = "free"
    BY <2>1 DEF FreeSlot, Running
  <2> QED BY <1>h, <2>1, <2>2, FrameFacts DEF SlotOps
<1>2. /\ slot' = [slot EXCEPT ![s] = q] /\ pending' = pending /\ reconnects' = reconnects
      /\ client' = client /\ stack' = Tail(stack)
  BY <1>q, <1>h, <1>0, <1>1 DEF FreeSlot, Typed
<1>3. /\ SlotShape(q) /\ Wired(q) /\ q.client = None /\ q.key = None /\ ~Dialling(q)
      /\ ~q.leased /\ ~q.reserved /\ ~q.awaiting /\ q.gen = slot[s].gen
  <2>1. SlotShape(slot[s])
    BY <1>0, <1>1 DEF Typed
  <2>2. DOMAIN q = SlotFields
    BY <1>q, <1>h DEF Reset, Closed, SlotFields
  <2>3. /\ q.client = None /\ q.key = None /\ q.ev = "ACCEPT" /\ ~q.onconn /\ ~q.awaiting
        /\ ~q.leased /\ ~q.reserved /\ q.gen = slot[s].gen /\ q.deferred = slot[s].deferred
        /\ q.owes = None /\ ~q.alive
    BY <1>q, <1>h DEF Reset, Closed
  <2> QED BY <2>1, <2>2, <2>3 DEF SlotShape, Wired, Dialling, IsConnecting
<1>4. /\ DOMAIN slot' = Slots /\ slot'[s] = q
      /\ \A t \in Slots \ {s} : slot'[t] = slot[t]
      /\ \A t \in Slots : SlotShape(slot'[t]) /\ Wired(slot'[t])
  BY <1>0, <1>1, <1>2, <1>3, SlotSet
<1>5. slot[s].client = None
  BY <1>h, <1>1 DEF SInv, Expected
<1>6. Linked'
  BY <1>1, <1>2, <1>3, <1>4, <1>5, SetsAssumption DEF SInv, Linked
<1>7. KeepsBelow(b) /\ stack' \in Seq(FrameType) /\ Fresh(b) = {} /\ Height' = h - 1
  BY <1>h, <1>0, <1>2, Pops
<1>8. Typed'
  BY <1>0, <1>2, <1>4, <1>7, TypedStep DEF Typed
<1>9. \A k : Erasing(k)' <=> Erasing(k)
  BY <1>h, <1>1, <1>7, ErasingSame
<1>10. TokensKept(b) /\ EntriesKept
  BY <1>2, <1>7, <1>9 DEF TokensKept, EntriesKept, SInv, ParkedOnce
<1>11. ClosingKept(b) /\ PlacedFresh(b) /\ DumbFresh(b) /\ TakenFresh(b) /\ ExpectedFresh(b)
  BY <1>h, <1>1, <1>2, <1>7 DEF ClosingKept, PlacedFresh, DumbFresh, TakenFresh, ExpectedFresh
<1>12. SlotsKept(b)
  <2>1. \A p \in 1 .. b : Down[p].op \in SlotOps => Down[p].on \in Slots
    BY <1>0, <1>1, FramesTyped, FrameFacts DEF Depth
  <2>2. ASSUME NEW p \in 1 .. b, Down[p].op \in SlotOps, Down[p].on = s
        PROVE  DumbAbove(p)
    <3>1. p \in Depth /\ p < h /\ Down[h].op \in SlotOps
      BY <1>h, <1>1 DEF Depth, SlotOps
    <3> QED BY <1>h, <1>1, <2>2, <3>1 DEF SInv, NotTaken
  <2> QED BY <1>3, <1>4, <2>1, <2>2 DEF SlotsKept
<1>13. PinsKept(b)
  BY <1>h, <1>0, <1>1, <1>2, <1>3, <1>4, <1>7 DEF PinsKept, Typed, SlotShape
<1>14. CarriedAt(s)'
  BY <1>3, <1>4 DEF CarriedAt
<1> HIDE DEF b
<1> QED BY <1>h, <1>1, <1>4, <1>6, <1>7, <1>8, <1>10, <1>11, <1>12, <1>13, <1>14, SlotStepInv

LEMMA CloseSlotStep ==
  ASSUME SInv, Tame, setup' = setup, CloseSlot
  PROVE  SInv'
<1>h. PICK h, s : h = Height /\ s = Down[h].on
  OBVIOUS
<1>q. PICK x, f : x = CloseForce(s, slot[s]) /\ f = Frame("release", s, None)
  OBVIOUS
<1> DEFINE b == 0
           q == x.slot
<1>0. Typed /\ stack # <<>>
  BY DEF SInv, CloseSlot, Running
<1>1. /\ h = 1 /\ h \in Depth /\ Top = Down[h] /\ Down[h] \in FrameType
      /\ Down[h].op = "close" /\ s \in Slots
  <2>1. h \in Nat \ {0} /\ h \in Depth /\ Top = Down[h] /\ Down[h] \in FrameType
    BY <1>h, <1>0, TopFacts
  <2>2. Down[h].op = "close"
    BY <2>1 DEF CloseSlot, Running
  <2>3. h = 1
    BY <2>1, <2>2 DEF SInv, Placed
  <2> QED BY <1>h, <2>1, <2>2, <2>3, FrameFacts DEF SlotOps
<1>2. SlotShape(slot[s]) /\ Wired(slot[s])
  BY <1>0, <1>1 DEF Typed
<1>3. /\ SlotShape(q) /\ Wired(q) /\ Same(slot[s], q) /\ Kept(slot[s], q)
      /\ Dialling(q) = Dialling(slot[s]) /\ x.calls = <<f>> /\ ~x.unlinks /\ ~x.again
      /\ x.registers = None /\ q.awaiting = slot[s].awaiting
  <2>1. Moves(slot[s], slot[s])
    BY <1>2, MovesSelf
  <2>2. /\ Effect(s, slot[s], x) /\ Same(slot[s], q) /\ Kept(slot[s], q)
        /\ Dialling(q) = Dialling(slot[s]) /\ x.calls = <<f>> /\ ~x.unlinks
    BY <1>q, <1>h, <2>1, CloseForEffect DEF CloseForce
  <2>3. ~x.again /\ x.registers = None
    BY <1>q, <1>h DEF CloseForce, CloseFor, Does
  <2>4. q.awaiting = slot[s].awaiting
    BY <1>q, <1>h, <1>2, Zenon DEF CloseForce, CloseFor, Does, SlotShape, SlotFields
  <2> QED BY <2>2, <2>3, <2>4 DEF Effect
<1>4. /\ slot' = [slot EXCEPT ![s] = q] /\ stack' = <<f>> \o Tail(stack)
      /\ reconnects' = reconnects /\ pending' = pending /\ client' = client
  BY <1>q, <1>h, <1>1, <1>3, Zenon DEF CloseSlot, Apply
<1>5. /\ DOMAIN slot' = Slots /\ slot'[s] = q
      /\ \A t \in Slots \ {s} : slot'[t] = slot[t]
      /\ \A t \in Slots : SlotShape(slot'[t]) /\ Wired(slot'[t])
  <2> HIDE DEF q
  <2> QED BY <1>0, <1>1, <1>3, <1>4, SlotSet
<1>6. f \in FrameType /\ f.op = "release" /\ f.on = s
  BY <1>q, <1>h, <1>1, FrameTypes DEF Frame, SlotOps
<1>7. /\ KeepsBelow(b) /\ stack' \in Seq(FrameType) /\ Fresh(b) = {1} /\ Height' = 1
      /\ Down'[1] = f
  <2>1. /\ KeepsBelow(Height - 1) /\ stack' \in Seq(FrameType)
        /\ Fresh(Height - 1) = {Height} /\ Height' = Height /\ Down'[Height] = f
    BY <1>0, <1>4, <1>6, Pushes1
  <2>2. Height = 1 /\ Height - 1 = 0
    BY <1>h, <1>1
  <2> QED BY <2>1, <2>2
<1> HIDE DEF q
<1>8. Typed'
  BY <1>0, <1>4, <1>5, <1>7, TypedStep DEF Typed
<1>9. \A t \in Slots : /\ slot'[t].client = slot[t].client /\ slot'[t].gen = slot[t].gen
                       /\ slot'[t].reserved = slot[t].reserved /\ slot[t].gen \in Nat
  BY <1>0, <1>3, <1>5 DEF Same, Typed, SlotShape
<1>10. Linked'
  BY <1>4, <1>9 DEF SInv, Linked
<1>11. \A k : Erasing(k)' <=> Erasing(k)
  BY <1>h, <1>1, <1>6, <1>7, ErasingSame
<1>12. TokensKept(b) /\ EntriesKept
  <2>1. \A d \in Clients : ~Woken(1, d)'
    BY <1>6, <1>7 DEF Woken, Owes
  <2> QED BY <1>4, <1>6, <1>7, <1>11, <2>1 DEF TokensKept, EntriesKept, SInv, ParkedOnce
<1>13. ClosingKept(b) /\ PlacedFresh(b) /\ SlotsKept(b) /\ DumbFresh(b) /\ ExpectedFresh(b)
  BY <1>h, <1>1, <1>4, <1>6, <1>7 DEF ClosingKept, PlacedFresh, SlotsKept, DumbFresh, Dumb, Mute,
     ExpectedFresh
<1>14. TakenFresh(b)
  BY <1>1, <1>6, <1>7 DEF TakenFresh
<1>15. PinsKept(b)
  BY <1>h, <1>1, <1>4, <1>6, <1>7, <1>9 DEF PinsKept
<1>16. CarriedAt(s)'
  <2>1. Ending(s)'
    BY <1>6, <1>7 DEF Ending, Depth
  <2> QED BY <1>1, <1>3, <1>5, <2>1 DEF SInv, Carried, CarriedAt, Same, Kept
<1> HIDE DEF b
<1> QED BY <1>h, <1>1, <1>5, <1>7, <1>8, <1>10, <1>12, <1>13, <1>14, <1>15, <1>16, SlotStepInv

LEMMA ParseErrorStep ==
  ASSUME SInv, Tame, setup' = setup, ParseError
  PROVE  SInv'
<1>h. PICK h, s, c : h = Height /\ s = Down[h].on /\ c = slot[s].client
  OBVIOUS
<1>q. PICK q, f, g : /\ q = [slot[s] EXCEPT !.client = None]
                     /\ f = Frame("resume", c, None) /\ g = Frame("close", s, None)
  OBVIOUS
<1> DEFINE b == 0
<1>0. Typed /\ stack # <<>>
  BY DEF SInv, ParseError, Running
<1>1. /\ h = 1 /\ h \in Depth /\ Top = Down[h] /\ Down[h] \in FrameType
      /\ Down[h].op = "parseError" /\ s \in Slots
  <2>1. h \in Nat \ {0} /\ h \in Depth /\ Top = Down[h] /\ Down[h] \in FrameType
    BY <1>h, <1>0, TopFacts
  <2>2. Down[h].op = "parseError"
    BY <2>1 DEF ParseError, Running
  <2>3. h = 1
    BY <1>h, <2>1, <2>2 DEF SInv, Placed
  <2> QED BY <1>h, <2>1, <2>2, <2>3, FrameFacts DEF SlotOps
<1>2. /\ slot' = [slot EXCEPT ![s] = q] /\ pending' = pending /\ reconnects' = reconnects
      /\ client' = IF c = None THEN client ELSE [client EXCEPT ![c].ep = None]
      /\ stack' = <<f, g>> \o Tail(stack)
  BY <1>q, <1>h, <1>0, <1>1 DEF ParseError, Typed
<1>3. /\ SlotShape(q) /\ Wired(q) /\ q.client = None /\ Dialling(q) = Dialling(slot[s])
      /\ \A x \in SlotFields \ {"client"} : q[x] = slot[s][x]
  BY <1>q, <1>h, <1>0, <1>1 DEF Typed, SlotShape, SlotFields, Wired, Dialling, IsConnecting
<1>4. /\ DOMAIN slot' = Slots /\ slot'[s] = q
      /\ \A t \in Slots \ {s} : slot'[t] = slot[t]
      /\ \A t \in Slots : SlotShape(slot'[t]) /\ Wired(slot'[t])
  BY <1>0, <1>1, <1>2, <1>3, SlotSet
<1>5. /\ Linked' /\ c \in Clients \cup {None}
      /\ DOMAIN client' = Clients /\ \A d \in Clients : ClientShape(client'[d])
      /\ \A d \in Clients :
            /\ client'[d].gen = client[d].gen /\ client'[d].live = client[d].live
            /\ client'[d].co = client[d].co /\ client'[d].async = client[d].async
            /\ client'[d].pin = client[d].pin
            /\ client'[d].ep = IF d = c THEN None ELSE client[d].ep
  <2>1. /\ c = slot[s].client /\ s \in Slots /\ DOMAIN slot' = Slots /\ slot'[s].client = None
        /\ \A t \in Slots \ {s} : slot'[t] = slot[t]
        /\ client' = IF c = None THEN client ELSE [client EXCEPT ![c].ep = None]
    BY <1>h, <1>1, <1>2, <1>3, <1>4, Zenon
  <2> QED BY <2>1, Unlinked
<1>6. /\ f \in FrameType /\ f.op = "resume" /\ f.on = c /\ f.arg = None
      /\ g \in FrameType /\ g.op = "close" /\ g.on = s
  BY <1>q, <1>h, <1>1, <1>5, FrameTypes DEF Frame, SlotOps
<1>7. /\ KeepsBelow(b) /\ stack' \in Seq(FrameType) /\ Fresh(b) = {1, 2} /\ Height' = 2
      /\ Down'[1] = g /\ Down'[2] = f
  <2>1. /\ KeepsBelow(Height - 1) /\ stack' \in Seq(FrameType)
        /\ Fresh(Height - 1) = {Height, Height + 1} /\ Height' = Height + 1
        /\ Down'[Height] = g /\ Down'[Height + 1] = f
    BY <1>0, <1>2, <1>6, Pushes2
  <2>2. Height = 1 /\ Height - 1 = 0 /\ Height + 1 = 2
    BY <1>h, <1>1
  <2> QED BY <2>1, <2>2
<1>8. Typed'
  BY <1>0, <1>2, <1>4, <1>5, <1>7, TypedStep DEF Typed
<1>9. \A k : Erasing(k)' <=> Erasing(k)
  BY <1>h, <1>1, <1>6, <1>7, ErasingSame
<1>10. TokensKept(b)
  <2>1. ASSUME c \in Clients
        PROVE  Loose(b, c) /\ client[c].live /\ client[c].co = "waits"
    <3>1. /\ client[c].live /\ client[c].co = "waits"
          /\ \A k \in Coalesced : ~Erasing(k) => ~Parked(k, c)
      BY <1>h, <1>1, <2>1, LinkedLoose
    <3>2. \A k \in Coalesced : Parked(k, c)' <=> Parked(k, c)
      BY <1>2, <1>5, <2>1 DEF Parked
    <3> QED BY <1>9, <3>1, <3>2 DEF Loose
  <2>2. \A d \in Clients : ~Woken(1, d)' /\ (Woken(2, d)' => d = c)
    BY <1>6, <1>7 DEF Woken, Owes
  <2> QED BY <1>5, <1>6, <1>7, <2>1, <2>2 DEF TokensKept
<1>11. EntriesKept
  BY <1>2, <1>9 DEF EntriesKept, SInv, ParkedOnce
<1>12. ClosingKept(b) /\ PlacedFresh(b) /\ SlotsKept(b) /\ DumbFresh(b) /\ ExpectedFresh(b)
  <2>1. ClosingKept(b)
    BY <1>h, <1>1, <1>5, <1>6, <1>7 DEF ClosingKept
  <2>2. PlacedFresh(b) /\ SlotsKept(b) /\ ExpectedFresh(b)
    BY <1>h, <1>1, <1>6, <1>7 DEF PlacedFresh, SlotsKept, ExpectedFresh
  <2>3. DumbFresh(b)
    BY <1>h, <1>1, <1>6, <1>7 DEF DumbFresh, Dumb, Mute
  <2> QED BY <2>1, <2>2, <2>3
<1>13. TakenFresh(b)
  <2>1. slot'[s].leased \/ c = None
    BY <1>h, <1>1, <1>3, <1>4 DEF SInv, Carried, SlotFields
  <2>2. c = None => Dumb(Down[2])'
    BY <1>6, <1>7 DEF Dumb, Mute
  <2>3. Down'[2].op \notin SlotOps
    BY <1>6, <1>7 DEF SlotOps
  <2>4. \A p \in Fresh(b) : Down'[p].op \in SlotOps => p = 1 /\ Down'[p].on = s
    BY <1>6, <1>7, <2>3
  <2>5. \A p \in Fresh(b) : p > 1 => p = 2
    BY <1>7
  <2>6. 1 .. b = {} /\ Height' = 2 /\ Down'[2].op = "resume" /\ Down'[2].arg = None
    BY <1>6, <1>7
  <2> HIDE DEF b
  <2> QED BY <2>1, <2>2, <2>3, <2>4, <2>5, <2>6 DEF TakenFresh
<1>14. PinsKept(b)
  <2>1. \A t \in Slots : /\ slot[t].gen \in Nat /\ slot'[t].gen = slot[t].gen
                         /\ slot'[t].reserved = slot[t].reserved
                         /\ slot'[t].client \in {slot[t].client, None}
    BY <1>0, <1>1, <1>3, <1>4 DEF Typed, SlotShape, SlotFields
  <2>2. \A d \in Clients : client'[d].pin = client[d].pin
    BY <1>5
  <2> QED BY <1>h, <1>1, <1>6, <1>7, <2>1, <2>2, SetsAssumption DEF PinsKept
<1>15. CarriedAt(s)'
  <2>1. Ending(s)'
    BY <1>6, <1>7 DEF Ending, Depth
  <2>2. /\ q.client = None /\ q.leased = slot[s].leased /\ q.key = slot[s].key
        /\ q.reserved = slot[s].reserved
    BY <1>3 DEF SlotFields
  <2>3. /\ ~slot[s].leased => slot[s].key = None /\ ~slot[s].reserved
        /\ slot[s].key # None => ~slot[s].reserved
    BY <1>1 DEF SInv, Carried
  <2> QED BY <1>4, <2>1, <2>2, <2>3 DEF CarriedAt
<1> HIDE DEF b
<1> QED BY <1>h, <1>1, <1>4, <1>5, <1>7, <1>8, <1>10, <1>11, <1>12, <1>13, <1>14, <1>15, SlotStepInv

\* ReleaseEndpoint calls out to the waiters, the client and the pool, in this order.
LEMMA ReleaseEndpointStep ==
  ASSUME SInv, Tame, setup' = setup, ReleaseEndpoint
  PROVE  SInv'
<1>h. PICK h, s, k : h = Height /\ s = Down[h].on /\ k = slot[s].key
  OBVIOUS
<1>q. PICK w, q : /\ w = pending[k].waiters
                /\ q = [slot[s] EXCEPT !.inUse = @ - (IF slot[s].pooledIdle THEN 0 ELSE 1),
                                       !.pooledIdle = FALSE, !.marked = FALSE,
                                       !.timer = "none"]
  OBVIOUS
<1>f. PICK ff, fn, fe, fw : /\ ff = Frame("free", s, None) /\ fn = Frame("notify", s, None)
                          /\ fe = Frame("erase", k, None) /\ fw = Frame("waiters", w, None)
  OBVIOUS
<1> DEFINE b == h - 1
<1>0. Typed /\ stack # <<>>
  BY DEF SInv, ReleaseEndpoint, Running
<1>1. /\ h \in Nat \ {0} /\ h \in Depth /\ Top = Down[h] /\ Down[h] \in FrameType
      /\ Down[h].op = "release" /\ s \in Slots
  <2>1. h \in Nat \ {0} /\ h \in Depth /\ Top = Down[h] /\ Down[h] \in FrameType
    BY <1>h, <1>0, TopFacts
  <2>2. Down[h].op = "release"
    BY <2>1, Zenon DEF ReleaseEndpoint, Running
  <2> QED BY <1>h, <2>1, <2>2, FrameFacts DEF SlotOps
<1>2. /\ slot' = [slot EXCEPT ![s] = q] /\ pending' = pending /\ reconnects' = reconnects
      /\ client' = client
      /\ stack' = (IF k = None THEN <<>> ELSE <<fw, fe>>) \o <<fn, ff>> \o Tail(stack)
  <2>1. /\ pending' = pending /\ reconnects' = reconnects /\ client' = client
        /\ stack' = (IF k = None THEN <<>> ELSE <<fw, fe>>) \o <<fn, ff>> \o Tail(stack)
    BY <1>f, <1>q, <1>h, <1>1, Zenon DEF ReleaseEndpoint
  <2>2. slot' = [slot EXCEPT ![s] = q]
    BY <1>q, <1>h, <1>1, Zenon DEF ReleaseEndpoint
  <2> QED BY <2>1, <2>2
<1>3. /\ SlotShape(q) /\ Wired(q) /\ Dialling(q) = Dialling(slot[s])
      /\ q.client = slot[s].client /\ q.leased = slot[s].leased /\ q.key = k
      /\ q.reserved = slot[s].reserved /\ q.gen = slot[s].gen /\ q.awaiting = slot[s].awaiting
  BY <1>q, <1>h, <1>0, <1>1 DEF Typed, SlotShape, SlotFields, Wired, Dialling, IsConnecting
<1>4. /\ DOMAIN slot' = Slots /\ slot'[s] = q
      /\ \A t \in Slots \ {s} : slot'[t] = slot[t]
      /\ \A t \in Slots : SlotShape(slot'[t]) /\ Wired(slot'[t])
  BY <1>0, <1>1, <1>2, <1>3, SlotSet
<1>5. k \in Coalesced \cup {None} /\ (k # None => w \in Seq(Tokens))
  BY <1>q, <1>h, <1>0, <1>1 DEF Typed, SlotShape
<1>6. /\ ff \in FrameType /\ ff.op = "free" /\ ff.on = s
      /\ fn \in FrameType /\ fn.op = "notify" /\ fn.on = s
      /\ k # None => /\ fe \in FrameType /\ fe.op = "erase" /\ fe.on = k
                     /\ fw \in FrameType /\ fw.op = "waiters" /\ fw.on = w
  BY <1>f, <1>q, <1>h, <1>1, <1>5, FrameTypes DEF Frame, SlotOps
<1>7. /\ KeepsBelow(b) /\ stack' \in Seq(FrameType) /\ h + 1 <= Height'
      /\ Down'[h] = ff /\ Down'[h + 1] = fn
      /\ k = None => Fresh(b) = {h, h + 1} /\ Height' = h + 1
      /\ k # None => /\ Fresh(b) = {h, h + 1, h + 2, h + 3} /\ Height' = h + 3
                     /\ Down'[h + 2] = fe /\ Down'[h + 3] = fw
  <2>1. CASE k = None
    <3>1. stack' = <<fn, ff>> \o Tail(stack)
      <4>1. <<fn, ff>> \in Seq(FrameType)
        BY <1>6
      <4>2. stack' = (<<>> \o <<fn, ff>>) \o Tail(stack)
        BY <1>2, <2>1
      <4>3. <<>> \o <<fn, ff>> = <<fn, ff>>
        BY <4>1, ConcatEmptySeq
      <4> QED BY <4>2, <4>3
    <3> QED BY SMTT(40), <1>h, <1>0, <1>1, <1>6, <2>1, <3>1, Pushes2
  <2>2. CASE k # None
    <3>1. stack' = <<fw, fe, fn, ff>> \o Tail(stack)
      <4>2. <<fw, fe>> \in Seq(FrameType) /\ <<fn, ff>> \in Seq(FrameType)
        <5>1. fw \in FrameType /\ fe \in FrameType /\ fn \in FrameType /\ ff \in FrameType
          BY <1>6, <2>2
        <5> QED BY <5>1
      <4>3. stack' = (<<fw, fe>> \o <<fn, ff>>) \o Tail(stack)
        BY <1>2, <2>2
      <4>4. <<fw, fe>> \o <<fn, ff>> = <<fw, fe, fn, ff>>
        <5> DEFINE u == <<fw, fe>> \o <<fn, ff>>
                   v == <<fw, fe, fn, ff>>
        <5>1. u \in Seq(FrameType) /\ Len(u) = 4 /\ u[1] = fw /\ u[2] = fe /\ u[3] = fn /\ u[4] = ff
          BY <4>2
        <5>2. v \in Seq(FrameType) /\ Len(v) = 4 /\ v[1] = fw /\ v[2] = fe /\ v[3] = fn /\ v[4] = ff
          BY <1>6, <2>2
        <5> HIDE DEF u, v
        <5>3. u = v
          BY <5>1, <5>2, SeqEqual
        <5> QED BY <5>3 DEF u, v
      <4> QED BY <4>3, <4>4
    <3>2. fw \in FrameType /\ fe \in FrameType /\ fn \in FrameType /\ ff \in FrameType
      BY <1>6, <2>2
    <3>3. /\ KeepsBelow(Height - 1) /\ stack' \in Seq(FrameType)
          /\ Fresh(Height - 1) = {Height, Height + 1, Height + 2, Height + 3}
          /\ Height' = Height + 3
          /\ Down'[Height] = ff /\ Down'[Height + 1] = fn
          /\ Down'[Height + 2] = fe /\ Down'[Height + 3] = fw
      BY <1>0, <3>1, <3>2, Pushes4
    <3>4. h + 1 <= Height'
      BY <1>h, <1>1, <3>3
    <3> QED BY <1>h, <2>2, <3>3, <3>4
  <2> QED BY <2>1, <2>2
<1>8. Typed'
  BY <1>0, <1>2, <1>4, <1>7, TypedStep DEF Typed
<1>9. \A t \in Slots :
         /\ slot'[t].client = slot[t].client /\ slot'[t].gen = slot[t].gen
         /\ slot'[t].reserved = slot[t].reserved /\ slot'[t].leased = slot[t].leased
         /\ slot'[t].key = slot[t].key /\ Dialling(slot'[t]) = Dialling(slot[t])
         /\ slot[t].gen \in Nat
  BY <1>h, <1>0, <1>3, <1>4 DEF Typed, SlotShape
<1>10. Linked'
  <2>1. \A t \in Slots : slot'[t].client = slot[t].client
    BY <1>9
  <2>2. client' = client
    BY <1>2
  <2> QED BY <2>1, <2>2 DEF SInv, Linked
<1>11. \A l \in Coalesced : /\ Erasing(l) => Erasing(l)'
                            /\ Erasing(l)' => Erasing(l) \/ (k # None /\ l = k)
                            /\ k # None /\ l = k => Erasing(l)'
  <2>1. \A l : Erasing(l) => Erasing(l)'
    BY <1>1, <1>7 DEF Erasing, KeepsBelow, Depth
  <2>2. k # None => h + 2 \in Depth' /\ Erasing(k)'
    <3> SUFFICES ASSUME k # None PROVE h + 2 \in Depth' /\ Erasing(k)'
      OBVIOUS
    <3>1. Depth' = 1 .. h + 3
      BY <1>7 DEF Depth
    <3>2. h + 2 \in 1 .. h + 3
      BY <1>1
    <3> QED BY <1>6, <1>7, <3>1, <3>2 DEF Erasing
  <2>3. ASSUME NEW l \in Coalesced, Erasing(l)' PROVE Erasing(l) \/ (k # None /\ l = k)
    <3>1. PICK p \in Depth' : Down'[p].op = "erase" /\ Down'[p].on = l
      BY <2>3 DEF Erasing
    <3>2. CASE p \in 1 .. b
      BY <1>1, <1>7, <3>1, <3>2 DEF Erasing, KeepsBelow, Depth
    <3>3. CASE p \in Fresh(b)
      BY <1>1, <1>6, <1>7, <3>1, <3>3
    <3> QED BY <1>7, <3>1, <3>2, <3>3 DEF KeepsBelow, Fresh, Depth
  <2> QED BY <2>1, <2>2, <2>3
    \* The waiters under the key of the slot, unless there are none.
<1>12. \/ Mute(Down[h]) /\ (k # None => w = <<>>) /\ slot[s].client = None
       \/ h <= 2 /\ \A l \in Coalesced : ~Erasing(l)
  <2>1. CASE Mute(Down[h])
    BY <1>q, <1>h, <1>1, <2>1 DEF Mute
  <2>2. CASE h <= 2
    <3>1. \A p \in Depth : p <= 2
      BY <1>h, <1>1, <2>2 DEF Depth
    <3>2. \A p \in Depth : ~(p > 2)
      <4>1. \A p \in Depth : p \in Int
        BY DEF Depth
      <4> QED BY <3>1, <4>1
    <3> QED BY <2>2, <3>2 DEF SInv, Placed, Erasing
  <2> QED BY <1>1, <2>1, <2>2 DEF SInv, NoNesting
<1>13. \A l \in Coalesced, d \in Clients : Parked(l, d)' <=> Parked(l, d)
  BY <1>2 DEF Parked
<1>14. ASSUME k # None, NEW d \in Clients
       PROVE  /\ Old(w, d, client[d].gen) /\ Once(w, d, client[d].gen)
              /\ Waits(w, d, client[d].gen) =>
                    /\ Loose(b, d) /\ client[d].live /\ client[d].ep = None
                    /\ client[d].co = "waits"
  <2>1. CASE w = <<>>
    BY <2>1, WaitsEmpty
  <2>2. CASE \A l \in Coalesced : ~Erasing(l)
    <3>1. k \in Coalesced
      BY <1>5, <1>14
    <3>2. Old(w, d, client[d].gen) /\ Once(w, d, client[d].gen)
      BY <1>q, <1>h, <2>2, <3>1 DEF SInv, ParkedOnce
    <3>3. ASSUME Waits(w, d, client[d].gen)
          PROVE  /\ Loose(b, d) /\ client[d].live /\ client[d].ep = None
                 /\ client[d].co = "waits"
      <4>1. Parked(k, d)
        BY <1>q, <1>h, <3>3 DEF Parked
      <4>2. /\ client[d].live /\ client[d].ep = None /\ client[d].co = "waits"
            /\ \A p \in Depth : ~Woken(p, d)
            /\ \A l \in Coalesced : Parked(l, d) => l = k
        BY <2>2, <3>1, <4>1 DEF SInv, ParkedOnce
      <4>3. \A p \in 1 .. b : p \in Depth
        BY <1>h, <1>1 DEF Depth
      <4> QED BY <1>11, <1>13, <1>14, <4>2, <4>3 DEF Loose
    <3> QED BY <3>2, <3>3
  <2> QED BY <1>12, <1>14, <2>1, <2>2
<1>15. TokensKept(b)
  <2>1. ASSUME NEW p \in Fresh(b), Down'[p].op = "waiters" \/ \E d \in Clients : Woken(p, d)'
        PROVE  k # None /\ p = h + 3
    BY <1>6, <1>7, <2>1 DEF Woken, Owes
  <2>2. k # None => /\ Down'[h + 3].op = "waiters" /\ Down'[h + 3].on = w
                    /\ \A d \in Clients : Woken(h + 3, d)' <=> Waits(w, d, client[d].gen)
    BY <1>2, <1>6, <1>7 DEF Woken, Owes
  <2>3. client' = client
    BY <1>2
  <2> HIDE DEF b
  <2> QED BY <1>14, <2>1, <2>2, <2>3 DEF TokensKept
<1>16. EntriesKept
  <2>1. pending' = pending
    BY <1>2
  <2> QED BY <1>11, <2>1 DEF EntriesKept, SInv, ParkedOnce
<1>17. \A p \in Fresh(b) :
          \/ p = h /\ Down'[p] = ff
          \/ p = h + 1 /\ Down'[p] = fn
          \/ p = h + 2 /\ Down'[p] = fe /\ k # None
          \/ p = h + 3 /\ Down'[p] = fw /\ k # None
  BY <1>7
<1>18. ClosingKept(b) /\ PlacedFresh(b) /\ SlotsKept(b)
  <2>1. ClosingKept(b)
    <3>1. client' = client
      BY <1>2
    <3>2. \A p \in Fresh(b) : Down'[p].op \notin {"run", "freeClient"}
      BY <1>6, <1>17
    <3> QED BY <1>h, <1>1, <3>1, <3>2 DEF ClosingKept
  <2>2. PlacedFresh(b)
    <3>1. \A p \in Fresh(b) : /\ Down'[p].op \in {"free", "notify", "erase", "waiters"}
                              /\ Down'[p].op = "notify" => p = h + 1 /\ Down'[p].on = s
                              /\ Down'[p].op = "erase" => p = h + 2
      BY <1>6, <1>17
    <3>2. h + 1 - 1 = h /\ h + 1 > 1 /\ h + 2 > 2
      BY <1>1
    <3>3. \A p \in Fresh(b) : Down'[p].op = "notify" =>
             p > 1 /\ Down'[p - 1].op = "free" /\ Down'[p - 1].on = Down'[p].on
      <4> SUFFICES ASSUME NEW p \in Fresh(b), Down'[p].op = "notify"
                   PROVE  p > 1 /\ Down'[p - 1].op = "free" /\ Down'[p - 1].on = Down'[p].on
        OBVIOUS
      <4>1. p = h + 1 /\ p - 1 = h /\ p > 1 /\ Down'[p].on = s
        BY <1>1, <3>1, <3>2
      <4>2. Down'[p - 1] = ff
        BY <1>7, <4>1
      <4> QED BY <1>6, <4>1, <4>2
    <3>4. \A p \in Fresh(b) : Down'[p].op = "erase" => p > 2
      BY <3>1, <3>2
    <3> HIDE DEF b
    <3> QED BY <3>1, <3>3, <3>4 DEF PlacedFresh
  <2>3. SlotsKept(b)
    <3>1. \A p \in 1 .. b : Down[p].op \in SlotOps => Down[p].on \in Slots
      BY <1>0, <1>1, FramesTyped, FrameFacts DEF Depth
    <3> QED BY <1>9, <3>1 DEF SlotsKept
  <2> QED BY <2>1, <2>2, <2>3
<1>19. /\ Mute(ff)' /\ (k # None => Mute(fe)')
       /\ slot[s].client = None => Mute(fn)'
       /\ k # None /\ w = <<>> => Mute(fw)'
  <2>1. Mute(ff)'
    BY <1>6 DEF Mute
  <2>2. ASSUME slot[s].client = None PROVE Mute(fn)'
    <3>1. slot'[fn.on].client = None
      <4>1. fn.on = s
        BY <1>6
      <4>2. slot'[s].client = None
        BY <1>3, <1>4, <2>2
      <4> QED BY <4>1, <4>2
    <3> QED BY <1>6, <3>1 DEF Mute
  <2>3. ASSUME k # None PROVE Mute(fe)' /\ (w = <<>> => Mute(fw)')
    BY <1>6, <2>3 DEF Mute
  <2> QED BY <2>1, <2>2, <2>3
<1>20. DumbFresh(b)
  <2>1. Dumb(Down[h]) => Mute(Down[h])
    BY <1>1 DEF Dumb
  <2>2. Mute(Down[h]) => (k # None => w = <<>>) /\ slot[s].client = None
    BY <1>q, <1>h, <1>1 DEF Mute
  <2>3. Mute(Down[h]) => \A p \in Fresh(b) : Mute(Down[p])'
    BY <1>17, <1>19, <2>2
  <2>4. \A p \in Fresh(b) : Down'[p].op \notin {"run", "release"}
    BY <1>6, <1>17
  <2>5. \A p \in Fresh(b) : Mute(Down[p])' => Dumb(Down[p])'
    BY DEF Dumb
  <2> QED BY <1>h, <2>1, <2>3, <2>4, <2>5 DEF DumbFresh
<1>21. TakenFresh(b)
  <2>1. ~slot[s].leased => k = None /\ slot[s].client = None
    BY <1>h, <1>1 DEF SInv, Carried
  <2>2. slot[s].reserved => k = None
    BY <1>h, <1>1 DEF SInv, Carried
  <2>3. \A p \in Fresh(b) : Down'[p].op \in SlotOps =>
           /\ Down'[p].on = s
           /\ (p = h /\ Down'[p].op = "free") \/ (p = h + 1 /\ Down'[p].op = "notify")
    <3>1. k # None => fe.op \notin SlotOps /\ fw.op \notin SlotOps
      BY <1>6 DEF SlotOps
    <3>2. \A p \in Fresh(b) : Down'[p].op \in SlotOps =>
             (p = h /\ Down'[p] = ff) \/ (p = h + 1 /\ Down'[p] = fn)
      <4> SUFFICES ASSUME NEW p \in Fresh(b), Down'[p].op \in SlotOps
                   PROVE  (p = h /\ Down'[p] = ff) \/ (p = h + 1 /\ Down'[p] = fn)
        OBVIOUS
      <4>1. ~(k # None /\ Down'[p] = fe) /\ ~(k # None /\ Down'[p] = fw)
        BY <3>1
      <4> QED BY <1>17, <4>1
    <3> QED BY <1>6, <3>2
  <2>4. \A p \in Fresh(b) : Mute(Down[p])' => Dumb(Down[p])'
    BY DEF Dumb
  <2>5. ASSUME NEW p \in Fresh(b), Down'[p].op \in SlotOps
        PROVE  slot'[Down'[p].on].leased \/ \A q1 \in Fresh(b) : q1 > p => Dumb(Down[q1])'
    <3>1. CASE slot[s].leased
      BY <1>1, <1>9, <2>3, <2>5, <3>1
    <3>2. CASE ~slot[s].leased
      BY <1>17, <1>19, <2>1, <2>4, <3>2
    <3> QED BY <3>1, <3>2
  <2>6. ASSUME NEW p \in 1 .. b, NEW q1 \in Fresh(b), Down[p].op \in SlotOps,
               Down'[q1].op \in SlotOps, Down[p].on = Down'[q1].on
        PROVE  Pinning /\ DumbAbove(p)
    <3>1. Down[p].on = s
      BY <2>3, <2>6
    <3>2. p \in Depth /\ p < h /\ Down[h].op \in SlotOps
      BY <1>h, <1>1 DEF Depth, SlotOps
    <3> QED BY <1>h, <1>1, <2>6, <3>1, <3>2 DEF SInv, NotTaken
  <2>7. ASSUME NEW p \in Fresh(b), NEW q1 \in Fresh(b), p < q1, Down'[p].op \in SlotOps,
               Down'[q1].op \in SlotOps
        PROVE  q1 = p + 1 /\ Down'[p].op = "free" /\ Down'[q1].op = "notify"
    BY <1>1, <2>3, <2>7
  <2>8. ASSUME NEW p \in Fresh(b), NEW q1 \in Fresh(b), Down'[p].op \in SlotOps,
               slot'[Down'[p].on].reserved, q1 > p
        PROVE  q1 = Height' /\ Down'[q1].op = "notify" /\ Down'[q1].on = Down'[p].on
    <3>1. k = None
      BY <1>1, <1>9, <2>2, <2>3, <2>8
    <3> QED BY <1>1, <1>6, <1>7, <1>17, <2>3, <2>8, <3>1
  <2>9. Down[Height].op \notin {"notify", "resume"}
    BY <1>h, <1>1
  <2> HIDE DEF b
  <2> QED BY <2>5, <2>6, <2>7, <2>8, <2>9 DEF TakenFresh
<1>22. ExpectedFresh(b)
  <2>1. \A p \in Fresh(b) : /\ Down'[p].op \notin {"finish", "complete"}
                            /\ Down'[p].op = "free" => p = h
    BY <1>6, <1>17
  <2>2. h < Height' /\ Down'[h + 1].op = "notify" /\ Down'[h + 1].on = Down'[h].on
    <3>1. h < Height'
      BY <1>1, <1>7 DEF KeepsBelow
    <3> QED BY <1>6, <1>7, <3>1
  <2>3. Down[Height].op # "notify"
    BY <1>h, <1>1
  <2> HIDE DEF b
  <2> QED BY <2>1, <2>2, <2>3 DEF ExpectedFresh
<1>23. PinsKept(b)
  <2>1. \A p \in Fresh(b) : Down'[p].op # "unpin"
    BY <1>6, <1>17
  <2>2. client' = client
    BY <1>2
  <2> QED BY <1>h, <1>1, <1>9, <2>1, <2>2 DEF PinsKept
<1>24. CarriedAt(s)'
  <2>1. h \in Depth' /\ Down'[h].op = "free" /\ Down'[h].on = s
    <3>1. h < Height'
      BY <1>1, <1>7 DEF KeepsBelow
    <3>2. h \in Depth'
      BY <1>1, <1>7, <3>1 DEF KeepsBelow, Depth
    <3> QED BY <1>6, <1>7, <3>2
  <2>2. Ending(s)'
    BY <2>1 DEF Ending
  <2> QED BY <1>h, <1>1, <1>3, <1>4, <2>2 DEF SInv, Carried, CarriedAt
<1>25. /\ \A t \in Slots \ {s} : slot'[t] = slot[t]
       /\ Height > 0 /\ Down[Height].op \in {"release", "notify", "free", "close"}
             => Down[Height].on = s
       /\ KeepsBelow(b)
  BY <1>h, <1>1, <1>4, <1>7
<1> HIDE DEF b
<1> QED BY <1>8, <1>10, <1>15, <1>16, <1>18, <1>20, <1>21, <1>22, <1>23, <1>24, <1>25,
           SlotStepInv

\* CompleteSingleSlotRequest takes the key out and serves the waiters first.
LEMMA CompleteStep ==
  ASSUME SInv, Tame, setup' = setup, Complete
  PROVE  SInv'
<1>h. PICK h, s, c, k, o, a : /\ h = Height /\ s = Down[h].on /\ c = slot[s].client
                            /\ k = slot[s].key /\ o = slot[s].owes /\ a = Down[h].arg
  OBVIOUS
<1>q. PICK w, q : /\ w = IF k = None THEN <<>> ELSE pending[k].waiters
                /\ q = [slot[s] EXCEPT !.client = None, !.key = None]
  OBVIOUS
<1>f. PICK fr, ff, fw : /\ fr = Frame("resume", c, o) /\ ff = Frame("finish", s, a)
                      /\ fw = Frame("waiters", w, o)
  OBVIOUS
<1> DEFINE b == 0
<1>0. Typed /\ stack # <<>>
  BY DEF SInv, Complete, Running
<1>1. /\ h = 1 /\ h \in Depth /\ Top = Down[h] /\ Down[h] \in FrameType
      /\ Down[h].op = "complete" /\ s \in Slots
      /\ a \in {None, "refused", "KEEP_ALIVE", "CLOSE"}
  <2>1. h \in Nat \ {0} /\ h \in Depth /\ Top = Down[h] /\ Down[h] \in FrameType
    BY <1>h, <1>0, TopFacts
  <2>2. Down[h].op = "complete"
    BY <2>1 DEF Complete, Running
  <2>3. h = 1
    BY <1>h, <2>1, <2>2 DEF SInv, Placed
  <2> QED BY <1>h, <2>1, <2>2, <2>3, FrameFacts DEF SlotOps
<1>2. /\ slot' = [slot EXCEPT ![s] = q] /\ reconnects' = reconnects
      /\ pending' = IF k = None THEN pending ELSE [pending EXCEPT ![k] = NoEntry]
      /\ client' = IF c = None THEN client ELSE [client EXCEPT ![c].ep = None]
      /\ stack' = <<fw, ff, fr>> \o Tail(stack)
  <2>1. slot' = [slot EXCEPT ![s].client = None, ![s].key = None]
    BY <1>h, <1>1 DEF Complete
  <2>2. slot' = [slot EXCEPT ![s] = q]
    BY <1>q, <1>h, <1>0, <1>1, <2>1 DEF Typed
  <2> QED BY <1>f, <1>q, <1>h, <1>1, <2>2, Zenon DEF Complete
<1>3. /\ SlotShape(q) /\ Wired(q) /\ q.client = None /\ q.key = None
      /\ Dialling(q) = Dialling(slot[s]) /\ ~Dialling(q)
      /\ q.leased = slot[s].leased /\ q.reserved = slot[s].reserved /\ q.gen = slot[s].gen
  <2>1. /\ SlotShape(q) /\ Wired(q) /\ q.client = None /\ q.key = None
        /\ Dialling(q) = Dialling(slot[s])
        /\ q.leased = slot[s].leased /\ q.reserved = slot[s].reserved /\ q.gen = slot[s].gen
    BY <1>q, <1>h, <1>0, <1>1 DEF Typed, SlotShape, SlotFields, Wired, Dialling, IsConnecting
  <2>2. ~Dialling(slot[s])
    BY <1>h, <1>1 DEF SInv, Expected
  <2> QED BY <2>1, <2>2
<1>4. /\ DOMAIN slot' = Slots /\ slot'[s] = q
      /\ \A t \in Slots \ {s} : slot'[t] = slot[t]
      /\ \A t \in Slots : SlotShape(slot'[t]) /\ Wired(slot'[t])
  BY <1>0, <1>1, <1>2, <1>3, SlotSet
<1>5. /\ Linked' /\ c \in Clients \cup {None}
      /\ DOMAIN client' = Clients /\ \A d \in Clients : ClientShape(client'[d])
      /\ \A d \in Clients :
            /\ client'[d].gen = client[d].gen /\ client'[d].live = client[d].live
            /\ client'[d].co = client[d].co /\ client'[d].async = client[d].async
            /\ client'[d].pin = client[d].pin
            /\ client'[d].ep = IF d = c THEN None ELSE client[d].ep
  <2>1. /\ c = slot[s].client /\ s \in Slots /\ DOMAIN slot' = Slots /\ slot'[s].client = None
        /\ \A t \in Slots \ {s} : slot'[t] = slot[t]
        /\ client' = IF c = None THEN client ELSE [client EXCEPT ![c].ep = None]
    BY <1>h, <1>1, <1>2, <1>3, <1>4, Zenon
  <2> QED BY <2>1, Unlinked
<1>6. k \in Coalesced \cup {None} /\ o \in Reqs \cup {None} /\ w \in Seq(Tokens)
  <2>1. k \in Coalesced \cup {None} /\ o \in Reqs \cup {None}
    BY <1>h, <1>0, <1>1 DEF Typed, SlotShape
  <2>2. k \in Coalesced => pending[k].waiters \in Seq(Tokens)
    BY <1>0 DEF Typed
  <2> QED BY <1>q, <1>h, <2>1, <2>2
<1>7. /\ fr \in FrameType /\ fr.op = "resume" /\ fr.on = c
      /\ ff \in FrameType /\ ff.op = "finish" /\ ff.on = s
      /\ fw \in FrameType /\ fw.op = "waiters" /\ fw.on = w
  BY <1>f, <1>q, <1>h, <1>1, <1>5, <1>6, FrameTypes DEF Frame, SlotOps
<1>8. /\ KeepsBelow(b) /\ stack' \in Seq(FrameType) /\ Fresh(b) = {1, 2, 3} /\ Height' = 3
      /\ Down'[1] = fr /\ Down'[2] = ff /\ Down'[3] = fw
  <2>1. /\ KeepsBelow(Height - 1) /\ stack' \in Seq(FrameType)
        /\ Fresh(Height - 1) = {Height, Height + 1, Height + 2} /\ Height' = Height + 2
        /\ Down'[Height] = fr /\ Down'[Height + 1] = ff /\ Down'[Height + 2] = fw
    <3>1. fw \in FrameType /\ ff \in FrameType /\ fr \in FrameType
      BY <1>7
    <3>2. stack' = <<fw, ff, fr>> \o Tail(stack)
      BY <1>2
    <3> QED BY <1>0, <3>1, <3>2, Pushes3
  <2>2. Height = 1 /\ Height - 1 = 0 /\ Height + 1 = 2 /\ Height + 2 = 3
    BY <1>h, <1>1
  <2> QED BY <2>1, <2>2
<1>8a. \A p \in Fresh(b) :
          \/ p = 1 /\ Down'[p].op = "resume" /\ Down'[p].on = c
          \/ p = 2 /\ Down'[p].op = "finish" /\ Down'[p].on = s
          \/ p = 3 /\ Down'[p].op = "waiters" /\ Down'[p].on = w
  BY <1>7, <1>8
<1>8b. /\ Height' = 3 /\ 1 .. b = {} /\ Down'[1].op = "resume"
       /\ Height = 1 /\ Down[Height].op = "complete"
  <2>1. 1 .. b = {}
    OBVIOUS
  <2>2. Height' = 3 /\ Down'[1].op = "resume" /\ Height = 1 /\ Down[Height].op = "complete"
    BY <1>h, <1>1, <1>7, <1>8
  <2> QED BY <2>1, <2>2
<1>9. /\ pending' \in [Coalesced -> [by : Slots \cup {None}, waiters : Seq(Tokens)]]
      /\ \A l \in Coalesced :
            pending'[l] = IF k # None /\ l = k THEN NoEntry ELSE pending[l]
  <2>1. NoEntry \in [by : Slots \cup {None}, waiters : Seq(Tokens)]
    <3>1. <<>> \in Seq(Tokens)
      OBVIOUS
    <3> QED BY <3>1 DEF NoEntry
  <2> QED BY <1>0, <1>2, <1>6, <2>1 DEF Typed
<1>10. Typed'
  BY <1>0, <1>2, <1>4, <1>5, <1>8, <1>9, TypedStep DEF Typed
<1>11. (\A l : Erasing(l)' <=> Erasing(l)) /\ \A l \in Coalesced : ~Erasing(l)
  <2>1. \A l : Erasing(l)' <=> Erasing(l)
    BY <1>h, <1>1, <1>7, <1>8, ErasingSame
  <2>2. \A l \in Coalesced : ~Erasing(l)
    BY <1>1 DEF SInv, Placed, Erasing, Depth
  <2> QED BY <2>1, <2>2
<1>12. \A l \in Coalesced, d \in Clients : Parked(l, d)' => Parked(l, d) /\ ~(k # None /\ l = k)
  <2>1. \A d \in Clients : client'[d].gen = client[d].gen
    BY <1>5
  <2>2. NoEntry.waiters = <<>>
    BY DEF NoEntry
  <2> QED BY <1>9, <2>1, <2>2, WaitsEmpty DEF Parked
<1>13. ASSUME c \in Clients
       PROVE  Loose(b, c) /\ client[c].live /\ client[c].co = "waits" /\ client[c].ep # None
  <2>1. /\ client[c].live /\ client[c].co = "waits" /\ client[c].ep = s
        /\ \A l \in Coalesced : ~Erasing(l) => ~Parked(l, c)
    BY <1>h, <1>1, <1>13, LinkedLoose
  <2> QED BY <1>1, <1>8b, <1>11, <1>12, <1>13, <2>1, SetsAssumption DEF Loose
<1>14. ASSUME NEW d \in Clients
       PROVE  /\ Old(w, d, client[d].gen) /\ Once(w, d, client[d].gen)
              /\ Waits(w, d, client[d].gen) =>
                    /\ Loose(b, d) /\ client[d].live /\ client[d].ep = None
                    /\ client[d].co = "waits"
  <2>1. CASE k = None
    BY <1>q, <1>h, <2>1, WaitsEmpty
  <2>2. CASE k # None
    <3>1. w = pending[k].waiters /\ k \in Coalesced
      BY <1>q, <1>h, <1>6, <2>2
    <3>2. Old(w, d, client[d].gen) /\ Once(w, d, client[d].gen)
      BY <1>11, <3>1 DEF SInv, ParkedOnce
    <3>3. ASSUME Waits(w, d, client[d].gen)
          PROVE  /\ Loose(b, d) /\ client[d].live /\ client[d].ep = None
                 /\ client[d].co = "waits"
      <4>1. Parked(k, d)
        BY <3>1, <3>3 DEF Parked
      <4>2. /\ client[d].live /\ client[d].ep = None /\ client[d].co = "waits"
            /\ \A l \in Coalesced : Parked(l, d) => l = k
        BY <1>11, <3>1, <4>1 DEF SInv, ParkedOnce
      <4> QED BY <1>8b, <1>12, <2>2, <4>2 DEF Loose
    <3> QED BY <3>2, <3>3
  <2> QED BY <1>6, <2>1, <2>2
<1>15. TokensKept(b)
  <2>1. \A d \in Clients : Woken(1, d)' => d = c
    BY <1>7, <1>8 DEF Woken, Owes
  <2>2. \A d \in Clients : ~Woken(2, d)'
    BY <1>7, <1>8 DEF Woken, Owes
  <2>3. \A d \in Clients : Woken(3, d)' => Waits(w, d, client[d].gen)
    <3>1. \A d \in Clients : client'[d].gen = client[d].gen
      BY <1>5
    <3>2. Down'[3].op = "waiters" /\ Down'[3].on = w
      BY <1>7, <1>8
    <3> QED BY <3>1, <3>2 DEF Woken, Owes
  <2>4. \A d \in Clients : ~(Woken(1, d)' /\ Woken(3, d)')
    BY <1>13, <1>14, <2>1, <2>3
  <2>5. ASSUME NEW p \in Fresh(b), NEW d \in Clients, Woken(p, d)'
        PROVE  /\ Loose(b, d)
               /\ client'[d].live /\ client'[d].ep = None
               /\ client'[d].co = IF Down'[p].op = "run" THEN "runs" ELSE "waits"
               /\ \A p2 \in Fresh(b) : Woken(p2, d)' => p2 = p
    <3>1. p = 1 \/ p = 3
      BY <1>8, <2>2, <2>5
    <3>2. /\ Loose(b, d) /\ client'[d].live /\ client'[d].ep = None /\ client'[d].co = "waits"
      <4>1. CASE p = 1
        <5>1. d = c
          BY <2>1, <2>5, <4>1
        <5>2. Loose(b, d) /\ client[d].live /\ client[d].co = "waits"
          BY <1>13, <5>1
        <5> QED BY <1>5, <5>1, <5>2
      <4>2. CASE p = 3
        <5>1. Waits(w, d, client[d].gen)
          BY <2>3, <2>5, <4>2
        <5>2. Loose(b, d) /\ client[d].live /\ client[d].co = "waits" /\ client[d].ep = None
          BY <1>14, <5>1
        <5> QED BY <1>5, <5>2
      <4> QED BY <3>1, <4>1, <4>2
    <3>3. Down'[p].op # "run"
      BY <1>7, <1>8, <3>1
    <3>4. \A p2 \in Fresh(b) : Woken(p2, d)' => p2 = p
      BY <1>8, <2>2, <2>4, <2>5, <3>1
    <3> QED BY <3>2, <3>3, <3>4
  <2>6. ASSUME NEW p \in Fresh(b), NEW d \in Clients, Down'[p].op = "waiters"
        PROVE  Old(Down'[p].on, d, client[d].gen) /\ Once(Down'[p].on, d, client[d].gen)
    <3>1. Down'[p].on = w
      BY <1>8a, <2>6
    <3> QED BY <1>14, <3>1
  <2>7. \A d \in Clients : client'[d].gen = client[d].gen
    BY <1>5
  <2>8. \A d \in Clients :
          \/ /\ client'[d].live = client[d].live /\ client'[d].ep = client[d].ep
             /\ client'[d].co = client[d].co
          \/ Loose(b, d)
    BY <1>5, <1>13
  <2> HIDE DEF b
  <2> QED BY <2>5, <2>6, <2>7, <2>8 DEF TokensKept
<1>16. EntriesKept
  <2>1. NoEntry.waiters = <<>>
    BY DEF NoEntry
  <2> QED BY <1>9, <1>11, <2>1 DEF EntriesKept, SInv, ParkedOnce
<1>17. ClosingKept(b) /\ PlacedFresh(b) /\ SlotsKept(b) /\ DumbFresh(b) /\ ExpectedFresh(b)
  <2>1. ClosingKept(b)
    <3>1. \A d \in Clients : /\ client'[d].async => client[d].async
                             /\ client[d].ep = None => client'[d].ep = None
      BY <1>5
    <3>2. \A p \in Fresh(b) : Down'[p].op \notin {"run", "freeClient"}
      BY <1>8a
    <3> HIDE DEF b
    <3> QED BY <1>8b, <3>1, <3>2 DEF ClosingKept
  <2>2. PlacedFresh(b) /\ SlotsKept(b)
    <3>1. \A p \in Fresh(b) : /\ Down'[p].op \in {"resume", "finish", "waiters"}
                              /\ Down'[p].op = "finish" => p = 2
      BY <1>8a
    <3> HIDE DEF b
    <3>2. PlacedFresh(b)
      BY <1>8b, <3>1 DEF PlacedFresh
    <3>3. SlotsKept(b)
      BY <1>8b DEF SlotsKept
    <3> QED BY <3>2, <3>3
  <2>3. DumbFresh(b)
    BY <1>h, <1>1, <1>7, <1>8 DEF DumbFresh, Dumb, Mute
  <2>4. ExpectedFresh(b)
    <3>1. \A p \in Fresh(b) : /\ Down'[p].op \notin {"complete", "free"}
                              /\ Down'[p].op = "finish" => Down'[p].on = s
      BY <1>8a
    <3>2. slot'[s].client = None /\ slot'[s].key = None /\ ~Dialling(slot'[s])
      BY <1>3, <1>4
    <3> HIDE DEF b
    <3> QED BY <1>8b, <3>1, <3>2 DEF ExpectedFresh
  <2> QED BY <2>1, <2>2, <2>3, <2>4
<1>18. TakenFresh(b)
  <2>1. slot'[s].leased \/ w = <<>>
    BY <1>q, <1>h, <1>1, <1>3, <1>4 DEF SInv, Carried
  <2>2. slot'[s].reserved => w = <<>>
    BY <1>q, <1>h, <1>1, <1>3, <1>4 DEF SInv, Carried
  <2>3. w = <<>> => Dumb(Down[3])'
    BY <1>7, <1>8 DEF Dumb, Mute
  <2>4. \A p \in Fresh(b) : Down'[p].op \in SlotOps => p = 2 /\ Down'[p].on = s
    BY <1>7, <1>8 DEF SlotOps
  <2>5. \A p \in Fresh(b) : p > 2 => p = 3
    BY <1>8
  <2>6. 1 .. b = {} /\ Down[Height].op \notin {"notify", "resume"}
    BY <1>8b
  <2>7. \A p \in Fresh(b) : p \in Nat
    BY <1>8a
  <2> HIDE DEF b
  <2>8. \A p, p2 \in Fresh(b) : Down'[p].op \in SlotOps /\ p2 > p => Dumb(Down[p2])' \/ w # <<>>
    BY <2>3, <2>4, <2>5
  <2>9. \A p, p2 \in Fresh(b) : ~(p < p2 /\ Down'[p].op \in SlotOps /\ Down'[p2].op \in SlotOps)
    BY <2>4, <2>7
  <2> QED BY <2>1, <2>2, <2>4, <2>6, <2>8, <2>9 DEF TakenFresh
<1>19. PinsKept(b)
  <2>1. \A t \in Slots : /\ slot[t].gen \in Nat /\ slot'[t].gen = slot[t].gen
                         /\ slot'[t].reserved = slot[t].reserved
                         /\ slot'[t].client \in {slot[t].client, None}
    BY <1>0, <1>1, <1>3, <1>4 DEF Typed, SlotShape, SlotFields
  <2>2. \A d \in Clients : client'[d].pin = client[d].pin
    BY <1>5
  <2>3. \A p \in Fresh(b) : Down'[p].op # "unpin"
    BY <1>8a
  <2> HIDE DEF b
  <2> QED BY <1>8b, <2>1, <2>2, <2>3, SetsAssumption DEF PinsKept
<1>20. CarriedAt(s)'
  BY <1>1, <1>3, <1>4 DEF SInv, Carried, CarriedAt
<1> HIDE DEF b
<1> QED BY <1>h, <1>1, <1>4, <1>5, <1>8, <1>10, <1>15, <1>16, <1>17, <1>18, <1>19, <1>20, SlotStepInv

FinishEffects(s, r, arg) ==
    LET idle == ReturnToPool(EnterState([r EXCEPT !.aborted = FALSE, !.owes = None], "RECV"))
    IN  IF arg = "CLOSE" THEN CloseGently(s, [r EXCEPT !.owes = None], FALSE)
        ELSE {Does(idle, <<>>)} \cup IF OnPush THEN {CloseForce(s, idle)} ELSE {}

\* What Finish may leave in its slot, and the one call it may make.
LEMMA FinishEffect ==
  ASSUME NEW s, NEW r, SlotShape(r), Wired(r), r.client = None, r.key = None, ~Dialling(r),
         ~r.leased => ~r.reserved,
         NEW arg,
         NEW x \in FinishEffects(s, r, arg)
  PROVE  /\ SlotShape(x.slot) /\ Wired(x.slot) /\ ~Dialling(x.slot)
         /\ x.slot.client = None /\ x.slot.key = None
         /\ x.slot.gen = r.gen /\ x.slot.reserved = r.reserved
         /\ x.slot.owes = None /\ x.slot.deferred = r.deferred
         /\ ~x.slot.leased => ~x.slot.reserved
         /\ x.calls = <<>> \/ x.calls = <<Frame("release", s, None)>>
         /\ ~x.again /\ x.registers = None /\ ~x.unlinks
<1>1. CASE arg = "CLOSE"
  <2> DEFINE q == [r EXCEPT !.owes = None]
  <2>1. /\ SlotShape(q) /\ Wired(q) /\ Kept(r, q) /\ ~Dialling(q) /\ ~q.awaiting /\ ~q.onconn
        /\ q.client = None /\ q.key = None /\ q.gen = r.gen /\ q.reserved = r.reserved
        /\ q.deferred = r.deferred /\ q.owes = None
    BY DEF SlotShape, SlotFields, Wired, Kept, Dialling, IsConnecting
  <2>2. x \in CloseGently(s, q, FALSE)
    BY <1>1 DEF FinishEffects
  <2> HIDE DEF q
  <2>3. Effect(s, q, x) /\ ~x.unlinks /\ Kept(q, x.slot) /\ ~Dialling(x.slot)
    BY <2>1, <2>2, CloseGentlyEffect
  <2>4. /\ x.calls = <<>> \/ x.calls = <<Frame("release", s, None)>>
        /\ ~x.again /\ x.registers = None
    BY <2>2 DEF CloseGently, CloseForce, CloseFor, Does
  <2>5. x.slot.owes = None /\ x.slot.deferred = r.deferred
    <3>1. Rests(q, x.slot)
      BY <2>1, <2>2, CloseGentlyRests
    <3> QED BY <2>1, <3>1 DEF Rests
  <2>6. /\ SlotShape(x.slot) /\ Wired(x.slot) /\ x.slot.client = q.client
        /\ x.slot.key = q.key /\ x.slot.gen = q.gen /\ x.slot.reserved = q.reserved
    BY <2>3 DEF Effect
  <2>7. ~x.slot.leased => ~x.slot.reserved
    BY <2>1, <2>3, <2>6 DEF Kept
  <2> QED BY <2>1, <2>3, <2>4, <2>5, <2>6, <2>7
<1>2. CASE arg # "CLOSE"
  <2> DEFINE a == [r EXCEPT !.aborted = FALSE, !.owes = None]
             e == EnterState(a, "RECV")
             q == ReturnToPool(e)
  <2>1. /\ SlotShape(a) /\ Kept(r, a) /\ ~a.awaiting /\ ~a.onconn
        /\ a.client = None /\ a.key = None /\ a.gen = r.gen /\ a.reserved = r.reserved
        /\ a.owes = None /\ a.deferred = r.deferred
    BY DEF SlotShape, SlotFields, Kept, Dialling, IsConnecting
  <2>2. x \in {Does(q, <<>>), CloseForce(s, q)}
    BY <1>2 DEF FinishEffects
  <2> HIDE DEF a
  <2>3. /\ SlotShape(e) /\ Same(a, e) /\ Kept(a, e) /\ e.ev \in {"RECV", "FATAL"}
        /\ ~e.onconn /\ ~e.awaiting
    BY <2>1, EnterStateMoves
  <2>4. Wired(e) /\ ~Dialling(e)
    BY <2>3 DEF Wired, Dialling, IsConnecting
  <2> HIDE DEF e
  <2>5. /\ SlotShape(q) /\ Wired(q) /\ Same(e, q)
        /\ q.ev = e.ev /\ q.onconn = e.onconn /\ q.awaiting = e.awaiting
        /\ Kept(e, q) \/ (e.client = None => Pooled(e, q))
    BY <2>3, <2>4, ReturnToPoolMoves
  <2>6. e.client = None /\ e.key = None /\ e.gen = r.gen /\ e.reserved = r.reserved /\ Kept(r, e)
        /\ e.owes = None /\ e.deferred = r.deferred
    BY <2>1, <2>3 DEF Same, Kept
  <2>7. /\ ~Dialling(q) /\ q.client = None /\ q.key = None /\ q.gen = r.gen
        /\ q.reserved = r.reserved /\ (~q.leased => ~q.reserved)
        /\ q.owes = None /\ q.deferred = r.deferred
    BY <2>4, <2>5, <2>6 DEF Same, Kept, Pooled, Dialling, IsConnecting
  <2> HIDE DEF q
  <2>8. CASE x = Does(q, <<>>)
    <3>1. /\ x.slot = q /\ x.calls = <<>> /\ ~x.again /\ x.registers = None /\ ~x.unlinks
      BY <2>8 DEF Does
    <3> QED BY <2>5, <2>7, <3>1
  <2>9. CASE x = CloseForce(s, q)
    <3>1. Moves(q, q)
      BY <2>5, MovesSelf
    <3>2. /\ Effect(s, q, x) /\ ~x.unlinks /\ Same(q, x.slot) /\ Kept(q, x.slot)
          /\ Dialling(x.slot) = Dialling(q) /\ x.calls = <<Frame("release", s, None)>>
      BY <2>9, <3>1, CloseForEffect DEF CloseForce
    <3>3. ~x.again /\ x.registers = None
      BY <2>9 DEF CloseForce, CloseFor, Does
    <3>4. SlotShape(x.slot) /\ Wired(x.slot)
      BY <3>2 DEF Effect
    <3>5. /\ x.slot.client = None /\ x.slot.key = None /\ x.slot.gen = r.gen
          /\ x.slot.reserved = r.reserved /\ (~x.slot.leased => ~x.slot.reserved)
          /\ x.slot.owes = None /\ x.slot.deferred = r.deferred
      BY <2>7, <3>2 DEF Same, Kept
    <3>6. ~Dialling(x.slot)
      BY <2>7, <3>2
    <3> QED BY <3>2, <3>3, <3>4, <3>5, <3>6
  <2> QED BY <2>2, <2>8, <2>9
<1> QED BY <1>1, <1>2

LEMMA FinishStep ==
  ASSUME SInv, Tame, setup' = setup, Finish
  PROVE  SInv'
<1> PICK h, s, r, f : /\ h = Height /\ s = Down[h].on /\ r = slot[s]
                      /\ f = Frame("release", s, None)
  OBVIOUS
<1> DEFINE b == 1
<1>0. Typed /\ stack # <<>>
  BY DEF SInv, Finish, Running
<1>1. /\ h = 2 /\ h \in Depth /\ Top = Down[h] /\ Down[h] \in FrameType
      /\ Down[h].op = "finish" /\ s \in Slots /\ Down[1].op = "resume"
  <2>1. h \in Nat \ {0} /\ h \in Depth /\ Top = Down[h] /\ Down[h] \in FrameType
    BY <1>0, TopFacts
  <2>2. Down[h].op = "finish"
    BY <2>1 DEF Finish, Running
  <2>3. h = 2 /\ Down[1].op = "resume"
    BY <2>1, <2>2 DEF SInv, Placed
  <2> QED BY <2>1, <2>2, <2>3, FrameFacts DEF SlotOps
<1>2. SlotShape(r) /\ Wired(r)
  BY <1>0, <1>1 DEF Typed
<1>3. r.client = None /\ r.key = None /\ ~Dialling(r) /\ (~r.leased => ~r.reserved)
  BY <1>1 DEF SInv, Expected, Carried
<1>4. PICK x : /\ x \in FinishEffects(s, r, Top.arg)
               /\ slot' = [slot EXCEPT ![s] = x.slot]
               /\ stack' = x.calls \o Tail(stack)
               /\ reconnects' = IF x.again THEN reconnects \cup {Source(s, x.slot.gen)}
                                ELSE reconnects
               /\ pending' = IF x.registers = None THEN pending
                             ELSE [pending EXCEPT ![x.registers].by = s]
               /\ client' = IF x.unlinks THEN [client EXCEPT ![slot[s].client].ep = None]
                            ELSE client
  BY <1>1 DEF Finish, Apply, FinishEffects
<1> PICK q : q = x.slot
  OBVIOUS
<1>5. /\ SlotShape(q) /\ Wired(q) /\ ~Dialling(q)
      /\ q.client = None /\ q.key = None
      /\ q.gen = r.gen /\ q.reserved = r.reserved
      /\ ~q.leased => ~q.reserved
      /\ x.calls = <<>> \/ x.calls = <<f>>
      /\ ~x.again /\ x.registers = None /\ ~x.unlinks
  BY <1>2, <1>3, <1>4, FinishEffect
<1>6. /\ slot' = [slot EXCEPT ![s] = q] /\ reconnects' = reconnects /\ pending' = pending
      /\ client' = client
  BY <1>4, <1>5
<1>7. /\ DOMAIN slot' = Slots /\ slot'[s] = q
      /\ \A t \in Slots \ {s} : slot'[t] = slot[t]
      /\ \A t \in Slots : SlotShape(slot'[t]) /\ Wired(slot'[t])
  BY <1>0, <1>1, <1>5, <1>6, SlotSet
<1>8. f \in FrameType /\ f.op = "release" /\ f.on = s
  BY <1>1, FrameTypes DEF Frame, SlotOps
<1>9. /\ KeepsBelow(b) /\ stack' \in Seq(FrameType)
      /\ \/ Fresh(b) = {}
         \/ Fresh(b) = {2} /\ Height' = 2 /\ Down'[2] = f
  <2>0. Height = 2 /\ Height - 1 = 1
    BY <1>1
  <2>1. CASE x.calls = <<>>
    <3>1. stack' = Tail(stack)
      <4>1. Tail(stack) \in Seq(FrameType)
        BY <1>0 DEF Typed
      <4>2. stack' = <<>> \o Tail(stack)
        BY <1>4, <2>1
      <4> QED BY <4>1, <4>2, ConcatEmptySeq
    <3>2. KeepsBelow(Height - 1) /\ stack' \in Seq(FrameType) /\ Fresh(Height - 1) = {}
      BY <1>0, <3>1, Pops
    <3> QED BY <2>0, <3>2
  <2>2. CASE x.calls = <<f>>
    <3>1. stack' = <<f>> \o Tail(stack)
      BY <1>4, <2>2
    <3>2. /\ KeepsBelow(Height - 1) /\ stack' \in Seq(FrameType)
          /\ Fresh(Height - 1) = {Height} /\ Height' = Height /\ Down'[Height] = f
      BY <1>0, <1>8, <3>1, Pushes1
    <3> QED BY <2>0, <3>2
  <2> QED BY <1>5, <2>1, <2>2
<1>9a. /\ \A p \in Fresh(b) : p = 2 /\ Height' = 2 /\ Down'[p] = f
       /\ 1 .. b = {1} /\ Down[1].op \notin SlotOps /\ Height = 2 /\ Down[Height].op = "finish"
  <2>1. 1 .. b = {1}
    OBVIOUS
  <2>2. Down[1].op \notin SlotOps /\ Height = 2 /\ Down[Height].op = "finish"
    BY <1>1 DEF SlotOps
  <2> QED BY <1>9, <2>1, <2>2
<1> HIDE DEF b
<1>10. Typed'
  BY <1>0, <1>6, <1>7, <1>9, TypedStep DEF Typed
<1>11. \A t \in Slots : /\ slot'[t].client = slot[t].client /\ slot'[t].gen = slot[t].gen
                        /\ slot'[t].reserved = slot[t].reserved /\ slot[t].gen \in Nat
  BY <1>0, <1>3, <1>5, <1>7 DEF Typed, SlotShape
<1>12. Linked'
  BY <1>6, <1>11 DEF SInv, Linked
<1>13. \A k : Erasing(k)' <=> Erasing(k)
  BY <1>8, <1>9, <1>9a, ErasingSame
<1>14. TokensKept(b) /\ EntriesKept
  <2>1. \A p \in Fresh(b), d \in Clients : ~Woken(p, d)'
    BY <1>8, <1>9a DEF Woken, Owes
  <2> QED BY <1>6, <1>8, <1>9a, <1>13, <2>1 DEF TokensKept, EntriesKept, SInv, ParkedOnce
<1>15. ClosingKept(b) /\ PlacedFresh(b) /\ SlotsKept(b) /\ DumbFresh(b) /\ ExpectedFresh(b)
  <2>1. ClosingKept(b)
    BY <1>6, <1>8, <1>9a DEF ClosingKept
  <2>2. PlacedFresh(b) /\ SlotsKept(b) /\ ExpectedFresh(b)
    BY <1>8, <1>9a DEF PlacedFresh, SlotsKept, ExpectedFresh
  <2>3. DumbFresh(b)
    BY <1>8, <1>9a DEF DumbFresh, Dumb, Mute
  <2> QED BY <2>1, <2>2, <2>3
<1>16. TakenFresh(b)
  BY <1>9a DEF TakenFresh
<1>17. PinsKept(b)
  BY <1>6, <1>8, <1>9a, <1>11 DEF PinsKept
<1>18. CarriedAt(s)'
  BY <1>5, <1>7 DEF CarriedAt
<1> QED BY <1>1, <1>7, <1>9, <1>9a, <1>10, <1>12, <1>14, <1>15, <1>16, <1>17, <1>18, SlotStepInv

\* The same, for a client that is there.
LEMMA UnlinkedClient ==
  ASSUME SInv, NEW s \in Slots, NEW c \in Clients, slot[s].client = c,
         \A d \in Clients : /\ client'[d].live = client[d].live /\ client'[d].co = client[d].co
                            /\ client'[d].ep = IF d = c THEN None ELSE client[d].ep,
         slot'[s].client = None, \A t \in Slots \ {s} : slot'[t] = slot[t]
  PROVE  Linked'
<1>1. None \notin Clients /\ None \notin Slots
  BY SetsAssumption
<1>2. /\ \A d \in Clients : client[d].ep # None => client[d].co = "waits" /\ client[d].live
      /\ \A t \in Slots, d \in Clients : slot[t].client = d <=> client[d].ep = t
  BY DEF SInv, Linked
<1>3. ASSUME NEW t \in Slots, NEW d \in Clients
      PROVE  slot'[t].client = d <=> client'[d].ep = t
  <2>1. CASE t = s
    BY <1>1, <1>2, <2>1
  <2>2. CASE t # s
    BY <1>1, <1>2, <2>2
  <2> QED BY <2>1, <2>2
<1> QED BY <1>2, <1>3 DEF Linked

\* ReleaseClient first lets go of the slot that serves the client.
LEMMA DetachStep ==
  ASSUME SInv, Tame, setup' = setup, Detach
  PROVE  SInv'
<1>h. PICK h, c, e : h = Height /\ c = Down[h].on /\ e = client[c].ep
  BY Zenon
<1>r. PICK r : r = [slot[e] EXCEPT !.client = None, !.deferred = None]
  OBVIOUS
<1>f. PICK f : f = Frame("release", e, None)
  OBVIOUS
<1>x. PICK x : x = IF OnAbort /\ ~IsConnecting(r)
                 THEN Does([r EXCEPT !.aborted = TRUE], <<>>) ELSE CloseForce(e, r)
  OBVIOUS
<1>q. PICK q : q = x.slot
  OBVIOUS
<1> DEFINE b == 1
<1>0. Typed /\ stack # <<>>
  BY DEF SInv, Detach, Running
<1>1. /\ h = 2 /\ h \in Depth /\ Top = Down[h] /\ Down[h] \in FrameType
      /\ Down[h].op = "detach" /\ c \in Clients
      /\ Down[1].op = "freeClient" /\ Down[1].on = c
  <2>1. h \in Nat \ {0} /\ h \in Depth /\ Top = Down[h] /\ Down[h] \in FrameType
    BY <1>h, <1>0, TopFacts
  <2>2. Down[h].op = "detach"
    BY <2>1, Zenon DEF Detach, Running
  <2>3. h = 2 /\ Down[1].op = "freeClient" /\ Down[1].on = c
    BY <1>h, <2>1, <2>2 DEF SInv, Placed
  <2> QED BY <1>h, <2>1, <2>2, <2>3, FrameFacts, Zenon
<1>2. /\ IF e = None THEN slot' = slot /\ stack' = Tail(stack)
         ELSE slot' = [slot EXCEPT ![e] = q] /\ stack' = x.calls \o Tail(stack)
      /\ client' = [client EXCEPT ![c].ep = None]
      /\ pending' = pending /\ reconnects' = reconnects
  BY <1>h, <1>1, <1>r, <1>x, <1>q, Zenon DEF Detach
<1>3. /\ DOMAIN client = Clients /\ (\A d \in Clients : ClientShape(client[d]))
      /\ e \in Slots \cup {None} /\ None \notin Slots /\ None \notin Clients
  BY <1>h, <1>0, <1>1, SetsAssumption DEF Typed, ClientShape
<1>4. 1 .. b = {1} /\ Down[1].op \notin SlotOps /\ Height = 2 /\ Down[Height].op = "detach"
      /\ Down[Height].on = c
  <2>1. 1 .. b = {1}
    OBVIOUS
  <2>2. Down[1].op \notin SlotOps /\ Height = 2 /\ Down[Height].op = "detach" /\ Down[Height].on = c
    BY <1>h, <1>1 DEF SlotOps
  <2> QED BY <2>1, <2>2
<1>5. ASSUME e = None
      PROVE  SInv'
  <2>1. /\ slot' = slot /\ stack' = Tail(stack)
        /\ DOMAIN client' = Clients /\ \A d \in Clients : ClientShape(client'[d])
        /\ \A d \in Clients :
            /\ client'[d].gen = client[d].gen /\ client'[d].live = client[d].live
            /\ client'[d].co = client[d].co /\ client'[d].async = client[d].async
            /\ client'[d].pin = client[d].pin /\ client'[d].ep = client[d].ep
    <3>1. slot' = slot /\ stack' = Tail(stack) /\ client' = [client EXCEPT ![c].ep = None]
      BY <1>2, <1>5
    <3> QED BY <1>h, <1>1, <1>3, <1>5, <3>1 DEF ClientShape, ClientFields
  <2>2. KeepsBelow(b) /\ stack' \in Seq(FrameType) /\ Fresh(b) = {}
    <3>1. KeepsBelow(Height - 1) /\ stack' \in Seq(FrameType) /\ Fresh(Height - 1) = {}
      BY <1>0, <2>1, Pops
    <3>2. Height - 1 = 1
      BY <1>h, <1>1
    <3> QED BY <3>1, <3>2
  <2> HIDE DEF b
  <2>3. Typed'
    BY <1>0, <1>2, <2>1, <2>2, TypedStep DEF Typed
  <2>4. Linked'
    BY <2>1 DEF SInv, Linked
  <2>5. \A k : Erasing(k)' <=> Erasing(k)
    BY <1>4, <2>2, ErasingSame
  <2>6. TokensKept(b) /\ EntriesKept
    BY <1>2, <2>1, <2>2, <2>5 DEF TokensKept, EntriesKept, SInv, ParkedOnce
  <2>7. ClosingKept(b) /\ PlacedFresh(b) /\ SlotsKept(b) /\ DumbFresh(b) /\ ExpectedFresh(b)
        /\ TakenFresh(b)
    <3>1. ClosingKept(b)
      BY <1>h, <1>1, <1>4, <1>5, <2>1, <2>2 DEF ClosingKept
    <3> QED BY <1>4, <2>2, <3>1 DEF PlacedFresh, SlotsKept, DumbFresh, ExpectedFresh, TakenFresh
  <2>8. PinsKept(b)
    <3>1. \A t \in Slots : slot[t].gen \in Nat /\ slot'[t] = slot[t]
      BY <1>0, <2>1 DEF Typed, SlotShape
    <3> QED BY <1>4, <2>1, <2>2, <3>1 DEF PinsKept
  <2>9. (\A s \in Slots \ {None} : slot'[s] = slot[s]) /\ None \notin Slots
    BY <1>3, <2>1
  <2> QED BY <1>4, <2>2, <2>3, <2>4, <2>6, <2>7, <2>8, <2>9, SlotStepInv
<1>6. ASSUME e \in Slots
      PROVE  SInv'
  <2>1. /\ slot' = [slot EXCEPT ![e] = q] /\ stack' = x.calls \o Tail(stack)
        /\ slot[e].client = c /\ SlotShape(slot[e]) /\ Wired(slot[e]) /\ ~slot[e].awaiting
    <3>1. slot[e].client = c
      BY <1>h, <1>1, <1>3, <1>6 DEF SInv, Linked
    <3>2. ~slot[e].awaiting
      BY <1>1, <1>3, <1>6, <3>1 DEF SInv, Carried
    <3> QED BY <1>0, <1>2, <1>3, <1>6, <3>1, <3>2 DEF Typed
  <2>2. /\ SlotShape(r) /\ Wired(r) /\ r.client = None /\ r.key = slot[e].key
        /\ r.leased = slot[e].leased /\ r.reserved = slot[e].reserved /\ r.gen = slot[e].gen
        /\ ~r.awaiting
    BY <1>r, <2>1 DEF SlotShape, SlotFields, Wired
  <2>3. /\ SlotShape(q) /\ Wired(q) /\ q.client = None /\ q.key = slot[e].key
        /\ q.leased = slot[e].leased /\ q.reserved = slot[e].reserved /\ q.gen = slot[e].gen
        /\ ~q.awaiting
        /\ (x.calls = <<>> /\ ~Dialling(q)) \/ x.calls = <<f>>
    <3>1. CASE OnAbort /\ ~IsConnecting(r)
      <4>1. q = [r EXCEPT !.aborted = TRUE] /\ x.calls = <<>>
        BY <1>x, <1>q, <3>1 DEF Does
      <4>2. /\ SlotShape(q) /\ q.client = None /\ q.key = r.key /\ q.leased = r.leased
            /\ q.reserved = r.reserved /\ q.gen = r.gen /\ q.awaiting = r.awaiting
            /\ q.ev = r.ev /\ q.onconn = r.onconn /\ q.alive = r.alive
        BY <2>2, <4>1 DEF SlotShape, SlotFields
      <4>3. Wired(q) /\ ~Dialling(q)
        BY <2>2, <3>1, <4>2 DEF Wired, Dialling, IsConnecting
      <4> QED BY <2>2, <4>1, <4>2, <4>3
    <3>2. CASE ~(OnAbort /\ ~IsConnecting(r))
      <4>1. x = CloseFor(e, r, None)
        BY <1>x, <3>2 DEF CloseForce
      <4>2. Moves(r, r)
        BY <2>2, MovesSelf
      <4>3. /\ Effect(e, r, x) /\ Dialling(q) = Dialling(r) /\ Same(r, q) /\ Kept(r, q)
            /\ x.calls = <<f>> /\ ~x.unlinks
        <5>1. /\ Effect(e, r, x) /\ Dialling(x.slot) = Dialling(r) /\ Same(r, x.slot)
              /\ Kept(r, x.slot) /\ x.calls = <<Frame("release", e, None)>> /\ ~x.unlinks
          BY <4>1, <4>2, CloseForEffect
        <5> QED BY <1>f, <1>q, <5>1
      <4>4. SlotShape(q) /\ Wired(q) /\ ~q.awaiting
        <5>1. q.awaiting = r.awaiting
          <6>1. q = [r EXCEPT !.shutting = TRUE, !.ssl = FALSE]
            BY <1>q, <4>1 DEF CloseFor, Does
          <6> QED BY <2>2, <6>1 DEF SlotShape, SlotFields
        <5> QED BY <1>q, <2>2, <4>3, <5>1 DEF Effect
      <4> QED BY <2>2, <4>3, <4>4 DEF Same, Kept
    <3> QED BY <3>1, <3>2
  <2>4. /\ DOMAIN slot' = Slots /\ slot'[e] = q
        /\ \A t \in Slots \ {e} : slot'[t] = slot[t]
        /\ \A t \in Slots : SlotShape(slot'[t]) /\ Wired(slot'[t])
    BY <1>0, <1>6, <2>1, <2>3, SlotSet
  <2>5. /\ Linked'
        /\ DOMAIN client' = Clients /\ \A d \in Clients : ClientShape(client'[d])
        /\ \A d \in Clients :
            /\ client'[d].gen = client[d].gen /\ client'[d].live = client[d].live
            /\ client'[d].co = client[d].co /\ client'[d].async = client[d].async
            /\ client'[d].pin = client[d].pin
            /\ client'[d].ep = IF d = c THEN None ELSE client[d].ep
    <3>1. client' = [client EXCEPT ![c].ep = None]
      BY <1>2
    <3>2. /\ DOMAIN client' = Clients /\ \A d \in Clients : ClientShape(client'[d])
          /\ \A d \in Clients :
              /\ client'[d].gen = client[d].gen /\ client'[d].live = client[d].live
              /\ client'[d].co = client[d].co /\ client'[d].async = client[d].async
              /\ client'[d].pin = client[d].pin
              /\ client'[d].ep = IF d = c THEN None ELSE client[d].ep
      BY <1>1, <1>3, <3>1 DEF ClientShape, ClientFields
    <3>3. slot[e].client = c /\ slot'[e].client = None
      BY <2>1, <2>3, <2>4
    <3>4. Linked'
      BY <1>1, <1>6, <2>4, <3>2, <3>3, UnlinkedClient
    <3> QED BY <3>2, <3>4
  <2>6. f \in FrameType /\ f.op = "release" /\ f.on = e
    BY <1>6, <1>f, FrameTypes DEF Frame, SlotOps
  <2>7. /\ KeepsBelow(b) /\ stack' \in Seq(FrameType)
        /\ \/ x.calls = <<>> /\ Fresh(b) = {}
           \/ x.calls = <<f>> /\ Fresh(b) = {2} /\ Height' = 2 /\ Down'[2] = f
    <3>0. Height = 2 /\ Height - 1 = 1
      BY <1>h, <1>1
    <3>1. CASE x.calls = <<>>
      <4>1. Tail(stack) \in Seq(FrameType)
        BY <1>0 DEF Typed
      <4>2. stack' = <<>> \o Tail(stack)
        BY <2>1, <3>1
      <4>3. stack' = Tail(stack)
        BY <4>1, <4>2, ConcatEmptySeq
      <4>4. KeepsBelow(Height - 1) /\ stack' \in Seq(FrameType) /\ Fresh(Height - 1) = {}
        BY <1>0, <4>3, Pops
      <4> QED BY <3>0, <3>1, <4>4
    <3>2. CASE x.calls = <<f>>
      <4>1. stack' = <<f>> \o Tail(stack)
        BY <2>1, <3>2
      <4>2. /\ KeepsBelow(Height - 1) /\ stack' \in Seq(FrameType)
            /\ Fresh(Height - 1) = {Height} /\ Height' = Height /\ Down'[Height] = f
        BY <1>0, <2>6, <4>1, Pushes1
      <4> QED BY <3>0, <3>2, <4>2
    <3> QED BY <2>3, <3>1, <3>2
  <2>8. \A p \in Fresh(b) : p = 2 /\ Height' = 2 /\ Down'[p] = f
    BY <2>7
  <2> HIDE DEF b
  <2>9. Typed'
    BY <1>0, <1>2, <2>4, <2>5, <2>7, TypedStep DEF Typed
  <2>10. \A k : Erasing(k)' <=> Erasing(k)
    BY <1>4, <2>6, <2>7, <2>8, ErasingSame
  <2>11. TokensKept(b)
    <3>1. Loose(b, c)
      <4>1. /\ \A p \in Depth : ~Woken(p, c)
            /\ \A k \in Coalesced : ~Erasing(k) => ~Parked(k, c)
        BY <1>1, <1>6, <2>1, LinkedLoose
      <4>2. \A k \in Coalesced : Parked(k, c)' <=> Parked(k, c)
        BY <1>1, <1>2, <2>5 DEF Parked
      <4>3. \A p \in 1 .. b : p \in Depth
        BY <1>4 DEF Depth
      <4> QED BY <2>10, <4>1, <4>2, <4>3 DEF Loose
    <3>2. \A p \in Fresh(b), d \in Clients : ~Woken(p, d)'
      BY <2>6, <2>8 DEF Woken, Owes
    <3> QED BY <2>5, <2>6, <2>8, <3>1, <3>2 DEF TokensKept
  <2>12. EntriesKept
    BY <1>2, <2>10 DEF EntriesKept, SInv, ParkedOnce
  <2>13. ClosingKept(b) /\ PlacedFresh(b) /\ SlotsKept(b) /\ DumbFresh(b) /\ ExpectedFresh(b)
    <3>1. ClosingKept(b)
      BY <1>1, <1>4, <2>5, <2>6, <2>8 DEF ClosingKept
    <3>2. PlacedFresh(b) /\ SlotsKept(b) /\ ExpectedFresh(b)
      BY <1>4, <2>6, <2>8 DEF PlacedFresh, SlotsKept, ExpectedFresh
    <3>3. DumbFresh(b)
      BY <1>4, <2>6, <2>8 DEF DumbFresh, Dumb, Mute
    <3> QED BY <3>1, <3>2, <3>3
  <2>14. TakenFresh(b)
    BY <1>4, <2>8 DEF TakenFresh
  <2>15. PinsKept(b)
    <3>1. \A t \in Slots : /\ slot[t].gen \in Nat /\ slot'[t].gen = slot[t].gen
                           /\ slot'[t].reserved = slot[t].reserved
                           /\ slot'[t].client \in {slot[t].client, None}
      BY <1>0, <1>6, <2>3, <2>4 DEF Typed, SlotShape
    <3> QED BY <1>4, <2>5, <2>6, <2>8, <3>1, SetsAssumption DEF PinsKept
  <2>16. CarriedAt(e)'
    <3>1. Dialling(q) => Ending(e)'
      <4>1. ASSUME x.calls = <<f>> PROVE Ending(e)'
        BY <2>6, <2>7, <4>1 DEF Ending, Depth
      <4> QED BY <2>3, <4>1
    <3> QED BY <1>6, <2>3, <2>4, <3>1 DEF SInv, Carried, CarriedAt
  <2> QED BY <1>4, <1>6, <2>4, <2>5, <2>7, <2>9, <2>11, <2>12, <2>13, <2>14, <2>15, <2>16,
             SlotStepInv
<1> QED BY <1>3, <1>5, <1>6

\* A handle is released: its slot is pooled, closed, or left to the client it serves.
LEMMA ReleaseSlotStep ==
  ASSUME SInv, Tame, setup' = setup, ReleaseSlot
  PROVE  SInv'
<1>h. PICK h : h = Height
  OBVIOUS
<1>a. PICK a : a = Down[h].arg
  OBVIOUS
<1>s. PICK s : s = a.slot
  OBVIOUS
<1>r. PICK r : r = [slot[s] EXCEPT !.reserved = FALSE]
  OBVIOUS
<1>f. PICK f : f = Frame("release", s, None)
  OBVIOUS
<1> DEFINE b == h - 1
<1>0. Typed /\ stack # <<>>
  BY DEF SInv, ReleaseSlot, Running
<1>1. /\ h \in Nat \ {0} /\ h \in Depth /\ Top = Down[h] /\ Down[h] \in FrameType
      /\ Down[h].op = "unpin" /\ a \in Pins /\ h = Height
  <2>1. h \in Nat \ {0} /\ h \in Depth /\ Top = Down[h] /\ Down[h] \in FrameType
    BY <1>0, <1>h, TopFacts
  <2>2. Down[h].op = "unpin"
    BY <2>1 DEF ReleaseSlot, Running
  <2> QED BY <1>a, <1>h, <2>1, <2>2, FrameFacts
<1>2. /\ IF ~HandleValid(a) THEN slot' = slot /\ stack' = Tail(stack)
         ELSE IF r.client # None
         THEN slot' = [slot EXCEPT ![s] = r] /\ stack' = Tail(stack)
         ELSE IF ~r.alive
         THEN /\ slot' = [slot EXCEPT ![s] = r]
              /\ stack' = <<f>> \o Tail(stack)
         ELSE slot' = [slot EXCEPT ![s] = ReturnToPool(r)] /\ stack' = Tail(stack)
      /\ client' = client /\ pending' = pending /\ reconnects' = reconnects
  BY <1>1, <1>a, <1>s, <1>r, <1>f DEF ReleaseSlot
<1>3. None \notin Slots /\ (\A t \in Slots : slot[t].gen \in Nat)
  BY <1>0, SetsAssumption DEF Typed, SlotShape
<1>4. ASSUME ~HandleValid(a)
      PROVE  SInv'
  <2>1. slot' = slot /\ stack' = Tail(stack) /\ client' = client /\ pending' = pending
        /\ reconnects' = reconnects
    BY <1>2, <1>4
  <2>2. KeepsBelow(b) /\ stack' \in Seq(FrameType) /\ Fresh(b) = {}
    BY <1>0, <1>1, <2>1, Pops
  <2> HIDE DEF b
  <2>3. Typed'
    BY <1>0, <2>1, <2>2, TypedStep DEF Typed
  <2>4. Linked'
    BY <2>1 DEF SInv, Linked
  <2>5. \A k : Erasing(k)' <=> Erasing(k)
    BY <1>1, <2>2, ErasingSame
  <2>6. TokensKept(b) /\ EntriesKept
    BY <2>1, <2>2, <2>5 DEF TokensKept, EntriesKept, SInv, ParkedOnce
  <2>7. ClosingKept(b) /\ PlacedFresh(b) /\ SlotsKept(b) /\ DumbFresh(b) /\ ExpectedFresh(b)
        /\ TakenFresh(b)
    <3>1. ClosingKept(b)
      BY <1>1, <2>1, <2>2 DEF ClosingKept
    <3> QED BY <1>1, <2>1, <2>2, <3>1 DEF PlacedFresh, SlotsKept, DumbFresh, ExpectedFresh, TakenFresh
  <2>8. PinsKept(b)
    <3>1. ASSUME NEW t \in Slots, slot'[t].reserved
          PROVE  Down[Height].arg # [slot |-> t, gen |-> slot[t].gen]
      <4>1. SUFFICES ASSUME a = [slot |-> t, gen |-> slot[t].gen] PROVE FALSE
        BY <1>1, <1>a
      <4>2. a.slot = t /\ a.gen = slot[t].gen /\ slot[t].reserved
        BY <2>1, <3>1, <4>1
      <4> QED BY <1>3, <1>4, <4>2 DEF HandleValid
    <3> QED BY <1>3, <2>1, <2>2, <3>1 DEF PinsKept
  <2>9. \A t \in Slots \ {None} : slot'[t] = slot[t]
    BY <2>1
  <2> QED BY <1>1, <1>3, <2>2, <2>3, <2>4, <2>6, <2>7, <2>8, <2>9, SlotStepInv
<1>5. ASSUME HandleValid(a)
      PROVE  SInv'
  <2>1. /\ s \in Slots /\ slot[s].gen = a.gen /\ slot[s].reserved /\ slot[s].leased
        /\ slot[s].key = None /\ Pinning /\ SlotShape(slot[s]) /\ Wired(slot[s])
        /\ slot[s].awaiting => slot[s].client = None
        /\ Dialling(slot[s]) /\ slot[s].client = None => Ending(s)
    <3>1. s \in Slots /\ slot[s].gen = a.gen /\ slot[s].reserved
      BY <1>1, <1>5, <1>s DEF HandleValid, Pins
    <3>2. slot[s].leased /\ slot[s].key = None
      BY <3>1 DEF SInv, Carried
    <3>3. Pinning
      BY <3>1 DEF SInv, Pinned
    <3>4. /\ slot[s].awaiting => slot[s].client = None
          /\ Dialling(slot[s]) /\ slot[s].client = None => Ending(s)
      BY <3>1 DEF SInv, Carried
    <3> QED BY <1>0, <3>1, <3>2, <3>3, <3>4 DEF Typed
  <2>2. /\ SlotShape(r) /\ Wired(r) /\ r.client = slot[s].client /\ r.key = None
        /\ r.leased /\ ~r.reserved /\ r.gen = slot[s].gen
        /\ r.awaiting = slot[s].awaiting /\ Dialling(r) = Dialling(slot[s])
    <3>1. /\ SlotShape(r) /\ r.client = slot[s].client /\ r.key = None
          /\ r.leased /\ ~r.reserved /\ r.gen = slot[s].gen
          /\ r.awaiting = slot[s].awaiting /\ r.ev = slot[s].ev /\ r.onconn = slot[s].onconn
          /\ r.alive = slot[s].alive
      BY <1>r, <2>1 DEF SlotShape, SlotFields
    <3>2. Wired(r) /\ Dialling(r) = Dialling(slot[s])
      BY <2>1, <3>1 DEF Wired, Dialling, IsConnecting
    <3> QED BY <3>1, <3>2
  <2>3. PICK q : q = IF r.client # None \/ ~r.alive THEN r ELSE ReturnToPool(r)
    OBVIOUS
  <2>4. /\ SlotShape(q) /\ Wired(q) /\ q.client = slot[s].client /\ q.key = None
        /\ ~q.reserved /\ q.gen = slot[s].gen
        /\ q.awaiting = slot[s].awaiting /\ Dialling(q) = Dialling(slot[s])
        /\ q.leased \/ q.client = None
        /\ (~r.alive => q.leased)
    <3>1. CASE r.client # None \/ ~r.alive
      <4>1. q = r
        BY <2>3, <3>1
      <4> QED BY <2>2, <4>1
    <3>2. CASE ~(r.client # None \/ ~r.alive)
      <4>1. q = ReturnToPool(r)
        BY <2>3, <3>2
      <4>2. /\ SlotShape(q) /\ Wired(q) /\ Same(r, q)
            /\ q.ev = r.ev /\ q.onconn = r.onconn /\ q.awaiting = r.awaiting
        BY <2>2, <4>1, ReturnToPoolMoves
      <4>3. Dialling(q) = Dialling(r)
        BY <4>2 DEF Dialling, IsConnecting
      <4> QED BY <2>2, <3>2, <4>2, <4>3 DEF Same
    <3> QED BY <3>1, <3>2
  <2>5. /\ slot' = [slot EXCEPT ![s] = q]
        /\ \/ stack' = Tail(stack)
           \/ stack' = <<f>> \o Tail(stack) /\ r.client = None /\ ~r.alive
        /\ client' = client /\ pending' = pending /\ reconnects' = reconnects
    BY <1>2, <1>5, <2>3
  <2>6. /\ DOMAIN slot' = Slots /\ slot'[s] = q
        /\ \A t \in Slots \ {s} : slot'[t] = slot[t]
        /\ \A t \in Slots : SlotShape(slot'[t]) /\ Wired(slot'[t])
    BY <1>0, <2>1, <2>4, <2>5, SlotSet
  <2>7. f \in FrameType /\ f.op = "release" /\ f.on = s
    BY <2>1, <1>f, FrameTypes DEF Frame, SlotOps
  <2>8. /\ KeepsBelow(b) /\ stack' \in Seq(FrameType)
        /\ \/ Fresh(b) = {}
           \/ Fresh(b) = {h} /\ Height' = h /\ Down'[h] = f /\ r.client = None /\ ~r.alive
    BY <1>0, <1>1, <2>5, <2>7, Pops, Pushes1
  <2>9. \A p \in Fresh(b) : p = h /\ Height' = h /\ Down'[p] = f /\ r.client = None /\ ~r.alive
    BY <2>8
  <2>10. ASSUME NEW p \in 1 .. b, Down[p].op \in SlotOps, Down[p].on = s
         PROVE  DumbAbove(p)
    <3>1. p \in Depth
      BY <1>1 DEF Depth
    <3>2. \A p2 \in Depth : p2 > p =>
             \/ Dumb(Down[p2])
             \/ p2 = Height /\ Down[p2].op = "notify" /\ Down[p2].on = Down[p].on
             \/ p2 = Height /\ Down[p2].op = "resume" /\ Down[p2].arg = None
      BY <2>1, <2>10, <3>1 DEF SInv, NotTaken
    <3> QED BY <1>1, <3>2 DEF DumbAbove
  <2>11. \A p \in 1 .. b : Down[p].op \in SlotOps => Down[p].on \in Slots
    BY <1>0, <1>1, FramesTyped, FrameFacts DEF Depth
  <2>12. \A p \in 1 .. b : p \in Depth' /\ p \in Depth /\ Down'[p] = Down[p]
    BY <1>1, <2>8 DEF KeepsBelow, Depth
  <2>12a. \A p \in Depth : p \in 1 .. b \/ p = h
    BY <1>1 DEF Depth
  <2> HIDE DEF b
  <2>13. Typed'
    BY <1>0, <2>5, <2>6, <2>8, TypedStep DEF Typed
  <2>14. Linked'
    BY <2>1, <2>4, <2>5, <2>6 DEF SInv, Linked
  <2>15. \A k : Erasing(k)' <=> Erasing(k)
    BY <1>1, <2>7, <2>8, <2>9, ErasingSame
  <2>16. TokensKept(b) /\ EntriesKept
    <3>1. \A p \in Fresh(b), d \in Clients : ~Woken(p, d)'
      BY <2>7, <2>9 DEF Woken, Owes
    <3> QED BY <2>5, <2>7, <2>9, <2>15, <3>1 DEF TokensKept, EntriesKept, SInv, ParkedOnce
  <2>17. ClosingKept(b) /\ PlacedFresh(b) /\ ExpectedFresh(b)
    BY <1>1, <2>5, <2>7, <2>9 DEF ClosingKept, PlacedFresh, ExpectedFresh
  <2>18. SlotsKept(b)
    <3>1. ASSUME NEW p \in 1 .. b, Down[p].op \in SlotOps, Down[p].on = s
          PROVE  /\ slot[s].leased /\ ~q.leased => DumbAbove(p)
                 /\ q.reserved => slot[s].reserved
                 /\ slot[s].client = None => q.client = None
                 /\ slot[s].key = None => q.key = None
                 /\ ~Dialling(slot[s]) => ~Dialling(q)
      BY <2>4, <2>10, <3>1
    <3> QED BY <2>6, <2>11, <3>1 DEF SlotsKept
  <2>19. DumbFresh(b)
    <3>1. \A p \in Fresh(b) : Mute(Down[p])' /\ Down'[p].op = "release"
      <4> SUFFICES ASSUME NEW p \in Fresh(b) PROVE Mute(Down[p])' /\ Down'[p].op = "release"
        OBVIOUS
      <4>1. Down'[p] = f /\ r.client = None
        BY <2>9
      <4>2. slot'[s].client = None /\ slot'[s].key = None
        BY <2>2, <2>4, <2>6, <4>1
      <4> QED BY <2>7, <4>1, <4>2 DEF Mute
    <3>2. \A p \in Fresh(b) : Dumb(Down[p])'
      BY <3>1 DEF Dumb
    <3> QED BY <3>1, <3>2 DEF DumbFresh
  <2>20. TakenFresh(b)
    <3>1. \A p \in Fresh(b) : /\ p = h /\ Down'[p].on = s /\ Down'[p].op = "release"
                              /\ slot'[s].leased
      BY <2>4, <2>6, <2>7, <2>9
    <3>2. \A p, p2 \in Fresh(b) : ~(p < p2)
      BY <1>1, <3>1
    <3>3. \A p \in 1 .. b : Down[p].op \in SlotOps /\ Down[p].on = s => Pinning /\ DumbAbove(p)
      BY <2>1, <2>10
    <3>4. Down[Height].op \notin {"notify", "resume"}
      BY <1>1
    <3> QED BY <1>1, <3>1, <3>2, <3>3, <3>4 DEF TakenFresh
  <2>21. PinsKept(b)
    <3>1. \A t \in Slots : /\ slot[t].gen \in Nat /\ slot'[t].gen = slot[t].gen
                           /\ slot'[t].reserved => slot[t].reserved /\ t # s
                           /\ slot'[t].client = slot[t].client
      BY <1>3, <2>4, <2>6
    <3>2. \A t \in Slots : t # s => Down[Height].arg # [slot |-> t, gen |-> slot[t].gen]
      <4>1. \A t \in Slots : [slot |-> t, gen |-> slot[t].gen].slot = t
        OBVIOUS
      <4> QED BY <1>1, <1>a, <1>s, <4>1
    <3>3. \A p \in Fresh(b) : Down'[p].op # "unpin"
      BY <2>7, <2>9
    <3> QED BY <2>5, <3>1, <3>2, <3>3 DEF PinsKept
  <2>22. CarriedAt(s)'
    <3>1. ASSUME Dialling(q), ~q.leased
          PROVE  Ending(s)'
      <4>1. Ending(s)
        BY <2>1, <2>4, <3>1
      <4>2. PICK p \in Depth : /\ Down[p].op \in {"release", "notify", "free", "close"}
                               /\ Down[p].on = s
        BY <4>1 DEF Ending
      <4>3. p \in 1 .. b
        BY <1>1, <2>12a, <4>2
      <4> QED BY <2>12, <4>2, <4>3 DEF Ending
    <3> QED BY <2>1, <2>4, <2>6, <3>1 DEF CarriedAt
  <2> QED BY <1>1, <2>6, <2>8, <2>13, <2>14, <2>16, <2>17, <2>18, <2>19, <2>20, <2>21, <2>22,
             SlotStepInv
<1> QED BY <1>4, <1>5

-------------------------------------------------------------------------------
(* A coroutine that runs and takes a slot.                                   *)

Holds(c, s) == client[c].pin.slot = s /\ HandleValid(client[c].pin)
Takes(c, s) == Calls(c) /\ (Holds(c, s) \/ s \in FreeSlots)

\* No handler that is half way through is about to touch a slot that may be taken.
LEMMA TakesUntouched ==
  ASSUME SInv, NEW c \in Clients, NEW s \in Slots, Takes(c, s)
  PROVE  /\ \A p \in Depth : Down[p].op \in SlotOps => Down[p].on # s
         /\ ~Dumb(Down[Height])
         /\ slot[s].client = None /\ slot[s].key = None /\ ~Dialling(slot[s])
         /\ Holds(c, s) => /\ slot[s].leased /\ slot[s].reserved
                           /\ client[c].pin = [slot |-> s, gen |-> slot[s].gen]
         /\ ~Holds(c, s) => ~slot[s].leased /\ ~slot[s].reserved
<1>0. Typed /\ Runs(c)
  BY DEF SInv, Takes, Calls
<1>1. /\ stack # <<>> /\ Height \in Nat \ {0} /\ Height \in Depth
      /\ Down[Height].op = "run" /\ client[c].ep = None /\ ~Mute(Down[Height])
  BY <1>0, RunsFacts
<1>2. ~Dumb(Down[Height])
  <2>1. Retries \/ Down[Height].arg # "failed"
    BY <1>0, RunsFacts DEF Takes, Calls
  <2> QED BY <1>1, <2>1 DEF Dumb
<1>3. /\ Holds(c, s) => /\ slot[s].leased /\ slot[s].reserved /\ slot[s].key = None
                        /\ client[c].pin = [slot |-> s, gen |-> slot[s].gen]
      /\ ~Holds(c, s) => ~slot[s].leased /\ ~slot[s].reserved /\ slot[s].key = None
  <2>1. ASSUME Holds(c, s)
        PROVE  /\ slot[s].leased /\ slot[s].reserved /\ slot[s].key = None
               /\ client[c].pin = [slot |-> s, gen |-> slot[s].gen]
    <3>1. slot[s].reserved /\ client[c].pin.slot = s /\ client[c].pin.gen = slot[s].gen
      BY <2>1 DEF Holds, HandleValid
    <3>2. client[c].pin \in Pins
      BY <1>0 DEF Typed, ClientShape
    <3>3. client[c].pin = [slot |-> s, gen |-> slot[s].gen]
      BY <3>1, <3>2 DEF Pins
    <3>4. slot[s].leased /\ slot[s].key = None
      BY <3>1 DEF SInv, Carried
    <3> QED BY <3>1, <3>3, <3>4
  <2>2. ASSUME ~Holds(c, s)
        PROVE  ~slot[s].leased /\ ~slot[s].reserved /\ slot[s].key = None
    <3>1. s \in FreeSlots
      BY <2>2 DEF Takes
    <3>2. ~slot[s].leased
      BY <3>1 DEF FreeSlots
    <3> QED BY <3>2 DEF SInv, Carried
  <2> QED BY <2>1, <2>2
<1>4. ASSUME NEW p \in Depth, Down[p].op \in SlotOps, Down[p].on = s
      PROVE  FALSE
  <2>1. p < Height
    <3>1. p # Height
      BY <1>1, <1>4 DEF SlotOps
    <3> QED BY <1>1, <3>1 DEF Depth
  <2>2. CASE slot[s].reserved
    <3>1. \/ Dumb(Down[Height])
          \/ Height = Height /\ Down[Height].op = "notify" /\ Down[Height].on = Down[p].on
          \/ Height = Height /\ Down[Height].op = "resume" /\ Down[Height].arg = None
      BY <1>1, <1>4, <2>1, <2>2 DEF SInv, NotTaken
    <3> QED BY <1>1, <1>2, <3>1
  <2>3. CASE ~slot[s].leased
    <3>1. DumbAbove(p)
      BY <1>4, <2>3 DEF SInv, NotTaken
    <3> QED BY <1>1, <1>2, <2>1, <3>1 DEF DumbAbove
  <2> QED BY <1>3, <2>2, <2>3
<1>5. ~Ending(s)
  <2>1. \A p \in Depth : Down[p].op \in {"release", "notify", "free", "close"} =>
           Down[p].op \in SlotOps
    BY DEF SlotOps
  <2> QED BY <1>4, <2>1 DEF Ending
<1>6. slot[s].client = None
  <2>1. CASE ~slot[s].leased
    BY <2>1 DEF SInv, Carried
  <2>2. CASE Holds(c, s)
    <3> SUFFICES ASSUME slot[s].client # None PROVE FALSE
      OBVIOUS
    <3>1. PICK d \in Clients : slot[s].client = d
      BY <1>0 DEF Typed, SlotShape
    <3>2. d # c
      BY <1>1, <3>1, SetsAssumption DEF SInv, Linked
    <3>3. /\ client[c].pin.slot # None
          /\ client[c].pin = [slot |-> s, gen |-> slot[s].gen] /\ slot[s].reserved
      BY <1>3, <2>2 DEF Holds, HandleValid
    <3>4. /\ client[d].pin # client[c].pin
          /\ \A p \in Depth : Down[p].op = "unpin" => Down[p].arg # client[c].pin
      BY <3>2, <3>3 DEF SInv, Pinned
    <3>5. \/ client[d].pin = [slot |-> s, gen |-> slot[s].gen]
          \/ \E p \in Depth : /\ Down[p].op = "unpin"
                              /\ Down[p].arg = [slot |-> s, gen |-> slot[s].gen]
      BY <3>1, <3>3 DEF SInv, Pinned
    <3> QED BY <3>3, <3>4, <3>5
  <2> QED BY <1>3, <2>1, <2>2
<1>7. ~Dialling(slot[s])
  <2>1. CASE ~slot[s].leased
    BY <1>5, <2>1 DEF SInv, Carried
  <2>2. CASE slot[s].reserved
    BY <1>5, <1>6, <2>2 DEF SInv, Carried
  <2> QED BY <1>3, <2>1, <2>2
<1> QED BY <1>2, <1>3, <1>4, <1>6, <1>7

\* What the coroutine takes: its own slot, or one that is leased to it now.
LEMMA TakesRecord ==
  ASSUME SInv, NEW c \in Clients, NEW s \in Slots, Takes(c, s),
         NEW r, r = IF Holds(c, s) THEN slot[s] ELSE Lease(slot[s])
  PROVE  /\ SlotShape(r) /\ Wired(r) /\ r.client = None /\ r.key = None
         /\ r.leased /\ ~Dialling(r) /\ ~r.onconn /\ ~r.awaiting
         /\ slot[s].gen \in Nat /\ r.gen \in Nat /\ slot[s].gen <= r.gen
         /\ r.reserved => Holds(c, s) /\ r.gen = slot[s].gen
<1>1. SlotShape(slot[s]) /\ Wired(slot[s])
  BY DEF SInv, Typed
<1>2. /\ slot[s].client = None /\ slot[s].key = None /\ ~Dialling(slot[s])
      /\ Holds(c, s) => slot[s].leased /\ slot[s].reserved
      /\ ~Holds(c, s) => ~slot[s].leased /\ ~slot[s].reserved
  BY TakesUntouched
<1>3. ~slot[s].onconn /\ ~slot[s].awaiting /\ slot[s].gen \in Nat
  BY <1>1, <1>2 DEF Dialling, IsConnecting, SlotShape
<1>4. CASE Holds(c, s)
  BY <1>1, <1>2, <1>3, <1>4
<1>5. CASE ~Holds(c, s)
  <2>1. r = Lease(slot[s])
    BY <1>5
  <2>2. /\ SlotShape(r) /\ r.client = None /\ r.key = None /\ r.leased
        /\ r.gen = slot[s].gen + 1 /\ ~r.reserved
        /\ r.ev = slot[s].ev /\ r.onconn = slot[s].onconn /\ r.awaiting = slot[s].awaiting
        /\ r.alive = slot[s].alive
    BY <1>1, <1>2, <1>3, <1>5, <2>1 DEF Lease, SlotShape, SlotFields
  <2>3. Wired(r) /\ ~Dialling(r)
    BY <1>1, <1>2, <2>2 DEF Wired, Dialling, IsConnecting
  <2> QED BY <1>3, <2>2, <2>3
<1> QED BY <1>4, <1>5

\* The coroutine of c leaves q in slot s and waits on it, or goes on while the slot
\* is released above it.
LEMMA TakesStep ==
  ASSUME SInv, Tame, setup' = setup, NEW c \in Clients, NEW s \in Slots, Takes(c, s),
         NEW q, SlotShape(q), Wired(q), q.leased, ~q.awaiting, slot' = [slot EXCEPT ![s] = q],
         slot[s].gen <= q.gen, q.reserved => Holds(c, s) /\ q.gen = slot[s].gen,
         q.key # None => ~q.reserved,
         reconnects' = reconnects,
         pending' \in [Coalesced -> [by : Slots \cup {None}, waiters : Seq(Tokens)]],
         \A k \in Coalesced : /\ pending'[k].waiters = pending[k].waiters
                              /\ pending'[k].by = None => pending[k].by = None,
         DOMAIN client' = Clients, ClientShape(client'[c]),
         \A d \in Clients \ {c} : client'[d] = client[d],
         client'[c].gen = client[c].gen, client'[c].live = client[c].live,
         client'[c].pin = client[c].pin,
         NEW why \in {None, "refused"},
         \/ /\ stack' = Tail(stack)
            /\ q.client = c /\ client'[c].ep = s /\ client'[c].co = "waits"
         \/ /\ stack' = <<Frame("release", s, why), Frame("run", c, "failed")>> \o Tail(stack)
            /\ q.client = None /\ client'[c].ep = client[c].ep /\ client'[c].co = client[c].co
            /\ q.key # None => pending[q.key].waiters = <<>>
  PROVE  SInv'
<1>h. PICK h : h = Height
  OBVIOUS
<1>f. PICK f : f = Frame("release", s, why)
  OBVIOUS
<1>g. PICK g : g = Frame("run", c, "failed")
  OBVIOUS
<1> DEFINE b == h - 1
<1>0. Typed /\ Runs(c) /\ None \notin Slots /\ None \notin Clients
  BY SetsAssumption DEF SInv, Takes, Calls
<1>1. /\ stack # <<>> /\ h \in Nat \ {0} /\ h \in Depth /\ h = Height
      /\ Down[h].op = "run" /\ Down[h].on = c
      /\ client[c].live /\ client[c].ep = None /\ client[c].co = "runs"
      /\ \A p \in 1 .. b : ~Woken(p, c)
      /\ \A k \in Coalesced : ~Erasing(k) => ~Parked(k, c)
      /\ ~Mute(Down[h])
  BY <1>0, <1>h, RunsFacts
<1>2. /\ \A p \in Depth : Down[p].op \in SlotOps => Down[p].on # s
      /\ ~Dumb(Down[h])
      /\ slot[s].client = None
      /\ Holds(c, s) => client[c].pin = [slot |-> s, gen |-> slot[s].gen] /\ slot[s].reserved
  BY <1>1, TakesUntouched
<1>3. /\ DOMAIN slot' = Slots /\ slot'[s] = q
      /\ \A t \in Slots \ {s} : slot'[t] = slot[t]
      /\ \A t \in Slots : SlotShape(slot'[t]) /\ Wired(slot'[t])
  BY <1>0, SlotSet
<1>4. /\ f \in FrameType /\ f.op = "release" /\ f.on = s
      /\ g \in FrameType /\ g.op = "run" /\ g.on = c /\ g.arg = "failed"
  BY <1>f, <1>g, FrameTypes DEF Frame, SlotOps
<1>5. /\ KeepsBelow(b) /\ stack' \in Seq(FrameType)
      /\ \/ /\ Fresh(b) = {} /\ q.client = c /\ client'[c].ep = s /\ client'[c].co = "waits"
         \/ /\ Fresh(b) = {h, h + 1} /\ Height' = h + 1 /\ Down'[h] = g /\ Down'[h + 1] = f
            /\ q.client = None /\ client'[c].ep = client[c].ep /\ client'[c].co = client[c].co
            /\ q.key # None => pending[q.key].waiters = <<>>
  <2>1. CASE stack' = Tail(stack) /\ q.client = c /\ client'[c].ep = s /\ client'[c].co = "waits"
    BY <1>0, <1>1, <2>1, Pops
  <2>2. CASE /\ stack' = <<f, g>> \o Tail(stack)
             /\ q.client = None /\ client'[c].ep = client[c].ep /\ client'[c].co = client[c].co
             /\ q.key # None => pending[q.key].waiters = <<>>
    <3>1. /\ KeepsBelow(Height - 1) /\ stack' \in Seq(FrameType)
          /\ Fresh(Height - 1) = {Height, Height + 1} /\ Height' = Height + 1
          /\ Down'[Height] = g /\ Down'[Height + 1] = f
      BY <1>0, <1>1, <1>4, <2>2, Pushes2
    <3> QED BY <1>1, <2>2, <3>1
  <2> QED BY <1>f, <1>g, <2>1, <2>2
<1>6. \A p \in Fresh(b) :
         /\ q.client = None /\ client'[c].ep = client[c].ep /\ client'[c].co = client[c].co
         /\ q.key # None => pending[q.key].waiters = <<>>
         /\ Height' = h + 1
         /\ (p = h /\ Down'[p] = g) \/ (p = h + 1 /\ Down'[p] = f)
  BY <1>5
<1>7. \A p \in 1 .. b : p \in Depth
  BY <1>1 DEF Depth
<1> HIDE DEF b
<1>8. Typed'
  <2>1. \A d \in Clients : ClientShape(client'[d])
    BY <1>0 DEF Typed
  <2> QED BY <1>0, <1>3, <1>5, <2>1, TypedStep DEF Typed
<1>9. Linked'
  <2>1. /\ \A d \in Clients : client[d].ep # None => client[d].co = "waits" /\ client[d].live
        /\ \A t \in Slots, d \in Clients : slot[t].client = d <=> client[d].ep = t
    BY DEF SInv, Linked
  <2>2. CASE q.client = c /\ client'[c].ep = s /\ client'[c].co = "waits"
    <3>1. ASSUME NEW d \in Clients, client'[d].ep # None
          PROVE  client'[d].co = "waits" /\ client'[d].live
      <4>1. CASE d = c
        BY <1>1, <2>2, <4>1
      <4>2. CASE d # c
        <5>1. client'[d] = client[d]
          BY <4>2
        <5> QED BY <2>1, <3>1, <5>1
      <4> QED BY <4>1, <4>2
    <3>2. ASSUME NEW t \in Slots, NEW d \in Clients
          PROVE  slot'[t].client = d <=> client'[d].ep = t
      <4>1. CASE t = s /\ d = c
        BY <1>3, <2>2, <4>1
      <4>2. CASE t = s /\ d # c
        BY <1>0, <1>2, <1>3, <2>1, <2>2, <4>2
      <4>3. CASE t # s /\ d = c
        BY <1>0, <1>1, <1>3, <2>1, <2>2, <4>3
      <4>4. CASE t # s /\ d # c
        BY <1>3, <2>1, <4>4
      <4> QED BY <4>1, <4>2, <4>3, <4>4
    <3> QED BY <3>1, <3>2 DEF Linked
  <2>3. CASE q.client = None /\ client'[c].ep = client[c].ep /\ client'[c].co = client[c].co
    <3>1. \A d \in Clients : /\ client'[d].ep = client[d].ep /\ client'[d].co = client[d].co
                             /\ client'[d].live = client[d].live
      BY <2>3
    <3>2. \A t \in Slots : slot'[t].client = slot[t].client
      BY <1>2, <1>3, <2>3
    <3> QED BY SMTT(40), <2>1, <3>1, <3>2 DEF Linked
  <2> QED BY <1>5, <2>2, <2>3
<1>10. \A k : Erasing(k)' <=> Erasing(k)
  <2>1. \A p \in Fresh(b) : Down'[p].op # "erase"
    BY <1>4, <1>6
  <2> QED BY <1>1, <1>5, <2>1, ErasingSame
<1>11. TokensKept(b)
  <2>1. Loose(b, c)
    <3>1. \A k \in Coalesced : Parked(k, c)' <=> Parked(k, c)
      BY DEF Parked
    <3> QED BY <1>1, <1>10, <3>1 DEF Loose
  <2>2. ASSUME NEW p \in Fresh(b), NEW d \in Clients, Woken(p, d)'
        PROVE  p = h /\ d = c /\ Down'[p].op = "run"
    <3>1. CASE p = h /\ Down'[p] = g
      BY <1>4, <2>2, <3>1 DEF Woken, Owes
    <3>2. CASE p = h + 1 /\ Down'[p] = f
      BY <1>4, <2>2, <3>2 DEF Woken, Owes
    <3> QED BY <1>6, <2>2, <3>1, <3>2
  <2>3. \A p \in Fresh(b) : Down'[p].op # "waiters"
    BY <1>4, <1>6
  <2>4. \A d \in Clients : client'[d].gen = client[d].gen
    OBVIOUS
  <2>5. \A d \in Clients :
          \/ /\ client'[d].live = client[d].live /\ client'[d].ep = client[d].ep
             /\ client'[d].co = client[d].co
          \/ Loose(b, d)
    BY <2>1
  <2>6. ASSUME NEW p \in Fresh(b), NEW d \in Clients, Woken(p, d)'
        PROVE  /\ Loose(b, d)
               /\ client'[d].live /\ client'[d].ep = None
               /\ client'[d].co = IF Down'[p].op = "run" THEN "runs" ELSE "waits"
               /\ \A p2 \in Fresh(b) : Woken(p2, d)' => p2 = p
    <3>1. p = h /\ d = c /\ Down'[p].op = "run"
      BY <2>2, <2>6
    <3>2. client'[c].ep = None /\ client'[c].co = "runs" /\ client'[c].live
      BY <1>1, <1>6
    <3> QED BY <2>1, <2>2, <3>1, <3>2
  <2> QED BY <2>3, <2>4, <2>5, <2>6 DEF TokensKept
<1>12. EntriesKept
  BY <1>10 DEF EntriesKept, SInv, ParkedOnce
<1>13. ClosingKept(b) /\ PlacedFresh(b) /\ SlotsKept(b) /\ ExpectedFresh(b)
  <2>1. \A p \in Fresh(b) : /\ Down'[p].op \in {"run", "release"}
                            /\ Down'[p].op = "run" => Down'[p].on = c
                            /\ Down'[p].op = "release" => p = Height'
    BY <1>4, <1>6
  <2>2. ClosingKept(b)
    BY <1>1, <2>1 DEF ClosingKept
  <2>3. PlacedFresh(b) /\ ExpectedFresh(b)
    BY <1>1, <2>1 DEF PlacedFresh, ExpectedFresh
  <2>4. \A p \in 1 .. b : Down[p].op \in SlotOps => Down[p].on \in Slots \ {s}
    BY <1>0, <1>2, <1>7, FramesTyped, FrameFacts
  <2>5. SlotsKept(b)
    BY <1>3, <2>4 DEF SlotsKept
  <2> QED BY <2>2, <2>3, <2>5
<1>14. DumbFresh(b)
  <2>1. \A p \in Fresh(b) : Down'[p].op = "release" => Mute(Down[p])'
    <3> SUFFICES ASSUME NEW p \in Fresh(b), Down'[p].op = "release" PROVE Mute(Down[p])'
      OBVIOUS
    <3>1. /\ Down'[p] = f /\ q.client = None
          /\ q.key # None => pending[q.key].waiters = <<>>
      BY <1>4, <1>6
    <3>2. slot'[Down'[p].on].client = None /\ slot'[Down'[p].on].key = q.key
      BY <1>3, <1>4, <3>1
    <3>3. q.key \in Coalesced \cup {None}
      BY DEF SlotShape
    <3>4. slot'[Down'[p].on].key # None => pending'[slot'[Down'[p].on].key].waiters = <<>>
      BY <3>1, <3>2, <3>3
    <3>5. Down'[p].op = "release"
      OBVIOUS
    <3> QED BY <3>2, <3>4, <3>5 DEF Mute
  <2>2. \A p, p2 \in Fresh(b) : Down'[p].op = "run" /\ p2 > p => Down'[p2].op = "release"
    BY <1>1, <1>4, <1>6
  <2> QED BY <1>1, <1>2, <2>1, <2>2 DEF DumbFresh
<1>15. TakenFresh(b)
  <2>1. \A p \in Fresh(b) : Down'[p].op \in SlotOps =>
           p = h + 1 /\ Down'[p].on = s /\ slot'[s].leased
    BY <1>3, <1>4, <1>6 DEF SlotOps
  <2>2. \A p \in Fresh(b) : ~(p > h + 1) /\ p \in Nat
    BY <1>1, <1>6
  <2>3. \A p \in 1 .. b : Down[p].op \in SlotOps => Down[p].on # s
    BY <1>2, <1>7
  <2>4. Down[Height].op \notin {"notify", "resume"}
    BY <1>1
  <2>5. \A p, p2 \in Fresh(b) : ~(p < p2 /\ Down'[p].op \in SlotOps)
    BY <1>1, <2>1, <2>2
  <2> QED BY <2>1, <2>3, <2>4, <2>5 DEF TakenFresh
<1>16. PinsKept(b)
  <2>1. \A t \in Slots : slot[t].gen \in Nat /\ slot'[t].gen \in Nat
    BY <1>0, <1>3 DEF Typed, SlotShape
  <2>2. \A t \in Slots : /\ slot[t].gen <= slot'[t].gen
                         /\ slot'[t].reserved => slot[t].reserved /\ slot'[t].gen = slot[t].gen
    BY <1>2, <1>3, <2>1
  <2>3. \A d \in Clients : client'[d].pin = client[d].pin
    OBVIOUS
  <2>4. ASSUME NEW t \in Slots, NEW d \in Clients, slot'[t].reserved, slot'[t].client = d
        PROVE  slot[t].client = d \/ client'[d].pin = [slot |-> t, gen |-> slot'[t].gen]
    <3>1. CASE t # s
      BY <1>3, <2>4, <3>1
    <3>2. CASE t = s
      <4>1. Holds(c, s) /\ q.gen = slot[s].gen
        BY <1>3, <2>4, <3>2
      <4>2. d = c
        BY <1>0, <1>3, <1>5, <2>4, <3>2
      <4> QED BY <1>2, <1>3, <3>2, <4>1, <4>2
    <3> QED BY <3>1, <3>2
  <2>5. \A p \in Fresh(b) : Down'[p].op # "unpin"
    BY <1>4, <1>6
  <2> QED BY <1>1, <2>1, <2>2, <2>3, <2>4, <2>5 DEF PinsKept
<1>17. CarriedAt(s)'
  <2>1. CASE q.client = c
    BY <1>0, <1>3, <2>1 DEF CarriedAt
  <2>2. CASE q.client = None
    <3>1. h + 1 \in Depth' /\ Down'[h + 1] = f
      BY <1>0, <1>1, <1>5, <2>2 DEF Depth
    <3>2. Ending(s)'
      BY <1>4, <3>1 DEF Ending
    <3> QED BY <1>3, <2>2, <3>2 DEF CarriedAt
  <2> QED BY <1>5, <2>1, <2>2
<1> QED BY <1>1, <1>3, <1>5, <1>8, <1>9, <1>11, <1>12, <1>13, <1>14, <1>15, <1>16, <1>17,
           SlotStepInv

\* Two calls on top of a stack.
LEMMA JoinedCalls ==
  ASSUME NEW S, NEW f \in S, NEW g \in S, NEW t \in Seq(S)
  PROVE  <<f>> \o (<<g>> \o t) = <<f, g>> \o t
<1>1. <<f>> \in Seq(S) /\ <<g>> \in Seq(S)
  OBVIOUS
<1>2. (<<f>> \o <<g>>) \o t = <<f>> \o (<<g>> \o t)
  BY <1>1, ConcatAssociative
<1>3. <<f>> \o <<g>> = <<f, g>>
  <2> DEFINE u == <<f>> \o <<g>>
             v == <<f, g>>
  <2>1. u \in Seq(S) /\ Len(u) = 2 /\ u[1] = f /\ u[2] = g
    BY <1>1
  <2>2. v \in Seq(S) /\ Len(v) = 2 /\ v[1] = f /\ v[2] = g
    BY <1>1
  <2> HIDE DEF u, v
  <2>3. u = v
    BY <2>1, <2>2, SeqEqual
  <2> QED BY <2>3 DEF u, v
<1> QED BY <1>2, <1>3

\* Dispatching a request leaves its slot to the client it serves.
LEMMA DispatchMoves ==
  ASSUME NEW r, SlotShape(r), Wired(r), ~r.onconn, ~r.awaiting, r.client # None,
         NEW x \in Dispatch(r)
  PROVE  /\ SlotShape(x.slot) /\ Wired(x.slot) /\ Same(r, x.slot) /\ Kept(r, x.slot)
         /\ ~x.slot.awaiting
<1>1. CASE ~r.alive
  <2>1. x \in WrapConnect(r)
    BY <1>1 DEF Dispatch
  <2>2. Moves(r, x.slot) /\ ~x.slot.awaiting
    BY <2>1, WrapConnectMoves
  <2> QED BY <2>2 DEF Moves, Pooled
<1>2. CASE r.alive
  <2>q. PICK q : q = EnterState(r, "SEND")
    OBVIOUS
  <2>1. /\ SlotShape(q) /\ Same(r, q) /\ Kept(r, q)
        /\ q.ev \in {"SEND", "FATAL"} /\ ~q.onconn /\ ~q.awaiting
    BY <2>q, EnterStateMoves
  <2>2. Wired(q)
    BY <2>1 DEF Wired
  <2>p. PICK p : p = [q EXCEPT !.timer = "request"]
    OBVIOUS
  <2>3. SlotShape(p) /\ Wired(p) /\ Same(q, p) /\ Kept(q, p) /\ p.awaiting = q.awaiting
    BY <2>1, <2>2, <2>p, TimerOnly
  <2>4. x.slot = p
    BY <1>2, <2>q, <2>p DEF Dispatch
  <2> QED BY <2>1, <2>3, <2>4 DEF Same, Kept
<1> QED BY <1>1, <1>2

\* SendPayload on a slot, whether it goes out, waits for the connection or fails.
LEMMA SendStep ==
  ASSUME SInv, Tame, setup' = setup, NEW c \in Clients, NEW req \in Reqs, NEW s \in Slots,
         Send(c, req, s)
  PROVE  SInv'
<1>k. PICK key : key = IF Holds(c, s) THEN None ELSE KeyOf(req)
  OBVIOUS
<1>r. PICK r : r = IF Holds(c, s) THEN slot[s] ELSE Lease(slot[s])
  OBVIOUS
<1>1. /\ Calls(c) /\ (Holds(c, s) \/ (s \in FreeSlots /\ ~InFlight(req)))
      /\ SendOn(c, req, s, r, key) /\ reconnects' = reconnects
  BY <1>k, <1>r DEF Send, Holds
<1>2. Typed /\ Takes(c, s) /\ None \notin Slots /\ None \notin Clients
  BY <1>1, SetsAssumption DEF SInv, Takes
<1>3. /\ SlotShape(r) /\ Wired(r) /\ r.client = None /\ r.key = None
      /\ r.leased /\ ~r.onconn /\ ~r.awaiting
      /\ slot[s].gen <= r.gen
      /\ (r.reserved => Holds(c, s) /\ r.gen = slot[s].gen)
  BY <1>r, <1>2, TakesRecord
<1>4. /\ key \in Coalesced \cup {None}
      /\ (key # None => ~Holds(c, s) /\ pending[key].by = None)
  BY <1>1, <1>k DEF KeyOf, InFlight
<1>5. key # None => pending[key].waiters = <<>>
  BY <1>4 DEF SInv, ParkedOnce
<1>w. PICK wait : wait = (OnConnect /\ ~r.alive)
  OBVIOUS
<1>l. PICK l : l = [r EXCEPT !.client = c]
  OBVIOUS
<1>q. PICK q : q = IF wait THEN [l EXCEPT !.deferred = req, !.key = key]
                   ELSE [l EXCEPT !.owes = req, !.key = IF key # None THEN key ELSE @]
  OBVIOUS
<1>g. PICK reg : reg = IF wait \/ key = None THEN pending ELSE [pending EXCEPT ![key].by = s]
  OBVIOUS
<1>t. PICK to : to = [client[c] EXCEPT !.async = TRUE, !.req = req]
  OBVIOUS
<1>x. PICK x \in Dispatch(q) :
          IF x.status = "PENDING"
          THEN /\ slot' = [slot EXCEPT ![s] = x.slot]
               /\ client' = [client EXCEPT ![c] = [to EXCEPT !.ep = s, !.co = "waits"]]
               /\ stack' = Tail(stack)
               /\ pending' = reg
          ELSE /\ slot' = [slot EXCEPT ![s] = CloseFor(s, [x.slot EXCEPT !.client = None],
                                                      Blame(x.status)).slot]
               /\ client' = [client EXCEPT ![c] = to]
               /\ stack' = CloseFor(s, [x.slot EXCEPT !.client = None],
                                    Blame(x.status)).calls \o Failed(c)
               /\ pending' = reg
  BY <1>1, <1>w, <1>l, <1>q, <1>g, <1>t DEF SendOn
<1>6. /\ SlotShape(l) /\ Wired(l) /\ l.client = c /\ l.key = None /\ l.leased
      /\ ~l.onconn /\ ~l.awaiting /\ l.gen = r.gen /\ l.reserved = r.reserved
  BY <1>3, <1>l DEF SlotShape, SlotFields, Wired
<1>7. /\ SlotShape(q) /\ Wired(q) /\ q.client = c /\ q.key = key /\ q.leased
      /\ ~q.onconn /\ ~q.awaiting /\ q.gen = r.gen /\ q.reserved = r.reserved
  <2>1. CASE wait
    <3>1. q = [l EXCEPT !.deferred = req, !.key = key]
      BY <1>q, <2>1
    <3> QED BY <1>4, <1>6, <3>1 DEF SlotShape, SlotFields, Wired
  <2>2. CASE ~wait
    <3>1. q = [l EXCEPT !.owes = req, !.key = key]
      BY <1>q, <1>6, <2>2 DEF SlotShape, SlotFields
    <3> QED BY <1>4, <1>6, <3>1 DEF SlotShape, SlotFields, Wired
  <2>3. wait \in BOOLEAN
    BY <1>w
  <2> QED BY <2>1, <2>2, <2>3
<1>8. /\ SlotShape(x.slot) /\ Wired(x.slot) /\ ~x.slot.awaiting /\ x.slot.leased
      /\ x.slot.client = c /\ x.slot.key = key /\ x.slot.gen = r.gen
      /\ x.slot.reserved = r.reserved
  <2>1. SlotShape(x.slot) /\ Wired(x.slot) /\ ~x.slot.awaiting /\ Same(q, x.slot) /\ Kept(q, x.slot)
    BY <1>2, <1>7, DispatchMoves
  <2> QED BY <1>7, <2>1 DEF Same, Kept
<1>9. /\ pending' \in [Coalesced -> [by : Slots \cup {None}, waiters : Seq(Tokens)]]
      /\ \A k \in Coalesced : /\ pending'[k].waiters = pending[k].waiters
                              /\ (pending'[k].by = None => pending[k].by = None)
  <2>1. pending' = reg /\ pending \in [Coalesced -> [by : Slots \cup {None}, waiters : Seq(Tokens)]]
    BY <1>2, <1>x DEF Typed
  <2>2. CASE reg = pending
    BY <2>1, <2>2
  <2>3. CASE reg # pending
    <3>1. reg = [pending EXCEPT ![key].by = s] /\ key \in Coalesced
      BY <1>4, <1>g, <2>3
    <3> QED BY <1>2, <2>1, <3>1
  <2> QED BY <2>2, <2>3
<1>10. /\ ClientShape(client[c]) /\ ClientShape(to)
       /\ to.gen = client[c].gen /\ to.live = client[c].live /\ to.pin = client[c].pin
       /\ to.ep = client[c].ep /\ to.co = client[c].co /\ DOMAIN client = Clients
  <2>1. ClientShape(client[c]) /\ DOMAIN client = Clients
    BY <1>2 DEF Typed
  <2> QED BY <1>t, <2>1 DEF ClientShape, ClientFields
<1>11. key # None => ~r.reserved
  BY <1>3, <1>4
<1>12. CASE x.status = "PENDING"
  <2>u. PICK u : u = [to EXCEPT !.ep = s, !.co = "waits"]
    OBVIOUS
  <2>1. /\ slot' = [slot EXCEPT ![s] = x.slot] /\ stack' = Tail(stack)
        /\ client' = [client EXCEPT ![c] = u]
    BY <1>x, <1>12, <2>u
  <2>2. /\ ClientShape(u) /\ u.gen = client[c].gen /\ u.live = client[c].live
        /\ u.pin = client[c].pin /\ u.ep = s /\ u.co = "waits"
    BY <1>10, <2>u DEF ClientShape, ClientFields
  <2>3. /\ DOMAIN client' = Clients /\ client'[c] = u
        /\ \A d \in Clients \ {c} : client'[d] = client[d]
    BY <1>10, <2>1
  <2>4. /\ x.slot.reserved => Holds(c, s) /\ x.slot.gen = slot[s].gen
        /\ x.slot.key # None => ~x.slot.reserved
        /\ slot[s].gen <= x.slot.gen
    BY <1>3, <1>8, <1>11
  <2> QED BY <1>1, <1>2, <1>8, <1>9, <2>1, <2>2, <2>3, <2>4, TakesStep
<1>13. CASE x.status # "PENDING"
  <2>v. PICK v : v = [x.slot EXCEPT !.client = None]
    OBVIOUS
  <2>w. PICK why : why = Blame(x.status)
    OBVIOUS
  <2>e. PICK e : e = CloseFor(s, v, why)
    OBVIOUS
  <2>1. /\ slot' = [slot EXCEPT ![s] = e.slot] /\ stack' = e.calls \o Failed(c)
        /\ client' = [client EXCEPT ![c] = to] /\ why \in {None, "refused"}
    BY <1>x, <1>13, <2>v, <2>w, <2>e DEF Blame
  <2>2. /\ SlotShape(v) /\ Wired(v) /\ v.client = None /\ v.key = key /\ v.leased
        /\ ~v.awaiting /\ v.gen = r.gen /\ v.reserved = r.reserved
    BY <1>8, <2>v DEF SlotShape, SlotFields, Wired
  <2>3. Moves(v, v)
    BY <2>2, MovesSelf
  <2>4. /\ SlotShape(e.slot) /\ Wired(e.slot) /\ Same(v, e.slot) /\ Kept(v, e.slot)
        /\ e.calls = <<Frame("release", s, why)>>
    <3>1. /\ Effect(s, v, e) /\ Same(v, e.slot) /\ Kept(v, e.slot)
          /\ e.calls = <<Frame("release", s, why)>>
      BY <2>1, <2>3, <2>e, CloseForEffect
    <3>2. SlotShape(e.slot) /\ Wired(e.slot)
      BY <3>1 DEF Effect
    <3> QED BY <3>1, <3>2
  <2>5. ~e.slot.awaiting
    BY <2>2, <2>e DEF CloseFor, Does, SlotShape, SlotFields
  <2>6. /\ e.slot.client = None /\ e.slot.key = key /\ e.slot.leased
        /\ e.slot.gen = r.gen /\ e.slot.reserved = r.reserved
    BY <2>2, <2>4 DEF Same, Kept
  <2>7. stack' = <<Frame("release", s, why), Frame("run", c, "failed")>> \o Tail(stack)
    <3>1. stack # <<>> /\ stack \in Seq(FrameType)
      BY <1>1, <1>2 DEF Calls, Runs, Running, Typed
    <3>2. Frame("run", c, "failed") \in FrameType /\ Frame("release", s, why) \in FrameType
      BY <2>1, FrameTypes DEF SlotOps
    <3>3. Tail(stack) \in Seq(FrameType)
      BY <3>1
    <3> QED BY <2>1, <2>4, <3>2, <3>3, JoinedCalls DEF Failed
  <2>8. /\ DOMAIN client' = Clients /\ client'[c] = to
        /\ \A d \in Clients \ {c} : client'[d] = client[d]
    BY <1>10, <2>1
  <2>9. /\ e.slot.reserved => Holds(c, s) /\ e.slot.gen = slot[s].gen
        /\ e.slot.key # None => ~e.slot.reserved
        /\ e.slot.key # None => pending[e.slot.key].waiters = <<>>
        /\ slot[s].gen <= e.slot.gen
    BY <1>3, <1>5, <1>11, <2>6
  <2>10. /\ ClientShape(client'[c]) /\ client'[c].gen = client[c].gen
         /\ client'[c].live = client[c].live /\ client'[c].pin = client[c].pin
         /\ client'[c].ep = client[c].ep /\ client'[c].co = client[c].co
    BY <1>10, <2>8
  <2>11. slot' = [slot EXCEPT ![s] = e.slot] /\ why \in {None, "refused"}
    BY <2>1
  <2>12. SlotShape(e.slot) /\ Wired(e.slot)
    BY <2>4
  <2> QED BY <1>1, <1>2, <1>9, <2>5, <2>6, <2>7, <2>8, <2>9, <2>10, <2>11, <2>12, TakesStep
<1> QED BY <1>12, <1>13

\* A request that cannot be serialized closes the slot it was to go out on.
LEMMA SendUnserializableStep ==
  ASSUME SInv, Tame, setup' = setup, NEW c \in Clients, NEW s \in Slots,
         SendUnserializable(c, s)
  PROVE  SInv'
<1>r. PICK r : r = IF Holds(c, s) THEN slot[s] ELSE Lease(slot[s])
  OBVIOUS
<1>e. PICK e : e = CloseFor(s, r, None)
  OBVIOUS
<1>1. /\ Calls(c) /\ (Holds(c, s) \/ s \in FreeSlots)
      /\ slot' = [slot EXCEPT ![s] = e.slot] /\ stack' = e.calls \o Failed(c)
      /\ client' = client /\ pending' = pending /\ reconnects' = reconnects
  BY <1>r, <1>e DEF SendUnserializable, Holds, CloseForce
<1>2. Typed /\ Takes(c, s)
  BY <1>1 DEF SInv, Takes
<1>3. /\ SlotShape(r) /\ Wired(r) /\ r.client = None /\ r.key = None
      /\ r.leased /\ ~r.onconn /\ ~r.awaiting
      /\ slot[s].gen <= r.gen
      /\ (r.reserved => Holds(c, s) /\ r.gen = slot[s].gen)
  BY <1>r, <1>2, TakesRecord
<1>4. /\ SlotShape(e.slot) /\ Wired(e.slot) /\ Same(r, e.slot) /\ Kept(r, e.slot)
      /\ e.calls = <<Frame("release", s, None)>> /\ ~e.slot.awaiting
  <2>1. Moves(r, r)
    BY <1>3, MovesSelf
  <2>2. /\ Effect(s, r, e) /\ Same(r, e.slot) /\ Kept(r, e.slot)
        /\ e.calls = <<Frame("release", s, None)>>
    BY <1>e, <2>1, CloseForEffect
  <2>3. SlotShape(e.slot) /\ Wired(e.slot)
    BY <2>2 DEF Effect
  <2>4. ~e.slot.awaiting
    BY <1>3, <1>e DEF CloseFor, Does, SlotShape, SlotFields
  <2> QED BY <2>2, <2>3, <2>4
<1>5. stack' = <<Frame("release", s, None), Frame("run", c, "failed")>> \o Tail(stack)
  <2>1. stack # <<>> /\ stack \in Seq(FrameType)
    BY <1>1, <1>2 DEF Calls, Runs, Running, Typed
  <2>2. Frame("run", c, "failed") \in FrameType /\ Frame("release", s, None) \in FrameType
    BY FrameTypes DEF SlotOps
  <2>3. Tail(stack) \in Seq(FrameType)
    BY <2>1
  <2> QED BY <1>1, <1>4, <2>2, <2>3, JoinedCalls DEF Failed
<1>6. /\ e.slot.client = None /\ e.slot.leased
      /\ e.slot.key # None => ~e.slot.reserved
      /\ e.slot.key # None => pending[e.slot.key].waiters = <<>>
      /\ slot[s].gen <= e.slot.gen
      /\ e.slot.reserved => Holds(c, s) /\ e.slot.gen = slot[s].gen
  BY <1>3, <1>4 DEF Same, Kept
<1>7. /\ pending' \in [Coalesced -> [by : Slots \cup {None}, waiters : Seq(Tokens)]]
      /\ \A k \in Coalesced : /\ pending'[k].waiters = pending[k].waiters
                              /\ (pending'[k].by = None => pending[k].by = None)
  BY <1>1, <1>2 DEF Typed
<1>8. DOMAIN client' = Clients /\ ClientShape(client'[c])
  BY <1>1, <1>2 DEF Typed
<1> QED BY <1>1, <1>2, <1>4, <1>5, <1>6, <1>7, <1>8, TakesStep

\* Reserve: no handler is about to touch the slot, and no handle of it is valid.
LEMMA ReserveSlotStep ==
  ASSUME SInv, Tame, setup' = setup, NEW c \in Clients, NEW s \in Slots, ReserveSlot(c, s)
  PROVE  SInv'
<1>h. PICK h : h = Height
  OBVIOUS
<1>l. PICK l : l = Lease(slot[s])
  OBVIOUS
<1>q. PICK q : q = [l EXCEPT !.reserved = TRUE]
  OBVIOUS
<1>v. PICK v : v = [slot |-> s, gen |-> q.gen]
  OBVIOUS
<1> DEFINE b == h - 1
<1>0. Typed /\ None \notin Slots /\ None \notin Clients
  BY SetsAssumption DEF SInv
<1>1. /\ Calls(c) /\ Pinning /\ client[c].pin = NoPin /\ s \in FreeSlots
      /\ slot' = [slot EXCEPT ![s] = q]
      /\ client' = [client EXCEPT ![c].pin = [slot |-> s, gen |-> slot'[s].gen]]
      /\ stack' = stack /\ pending' = pending /\ reconnects' = reconnects
  BY <1>l, <1>q DEF ReserveSlot
<1>2. ~Holds(c, s) /\ Takes(c, s) /\ Runs(c)
  BY <1>0, <1>1 DEF Takes, Holds, HandleValid, NoPin, Calls
<1>3. /\ stack # <<>> /\ h \in Nat \ {0} /\ h \in Depth /\ h = Height
      /\ Down[h].op = "run" /\ Down[h].on = c
      /\ client[c].live /\ client[c].ep = None /\ client[c].co = "runs"
      /\ \A p \in 1 .. b : ~Woken(p, c)
      /\ \A k \in Coalesced : ~Erasing(k) => ~Parked(k, c)
      /\ \A d \in Clients : Woken(h, d) => d = c
      /\ ~Mute(Down[h])
  BY <1>h, <1>2, RunsFacts
<1>4. /\ \A p \in Depth : Down[p].op \in SlotOps => Down[p].on # s
      /\ ~Dumb(Down[h])
      /\ slot[s].client = None /\ ~slot[s].reserved
  BY <1>2, <1>3, TakesUntouched
<1>5. /\ SlotShape(l) /\ Wired(l) /\ l.client = None /\ l.key = None
      /\ l.leased /\ ~Dialling(l) /\ ~l.onconn /\ ~l.awaiting
      /\ slot[s].gen \in Nat /\ l.gen \in Nat /\ slot[s].gen <= l.gen
  BY <1>2, <1>l, TakesRecord
<1>6. l.gen = slot[s].gen + 1
  BY <1>0, <1>l DEF Typed, SlotShape, SlotFields, Lease
<1>7. /\ SlotShape(q) /\ Wired(q) /\ q.client = None /\ q.key = None /\ q.reserved
      /\ q.leased /\ ~Dialling(q) /\ ~q.awaiting /\ q.gen = slot[s].gen + 1
  BY <1>5, <1>6, <1>q DEF SlotShape, SlotFields, Wired, Dialling, IsConnecting
<1>8. /\ DOMAIN slot' = Slots /\ slot'[s] = q
      /\ \A t \in Slots \ {s} : slot'[t] = slot[t]
      /\ \A t \in Slots : SlotShape(slot'[t]) /\ Wired(slot'[t])
  BY <1>0, <1>1, <1>7, SlotSet
<1>9. client' = [client EXCEPT ![c].pin = v]
  BY <1>1, <1>8, <1>v
<1>10. v \in Pins /\ v.slot = s /\ v.gen = slot[s].gen + 1
  BY <1>5, <1>7, <1>v DEF Pins
<1>11. /\ DOMAIN client' = Clients /\ \A d \in Clients : ClientShape(client'[d])
       /\ \A d \in Clients : d # c => client'[d] = client[d]
       /\ \A d \in Clients :
             /\ client'[d].gen = client[d].gen /\ client'[d].ep = client[d].ep
             /\ client'[d].live = client[d].live /\ client'[d].co = client[d].co
             /\ client'[d].async = client[d].async
       /\ client'[c].pin = v
  BY <1>0, <1>9, <1>10 DEF Typed, ClientShape, ClientFields
<1>12. /\ KeepsBelow(b) /\ stack' \in Seq(FrameType) /\ Fresh(b) = {h} /\ Height' = h
       /\ Down' = Down /\ Depth' = Depth
  <2>1. Down' = Down /\ Height' = Height /\ Depth' = Depth
    BY <1>1 DEF Down, Height, Depth
  <2>2. KeepsBelow(b)
    BY <1>3, <2>1 DEF KeepsBelow
  <2>3. Fresh(b) = {h}
    BY <1>3, <2>1 DEF Fresh
  <2> QED BY <1>0, <1>1, <1>3, <2>1, <2>2, <2>3 DEF Typed
<1>13. \A p \in 1 .. b : p \in Depth
  BY <1>3 DEF Depth
<1> HIDE DEF b
<1>14. Typed'
  BY <1>0, <1>1, <1>8, <1>11, <1>12, TypedStep DEF Typed
<1>15. Linked'
  <2>1. \A t \in Slots : slot'[t].client = slot[t].client
    BY <1>4, <1>7, <1>8
  <2> QED BY <1>11, <2>1 DEF SInv, Linked
<1>16. \A k : Erasing(k)' <=> Erasing(k)
  BY <1>12 DEF Erasing
<1>17. TokensKept(b)
  <2>1. Loose(b, c)
    <3>1. \A k \in Coalesced : Parked(k, c)' <=> Parked(k, c)
      BY <1>1, <1>11 DEF Parked
    <3> QED BY <1>3, <1>16, <3>1 DEF Loose
  <2>2. ASSUME NEW p \in Fresh(b), NEW d \in Clients, Woken(p, d)'
        PROVE  p = h /\ d = c
    <3>1. p = h /\ Woken(h, d)
      BY <1>11, <1>12, <2>2 DEF Woken
    <3> QED BY <1>3, <3>1
  <2>3. \A p \in Fresh(b) : Down'[p].op = "run"
    BY <1>3, <1>12
  <2>4. client'[c].live /\ client'[c].ep = None /\ client'[c].co = "runs"
    BY <1>3, <1>11
  <2> QED BY <1>11, <2>1, <2>2, <2>3, <2>4 DEF TokensKept
<1>18. EntriesKept
  BY <1>1, <1>16 DEF EntriesKept, SInv, ParkedOnce
<1>19. \A p \in Fresh(b) : p = h /\ Down'[p].op = "run" /\ Down'[p].on = c
  BY <1>3, <1>12
<1>20. ClosingKept(b) /\ PlacedFresh(b) /\ ExpectedFresh(b)
  <2>1. ClosingKept(b)
    BY <1>3, <1>11, <1>19 DEF ClosingKept
  <2>2. PlacedFresh(b) /\ ExpectedFresh(b)
    BY <1>3, <1>19 DEF PlacedFresh, ExpectedFresh
  <2> QED BY <2>1, <2>2
<1>21. SlotsKept(b)
  <2>1. \A p \in 1 .. b : Down[p].op \in SlotOps => Down[p].on \in Slots \ {s}
    BY <1>0, <1>4, <1>13, FramesTyped, FrameFacts
  <2> QED BY <1>8, <2>1 DEF SlotsKept
<1>22. DumbFresh(b) /\ TakenFresh(b)
  <2>1. \A p \in Fresh(b) : Down'[p].op \notin SlotOps
    BY <1>19 DEF SlotOps
  <2>2. \A p, p2 \in Fresh(b) : ~(p2 > p)
    BY <1>3, <1>19
  <2>3. DumbFresh(b)
    BY <1>3, <1>4, <1>19, <2>2 DEF DumbFresh
  <2>4. TakenFresh(b)
    BY <1>3, <1>19, <2>1 DEF TakenFresh
  <2> QED BY <2>3, <2>4
<1>23. Pinned'
  <2>0. Pinning' = Pinning
    BY SetupKept
  <2>1. \A t \in Slots : slot[t].gen \in Nat /\ slot'[t].gen \in Nat /\ slot[t].gen <= slot'[t].gen
    BY SMTT(40), <1>0, <1>7, <1>8 DEF Typed, SlotShape
  <2>2. \A d \in Clients : client[d].pin \in Pins
    BY <1>0 DEF Typed, ClientShape
  <2>3. \A p \in Depth : Down[p].op = "unpin" => Down[p].arg \in Pins
    BY <1>0, FramesTyped, FrameFacts
  <2>4. \A y \in Pins : y.slot \in Slots \cup {None} /\ y.gen \in Nat
    BY DEF Pins
  <2>5. ASSUME NEW y \in Pins, y.slot # None, y.gen <= slot[y.slot].gen
        PROVE  y # v /\ y.gen <= slot'[y.slot].gen
    <3>1. y.slot \in Slots /\ y.gen \in Nat
      BY <2>4, <2>5
    <3>2. y = v => y.slot = s /\ y.gen = slot[s].gen + 1
      BY <1>10
    <3> QED BY <1>5, <2>1, <2>5, <3>1, <3>2
  <2>6. \A t \in Slots : slot'[t].reserved => Pinning'
    BY <1>1, <2>0
  <2>7. \A d \in Clients : d # c /\ client[d].pin.slot # None => client[d].pin # v
    BY <2>2, <2>5 DEF SInv, Pinned
  <2>8. \A p \in Depth : Down[p].op = "unpin" => Down[p].arg # v
    BY <1>0, <1>10, <2>3, <2>5 DEF SInv, Pinned
  <2>9. ASSUME NEW d \in Clients, client'[d].pin.slot # None
        PROVE  /\ client'[d].pin.gen <= slot'[client'[d].pin.slot].gen
               /\ \A e \in Clients : client'[e].pin = client'[d].pin => e = d
               /\ \A p \in Depth' : Down'[p].op = "unpin" => Down'[p].arg # client'[d].pin
    <3>1. CASE d = c
      <4>1. client'[d].pin = v
        BY <1>11, <3>1
      <4>2. v.gen <= slot'[v.slot].gen
        BY <1>5, <1>7, <1>8, <1>10
      <4>3. \A e \in Clients : e # c => client'[e].pin # v
        <5>1. \A e \in Clients : e # c => client'[e].pin = client[e].pin
          BY <1>11
        <5>2. v.slot # None
          BY <1>0, <1>10
        <5> QED BY <2>7, <5>1, <5>2
      <4> QED BY <1>12, <2>8, <3>1, <4>1, <4>2, <4>3
    <3>2. CASE d # c
      <4>1. client'[d].pin = client[d].pin
        BY <1>11, <3>2
      <4>2. /\ client[d].pin.gen <= slot[client[d].pin.slot].gen
            /\ \A e \in Clients : client[e].pin = client[d].pin => e = d
            /\ \A p \in Depth : Down[p].op = "unpin" => Down[p].arg # client[d].pin
        BY <2>9, <4>1 DEF SInv, Pinned
      <4>3. client[d].pin # v /\ client[d].pin.gen <= slot'[client[d].pin.slot].gen
        BY <2>2, <2>5, <2>9, <4>1, <4>2
      <4>4. \A e \in Clients : client'[e].pin = client[d].pin => e = d
        <5>1. \A e \in Clients : client'[e].pin = client[e].pin \/ client'[e].pin = v
          BY <1>11
        <5> QED BY <4>2, <4>3, <5>1
      <4> QED BY <1>12, <4>1, <4>2, <4>3, <4>4
    <3> QED BY <3>1, <3>2
  <2>10. ASSUME NEW p \in Depth', Down'[p].op = "unpin", Down'[p].arg.slot # None
         PROVE  Down'[p].arg.gen <= slot'[Down'[p].arg.slot].gen
    <3>1. p \in Depth /\ Down'[p] = Down[p]
      BY <1>12
    <3>2. Down[p].arg \in Pins /\ Down[p].arg.gen <= slot[Down[p].arg.slot].gen
      BY <2>3, <2>10, <3>1 DEF SInv, Pinned
    <3> QED BY <2>5, <2>10, <3>1, <3>2
  <2>11. ASSUME NEW t \in Slots, NEW d \in Clients, slot'[t].client = d, slot'[t].reserved
         PROVE  \/ client'[d].pin = [slot |-> t, gen |-> slot'[t].gen]
                \/ \E p \in Depth' : /\ Down'[p].op = "unpin"
                                     /\ Down'[p].arg = [slot |-> t, gen |-> slot'[t].gen]
    <3>1. t # s
      BY <1>0, <1>7, <1>8, <2>11
    <3>2. slot'[t] = slot[t]
      BY <1>8, <3>1
    <3>3. \/ client[d].pin = [slot |-> t, gen |-> slot[t].gen]
          \/ \E p \in Depth : /\ Down[p].op = "unpin"
                              /\ Down[p].arg = [slot |-> t, gen |-> slot[t].gen]
      BY <2>11, <3>2 DEF SInv, Pinned
    <3>4. CASE client[d].pin = [slot |-> t, gen |-> slot[t].gen]
      <4>1. client[d].pin.slot = t
        BY <3>4
      <4>2. d # c
        BY <1>0, <1>1, <4>1 DEF NoPin
      <4> QED BY <1>11, <3>2, <3>4, <4>2
    <3>5. CASE \E p \in Depth : /\ Down[p].op = "unpin"
                                /\ Down[p].arg = [slot |-> t, gen |-> slot[t].gen]
      BY <1>12, <3>2, <3>5
    <3> QED BY <3>3, <3>4, <3>5
  <2> QED BY <2>6, <2>9, <2>10, <2>11 DEF Pinned
<1>24. CarriedAt(s)'
  BY <1>7, <1>8 DEF CarriedAt, Dialling, IsConnecting
<1>25. ~(Height > 0 /\ Down[Height].op \in {"release", "notify", "free", "close"})
  BY <1>3
<1> QED BY <1>3, <1>8, <1>12, <1>14, <1>15, <1>17, <1>18, <1>20, <1>21, <1>22, <1>23, <1>24,
           <1>25, SlotStepPinned

-------------------------------------------------------------------------------
(* The event loop.                                                           *)

\* What a slot is like when no handler is half way through.
LEMMA QuietFacts ==
  ASSUME SInv, stack = <<>>
  PROVE  /\ Height = 0 /\ Depth = {} /\ Typed
         /\ \A k : ~Erasing(k)
         /\ \A s \in Slots :
               /\ Dialling(slot[s]) => slot[s].leased
               /\ Dialling(slot[s]) /\ slot[s].client = None =>
                     slot[s].key = None /\ ~slot[s].reserved
               /\ slot[s].client # None => slot[s].leased
               /\ ~slot[s].leased => slot[s].key = None /\ ~slot[s].reserved
               /\ slot[s].key # None => ~slot[s].reserved
               /\ slot[s].awaiting => slot[s].client = None
<1>1. Height = 0 /\ Depth = {}
  BY DEF Height, Depth
<1>2. \A k : ~Erasing(k)
  BY <1>1 DEF Erasing
<1>3. \A s : ~Ending(s)
  BY <1>1 DEF Ending
<1> QED BY <1>1, <1>2, <1>3 DEF SInv, Carried

\* Nobody is forgotten by a step that changes no client and no entry but its owner.
LEMMA EntriesSame ==
  ASSUME SInv, stack = <<>>, NEW b, KeepsBelow(b),
         \A p \in Fresh(b) : Down'[p].op # "erase",
         \A k \in Coalesced : /\ pending'[k].waiters = pending[k].waiters
                              /\ (pending'[k].by = None => pending[k].by = None)
  PROVE  EntriesKept /\ \A k : ~Erasing(k)'
<1>1. Height = 0 /\ \A k : ~Erasing(k)
  BY QuietFacts
<1>2. \A k : ~Erasing(k)'
  BY <1>1, ErasingSame
<1> QED BY <1>1, <1>2 DEF EntriesKept, SInv, ParkedOnce

\* A handler the loop starts on slot s, which leaves the slot q to the client it
\* serves and may make one more call.
LEMMA LoopStepInv ==
  ASSUME SInv, Tame, setup' = setup, stack = <<>>, NEW s \in Slots,
         NEW q, SlotShape(q), Wired(q), slot' = [slot EXCEPT ![s] = q],
         slot[s].gen <= q.gen, q.reserved => slot[s].reserved /\ q.gen = slot[s].gen,
         q.client = slot[s].client, client' = client, CallsFrom(s, q, stack'),
         reconnects' \subseteq [on : Slots, gen : Nat],
         pending' \in [Coalesced -> [by : Slots \cup {None}, waiters : Seq(Tokens)]],
         \A k \in Coalesced : /\ pending'[k].waiters = pending[k].waiters
                              /\ (pending'[k].by = None => pending[k].by = None),
         q.client # None => q.leased,
         ~q.leased => q.key = None /\ ~q.reserved,
         q.key # None => ~q.reserved,
         q.awaiting => q.client = None,
         Dialling(q) => q.leased /\ (q.client = None => q.key = None /\ ~q.reserved)
  PROVE  SInv'
<1>1. Height = 0 /\ Depth = {} /\ Typed /\ None \notin Slots
  BY QuietFacts, SetsAssumption
<1>2. /\ DOMAIN slot' = Slots /\ slot'[s] = q
      /\ \A t \in Slots \ {s} : slot'[t] = slot[t]
      /\ \A t \in Slots : SlotShape(slot'[t]) /\ Wired(slot'[t])
  BY <1>1, SlotSet
<1>3. /\ KeepsBelow(0) /\ stack' \in Seq(FrameType)
      /\ \A p \in Fresh(0) :
            /\ p = 1 /\ Height' = 1 /\ Down'[p].op \in {"release", "complete", "parseError"}
            /\ Down'[p].on = s
            /\ Down'[p].op = "complete" => ~Dialling(q)
  <2>1. CASE stack' = <<>>
    <3>1. Frame("parseError", s, None) \in FrameType
      BY FrameTypes DEF SlotOps
    <3>2. KeepsBelow(0) /\ stack' \in Seq(FrameType) /\ Fresh(0) = {}
      BY <2>1, <3>1, Starts
    <3> QED BY <3>2
  <2>2. ASSUME NEW f \in FrameType, stack' = <<f>>, f.on = s,
               f.op \in {"release", "complete", "parseError"},
               f.op = "complete" => ~Dialling(q)
        PROVE  /\ KeepsBelow(0) /\ stack' \in Seq(FrameType)
               /\ \A p \in Fresh(0) :
                     /\ p = 1 /\ Height' = 1
                     /\ Down'[p].op \in {"release", "complete", "parseError"}
                     /\ Down'[p].on = s
                     /\ Down'[p].op = "complete" => ~Dialling(q)
    <3>1. /\ KeepsBelow(0) /\ stack' \in Seq(FrameType) /\ Fresh(0) = {1} /\ Height' = 1
          /\ Down'[1] = f
      BY <2>2, Starts
    <3>2. \A p \in Fresh(0) : p = 1 /\ Down'[p] = f
      BY <3>1
    <3> QED BY <2>2, <3>1, <3>2
  <2>3. \A w \in {None, "refused"} :
           /\ Frame("release", s, w) \in FrameType /\ Frame("release", s, w).on = s
           /\ Frame("release", s, w).op = "release"
    <3>1. \A w \in {None, "refused"} : Frame("release", s, w) \in FrameType
      BY FrameTypes DEF SlotOps
    <3> QED BY <3>1 DEF Frame
  <2>4. \A v \in {"KEEP_ALIVE", "CLOSE"} :
           /\ Frame("complete", s, v) \in FrameType /\ Frame("complete", s, v).on = s
           /\ Frame("complete", s, v).op = "complete"
    <3>1. \A v \in {"KEEP_ALIVE", "CLOSE"} : Frame("complete", s, v) \in FrameType
      BY FrameTypes DEF SlotOps
    <3> QED BY <3>1 DEF Frame
  <2>5. /\ Frame("parseError", s, None) \in FrameType /\ Frame("parseError", s, None).on = s
        /\ Frame("parseError", s, None).op = "parseError"
    <3>1. Frame("parseError", s, None) \in FrameType
      BY FrameTypes DEF SlotOps
    <3> QED BY <3>1 DEF Frame
  <2>6. CASE \E w \in {None, "refused"} : stack' = <<Frame("release", s, w)>>
    <3>1. PICK w \in {None, "refused"} : stack' = <<Frame("release", s, w)>>
      BY <2>6
    <3>2. Frame("release", s, w).op # "complete"
      BY <2>3
    <3> QED BY <2>2, <2>3, <3>1, <3>2
  <2>7. CASE ~Dialling(q) /\ \E v \in {"KEEP_ALIVE", "CLOSE"} : stack' = <<Frame("complete", s, v)>>
    <3>1. PICK v \in {"KEEP_ALIVE", "CLOSE"} : stack' = <<Frame("complete", s, v)>>
      BY <2>7
    <3> QED BY <2>2, <2>4, <2>7, <3>1
  <2>8. CASE stack' = <<Frame("parseError", s, None)>>
    <3>1. Frame("parseError", s, None).op # "complete"
      BY <2>5
    <3> QED BY <2>2, <2>5, <2>8, <3>1
  <2> QED BY <2>1, <2>6, <2>7, <2>8 DEF CallsFrom
<1>4. Typed'
  BY <1>1, <1>2, <1>3, TypedStep DEF Typed
<1>5. Linked'
  <2>1. \A t \in Slots : slot'[t].client = slot[t].client
    BY <1>2
  <2> QED BY <2>1 DEF SInv, Linked
<1>6. EntriesKept
  <2>1. \A p \in Fresh(0) : Down'[p].op # "erase"
    BY <1>3
  <2> QED BY <1>3, <2>1, EntriesSame
<1>7. TokensKept(0)
  <2>1. \A p \in Fresh(0), d \in Clients : ~Woken(p, d)' /\ Down'[p].op # "waiters"
    BY <1>3 DEF Woken, Owes
  <2> QED BY <2>1 DEF TokensKept
<1>8. ClosingKept(0) /\ PlacedFresh(0)
  <2>1. ClosingKept(0)
    BY <1>1, <1>3 DEF ClosingKept
  <2>2. PlacedFresh(0)
    BY <1>3 DEF PlacedFresh
  <2> QED BY <2>1, <2>2
<1>9. SlotsKept(0) /\ DumbFresh(0)
  <2>1. \A p \in 1 .. 0 : FALSE
    OBVIOUS
  <2>2. SlotsKept(0)
    BY <2>1 DEF SlotsKept
  <2>3. DumbFresh(0)
    BY <1>1, <1>3 DEF DumbFresh
  <2> QED BY <2>2, <2>3
<1>10. TakenFresh(0)
  <2>1. \A p \in 1 .. 0 : FALSE
    OBVIOUS
  <2>2. \A p, p2 \in Fresh(0) : ~(p < p2) /\ ~(p2 > p)
    BY <1>3
  <2> QED BY <2>1, <2>2 DEF TakenFresh
<1>11. ExpectedFresh(0)
  BY <1>1, <1>2, <1>3 DEF ExpectedFresh
<1>12. PinsKept(0)
  <2>1. \A t \in Slots : slot[t].gen \in Nat /\ slot'[t].gen \in Nat
    BY <1>1, <1>2 DEF Typed, SlotShape
  <2>2. \A t \in Slots : /\ slot[t].gen <= slot'[t].gen
                         /\ slot'[t].reserved => slot[t].reserved /\ slot'[t].gen = slot[t].gen
                         /\ slot'[t].client = slot[t].client
    BY <1>2, <2>1
  <2>3. \A p \in Fresh(0) : Down'[p].op # "unpin"
    BY <1>3
  <2> QED BY <1>1, <2>1, <2>2, <2>3 DEF PinsKept
<1>13. CarriedAt(s)'
  BY <1>2 DEF CarriedAt
<1> QED BY <1>1, <1>2, <1>3, <1>4, <1>5, <1>6, <1>7, <1>8, <1>9, <1>10, <1>11, <1>12, <1>13,
           SlotStepInv

\* A deferred request is failed: its client is told and its slot closed.
LEMMA FlushFailsStep ==
  ASSUME SInv, Tame, setup' = setup, stack = <<>>, NEW s \in Slots, Dialling(slot[s]),
         NEW q, SlotShape(q), Wired(q), slot' = [slot EXCEPT ![s] = q],
         q.gen = slot[s].gen, q.reserved = slot[s].reserved, q.client = None, q.key = None,
         slot[s].client # None => q.leased, ~q.leased => ~q.reserved,
         NEW c, c = slot[s].client, client' = [client EXCEPT ![c].ep = None],
         stack' = <<Frame("resume", c, None), Frame("close", s, None)>>,
         reconnects' = reconnects, pending' = pending
  PROVE  SInv'
<1>f. PICK f : f = Frame("resume", c, None)
  OBVIOUS
<1>g. PICK g : g = Frame("close", s, None)
  OBVIOUS
<1>1. /\ Height = 0 /\ Depth = {} /\ Typed /\ None \notin Slots /\ None \notin Clients
      /\ \A k : ~Erasing(k)
  BY QuietFacts, SetsAssumption
<1>2. /\ DOMAIN slot' = Slots /\ slot'[s] = q
      /\ \A t \in Slots \ {s} : slot'[t] = slot[t]
      /\ \A t \in Slots : SlotShape(slot'[t]) /\ Wired(slot'[t])
  BY <1>1, SlotSet
<1>3. c \in Clients \cup {None} /\ DOMAIN client = Clients
      /\ \A d \in Clients : ClientShape(client[d])
  BY <1>1 DEF Typed, SlotShape
<1>4. /\ f \in FrameType /\ f.op = "resume" /\ f.on = c /\ f.arg = None
      /\ g \in FrameType /\ g.op = "close" /\ g.on = s
  BY <1>f, <1>g, <1>3, FrameTypes DEF Frame, SlotOps
<1>5. /\ KeepsBelow(0) /\ stack' \in Seq(FrameType) /\ Fresh(0) = {1, 2} /\ Height' = 2
      /\ Down'[1] = g /\ Down'[2] = f
  BY <1>f, <1>g, <1>4, Starts
<1>6. \A p \in Fresh(0) : \/ p = 1 /\ Down'[p] = g
                          \/ p = 2 /\ Down'[p] = f
  BY <1>5
<1>7. /\ DOMAIN client' = Clients /\ \A d \in Clients : ClientShape(client'[d])
      /\ \A d \in Clients :
            /\ client'[d].gen = client[d].gen /\ client'[d].live = client[d].live
            /\ client'[d].co = client[d].co /\ client'[d].async = client[d].async
            /\ client'[d].pin = client[d].pin
            /\ client'[d].ep = IF d = c THEN None ELSE client[d].ep
  <2>1. CASE c \in Clients
    BY <1>3, <2>1 DEF ClientShape, ClientFields
  <2>2. CASE c = None
    <3>1. DOMAIN client' = Clients /\ \A d \in Clients : client'[d] = client[d]
      BY <1>1, <1>3, <2>2
    <3> QED BY <1>1, <1>3, <2>2, <3>1
  <2> QED BY <1>3, <2>1, <2>2
<1>8. Typed'
  BY <1>1, <1>2, <1>5, <1>7, TypedStep DEF Typed
<1>9. Linked'
  <2>1. CASE c \in Clients
    BY <1>2, <1>7, <2>1, UnlinkedClient
  <2>2. CASE c = None
    <3>1. \A t \in Slots : slot'[t].client = slot[t].client
      BY <1>2, <2>2
    <3>2. \A d \in Clients : client'[d].ep = client[d].ep
      BY <1>1, <1>7, <2>2
    <3> QED BY <1>7, <3>1, <3>2 DEF SInv, Linked
  <2> QED BY <1>3, <2>1, <2>2
<1>10. EntriesKept /\ \A k : ~Erasing(k)'
  <2>1. \A p \in Fresh(0) : Down'[p].op # "erase"
    BY <1>4, <1>6
  <2> QED BY <1>5, <2>1, EntriesSame
<1>11. TokensKept(0)
  <2>1. c \in Clients => Loose(0, c) /\ client[c].live /\ client[c].co = "waits"
    <3> SUFFICES ASSUME c \in Clients
                 PROVE  Loose(0, c) /\ client[c].live /\ client[c].co = "waits"
      OBVIOUS
    <3>1. /\ client[c].live /\ client[c].co = "waits"
          /\ \A k \in Coalesced : ~Parked(k, c)
      BY <1>1, LinkedLoose
    <3>2. \A k \in Coalesced : Parked(k, c)' <=> Parked(k, c)
      BY <1>7 DEF Parked
    <3>3. \A p \in 1 .. 0 : FALSE
      OBVIOUS
    <3> QED BY <3>1, <3>2, <3>3 DEF Loose
  <2>2. ASSUME NEW p \in Fresh(0), NEW d \in Clients, Woken(p, d)'
        PROVE  p = 2 /\ d = c /\ Down'[p].op = "resume"
    <3>1. CASE p = 1 /\ Down'[p] = g
      BY <1>4, <2>2, <3>1 DEF Woken, Owes
    <3>2. CASE p = 2 /\ Down'[p] = f
      BY <1>4, <2>2, <3>2 DEF Woken, Owes
    <3> QED BY <1>6, <3>1, <3>2
  <2>3. \A p \in Fresh(0) : Down'[p].op # "waiters"
    BY <1>4, <1>6
  <2>4. ASSUME NEW p \in Fresh(0), NEW d \in Clients, Woken(p, d)'
        PROVE  /\ Loose(0, d)
               /\ client'[d].live /\ client'[d].ep = None
               /\ client'[d].co = IF Down'[p].op = "run" THEN "runs" ELSE "waits"
               /\ \A p2 \in Fresh(0) : Woken(p2, d)' => p2 = p
    <3>1. p = 2 /\ d = c /\ Down'[p].op = "resume"
      BY <2>2, <2>4
    <3>2. client'[d].ep = None /\ client'[d].live /\ client'[d].co = "waits"
      BY <1>7, <2>1, <3>1
    <3> QED BY <2>1, <2>2, <3>1, <3>2
  <2>5. \A d \in Clients :
          \/ /\ client'[d].live = client[d].live /\ client'[d].ep = client[d].ep
             /\ client'[d].co = client[d].co
          \/ Loose(0, d)
    BY <1>7, <2>1
  <2> QED BY <1>7, <2>3, <2>4, <2>5 DEF TokensKept
<1>12. ClosingKept(0) /\ PlacedFresh(0)
  <2>1. ClosingKept(0)
    BY <1>1, <1>4, <1>6, <1>7 DEF ClosingKept
  <2>2. PlacedFresh(0)
    BY <1>4, <1>6 DEF PlacedFresh
  <2> QED BY <2>1, <2>2
<1>13. SlotsKept(0) /\ DumbFresh(0)
  <2>1. \A p \in 1 .. 0 : FALSE
    OBVIOUS
  <2>2. SlotsKept(0)
    BY <2>1 DEF SlotsKept
  <2>3. DumbFresh(0)
    BY <1>1, <1>4, <1>6 DEF DumbFresh
  <2> QED BY <2>2, <2>3
<1>14. TakenFresh(0)
  <2>1. \A p \in 1 .. 0 : FALSE
    OBVIOUS
  <2>2. \A p \in Fresh(0) : Down'[p].op \in SlotOps => p = 1 /\ Down'[p].on = s
    BY <1>4, <1>6 DEF SlotOps
  <2>3. \A p \in Fresh(0) : p > 1 => p = 2 /\ p = Height' /\ Down'[p].op = "resume" /\ Down'[p].arg = None
    BY <1>4, <1>5, <1>6
  <2>4. c = None => \A p \in Fresh(0) : p > 1 => Dumb(Down[p])'
    <3>1. ASSUME c = None, NEW p \in Fresh(0), p > 1 PROVE Dumb(Down[p])'
      <4>1. Down'[p].op = "resume" /\ Down'[p].on = None
        BY <1>4, <1>6, <3>1
      <4> QED BY <4>1 DEF Dumb, Mute
    <3> QED BY <3>1
  <2>5. slot'[s].leased \/ c = None
    BY <1>2
  <2>6. \A p \in Fresh(0) : Down'[p].op \in SlotOps =>
           slot'[Down'[p].on].leased \/ \A p2 \in Fresh(0) : p2 > p => Dumb(Down[p2])'
    BY <2>2, <2>4, <2>5
  <2>7. \A p, p2 \in Fresh(0) :
           ~(p < p2 /\ Down'[p].op \in SlotOps /\ Down'[p2].op \in SlotOps)
    BY <2>2
  <2>8. \A p, p2 \in Fresh(0) : Down'[p].op \in SlotOps /\ p2 > p =>
           p2 = Height' /\ Down'[p2].op = "resume" /\ Down'[p2].arg = None
    BY <2>2, <2>3
  <2> QED BY <2>1, <2>6, <2>7, <2>8 DEF TakenFresh
<1>15. ExpectedFresh(0)
  BY <1>1, <1>4, <1>6 DEF ExpectedFresh
<1>16. PinsKept(0)
  <2>1. \A t \in Slots : slot[t].gen \in Nat /\ slot'[t].gen \in Nat
    BY <1>1, <1>2 DEF Typed, SlotShape
  <2>2. \A t \in Slots : /\ slot[t].gen = slot'[t].gen
                         /\ slot'[t].reserved => slot[t].reserved
                         /\ \A d \in Clients : slot'[t].client = d => slot[t].client = d
    BY <1>1, <1>2
  <2>3. \A p \in Fresh(0) : Down'[p].op # "unpin"
    BY <1>4, <1>6
  <2> QED BY <1>1, <1>7, <2>1, <2>2, <2>3 DEF PinsKept
<1>17. CarriedAt(s)'
  <2>1. Ending(s)'
    <3>1. 1 \in Depth' /\ Down'[1] = g
      BY <1>5 DEF Depth
    <3> QED BY <1>4, <3>1 DEF Ending
  <2>2. ~Dialling(q) => ~q.awaiting
    BY DEF Dialling
  <2> QED BY <1>2, <2>1 DEF CarriedAt
<1> QED BY <1>1, <1>2, <1>5, <1>8, <1>9, <1>10, <1>11, <1>12, <1>13, <1>14, <1>15, <1>16, <1>17,
           SlotStepInv

\* An event on slot s has one of the effects of its handler.
LEMMA EventStep ==
  ASSUME SInv, Tame, setup' = setup, stack = <<>>, NEW s \in Slots,
         NEW x, Effect(s, slot[s], x), Calm(slot[s], x),
         slot' = [slot EXCEPT ![s] = x.slot], stack' = x.calls,
         reconnects' = IF x.again THEN reconnects \cup {Source(s, x.slot.gen)} ELSE reconnects,
         pending' = IF x.registers = None THEN pending
                    ELSE [pending EXCEPT ![x.registers].by = s],
         client' = IF x.unlinks THEN [client EXCEPT ![slot[s].client].ep = None] ELSE client
  PROVE  SInv'
<1>r. PICK r : r = slot[s]
  OBVIOUS
<1>q. PICK q : q = x.slot
  OBVIOUS
<1>1. /\ Typed /\ SlotShape(r)
      /\ Dialling(r) => r.leased
      /\ Dialling(r) /\ r.client = None => r.key = None /\ ~r.reserved
      /\ r.client # None => r.leased
      /\ ~r.leased => r.key = None /\ ~r.reserved
      /\ r.key # None => ~r.reserved
      /\ r.awaiting => r.client = None
  <2>1. Typed /\ SlotShape(r)
    BY <1>r, QuietFacts DEF Typed
  <2> QED BY <1>r, <2>1, QuietFacts
<1>2. /\ SlotShape(q) /\ Wired(q)
      /\ q.gen = r.gen /\ q.reserved = r.reserved
      /\ Kept(r, q) \/ (Pooled(r, q) /\ ~Dialling(q))
      /\ ~Dialling(r) => Kept(r, q) /\ ~Dialling(q) /\ ~x.unlinks
      /\ q.awaiting => r.awaiting \/ (r.client = None /\ ~x.unlinks)
  BY <1>r, <1>q DEF Effect, Calm
<1>3. CASE x.unlinks
  <2>1. /\ q.client = None /\ q.key = None
        /\ stack' = <<Frame("resume", r.client, None), Frame("close", s, None)>>
        /\ x.registers = None /\ ~x.again
    BY <1>r, <1>q, <1>3 DEF Effect
  <2>2. /\ reconnects' = reconnects /\ pending' = pending
        /\ client' = [client EXCEPT ![r.client].ep = None]
    BY <1>r, <1>3, <2>1
  <2>3. Dialling(slot[s]) /\ slot' = [slot EXCEPT ![s] = q]
    BY <1>r, <1>q, <1>2, <1>3
  <2>4. slot[s].client # None => q.leased
    BY <1>r, <1>1, <1>2 DEF Kept, Pooled
  <2>5. ~q.leased => ~q.reserved
    BY <1>r, <1>1, <1>2 DEF Kept, Pooled
  <2> QED BY <1>r, <1>2, <2>1, <2>2, <2>3, <2>4, <2>5, FlushFailsStep
<1>4. CASE ~x.unlinks
  <2>1. /\ q.client = r.client /\ q.key = r.key /\ CallsFrom(s, q, stack')
        /\ x.registers = None \/ x.registers = r.key
    BY <1>r, <1>q, <1>4 DEF Effect
  <2>2. reconnects' \subseteq [on : Slots, gen : Nat]
    <3>1. Source(s, x.slot.gen) \in [on : Slots, gen : Nat]
      BY <1>q, <1>2 DEF SlotShape, Source
    <3> QED BY <1>1, <3>1 DEF Typed
  <2>3. /\ pending' \in [Coalesced -> [by : Slots \cup {None}, waiters : Seq(Tokens)]]
        /\ \A k \in Coalesced : /\ pending'[k].waiters = pending[k].waiters
                                /\ (pending'[k].by = None => pending[k].by = None)
    <3>0. pending \in [Coalesced -> [by : Slots \cup {None}, waiters : Seq(Tokens)]]
      BY <1>1 DEF Typed
    <3>1. CASE x.registers = None
      BY <3>0, <3>1
    <3>2. CASE x.registers # None
      <4>1. pending' = [pending EXCEPT ![x.registers].by = s] /\ x.registers \in Coalesced
        BY <1>1, <2>1, <3>2 DEF SlotShape
      <4> QED BY <3>0, <4>1, SetsAssumption
    <3> QED BY <3>1, <3>2
  <2>4. client' = client
    BY <1>4
  <2>5. /\ q.client # None => q.leased
        /\ ~q.leased => q.key = None /\ ~q.reserved
        /\ q.key # None => ~q.reserved
        /\ q.awaiting => q.client = None
    BY <1>1, <1>2, <2>1 DEF Kept, Pooled
  <2>6. Dialling(q) => q.leased /\ (q.client = None => q.key = None /\ ~q.reserved)
    BY <1>1, <1>2, <2>1 DEF Kept
  <2>7. /\ slot' = [slot EXCEPT ![s] = q] /\ slot[s].gen <= q.gen
        /\ q.reserved => slot[s].reserved /\ q.gen = slot[s].gen
        /\ q.client = slot[s].client
    BY <1>r, <1>q, <1>2, <2>1 DEF SlotShape
  <2> QED BY <1>2, <2>1, <2>2, <2>3, <2>4, <2>5, <2>6, <2>7, LoopStepInv
<1> QED BY <1>3, <1>4

\* What Apply does when no handler runs below.
LEMMA AppliedEvent ==
  ASSUME SInv, Tame, setup' = setup, stack = <<>>, NEW s \in Slots, NEW effects,
         Apply(s, effects, <<>>),
         \A x \in effects : Effect(s, slot[s], x) /\ Calm(slot[s], x)
  PROVE  SInv'
<1>1. PICK x \in effects :
        /\ slot' = [slot EXCEPT ![s] = x.slot]
        /\ stack' = x.calls \o <<>>
        /\ reconnects' = IF x.again THEN reconnects \cup {Source(s, x.slot.gen)}
                         ELSE reconnects
        /\ pending' = IF x.registers = None THEN pending
                      ELSE [pending EXCEPT ![x.registers].by = s]
        /\ client' = IF x.unlinks THEN [client EXCEPT ![slot[s].client].ep = None]
                     ELSE client
  BY DEF Apply
<1>2. Effect(s, slot[s], x) /\ Calm(slot[s], x)
  OBVIOUS
<1>3. stack' = x.calls
  <2>1. \/ x.calls = <<>>
        \/ \E f : x.calls = <<f>>
        \/ \E f, g : x.calls = <<f, g>>
    BY <1>2 DEF Effect, CallsFrom
  <2>2. \A f : <<f>> \in Seq({f})
    OBVIOUS
  <2>3. \E S : x.calls \in Seq(S)
    <3>1. CASE x.calls = <<>>
      <4>1. <<>> \in Seq({})
        OBVIOUS
      <4> QED BY <3>1, <4>1
    <3>2. CASE \E f : x.calls = <<f>>
      <4>1. PICK f : x.calls = <<f>>
        BY <3>2
      <4> QED BY <2>2, <4>1
    <3>3. CASE \E f, g : x.calls = <<f, g>>
      <4>1. PICK f, g : x.calls = <<f, g>>
        BY <3>3
      <4>2. x.calls \in Seq({f, g})
        BY <4>1
      <4> QED BY <4>2
    <3> QED BY <2>1, <3>1, <3>2, <3>3
  <2> QED BY <1>1, <2>3, ConcatEmptySeq
<1> QED BY <1>1, <1>2, <1>3, EventStep

\* HandleEndpointEvent.
LEMMA EndpointEventStep ==
  ASSUME SInv, Tame, setup' = setup, NEW s \in Slots, EndpointEvent(s)
  PROVE  SInv'
<1>1. stack = <<>> /\ Apply(s, HandleEndpointEvent(s, slot[s]), <<>>)
  BY DEF EndpointEvent, Take
<1>2. SlotShape(slot[s]) /\ Wired(slot[s])
  BY DEF SInv, Typed
<1>3. \A x \in HandleEndpointEvent(s, slot[s]) : Effect(s, slot[s], x) /\ Calm(slot[s], x)
  BY <1>2, HandleEndpointEventEffect
<1> QED BY <1>1, <1>3, AppliedEvent

\* The timer of a slot expires.
LEMMA SlotExpiresStep ==
  ASSUME SInv, Tame, setup' = setup, NEW s \in Slots, SlotExpires(s)
  PROVE  SInv'
<1>e. PICK effects : effects = HandleExpiry(s, [slot[s] EXCEPT !.timer = "none"])
  OBVIOUS
<1>1. stack = <<>> /\ Apply(s, effects, <<>>)
  BY <1>e DEF SlotExpires, Take
<1>2. SlotShape(slot[s]) /\ Wired(slot[s])
  BY DEF SInv, Typed
<1>3. \A x \in effects : Effect(s, slot[s], x) /\ Calm(slot[s], x)
  BY <1>e, <1>2, HandleExpiryEffect
<1> QED BY <1>1, <1>3, AppliedEvent

\* What a connection attempt that answered y makes of slot s.
Attempted(s, y, z) ==
    \/ y.status = "PENDING" /\ z = Does(y.slot, <<>>)
    \/ /\ y.status # "PENDING"
       /\ z \in HandleConnectFailure(s, y.slot, FALSE, y.status # "SSL_FAILURE")

\* A connection the loop opens on a slot that serves nobody.
LEMMA ConnectOutcome ==
  ASSUME NEW s, NEW r, SlotShape(r), Wired(r), r.client = None, r.key = None, ~r.reserved,
         r.leased, ~r.onconn, ~r.awaiting, NEW y \in WrapConnect(r), NEW z,
         Attempted(s, y, z)
  PROVE  /\ SlotShape(z.slot) /\ Wired(z.slot) /\ z.slot.gen = r.gen
         /\ ~z.slot.reserved /\ z.slot.client = None /\ z.slot.key = None
         /\ Dialling(z.slot) => z.slot.leased
         /\ CallsFrom(s, z.slot, z.calls)
         /\ ~z.unlinks /\ z.registers = None
<1>1. /\ Moves(r, y.slot) /\ ~y.slot.awaiting
      /\ y.status # "PENDING" => Kept(r, y.slot)
  BY WrapConnectMoves
<1>2. /\ SlotShape(y.slot) /\ Wired(y.slot) /\ Same(r, y.slot)
      /\ Kept(r, y.slot) \/ ~Dialling(y.slot)
  BY <1>1 DEF Moves
<1>3. /\ y.slot.gen = r.gen /\ ~y.slot.reserved /\ y.slot.client = None /\ y.slot.key = None
  BY <1>2 DEF Same
<1>4. CASE y.status = "PENDING" /\ z = Does(y.slot, <<>>)
  <2>1. z.slot = y.slot /\ z.calls = <<>> /\ ~z.unlinks /\ z.registers = None
    BY <1>4 DEF Does
  <2> QED BY <1>2, <1>3, <2>1 DEF Kept, CallsFrom
<1>5. CASE /\ y.status # "PENDING"
           /\ z \in HandleConnectFailure(s, y.slot, FALSE, y.status # "SSL_FAILURE")
  <2>1. Effect(s, y.slot, z) /\ ~z.unlinks /\ z.registers = None
    BY <1>1, <1>2, <1>5, HandleConnectFailureEffect
  <2>2. Kept(r, y.slot)
    BY <1>1, <1>5
  <2>3. /\ SlotShape(z.slot) /\ Wired(z.slot) /\ z.slot.gen = y.slot.gen
        /\ z.slot.reserved = y.slot.reserved
        /\ z.slot.client = y.slot.client /\ z.slot.key = y.slot.key
        /\ CallsFrom(s, z.slot, z.calls)
        /\ Kept(y.slot, z.slot) \/ ~Dialling(z.slot)
    BY <2>1 DEF Effect
  <2> QED BY <1>3, <2>1, <2>2, <2>3 DEF Kept
<1> QED BY <1>4, <1>5 DEF Attempted

\* ... is a step of the loop.
LEMMA ConnectStep ==
  ASSUME SInv, Tame, setup' = setup, stack = <<>>, NEW s \in Slots,
         slot[s].client = None,
         NEW r, SlotShape(r), Wired(r), r.client = None, r.key = None, ~r.reserved,
         r.leased, ~r.onconn, ~r.awaiting, slot[s].gen <= r.gen,
         NEW y \in WrapConnect(r), NEW z, Attempted(s, y, z),
         slot' = [slot EXCEPT ![s] = z.slot], stack' = z.calls \/ stack' = z.calls \o <<>>,
         reconnects' \subseteq reconnects \cup {Source(s, z.slot.gen)},
         client' = client, pending' = pending
  PROVE  SInv'
<1>q. PICK q : q = z.slot
  OBVIOUS
<1>1. /\ SlotShape(q) /\ Wired(q) /\ q.gen = r.gen
      /\ ~q.reserved /\ q.client = None /\ q.key = None
      /\ Dialling(q) => q.leased
      /\ CallsFrom(s, q, z.calls)
  <2>1. /\ SlotShape(z.slot) /\ Wired(z.slot) /\ z.slot.gen = r.gen
        /\ ~z.slot.reserved /\ z.slot.client = None /\ z.slot.key = None
        /\ Dialling(z.slot) => z.slot.leased
        /\ CallsFrom(s, z.slot, z.calls)
    BY ConnectOutcome
  <2> QED BY <1>q, <2>1
<1>2. CallsFrom(s, q, stack')
  <2>1. \E S : z.calls \in Seq(S)
    <3>1. CASE z.calls = <<>>
      <4>1. <<>> \in Seq({})
        OBVIOUS
      <4> QED BY <3>1, <4>1
    <3>2. CASE \E f : z.calls = <<f>>
      <4>1. PICK f : z.calls = <<f>>
        BY <3>2
      <4>2. z.calls \in Seq({f})
        BY <4>1
      <4> QED BY <4>2
    <3>3. z.calls = <<>> \/ \E f : z.calls = <<f>>
      BY <1>1 DEF CallsFrom
    <3> QED BY <3>1, <3>2, <3>3
  <2>2. z.calls \o <<>> = z.calls
    BY <2>1, ConcatEmptySeq
  <2> QED BY <1>1, <2>2
<1>3. Typed
  BY DEF SInv
<1>4. reconnects' \subseteq [on : Slots, gen : Nat]
  <2>1. Source(s, q.gen) \in [on : Slots, gen : Nat]
    BY <1>1 DEF SlotShape, Source
  <2> QED BY <1>q, <1>3, <2>1 DEF Typed
<1>5. /\ pending' \in [Coalesced -> [by : Slots \cup {None}, waiters : Seq(Tokens)]]
      /\ \A k \in Coalesced : /\ pending'[k].waiters = pending[k].waiters
                              /\ (pending'[k].by = None => pending[k].by = None)
  BY <1>3 DEF Typed
<1>6. slot' = [slot EXCEPT ![s] = q] /\ slot[s].gen <= q.gen /\ q.client = slot[s].client
  BY <1>q, <1>1
<1> QED BY <1>1, <1>2, <1>4, <1>5, <1>6, LoopStepInv

\* HandlePrewarm.
LEMMA PrewarmSlotStep ==
  ASSUME SInv, Tame, setup' = setup, NEW s \in Slots, PrewarmSlot(s)
  PROVE  SInv'
<1>r. PICK r : r = Lease(slot[s])
  OBVIOUS
<1>1. stack = <<>> /\ ~slot[s].leased
  BY DEF PrewarmSlot, FreeSlots
<1>2. /\ Typed /\ slot[s].client = None /\ slot[s].key = None /\ ~slot[s].reserved
      /\ ~Dialling(slot[s]) /\ SlotShape(slot[s]) /\ Wired(slot[s])
  <2>1. Typed /\ slot[s].client = None /\ slot[s].key = None /\ ~slot[s].reserved
        /\ ~Dialling(slot[s])
    BY <1>1, QuietFacts
  <2> QED BY <2>1 DEF Typed
<1>3. /\ SlotShape(r) /\ Wired(r) /\ r.client = None /\ r.key = None /\ ~r.reserved
      /\ r.leased /\ ~r.onconn /\ ~r.awaiting /\ slot[s].gen <= r.gen
  BY <1>r, <1>2 DEF Lease, SlotShape, SlotFields, Wired, Dialling, IsConnecting
<1>4. PICK y \in WrapConnect(r) :
        Apply(s, IF y.status = "PENDING" THEN {Does(y.slot, <<>>)}
                 ELSE HandleConnectFailure(s, y.slot, FALSE, y.status # "SSL_FAILURE"),
              <<>>)
  BY <1>r DEF PrewarmSlot
<1>e. PICK effects : effects = IF y.status = "PENDING" THEN {Does(y.slot, <<>>)}
                 ELSE HandleConnectFailure(s, y.slot, FALSE, y.status # "SSL_FAILURE")
  OBVIOUS
<1>5. PICK z \in effects :
        /\ slot' = [slot EXCEPT ![s] = z.slot]
        /\ stack' = z.calls \o <<>>
        /\ reconnects' = IF z.again THEN reconnects \cup {Source(s, z.slot.gen)}
                         ELSE reconnects
        /\ pending' = IF z.registers = None THEN pending
                      ELSE [pending EXCEPT ![z.registers].by = s]
        /\ client' = IF z.unlinks THEN [client EXCEPT ![slot[s].client].ep = None]
                     ELSE client
  BY <1>4, <1>e DEF Apply
<1>6. Attempted(s, y, z)
  BY <1>e DEF Attempted
<1>7. ~z.unlinks /\ z.registers = None
  BY <1>3, <1>6, ConnectOutcome
<1>8. /\ client' = client /\ pending' = pending
      /\ reconnects' \subseteq reconnects \cup {Source(s, z.slot.gen)}
  BY <1>5, <1>7
<1> QED BY <1>1, <1>2, <1>3, <1>5, <1>6, <1>8, ConnectStep

\* What is left to show for a step of the loop that touches no slot.
LEMMA LoopClientInv ==
  ASSUME SInv, Tame, setup' = setup, stack = <<>>, slot' = slot, pending' = pending,
         reconnects' \subseteq reconnects, KeepsBelow(0), stack' \in Seq(FrameType),
         DOMAIN client' = Clients, \A c \in Clients : ClientShape(client'[c]),
         Linked', WokenOnce', ParkedOnce', Closing', Pinned', PlacedFresh(0),
         \A p \in Fresh(0) : \/ Down'[p].op = "run" /\ p = Height'
                             \/ Down'[p].op \in {"unpin", "detach", "freeClient"}
  PROVE  SInv'
<1>1. Height = 0 /\ Depth = {} /\ Typed /\ None \notin Slots
  BY QuietFacts, SetsAssumption
<1>2. \A p \in 1 .. 0 : FALSE
  OBVIOUS
<1>3. Typed'
  BY <1>1, TypedStep DEF Typed
<1>4. SlotsKept(0)
  BY <1>2 DEF SlotsKept
<1>5. \A p \in Fresh(0) : Down'[p].op \notin SlotOps
  BY DEF SlotOps
<1>6. \A p, q \in Fresh(0) : ~(Down'[p].op = "run" /\ q > p)
  <2>1. \A q \in Fresh(0) : q <= Height' /\ q \in Int /\ Height' \in Nat
    BY DEF Fresh, KeepsBelow
  <2> QED BY <2>1
<1>7. DumbFresh(0)
  BY <1>1, <1>6 DEF DumbFresh
<1>8. TakenFresh(0)
  BY <1>2, <1>5 DEF TakenFresh
<1>9. ExpectedFresh(0)
  BY <1>1 DEF ExpectedFresh
<1>10. Placed' /\ NoNesting' /\ NotTaken' /\ Expected'
  BY <1>4, <1>7, <1>8, <1>9, PlacedStep, NoNestingStep, NotTakenStep, ExpectedStep DEF SInv
<1>11. Carried'
  BY <1>1, CarriedStep DEF SInv
<1> QED BY <1>3, <1>10, <1>11 DEF SInv

\* A step of the loop that changes nothing here.
LEMMA LoopIdles ==
  ASSUME SInv, Tame, setup' = setup, stack = <<>>, stack' = stack, slot' = slot,
         client' = client, pending' = pending, reconnects' \subseteq reconnects
  PROVE  SInv'
<1>1. Typed /\ Height = 0 /\ Depth = {}
  BY QuietFacts
<1>2. Height' = 0 /\ KeepsBelow(0) /\ Fresh(0) = {} /\ stack' \in Seq(FrameType) /\ Depth' = {}
  <2>1. Height' = 0
    BY DEF Height
  <2>2. stack' \in Seq(FrameType)
    BY <1>1 DEF Typed
  <2> QED BY <1>1, <2>1, <2>2 DEF KeepsBelow, Fresh, Depth
<1>3. DOMAIN client' = Clients /\ \A c \in Clients : ClientShape(client'[c])
  BY <1>1 DEF Typed
<1>4. Linked'
  BY DEF SInv, Linked
<1>5. WokenOnce' /\ Closing' /\ \A k : ~Erasing(k)'
  BY <1>2, EmptyStack
<1>6. ParkedOnce'
  <2>1. EntriesKept
    BY <1>2, EntriesSame
  <2>2. TokensKept(0)
    BY <1>2 DEF TokensKept
  <2> QED BY <1>2, <2>1, <2>2, TokensStep DEF SInv
<1>7. Pinned'
  <2>1. \A s \in Slots : slot[s].gen \in Nat
    BY <1>1 DEF Typed, SlotShape
  <2>2. PinsKept(0)
    BY <1>1, <1>2, <2>1 DEF PinsKept
  <2> QED BY <1>1, <1>2, <2>2, PinnedStep DEF SInv
<1>8. PlacedFresh(0)
  BY <1>2 DEF PlacedFresh
<1> QED BY <1>2, <1>3, <1>4, <1>5, <1>6, <1>7, <1>8, LoopClientInv

\* HandleReconnects.
LEMMA HandleReconnectsStep ==
  ASSUME SInv, Tame, setup' = setup, NEW x \in reconnects, HandleReconnects(x)
  PROVE  SInv'
<1>s. PICK s : s = x.on
  OBVIOUS
<1>0. stack = <<>> /\ Typed /\ s \in Slots
  BY <1>s DEF HandleReconnects, Take, SInv, Typed
<1>r. PICK r : r = [slot[s] EXCEPT !.awaiting = FALSE]
  OBVIOUS
<1>1. CASE ~slot[s].awaiting \/ slot[s].gen # x.gen
  <2>1. /\ reconnects' = reconnects \ {x}
        /\ slot' = slot /\ client' = client /\ pending' = pending /\ stack' = stack
    BY <1>s, <1>1 DEF HandleReconnects
  <2> QED BY <1>0, <2>1, LoopIdles
<1>2. CASE ~(~slot[s].awaiting \/ slot[s].gen # x.gen)
  <2>1. /\ slot[s].leased /\ slot[s].client = None /\ slot[s].key = None
        /\ ~slot[s].reserved /\ SlotShape(slot[s]) /\ Wired(slot[s]) /\ ~slot[s].onconn
        /\ slot[s].awaiting
    <3>1. slot[s].awaiting
      BY <1>2
    <3>2. SlotShape(slot[s]) /\ Wired(slot[s])
      BY <1>0 DEF Typed
    <3>3. slot[s].client = None /\ Dialling(slot[s])
      BY <1>0, <3>1, QuietFacts DEF Dialling
    <3> QED BY <1>0, <3>1, <3>2, <3>3, QuietFacts DEF Wired
  <2>2. /\ SlotShape(r) /\ Wired(r) /\ r.client = None /\ r.key = None /\ ~r.reserved
        /\ r.leased /\ ~r.onconn /\ ~r.awaiting /\ slot[s].gen <= r.gen
    BY <1>r, <2>1 DEF SlotShape, SlotFields, Wired
  <2>3. PICK y \in WrapConnect(r) :
          \E z \in IF y.status = "PENDING" THEN {Does(y.slot, <<>>)}
                   ELSE HandleConnectFailure(s, y.slot, FALSE, y.status # "SSL_FAILURE") :
            /\ slot' = [slot EXCEPT ![s] = z.slot]
            /\ stack' = z.calls
            /\ reconnects' = IF z.again THEN reconnects ELSE reconnects \ {x}
            /\ client' = client /\ pending' = pending
    BY <1>s, <1>r, <1>2 DEF HandleReconnects
  <2>e. PICK effects : effects = IF y.status = "PENDING" THEN {Does(y.slot, <<>>)}
                   ELSE HandleConnectFailure(s, y.slot, FALSE, y.status # "SSL_FAILURE")
    OBVIOUS
  <2>4. PICK z \in effects :
            /\ slot' = [slot EXCEPT ![s] = z.slot]
            /\ stack' = z.calls
            /\ reconnects' = IF z.again THEN reconnects ELSE reconnects \ {x}
            /\ client' = client /\ pending' = pending
    BY <2>3, <2>e
  <2>5. Attempted(s, y, z)
    BY <2>e DEF Attempted
  <2>6. reconnects' \subseteq reconnects \cup {Source(s, z.slot.gen)}
    BY <2>4
  <2> QED BY <1>0, <2>1, <2>2, <2>4, <2>5, <2>6, ConnectStep
<1> QED BY <1>1, <1>2

LEMMA StaleEventStep ==
  ASSUME SInv, Tame, setup' = setup, StaleEvent
  PROVE  SInv'
<1>1. stack = <<>> /\ stack' = stack /\ slot' = slot /\ client' = client
      /\ pending' = pending /\ reconnects' = reconnects
  BY DEF StaleEvent, Take
<1> QED BY <1>1, LoopIdles

\* GetClientConnection: nobody waits for the new generation of the client.
LEMMA ClientAcceptedStep ==
  ASSUME SInv, Tame, setup' = setup, NEW c \in Clients, ClientAccepted(c)
  PROVE  SInv'
<1>v. PICK v : v = [NoClient EXCEPT !.live = TRUE, !.gen = client[c].gen + 1]
  OBVIOUS
<1>1. /\ stack = <<>> /\ stack' = stack /\ slot' = slot /\ pending' = pending
      /\ reconnects' = reconnects /\ ~client[c].live /\ client' = [client EXCEPT ![c] = v]
  BY <1>v DEF ClientAccepted, Take
<1>2. Typed /\ Height = 0 /\ Depth = {} /\ \A k : ~Erasing(k)
  BY <1>1, QuietFacts
<1>3. /\ client[c].gen \in Nat /\ client[c].ep = None
      /\ ClientShape(v) /\ v.gen = client[c].gen + 1 /\ v.ep = None /\ v.pin.slot = None
  <2>1. client[c].gen \in Nat
    BY <1>2 DEF Typed, ClientShape
  <2>2. client[c].ep = None
    BY <1>1 DEF SInv, Linked
  <2> QED BY <1>v, <2>1, <2>2 DEF ClientShape, ClientFields, NoClient, NoPin, Pins
<1>4. /\ DOMAIN client' = Clients /\ \A d \in Clients : ClientShape(client'[d])
      /\ client'[c] = v /\ \A d \in Clients \ {c} : client'[d] = client[d]
  BY <1>1, <1>2, <1>3 DEF Typed
<1>5. Height' = 0 /\ KeepsBelow(0) /\ Fresh(0) = {} /\ stack' \in Seq(FrameType) /\ Depth' = {}
  <2>1. Height' = 0
    BY <1>1 DEF Height
  <2>2. stack' \in Seq(FrameType)
    BY <1>1, <1>2 DEF Typed
  <2> QED BY <1>2, <2>1, <2>2 DEF KeepsBelow, Fresh, Depth
<1>6. Linked'
  BY <1>1, <1>3, <1>4, SetsAssumption DEF SInv, Linked
<1>7. WokenOnce' /\ Closing' /\ \A k : ~Erasing(k)'
  BY <1>5, EmptyStack
<1>8. ParkedOnce'
  <2>1. ASSUME NEW k \in Coalesced
        PROVE  /\ Old(pending[k].waiters, c, client'[c].gen)
               /\ Once(pending[k].waiters, c, client'[c].gen)
               /\ ~Waits(pending[k].waiters, c, client'[c].gen)
    <3>1. pending[k].waiters \in Seq(Tokens)
      BY <1>2 DEF Typed
    <3>2. Old(pending[k].waiters, c, client[c].gen)
      BY DEF SInv, ParkedOnce
    <3> QED BY <1>3, <1>4, <3>1, <3>2, WaitsNext
  <2>2. \A k \in Coalesced, d \in Clients :
           /\ Old(pending'[k].waiters, d, client'[d].gen)
           /\ Once(pending'[k].waiters, d, client'[d].gen)
           /\ Parked(k, d)' => d # c /\ Parked(k, d)
    BY <1>1, <1>2, <1>4, <2>1 DEF SInv, ParkedOnce, Parked
  <2>3. Coalesced' = Coalesced
    BY SetupKept
  <2> QED BY <1>1, <1>2, <1>4, <1>5, <1>7, <2>2, <2>3 DEF SInv, ParkedOnce
<1>9. Pinned'
  <2>1. \A s \in Slots : slot[s].client # c /\ slot[s].gen \in Nat
    BY <1>2, <1>3, SetsAssumption DEF SInv, Linked, Typed, SlotShape
  <2>2. PinsKept(0)
    BY <1>1, <1>2, <1>3, <1>4, <1>5, <2>1 DEF PinsKept
  <2> QED BY <1>2, <1>5, <2>2, PinnedStep DEF SInv
<1>10. PlacedFresh(0)
  BY <1>5 DEF PlacedFresh
<1> QED BY <1>1, <1>4, <1>5, <1>6, <1>7, <1>8, <1>9, <1>10, LoopClientInv

\* A client that is not waiting is in no entry and served by no slot.
LEMMA IdleClient ==
  ASSUME SInv, stack = <<>>, NEW c \in Clients, client[c].co # "waits"
  PROVE  client[c].ep = None /\ \A k \in Coalesced : ~Parked(k, c)
<1>1. \A k : ~Erasing(k)
  BY QuietFacts
<1> QED BY <1>1 DEF SInv, Linked, ParkedOnce

\* A request starts the coroutine of its client.
LEMMA RequestArrivesStep ==
  ASSUME SInv, Tame, setup' = setup, NEW c \in Clients, RequestArrives(c)
  PROVE  SInv'
<1>f. PICK f : f = Frame("run", c, "ok")
  OBVIOUS
<1>1. /\ stack = <<>> /\ stack' = <<f>> /\ slot' = slot /\ pending' = pending
      /\ reconnects' = reconnects /\ client[c].live /\ client[c].co = "none"
      /\ client' = [client EXCEPT ![c].co = "runs"]
  BY <1>f DEF RequestArrives, Take
<1>2. Typed /\ Height = 0 /\ Depth = {} /\ \A k : ~Erasing(k)
  BY <1>1, QuietFacts
<1>3. client[c].ep = None /\ \A k \in Coalesced : ~Parked(k, c)
  BY <1>1, IdleClient
<1>4. f \in FrameType /\ f.op = "run" /\ f.on = c
  BY <1>f, FrameTypes DEF Frame
<1>5. /\ KeepsBelow(0) /\ stack' \in Seq(FrameType) /\ Fresh(0) = {1} /\ Height' = 1
      /\ Down'[1] = f
  BY <1>1, <1>4, Starts
<1>6. /\ DOMAIN client' = Clients /\ \A d \in Clients : ClientShape(client'[d])
      /\ \A d \in Clients \ {c} : client'[d] = client[d]
      /\ \A d \in Clients :
            /\ client'[d].gen = client[d].gen /\ client'[d].live = client[d].live
            /\ client'[d].ep = client[d].ep /\ client'[d].pin = client[d].pin
      /\ client'[c].co = "runs"
  BY <1>1, <1>2 DEF Typed, ClientShape, ClientFields
<1>7. Linked'
  <2>1. \A d \in Clients : client'[d].ep # None => d # c
    BY <1>3, <1>6
  <2> QED BY <1>1, <1>6, <2>1 DEF SInv, Linked
<1>8. \A p \in Fresh(0) : p = 1 /\ Down'[p] = f
  BY <1>5
<1>9. WokenOnce' /\ ParkedOnce'
  <2>1. EntriesKept /\ \A k : ~Erasing(k)'
    BY <1>1, <1>4, <1>5, <1>8, EntriesSame
  <2>2. Loose(0, c)
    <3>1. \A k \in Coalesced : Parked(k, c)' <=> Parked(k, c)
      BY <1>1, <1>6 DEF Parked
    <3>2. \A p \in 1 .. 0 : FALSE
      OBVIOUS
    <3> QED BY <1>3, <3>1, <3>2 DEF Loose
  <2>3. \A p \in Fresh(0), d \in Clients : Woken(p, d)' => p = 1 /\ d = c
    BY <1>4, <1>8 DEF Woken, Owes
  <2>4. \A p \in Fresh(0) : Down'[p].op = "run"
    BY <1>4, <1>8
  <2>5. client'[c].live /\ client'[c].ep = None
    BY <1>1, <1>3, <1>6
  <2>6. TokensKept(0)
    BY <1>6, <2>2, <2>3, <2>4, <2>5 DEF TokensKept
  <2> QED BY <1>5, <2>1, <2>6, TokensStep DEF SInv
<1>10. \A p \in Depth' : p = 1 /\ Down'[p] = f
  BY <1>5 DEF Depth
<1>11. Closing'
  BY <1>4, <1>10 DEF Closing
<1>12. Pinned'
  <2>1. \A s \in Slots : slot[s].gen \in Nat
    BY <1>2 DEF Typed, SlotShape
  <2>2. PinsKept(0)
    BY <1>1, <1>2, <1>4, <1>6, <1>8, <2>1 DEF PinsKept
  <2> QED BY <1>2, <1>5, <2>2, PinnedStep DEF SInv
<1>13. PlacedFresh(0)
  BY <1>4, <1>8 DEF PlacedFresh
<1>14. \A p \in Fresh(0) : Down'[p].op = "run" /\ p = Height'
  BY <1>4, <1>5, <1>8
<1> QED BY <1>1, <1>5, <1>6, <1>7, <1>9, <1>11, <1>12, <1>13, <1>14, LoopClientInv

\* ClientCtx::Clear between two requests.
LEMMA ResponseSentStep ==
  ASSUME SInv, Tame, setup' = setup, NEW c \in Clients, ResponseSent(c)
  PROVE  SInv'
<1>v. PICK v : v = [client[c] EXCEPT !.co = "none", !.async = FALSE, !.ep = None]
  OBVIOUS
<1>1. /\ stack = <<>> /\ stack' = stack /\ slot' = slot /\ pending' = pending
      /\ reconnects' = reconnects /\ client[c].co = "done"
      /\ client' = [client EXCEPT ![c].co = "none", ![c].async = FALSE, ![c].ep = None]
  BY DEF ResponseSent, Take
<1>2. Typed /\ Height = 0 /\ Depth = {} /\ \A k : ~Erasing(k)
  BY <1>1, QuietFacts
<1>3. client[c].ep = None /\ \A k \in Coalesced : ~Parked(k, c)
  BY <1>1, IdleClient
<1>4. /\ ClientShape(v) /\ v.gen = client[c].gen /\ v.live = client[c].live /\ v.ep = None
      /\ v.pin = client[c].pin
  BY <1>v, <1>2 DEF Typed, ClientShape, ClientFields
<1>5. /\ DOMAIN client' = Clients /\ client'[c] = v
      /\ \A d \in Clients \ {c} : client'[d] = client[d]
  BY <1>v, <1>1, <1>2 DEF Typed, ClientShape, ClientFields
<1>6. /\ \A d \in Clients : ClientShape(client'[d])
      /\ \A d \in Clients :
            /\ client'[d].gen = client[d].gen /\ client'[d].live = client[d].live
            /\ client'[d].ep = client[d].ep /\ client'[d].pin = client[d].pin
  BY <1>2, <1>3, <1>4, <1>5 DEF Typed
<1>7. Height' = 0 /\ KeepsBelow(0) /\ Fresh(0) = {} /\ stack' \in Seq(FrameType) /\ Depth' = {}
  <2>1. Height' = 0
    BY <1>1 DEF Height
  <2>2. stack' \in Seq(FrameType)
    BY <1>1, <1>2 DEF Typed
  <2> QED BY <1>2, <2>1, <2>2 DEF KeepsBelow, Fresh, Depth
<1>8. Linked'
  <2>1. \A d \in Clients : client'[d].ep # None => d # c
    BY <1>3, <1>6
  <2> QED BY <1>1, <1>5, <1>6, <2>1 DEF SInv, Linked
<1>9. WokenOnce' /\ Closing' /\ \A k : ~Erasing(k)'
  BY <1>7, EmptyStack
<1>10. ParkedOnce'
  <2>1. EntriesKept
    BY <1>1, <1>7, EntriesSame
  <2>2. Loose(0, c)
    <3>1. \A k \in Coalesced : Parked(k, c)' <=> Parked(k, c)
      BY <1>1, <1>6 DEF Parked
    <3>2. \A p \in 1 .. 0 : FALSE
      OBVIOUS
    <3> QED BY <1>3, <3>1, <3>2 DEF Loose
  <2>3. TokensKept(0)
    BY <1>5, <1>6, <1>7, <2>2 DEF TokensKept
  <2> QED BY <1>7, <2>1, <2>3, TokensStep DEF SInv
<1>11. Pinned'
  <2>1. \A s \in Slots : slot[s].gen \in Nat
    BY <1>2 DEF Typed, SlotShape
  <2>2. /\ \A p \in Fresh(0) : Down'[p].op # "unpin"
        /\ \A d \in Clients : client'[d].pin = client[d].pin
        /\ Height = 0 /\ slot' = slot
    BY <1>1, <1>2, <1>6, <1>7
  <2>3. PinsKept(0)
    BY <2>1, <2>2 DEF PinsKept
  <2> QED BY <1>2, <1>7, <2>3, PinnedStep DEF SInv
<1>12. PlacedFresh(0)
  BY <1>7 DEF PlacedFresh
<1> QED BY <1>1, <1>5, <1>6, <1>7, <1>8, <1>9, <1>10, <1>11, <1>12, LoopClientInv

\* ReleaseClient: its handle first, then its request, then its slot in the table.
LEMMA ClientClosesStep ==
  ASSUME SInv, Tame, setup' = setup, NEW c \in Clients, ClientCloses(c)
  PROVE  SInv'
<1>x. PICK x : x = client[c].pin
  OBVIOUS
<1>e. PICK e : e = Frame("unpin", c, x)
  OBVIOUS
<1>f. PICK f : f = Frame("detach", c, None)
  OBVIOUS
<1>g. PICK g : g = Frame("freeClient", c, None)
  OBVIOUS
<1>1. /\ stack = <<>> /\ stack' = <<e, f, g>> /\ slot' = slot /\ pending' = pending
      /\ reconnects' = reconnects
      /\ client' = [client EXCEPT ![c].async = FALSE, ![c].pin = NoPin]
  BY <1>x, <1>e, <1>f, <1>g DEF ClientCloses, Take
<1>2. Typed /\ Height = 0 /\ Depth = {} /\ \A k : ~Erasing(k)
  BY <1>1, QuietFacts
<1>3. x \in Pins
  BY <1>x, <1>2 DEF Typed, ClientShape
<1>4. /\ e \in FrameType /\ e.op = "unpin" /\ e.arg = x
      /\ f \in FrameType /\ f.op = "detach" /\ f.on = c
      /\ g \in FrameType /\ g.op = "freeClient" /\ g.on = c
  BY <1>e, <1>f, <1>g, <1>3, FrameTypes DEF Frame
<1>5. /\ KeepsBelow(0) /\ stack' \in Seq(FrameType) /\ Fresh(0) = {1, 2, 3} /\ Height' = 3
      /\ Down'[1] = g /\ Down'[2] = f /\ Down'[3] = e
  BY <1>1, <1>4, Starts
<1>6. \A p \in Fresh(0) : \/ p = 1 /\ Down'[p] = g
                          \/ p = 2 /\ Down'[p] = f
                          \/ p = 3 /\ Down'[p] = e
  BY <1>5
<1>7. /\ DOMAIN client' = Clients /\ \A d \in Clients : ClientShape(client'[d])
      /\ \A d \in Clients \ {c} : client'[d] = client[d]
      /\ \A d \in Clients :
            /\ client'[d].gen = client[d].gen /\ client'[d].live = client[d].live
            /\ client'[d].ep = client[d].ep /\ client'[d].co = client[d].co
      /\ client'[c].pin = NoPin /\ ~client'[c].async
  <2>1. NoPin \in Pins
    BY DEF NoPin, Pins
  <2> QED BY <1>1, <1>2, <2>1 DEF Typed, ClientShape, ClientFields
<1>8. Linked'
  BY <1>1, <1>7 DEF SInv, Linked
<1>9. WokenOnce' /\ ParkedOnce'
  <2>1. \A p \in Fresh(0) : Down'[p].op \in {"unpin", "detach", "freeClient"}
    BY <1>4, <1>6
  <2>2. EntriesKept
    BY <1>1, <1>5, <2>1, EntriesSame
  <2>3. \A p \in Fresh(0), d \in Clients : ~Woken(p, d)'
    BY <2>1 DEF Woken, Owes
  <2>4. TokensKept(0)
    BY <1>7, <2>1, <2>3 DEF TokensKept
  <2> QED BY <1>5, <2>2, <2>4, TokensStep DEF SInv
<1>10. \A p \in Depth' : p \in Fresh(0)
  BY <1>5 DEF Depth, Fresh
<1>11. Closing'
  <2>1. \A p \in Depth' : Down'[p].op # "run" /\ (Down'[p].op = "freeClient" => Down'[p].on = c)
    BY <1>4, <1>6, <1>10
  <2>2. Height' > 1 /\ Down'[2].op = "detach"
    BY <1>4, <1>5
  <2> QED BY <1>7, <2>1, <2>2 DEF Closing
<1>12. Pinned'
  <2>0. Pinning' = Pinning
    BY SetupKept
  <2>1. \A p \in Depth' : Down'[p].op = "unpin" => p = 3 /\ Down'[p].arg = x
    BY <1>4, <1>6, <1>10
  <2>2. 3 \in Depth' /\ Down'[3].op = "unpin" /\ Down'[3].arg = x
    BY <1>4, <1>5 DEF Depth
  <2>3. \A d \in Clients : client'[d].pin.slot # None => d # c /\ client'[d].pin = client[d].pin
    BY <1>7 DEF NoPin
  <2>4. ASSUME NEW d \in Clients, client'[d].pin.slot # None
        PROVE  /\ client'[d].pin.gen <= slot'[client'[d].pin.slot].gen
               /\ \A d2 \in Clients : client'[d2].pin = client'[d].pin => d2 = d
               /\ \A p \in Depth' : Down'[p].op = "unpin" => Down'[p].arg # client'[d].pin
    <3>1. d # c /\ client'[d].pin = client[d].pin
      BY <2>3, <2>4
    <3>2. /\ client[d].pin.gen <= slot[client[d].pin.slot].gen
          /\ \A d2 \in Clients : client[d2].pin = client[d].pin => d2 = d
      BY <2>4, <3>1 DEF SInv, Pinned
    <3>3. x # client[d].pin
      BY <1>x, <3>1, <3>2
    <3>4. \A d2 \in Clients : client'[d2].pin = client'[d].pin => client'[d2].pin = client[d2].pin
      BY <2>3, <2>4
    <3> QED BY <1>1, <2>1, <3>1, <3>2, <3>3, <3>4
  <2>5. \A p \in Depth' : Down'[p].op = "unpin" /\ Down'[p].arg.slot # None =>
           Down'[p].arg.gen <= slot'[Down'[p].arg.slot].gen
    BY <1>x, <1>1, <2>1 DEF SInv, Pinned
  <2>6. ASSUME NEW s \in Slots, NEW d \in Clients, slot'[s].client = d, slot'[s].reserved
        PROVE  \/ client'[d].pin = [slot |-> s, gen |-> slot'[s].gen]
               \/ \E p \in Depth' : /\ Down'[p].op = "unpin"
                                    /\ Down'[p].arg = [slot |-> s, gen |-> slot'[s].gen]
    <3>1. client[d].pin = [slot |-> s, gen |-> slot[s].gen]
      BY <1>1, <1>2, <2>6 DEF SInv, Pinned
    <3>2. CASE d = c
      BY <1>x, <1>1, <2>2, <3>1, <3>2
    <3>3. CASE d # c
      BY <1>1, <1>7, <3>1, <3>3
    <3> QED BY <3>2, <3>3
  <2>7. \A s \in Slots : slot'[s].reserved => Pinning'
    BY <1>1, <2>0 DEF SInv, Pinned
  <2> QED BY <2>4, <2>5, <2>6, <2>7 DEF Pinned
<1>13. PlacedFresh(0)
  BY <1>4, <1>5, <1>6 DEF PlacedFresh
<1>14. \A p \in Fresh(0) : Down'[p].op \in {"unpin", "detach", "freeClient"}
  BY <1>4, <1>6
<1> QED BY <1>1, <1>5, <1>7, <1>8, <1>9, <1>11, <1>12, <1>13, <1>14, LoopClientInv

-------------------------------------------------------------------------------
(* The theorems.                                                             *)

LEMMA InitInv ==
  ASSUME Init
  PROVE  SInv
<1>1. /\ slot = [s \in Slots |-> Closed] /\ pending = [k \in Coalesced |-> NoEntry]
      /\ client = [c \in Clients |-> [NoClient EXCEPT !.live = TRUE, !.gen = 1]]
      /\ stack = <<>> /\ reconnects = {}
  BY DEF Init
<1>2. Height = 0 /\ Depth = {}
  BY <1>1 DEF Height, Depth
<1>v. PICK v : v = [NoClient EXCEPT !.live = TRUE, !.gen = 1]
  OBVIOUS
<1>3. ClientShape(v) /\ v.ep = None /\ v.pin.slot = None
  BY <1>v DEF ClientShape, ClientFields, NoClient, NoPin, Pins
<1>4. DOMAIN client = Clients /\ \A c \in Clients : client[c] = v
  BY <1>v, <1>1
<1>5. /\ SlotShape(Closed) /\ Wired(Closed) /\ ~Dialling(Closed) /\ Closed.client = None
      /\ ~Closed.leased /\ ~Closed.reserved /\ Closed.key = None /\ ~Closed.awaiting
  BY DEF Closed, SlotShape, SlotFields, Wired, Dialling, IsConnecting
<1>6. DOMAIN slot = Slots /\ \A s \in Slots : slot[s] = Closed
  BY <1>1
<1>7. \A k \in Coalesced : pending[k].waiters = <<>> /\ pending[k].by = None
  BY <1>1 DEF NoEntry
<1>8. Typed
  <2>1. pending \in [Coalesced -> [by : Slots \cup {None}, waiters : Seq(Tokens)]]
    <3>1. NoEntry \in [by : Slots \cup {None}, waiters : Seq(Tokens)]
      BY DEF NoEntry
    <3> QED BY <1>1, <3>1
  <2>2. stack \in Seq(FrameType) /\ reconnects \subseteq [on : Slots, gen : Nat]
    BY <1>1
  <2>3. \A s \in Slots : SlotShape(slot[s]) /\ Wired(slot[s])
    BY <1>5, <1>6
  <2>4. \A c \in Clients : ClientShape(client[c])
    BY <1>3, <1>4
  <2> QED BY <1>4, <1>6, <2>1, <2>2, <2>3, <2>4 DEF Typed
<1>9. Linked
  BY <1>3, <1>4, <1>5, <1>6, SetsAssumption DEF Linked
<1>10. \A k : ~Erasing(k)
  BY <1>2 DEF Erasing
<1>11. ParkedOnce
  <2>1. \A k \in Coalesced : \A c, g :
           /\ Old(pending[k].waiters, c, g)
           /\ Once(pending[k].waiters, c, g)
           /\ ~Waits(pending[k].waiters, c, g)
    BY <1>7, WaitsEmpty
  <2>2. \A k \in Coalesced, c \in Clients : ~Parked(k, c)
    BY <2>1 DEF Parked
  <2> QED BY <1>7, <2>1, <2>2 DEF ParkedOnce
<1>12. WokenOnce /\ Closing /\ Placed /\ NoNesting /\ NotTaken /\ Expected
  BY <1>2 DEF WokenOnce, Closing, Placed, NoNesting, NotTaken, Expected
<1>13. Carried
  BY <1>5, <1>6 DEF Carried
<1>14. Pinned
  BY <1>2, <1>3, <1>4, <1>5, <1>6 DEF Pinned
<1> QED BY <1>8, <1>9, <1>11, <1>12, <1>13, <1>14 DEF SInv

\* Nothing changes.
LEMMA SInvSame ==
  ASSUME SInv, slot' = slot, client' = client, pending' = pending, reconnects' = reconnects,
         stack' = stack, setup' = setup
  PROVE  SInv'
<1>0. /\ Coalesced' = Coalesced /\ Reqs' = Reqs /\ Retries' = Retries /\ Pinning' = Pinning
      /\ Down' = Down /\ Height' = Height /\ Depth' = Depth
  BY SetupKept DEF Down, Height, Depth
<1>1. Typed'
  BY TypedStep DEF SInv, Typed
<1>2. Linked'
  BY DEF SInv, Linked
<1>3. /\ \A p, c : Woken(p, c)' <=> Woken(p, c)
      /\ \A k, c : Parked(k, c)' <=> Parked(k, c)
      /\ \A k : Erasing(k)' <=> Erasing(k)
      /\ \A s : Ending(s)' <=> Ending(s)
  BY <1>0 DEF Woken, Parked, Erasing, Ending
<1>4. WokenOnce'
  BY <1>0, <1>3 DEF SInv, WokenOnce
<1>5. ParkedOnce'
  BY <1>0, <1>3 DEF SInv, ParkedOnce
<1>6. Closing' /\ Placed'
  BY <1>0 DEF SInv, Closing, Placed
<1>7. \A f : (Mute(f)' <=> Mute(f)) /\ (Dumb(f)' <=> Dumb(f))
  BY <1>0 DEF Mute, Dumb
<1>8. /\ \A p : (Mute(Down[p])' <=> Mute(Down[p])) /\ (Dumb(Down[p])' <=> Dumb(Down[p]))
      /\ \A p : DumbAbove(p)' <=> DumbAbove(p)
  BY <1>0 DEF Mute, Dumb, DumbAbove
<1>9. NoNesting' /\ NotTaken'
  BY <1>0, <1>8 DEF SInv, NoNesting, NotTaken
<1>10. Expected' /\ Carried'
  BY <1>0, <1>3 DEF SInv, Expected, Carried, Dialling, IsConnecting
<1>11. Pinned'
  BY <1>0 DEF SInv, Pinned
<1> QED BY <1>1, <1>2, <1>4, <1>5, <1>6, <1>9, <1>10, <1>11 DEF SInv

\* One step of the system.
LEMMA NextInv ==
  ASSUME SInv, Tame, [Next]_<<vars, setup>>
  PROVE  SInv'
<1>1. CASE UNCHANGED <<vars, setup>>
  <2>1. /\ slot' = slot /\ client' = client /\ pending' = pending /\ reconnects' = reconnects
        /\ stack' = stack /\ setup' = setup
    BY <1>1 DEF vars
  <2> QED BY <2>1, SInvSame
<1>2. CASE Next
  <2>1. setup' = setup
    BY <1>2 DEF Next
  <2>2. CASE LoopStep
    <3>1. \A s \in Slots : PrewarmSlot(s) => SInv'
      BY <2>1, PrewarmSlotStep
    <3>2. \A s \in Slots : EndpointEvent(s) => SInv'
      BY <2>1, EndpointEventStep
    <3>3. StaleEvent => SInv'
      BY <2>1, StaleEventStep
    <3>4. \A s \in Slots : SlotExpires(s) => SInv'
      BY <2>1, SlotExpiresStep
    <3>5. \A x \in reconnects : HandleReconnects(x) => SInv'
      BY <2>1, HandleReconnectsStep
    <3>6. \A c \in Clients : ClientAccepted(c) => SInv'
      BY <2>1, ClientAcceptedStep
    <3>7. \A c \in Clients : RequestArrives(c) => SInv'
      BY <2>1, RequestArrivesStep
    <3>8. \A c \in Clients : ResponseSent(c) => SInv'
      BY <2>1, ResponseSentStep
    <3>9. \A c \in Clients : ClientCloses(c) => SInv'
      BY <2>1, ClientClosesStep
    <3> QED BY <2>2, <3>1, <3>2, <3>3, <3>4, <3>5, <3>6, <3>7, <3>8, <3>9 DEF LoopStep
  <2>3. CASE HandlerStep
    <3>1. Detach => SInv'
      BY <2>1, DetachStep
    <3>2. FreeClient => SInv'
      BY <2>1, FreeClientStep
    <3>3. ReleaseSlot => SInv'
      BY <2>1, ReleaseSlotStep
    <3>4. Resume => SInv'
      BY <2>1, ResumeStep
    <3>5. Waiters => SInv'
      BY <2>1, WaitersStep
    <3>6. Complete => SInv'
      BY <2>1, CompleteStep
    <3>7. Finish => SInv'
      BY <2>1, FinishStep
    <3>8. ParseError => SInv'
      BY <2>1, ParseErrorStep
    <3>9. CloseSlot => SInv'
      BY <2>1, CloseSlotStep
    <3>10. ReleaseEndpoint => SInv'
      BY <2>1, ReleaseEndpointStep
    <3>11. EraseEntry => SInv'
      BY <2>1, EraseEntryStep
    <3>12. NotifyClient => SInv'
      BY <2>1, NotifyClientStep
    <3>13. FreeSlot => SInv'
      BY <2>1, FreeSlotStep
    <3> QED BY <2>3, <3>1, <3>2, <3>3, <3>4, <3>5, <3>6, <3>7, <3>8, <3>9, <3>10, <3>11,
               <3>12, <3>13 DEF HandlerStep
  <2>4. ASSUME NEW c \in Clients, CoroutineStep(c)
        PROVE  SInv'
    <3>1. SendRefused(c) => SInv'
      BY <2>1, SendRefusedStep
    <3>2. \A req \in Reqs : SendCoalesced(c, req) => SInv'
      BY <2>1, SendCoalescedStep
    <3>3. \A req \in Reqs, s \in Slots : Send(c, req, s) => SInv'
      BY <2>1, SendStep
    <3>4. \A s \in Slots : SendUnserializable(c, s) => SInv'
      BY <2>1, SendUnserializableStep
    <3>5. \A s \in Slots : ReserveSlot(c, s) => SInv'
      BY <2>1, ReserveSlotStep
    <3>6. Unpins(c) => SInv'
      BY <2>1, UnpinsStep
    <3>7. Returns(c) => SInv'
      BY <2>1, ReturnsStep
    <3> QED BY <2>4, <3>1, <3>2, <3>3, <3>4, <3>5, <3>6, <3>7 DEF CoroutineStep
  <2> QED BY <1>2, <2>2, <2>3, <2>4 DEF Next
<1> QED BY <1>1, <1>2

\* The invariant holds of every endpoint whose handlers do not call again after a
\* failure while they hold a reservation.
LEMMA InvHolds == Spec => [](Tame => SInv)
<1>1. Init => (Tame => SInv)
  BY InitInv
<1>2. (Tame => SInv) /\ [Next]_<<vars, setup>> => (Tame => SInv)'
  <2> SUFFICES ASSUME Tame => SInv, [Next]_<<vars, setup>>, Tame'
               PROVE  SInv'
    OBVIOUS
  <2>1. setup' = setup
    BY DEF Next, vars
  <2>2. Tame
    BY <2>1, SetupKept DEF Tame
  <2> QED BY <2>2, NextInv
<1> QED BY <1>1, <1>2, PTL DEF Spec

\* A slot and the client it serves point at each other, and the client waits:
\* SendPayload links them, and every path that completes, fails, aborts or
\* releases a request (CompleteSingleSlotRequest, FailSlotOnParseError,
\* ReleaseEndpoint, ReleaseClient, FlushDeferredRequest) unlinks both before the
\* coroutine runs again.
THEOREM LinksHold == Spec => [](Tame => LinksAgree)
<1>1. (Tame => SInv) => (Tame => LinksAgree)
  BY SetsAssumption DEF SInv, Linked, LinksAgree
<1> QED BY <1>1, InvHolds, PTL

-------------------------------------------------------------------------------
(* Reservations, and the frames asyncData points into.                       *)

\* A reservation is in one hand: a client's, or that of the handler about to drop it.
LEMMA PinnedExclusive ==
  ASSUME SInv
  PROVE  PinIsExclusive
<1> SUFFICES ASSUME NEW c \in Clients, NEW d \in Clients, c # d, HandleValid(client[c].pin)
             PROVE  /\ client[d].ep # client[c].pin.slot
                    /\ HandleValid(client[d].pin) => client[d].pin.slot # client[c].pin.slot
  BY DEF PinIsExclusive
<1>x. PICK x : x = client[c].pin
  OBVIOUS
<1>1. x \in Pins /\ x.slot \in Slots /\ slot[x.slot].gen = x.gen /\ slot[x.slot].reserved
  BY <1>x DEF SInv, Typed, ClientShape, HandleValid, Pins
<1>2. /\ \A e \in Clients : client[e].pin = x => e = c
      /\ \A p \in Depth : Down[p].op = "unpin" => Down[p].arg # x
  BY <1>x, <1>1, SetsAssumption DEF SInv, Pinned
<1>3. x = [slot |-> x.slot, gen |-> slot[x.slot].gen]
  BY <1>1 DEF Pins
<1>4. client[d].ep # x.slot
  <2>1. SUFFICES ASSUME client[d].ep = x.slot PROVE FALSE
    OBVIOUS
  <2>2. slot[x.slot].client = d
    BY <1>1, <2>1 DEF SInv, Linked
  <2> QED BY <1>1, <1>2, <1>3, <2>2 DEF SInv, Pinned
<1>5. HandleValid(client[d].pin) => client[d].pin.slot # x.slot
  <2>1. SUFFICES ASSUME HandleValid(client[d].pin), client[d].pin.slot = x.slot PROVE FALSE
    OBVIOUS
  <2>2. client[d].pin \in Pins
    BY DEF SInv, Typed, ClientShape
  <2>3. client[d].pin.gen = x.gen
    BY <1>1, <2>1 DEF HandleValid
  <2>4. client[d].pin = x
    BY <1>1, <2>1, <2>2, <2>3 DEF Pins
  <2> QED BY <1>2, <2>4
<1> QED BY <1>x, <1>4, <1>5

\* Sends do not fail before the coroutine is suspended.
Suspends == ~Local /\ Connects = {"progress"}
\* asyncData is set while the coroutine is suspended, and at no other time.
AsyncWaits == Suspends => \A c \in Clients : client[c].async => client[c].co = "waits"

\* A request that is sent suspends the coroutine.
LEMMA DispatchPending ==
  ASSUME Suspends, NEW r, NEW x \in Dispatch(r)
  PROVE  x.status = "PENDING"
<1>1. CASE r.alive
  BY <1>1 DEF Dispatch, Suspends
<1>2. CASE ~r.alive
  <2>1. x \in WrapConnect(r)
    BY <1>2 DEF Dispatch
  <2>2. x = Dialled(EnterState([r EXCEPT !.tried = @ + 1], "CONNECT"))
    BY <2>1 DEF WrapConnect, Suspends
  <2> QED BY <2>2 DEF Dialled
<1> QED BY <1>1, <1>2

LEMMA LinkOnly ==
  ASSUME Typed, NEW x, client' = [client EXCEPT ![x].ep = None]
  PROVE  \A d \in Clients : client'[d].async = client[d].async /\ client'[d].co = client[d].co
  BY DEF Typed, ClientShape, ClientFields

\* A client runs a coroutine, is suspended, or gets a new record.
Suspended(d) ==
    \/ client'[d].async = client[d].async /\ client'[d].co = client[d].co
    \/ ~client'[d].async
    \/ client'[d].co = "waits"

LEMMA LoopSuspends ==
  ASSUME SInv, Tame, setup' = setup, AsyncWaits, Suspends, LoopStep, NEW d \in Clients
  PROVE  Suspended(d)
<1>0. Typed /\ DOMAIN client = Clients /\ ClientShape(client[d])
  BY DEF SInv, Typed
<1>1. ASSUME NEW s, NEW effects, NEW rest, Apply(s, effects, rest)
      PROVE  Suspended(d)
  <2>1. client' = client \/ \E x : client' = [client EXCEPT ![x].ep = None]
    BY <1>1 DEF Apply
  <2> QED BY <1>0, <2>1, LinkOnly DEF Suspended
<1>2. ASSUME NEW s \in Slots, PrewarmSlot(s) \/ EndpointEvent(s) \/ SlotExpires(s)
      PROVE  Suspended(d)
  <2>1. \E effects : Apply(s, effects, <<>>)
    BY <1>2 DEF PrewarmSlot, EndpointEvent, SlotExpires
  <2> QED BY <1>1, <2>1
<1>3. ASSUME StaleEvent \/ \E x \in reconnects : HandleReconnects(x)
      PROVE  Suspended(d)
  BY <1>3 DEF StaleEvent, HandleReconnects, Suspended
<1>4. ASSUME NEW c \in Clients, ClientAccepted(c)
      PROVE  Suspended(d)
  BY <1>0, <1>4 DEF ClientAccepted, NoClient, Suspended
<1>5. ASSUME NEW c \in Clients, RequestArrives(c)
      PROVE  Suspended(d)
  <2>1. client[c].co = "none" /\ client' = [client EXCEPT ![c].co = "runs"]
    BY <1>5 DEF RequestArrives
  <2>2. ~client[c].async
    BY <2>1 DEF AsyncWaits
  <2> QED BY <1>0, <2>1, <2>2 DEF Suspended, ClientShape, ClientFields
<1>6. ASSUME NEW c \in Clients, ResponseSent(c) \/ ClientCloses(c)
      PROVE  Suspended(d)
  BY <1>0, <1>6 DEF ResponseSent, ClientCloses, Suspended, ClientShape, ClientFields
<1> QED BY <1>2, <1>3, <1>4, <1>5, <1>6 DEF LoopStep

LEMMA HandlerSuspends ==
  ASSUME SInv, Tame, setup' = setup, AsyncWaits, Suspends, HandlerStep, NEW d \in Clients
  PROVE  Suspended(d)
<1>0. Typed /\ DOMAIN client = Clients /\ ClientShape(client[d])
  BY DEF SInv, Typed
<1>1. CASE ReleaseSlot \/ ReleaseEndpoint \/ EraseEntry \/ FreeSlot
  <2>1. client' = client
    BY <1>1, Zenon DEF ReleaseSlot, ReleaseEndpoint, EraseEntry, FreeSlot
  <2> QED BY <2>1 DEF Suspended
<1>2. CASE Detach \/ Waiters \/ Complete \/ ParseError \/ NotifyClient
  <2>1. client' = client \/ \E x : client' = [client EXCEPT ![x].ep = None]
    BY <1>2, Zenon DEF Detach, Waiters, Complete, ParseError, NotifyClient
  <2> QED BY <1>0, <2>1, LinkOnly DEF Suspended
<1>3. CASE Finish \/ CloseSlot
  <2>1. client' = client \/ \E x : client' = [client EXCEPT ![x].ep = None]
    BY <1>3, Zenon DEF Finish, CloseSlot, Apply
  <2> QED BY <1>0, <2>1, LinkOnly DEF Suspended
<1>4. CASE FreeClient
  <2>1. PICK c : client' = [client EXCEPT ![c] = [NoClient EXCEPT !.gen = client[c].gen + 1]]
    BY <1>4 DEF FreeClient
  <2> QED BY <1>0, <2>1 DEF NoClient, Suspended
<1>5. CASE Resume
  <2>1. PICK c : \/ client' = client
                 \/ client' = [client EXCEPT ![c].async = FALSE, ![c].co = "runs"]
    BY <1>5 DEF Resume
  <2> QED BY <1>0, <2>1 DEF Suspended, ClientShape, ClientFields
<1> QED BY <1>1, <1>2, <1>3, <1>4, <1>5 DEF HandlerStep

LEMMA CoroutineSuspends ==
  ASSUME SInv, Tame, setup' = setup, AsyncWaits, Suspends, NEW c \in Clients, CoroutineStep(c),
         NEW d \in Clients
  PROVE  Suspended(d)
<1>0. Typed /\ DOMAIN client = Clients /\ ClientShape(client[d]) /\ ClientShape(client[c])
  BY DEF SInv, Typed
<1>1. CASE SendRefused(c) \/ \E s \in Slots : SendUnserializable(c, s)
  BY <1>1 DEF SendRefused, SendUnserializable, Suspended
<1>2. CASE \E s \in Slots : ReserveSlot(c, s)
  <2>1. PICK v : client' = [client EXCEPT ![c].pin = v]
    BY <1>2 DEF ReserveSlot
  <2> QED BY <1>0, <2>1 DEF Suspended, ClientShape, ClientFields
<1>3. CASE Unpins(c)
  <2>1. client' = [client EXCEPT ![c].pin = NoPin]
    BY <1>3 DEF Unpins
  <2> QED BY <1>0, <2>1 DEF Suspended, ClientShape, ClientFields
<1>4. CASE Returns(c)
  <2>1. client' = [client EXCEPT ![c].co = "done"] /\ client[c].co = "runs"
    BY <1>4, RunsFacts DEF Returns
  <2>2. ~client[c].async
    BY <2>1 DEF AsyncWaits
  <2> QED BY <1>0, <2>1, <2>2 DEF Suspended, ClientShape, ClientFields
<1>5. CASE \E req \in Reqs : SendCoalesced(c, req)
  <2>1. PICK req : client' = [client EXCEPT ![c].async = TRUE, ![c].co = "waits", ![c].req = req]
    BY <1>5 DEF SendCoalesced
  <2> QED BY <1>0, <2>1 DEF Suspended, ClientShape, ClientFields
<1>6. CASE \E req \in Reqs, s \in Slots : Send(c, req, s)
  <2>1. PICK req \in Reqs, s \in Slots : Send(c, req, s)
    BY <1>6
  <2>2. PICK r, key : SendOn(c, req, s, r, key)
    BY <2>1 DEF Send
  <2>t. PICK to : to = [client[c] EXCEPT !.async = TRUE, !.req = req]
    OBVIOUS
  <2>q. PICK q : \E x \in Dispatch(q) : x.status = "PENDING" =>
                    client' = [client EXCEPT ![c] = [to EXCEPT !.ep = s, !.co = "waits"]]
    BY <2>2, <2>t DEF SendOn
  <2>3. PICK x \in Dispatch(q) : x.status = "PENDING" =>
           client' = [client EXCEPT ![c] = [to EXCEPT !.ep = s, !.co = "waits"]]
    BY <2>q
  <2>4. x.status = "PENDING"
    BY DispatchPending
  <2>u. PICK u : u = [to EXCEPT !.ep = s, !.co = "waits"]
    OBVIOUS
  <2>5. u.co = "waits"
    BY <1>0, <2>t, <2>u DEF ClientShape, ClientFields
  <2>6. client' = [client EXCEPT ![c] = u]
    BY <2>3, <2>4, <2>u
  <2> QED BY <1>0, <2>5, <2>6 DEF Suspended
<1> QED BY <1>1, <1>2, <1>3, <1>4, <1>5, <1>6 DEF CoroutineStep

LEMMA AsyncWaitsHolds == Spec => [](Tame => AsyncWaits)
<1>1. Init => (Tame => AsyncWaits)
  <2>1. Init => \A c \in Clients : ~client[c].async
    BY DEF Init, NoClient
  <2> QED BY <2>1 DEF AsyncWaits
<1>2. (Tame => SInv) /\ (Tame => AsyncWaits) /\ [Next]_<<vars, setup>> => (Tame => AsyncWaits)'
  <2> SUFFICES ASSUME Tame => SInv, Tame => AsyncWaits, [Next]_<<vars, setup>>, Tame', Suspends'
               PROVE  \A d \in Clients : client'[d].async => client'[d].co = "waits"
    BY DEF AsyncWaits
  <2>1. setup' = setup
    BY DEF Next, vars
  <2>2. SInv /\ AsyncWaits /\ Tame /\ Suspends
    <3>1. Tame /\ Suspends
      BY <2>1, SetupKept DEF Tame, Suspends, Local, Connects
    <3> QED BY <3>1
  <2>3. ASSUME NEW d \in Clients PROVE Suspended(d)
    <3>1. CASE UNCHANGED <<vars, setup>>
      BY <3>1 DEF vars, Suspended
    <3>2. CASE LoopStep
      BY <2>1, <2>2, <3>2, LoopSuspends
    <3>3. CASE HandlerStep
      BY <2>1, <2>2, <3>3, HandlerSuspends
    <3>4. CASE \E c \in Clients : CoroutineStep(c)
      BY <2>1, <2>2, <3>4, CoroutineSuspends
    <3> QED BY <3>1, <3>2, <3>3, <3>4 DEF Next
  <2> QED BY <2>2, <2>3 DEF Suspended, AsyncWaits
<1> QED BY <1>1, <1>2, InvHolds, PTL DEF Spec

\* A reservation is one coroutine's: DecodeSlotHandle honours a handle only for the
\* coroutine it was issued to, whatever Reserve, ReleaseSlot and the slot's own death
\* do meanwhile; and asyncData never points into a coroutine frame that is gone, as
\* long as a send cannot fail before it suspends its coroutine.
THEOREM PinsHold == Spec => [](Tame => PinsSound)
<1>1. SInv /\ AsyncWaits => PinsSound
  <2> SUFFICES ASSUME SInv, AsyncWaits PROVE PinsSound
    OBVIOUS
  <2>1. PinIsExclusive
    BY PinnedExclusive
  <2>2. Suspends => NoStaleAsyncData
    BY DEF AsyncWaits, NoStaleAsyncData
  <2> QED BY <2>1, <2>2 DEF PinsSound, Suspends
<1> QED BY <1>1, InvHolds, AsyncWaitsHolds, PTL
================================================================================
