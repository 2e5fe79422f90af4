------------------------------ MODULE TimerWheel ------------------------------
(***************************************************************************)
(* The timeout wheel of a worker (utils/timer/timer_wheel.cpp) and the     *)
(* event loop code that drives it (RefreshExpiry, HandleTimeoutTimer and   *)
(* the expiry callback of os_specific/linux/epoll_connection.cpp).         *)
(*                                                                         *)
(* Every connection owns one position.  A bucket is an intrusive doubly    *)
(* linked list threaded through the positions' metadata.  Tick runs user   *)
(* code (onExpire_) while it walks a bucket, and that code may schedule or *)
(* cancel positions of the list being walked, so Tick is split into the    *)
(* steps between which such a call can land.                               *)
(***************************************************************************)
EXTENDS Integers, FiniteSets

CONSTANTS
    Pos,          \* positions: one per client connection and endpoint slot
    NIL,          \* the end of a list
    Slots,        \* buckets of the wheel (4096 in Initialize)
    Tag,          \* the 'extra' every position is scheduled with
    Timeouts,     \* the timeouts, in seconds, the program asks for
    TimeoutMod,   \* 2^16: RefreshExpiry takes a uint16_t
    RoundsMod,    \* 2^8: SlotMeta::rounds is a uint8_t
    FirstTick,    \* INVOKE_TIMEOUT_DELAY
    Cooldown,     \* INVOKE_TIMEOUT_COOLDOWN
    Reentrant,    \* may an expiry callback touch other positions?
    MaxCalls,     \* bound: wheel calls the callbacks of one Tick make on others
    MaxClock      \* bound: seconds a behaviour lasts

ASSUME NilAssumption == NIL \notin Pos
ASSUME SlotsAssumption == Slots \in Nat \ {0}
ASSUME TagAssumption == Tag \in [Pos -> Nat \ {0}]
ASSUME NumberAssumption ==
    /\ Timeouts \subseteq Nat \ {0}
    /\ TimeoutMod \in Nat \ {0}
    /\ RoundsMod \in Nat \ {0}
    /\ FirstTick \in Nat
    /\ Cooldown \in Nat \ {0}
    /\ MaxCalls \in Nat
    /\ MaxClock \in Nat
    /\ Reentrant \in BOOLEAN

VARIABLES
    wheel,      \* meta_ and wheelHeads_
    nowTick,    \* nowTick_: ticks below it have been processed
    clock,      \* NowMs() / 1000
    nextTick,   \* when timeoutTimerFd_ becomes readable next
    pc,         \* where the event loop is inside Tick, "idle" outside
    curr,       \* Tick's cursor
    saved,      \* Tick's local copy of m.next
    calls,      \* calls the callbacks of this Tick may still make
    asked       \* what each armed position was asked for: when, how long

vars == <<wheel, nowTick, clock, nextTick, pc, curr, saved, calls, asked>>

Buckets == 0 .. Slots - 1
Unlinked == Slots                 \* m.bucket >= slots_
Link == Pos \cup {NIL}
Never == [at |-> 0, tick |-> 0, secs |-> 0]

-------------------------------------------------------------------------------
(* The list operations, on a wheel w. *)

Linked(w, p) == w.bucket[p] \in Buckets

\* Faulty variants ("...Fault") of a definition stand in front of it; they are
\* what the properties are meant to rule out and no behaviour uses them.

UnlinkKeepsPrevFault(w, p) ==
    LET nx == w.next[p]
        pv == w.prev[p]
        b  == w.bucket[p]
    IN  IF ~Linked(w, p) THEN w
        ELSE [w EXCEPT
          !.heads  = IF pv = NIL /\ w.heads[b] = p THEN [@ EXCEPT ![b] = nx] ELSE @,
          !.next   = [q \in Pos |-> IF q = p THEN NIL ELSE IF q = pv THEN nx ELSE @[q]],
          !.prev   = [@ EXCEPT ![p] = NIL],
          !.bucket = [@ EXCEPT ![p] = Unlinked],
          !.rounds = [@ EXCEPT ![p] = 0]]

\* Takes p out of its bucket; a position that is in none is left alone.
Unlink(w, p) ==
    LET nx == w.next[p]
        pv == w.prev[p]
        b  == w.bucket[p]
    IN  IF ~Linked(w, p) THEN w
        ELSE [w EXCEPT
          !.heads  = IF pv = NIL /\ w.heads[b] = p THEN [@ EXCEPT ![b] = nx] ELSE @,
          !.next   = [q \in Pos |-> IF q = p THEN NIL ELSE IF q = pv THEN nx ELSE @[q]],
          !.prev   = [q \in Pos |-> IF q = p THEN NIL ELSE IF q = nx THEN pv ELSE @[q]],
          !.bucket = [@ EXCEPT ![p] = Unlinked],
          !.rounds = [@ EXCEPT ![p] = 0]]

LinkHeadDropsListFault(w, p, b, r) ==
    [w EXCEPT !.heads = [@ EXCEPT ![b] = p], !.next = [@ EXCEPT ![p] = NIL],
              !.prev = [@ EXCEPT ![p] = NIL], !.bucket = [@ EXCEPT ![p] = b],
              !.rounds = [@ EXCEPT ![p] = r], !.extra = [@ EXCEPT ![p] = Tag[p]]]

\* Puts the unlinked p at the head of bucket b.
LinkHead(w, p, b, r) ==
    LET nx == w.heads[b]
    IN  [w EXCEPT
          !.heads  = [@ EXCEPT ![b] = p],
          !.next   = [@ EXCEPT ![p] = nx],
          !.prev   = [q \in Pos |-> IF q = p THEN NIL ELSE IF q = nx THEN p ELSE @[q]],
          !.bucket = [@ EXCEPT ![p] = b],
          !.rounds = [@ EXCEPT ![p] = r],
          !.extra  = [@ EXCEPT ![p] = Tag[p]]]

ExpireBucketOffByOneFault(now, ticks) == (now + ticks - 1) % Slots
ExpireRoundsZeroFault(now, ticks) == 0
ExpireRoundsOneMoreFault(now, ticks) ==
    (((now + ticks) \div Slots) - (now \div Slots) + 1) % RoundsMod

\* The bucket and the rounds Schedule computes for a timer of 'ticks'.
ExpireBucket(now, ticks) == (now + ticks) % Slots
ExpireRounds(now, ticks) == (((now + ticks) \div Slots) - (now \div Slots)) % RoundsMod

Schedule(w, now, p, ticks) ==
    LinkHead(Unlink(w, p), p, ExpireBucket(now, ticks), ExpireRounds(now, ticks))

ClearSlot(w, p) ==
    [w EXCEPT !.next = [@ EXCEPT ![p] = NIL], !.prev = [@ EXCEPT ![p] = NIL],
              !.bucket = [@ EXCEPT ![p] = Unlinked], !.rounds = [@ EXCEPT ![p] = 0],
              !.extra = [@ EXCEPT ![p] = 0]]

Cancel(w, p) == ClearSlot(Unlink(w, p), p)

-------------------------------------------------------------------------------
(* The calls the event loop makes. *)

\* RefreshExpiry: the seconds asked for are narrowed to 16 bits on the way.
RefreshExpiry(p, secs) ==
    /\ wheel' = Schedule(wheel, nowTick, p, secs % TimeoutMod)
    /\ asked' = [asked EXCEPT ![p] = [at |-> clock, tick |-> nowTick, secs |-> secs]]

CancelTimer(p) ==
    /\ wheel' = Cancel(wheel, p)
    /\ asked' = [asked EXCEPT ![p] = Never]

\* A handler outside Tick arms or disarms the timer of a connection.
HandlerSchedules(p, secs) ==
    /\ pc = "idle"
    /\ RefreshExpiry(p, secs)
    /\ UNCHANGED <<nowTick, clock, nextTick, pc, curr, saved, calls>>

HandlerCancels(p) ==
    /\ pc = "idle"
    /\ CancelTimer(p)
    /\ UNCHANGED <<nowTick, clock, nextTick, pc, curr, saved, calls>>

\* A second passes.  The loop is never kept busy past a timerfd expiry.
ClockAdvances ==
    /\ pc = "idle"
    /\ clock < nextTick
    /\ clock < MaxClock
    /\ clock' = clock + 1
    /\ UNCHANGED <<wheel, nowTick, nextTick, pc, curr, saved, calls, asked>>

\* timeoutTimerFd_ is readable: HandleTimeoutTimer calls Tick(NowMs() / 1000).
HandleTimeoutTimer ==
    /\ pc = "idle"
    /\ clock = nextTick
    /\ nextTick' = nextTick + Cooldown
    /\ pc' = "ticking"
    /\ calls' = MaxCalls
    /\ UNCHANGED <<wheel, nowTick, clock, curr, saved, asked>>

-------------------------------------------------------------------------------
(* Tick. *)

\* while(nowTick_ < nowTick): take the head of the tick's bucket.
NextBucket ==
    /\ pc = "ticking"
    /\ nowTick < clock
    /\ curr' = wheel.heads[nowTick % Slots]
    /\ pc' = "walking"
    /\ UNCHANGED <<wheel, nowTick, clock, nextTick, saved, calls, asked>>

TickDone ==
    /\ pc = "ticking"
    /\ nowTick >= clock
    /\ pc' = "idle"
    /\ calls' = 0
    /\ UNCHANGED <<wheel, nowTick, clock, nextTick, curr, saved, asked>>

SkipRoundUnguardedFault ==
    /\ pc = "walking"
    /\ curr # NIL
    /\ wheel' = [wheel EXCEPT !.rounds[curr] = @ - 1]
    /\ curr' = wheel.next[curr]
    /\ UNCHANGED <<nowTick, clock, nextTick, pc, saved, calls, asked>>

\* A timer with rounds left stays for another revolution.
SkipRound ==
    /\ pc = "walking"
    /\ curr # NIL
    /\ wheel.rounds[curr] # 0
    /\ wheel' = [wheel EXCEPT !.rounds[curr] = @ - 1]
    /\ curr' = wheel.next[curr]
    /\ UNCHANGED <<nowTick, clock, nextTick, pc, saved, calls, asked>>

\* rounds == 0: the loop saves m.next and calls onExpire_(curr, extra).  The
\* callback closes the connection, which cancels its timer, unless it is a
\* synchronous client that is closing anyway.
Expire ==
    /\ pc = "walking"
    /\ curr # NIL
    /\ wheel.rounds[curr] = 0
    /\ saved' = wheel.next[curr]
    /\ pc' = "callback"
    /\ \/ CancelTimer(curr)
       \/ UNCHANGED <<wheel, asked>>
    /\ UNCHANGED <<nowTick, clock, nextTick, curr, calls>>

\* Closing one connection closes or wakes others from inside the callback: a
\* client's endpoint slot is released (Cancel), a resumed request leases an
\* idle slot (RefreshExpiry).
CallbackTouches(p) ==
    /\ pc = "callback"
    /\ Reentrant
    /\ calls > 0
    /\ p # curr
    /\ calls' = calls - 1
    /\ \/ CancelTimer(p)
       \/ \E secs \in Timeouts : RefreshExpiry(p, secs)
    /\ UNCHANGED <<nowTick, clock, nextTick, pc, curr, saved>>

CallbackReturnsNoUnlinkFault ==
    /\ pc = "callback"
    /\ wheel' = wheel
    /\ asked' = [asked EXCEPT ![curr] = Never]
    /\ curr' = saved
    /\ saved' = NIL
    /\ pc' = "walking"
    /\ UNCHANGED <<nowTick, clock, nextTick, calls>>

\* onExpire_ has returned: Unlink(curr), curr = next.
CallbackReturns ==
    /\ pc = "callback"
    /\ wheel' = Unlink(wheel, curr)
    /\ asked' = [asked EXCEPT ![curr] = Never]
    /\ curr' = saved
    /\ saved' = NIL
    /\ pc' = "walking"
    /\ UNCHANGED <<nowTick, clock, nextTick, calls>>

BucketDoneStaysFault ==
    /\ pc = "walking"
    /\ curr = NIL
    /\ pc' = "ticking"
    /\ UNCHANGED <<wheel, nowTick, clock, nextTick, curr, saved, calls, asked>>

BucketDone ==
    /\ pc = "walking"
    /\ curr = NIL
    /\ nowTick' = nowTick + 1
    /\ pc' = "ticking"
    /\ UNCHANGED <<wheel, clock, nextTick, curr, saved, calls, asked>>

-------------------------------------------------------------------------------
EmptyWheel ==
    [next   |-> [p \in Pos |-> NIL],
     prev   |-> [p \in Pos |-> NIL],
     bucket |-> [p \in Pos |-> Unlinked],
     rounds |-> [p \in Pos |-> 0],
     extra  |-> [p \in Pos |-> 0],
     heads  |-> [b \in Buckets |-> NIL]]

Init ==
    /\ wheel = EmptyWheel
    /\ nowTick = 0
    /\ clock = 0
    /\ nextTick = FirstTick
    /\ pc = "idle"
    /\ curr = NIL
    /\ saved = NIL
    /\ calls = 0
    /\ asked = [p \in Pos |-> Never]

TickStep ==
    \/ NextBucket \/ TickDone \/ SkipRound \/ Expire \/ CallbackReturns \/ BucketDone

Next ==
    \/ \E p \in Pos, secs \in Timeouts : HandlerSchedules(p, secs)
    \/ \E p \in Pos : HandlerCancels(p)
    \/ ClockAdvances
    \/ HandleTimeoutTimer
    \/ TickStep
    \/ \E p \in Pos : CallbackTouches(p)

\* Tick is a plain loop: once entered it keeps running.
Spec == Init /\ [][Next]_vars /\ WF_vars(TickStep)

-------------------------------------------------------------------------------
(* Properties. *)

Armed(p) == asked[p] # Never
Deadline(p) == asked[p].tick + asked[p].secs   \* in ticks of the wheel
Fires == pc = "walking" /\ pc' = "callback"    \* onExpire_(curr, extra) is called

WheelType ==
    [next : [Pos -> Link], prev : [Pos -> Link], bucket : [Pos -> 0 .. Slots],
     rounds : [Pos -> Nat], extra : [Pos -> Nat], heads : [Buckets -> Link]]

\* Every variable holds a value of its C++ type; a callback runs for a position.
TypeOK ==
    /\ wheel \in WheelType
    /\ nowTick \in Nat
    /\ clock \in Nat
    /\ nextTick \in Nat
    /\ pc \in {"idle", "ticking", "walking", "callback"}
    /\ curr \in Link
    /\ saved \in Link
    /\ calls \in 0 .. MaxCalls
    /\ asked \in [Pos -> [at : Nat, tick : Nat, secs : Nat]]
    /\ pc = "callback" => curr \in Pos

HeadsOK(w) ==
    \A b \in Buckets : w.heads[b] # NIL =>
        /\ w.bucket[w.heads[b]] = b
        /\ w.prev[w.heads[b]] = NIL

NextOK(w) ==
    \A p \in Pos : w.next[p] # NIL =>
        /\ Linked(w, p)
        /\ w.prev[w.next[p]] = p
        /\ w.bucket[w.next[p]] = w.bucket[p]

PrevOK(w) ==
    \A p \in Pos : w.prev[p] # NIL =>
        /\ Linked(w, p)
        /\ w.next[w.prev[p]] = p
        /\ w.bucket[w.prev[p]] = w.bucket[p]

FirstOK(w) ==
    \A p \in Pos : Linked(w, p) /\ w.prev[p] = NIL => w.heads[w.bucket[p]] = p

WellLinked(w) == HeadsOK(w) /\ NextOK(w) /\ PrevOK(w) /\ FirstOK(w)

\* The intrusive lists of the buckets stay well linked whatever a callback
\* schedules or cancels while Tick walks one: heads, next and prev agree, and
\* neighbours share a bucket (Schedule, Cancel and Unlink of timer_wheel.cpp).
LinksOK == WellLinked(wheel)

\* A set that holds the head of bucket b and the successors of its members.
Follows(S, b) ==
    /\ wheel.heads[b] \in S \cup {NIL}
    /\ \A p \in S : wheel.next[p] \in S \cup {NIL}

\* The positions met by following next from the head of bucket b: those that
\* no such set can leave out.
Chain(b) == {p \in Pos : \A S \in SUBSET Pos : Follows(S, b) => p \in S}

\* Tick's walk of a bucket can meet every timer armed in it and no other: no
\* timer is lost from its list (it would never fire and leak its connection).
NoTimerLost ==
    /\ \A b \in Buckets : Chain(b) = {p \in Pos : wheel.bucket[p] = b}
    /\ \A p \in Pos : Armed(p) /\ ~(pc = "callback" /\ p = curr) => Linked(wheel, p)

\* onExpire_ is called only for a timer that is armed, with the tag it was
\* scheduled with (the callback picks client or endpoint by that tag).
FiresOnlyArmed == [][Fires => Armed(curr) /\ wheel.extra[curr] = Tag[curr]]_vars

\* Measured in ticks of the wheel, no timer fires before the seconds that
\* RefreshExpiry was asked for have passed.
NeverBeforeDeadline == [][Fires => nowTick >= Deadline(curr)]_vars

\* A timer is overdue by at most one revolution of the wheel.
LateByOneRevolution == \A p \in Pos : Armed(p) => nowTick <= Deadline(p) + Slots

\* A timer fires in the revolution its timeout falls in: no armed timer's
\* deadline has been passed by the wheel.
OnTime == \A p \in Pos : Armed(p) => nowTick <= Deadline(p)

\* The wheel's time lags the clock by at most the period of the timerfd, so in
\* real time a timer is early by less than that.
EarlyByLessThanCooldown ==
    [][Fires => clock + Cooldown > asked[curr].at + asked[curr].secs]_vars

\* A timer fires at or after its deadline, up to the lag of the clock it was
\* armed by (RefreshExpiry counts from nowTick_, Tick runs once a cooldown).
FiresInTime == NeverBeforeDeadline /\ EarlyByLessThanCooldown

\* Tick returns: even when callbacks move or cancel timers it is about to
\* visit, its cursor reaches the end of a list.
TickTerminates == pc # "idle" ~> pc = "idle"

===============================================================================
