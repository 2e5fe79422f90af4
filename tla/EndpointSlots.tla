----------------------------- MODULE EndpointSlots -----------------------------
(***************************************************************************)
(* The outbound connection pool of one endpoint in one worker              *)
(* (os_specific/linux/epoll_connection.cpp): leasing, connecting, TLS,     *)
(* onConnect, sending, parsing, pooling, pinning, coalescing, reconnecting *)
(* and releasing a single-slot (not multiplexed, not streaming) endpoint.  *)
(*                                                                         *)
(* A worker is one thread.  The hard part is re-entrancy: completing or    *)
(* failing a request resumes client coroutines synchronously, and a        *)
(* resumed coroutine may send, reserve or release again while the handler  *)
(* that resumed it is half way through.  'stack' is the call stack of such *)
(* half-finished handlers; the event loop takes an event only when it is   *)
(* empty.                                                                  *)
(***************************************************************************)
EXTENDS Integers, Sequences, FiniteSets

CONSTANTS
    Slots,         \* the endpoint's pool
    Clients,       \* client connections of the worker
    AllReqs,       \* requests handlers may send
    None,          \* nullptr, no key, no request
    MaxReconnect,  \* maxReconnectAttempts
    Setups         \* the endpoints a run looks at, one of them per behaviour

FeatureNames ==
    {"tls", "onConnect", "upgrade", "onAbort", "onPush", "pin", "retry", "local"}

ASSUME SetsAssumption ==
    /\ None \notin Slots \cup Clients \cup AllReqs
    /\ Slots \cap Clients = {}
    /\ MaxReconnect \in Nat
ASSUME SetupAssumption ==
    Setups \subseteq
        [features : SUBSET FeatureNames,  \* what its protocol uses, and what may fail
         reqs : SUBSET AllReqs,           \* requests its handlers send
         coalesced : SUBSET AllReqs,      \* those with a coalesceKey
         connects : SUBSET {"progress", "once", "refused", "broken"},  \* of connect()
         addrs : Nat \ {0},               \* resolved addresses of the host
         prewarm : Nat,                   \* connections opened at startup
         events : {1, 2},                 \* of one epoll_wait: 1, or 2 for "several"
         budget : Nat]                    \* bound: sends, reservations and accepts

VARIABLES
    slot,        \* EndpointCtx of every slot, with its pool bits and timer
    client,      \* ClientCtx of every client, with its coroutine
    pending,     \* meta.coalescePending
    reconnects,  \* pendingReconnects_
    stack,       \* handlers that are running, the innermost first
    batch,       \* events of this epoll_wait that are not handled yet
    warm,        \* connections HandlePrewarm still has to open
    budget,      \* what is left of Budget
    setup        \* the endpoint's own configuration, fixed at startup

vars == <<slot, client, pending, reconnects, stack, batch, warm, budget>>

Reqs      == setup.reqs
Coalesced == setup.coalesced  \* a coalesced request stands for its key
Connects  == setup.connects
Addrs     == setup.addrs
Prewarm   == setup.prewarm
MaxEvents == setup.events
Budget    == setup.budget

UseTls    == "tls" \in setup.features
OnConnect == "onConnect" \in setup.features
OnAbort   == "onAbort" \in setup.features
OnPush    == "onPush" \in setup.features
Upgrade   == "upgrade" \in setup.features   \* onConnect may call SlotUpgradeTls
Pinning   == "pin" \in setup.features       \* handlers may call Reserve
Retries   == "retry" \in setup.features     \* handlers may call again after a failure
Local     == "local" \in setup.features     \* serialize and epoll_ctl may fail

KeyOf(req) == IF req \in Coalesced THEN req ELSE None
NoEntry == [by |-> None, waiters |-> <<>>]
NoPin == [slot |-> None, gen |-> 0]

\* A frame of the call stack: what the handler does next, on what.
Frame(op, on, arg) == [op |-> op, on |-> on, arg |-> arg]

-------------------------------------------------------------------------------
(* One slot.  These operators map the record of a slot to its next value. *)

\* A slot nothing was ever sent on.
Closed ==
    [gen |-> 0, leased |-> FALSE, marked |-> FALSE, pooledIdle |-> FALSE, inUse |-> 0,
     reserved |-> FALSE, client |-> None, ev |-> "ACCEPT", alive |-> FALSE, key |-> None,
     deferred |-> None, owes |-> None, aborted |-> FALSE, onconn |-> FALSE,
     awaiting |-> FALSE, ssl |-> FALSE, shutting |-> FALSE, attempts |-> 0, tried |-> 0,
     timer |-> "none"]

\* EndpointCtx::Reset and the pool's FreeSlot: what they do not touch survives.
Reset(r) ==
    [Closed EXCEPT !.gen = r.gen, !.marked = r.marked, !.pooledIdle = r.pooledIdle,
                   !.inUse = r.inUse, !.deferred = r.deferred, !.timer = r.timer]

\* The states an EventType may legally be entered from.
LegalFrom(e) ==
    LET opening == {"ACCEPT", "CONNECT", "HANDSHAKE", "ONCONNECT"}
    IN  CASE e \in {"CONNECT", "HANDSHAKE"} -> opening
          [] e = "ONCONNECT" -> opening \cup {"SEND"}
          [] e = "SEND"      -> opening \cup {"SEND", "RECV"}
          [] e = "RECV"      -> {"CONNECT", "ONCONNECT", "SEND", "RECV"}
          [] e = "SHUTDOWN"  -> opening \cup {"SEND", "RECV", "SHUTDOWN"}

\* Any other transition is logger_.Fatal: the worker exits.
EnterState(r, e) == [r EXCEPT !.ev = IF @ \in LegalFrom(e) THEN e ELSE "FATAL"]

IsConnecting(r) == r.ev \in {"CONNECT", "HANDSHAKE", "ONCONNECT"} \/ r.onconn
HasRequestInFlight(r) == r.client # None \/ r.aborted

\* GetEndpointConnection, on the slot the pool hands out.
Lease(r) == [r EXCEPT !.leased = TRUE, !.marked = FALSE, !.gen = @ + 1,
                      !.pooledIdle = FALSE, !.inUse = @ + 1]

PoolForgetsTimerFault(r) ==
    IF r.reserved THEN [r EXCEPT !.attempts = 0, !.timer = "none"]
    ELSE [r EXCEPT !.leased = FALSE, !.inUse = @ - 1, !.pooledIdle = TRUE,
                   !.marked = TRUE, !.attempts = 0, !.timer = "none"]

\* ReturnEndpointToPool: a pinned slot stays leased to its holder.
ReturnToPool(r) ==
    LET idle == [r EXCEPT !.attempts = 0, !.timer = "idle"]
    IN  IF r.reserved THEN idle
        ELSE [idle EXCEPT !.leased = FALSE, !.inUse = @ - 1, !.pooledIdle = TRUE,
                          !.marked = TRUE]

\* What a handler does to a slot: its next record, the calls it still makes, a
\* reconnect it queues, a coalesce key it registers, and whether it unlinks the
\* client.
Does(r, calls) ==
    [slot |-> r, calls |-> calls, again |-> FALSE, registers |-> None, unlinks |-> FALSE]

\* Close(ctx, true): the TLS session is dropped, ReleaseEndpoint follows.
CloseFor(s, r, why) ==
    Does([r EXCEPT !.shutting = TRUE, !.ssl = FALSE], <<Frame("release", s, why)>>)
CloseForce(s, r) == CloseFor(s, r, None)

\* Close(ctx), which does nothing when the slot is closing already.  A TLS
\* session is shut down first: that waits for a peer that is still there, and
\* fails at once on a broken connection.
CloseGently(s, r, broken) ==
    IF r.shutting THEN {Does(r, <<>>)}
    ELSE {CloseForce(s, r)}
         \cup IF r.ssl /\ ~broken
              THEN {Does(EnterState([r EXCEPT !.shutting = TRUE], "SHUTDOWN"), <<>>)} ELSE {}

-------------------------------------------------------------------------------
(* Connecting. *)

\* The state that follows a finished TCP connect and TLS handshake.
Up == IF OnConnect THEN "ONCONNECT" ELSE "SEND"

DialledNoTimerFault(r) ==
    [status |-> "PENDING",
     slot   |-> IF r.client = None /\ r.ev = "SEND" THEN ReturnToPool(r) ELSE r]

\* The end of WrapConnect: which timer runs, or straight to the idle pool.
Dialled(r) ==
    [status |-> "PENDING",
     slot   |-> IF r.ev \in {"CONNECT", "HANDSHAKE", "ONCONNECT"}
                THEN [r EXCEPT !.timer = "connect"]
                ELSE IF r.client # None THEN [r EXCEPT !.timer = "request"]
                ELSE ReturnToPool(r)]

\* WrapConnect: what it may return and leave in the slot.
WrapConnect(r) ==
    LET q == [r EXCEPT !.tried = @ + 1]
        t == [q EXCEPT !.alive = TRUE, !.ssl = TRUE]
        outcomes(answer) ==
          CASE answer = "progress" -> {Dialled(EnterState(q, "CONNECT"))}
            [] answer = "refused"  -> {[status |-> "CONNECT_FAILURE", slot |-> q]}
            [] answer = "broken"   -> {[status |-> "SOCKET_FAILURE", slot |-> q]}
            [] answer = "once" /\ UseTls ->
                 {Dialled(EnterState(t, "HANDSHAKE")), Dialled(EnterState(t, Up)),
                  [status |-> "SSL_FAILURE", slot |-> t]}
            [] OTHER -> {Dialled(EnterState([q EXCEPT !.alive = TRUE], Up))}
        all  == UNION {outcomes(answer) : answer \in Connects}
        open == {x \in all : x.status = "PENDING"}
    IN  all \cup IF ~Local THEN {}
                ELSE {[status |-> "EPOLL_ERROR", slot |-> [x.slot EXCEPT !.timer = r.timer]]
                      : x \in {y \in open : ~y.slot.pooledIdle}}

TryNextAddressOffByOneFault(r) ==
    IF r.tried + 1 >= Addrs THEN {[status |-> "CONNECT_FAILURE", slot |-> r]}
    ELSE WrapConnect([r EXCEPT !.timer = "none", !.ev = "ACCEPT"])

\* TryNextAddress: n further addresses refuse at once, then one does not.
TryNextAddress(r) ==
    LET left  == Addrs - r.tried
        at(n) == IF n = 0 /\ left = 0 THEN r
                 ELSE [r EXCEPT !.tried = @ + n, !.timer = "none", !.ev = "ACCEPT"]
        runs  == IF "refused" \in Connects THEN 0 .. left ELSE {0}
    IN  UNION {IF n = left THEN {[status |-> "CONNECT_FAILURE", slot |-> at(n)]}
               ELSE {x \in WrapConnect(at(n)) : x.status # "CONNECT_FAILURE"}
               : n \in runs}

ReconnectKeepsStateFault(r) ==
    [r EXCEPT !.timer = "none", !.ssl = FALSE, !.alive = FALSE, !.onconn = FALSE,
              !.awaiting = TRUE, !.tried = 0, !.attempts = @ + 1]

\* ScheduleReconnect: the slot stays leased, disconnected, until it is due.
ScheduleReconnect(r) ==
    [r EXCEPT !.timer = "none", !.ssl = FALSE, !.alive = FALSE, !.onconn = FALSE,
              !.awaiting = TRUE, !.tried = 0, !.ev = "ACCEPT", !.attempts = @ + 1]

\* The part of the status that the caller's disconnect reason is about.
Blame(status) == IF status = "CONNECT_FAILURE" THEN "refused" ELSE None

\* HandleConnectFailure: the next address, the caller told at once, or a retry
\* in the background.
HandleConnectFailure(s, r, fatal, refused) ==
    LET walks == ~fatal /\ refused /\ ~r.alive
        tried == IF walks THEN TryNextAddress(r)
                 ELSE {[status |-> "FAILURE", slot |-> r]}
        done(x) ==
          IF x.status = "PENDING" THEN Does(x.slot, <<>>)
          ELSE IF \/ x.slot.client # None
                  \/ fatal
                  \/ x.slot.attempts >= MaxReconnect
          THEN CloseFor(s, x.slot, Blame(x.status))
          ELSE [Does(ScheduleReconnect(x.slot), <<>>) EXCEPT !.again = TRUE]
    IN  {done(x) : x \in tried}

FailEndpointIO(s, r) ==
    IF IsConnecting(r) THEN HandleConnectFailure(s, r, FALSE, TRUE)
    ELSE CloseGently(s, r, TRUE)

\* Write, outside onConnect: all of it, a part of it, or an error.
SendBytes(s, r) ==
    {Does(EnterState(r, "RECV"), <<>>)}
    \cup IF r.owes = None THEN {}     \* nothing queued
         ELSE {Does(EnterState(r, "SEND"), <<>>)} \cup FailEndpointIO(s, r)

\* Connected with nobody waiting: idle in the pool, unless epoll_ctl fails.
Idle(s, r) ==
    {Does(ReturnToPool(r), <<>>)}
    \cup IF Local THEN {CloseForce(s, ReturnToPool(r))} ELSE {}

\* The tail of OnSlotConnected.
Ready(s, r) ==
    IF r.client # None
    THEN SendBytes(s, [EnterState(r, "SEND") EXCEPT !.timer = "request"])
    ELSE Idle(s, EnterState(r, "RECV"))

FlushDropsClientFault(s, r) ==
    LET q == [r EXCEPT !.deferred = None]
    IN  {[x EXCEPT !.registers = r.key] : x \in Ready(s, [q EXCEPT !.owes = r.deferred])}
        \cup IF ~Local THEN {}
             ELSE {[Does([q EXCEPT !.client = None, !.key = None],
                         <<Frame("close", s, None)>>) EXCEPT !.unlinks = TRUE]}

\* FlushDeferredRequest: the request that waited for onConnect is serialized
\* and its key registered now; FailDeferredRequest when that fails.
FlushDeferredRequest(s, r) ==
    LET q == [r EXCEPT !.deferred = None]
    IN  {[x EXCEPT !.registers = r.key] : x \in Ready(s, [q EXCEPT !.owes = r.deferred])}
        \cup IF ~Local THEN {}
             ELSE {[Does([q EXCEPT !.client = None, !.key = None],
                         <<Frame("resume", r.client, None), Frame("close", s, None)>>)
                    EXCEPT !.unlinks = TRUE]}

ConnectedForgetsRequestFault(s, r, result) ==
    LET q == [r EXCEPT !.onconn = FALSE]
    IN  IF result # "READY" THEN HandleConnectFailure(s, q, result = "FATAL", TRUE)
        ELSE Ready(s, q)

\* OnSlotConnected, by what the onConnect coroutine returned.
OnSlotConnected(s, r, result) ==
    LET q == [r EXCEPT !.onconn = FALSE]
    IN  IF result # "READY" THEN HandleConnectFailure(s, q, result = "FATAL", TRUE)
        ELSE IF r.deferred # None THEN FlushDeferredRequest(s, q)
        ELSE Ready(s, q)

\* The onConnect coroutine runs until it awaits SlotSend, SlotReceive or
\* SlotUpgradeTls, or returns.
RunOnConnect(s, r) ==
    {Does(EnterState(r, "SEND"), <<>>), Does(EnterState(r, "ONCONNECT"), <<>>)}
    \cup (IF Upgrade /\ ~r.ssl /\ r.ev = "ONCONNECT"
          THEN {Does(EnterState([r EXCEPT !.ssl = TRUE], "HANDSHAKE"), <<>>)} ELSE {})
    \cup UNION {OnSlotConnected(s, r, result) : result \in {"READY", "RETRY", "FATAL"}}

FireOnConnect(s, r) ==
    RunOnConnect(s, [EnterState(r, "ONCONNECT") EXCEPT !.onconn = TRUE])

\* HandleEndpointHandshake: not done yet, failed, or done.
HandleEndpointHandshake(s, r) ==
    LET q == [EnterState(r, Up) EXCEPT !.alive = TRUE]
    IN  {Does(EnterState(r, "HANDSHAKE"), <<>>)}
        \cup HandleConnectFailure(s, r, FALSE, FALSE)
        \cup (IF q.onconn THEN RunOnConnect(s, q)
              ELSE IF q.ev = "ONCONNECT" THEN FireOnConnect(s, q)
              ELSE IF q.client # None THEN SendBytes(s, [q EXCEPT !.timer = "request"])
              ELSE Idle(s, q))

\* A socket in EVENT_CONNECT is writable: refused, or connected.
ConnectDone(s, r) ==
    LET q == [r EXCEPT !.alive = TRUE]
    IN  HandleConnectFailure(s, r, FALSE, TRUE)
        \cup (IF UseTls THEN HandleEndpointHandshake(s, [q EXCEPT !.ssl = TRUE])
              ELSE IF OnConnect THEN FireOnConnect(s, q)
              ELSE IF q.client # None THEN SendBytes(s, [q EXCEPT !.timer = "request"])
              ELSE Idle(s, EnterState(q, "RECV")))

-------------------------------------------------------------------------------
(* Events on a slot. *)

Ignored(r) == {Does(r, <<>>)}

HandleEndpointWriteReady(s, r) ==
    CASE r.ev = "SEND" /\ r.onconn ->
           Ignored(r) \cup RunOnConnect(s, r) \cup FailEndpointIO(s, r)
      [] r.ev = "SEND" /\ ~r.onconn -> SendBytes(s, r)
      [] r.ev = "ONCONNECT" /\ ~r.onconn -> FireOnConnect(s, r)
      [] r.ev = "CONNECT" -> ConnectDone(s, r)
      [] OTHER -> Ignored(r)

\* Bytes of a response: more needed, cut short by EOF, complete, or malformed.
HandleReceiveSingleSlot(s, r) ==
    Ignored(r)
    \cup {CloseForce(s, [r EXCEPT !.shutting = TRUE]),
          Does(r, <<Frame("complete", s, "KEEP_ALIVE")>>),
          Does(r, <<Frame("complete", s, "CLOSE")>>),
          Does(r, <<Frame("parseError", s, None)>>)}

\* Bytes nobody asked for: closes the slot, unless onPush takes them.
HandleEndpointPush(s, r) ==
    {CloseForce(s, r)} \cup IF OnPush THEN Ignored(r) ELSE {}

HandleEndpointEpollIn(s, r) ==
    CASE r.ev = "RECV" ->
           FailEndpointIO(s, r)
           \cup (IF HasRequestInFlight(r) THEN HandleReceiveSingleSlot(s, r)
                 ELSE HandleEndpointPush(s, r))
      [] r.ev = "ONCONNECT" /\ r.onconn ->
           Ignored(r) \cup RunOnConnect(s, r) \cup HandleConnectFailure(s, r, FALSE, TRUE)
      [] r.ev = "ONCONNECT" /\ ~r.onconn ->
           {Does(EnterState(r, "RECV"), <<>>)} \cup HandleConnectFailure(s, r, FALSE, TRUE)
      [] OTHER -> Ignored(r)

\* HandleEndpointEvent, by event type and by what epoll reports.
HandleEndpointEvent(s, r) ==
    CASE r.ev = "HANDSHAKE" -> HandleEndpointHandshake(s, r)
      [] r.ev = "SHUTDOWN" ->
           Ignored(r) \cup {Does([r EXCEPT !.ssl = FALSE], <<Frame("release", s, None)>>)}
      [] OTHER -> FailEndpointIO(s, r) \cup HandleEndpointEpollIn(s, r)
                  \cup HandleEndpointWriteReady(s, r)

\* The expiry callback of the timer wheel.
HandleExpiry(s, r) ==
    IF IsConnecting(r) THEN HandleConnectFailure(s, r, FALSE, FALSE)
    ELSE {CloseForce(s, r)}

-------------------------------------------------------------------------------
(* The call stack and the event loop. *)

Top == Head(stack)
Running(op) == stack # <<>> /\ Top.op = op
Crashed == \E s \in Slots : slot[s].ev = "FATAL"
Source(x, g) == [on |-> x, gen |-> g]

\* What the next epoll_wait may report besides the listening and timer fds.
Readable ==
    {Source(s, slot[s].gen) : s \in {t \in Slots : slot[t].ev # "ACCEPT"}}
    \cup {Source(c, client[c].gen) : c \in {d \in Clients : client[d].live}}

\* The loop handles event x: the next of the batch, or the first of a new one.
Take(x) ==
    /\ stack = <<>>
    /\ warm = 0
    /\ ~Crashed
    /\ IF batch # <<>> THEN x = Head(batch) /\ batch' = Tail(batch)
       ELSE /\ x \in Readable \cup {Source(None, 0)}
            /\ \/ batch' = <<>>
               \/ MaxEvents > 1 /\ \E y \in Readable \ {x} : batch' = <<y>>

\* One of the effects of a handler on slot s, below it the calls 'rest'.
Apply(s, effects, rest) ==
    \E x \in effects :
        /\ slot' = [slot EXCEPT ![s] = x.slot]
        /\ stack' = x.calls \o rest
        /\ reconnects' = IF x.again THEN reconnects \cup {Source(s, x.slot.gen)}
                         ELSE reconnects
        /\ pending' = IF x.registers = None THEN pending
                      ELSE [pending EXCEPT ![x.registers].by = s]
        /\ client' = IF x.unlinks THEN [client EXCEPT ![slot[s].client].ep = None]
                     ELSE client

\* The slots GetEndpointConnection may hand out: open ones before closed ones.
FreeSlots ==
    LET free   == {s \in Slots : ~slot[s].leased}
        marked == {s \in free : slot[s].marked}
    IN  IF marked # {} THEN marked ELSE free

\* HandlePrewarm, before the loop starts: one more connection.
PrewarmSlot(s) ==
    /\ warm > 0
    /\ stack = <<>>
    /\ s \in FreeSlots
    /\ \E x \in WrapConnect(Lease(slot[s])) :
         Apply(s, IF x.status = "PENDING" THEN {Does(x.slot, <<>>)}
                  ELSE HandleConnectFailure(s, x.slot, FALSE, x.status # "SSL_FAILURE"),
               <<>>)
    /\ warm' = warm - 1
    /\ UNCHANGED <<batch, budget>>

\* An event of slot s: the generation it carries must be the slot's.
EndpointEvent(s) ==
    /\ Take(Source(s, slot[s].gen))
    /\ Apply(s, HandleEndpointEvent(s, slot[s]), <<>>)
    /\ UNCHANGED <<warm, budget>>

\* An event whose generation is not the current one, or one nobody waits for.
StaleEvent ==
    /\ batch # <<>>
    /\ Take(Head(batch))
    /\ \/ Head(batch).on \in Slots /\ Head(batch).gen # slot[Head(batch).on].gen
       \/ Head(batch).on \in Clients
    /\ UNCHANGED <<slot, client, pending, reconnects, stack, warm, budget>>

\* The timer wheel expires the timer of slot s.
SlotExpires(s) ==
    /\ slot[s].timer # "none"
    /\ Take(Source(None, 0))
    /\ Apply(s, HandleExpiry(s, [slot[s] EXCEPT !.timer = "none"]), <<>>)
    /\ UNCHANGED <<warm, budget>>

\* HandleReconnects: a due entry, if its slot still waits for it.
HandleReconnects(x) ==
    LET r == slot[x.on]
    IN  /\ x \in reconnects
        /\ Take(Source(None, 0))
        /\ IF ~r.awaiting \/ r.gen # x.gen
           THEN /\ reconnects' = reconnects \ {x}
                /\ UNCHANGED <<slot, client, pending, stack>>
           ELSE \E y \in WrapConnect([r EXCEPT !.awaiting = FALSE]) :
                  \E z \in IF y.status = "PENDING" THEN {Does(y.slot, <<>>)}
                           ELSE HandleConnectFailure(x.on, y.slot, FALSE,
                                                     y.status # "SSL_FAILURE") :
                    /\ slot' = [slot EXCEPT ![x.on] = z.slot]
                    /\ stack' = z.calls
                    /\ reconnects' = IF z.again THEN reconnects ELSE reconnects \ {x}
                    /\ UNCHANGED <<client, pending>>
        /\ UNCHANGED <<warm, budget>>

-------------------------------------------------------------------------------
(* Clients. *)

NoClient == [live |-> FALSE, gen |-> 0, co |-> "none", async |-> FALSE, ep |-> None,
             pin |-> NoPin, req |-> None]

\* A connection is accepted (GetClientConnection).
ClientAccepted(c) ==
    /\ Take(Source(None, 0))
    /\ ~client[c].live
    /\ budget > 0
    /\ budget' = budget - 1
    /\ client' = [client EXCEPT ![c] = [NoClient EXCEPT !.live = TRUE, !.gen = client[c].gen + 1]]
    /\ UNCHANGED <<slot, pending, reconnects, stack, warm>>

\* A request of client c starts its handler coroutine.
RequestArrives(c) ==
    /\ Take(Source(c, client[c].gen))
    /\ client[c].live /\ client[c].co = "none"
    /\ client' = [client EXCEPT ![c].co = "runs"]
    /\ stack' = <<Frame("run", c, "ok")>>
    /\ UNCHANGED <<slot, pending, reconnects, warm, budget>>

\* The response is written and the connection kept: ClientCtx::Clear.
ResponseSent(c) ==
    /\ Take(Source(c, client[c].gen))
    /\ client[c].co = "done"
    /\ client' = [client EXCEPT ![c].co = "none", ![c].async = FALSE, ![c].ep = None]
    /\ UNCHANGED <<slot, pending, reconnects, stack, warm, budget>>

\* The client disconnects, times out or is closed: Close -> ReleaseClient.  A
\* suspended coroutine frame is destroyed first, its ReservedSlot with it.
ClientCloses(c) ==
    /\ Take(Source(c, client[c].gen))
    /\ client[c].live
    /\ client' = [client EXCEPT ![c].async = FALSE, ![c].pin = NoPin]
    /\ stack' = <<Frame("unpin", c, client[c].pin), Frame("detach", c, None),
                  Frame("freeClient", c, None)>>
    /\ UNCHANGED <<slot, pending, reconnects, warm, budget>>

DetachDropsClientFault ==
    LET c == Top.on
        e == client[c].ep
    IN  /\ Running("detach")
        /\ slot' = IF e = None THEN slot ELSE [slot EXCEPT ![e].deferred = None]
        /\ stack' = Tail(stack)
        /\ client' = [client EXCEPT ![c].ep = None]
        /\ UNCHANGED <<pending, reconnects, batch, warm, budget>>

\* ReleaseClient: the request it still waits for is aborted or its slot closed.
Detach ==
    LET c == Top.on
        e == client[c].ep
        r == [slot[e] EXCEPT !.client = None, !.deferred = None]
        x == IF OnAbort /\ ~IsConnecting(r)
             THEN Does([r EXCEPT !.aborted = TRUE], <<>>) ELSE CloseForce(e, r)
    IN  /\ Running("detach")
        /\ IF e = None THEN slot' = slot /\ stack' = Tail(stack)
           ELSE slot' = [slot EXCEPT ![e] = x.slot] /\ stack' = x.calls \o Tail(stack)
        /\ client' = [client EXCEPT ![c].ep = None]
        /\ UNCHANGED <<pending, reconnects, batch, warm, budget>>

FreeClient ==
    LET c == Top.on
    IN  /\ Running("freeClient")
        /\ client' = [client EXCEPT ![c] = [NoClient EXCEPT !.gen = client[c].gen + 1]]
        /\ stack' = Tail(stack)
        /\ UNCHANGED <<slot, pending, reconnects, batch, warm, budget>>

-------------------------------------------------------------------------------
(* A running coroutine. *)

DecodeIgnoresGenFault(pin) == pin.slot # None /\ slot[pin.slot].reserved

\* DecodeSlotHandle: does the handle still stand for its slot?
HandleValid(pin) ==
    /\ pin.slot # None
    /\ slot[pin.slot].gen = pin.gen
    /\ slot[pin.slot].reserved

\* An identical request is in flight, so this one would be coalesced.
InFlight(req) == req \in Coalesced /\ pending[req].by # None

\* The coroutine of c runs.  The argument of its frame is what its last await
\* gave it; a handler that does not retry only cleans up after a failure.
Runs(c) == Running("run") /\ Top.on = c
Calls(c) ==
    /\ Runs(c)
    /\ Retries \/ Top.arg # "failed"
    /\ budget > 0
    /\ budget' = budget - 1
Failed(c) == <<Frame("run", c, "failed")>> \o Tail(stack)

\* SendPayload that fails at once without touching a slot: a dead handle or an
\* exhausted pool.  The coroutine goes on.
SendRefused(c) ==
    /\ Calls(c)
    /\ \/ client[c].pin # NoPin /\ ~HandleValid(client[c].pin)
       \/ FreeSlots = {} /\ \E req \in Reqs : ~InFlight(req)
    /\ stack' = Failed(c)
    /\ UNCHANGED <<slot, client, pending, reconnects, batch, warm>>

\* An identical request is in flight: the client becomes one of its waiters.
SendCoalesced(c, req) ==
    /\ Calls(c)
    /\ InFlight(req)
    /\ pending' = [pending EXCEPT ![req].waiters = Append(@, Source(c, client[c].gen))]
    /\ client' = [client EXCEPT ![c].async = TRUE, ![c].co = "waits", ![c].req = req]
    /\ stack' = Tail(stack)
    /\ UNCHANGED <<slot, reconnects, batch, warm>>

\* The slot of a SendPayload, the key it coalesces under, and what dispatching
\* the request to it may do (ArmSendOrConnect).
Dispatch(r) ==
    IF ~r.alive THEN WrapConnect(r)
    ELSE {[status |-> "PENDING", slot |-> [EnterState(r, "SEND") EXCEPT !.timer = "request"]]}
         \cup IF Local
              THEN {[status |-> "EPOLL_ERROR",
                     slot |-> [EnterState(r, "SEND") EXCEPT !.timer = "request"]]} ELSE {}

\* SendPayload on slot s, which holds r.
SendOn(c, req, s, r, key) ==
    LET wait == OnConnect /\ ~r.alive
        link == [r EXCEPT !.client = c]
        q    == IF wait THEN [link EXCEPT !.deferred = req, !.key = key]
                ELSE [link EXCEPT !.owes = req, !.key = IF key # None THEN key ELSE @]
        reg  == IF wait \/ key = None THEN pending ELSE [pending EXCEPT ![key].by = s]
        to   == [client[c] EXCEPT !.async = TRUE, !.req = req]
    IN  \E x \in Dispatch(q) :
          IF x.status = "PENDING"
          THEN /\ slot' = [slot EXCEPT ![s] = x.slot]
               /\ client' = [client EXCEPT ![c] = [to EXCEPT !.ep = s, !.co = "waits"]]
               /\ stack' = Tail(stack)
               /\ pending' = reg
          ELSE LET e == CloseFor(s, [x.slot EXCEPT !.client = None], Blame(x.status))
               IN  /\ slot' = [slot EXCEPT ![s] = e.slot]
                   /\ client' = [client EXCEPT ![c] = to]
                   /\ stack' = e.calls \o Failed(c)
                   /\ pending' = reg

\* SendPayload on a slot: the pinned one or one from the pool.
Send(c, req, s) ==
    LET pinned == client[c].pin.slot = s /\ HandleValid(client[c].pin)
        key    == IF pinned THEN None ELSE KeyOf(req)
    IN  /\ Calls(c)
        /\ \/ pinned
           \/ s \in FreeSlots /\ ~InFlight(req)
        /\ SendOn(c, req, s, IF pinned THEN slot[s] ELSE Lease(slot[s]), key)
        /\ UNCHANGED <<reconnects, batch, warm>>

\* The request cannot be serialized: the slot is closed, the call fails.
SendUnserializable(c, s) ==
    LET pinned == client[c].pin.slot = s /\ HandleValid(client[c].pin)
        r == IF pinned THEN slot[s] ELSE Lease(slot[s])
    IN  /\ Calls(c)
        /\ Local
        /\ \/ pinned
           \/ s \in FreeSlots /\ \E req \in Reqs : ~InFlight(req)
        /\ ~(OnConnect /\ ~r.alive)
        /\ slot' = [slot EXCEPT ![s] = CloseForce(s, r).slot]
        /\ stack' = CloseForce(s, r).calls \o Failed(c)
        /\ UNCHANGED <<client, pending, reconnects, batch, warm>>

\* Reserve: the slot stays leased to the coroutine that holds the handle.
ReserveSlot(c, s) ==
    /\ Calls(c)
    /\ Pinning
    /\ client[c].pin = NoPin
    /\ s \in FreeSlots
    /\ slot' = [slot EXCEPT ![s] = [Lease(@) EXCEPT !.reserved = TRUE]]
    /\ client' = [client EXCEPT ![c].pin = [slot |-> s, gen |-> slot'[s].gen]]
    /\ UNCHANGED <<pending, reconnects, stack, batch, warm>>

\* ReservedSlot::Release, or the handle goes out of scope.
Unpins(c) ==
    /\ Runs(c)
    /\ client[c].pin # NoPin
    /\ client' = [client EXCEPT ![c].pin = NoPin]
    /\ stack' = <<Frame("unpin", c, client[c].pin)>> \o stack
    /\ UNCHANGED <<slot, pending, reconnects, batch, warm, budget>>

\* The coroutine returns, every handle released; its response is being written.
Returns(c) ==
    /\ Runs(c)
    /\ client[c].pin = NoPin
    /\ client' = [client EXCEPT ![c].co = "done"]
    /\ stack' = Tail(stack)
    /\ UNCHANGED <<slot, pending, reconnects, batch, warm, budget>>

\* ReleaseSlot of a handle.
ReleaseSlot ==
    LET s == Top.arg.slot
        r == [slot[s] EXCEPT !.reserved = FALSE]
    IN  /\ Running("unpin")
        /\ IF ~HandleValid(Top.arg) THEN slot' = slot /\ stack' = Tail(stack)
           ELSE IF r.client # None
           THEN slot' = [slot EXCEPT ![s] = r] /\ stack' = Tail(stack)
           ELSE IF ~r.alive
           THEN /\ slot' = [slot EXCEPT ![s] = r]
                /\ stack' = <<Frame("release", s, None)>> \o Tail(stack)
           ELSE slot' = [slot EXCEPT ![s] = ReturnToPool(r)] /\ stack' = Tail(stack)
        /\ UNCHANGED <<client, pending, reconnects, batch, warm, budget>>

-------------------------------------------------------------------------------
(* Completing, failing and releasing. *)

ResumeKeepsAsyncFault ==
    LET c == Top.on
    IN  /\ Running("resume")
        /\ IF c # None /\ client[c].async
           THEN /\ client' = [client EXCEPT ![c].co = "runs"]
                /\ stack' = <<Frame("run", c, IF Top.arg = None THEN "failed" ELSE "ok")>>
                            \o Tail(stack)
           ELSE client' = client /\ stack' = Tail(stack)
        /\ UNCHANGED <<slot, pending, reconnects, batch, warm, budget>>

\* HandleClientAsyncCallback: the coroutine, if one is suspended, runs again.
Resume ==
    LET c == Top.on
    IN  /\ Running("resume")
        /\ IF c # None /\ client[c].async
           THEN /\ client' = [client EXCEPT ![c].async = FALSE, ![c].co = "runs"]
                /\ stack' = <<Frame("run", c, IF Top.arg = None THEN "failed" ELSE "ok")>>
                            \o Tail(stack)
           ELSE client' = client /\ stack' = Tail(stack)
        /\ UNCHANGED <<slot, pending, reconnects, batch, warm, budget>>

WaitersStaleFault ==
    LET w == Head(Top.on)
    IN  /\ Running("waiters")
        /\ IF Top.on = <<>> THEN client' = client /\ stack' = Tail(stack)
           ELSE /\ client' = [client EXCEPT ![w.on].ep = None]
                /\ stack' = <<Frame("resume", w.on, Top.arg),
                              Frame("waiters", Tail(Top.on), Top.arg)>> \o Tail(stack)
        /\ UNCHANGED <<slot, pending, reconnects, batch, warm, budget>>

\* FailCoalesceWaiters and NotifyCoalesceWaiters: the next waiter, unless its
\* connection has gone, gets the result.
Waiters ==
    LET w == Head(Top.on)
        rest == Frame("waiters", Tail(Top.on), Top.arg)
    IN  /\ Running("waiters")
        /\ IF Top.on = <<>> THEN client' = client /\ stack' = Tail(stack)
           ELSE IF client[w.on].gen # w.gen
           THEN client' = client /\ stack' = <<rest>> \o Tail(stack)
           ELSE /\ client' = [client EXCEPT ![w.on].ep = None]
                /\ stack' = <<Frame("resume", w.on, Top.arg), rest>> \o Tail(stack)
        /\ UNCHANGED <<slot, pending, reconnects, batch, warm, budget>>

CompleteKeepsKeyFault ==
    LET s == Top.on
        r == slot[s]
        ws == IF r.key = None THEN <<>> ELSE pending[r.key].waiters
    IN  /\ Running("complete")
        /\ pending' = IF r.key = None THEN pending ELSE [pending EXCEPT ![r.key] = NoEntry]
        /\ client' = IF r.client = None THEN client
                     ELSE [client EXCEPT ![r.client].ep = None]
        /\ slot' = [slot EXCEPT ![s].client = None]
        /\ stack' = <<Frame("waiters", ws, r.owes),
                      Frame("finish", s, Top.arg),
                      Frame("resume", r.client, r.owes)>> \o Tail(stack)
        /\ UNCHANGED <<reconnects, batch, warm, budget>>

\* CompleteSingleSlotRequest: the key is taken out of the map, the client
\* unlinked, and the waiters served before the slot is.
Complete ==
    LET s == Top.on
        r == slot[s]
        ws == IF r.key = None THEN <<>> ELSE pending[r.key].waiters
    IN  /\ Running("complete")
        /\ pending' = IF r.key = None THEN pending ELSE [pending EXCEPT ![r.key] = NoEntry]
        /\ client' = IF r.client = None THEN client
                     ELSE [client EXCEPT ![r.client].ep = None]
        /\ slot' = [slot EXCEPT ![s].client = None, ![s].key = None]
        /\ stack' = <<Frame("waiters", ws, r.owes),
                      Frame("finish", s, Top.arg),
                      Frame("resume", r.client, r.owes)>> \o Tail(stack)
        /\ UNCHANGED <<reconnects, batch, warm, budget>>

\* ... then a kept-alive slot goes back to the pool (bytes trailing the
\* response may close it again), any other is closed; the client runs last.
Finish ==
    LET s == Top.on
        r == slot[s]
        idle == ReturnToPool(EnterState([r EXCEPT !.aborted = FALSE, !.owes = None], "RECV"))
    IN  /\ Running("finish")
        /\ Apply(s, IF Top.arg = "CLOSE" THEN CloseGently(s, [r EXCEPT !.owes = None], FALSE)
                    ELSE {Does(idle, <<>>)}
                         \cup IF OnPush THEN {CloseForce(s, idle)} ELSE {},
                 Tail(stack))
        /\ UNCHANGED <<batch, warm, budget>>

\* FailSlotOnParseError: the client is told first, then the slot torn down.
ParseError ==
    LET s == Top.on
        c == slot[s].client
    IN  /\ Running("parseError")
        /\ slot' = [slot EXCEPT ![s].client = None]
        /\ client' = IF c = None THEN client ELSE [client EXCEPT ![c].ep = None]
        /\ stack' = <<Frame("resume", c, None), Frame("close", s, None)>> \o Tail(stack)
        /\ UNCHANGED <<pending, reconnects, batch, warm, budget>>

\* Close(slot, true) after a callback (TeardownSlotOnFailure, FailDeferredRequest).
CloseSlot ==
    /\ Running("close")
    /\ Apply(Top.on, {CloseForce(Top.on, slot[Top.on])}, Tail(stack))
    /\ UNCHANGED <<batch, warm, budget>>

ReleaseCountsIdleFault ==
    LET s == Top.on
        k == slot[s].key
    IN  /\ Running("release")
        /\ slot' = [slot EXCEPT ![s] = [@ EXCEPT !.inUse = @ - 1, !.pooledIdle = FALSE,
                                                 !.marked = FALSE, !.timer = "none"]]
        /\ stack' = (IF k = None THEN <<>>
                     ELSE <<Frame("waiters", pending[k].waiters, None), Frame("erase", k, None)>>)
                    \o <<Frame("notify", s, None), Frame("free", s, None)>> \o Tail(stack)
        /\ UNCHANGED <<client, pending, reconnects, batch, warm, budget>>
ReleaseKeepsWaitersFault ==
    LET s == Top.on
    IN  /\ Running("release")
        /\ slot' = [slot EXCEPT ![s] = [@ EXCEPT !.inUse = IF @ = 0 THEN 0 ELSE @ - 1,
                                                 !.pooledIdle = FALSE,
                                                 !.marked = FALSE, !.timer = "none"]]
        /\ stack' = <<Frame("notify", s, None), Frame("free", s, None)>> \o Tail(stack)
        /\ UNCHANGED <<client, pending, reconnects, batch, warm, budget>>

\* ReleaseEndpoint: counters, mark and timer; then the waiters under the slot's
\* key are failed, the entry erased, the client told and the slot freed.
ReleaseEndpoint ==
    LET s == Top.on
        r == slot[s]
        k == r.key
        used == IF r.pooledIdle THEN 0 ELSE 1
    IN  /\ Running("release")
        /\ slot' = [slot EXCEPT ![s] = [r EXCEPT !.inUse = @ - used, !.pooledIdle = FALSE,
                                                 !.marked = FALSE, !.timer = "none"]]
        /\ stack' = (IF k = None THEN <<>>
                     ELSE <<Frame("waiters", pending[k].waiters, None), Frame("erase", k, None)>>)
                    \o <<Frame("notify", s, None), Frame("free", s, None)>> \o Tail(stack)
        /\ UNCHANGED <<client, pending, reconnects, batch, warm, budget>>

\* pending.erase(it)
EraseEntry ==
    /\ Running("erase")
    /\ pending' = [pending EXCEPT ![Top.on] = NoEntry]
    /\ stack' = Tail(stack)
    /\ UNCHANGED <<slot, client, reconnects, batch, warm, budget>>

NotifyForgetsFault ==
    LET s == Top.on
        c == slot[s].client
    IN  /\ Running("notify")
        /\ slot' = [slot EXCEPT ![s].client = None]
        /\ client' = IF c = None THEN client ELSE [client EXCEPT ![c].ep = None]
        /\ stack' = Tail(stack)
        /\ UNCHANGED <<pending, reconnects, batch, warm, budget>>

\* The client of a slot that died is unlinked and resumed with the failure.
NotifyClient ==
    LET s == Top.on
        c == slot[s].client
    IN  /\ Running("notify")
        /\ slot' = [slot EXCEPT ![s].client = None]
        /\ client' = IF c = None THEN client ELSE [client EXCEPT ![c].ep = None]
        /\ stack' = <<Frame("resume", c, None)>> \o Tail(stack)
        /\ UNCHANGED <<pending, reconnects, batch, warm, budget>>

\* Reset and FreeSlot.
FreeSlot ==
    LET s == Top.on
    IN  /\ Running("free")
        /\ slot' = [slot EXCEPT ![s] = Reset(@)]
        /\ stack' = Tail(stack)
        /\ UNCHANGED <<client, pending, reconnects, batch, warm, budget>>

-------------------------------------------------------------------------------
Init ==
    /\ setup \in Setups
    /\ slot = [s \in Slots |-> Closed]
    /\ client = [c \in Clients |-> [NoClient EXCEPT !.live = TRUE, !.gen = 1]]
    /\ pending = [k \in Coalesced |-> NoEntry]
    /\ reconnects = {}
    /\ stack = <<>>
    /\ batch = <<>>
    /\ warm = IF Prewarm < Cardinality(Slots) THEN Prewarm ELSE Cardinality(Slots)
    /\ budget = Budget

\* A handler on the stack goes on.
HandlerStep ==
    \/ Detach \/ FreeClient \/ ReleaseSlot \/ Resume \/ Waiters
    \/ Complete \/ Finish \/ ParseError \/ CloseSlot
    \/ ReleaseEndpoint \/ EraseEntry \/ NotifyClient \/ FreeSlot

CoroutineStep(c) ==
    \/ SendRefused(c)
    \/ \E req \in Reqs : SendCoalesced(c, req)
    \/ \E req \in Reqs, s \in Slots : Send(c, req, s)
    \/ \E s \in Slots : SendUnserializable(c, s)
    \/ \E s \in Slots : ReserveSlot(c, s)
    \/ Unpins(c)
    \/ Returns(c)

LoopStep ==
    \/ \E s \in Slots : PrewarmSlot(s)
    \/ \E s \in Slots : EndpointEvent(s)
    \/ StaleEvent
    \/ \E s \in Slots : SlotExpires(s)
    \/ \E x \in reconnects : HandleReconnects(x)
    \/ \E c \in Clients : ClientAccepted(c)
    \/ \E c \in Clients : RequestArrives(c)
    \/ \E c \in Clients : ResponseSent(c)
    \/ \E c \in Clients : ClientCloses(c)

Next ==
    /\ \/ LoopStep
       \/ HandlerStep
       \/ \E c \in Clients : CoroutineStep(c)
    /\ UNCHANGED setup

\* Handlers and coroutines run to their end, and the timer wheel expires the
\* timers it holds and fires due reconnects.
Fairness ==
    /\ WF_vars(HandlerStep)
    /\ WF_vars(\E c \in Clients : CoroutineStep(c))
    /\ WF_vars(StaleEvent \/ \E s \in Slots : EndpointEvent(s) /\ batch # <<>>)
    /\ \A s \in Slots : SF_vars(SlotExpires(s))

Spec == Init /\ [][Next]_<<vars, setup>> /\ Fairness

-------------------------------------------------------------------------------
(* Properties. *)

Handles(op, on) == \E i \in 1 .. Len(stack) : stack[i].op = op /\ stack[i].on = on
Quiet == stack = <<>>

SlotType ==
    [gen : Nat, leased : BOOLEAN, marked : BOOLEAN, pooledIdle : BOOLEAN, inUse : Int,
     reserved : BOOLEAN, client : Clients \cup {None},
     ev : {"ACCEPT", "CONNECT", "HANDSHAKE", "ONCONNECT", "SEND", "RECV", "SHUTDOWN", "FATAL"},
     alive : BOOLEAN, key : Coalesced \cup {None}, deferred : Reqs \cup {None},
     owes : Reqs \cup {None}, aborted : BOOLEAN, onconn : BOOLEAN, awaiting : BOOLEAN,
     ssl : BOOLEAN, shutting : BOOLEAN, attempts : 0 .. MaxReconnect, tried : 0 .. Addrs,
     timer : {"none", "connect", "request", "idle"}]
ClientType ==
    [live : BOOLEAN, gen : Nat, co : {"none", "runs", "waits", "done"}, async : BOOLEAN,
     ep : Slots \cup {None}, pin : [slot : Slots \cup {None}, gen : Nat],
     req : Reqs \cup {None}]

\* Every field holds a value of its type; retries and addresses stay in bounds.
TypeOK ==
    /\ slot \in [Slots -> SlotType]
    /\ client \in [Clients -> ClientType]
    /\ pending \in [Coalesced -> [by : Slots \cup {None},
                                  waiters : Seq([on : Clients, gen : Nat])]]
    /\ reconnects \subseteq [on : Slots, gen : Nat]
    /\ batch \in Seq([on : Slots \cup Clients, gen : Nat])
    /\ warm \in 0 .. Prewarm
    /\ budget \in 0 .. Budget
    /\ setup \in Setups

\* slotsInUse counts exactly the leased slots, through every path that leases,
\* pools, pins, reconnects or releases a slot (ReleaseEndpoint,
\* ReturnEndpointToPool).
InUseExact ==
    \A s \in Slots : slot[s].inUse =
        IF slot[s].leased /\ ~Handles("free", s) THEN 1 ELSE 0

\* A slot and the client it serves point at each other, and the client waits.
LinksAgree ==
    \A s \in Slots, c \in Clients :
        slot[s].client = c <=> client[c].ep = s /\ client[c].co = "waits" /\ client[c].live

\* No request is forgotten: a suspended client is served by a slot or parked
\* under a key that is in flight.
NoLostClient ==
    Quiet => \A c \in Clients : client[c].co = "waits" =>
        \/ \E s \in Slots : slot[s].client = c
        \/ \E k \in Coalesced : /\ pending[k].by # None
                                /\ \E i \in 1 .. Len(pending[k].waiters) :
                                     pending[k].waiters[i] = Source(c, client[c].gen)

\* A client is given the response to the request it sent, whichever slot or
\* coalesced request produced it.
RightAnswer ==
    \A i \in 1 .. Len(stack) :
        LET f == stack[i]
        IN  f.op = "resume" /\ f.arg # None /\ f.on # None /\ client[f.on].async =>
                f.arg = client[f.on].req

\* No slot is stuck: a leased slot has a timer, or a queued reconnect, or a
\* holder whose coroutine still has the handle.
EverySlotHasAWayOut ==
    Quiet => \A s \in Slots : slot[s].leased =>
        \/ slot[s].timer # "none"
        \/ slot[s].awaiting /\ Source(s, slot[s].gen) \in reconnects
        \/ \E c \in Clients : client[c].pin = [slot |-> s, gen |-> slot[s].gen]

\* A slot in the pool is idle: connected, with nobody's request, response, key
\* or reservation on it, and its idle timeout running.
PoolHoldsIdleSlots ==
    \A s \in Slots : slot[s].pooledIdle /\ ~Handles("release", s) =>
        /\ ~slot[s].leased /\ slot[s].alive /\ ~slot[s].reserved
        /\ slot[s].client = None /\ slot[s].owes = None /\ slot[s].key = None
        /\ ~slot[s].aborted /\ ~slot[s].onconn
        /\ slot[s].timer = "idle"

\* EnterState never meets an illegal transition (it would end the worker).
NoIllegalTransition == ~Crashed

\* asyncData points into a coroutine frame that still exists: when the loop is
\* back, it is set only for a suspended coroutine.
NoStaleAsyncData ==
    Quiet => \A c \in Clients : client[c].async => client[c].co = "waits"

\* The primary of a coalesced request owns its entry until it ends.
EntryHasOwner ==
    Quiet => \A k \in Coalesced : pending[k].by # None => slot[pending[k].by].key = k

\* Waiters are failed by the slot that carries their request and by no other:
\* a slot being released with a key owns the entry of that key.
OnlyOwnerFailsWaiters ==
    \A k \in Coalesced :
        Running("release") /\ slot[Top.on].key = k /\ pending[k].waiters # <<>> =>
            pending[k].by = Top.on

\* A request fails because its address refused the connection only when every
\* address of the host did (TryNextAddress).
RefusedByEveryAddress ==
    Running("release") /\ Top.arg = "refused" => slot[Top.on].tried >= Addrs

\* A request that waits for onConnect is only ever on a slot still connecting.
DeferredOnlyWhileConnecting ==
    Quiet => \A s \in Slots :
        slot[s].deferred # None /\ slot[s].client # None => IsConnecting(slot[s])

\* A pinned handle is honoured only for the coroutine it was issued to.
PinIsExclusive ==
    \A c, d \in Clients :
        c # d /\ client[c].pin # NoPin /\ HandleValid(client[c].pin) =>
            /\ client[d].ep # client[c].pin.slot
            /\ HandleValid(client[d].pin) => client[d].pin.slot # client[c].pin.slot

\* The gauge of leased slots stays exact as long as events are handled one per
\* epoll_wait and nothing is pinned.  (A late event of the same batch decrements
\* it again, and so does a handle that is dropped by the very
\* coroutine ReleaseEndpoint resumes.)
CountedOnce == MaxEvents = 1 /\ ~Pinning => InUseExact

\* Every slot is in one of the states its handlers expect: leased with a way
\* out, its deferred request only while it still connects, given up only after
\* the last address refused, or (unless a dropped handle pooled it while
\* ReleaseEndpoint was still closing it) pooled and idle.
SlotStatesSound ==
    /\ EverySlotHasAWayOut
    /\ DeferredOnlyWhileConnecting
    /\ RefusedByEveryAddress
    /\ ~Pinning => PoolHoldsIdleSlots

\* A coalesced response reaches the clients that asked for it and no others: the
\* entry of a key belongs to the slot that carries it, only that slot fails its
\* waiters, and what a client is resumed with answers its own request.
CoalescingSound == RightAnswer /\ OnlyOwnerFailsWaiters /\ EntryHasOwner

\* A reservation is one coroutine's: no other client uses its slot, and (unless a
\* send fails synchronously, which leaves asyncData set) nothing is left pointing
\* into a coroutine frame that is gone.
PinsSound ==
    /\ PinIsExclusive
    /\ ~Local /\ Connects = {"progress"} => NoStaleAsyncData

\* Every suspended request is eventually answered, failed or abandoned.
EveryRequestEnds ==
    \A c \in Clients : client[c].co = "waits" ~> client[c].co # "waits"

===============================================================================
