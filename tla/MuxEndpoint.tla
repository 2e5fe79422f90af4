---------------------------- MODULE MuxEndpoint ----------------------------
(***************************************************************************)
(* A multiplexed endpoint (EndpointDesc::hasCapacity is set): several       *)
(* requests share one upstream connection, each under the stream key that   *)
(* serialize() gave it.  Unlike the single-request slots of EndpointSlots,   *)
(* a slot is picked by looking at its live state, so a coroutine resumed in  *)
(* the middle of a teardown may send again and meet the very slot that is    *)
(* going down.  Every handler is an operator from a state to the set of      *)
(* states it may leave, because each client callback runs user code that     *)
(* finishes or retries at once.                                              *)
(*                                                                         *)
(* The slot's socket is edge triggered: "edge" says that epoll will report   *)
(* the slot, "sock" holds the answers nobody has read yet.                   *)
(***************************************************************************)
EXTENDS Integers, FiniteSets

CONSTANTS
    MuxClients, NoClient,
    MuxSlots,           \* the endpoint's pool
    StreamCap,          \* EndpointConfig::maxConcurrentStreams
    MaxKey,             \* bound: requests serialized in a behaviour
    Hooked,             \* the values desc.onConnect # nullptr may take
    Verdicts            \* what parse() may say of the connection, beside a key

VARIABLES mslot, mclient, inUse, coalesced, nextKey, hook,
          overdrawn           \* history: leases given back by a slot that held none

muxVars == <<mslot, mclient, inUse, coalesced, nextKey, hook, overdrawn>>

NoSlotYet == 0

FreshMuxSlot ==
    [alloc |-> FALSE, conn |-> "close", ev |-> "none", down |-> FALSE, idle |-> FALSE,
     map |-> FALSE, streams |-> {}, wait |-> NoClient, shared |-> FALSE,
     out |-> {}, asked |-> {}, sock |-> {}, edge |-> FALSE, full |-> FALSE]

FreshClient == [busy |-> FALSE, at |-> NoSlotYet, key |-> 0, gen |-> 1]

\* The world the handlers pass along; "spent" is the next stream key
World == [s |-> mslot, c |-> mclient, u |-> inUse, co |-> coalesced, n |-> nextKey, o |-> overdrawn]

Slot(x, s, f) == [x EXCEPT !.s[s] = f]
Client(x, c, f) == [x EXCEPT !.c[c] = f]

-----------------------------------------------------------------------------
(* Leases                                                                   *)

MultiplexReleaseLeaseIfIdle(x, s) ==
    IF x.s[s].idle \/ x.s[s].streams # {} THEN x
    ELSE [x EXCEPT !.u = @ - 1, !.s[s].idle = TRUE]

MultiplexReacquireLease(x, s) ==
    IF x.s[s].idle THEN [x EXCEPT !.u = @ + 1, !.s[s].idle = FALSE] ELSE x

\* The slot keeps its connection and leaves the bitmap; unlike the two above this
\* does not ask whether it is idle already
ReturnEndpointToPool(x, s) ==
    [x EXCEPT !.s[s].alloc = FALSE, !.s[s].idle = TRUE, !.u = @ - 1,
              !.o = IF x.s[s].idle THEN @ + 1 ELSE @]

\* An already open slot that may take one more stream; the hint the code tries
\* first only decides which of several, so any of them is taken
FindMultiplexableSlotFault(x) ==
    {s \in MuxSlots : /\ x.s[s].alloc /\ x.s[s].conn = "alive"
                      /\ x.s[s].ev \in {"recv", "send"}
                      /\ Cardinality(x.s[s].streams) < StreamCap}

FindMultiplexableSlot(x) ==
    {s \in MuxSlots : /\ x.s[s].alloc /\ ~x.s[s].down /\ x.s[s].conn = "alive"
                      /\ x.s[s].ev \in {"recv", "send"}
                      /\ Cardinality(x.s[s].streams) < StreamCap}

\* A free slot, one whose connection is still open before one that must dial
GetEndpointConnection(x) ==
    LET free == {s \in MuxSlots : ~x.s[s].alloc}
        open == {s \in free : x.s[s].conn = "alive"}
    IN  IF open # {} THEN open ELSE free

Lease(x, s) == [x EXCEPT !.s[s].alloc = TRUE, !.s[s].idle = FALSE, !.u = @ + 1]

-----------------------------------------------------------------------------
(* Sending.  A send answers PENDING (the client waits) or fails at once (the *)
(* client goes on without having waited).                                    *)

Park(x, c, s, k) == Client(x, c, [x.c[c] EXCEPT !.busy = TRUE, !.at = s, !.key = k])

\* serialize() assigned key x.n; the bytes join the tail of the write buffer
Register(x, s, c, shares) ==
    [x EXCEPT !.n = @ + 1,
              !.s[s].map = TRUE,
              !.s[s].streams = @ \union {[k |-> x.n, c |-> c, gen |-> x.c[c].gen, shares |-> shares]},
              !.s[s].out = @ \union {x.n},
              !.co = IF shares THEN [on |-> TRUE, waiters |-> @.waiters] ELSE @]

\* The bytes are queued: epoll is re-armed, which reports the slot again
Arm(x, s) == [x EXCEPT !.s[s].ev = "send", !.s[s].edge = TRUE]

\* The request is taken back after epoll refused the re-arm
Unregister(x, s, k, shares) ==
    LET y == [x EXCEPT !.s[s].streams = {r \in @ : r.k # k}, !.s[s].out = @ \ {k},
                       !.co = IF shares THEN [on |-> FALSE, waiters |-> {}] ELSE @]
    IN  MultiplexReleaseLeaseIfIdle(y, s)

SendPayloadMultiplexed(x, c, shares) ==
    LET open == FindMultiplexableSlot(x)
        Reuse(s) == LET y == MultiplexReacquireLease(Register(x, s, c, shares), s)
                    IN  {Arm(Park(y, c, s, x.n), s),
                         Unregister(y, s, x.n, shares),     \* EPOLL_ERROR
                         x}                                  \* SERIALIZE_ERROR
        Dial(s) ==
            LET y == Lease(x, s) IN
            IF x.s[s].conn = "alive"        \* an idle connection from the pool
            THEN {Arm(Park(Register(y, s, c, shares), c, s, x.n), s)}
            ELSE LET z == [y EXCEPT !.s[s].conn = "connecting", !.s[s].ev = "connect"]
                 IN  {IF hook
                      THEN [Client(z, c, [z.c[c] EXCEPT !.busy = TRUE, !.at = s])
                               EXCEPT !.s[s].wait = c, !.s[s].shared = shares]
                      ELSE Park(Register(z, s, c, shares), c, s, x.n),
                      x}                                     \* CONNECT_FAILURE
    IN  IF open # {} THEN UNION {Reuse(s) : s \in open}
        ELSE IF GetEndpointConnection(x) = {} THEN {x}       \* POOL_EXHAUSTED
        ELSE UNION {Dial(s) : s \in GetEndpointConnection(x)}

\* An identical request in flight takes the client as a waiter, with no slot
SendPayload(x, c, shares) ==
    IF shares /\ x.co.on
    THEN {[Client(x, c, [x.c[c] EXCEPT !.busy = TRUE])
              EXCEPT !.co.waiters = @ \union {<<c, x.c[c].gen>>}]}
    ELSE IF x.n > MaxKey THEN {x} ELSE SendPayloadMultiplexed(x, c, shares)

\* The callback runs the client's coroutine: it is done, or it asks again
HandleClientAsyncCallback(x, c, k) ==
    LET y == Client(x, c, [x.c[c] EXCEPT !.busy = FALSE, !.at = NoSlotYet, !.key = k])
    IN  {y} \union UNION {SendPayload(y, c, shares) : shares \in BOOLEAN}

-----------------------------------------------------------------------------
(* Answers and teardown                                                      *)

RECURSIVE Wake(_, _)
\* Every waiter whose client is still the one that parked, in any order
Wake(x, waiters) ==
    IF waiters = {} THEN {x}
    ELSE UNION {LET rest == waiters \ {w} IN
                IF x.c[w[1]].gen # w[2] THEN Wake(x, rest)
                ELSE UNION {Wake(y, rest) : y \in HandleClientAsyncCallback(x, w[1], x.c[w[1]].key)} :
                w \in waiters}

\* The waiters leave the table before any of them runs
TakeWaiters(x, r) == IF r.shares THEN [x EXCEPT !.co = [on |-> FALSE, waiters |-> {}]] ELSE x
WaitersOf(x, r) == IF r.shares THEN x.co.waiters ELSE {}

ResolveMultiplexedStreamFault(x, s, k) ==
    LET r == CHOOSE q \in x.s[s].streams : q.k = k
        y == TakeWaiters([x EXCEPT !.s[s].streams = @ \ {r}], r)
        told == UNION {HandleClientAsyncCallback(z, r.c, 0) : z \in Wake(y, WaitersOf(x, r))}
    IN  IF \A q \in x.s[s].streams : q.k # k THEN {x}
        ELSE {IF z.s[s].down THEN z
              ELSE [z EXCEPT !.u = @ - 1, !.s[s].idle = TRUE] : z \in told}

ResolveMultiplexedStream(x, s, k) ==
    LET r == CHOOSE q \in x.s[s].streams : q.k = k
        y == TakeWaiters([x EXCEPT !.s[s].streams = @ \ {r}], r)
        told == UNION {HandleClientAsyncCallback(z, r.c, 0) : z \in Wake(y, WaitersOf(x, r))}
    IN  IF \A q \in x.s[s].streams : q.k # k THEN {x}        \* its client left before
        ELSE {IF z.s[s].streams = {} /\ ~z.s[s].down
              THEN MultiplexReleaseLeaseIfIdle(z, s) ELSE z : z \in told}

RECURSIVE FailOrphans(_, _)
\* The streams were detached from the slot: each fails its waiters, then its client
FailOrphans(x, orphaned) ==
    IF orphaned = {} THEN {x}
    ELSE UNION {UNION {UNION {FailOrphans(z, orphaned \ {r}) :
                              z \in IF y.c[r.c].gen = r.gen
                                    THEN HandleClientAsyncCallback(y, r.c, y.c[r.c].key) ELSE {y}} :
                       y \in Wake(TakeWaiters(x, r), WaitersOf(x, r))} :
                r \in orphaned}

FinalizeEndpointRequest(x, s) ==
    FailOrphans([x EXCEPT !.s[s].streams = {}, !.s[s].map = FALSE], x.s[s].streams)

\* The lease, the streams, the client parked for onConnect, then the slot itself
ReleaseEndpoint(x, s) ==
    LET y == [x EXCEPT !.u = IF x.s[s].idle THEN @ ELSE @ - 1, !.s[s].idle = FALSE]
        Owed(z) == IF z.s[s].shared /\ z.co.on
                   THEN Wake([z EXCEPT !.co = [on |-> FALSE, waiters |-> {}]], z.co.waiters) ELSE {z}
        Told(z) == LET c == z.s[s].wait IN
                   IF c = NoClient THEN {z}
                   ELSE HandleClientAsyncCallback([z EXCEPT !.s[s].wait = NoClient], c, z.c[c].key)
    IN  {Slot(z, s, FreshMuxSlot) :
            z \in UNION {Told(w) : w \in UNION {Owed(v) : v \in FinalizeEndpointRequest(y, s)}}}

\* Close(ctx, true): nothing waits for a TLS shutdown
Close(x, s) == ReleaseEndpoint([x EXCEPT !.s[s].down = TRUE], s)

\* The flag goes up before the callbacks of Finalize run
TeardownSlotOnFailure(x, s) ==
    UNION {Close(y, s) : y \in FinalizeEndpointRequest([x EXCEPT !.s[s].down = TRUE], s)}

\* A connect that failed with a client waiting: finalize, then close
HandleConnectFailure(x, s) == UNION {Close(y, s) : y \in FinalizeEndpointRequest(x, s)}

-----------------------------------------------------------------------------
(* The slot's events                                                         *)

\* All queued bytes go out, or the socket takes no more for now
Write(x, s) ==
    {[x EXCEPT !.s[s].asked = @ \union x.s[s].out, !.s[s].out = {}, !.s[s].ev = "recv"],
     [x EXCEPT !.s[s].ev = "send", !.s[s].full = TRUE]}

\* The handshake is over: a request that waited for it is serialized now
OnSlotConnected(x, s) ==
    LET c == x.s[s].wait
        y == [x EXCEPT !.s[s].conn = "alive", !.s[s].edge = FALSE]
        z == [y EXCEPT !.s[s].wait = NoClient, !.s[s].shared = FALSE]
        Failed == UNION {Close(w, s) : w \in HandleClientAsyncCallback(z, c, 0)}
    IN  IF c = NoClient THEN Write(y, s)
        ELSE IF x.n > MaxKey THEN Failed
        ELSE UNION {Write(Client(Register(z, s, c, x.s[s].shared), c, [z.c[c] EXCEPT !.key = x.n]), s),
                    Failed}

\* The bytes are parsed: every answered stream is resolved, then the verdict on
\* the connection itself is acted on
RECURSIVE HandleReceiveMultiplexed(_, _, _, _)
HandleReceiveMultiplexed(x, s, keys, verdict) ==
    IF keys # {}
    THEN UNION {UNION {HandleReceiveMultiplexed(y, s, keys \ {k}, verdict) :
                       y \in ResolveMultiplexedStream(x, s, k)} : k \in keys}
    ELSE CASE verdict = "more"  -> {x}
           [] verdict = "error" -> TeardownSlotOnFailure(x, s)
           [] verdict = "close" -> UNION {Close(y, s) :
                  y \in FinalizeEndpointRequest([x EXCEPT !.s[s].down = TRUE], s)}
           [] verdict = "keep"  ->
                 {ReturnEndpointToPool([y EXCEPT !.s[s].down = FALSE, !.s[s].ev = "recv"], s) :
                  y \in FinalizeEndpointRequest([x EXCEPT !.s[s].down = TRUE], s)}

HandleEndpointEpollIn(x, s, verdict) ==
    IF x.s[s].ev # "recv" THEN {x}      \* ignored: the connection is doing something else
    ELSE LET y == [x EXCEPT !.s[s].sock = {}]
         IN  IF x.s[s].streams # {} THEN HandleReceiveMultiplexed(y, s, x.s[s].sock, verdict)
             ELSE Close(y, s)           \* HandleEndpointPush without onPush

HandleEndpointWriteReady(x, s) == IF x.s[s].ev = "send" THEN Write(x, s) ELSE {x}

-----------------------------------------------------------------------------
(* Actions                                                                   *)

Becomes(x) ==
    /\ mslot' = x.s /\ mclient' = x.c /\ inUse' = x.u /\ coalesced' = x.co
    /\ nextKey' = x.n /\ overdrawn' = x.o /\ hook' = hook

Ask(c, shares) ==
    /\ ~mclient[c].busy /\ nextKey <= MaxKey
    /\ \E x \in SendPayload(World, c, shares) : x # World /\ Becomes(x)

Connected(s) == mslot[s].conn = "connecting" /\ \E x \in OnSlotConnected(World, s) : Becomes(x)

ConnectFails(s) == mslot[s].conn = "connecting" /\ \E x \in HandleConnectFailure(World, s) : Becomes(x)

\* One report of epoll: input first, then output unless the input ended the slot
HandleEndpointEvent(s) ==
    /\ mslot[s].conn = "alive" /\ mslot[s].edge
    /\ LET seen == [World EXCEPT !.s[s].edge = FALSE] IN
       \E verdict \in Verdicts :
       \E x \in IF mslot[s].sock # {} THEN HandleEndpointEpollIn(seen, s, verdict) ELSE {seen} :
       \E y \in IF ~mslot[s].full /\ x.s[s].conn = "alive" THEN HandleEndpointWriteReady(x, s) ELSE {x} :
          Becomes(y)

\* The upstream answers a stream it was asked; new bytes raise an edge
Answers(s, k) ==
    /\ mslot[s].conn = "alive" /\ k \in mslot[s].asked
    /\ mslot' = [mslot EXCEPT ![s].asked = @ \ {k}, ![s].sock = @ \union {k}, ![s].edge = TRUE]
    /\ UNCHANGED <<mclient, inUse, coalesced, nextKey, hook, overdrawn>>

\* The peer's window opens again
Writable(s) ==
    /\ mslot[s].full
    /\ mslot' = [mslot EXCEPT ![s].full = FALSE, ![s].edge = TRUE]
    /\ UNCHANGED <<mclient, inUse, coalesced, nextKey, hook, overdrawn>>

\* The wheel's callback: a connect timeout, a request timeout or the idle timeout
Expire(s) ==
    \/ /\ mslot[s].conn = "connecting"
       /\ \E x \in HandleConnectFailure(World, s) : Becomes(x)
    \/ mslot[s].conn = "alive" /\ \E x \in Close(World, s) : Becomes(x)

\* The client's connection dies.  A stream is dropped by its key; a request that
\* still waits for onConnect takes its slot along
ReleaseClient(c) ==
    LET s == mclient[c].at
        x == Client(World, c, [FreshClient EXCEPT !.gen = mclient[c].gen + 1])
        mine == {r \in mslot[s].streams : r.k = mclient[c].key}
        Dropped(r) == Wake(TakeWaiters([x EXCEPT !.s[s].streams = @ \ {r}], r), WaitersOf(x, r))
    IN  /\ mclient[c].gen < 2 /\ mclient[c].busy
        /\ \E y \in IF s = NoSlotYet THEN {x}
                    ELSE IF mclient[c].key # 0 /\ mslot[s].map
                    THEN IF mine = {} THEN {x} ELSE Dropped(CHOOSE r \in mine : TRUE)
                    ELSE Close([x EXCEPT !.s[s].wait = NoClient], s) :
              Becomes(y)

MuxInit ==
    /\ mslot = [s \in MuxSlots |-> FreshMuxSlot]
    /\ mclient = [c \in MuxClients |-> FreshClient]
    /\ inUse = 0 /\ coalesced = [on |-> FALSE, waiters |-> {}] /\ nextKey = 1
    /\ overdrawn = 0
    /\ hook \in Hooked

MuxNext ==
    \/ \E c \in MuxClients : ReleaseClient(c) \/ \E shares \in BOOLEAN : Ask(c, shares)
    \/ \E s \in MuxSlots :
          \/ Connected(s) \/ ConnectFails(s) \/ HandleEndpointEvent(s)
          \/ Writable(s) \/ Expire(s) \/ \E k \in 1..MaxKey : Answers(s, k)

-----------------------------------------------------------------------------
(* Properties                                                                *)

\* A client that waits is waited for: by its own stream, by the slot that still
\* runs onConnect for it, or by the master of the request it joined
EveryWaiterHeld ==
    \A c \in MuxClients : mclient[c].busy =>
        LET s == mclient[c].at IN
        IF s = NoSlotYet
        THEN coalesced.on /\ <<c, mclient[c].gen>> \in coalesced.waiters
        ELSE \/ mslot[s].conn = "connecting" /\ mslot[s].wait = c
             \/ \E r \in mslot[s].streams : r.c = c /\ r.k = mclient[c].key /\ r.gen = mclient[c].gen

\* Streams belong to clients that wait for them, on slots that are leased and
\* not going down
StreamsOwned ==
    \A s \in MuxSlots : \A r \in mslot[s].streams :
        /\ mslot[s].alloc /\ ~mslot[s].down /\ mslot[s].map
        /\ mclient[r.c].busy /\ mclient[r.c].at = s /\ mclient[r.c].gen = r.gen

\* A request others joined is in flight on some slot, or they would wait for ever
MasterInFlight ==
    coalesced.on => \E s \in MuxSlots : \E r \in mslot[s].streams : r.shares

\* Safety of a shared connection under callbacks that send again at once
\* (SendPayloadMultiplexed, FinalizeEndpointRequest, ResolveMultiplexedStream)
MuxStreamsSound == EveryWaiterHeld /\ StreamsOwned /\ MasterInFlight

\* slotsInUse counts the leased slots that are not idle, less one for every time
\* parse() kept a connection whose slot was idle already, and an idle slot
\* carries no stream
MuxLeaseExact ==
    /\ inUse + overdrawn = Cardinality({s \in MuxSlots : mslot[s].alloc /\ ~mslot[s].idle})
    /\ \A s \in MuxSlots : mslot[s].idle => mslot[s].streams = {}

\* "only decrement once per idle window": also when parse() answers the last
\* stream and keeps the connection with one and the same call
LeaseGivenBackOnce == overdrawn = 0

\* Input is never left behind: while a slot is receiving, bytes in its socket are
\* announced by an event that is still to come (edge-triggered epoll)
UnreadIsAnnounced ==
    \A s \in MuxSlots :
        mslot[s].conn = "alive" /\ mslot[s].ev = "recv" /\ mslot[s].sock # {} => mslot[s].edge
=============================================================================
