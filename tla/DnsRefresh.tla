----------------------------- MODULE DnsRefresh -----------------------------
(***************************************************************************)
(* Registering endpoints and keeping their addresses fresh                 *)
(* (os_specific/linux/epoll_connection.cpp, utils/resolver).  Endpoints    *)
(* are registered once, before the loop runs; each gets its range of timer *)
(* ids and its first address list.  The loop then starts a detached        *)
(* resolver thread when an endpoint is due; the thread pushes its result   *)
(* and signals an eventfd under one mutex, and the loop, woken, swaps the  *)
(* queue out and replaces the address lists, while slots that are          *)
(* connecting walk the same lists with a cursor they share.                *)
(*                                                                         *)
(* An answer carries the version of the name's records it was taken from,  *)
(* so that an old answer applied over a new one shows.                     *)
(***************************************************************************)
EXTENDS Integers, Sequences, FiniteSets

CONSTANTS
    DnsConfigs,    \* EndpointConfigs in use: [limit, aux, prewarm, exact, user, paired, local]
    ClientSlots,   \* slots of the client pool, below every endpoint's timer ids
    SlotUnit,      \* slots of one bitmap word
    RegisterMax,   \* metricsConfig.maxEndpoints
    Hosts,         \* addresses a name server may answer with
    AnswerOf,      \* each version of the records: [a, aaaa], sequences of [addr, ttl]
    HostHash,      \* the endpoint's place in the jitter range, in 64ths
    LiteralTtl,    \* UINT32_MAX: the TTL of an address that needed no query
    DnsThreads,    \* MAX_DNS_THREADS
    MinRefresh, MaxRefresh,
    QueryTimeout,  \* bound on a resolve and the wake-up it sends, in seconds
    Walkers,       \* slots that may be connecting
    CursorRange,   \* 2^16
    MaxClock       \* bound

Record == [addr : Hosts, ttl : Nat]

ASSUME DnsAssumption ==
    /\ ClientSlots \in Nat /\ SlotUnit \in Nat \ {0} /\ RegisterMax \in Nat
    /\ LiteralTtl \in Nat /\ DnsThreads \in Nat
    /\ MinRefresh \in Nat /\ MaxRefresh \in Nat /\ QueryTimeout \in Nat
    /\ CursorRange \in Nat \ {0} /\ MaxClock \in Nat
    /\ HostHash \in [1..RegisterMax -> 0..63]
ASSUME ConfigsAssumption ==
    DnsConfigs \subseteq [limit : Nat, aux : Nat, prewarm : Nat, exact : BOOLEAN, user : Nat,
                          paired : BOOLEAN, local : BOOLEAN]
ASSUME AnswerAssumption ==
    AnswerOf \in Seq([a : Seq(Record), aaaa : Seq(Record)]) /\ AnswerOf # <<>>
\* libc gives a query up long before the ceiling (MAX_REFRESH_SECONDS, an hour) passes
ASSUME TimeoutAssumption == QueryTimeout < MaxRefresh

DnsQueueMax == 2 * DnsThreads

VARIABLES
    entries,   \* endpoints_: config, timer ids, addresses, cursor, next refresh
    phase,     \* "setup", "run" or "fatal"
    clock,     \* seconds
    records,   \* version of the records the name server answers with
    permits,   \* dnsThreadSemaphore_
    threads,   \* detached resolver threads
    queue,     \* dnsResultQueue_
    eventfd,   \* its counter is non-zero
    drain,     \* HandleDnsResultReady has read the eventfd, not yet swapped
    walk,      \* per connecting slot: endpoint, addresses tried in this attempt, outcome
    signalLost \* history: a write to the eventfd failed

dnsVars == <<entries, phase, clock, records, permits, threads, queue, eventfd, drain, walk, signalLost>>

Endpoints == DOMAIN entries
Versions  == DOMAIN AnswerOf

AtLeast(a, b) == IF a > b THEN a ELSE b
AtMost(a, b)  == IF a < b THEN a ELSE b

-----------------------------------------------------------------------------
\* DNSResolver.

NoAnswer == [ok |-> FALSE, version |-> 0, addrs |-> <<>>, ttl |-> 0]

\* TryResolveLocal: a literal address, the hosts file or localhost needs no
\* query and has no TTL
LocalAnswer(v) == [ok |-> TRUE, version |-> v, addrs |-> <<"local">>, ttl |-> LiteralTtl]

Names(rrs) == [k \in DOMAIN rrs |-> rrs[k].addr]

MinTtl(rrs) == LET T == {rrs[k].ttl : k \in DOMAIN rrs} IN CHOOSE t \in T : \A u \in T : t <= u

\* The A and the AAAA query, either of which may fail: what was found is the
\* answer, valid as long as its shortest record
QueriedAnswer(v, gotA, gotAAAA) ==
    LET rrs == (IF gotA THEN AnswerOf[v].a ELSE <<>>) \o (IF gotAAAA THEN AnswerOf[v].aaaa ELSE <<>>) IN
    IF rrs = <<>> THEN NoAnswer
    ELSE [ok |-> TRUE, version |-> v, addrs |-> Names(rrs), ttl |-> MinTtl(rrs)]

\* Resolve: what it may return now
DnsAnswers(cfg) == IF cfg.local THEN {LocalAnswer(records)}
                ELSE {QueriedAnswer(records, gotA, gotAAAA) : gotA, gotAAAA \in BOOLEAN}

-----------------------------------------------------------------------------
\* Registration.

\* ValidateEndpoint: what the loop relies on later
ValidateEndpoint(cfg) == cfg.paired /\ cfg.limit > 0 /\ cfg.prewarm <= cfg.limit

\* Slots of a pool: whole bitmap words unless asked for exactly
PoolSlots(n, exact) == IF exact THEN n ELSE SlotUnit * ((n + SlotUnit - 1) \div SlotUnit)
MainSlots(e) == PoolSlots(e.cfg.limit, e.cfg.exact)
AuxSlots(e)  == PoolSlots(e.cfg.aux, e.cfg.exact)

NextTimerBaseFault(es) ==
    IF es = <<>> THEN ClientSlots
    ELSE LET e == es[Len(es)] IN e.timerBase + MainSlots(e)

\* After the last endpoint's main and side slots, the first after the clients
NextTimerBase(es) ==
    IF es = <<>> THEN ClientSlots
    ELSE LET e == es[Len(es)] IN e.timerBase + MainSlots(e) + AuxSlots(e)

\* ComputeNextDnsRefresh: the interval the TTL and the configuration ask for
\* (a literal address has none and waits for the ceiling), kept in bounds,
\* plus this host's share of the jitter
Interval(ttl, user) ==
    LET asked == IF user > 0 THEN AtMost(user, IF ttl > 0 THEN ttl ELSE user)
                 ELSE IF ttl > 0 THEN ttl ELSE MaxRefresh
    IN AtLeast(MinRefresh, AtMost(asked, MaxRefresh))

Jitter(i, interval) == (HostHash[i] * AtLeast(MinRefresh, interval \div 10)) \div 64

ComputeNextDnsRefresh(ttl, user, i) ==
    IF ttl = LiteralTtl THEN clock + MaxRefresh
    ELSE clock + Interval(ttl, user) + Jitter(i, Interval(ttl, user))

RetrySchedule(i) == ComputeNextDnsRefresh(MinRefresh, 0, i)

\* AllocateEndpoint.  Every refusal is fatal: the process does not start.
AllocateEndpoint(cfg) ==
    /\ phase = "setup"
    /\ IF Len(entries) >= RegisterMax \/ ~ValidateEndpoint(cfg)
       THEN phase' = "fatal" /\ UNCHANGED entries
       ELSE \E r \in DnsAnswers(cfg) :
            IF ~r.ok THEN phase' = "fatal" /\ UNCHANGED entries
            ELSE LET base == NextTimerBase(entries) IN
                 /\ entries' = Append(entries,
                       [cfg |-> cfg, timerBase |-> base, auxTimerBase |-> base + PoolSlots(cfg.limit, cfg.exact),
                        version |-> r.version, addrs |-> r.addrs, cursor |-> 0, marked |-> FALSE,
                        next |-> ComputeNextDnsRefresh(r.ttl, cfg.user, Len(entries) + 1)])
                 /\ UNCHANGED phase
    /\ UNCHANGED <<clock, records, permits, threads, queue, eventfd, drain, walk, signalLost>>

Run ==
    /\ phase = "setup" /\ entries # <<>>
    /\ phase' = "run"
    /\ UNCHANGED <<entries, clock, records, permits, threads, queue, eventfd, drain, walk, signalLost>>

-----------------------------------------------------------------------------
\* Refreshing.

Reschedule(e, at) == [e EXCEPT !.next = at, !.marked = FALSE]

\* A thread is known by the permit it holds
FreePermit == CHOOSE n \in 1..DnsThreads : \A t \in threads : t.permit # n

ThreadStarts(i) ==
    threads' = threads \cup {[permit |-> FreePermit, on |-> i, step |-> "query", answer |-> NoAnswer,
                             since |-> clock, retry |-> RetrySchedule(i)]}

\* HandleDnsRefresh up to the spawn: the ceiling is set first and marks the
\* endpoint as being resolved, so that the loop starts no second resolve
SpawnFault(i) ==
    /\ permits' = permits - 1
    /\ ThreadStarts(i) /\ entries' = [entries EXCEPT ![i].next = clock]

Spawn(i) ==
    \/ /\ permits' = permits - 1
       /\ ThreadStarts(i)
       /\ entries' = [entries EXCEPT ![i].next = clock + MaxRefresh, ![i].marked = TRUE]
    \/ /\ entries' = [entries EXCEPT ![i] = Reschedule(@, RetrySchedule(i))]     \* std::system_error
       /\ UNCHANGED <<threads, permits>>

HandleDnsRefresh(i) ==
    /\ phase = "run" /\ ~drain /\ clock >= entries[i].next
    /\ IF Len(queue) >= DnsQueueMax
       THEN phase' = "fatal" /\ UNCHANGED <<entries, threads, permits>>
       ELSE /\ UNCHANGED phase
            /\ IF permits = 0
               THEN entries' = [entries EXCEPT ![i] = Reschedule(@, RetrySchedule(i))] /\ UNCHANGED <<threads, permits>>
               ELSE Spawn(i)
    /\ UNCHANGED <<clock, records, queue, eventfd, drain, walk, signalLost>>

Moved(t, u) == threads' = (threads \ {t}) \cup {u}

\* The thread's Resolve
Resolve(t) ==
    /\ phase # "fatal" /\ t.step = "query"
    /\ \E r \in DnsAnswers(entries[t.on].cfg) : Moved(t, [t EXCEPT !.step = "push", !.answer = r])
    /\ UNCHANGED <<entries, phase, clock, records, permits, queue, eventfd, drain, walk, signalLost>>

UnsignalledFault(t) == entries

\* When the write fails the thread itself makes the endpoint due again, at the
\* retry time the loop computed when it started the thread
Unsignalled(t) == [entries EXCEPT ![t.on] = Reschedule(@, t.retry)]

\* Push and signal under the mutex
PushResult(t) ==
    /\ phase # "fatal" /\ t.step = "push"
    /\ queue' = Append(queue, [on |-> t.on, answer |-> t.answer, since |-> t.since])
    /\ \/ eventfd' = TRUE /\ UNCHANGED <<entries, signalLost>>
       \/ entries' = Unsignalled(t) /\ signalLost' = TRUE /\ UNCHANGED eventfd
    /\ Moved(t, [t EXCEPT !.step = "exit"])
    /\ UNCHANGED <<phase, clock, records, permits, drain, walk>>

\* SemGuard
ThreadExits(t) ==
    /\ phase # "fatal" /\ t.step = "exit"
    /\ threads' = threads \ {t} /\ permits' = permits + 1
    /\ UNCHANGED <<entries, phase, clock, records, queue, eventfd, drain, walk, signalLost>>

\* HandleDnsResultReady: read the eventfd, then, under the mutex, take the queue
ReadEvent ==
    /\ phase = "run" /\ eventfd /\ ~drain
    /\ eventfd' = FALSE /\ drain' = TRUE
    /\ UNCHANGED <<entries, phase, clock, records, permits, threads, queue, walk, signalLost>>

\* The results of one endpoint are applied in the order of the queue: the last
\* one schedules it, the last that found something replaces its addresses
Latest(S) == CHOOSE k \in S : \A j \in S : j <= k

Refreshed(i) ==
    LET mine == {k \in DOMAIN queue : queue[k].on = i}
        good == {k \in mine : queue[k].answer.ok}
        last == queue[Latest(mine)].answer
        best == queue[Latest(good)].answer
        e    == IF good = {} THEN entries[i]
                ELSE [entries[i] EXCEPT !.version = best.version, !.addrs = best.addrs]
    IN IF mine = {} THEN e
       ELSE Reschedule(e, IF last.ok THEN ComputeNextDnsRefresh(last.ttl, e.cfg.user, i)
                          ELSE RetrySchedule(i))

SwapAndApply ==
    /\ phase = "run" /\ drain
    /\ entries' = [i \in Endpoints |-> Refreshed(i)]
    /\ queue' = <<>> /\ drain' = FALSE
    /\ UNCHANGED <<phase, clock, records, permits, threads, eventfd, walk, signalLost>>

-----------------------------------------------------------------------------
\* Connecting slots: CreateAndConnect and TryNextAddress.

AddrsOf(i) == entries[i].addrs

\* The address the shared cursor picks
Picked(i) == AddrsOf(i)[1 + (entries[i].cursor % Len(AddrsOf(i)))]

CreateAndConnect(s, i, tried) ==
    /\ walk' = [walk EXCEPT ![s] = [on |-> i, tried |-> Append(tried, Picked(i)), gaveUp |-> FALSE]]
    /\ entries' = [entries EXCEPT ![i].cursor = (@ + 1) % CursorRange]

Connect(s, i) ==
    /\ phase = "run" /\ ~drain /\ walk[s].on = 0
    /\ CreateAndConnect(s, i, <<>>)
    /\ UNCHANGED <<phase, clock, records, permits, threads, queue, eventfd, drain, signalLost>>

\* An address answers, or the slot is done with its failure
ConnectEnds(s) ==
    /\ phase = "run" /\ ~drain /\ walk[s].on # 0
    /\ walk' = [walk EXCEPT ![s] = [on |-> 0, tried |-> <<>>, gaveUp |-> FALSE]]
    /\ UNCHANGED <<entries, phase, clock, records, permits, threads, queue, eventfd, drain, signalLost>>

\* An address refuses: the next one, while fewer were tried than the list is long
AddressRefused(s) ==
    /\ phase = "run" /\ ~drain /\ walk[s].on # 0 /\ ~walk[s].gaveUp
    /\ IF Len(walk[s].tried) < Len(AddrsOf(walk[s].on)) THEN CreateAndConnect(s, walk[s].on, walk[s].tried)
       ELSE walk' = [walk EXCEPT ![s].gaveUp = TRUE] /\ UNCHANGED entries
    /\ UNCHANGED <<phase, clock, records, permits, threads, queue, eventfd, drain, signalLost>>

-----------------------------------------------------------------------------
RecordsChange ==
    /\ phase = "run" /\ records + 1 \in Versions
    /\ records' = records + 1
    /\ UNCHANGED <<entries, phase, clock, permits, threads, queue, eventfd, drain, walk, signalLost>>

SecondPasses ==
    /\ phase = "run" /\ clock < MaxClock
    /\ \A t \in threads : clock < t.since + QueryTimeout
    /\ eventfd \/ drain => \A k \in DOMAIN queue : clock < queue[k].since + QueryTimeout
    /\ clock' = clock + 1
    /\ UNCHANGED <<entries, phase, records, permits, threads, queue, eventfd, drain, walk, signalLost>>

DnsInit ==
    /\ entries = <<>> /\ phase = "setup" /\ clock = 0 /\ records = 1
    /\ permits = DnsThreads /\ threads = {} /\ queue = <<>> /\ eventfd = FALSE /\ drain = FALSE /\ signalLost = FALSE
    /\ walk = [s \in Walkers |-> [on |-> 0, tried |-> <<>>, gaveUp |-> FALSE]]

DnsNext ==
    \/ \E cfg \in DnsConfigs : AllocateEndpoint(cfg)
    \/ Run
    \/ \E i \in Endpoints : HandleDnsRefresh(i)
    \/ \E t \in threads : Resolve(t) \/ PushResult(t) \/ ThreadExits(t)
    \/ ReadEvent \/ SwapAndApply
    \/ \E s \in Walkers : ConnectEnds(s) \/ AddressRefused(s) \/ \E i \in Endpoints : Connect(s, i)
    \/ RecordsChange \/ SecondPasses

DnsSpec == DnsInit /\ [][DnsNext]_dnsVars

-----------------------------------------------------------------------------
\* Properties.

\* An endpoint marked as being resolved really is: a thread works on it, or its
\* result waits where a wake-up will find it.  Otherwise the name would not be
\* looked up again until the ceiling, an hour later.
NeverStalled ==
    phase = "run" => \A i \in Endpoints : entries[i].marked =>
        \/ \E t \in threads : t.on = i /\ t.step # "exit"
        \/ (eventfd \/ drain) /\ \E k \in DOMAIN queue : queue[k].on = i

\* The semaphore counts the threads, across spawn failures too.
PermitsExact == permits + Cardinality(threads) = DnsThreads

\* No two slots of any pool share a timer id (RefreshExpiry indexes the wheel
\* with timerBase + index, auxTimerBase + index).
TimerIdsDisjoint ==
    LET ids(e) == (e.timerBase .. e.timerBase + MainSlots(e) - 1)
        aux(e) == (e.auxTimerBase .. e.auxTimerBase + AuxSlots(e) - 1)
    IN \A i, j \in Endpoints :
          /\ ids(entries[i]) \cap aux(entries[j]) = {}
          /\ i # j => ids(entries[i]) \cap ids(entries[j]) = {} /\ aux(entries[i]) \cap aux(entries[j]) = {}
          /\ \A k \in ids(entries[i]) : k >= ClientSlots

\* What the resolver threads and the loop share stays consistent: no endpoint
\* is left waiting for a result that no wake-up will bring, no thread is lost
\* from the count, and no two pools share a timer.
DnsSound == NeverStalled /\ PermitsExact /\ TimerIdsDisjoint

\* Results of different threads never undo one another: once an endpoint uses
\* an answer, no older one replaces it.  A lost signal ends this: the result it
\* was for is applied with a later wake-up and schedules the next resolve while
\* the retry may still be running.
AddressesNeverGoBack ==
    [][~signalLost => \A i \in Endpoints : entries'[i].version >= entries[i].version]_dnsVars

\* An attempt gives up only after every address of the list refused it
\* (HandleConnectFailure: "walk the list before giving up on the slot").
WalksTheWholeList ==
    \A s \in Walkers : walk[s].gaveUp =>
        \A k \in DOMAIN AddrsOf(walk[s].on) :
            \E j \in DOMAIN walk[s].tried : walk[s].tried[j] = AddrsOf(walk[s].on)[k]
=============================================================================
