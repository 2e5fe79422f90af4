-------------------------------- MODULE Limits ---------------------------------
(***************************************************************************)
(* The two limiters a request passes (CoreEngine::AllowRequest and         *)
(* HandleClose in engine/core_engine.cpp): ConnectionLimiter counts the    *)
(* open connections of an identity, RequestRateLimiter keeps a token       *)
(* bucket per identity in a fixed pool threaded by an LRU list.  The       *)
(* identity is the resolved, masked client address (http/limits/           *)
(* ip_utils.cpp): behind a trusted proxy it is read from a header.         *)
(***************************************************************************)
EXTENDS Integers, Sequences, FiniteSets

CONSTANTS Conns,               \* client connection slots
          Peers,               \* socket peers a connection may have
          Trusted,             \* addresses some trustedProxies block matches
          Junk,                \* a hop ParseIpAddress rejects
          Chains,              \* values the real-ip header may carry; <<>> absent
          SubnetOf,            \* NormalizeIp: address -> identity
          RealIpRecursive,     \* ipConfig.realIpRecursive
          MaxConnectionsPerIp, MaxTracked, Burst, TokensPerTick,
          MaxNow,              \* bound on the clock
          NoNode

ASSUME LimitsAssumption ==
    /\ MaxTracked \in Nat \ {0} /\ Burst \in Nat /\ TokensPerTick \in Nat
    /\ MaxConnectionsPerIp \in Nat /\ MaxNow \in Nat
ASSUME ConnsAssumption == IsFiniteSet(Conns)
\* K_NO_LIMITER_NODE is the index of no node.
ASSUME NoNodeAssumption == NoNode \notin 1 .. MaxTracked
\* Peers and the hops that parse are addresses; what does not parse is none.
ASSUME AddressAssumption ==
    /\ Peers \subseteq DOMAIN SubnetOf
    /\ Chains \subseteq Seq(DOMAIN SubnetOf \cup {Junk})
    /\ Junk \notin Trusted

VARIABLES open,        \* connections in use: conn -> [peer, info, ip, rl]
          connCount,   \* ConnectionLimiter::connLimits_: identity -> count
          index,       \* RequestRateLimiter::index_: identity -> node
          node,        \* pool_: node -> [key, ref, tokens, last, prev, next]
          head, tail,  \* head_, tail_ of the LRU list
          now,         \* the steady clock, in refill ticks
          tenure,      \* history: identity -> [since, granted] while tracked
          verdict      \* history: the last step's resolution

limitVars == <<open, connCount, index, node, head, tail, now, tenure, verdict>>

Nodes == 1..MaxTracked
Identities == {SubnetOf[a] : a \in DOMAIN SubnetOf}
With(f, k, v) == [x \in DOMAIN f \cup {k} |-> IF x = k THEN v ELSE f[x]]
Drop(f, k) == [x \in DOMAIN f \ {k} |-> f[x]]

-----------------------------------------------------------------------------
(* Who the client is.                                                      *)

(* ResolveClientIp(): walk the hops right to left past trusted proxies,    *)
(* stop at the first hop that is not one, or at the leftmost.              *)
HopFault(chain) ==
    LET honest == {i \in DOMAIN chain : chain[i] = Junk \/ chain[i] \notin Trusted}
    IN IF honest = {} THEN chain[1]
       ELSE chain[CHOOSE i \in honest : \A j \in honest : i <= j]
Hop(chain) ==
    LET honest == {i \in DOMAIN chain : chain[i] = Junk \/ chain[i] \notin Trusted}
    IN IF honest = {} THEN chain[1]
       ELSE chain[CHOOSE i \in honest : \A j \in honest : i >= j]

(* Without realIpRecursive the whole value must be one address.            *)
ResolveClientIp(peer, chain) ==
    IF peer \notin Trusted \/ chain = <<>> THEN peer
    ELSE LET hop == IF RealIpRecursive THEN Hop(chain)
                    ELSE IF Len(chain) = 1 THEN chain[1] ELSE Junk
         IN IF hop = Junk THEN peer ELSE hop

-----------------------------------------------------------------------------
(* The LRU list.                                                           *)
Lru == [node |-> node, head |-> head, tail |-> tail]

UnlinkNode(l, i) ==
    LET p == l.node[i].prev   n == l.node[i].next
        A == IF p = NoNode THEN l.node ELSE [l.node EXCEPT ![p].next = n]
        B == IF n = NoNode THEN A ELSE [A EXCEPT ![n].prev = p]
    IN [node |-> [B EXCEPT ![i].prev = NoNode, ![i].next = NoNode],
        head |-> IF p = NoNode THEN n ELSE l.head,
        tail |-> IF n = NoNode THEN p ELSE l.tail]

LinkFrontFault(l, i) ==
    LET A == [l.node EXCEPT ![i].prev = NoNode, ![i].next = l.head]
    IN [node |-> A, head |-> i, tail |-> IF l.tail = NoNode THEN i ELSE l.tail]
LinkFront(l, i) ==
    LET A == [l.node EXCEPT ![i].prev = NoNode, ![i].next = l.head]
    IN [node |-> IF l.head = NoNode THEN A ELSE [A EXCEPT ![l.head].prev = i],
        head |-> i,
        tail |-> IF l.tail = NoNode THEN i ELSE l.tail]

TouchNode(l, i) == IF i = l.head THEN l ELSE LinkFront(UnlinkNode(l, i), i)

Live == {index[k] : k \in DOMAIN index}

(* FindOrCreate()'s eviction walks from the tail over prev up to the first *)
(* node no connection holds: the victim is the one evictable node of those *)
(* the walk cannot leave out.                                              *)
EvictableFault == {i \in Live : \A j \in Live : node[j].last >= node[i].last}
Evictable == {i \in Live : node[i].ref = 0}
WalksFromTail(S) ==
    /\ tail \in S \cup {NoNode}
    /\ \A j \in S \ Evictable : node[j].prev \in S \cup {NoNode}
VictimNode ==
    CHOOSE i \in Evictable : \A S \in SUBSET Nodes : WalksFromTail(S) => i \in S

Seed(key) == [key |-> key, ref |-> 1, tokens |-> Burst, last |-> now,
              prev |-> NoNode, next |-> NoNode]

(* Acquire(): a tracked identity is touched and referenced; a new one gets *)
(* a free node, or the victim's, with a full bucket; or neither exists.    *)
Outcome(ok, l, ix, ten) == [ok |-> ok, lru |-> l, index |-> ix, tenure |-> ten]
Tracked(key) ==
    LET l == TouchNode(Lru, index[key])
    IN Outcome(TRUE, [l EXCEPT !.node[index[key]].ref = @ + 1], index, tenure)
Created(key, i, l, ix, ten) ==
    Outcome(TRUE, LinkFront([l EXCEPT !.node[i] = Seed(key)], i), With(ix, key, i),
            With(ten, key, [since |-> now, granted |-> 0]))
AcquireFault(key) ==
    IF key \in DOMAIN index THEN
        LET t == Tracked(key) IN [t EXCEPT !.lru.node[index[key]].tokens = Burst]
    ELSE IF Nodes \ Live # {} THEN
        Created(key, CHOOSE i \in Nodes \ Live : TRUE, Lru, index, tenure)
    ELSE IF Evictable = {} THEN Outcome(FALSE, Lru, index, tenure)
    ELSE Created(key, VictimNode, UnlinkNode(Lru, VictimNode), Drop(index, node[VictimNode].key),
                 Drop(tenure, node[VictimNode].key))
Acquire(key) ==
    IF key \in DOMAIN index THEN Tracked(key)
    ELSE IF Nodes \ Live # {} THEN
        Created(key, CHOOSE i \in Nodes \ Live : TRUE, Lru, index, tenure)
    ELSE IF Evictable = {} THEN Outcome(FALSE, Lru, index, tenure)
    ELSE Created(key, VictimNode, UnlinkNode(Lru, VictimNode), Drop(index, node[VictimNode].key),
                 Drop(tenure, node[VictimNode].key))

(* The bucket after AllowRequest() refills it, and what it then grants.    *)
Refilled(b) ==
    LET refill == (now - b.last) * TokensPerTick
    IN IF refill = 0 THEN b
       ELSE [b EXCEPT !.last = now,
                      !.tokens = IF @ + refill > Burst THEN Burst ELSE @ + refill]
Grant(o, key) ==
    IF key \notin DOMAIN o.index THEN [o EXCEPT !.ok = FALSE]
    ELSE LET i == o.index[key]
             l == TouchNode(o.lru, i)
             b == Refilled(l.node[i])
         IN IF b.tokens = 0
            THEN [o EXCEPT !.ok = FALSE, !.lru = [l EXCEPT !.node[i] = b]]
            ELSE [o EXCEPT !.lru = [l EXCEPT !.node[i] = [b EXCEPT !.tokens = @ - 1]],
                           !.tenure[key].granted = @ + 1]

Adopt(o) == /\ node' = o.lru.node /\ head' = o.lru.head /\ tail' = o.lru.tail
            /\ index' = o.index /\ tenure' = o.tenure

-----------------------------------------------------------------------------
NoVerdict == [peer |-> Junk, chain |-> <<>>, to |-> Junk]

LimitInit ==
    /\ open = << >> /\ connCount = << >> /\ index = << >>
    /\ node = [i \in Nodes |-> [key |-> NoNode, ref |-> 0, tokens |-> 0, last |-> 0,
                                prev |-> NoNode, next |-> NoNode]]
    /\ head = NoNode /\ tail = NoNode /\ now = 0 /\ tenure = << >>
    /\ verdict = NoVerdict

AcceptFrom(c, p) ==
    /\ c \notin DOMAIN open
    /\ open' = With(open, c, [info |-> p, ip |-> FALSE, rl |-> FALSE])
    /\ UNCHANGED <<connCount, index, node, head, tail, now, tenure>>
    /\ verdict' = NoVerdict

Connections(key) == IF key \in DOMAIN connCount THEN connCount[key] ELSE 0

(* A refused connection leaves its identity's counter as it was.           *)
AllowConnection(key) ==
    With(connCount, key, IF Connections(key) < MaxConnectionsPerIp THEN Connections(key) + 1
                         ELSE Connections(key))

(* AllowRequest(): the connection is resolved and counted once, acquires   *)
(* its bucket once, with a retry on the next request, then spends a token. *)
AllowRequest(c, chain) ==
    LET o    == open[c]
        to   == IF o.ip THEN o.info ELSE ResolveClientIp(o.info, chain)
        key  == SubnetOf[to]
        conn == o.ip \/ Connections(key) < MaxConnectionsPerIp
        held == IF o.rl THEN Outcome(TRUE, Lru, index, tenure) ELSE Acquire(key)
    IN /\ c \in DOMAIN open
       /\ verdict' = IF o.ip THEN NoVerdict
                     ELSE [peer |-> o.info, chain |-> chain, to |-> to]
       /\ connCount' = IF o.ip THEN connCount ELSE AllowConnection(key)
       /\ open' = [open EXCEPT ![c].info = to, ![c].ip = conn, ![c].rl = conn /\ held.ok]
       /\ IF conn THEN Adopt(IF held.ok THEN Grant(held, key) ELSE held)
          ELSE UNCHANGED <<index, node, head, tail, tenure>>
       /\ UNCHANGED now

(* The counter never passes below zero and goes with the last connection. *)
ReleaseConnection(key) ==
    IF connCount[key] = 1 THEN Drop(connCount, key) ELSE [connCount EXCEPT ![key] = @ - 1]

(* The bucket outlives its connections: only its count goes down.          *)
Release(key) ==
    IF key \in DOMAIN index
    THEN [node EXCEPT ![index[key]].ref = IF @ > 0 THEN @ - 1 ELSE 0]
    ELSE node

(* HandleClose(): each release is gated on the bit of its own acquire.     *)
HandleCloseFault(c) ==
    LET o   == open[c]
        key == SubnetOf[o.info]
    IN /\ c \in DOMAIN open
       /\ open' = Drop(open, c)
       /\ connCount' = IF o.ip THEN ReleaseConnection(key) ELSE connCount
       /\ node' = IF o.ip THEN Release(key) ELSE node
       /\ UNCHANGED <<index, head, tail, now, tenure>>
       /\ verdict' = NoVerdict

HandleClose(c) ==
    LET o   == open[c]
        key == SubnetOf[o.info]
    IN /\ c \in DOMAIN open
       /\ open' = Drop(open, c)
       /\ connCount' = IF o.ip THEN ReleaseConnection(key) ELSE connCount
       /\ node' = IF o.rl THEN Release(key) ELSE node
       /\ UNCHANGED <<index, head, tail, now, tenure>>
       /\ verdict' = NoVerdict

Refill == /\ now < MaxNow /\ now' = now + 1
          /\ UNCHANGED <<open, connCount, index, node, head, tail, tenure>>
          /\ verdict' = NoVerdict

(* The header is read once per connection: later values do not matter.     *)
Headers(c) == IF c \in DOMAIN open /\ open[c].ip THEN {<<>>} ELSE Chains

LimitNext ==
    \/ \E c \in Conns : (\E p \in Peers : AcceptFrom(c, p))
                        \/ (\E ch \in Headers(c) : AllowRequest(c, ch)) \/ HandleClose(c)
    \/ Refill

LimitSpec == LimitInit /\ [][LimitNext]_limitVars

-----------------------------------------------------------------------------
(* Both limiters agree with the connections that are open: an identity's   *)
(* connectionCount is the number of open connections that were counted for *)
(* it and never above the limit, its refCount the number that acquired it. *)
CountsMatchConnections ==
    /\ \A k \in DOMAIN connCount :
          /\ connCount[k] = Cardinality({c \in DOMAIN open : open[c].ip /\ SubnetOf[open[c].info] = k})
          /\ connCount[k] <= MaxConnectionsPerIp
    /\ \A c \in DOMAIN open : open[c].ip => SubnetOf[open[c].info] \in DOMAIN connCount
    /\ \A k \in DOMAIN index :
          node[index[k]].ref =
              Cardinality({c \in DOMAIN open : open[c].rl /\ SubnetOf[open[c].info] = k})

(* An identity with a connection on it keeps its bucket: LRU eviction never*)
(* takes a node a live connection acquired.                                *)
LiveIdentityTracked ==
    \A c \in DOMAIN open : open[c].rl => SubnetOf[open[c].info] \in DOMAIN index

WalksFromHead(S) ==
    /\ head \in S \cup {NoNode}
    /\ \A j \in S : node[j].next \in S \cup {NoNode}

(* The list, the index and the pool describe the same nodes: walking from  *)
(* head_ visits each indexed node and no other, prev mirrors next, so none *)
(* is visited twice, and tail_ is the last.                                *)
LruIsConsistent ==
    /\ \A k \in DOMAIN index : node[index[k]].key = k
    /\ Live = {i \in Nodes : \A S \in SUBSET Nodes : WalksFromHead(S) => i \in S}
    /\ \A i \in Live :
          /\ node[i].prev = NoNode <=> head = i
          /\ node[i].next = NoNode <=> tail = i
          /\ node[i].next # NoNode => node[node[i].next].prev = i
    /\ tail = NoNode <=> Live = {}

(* The rate limit itself: during one tenure in the table an identity is    *)
(* granted at most its burst plus what the elapsed time refills, however   *)
(* its connections come and go.                                            *)
RateBound ==
    \A k \in DOMAIN tenure :
        tenure[k].granted <= Burst + (now - tenure[k].since) * TokensPerTick

(* A client behind the trusted proxies cannot choose its identity: the     *)
(* hops it puts in front of the address the first proxy recorded for it do *)
(* not change what is resolved.                                            *)
HeaderPrefixIgnored ==
    LET v == verdict
    IN RealIpRecursive /\ v.peer \in Trusted =>
        \A i \in DOMAIN v.chain :
            /\ v.chain[i] \notin Trusted \cup {Junk}
            /\ \A j \in (i + 1)..Len(v.chain) : v.chain[j] \in Trusted
            => v.to = v.chain[i]

(* Limits are charged to the right identity and given back: connections    *)
(* and tokens are counted exactly although identities are adopted late,    *)
(* shared by subnets and forgotten under pressure.                         *)
LimitsSound ==
    /\ CountsMatchConnections
    /\ LiveIdentityTracked
    /\ LruIsConsistent
    /\ RateBound
    /\ HeaderPrefixIgnored
=============================================================================
