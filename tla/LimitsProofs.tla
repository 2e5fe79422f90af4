----------------------------- MODULE LimitsProofs -----------------------------
(***************************************************************************)
(* For any number of connections, identities and nodes of the pool: both   *)
(* limiters count exactly the connections that are open, the LRU list, the *)
(* index and the pool agree, no live identity is evicted, and no identity  *)
(* is granted more than its rate.                                          *)
(***************************************************************************)
EXTENDS Limits, LeastNumber, FiniteSetTheorems, SequenceTheorems, TLAPS

Place == Nodes \cup {NoNode}
NodeType == [key : Identities \cup {NoNode}, ref : Nat, tokens : Nat, last : Nat,
             prev : Place, next : Place]
LruType == [node : [Nodes -> NodeType], head : Place, tail : Place]

\* The list l threads the nodes of L: its ends and its links agree, and the
\* ranks r grow from the head, up to top, so that no part of it is a ring.
Ranks(l, L, r, top) ==
    /\ r \in [Nodes -> Nat] /\ top \in Nat
    /\ \A i \in L : r[i] <= top
    /\ \A i \in L : l.node[i].prev # NoNode => r[l.node[i].prev] < r[i]

Threads(l, L) ==
    /\ L \subseteq Nodes
    /\ l.head \in L \cup {NoNode} /\ l.tail \in L \cup {NoNode}
    /\ l.head = NoNode <=> L = {}
    /\ l.tail = NoNode <=> L = {}
    /\ \A i \in L :
          /\ l.node[i].prev \in L \cup {NoNode} /\ l.node[i].next \in L \cup {NoNode}
          /\ l.node[i].prev = NoNode <=> l.head = i
          /\ l.node[i].next = NoNode <=> l.tail = i
          /\ l.node[i].prev # NoNode => l.node[l.node[i].prev].next = i
          /\ l.node[i].next # NoNode => l.node[l.node[i].next].prev = i

ListOK(l, L) == Threads(l, L) /\ \E r, top : Ranks(l, L, r, top)

\* What a list operation leaves of the nodes.
SameEntries(m, n) ==
    \A j \in Nodes : /\ m[j].key = n[j].key /\ m[j].ref = n[j].ref
                     /\ m[j].tokens = n[j].tokens /\ m[j].last = n[j].last

LEMMA UnlinkFields ==
    ASSUME NEW l \in LruType, NEW i \in Nodes
    PROVE  LET u == UnlinkNode(l, i)
               p == l.node[i].prev
               n == l.node[i].next
           IN  /\ u \in LruType
               /\ SameEntries(u.node, l.node)
               /\ \A j \in Nodes :
                    /\ u.node[j].prev = IF j = i THEN NoNode ELSE IF j = n THEN p ELSE l.node[j].prev
                    /\ u.node[j].next = IF j = i THEN NoNode ELSE IF j = p THEN n ELSE l.node[j].next
               /\ u.head = IF p = NoNode THEN n ELSE l.head
               /\ u.tail = IF n = NoNode THEN p ELSE l.tail
  <1> DEFINE p == l.node[i].prev
             n == l.node[i].next
             A == IF p = NoNode THEN l.node ELSE [l.node EXCEPT ![p].next = n]
             B == IF n = NoNode THEN A ELSE [A EXCEPT ![n].prev = p]
             C == [B EXCEPT ![i].prev = NoNode, ![i].next = NoNode]
             u == UnlinkNode(l, i)
  <1>1. l.node \in [Nodes -> NodeType] /\ p \in Place /\ n \in Place /\ NoNode \notin Nodes
    BY NoNodeAssumption DEF LruType, NodeType, Nodes
  <1>2. /\ A \in [Nodes -> NodeType]
        /\ \A j \in Nodes : /\ A[j].prev = l.node[j].prev
                            /\ A[j].next = IF j = p THEN n ELSE l.node[j].next
        /\ SameEntries(A, l.node)
    BY <1>1 DEF NodeType, Place, SameEntries
  <1> HIDE DEF A
  <1>3. /\ B \in [Nodes -> NodeType]
        /\ \A j \in Nodes : /\ B[j].prev = IF j = n THEN p ELSE l.node[j].prev
                            /\ B[j].next = A[j].next
        /\ SameEntries(B, l.node)
    BY <1>1, <1>2 DEF NodeType, Place, SameEntries
  <1> HIDE DEF B
  <1>4. /\ C \in [Nodes -> NodeType]
        /\ \A j \in Nodes : /\ C[j].prev = IF j = i THEN NoNode ELSE B[j].prev
                            /\ C[j].next = IF j = i THEN NoNode ELSE B[j].next
        /\ SameEntries(C, l.node)
    <2>1. B[i] \in NodeType
      BY <1>3
    <2>2. [B[i] EXCEPT !.prev = NoNode, !.next = NoNode] \in NodeType
      BY <2>1 DEF NodeType, Place
    <2>3. C = [B EXCEPT ![i] = [B[i] EXCEPT !.prev = NoNode, !.next = NoNode]]
      BY <1>3
    <2>4. C \in [Nodes -> NodeType]
      BY <1>3, <2>2, <2>3
    <2>5. QED
      BY <1>3, <2>1, <2>3, <2>4 DEF NodeType, SameEntries
  <1>5. /\ u.node = C
        /\ u.head = (IF p = NoNode THEN n ELSE l.head)
        /\ u.tail = (IF n = NoNode THEN p ELSE l.tail)
        /\ u = [node |-> C, head |-> u.head, tail |-> u.tail]
    BY DEF UnlinkNode, A, B
  <1>6. u \in LruType
    BY <1>1, <1>4, <1>5 DEF LruType
  <1>7. QED
    BY <1>2, <1>3, <1>4, <1>5, <1>6

LEMMA LinkFrontFields ==
    ASSUME NEW l \in LruType, NEW i \in Nodes
    PROVE  LET u == LinkFront(l, i)
               h == l.head
           IN  /\ u \in LruType
               /\ SameEntries(u.node, l.node)
               /\ h # i => \A j \in Nodes :
                    /\ u.node[j].prev = IF j = i THEN NoNode ELSE IF j = h THEN i ELSE l.node[j].prev
                    /\ u.node[j].next = IF j = i THEN h ELSE l.node[j].next
               /\ u.head = i
               /\ u.tail = IF l.tail = NoNode THEN i ELSE l.tail
  <1> DEFINE h == l.head
             A == [l.node EXCEPT ![i].prev = NoNode, ![i].next = h]
             B == IF h = NoNode THEN A ELSE [A EXCEPT ![h].prev = i]
             u == LinkFront(l, i)
  <1>1. l.node \in [Nodes -> NodeType] /\ h \in Place /\ l.tail \in Place /\ NoNode \notin Nodes
    BY NoNodeAssumption DEF LruType, Nodes
  <1>2. /\ A \in [Nodes -> NodeType]
        /\ \A j \in Nodes : /\ A[j].prev = IF j = i THEN NoNode ELSE l.node[j].prev
                            /\ A[j].next = IF j = i THEN h ELSE l.node[j].next
        /\ SameEntries(A, l.node)
    BY <1>1 DEF NodeType, Place, SameEntries
  <1> HIDE DEF A
  <1>3. /\ B \in [Nodes -> NodeType]
        /\ h # i => \A j \in Nodes : /\ B[j].prev = IF j = h THEN i ELSE A[j].prev
                                     /\ B[j].next = A[j].next
        /\ SameEntries(B, l.node)
    BY <1>1, <1>2 DEF NodeType, Place, SameEntries
  <1>4. /\ u.node = B /\ u.head = i
        /\ u.tail = (IF l.tail = NoNode THEN i ELSE l.tail)
        /\ u = [node |-> B, head |-> u.head, tail |-> u.tail]
    BY DEF LinkFront, A
  <1>5. u \in LruType
    BY <1>1, <1>3, <1>4 DEF LruType, Place
  <1>6. QED
    BY <1>2, <1>3, <1>4, <1>5

LEMMA UnlinkList ==
    ASSUME NEW l \in LruType, NEW L, ListOK(l, L), NEW i \in L
    PROVE  ListOK(UnlinkNode(l, i), L \ {i})
  <1> DEFINE u == UnlinkNode(l, i)
             p == l.node[i].prev
             n == l.node[i].next
  <1>1. /\ Threads(l, L) /\ L \subseteq Nodes /\ i \in Nodes /\ NoNode \notin Nodes
    BY NoNodeAssumption DEF ListOK, Threads, Nodes
  <1>2. PICK r, top : Ranks(l, L, r, top)
    BY DEF ListOK
  <1>3. /\ \A j \in Nodes :
             /\ u.node[j].prev = IF j = i THEN NoNode ELSE IF j = n THEN p ELSE l.node[j].prev
             /\ u.node[j].next = IF j = i THEN NoNode ELSE IF j = p THEN n ELSE l.node[j].next
        /\ u.head = IF p = NoNode THEN n ELSE l.head
        /\ u.tail = IF n = NoNode THEN p ELSE l.tail
    BY <1>1, UnlinkFields
  <1> HIDE DEF u
  <1>4. p # i /\ n # i
    <2>1. r \in [Nodes -> Nat]
      BY <1>2 DEF Ranks
    <2>2. ASSUME p = i PROVE FALSE
      <3>1. r[i] < r[i]
        BY <1>1, <1>2, <2>2 DEF Ranks
      <3>2. QED
        BY <1>1, <2>1, <3>1
    <2>3. ASSUME n = i PROVE p = i
      BY <1>1, <2>3 DEF Threads
    <2>4. QED
      BY <2>2, <2>3
  <1>5. Threads(u, L \ {i})
    <2>1. u.head \in (L \ {i}) \cup {NoNode} /\ u.tail \in (L \ {i}) \cup {NoNode}
      BY <1>1, <1>3, <1>4 DEF Threads
    <2>2. u.head = NoNode <=> L \ {i} = {}
      <3>1. ASSUME u.head = NoNode, NEW j \in L \ {i} PROVE FALSE
        <4>1. p = NoNode /\ n = NoNode
          BY <1>1, <1>3, <3>1 DEF Threads
        <4>2. l.head = i /\ l.tail = i
          BY <1>1, <4>1 DEF Threads
        <4>3. PICK k \in L \ {i} : \A m \in L \ {i} : r[k] <= r[m]
          <5> DEFINE T == {r[m] : m \in L \ {i}}
          <5>1. T \subseteq Nat /\ T # {}
            BY <1>1, <1>2, <3>1 DEF Ranks
          <5>2. PICK x \in T : \A y \in T : x <= y
            BY <5>1, LeastNatural
          <5>3. PICK k \in L \ {i} : r[k] = x
            BY <5>2
          <5>4. \A m \in L \ {i} : r[k] <= r[m]
            BY <5>2, <5>3
          <5>5. QED
            BY <5>3, <5>4
        <4>4. l.node[k].prev \in L \ {i}
          BY <1>1, <4>1, <4>2 DEF Threads
        <4>5. r[l.node[k].prev] < r[k] /\ r[k] <= r[l.node[k].prev]
          BY <1>1, <1>2, <4>3, <4>4 DEF Ranks
        <4>6. r[k] \in Nat /\ r[l.node[k].prev] \in Nat
          BY <1>1, <1>2, <4>4 DEF Ranks
        <4>7. QED
          BY <4>5, <4>6
      <3>2. ASSUME L \ {i} = {} PROVE u.head = NoNode
        BY <1>1, <1>3, <1>4, <2>1, <3>2
      <3>3. QED
        BY <3>1, <3>2
    <2>3. u.tail = NoNode <=> L \ {i} = {}
      <3>1. ASSUME u.tail = NoNode PROVE u.head = NoNode
        BY <1>1, <1>3, <1>4, <3>1 DEF Threads
      <3>2. ASSUME L \ {i} = {} PROVE u.tail = NoNode
        BY <1>1, <1>3, <1>4, <2>1, <3>2
      <3>3. QED
        BY <2>2, <3>1, <3>2
    <2>4. ASSUME NEW j \in L \ {i}
          PROVE  /\ u.node[j].prev \in (L \ {i}) \cup {NoNode}
                 /\ u.node[j].next \in (L \ {i}) \cup {NoNode}
                 /\ u.node[j].prev = NoNode <=> u.head = j
                 /\ u.node[j].next = NoNode <=> u.tail = j
                 /\ u.node[j].prev # NoNode => u.node[u.node[j].prev].next = j
                 /\ u.node[j].next # NoNode => u.node[u.node[j].next].prev = j
      <3> DEFINE jp == l.node[j].prev
                 jn == l.node[j].next
      <3>1. /\ jp \in L \cup {NoNode} /\ jn \in L \cup {NoNode}
            /\ jp = NoNode <=> l.head = j
            /\ jn = NoNode <=> l.tail = j
            /\ jp # NoNode => l.node[jp].next = j
            /\ jn # NoNode => l.node[jn].prev = j
        BY <1>1 DEF Threads
      <3>2. /\ p \in L \cup {NoNode} /\ n \in L \cup {NoNode}
            /\ p = NoNode <=> l.head = i
            /\ n = NoNode <=> l.tail = i
            /\ p # NoNode => l.node[p].next = i
            /\ n # NoNode => l.node[n].prev = i
        BY <1>1 DEF Threads
      <3>3. (j = n <=> jp = i) /\ (j = p <=> jn = i)
        BY <1>1, <3>1, <3>2
      <3>4. CASE j = n
        BY <1>1, <1>3, <1>4, <3>1, <3>2, <3>3, <3>4
      <3>5. CASE j # n
        BY <1>1, <1>3, <1>4, <3>1, <3>2, <3>3, <3>5
      <3>6. QED
        BY <3>4, <3>5
    <2>5. QED
      BY <1>1, <2>1, <2>2, <2>3, <2>4 DEF Threads
  <1>6. Ranks(u, L \ {i}, r, top)
    <2>1. r \in [Nodes -> Nat] /\ top \in Nat /\ \A j \in L : r[j] <= top
      BY <1>2 DEF Ranks
    <2>2. ASSUME NEW j \in L \ {i}, u.node[j].prev # NoNode
          PROVE  r[u.node[j].prev] < r[j]
      <3>1. CASE j = n
        <4>1. u.node[j].prev = p /\ p # NoNode /\ l.node[j].prev = i
          BY <1>1, <1>3, <2>2, <3>1 DEF Threads
        <4>2. r[p] < r[i] /\ r[i] < r[j]
          BY <1>1, <1>2, <2>2, <4>1 DEF Ranks
        <4>3. p \in Nodes
          BY <1>1, <4>1 DEF Threads
        <4>4. QED
          BY <1>1, <2>1, <4>1, <4>2, <4>3
      <3>2. CASE j # n
        BY <1>1, <1>2, <1>3, <2>2, <3>2 DEF Ranks
      <3>3. QED
        BY <3>1, <3>2
    <2>3. QED
      BY <2>1, <2>2 DEF Ranks
  <1>7. QED
    BY <1>5, <1>6 DEF ListOK, u

LEMMA LinkFrontList ==
    ASSUME NEW l \in LruType, NEW L, ListOK(l, L), NEW i \in Nodes \ L
    PROVE  ListOK(LinkFront(l, i), L \cup {i})
  <1> DEFINE u == LinkFront(l, i)
             h == l.head
  <1>1. /\ Threads(l, L) /\ L \subseteq Nodes /\ NoNode \notin Nodes /\ h # i
    BY NoNodeAssumption DEF ListOK, Threads, Nodes
  <1>2. PICK r, top : Ranks(l, L, r, top)
    BY DEF ListOK
  <1>3. /\ \A j \in Nodes :
             /\ u.node[j].prev = IF j = i THEN NoNode ELSE IF j = h THEN i ELSE l.node[j].prev
             /\ u.node[j].next = IF j = i THEN h ELSE l.node[j].next
        /\ u.head = i
        /\ u.tail = IF l.tail = NoNode THEN i ELSE l.tail
    BY <1>1, LinkFrontFields
  <1> HIDE DEF u
  <1>4. Threads(u, L \cup {i})
    <2>1. ASSUME NEW j \in L \cup {i}
          PROVE  /\ u.node[j].prev \in (L \cup {i}) \cup {NoNode}
                 /\ u.node[j].next \in (L \cup {i}) \cup {NoNode}
                 /\ u.node[j].prev = NoNode <=> u.head = j
                 /\ u.node[j].next = NoNode <=> u.tail = j
                 /\ u.node[j].prev # NoNode => u.node[u.node[j].prev].next = j
                 /\ u.node[j].next # NoNode => u.node[u.node[j].next].prev = j
      BY <1>1, <1>3 DEF Threads
    <2>2. QED
      BY <1>1, <1>3, <2>1 DEF Threads
  <1>5. PICK s : s = [j \in Nodes |-> IF j = i THEN 0 ELSE r[j] + 1]
    OBVIOUS
  <1>6. Ranks(u, L \cup {i}, s, top + 1)
    <2>1. r \in [Nodes -> Nat] /\ top \in Nat /\ \A j \in L : r[j] <= top
      BY <1>2 DEF Ranks
    <2>2. s \in [Nodes -> Nat] /\ \A j \in L \cup {i} : s[j] <= top + 1
      BY <1>1, <1>5, <2>1
    <2>3. ASSUME NEW j \in L \cup {i}, u.node[j].prev # NoNode
          PROVE  s[u.node[j].prev] < s[j]
      <3>1. CASE j = h
        BY <1>1, <1>3, <1>5, <2>1, <2>3, <3>1
      <3>2. CASE j # h
        <4>1. j \in L /\ u.node[j].prev = l.node[j].prev /\ l.node[j].prev \in L
          BY <1>1, <1>3, <2>3, <3>2 DEF Threads
        <4>2. r[l.node[j].prev] < r[j]
          BY <1>1, <1>2, <2>3, <4>1 DEF Ranks
        <4>3. QED
          BY <1>1, <1>5, <2>1, <4>1, <4>2
      <3>3. QED
        BY <3>1, <3>2
    <2>4. QED
      BY <2>1, <2>2, <2>3 DEF Ranks
  <1>7. QED
    BY <1>4, <1>6 DEF ListOK, u

\* Touch moves a node to the front and keeps the rest.
LEMMA TouchList ==
    ASSUME NEW l \in LruType, NEW L, ListOK(l, L), NEW i \in L
    PROVE  LET u == TouchNode(l, i)
           IN  u \in LruType /\ ListOK(u, L) /\ SameEntries(u.node, l.node)
  <1>1. CASE i = l.head
    BY <1>1 DEF TouchNode, SameEntries
  <1>2. CASE i # l.head
    <2> DEFINE m == UnlinkNode(l, i)
    <2>1. i \in Nodes
      BY DEF ListOK, Threads
    <2>2. m \in LruType /\ ListOK(m, L \ {i}) /\ SameEntries(m.node, l.node)
      BY <2>1, UnlinkFields, UnlinkList
    <2> HIDE DEF m
    <2>3. (L \ {i}) \cup {i} = L
      OBVIOUS
    <2>4. /\ LinkFront(m, i) \in LruType /\ ListOK(LinkFront(m, i), (L \ {i}) \cup {i})
          /\ SameEntries(LinkFront(m, i).node, m.node)
      BY <2>1, <2>2, LinkFrontFields, LinkFrontList
    <2>5. SameEntries(LinkFront(m, i).node, l.node)
      BY <2>2, <2>4 DEF SameEntries
    <2>6. QED
      BY <1>2, <2>3, <2>4, <2>5 DEF TouchNode, m
  <1>3. QED
    BY <1>1, <1>2

-------------------------------------------------------------------------------
(* What the two walks of the list meet. *)

LEMMA HeadWalk ==
    ASSUME Lru \in LruType, NEW L, ListOK(Lru, L)
    PROVE  L = {i \in Nodes : \A S \in SUBSET Nodes : WalksFromHead(S) => i \in S}
  <1>0. Lru.node = node /\ Lru.head = head /\ Lru.tail = tail
    BY DEF Lru
  <1>1. Threads(Lru, L) /\ L \subseteq Nodes /\ NoNode \notin Nodes
    BY NoNodeAssumption DEF ListOK, Threads, Nodes
  <1>2. WalksFromHead(L)
    BY <1>0, <1>1 DEF WalksFromHead, Threads
  <1>3. ASSUME NEW S \in SUBSET Nodes, WalksFromHead(S), NEW i \in L, i \notin S PROVE FALSE
    <2>1. PICK r, top : Ranks(Lru, L, r, top)
      BY DEF ListOK
    <2> DEFINE T == {r[j] : j \in L \ S}
    <2>2. T \subseteq Nat /\ T # {}
      BY <1>1, <1>3, <2>1 DEF Ranks
    <2>3. PICK x \in T : \A y \in T : x <= y
      BY <2>2, LeastNatural
    <2>4. PICK j \in L \ S : r[j] = x
      BY <2>3
    <2> DEFINE q == node[j].prev
    <2>5. q # NoNode
      BY <1>0, <1>1, <1>3, <2>4 DEF Threads, WalksFromHead
    <2>6. q \in L /\ node[q].next = j
      BY <1>0, <1>1, <2>4, <2>5 DEF Threads
    <2>7. q \notin S
      BY <1>0, <1>1, <1>3, <2>4, <2>6 DEF WalksFromHead
    <2>8. r[q] < r[j] /\ r[q] \in Nat /\ r[j] \in Nat
      BY <1>0, <1>1, <2>1, <2>4, <2>5, <2>6 DEF Ranks
    <2>9. x <= r[q]
      BY <2>3, <2>6, <2>7
    <2>10. QED
      BY <2>4, <2>8, <2>9
  <1>4. QED
    BY <1>1, <1>2, <1>3

\* When some node is evictable the walk from the tail finds one.
LEMMA VictimFound ==
    ASSUME Lru \in LruType, ListOK(Lru, Live), Evictable # {}
    PROVE  VictimNode \in Evictable
  <1> DEFINE S == {j \in Nodes : \A T \in SUBSET Nodes : WalksFromTail(T) => j \in T}
  <1>0. Lru.node = node /\ Lru.head = head /\ Lru.tail = tail
    BY DEF Lru
  <1>1. Threads(Lru, Live) /\ Live \subseteq Nodes /\ NoNode \notin Nodes /\ Evictable \subseteq Live
    BY NoNodeAssumption DEF ListOK, Threads, Nodes, Evictable
  <1>2. \A i \in Live : node[i].prev \in Live \cup {NoNode}
    BY <1>0, <1>1 DEF Threads
  <1>3. S \subseteq Live
    <2>1. WalksFromTail(Live)
      BY <1>0, <1>1, <1>2 DEF WalksFromTail, Threads
    <2>2. QED
      BY <1>1, <2>1
  <1>4. tail \in S \cup {NoNode} /\ \A j \in S \ Evictable : node[j].prev \in S \cup {NoNode}
    <2>1. tail \in S \cup {NoNode}
      BY <1>0, <1>1 DEF WalksFromTail, Threads
    <2>2. ASSUME NEW j \in S \ Evictable, node[j].prev # NoNode PROVE node[j].prev \in S
      <3>1. node[j].prev \in Nodes
        BY <1>1, <1>2, <1>3, <2>2
      <3>2. ASSUME NEW T \in SUBSET Nodes, WalksFromTail(T) PROVE node[j].prev \in T
        BY <2>2, <3>2 DEF WalksFromTail
      <3>3. QED
        BY <3>1, <3>2
    <2>3. QED
      BY <2>1, <2>2
  <1> HIDE DEF S
  <1>5. ASSUME S \cap Evictable = {} PROVE FALSE
    <2>1. PICK r, top : Ranks(Lru, Live, r, top)
      BY DEF ListOK
    <2>2. r \in [Nodes -> Nat] /\ top \in Nat /\ \A j \in Live : r[j] <= top
      BY <2>1 DEF Ranks
    <2> DEFINE D == {top - r[j] : j \in Live \ S}
    <2>3. D \subseteq Nat /\ D # {}
      BY <1>1, <1>5, <2>2
    <2>4. PICK x \in D : \A y \in D : x <= y
      BY <2>3, LeastNatural
    <2>5. PICK j \in Live \ S : top - r[j] = x
      BY <2>4
    <2> DEFINE q == node[j].next
    <2>6. q # NoNode
      BY <1>0, <1>1, <1>4, <2>5 DEF Threads
    <2>7. q \in Live /\ node[q].prev = j /\ j # NoNode
      BY <1>0, <1>1, <2>5, <2>6 DEF Threads
    <2>8. q \notin S
      BY <1>4, <1>5, <2>5, <2>7
    <2>9. r[j] < r[q]
      BY <1>0, <2>1, <2>7 DEF Ranks
    <2>10. x <= top - r[q]
      BY <2>4, <2>7, <2>8
    <2>11. r[j] \in Nat /\ r[q] \in Nat
      BY <1>1, <2>2, <2>5, <2>7
    <2>12. QED
      BY <2>2, <2>5, <2>9, <2>10, <2>11
  <1>6. PICK i \in Evictable : i \in S
    BY <1>5
  <1>7. \E j \in Evictable : \A T \in SUBSET Nodes : WalksFromTail(T) => j \in T
    BY <1>6 DEF S
  <1>8. QED
    BY <1>7 DEF VictimNode

-------------------------------------------------------------------------------
(* The pool: list, index, tenures and, for each identity, the number n[k]  *)
(* of connections that hold its node.                                      *)

\* A bucket and the tenure it serves: what was granted and what is left stay
\* within the burst and the refills up to the last one.
Rated(b, t, time) ==
    /\ t.since \in Nat /\ t.granted \in Nat
    /\ b.tokens <= Burst
    /\ t.since <= b.last /\ b.last <= time
    /\ t.granted + b.tokens <= Burst + (b.last - t.since) * TokensPerTick

Pool(l, ix, ten, n, time) ==
    /\ l \in LruType
    /\ DOMAIN ix \subseteq Identities
    /\ \A k \in DOMAIN ix : ix[k] \in Nodes /\ l.node[ix[k]].key = k
    /\ ListOK(l, {ix[k] : k \in DOMAIN ix})
    /\ DOMAIN ten = DOMAIN ix
    /\ \A k \in DOMAIN ix : Rated(l.node[ix[k]], ten[k], time)
    /\ n \in [Identities -> Nat]
    /\ \A k \in DOMAIN ix : l.node[ix[k]].ref = n[k]
    /\ \A k \in Identities \ DOMAIN ix : n[k] = 0

\* Writing a node's entry, or a node outside the list, leaves the list alone.
LEMMA EntryList ==
    ASSUME NEW l \in LruType, NEW L, ListOK(l, L), NEW i \in Nodes, NEW b \in NodeType,
           i \in L => b.prev = l.node[i].prev /\ b.next = l.node[i].next
    PROVE  LET u == [l EXCEPT !.node[i] = b]
           IN  u \in LruType /\ ListOK(u, L) /\ u.node = [l.node EXCEPT ![i] = b]
  <1> DEFINE u == [l EXCEPT !.node[i] = b]
  <1>1. /\ u \in LruType /\ u.node = [l.node EXCEPT ![i] = b]
        /\ u.head = l.head /\ u.tail = l.tail /\ l.node \in [Nodes -> NodeType]
    BY DEF LruType
  <1>2. Threads(l, L) /\ L \subseteq Nodes /\ NoNode \notin Nodes
    BY NoNodeAssumption DEF ListOK, Threads, Nodes
  <1> HIDE DEF u
  <1>3. \A j \in L : u.node[j].prev = l.node[j].prev /\ u.node[j].next = l.node[j].next
    BY <1>1, <1>2
  <1>4. Threads(u, L)
    BY <1>1, <1>2, <1>3 DEF Threads
  <1>5. PICK r, top : Ranks(l, L, r, top)
    BY DEF ListOK
  <1>6. Ranks(u, L, r, top)
    BY <1>3, <1>5 DEF Ranks
  <1>7. QED
    BY <1>1, <1>4, <1>6 DEF ListOK, u

\* Spending a token, with the refill that is due, keeps the rate.
LEMMA RefilledRated ==
    ASSUME NEW b \in NodeType, NEW t, now \in Nat, Rated(b, t, now)
    PROVE  LET f == Refilled(b)
           IN  /\ f \in NodeType /\ Rated(f, t, now)
               /\ f.key = b.key /\ f.ref = b.ref /\ f.prev = b.prev /\ f.next = b.next
  <1> DEFINE refill == (now - b.last) * TokensPerTick
  <1>1. /\ Burst \in Nat /\ TokensPerTick \in Nat /\ b.tokens \in Nat /\ b.last \in Nat
        /\ t.since \in Nat /\ t.granted \in Nat
        /\ b.tokens <= Burst /\ t.since <= b.last /\ b.last <= now
        /\ t.granted + b.tokens <= Burst + (b.last - t.since) * TokensPerTick
    BY LimitsAssumption DEF Rated, NodeType
  <1>2. refill \in Nat
    <2>1. now - b.last \in Nat
      BY <1>1
    <2>2. QED
      BY <1>1, <2>1
  <1>3. CASE refill = 0
    BY <1>3 DEF Refilled
  <1>4. CASE refill # 0
    <2> DEFINE tok == IF b.tokens + refill > Burst THEN Burst ELSE b.tokens + refill
    <2>1. Refilled(b) = [b EXCEPT !.last = now, !.tokens = tok]
      BY <1>4 DEF Refilled
    <2>2. tok \in Nat /\ tok <= Burst /\ tok <= b.tokens + refill
      BY <1>1, <1>2
    <2>3. (now - t.since) * TokensPerTick = refill + (b.last - t.since) * TokensPerTick
      BY <1>1
    <2>4. (b.last - t.since) * TokensPerTick \in Int
      BY <1>1
    <2> HIDE DEF refill, tok
    <2>5. t.granted + tok <= Burst + (now - t.since) * TokensPerTick
      BY <1>1, <1>2, <2>2, <2>3, <2>4
    <2>6. /\ Refilled(b) \in NodeType /\ Refilled(b).last = now /\ Refilled(b).tokens = tok
          /\ Refilled(b).key = b.key /\ Refilled(b).ref = b.ref
          /\ Refilled(b).prev = b.prev /\ Refilled(b).next = b.next
      BY <2>1, <2>2 DEF NodeType
    <2>7. QED
      BY <1>1, <2>2, <2>5, <2>6 DEF Rated
  <1>5. QED
    BY <1>3, <1>4

LEMMA GrantPool ==
    ASSUME NEW l, NEW ix, NEW ten, NEW n, now \in Nat, Pool(l, ix, ten, n, now), NEW key \in DOMAIN ix
    PROVE  LET g == Grant(Outcome(TRUE, l, ix, ten), key)
           IN  Pool(g.lru, g.index, g.tenure, n, now) /\ g.index = ix
  <1> DEFINE o == Outcome(TRUE, l, ix, ten)
             g == Grant(o, key)
             i == ix[key]
             L == {ix[k] : k \in DOMAIN ix}
             m == TouchNode(l, i)
             b == Refilled(m.node[i])
  <1>1. /\ l \in LruType /\ ListOK(l, L) /\ i \in L /\ i \in Nodes /\ L \subseteq Nodes
        /\ \A k \in DOMAIN ix : ix[k] \in Nodes /\ l.node[ix[k]].key = k
        /\ \A k \in DOMAIN ix : Rated(l.node[ix[k]], ten[k], now)
    BY DEF Pool
  <1>2. m \in LruType /\ ListOK(m, L) /\ SameEntries(m.node, l.node)
    BY <1>1, TouchList
  <1>3. /\ \A k \in DOMAIN ix : m.node[ix[k]].key = k /\ m.node[ix[k]].ref = l.node[ix[k]].ref
        /\ \A k \in DOMAIN ix : Rated(m.node[ix[k]], ten[k], now)
    BY <1>1, <1>2 DEF SameEntries, Rated
  <1> HIDE DEF m
  <1>4. m.node[i] \in NodeType /\ m.node \in [Nodes -> NodeType]
    BY <1>1, <1>2 DEF LruType
  <1>5. /\ b \in NodeType /\ Rated(b, ten[key], now) /\ b.key = key /\ b.ref = l.node[i].ref
        /\ b.prev = m.node[i].prev /\ b.next = m.node[i].next
    BY <1>3, <1>4, RefilledRated
  <1> HIDE DEF b
  <1>6. \A k \in DOMAIN ix : k # key => ix[k] # i
    BY <1>1
  <1>7. o.lru = l /\ o.index = ix /\ o.tenure = ten /\ o.ok = TRUE
        /\ o = [ok |-> TRUE, lru |-> l, index |-> ix, tenure |-> ten]
    BY DEF Outcome
  <1>8. CASE b.tokens = 0
    <2> DEFINE u == [m EXCEPT !.node[i] = b]
    <2>1. u \in LruType /\ ListOK(u, L) /\ u.node = [m.node EXCEPT ![i] = b]
      BY <1>1, <1>2, <1>5, EntryList
    <2>2. g = [o EXCEPT !.ok = FALSE, !.lru = u]
      BY <1>7, <1>8 DEF Grant, m, b
    <2>3. g.lru = u /\ g.index = ix /\ g.tenure = ten
      BY <1>7, <2>2
    <2> HIDE DEF u
    <2>4. \A k \in DOMAIN ix :
             /\ u.node[ix[k]].key = k /\ u.node[ix[k]].ref = l.node[ix[k]].ref
             /\ Rated(u.node[ix[k]], ten[k], now)
      BY <1>1, <1>3, <1>4, <1>5, <1>6, <2>1
    <2>5. Pool(u, ix, ten, n, now)
      BY <1>1, <2>1, <2>4 DEF Pool
    <2>6. QED
      BY <2>3, <2>5
  <1>9. CASE b.tokens # 0
    <2> DEFINE d == [b EXCEPT !.tokens = @ - 1]
               u == [m EXCEPT !.node[i] = d]
               tn == [ten EXCEPT ![key].granted = @ + 1]
    <2>1. /\ d \in NodeType /\ d.tokens = b.tokens - 1 /\ d.last = b.last /\ d.key = key
          /\ d.ref = l.node[i].ref /\ d.prev = m.node[i].prev /\ d.next = m.node[i].next
          /\ b.tokens \in Nat /\ b.last \in Nat
      BY <1>5, <1>9 DEF NodeType
    <2> HIDE DEF d
    <2>2. u \in LruType /\ ListOK(u, L) /\ u.node = [m.node EXCEPT ![i] = d]
      BY <1>1, <1>2, <2>1, EntryList
    <2>3. g = [o EXCEPT !.lru = u, !.tenure[key].granted = @ + 1]
      BY <1>7, <1>9 DEF Grant, m, b, d
    <2>4. g.lru = u /\ g.index = ix /\ g.tenure = tn
      <3>1. g.lru = u /\ g.index = ix
        BY <1>7, <2>3
      <3>2. g.tenure = tn
        BY <2>3, Zenon DEF Outcome
      <3>3. QED
        BY <3>1, <3>2
    <2>5. /\ DOMAIN tn = DOMAIN ten /\ DOMAIN ten = DOMAIN ix
          /\ \A k \in DOMAIN ix : k # key => tn[k] = ten[k]
          /\ tn[key].since = ten[key].since /\ tn[key].granted = ten[key].granted + 1
      BY DEF Pool, Rated
    <2> HIDE DEF u, tn
    <2>6. Rated(d, tn[key], now)
      <3>1. (b.last - ten[key].since) * TokensPerTick \in Int
        BY <1>5, <2>1, LimitsAssumption DEF Rated
      <3>2. QED
        BY <1>5, <2>1, <2>5, <3>1, LimitsAssumption DEF Rated
    <2>7. \A k \in DOMAIN ix :
             /\ u.node[ix[k]].key = k /\ u.node[ix[k]].ref = l.node[ix[k]].ref
             /\ Rated(u.node[ix[k]], tn[k], now)
      BY <1>1, <1>3, <1>4, <1>6, <2>1, <2>2, <2>5, <2>6
    <2>8. Pool(u, ix, tn, n, now)
      BY <1>1, <2>2, <2>5, <2>7 DEF Pool
    <2>9. QED
      BY <2>4, <2>8
  <1>10. QED
    BY <1>8, <1>9

\* One more connection holds key.
Held(n, key) == [n EXCEPT ![key] = @ + 1]

LEMMA TrackedPool ==
    ASSUME NEW n, now \in Nat, Pool(Lru, index, tenure, n, now), NEW key \in DOMAIN index
    PROVE  LET o == Tracked(key)
           IN  /\ Pool(o.lru, o.index, o.tenure, Held(n, key), now)
               /\ o.index = index /\ o = Outcome(TRUE, o.lru, o.index, o.tenure)
  <1> DEFINE o == Tracked(key)
             i == index[key]
             L == {index[k] : k \in DOMAIN index}
             m == TouchNode(Lru, i)
             b == [m.node[i] EXCEPT !.ref = @ + 1]
             u == [m EXCEPT !.node[i] = b]
  <1>1. /\ Lru \in LruType /\ ListOK(Lru, L) /\ i \in L /\ i \in Nodes /\ L \subseteq Nodes
        /\ \A k \in DOMAIN index : index[k] \in Nodes /\ Lru.node[index[k]].key = k
        /\ \A k \in DOMAIN index : Rated(Lru.node[index[k]], tenure[k], now)
        /\ \A k \in DOMAIN index : Lru.node[index[k]].ref = n[k]
        /\ n \in [Identities -> Nat] /\ DOMAIN index \subseteq Identities
    BY DEF Pool
  <1>2. m \in LruType /\ ListOK(m, L) /\ SameEntries(m.node, Lru.node)
    BY <1>1, TouchList
  <1>3. /\ \A k \in DOMAIN index : m.node[index[k]].key = k /\ m.node[index[k]].ref = n[k]
        /\ \A k \in DOMAIN index : Rated(m.node[index[k]], tenure[k], now)
    BY <1>1, <1>2 DEF SameEntries, Rated
  <1>4. o = Outcome(TRUE, u, index, tenure)
    <2>1. [m EXCEPT !.node[i].ref = @ + 1] = u
      BY <1>1, <1>2 DEF LruType
    <2>2. QED
      BY <2>1 DEF Tracked
  <1> HIDE DEF m
  <1>5. m.node[i] \in NodeType /\ m.node \in [Nodes -> NodeType]
    BY <1>1, <1>2 DEF LruType
  <1>6. /\ b \in NodeType /\ b.ref = n[key] + 1 /\ b.key = key /\ b.tokens = m.node[i].tokens
        /\ b.last = m.node[i].last /\ b.prev = m.node[i].prev /\ b.next = m.node[i].next
    BY <1>1, <1>3, <1>5 DEF NodeType
  <1> HIDE DEF b
  <1>7. u \in LruType /\ ListOK(u, L) /\ u.node = [m.node EXCEPT ![i] = b]
    BY <1>1, <1>2, <1>6, EntryList
  <1> HIDE DEF u
  <1>8. \A k \in DOMAIN index : k # key => index[k] # i
    BY <1>1
  <1>9. Held(n, key) \in [Identities -> Nat] /\ Held(n, key)[key] = n[key] + 1
        /\ \A k \in Identities : k # key => Held(n, key)[k] = n[k]
    BY <1>1 DEF Held
  <1>10. Rated(b, tenure[key], now)
    BY <1>3, <1>6 DEF Rated
  <1>11. \A k \in DOMAIN index :
            /\ u.node[index[k]].key = k /\ u.node[index[k]].ref = Held(n, key)[k]
            /\ Rated(u.node[index[k]], tenure[k], now)
    BY <1>1, <1>3, <1>5, <1>6, <1>7, <1>8, <1>9, <1>10
  <1>12. Pool(u, index, tenure, Held(n, key), now)
    <2>1. \A k \in Identities \ DOMAIN index : Held(n, key)[k] = 0
      BY <1>9 DEF Pool
    <2>2. DOMAIN tenure = DOMAIN index
      BY DEF Pool
    <2>3. QED
      BY <1>1, <1>7, <1>9, <1>11, <2>1, <2>2 DEF Pool
  <1>13. QED
    BY <1>4, <1>12 DEF Outcome

LEMMA CreatedPool ==
    ASSUME NEW l, NEW ix, NEW ten, NEW n, now \in Nat, Pool(l, ix, ten, n, now),
           NEW key \in Identities \ DOMAIN ix, NEW i \in Nodes, \A k \in DOMAIN ix : ix[k] # i
    PROVE  LET o == Created(key, i, l, ix, ten)
           IN  /\ Pool(o.lru, o.index, o.tenure, Held(n, key), now)
               /\ key \in DOMAIN o.index /\ o = Outcome(TRUE, o.lru, o.index, o.tenure)
  <1> DEFINE o == Created(key, i, l, ix, ten)
             L == {ix[k] : k \in DOMAIN ix}
             m == [l EXCEPT !.node[i] = Seed(key)]
             u == LinkFront(m, i)
             jx == With(ix, key, i)
             t == [since |-> now, granted |-> 0]
             tn == With(ten, key, t)
  <1>1. /\ l \in LruType /\ ListOK(l, L) /\ i \notin L /\ L \subseteq Nodes
        /\ \A k \in DOMAIN ix : ix[k] \in Nodes /\ l.node[ix[k]].key = k
        /\ \A k \in DOMAIN ix : Rated(l.node[ix[k]], ten[k], now)
        /\ \A k \in DOMAIN ix : l.node[ix[k]].ref = n[k]
        /\ \A k \in Identities \ DOMAIN ix : n[k] = 0
        /\ n \in [Identities -> Nat] /\ DOMAIN ix \subseteq Identities /\ DOMAIN ten = DOMAIN ix
    BY DEF Pool
  <1>2. /\ Seed(key) \in NodeType /\ Seed(key).key = key /\ Seed(key).ref = 1
        /\ Seed(key).tokens = Burst /\ Seed(key).last = now
    BY LimitsAssumption DEF Seed, NodeType, Place
  <1>3. m \in LruType /\ ListOK(m, L) /\ m.node = [l.node EXCEPT ![i] = Seed(key)]
    BY <1>1, <1>2, EntryList
  <1>4. l.node \in [Nodes -> NodeType]
    BY <1>1 DEF LruType
  <1>5. o = Outcome(TRUE, u, jx, tn)
    BY DEF Created
  <1> HIDE DEF m
  <1>6. u \in LruType /\ ListOK(u, L \cup {i}) /\ SameEntries(u.node, m.node)
    BY <1>1, <1>3, LinkFrontFields, LinkFrontList
  <1> HIDE DEF u
  <1>7. /\ DOMAIN jx = DOMAIN ix \cup {key} /\ jx[key] = i
        /\ \A k \in DOMAIN ix : jx[k] = ix[k]
        /\ DOMAIN tn = DOMAIN ix \cup {key} /\ tn[key] = t
        /\ \A k \in DOMAIN ix : tn[k] = ten[k]
    BY <1>1 DEF With
  <1> HIDE DEF jx, tn
  <1>8. {jx[k] : k \in DOMAIN jx} = L \cup {i}
    BY <1>7
  <1>9. \A k \in DOMAIN ix :
           /\ u.node[ix[k]].key = k /\ u.node[ix[k]].ref = n[k]
           /\ Rated(u.node[ix[k]], ten[k], now)
    <2> SUFFICES ASSUME NEW k \in DOMAIN ix
                 PROVE  /\ u.node[ix[k]].key = k /\ u.node[ix[k]].ref = n[k]
                        /\ Rated(u.node[ix[k]], ten[k], now)
      OBVIOUS
    <2>1. m.node[ix[k]] = l.node[ix[k]]
      BY <1>1, <1>3, <1>4
    <2>2. QED
      BY <1>1, <1>6, <2>1 DEF SameEntries, Rated
  <1>10. /\ u.node[i].key = key /\ u.node[i].ref = 1
         /\ Rated(u.node[i], t, now)
    <2>1. m.node[i] = Seed(key)
      BY <1>3, <1>4
    <2>2. /\ u.node[i].key = key /\ u.node[i].ref = 1 /\ u.node[i].tokens = Burst
          /\ u.node[i].last = now
      BY <1>2, <1>6, <2>1 DEF SameEntries
    <2>3. (now - now) * TokensPerTick = 0
      BY LimitsAssumption
    <2>4. QED
      BY <2>2, <2>3, LimitsAssumption DEF Rated
  <1>11. Held(n, key) \in [Identities -> Nat] /\ Held(n, key)[key] = 1
         /\ \A k \in Identities : k # key => Held(n, key)[k] = n[k]
    BY <1>1 DEF Held
  <1>12. Pool(u, jx, tn, Held(n, key), now)
    <2>1. \A k \in DOMAIN jx : jx[k] \in Nodes /\ u.node[jx[k]].key = k
                               /\ u.node[jx[k]].ref = Held(n, key)[k]
      BY <1>1, <1>7, <1>9, <1>10, <1>11
    <2>2. \A k \in DOMAIN jx : Rated(u.node[jx[k]], tn[k], now)
      BY <1>7, <1>9, <1>10
    <2>3. \A k \in Identities \ DOMAIN jx : Held(n, key)[k] = 0
      BY <1>1, <1>7, <1>11
    <2>4. DOMAIN jx \subseteq Identities /\ DOMAIN tn = DOMAIN jx
      BY <1>1, <1>7
    <2>5. QED
      BY <1>6, <1>8, <1>11, <2>1, <2>2, <2>3, <2>4 DEF Pool
  <1>13. QED
    BY <1>5, <1>7, <1>12 DEF Outcome

\* Evicting the node of an identity that nobody holds.
LEMMA EvictedPool ==
    ASSUME NEW n, now \in Nat, Pool(Lru, index, tenure, n, now), NEW v \in Evictable
    PROVE  LET w == node[v].key
           IN  /\ Pool(UnlinkNode(Lru, v), Drop(index, w), Drop(tenure, w), n, now)
               /\ w \in DOMAIN index /\ index[w] = v
               /\ DOMAIN Drop(index, w) = DOMAIN index \ {w}
               /\ \A k \in DOMAIN Drop(index, w) : Drop(index, w)[k] # v
  <1> DEFINE w == node[v].key
             L == {index[k] : k \in DOMAIN index}
             u == UnlinkNode(Lru, v)
             jx == Drop(index, w)
             tn == Drop(tenure, w)
  <1>0. Lru.node = node /\ Live = L
    BY DEF Lru, Live
  <1>1. /\ Lru \in LruType /\ ListOK(Lru, L) /\ L \subseteq Nodes
        /\ \A k \in DOMAIN index : index[k] \in Nodes /\ node[index[k]].key = k
        /\ \A k \in DOMAIN index : Rated(node[index[k]], tenure[k], now)
        /\ \A k \in DOMAIN index : node[index[k]].ref = n[k]
        /\ \A k \in Identities \ DOMAIN index : n[k] = 0
        /\ n \in [Identities -> Nat] /\ DOMAIN index \subseteq Identities
        /\ DOMAIN tenure = DOMAIN index
    BY <1>0 DEF Pool
  <1>2. v \in L /\ node[v].ref = 0 /\ v \in Nodes
    BY <1>0, <1>1 DEF Evictable
  <1>3. w \in DOMAIN index /\ index[w] = v
    BY <1>1, <1>2
  <1>4. u \in LruType /\ ListOK(u, L \ {v}) /\ SameEntries(u.node, node)
    BY <1>0, <1>1, <1>2, UnlinkFields, UnlinkList
  <1> HIDE DEF u
  <1>5. /\ DOMAIN jx = DOMAIN index \ {w} /\ \A k \in DOMAIN jx : jx[k] = index[k]
        /\ DOMAIN tn = DOMAIN index \ {w} /\ \A k \in DOMAIN tn : tn[k] = tenure[k]
    BY <1>1 DEF Drop
  <1> HIDE DEF jx, tn
  <1>6. \A k \in DOMAIN jx : jx[k] # v
    BY <1>1, <1>3, <1>5
  <1>7. {jx[k] : k \in DOMAIN jx} = L \ {v}
    BY <1>1, <1>3, <1>5
  <1>8. \A k \in DOMAIN jx :
           /\ jx[k] \in Nodes /\ u.node[jx[k]].key = k /\ u.node[jx[k]].ref = n[k]
           /\ Rated(u.node[jx[k]], tn[k], now)
    BY <1>1, <1>4, <1>5 DEF SameEntries, Rated
  <1>9. \A k \in Identities \ DOMAIN jx : n[k] = 0
    BY <1>1, <1>2, <1>3, <1>5
  <1>10. Pool(u, jx, tn, n, now)
    BY <1>1, <1>4, <1>5, <1>7, <1>8, <1>9 DEF Pool
  <1>11. QED
    BY <1>3, <1>5, <1>6, <1>10 DEF u, jx, tn

LEMMA AcquirePool ==
    ASSUME NEW n, now \in Nat, Pool(Lru, index, tenure, n, now), NEW key \in Identities
    PROVE  LET o == Acquire(key)
           IN  /\ \/ /\ Pool(o.lru, o.index, o.tenure, Held(n, key), now)
                     /\ key \in DOMAIN o.index /\ o = Outcome(TRUE, o.lru, o.index, o.tenure)
                  \/ o = Outcome(FALSE, Lru, index, tenure)
  <1>1. CASE key \in DOMAIN index
    BY <1>1, TrackedPool DEF Acquire
  <1>2. CASE key \notin DOMAIN index /\ Nodes \ Live # {}
    <2> DEFINE i == CHOOSE i \in Nodes \ Live : TRUE
    <2>1. i \in Nodes \ Live
      BY <1>2
    <2>2. \A k \in DOMAIN index : index[k] # i
      BY <2>1 DEF Live
    <2>3. Acquire(key) = Created(key, i, Lru, index, tenure)
      BY <1>2 DEF Acquire
    <2> HIDE DEF i
    <2>4. LET o == Created(key, i, Lru, index, tenure)
          IN  /\ Pool(o.lru, o.index, o.tenure, Held(n, key), now)
              /\ key \in DOMAIN o.index /\ o = Outcome(TRUE, o.lru, o.index, o.tenure)
      <3>1. key \in Identities \ DOMAIN index /\ i \in Nodes
        BY <1>2, <2>1
      <3>2. QED
        BY <2>2, <3>1, CreatedPool
    <2>5. QED
      BY <2>3, <2>4, Zenon
  <1>3. CASE key \notin DOMAIN index /\ Nodes \ Live = {} /\ Evictable = {}
    BY <1>3 DEF Acquire
  <1>4. CASE key \notin DOMAIN index /\ Nodes \ Live = {} /\ Evictable # {}
    <2> DEFINE v == VictimNode
               w == node[v].key
    <2>1. v \in Evictable /\ v \in Nodes
      <3>1. Lru \in LruType /\ ListOK(Lru, Live) /\ Live \subseteq Nodes
        BY DEF Pool, Live
      <3>2. QED
        BY <1>4, <3>1, VictimFound DEF Evictable
    <2>2. Acquire(key) = Created(key, v, UnlinkNode(Lru, v), Drop(index, w), Drop(tenure, w))
      BY <1>4 DEF Acquire
    <2>3. /\ Pool(UnlinkNode(Lru, v), Drop(index, w), Drop(tenure, w), n, now)
          /\ DOMAIN Drop(index, w) = DOMAIN index \ {w}
          /\ \A k \in DOMAIN Drop(index, w) : Drop(index, w)[k] # v
      BY <2>1, EvictedPool
    <2> HIDE DEF v, w
    <2>4. PICK i, l, ix, ten : /\ i = v /\ l = UnlinkNode(Lru, v)
                               /\ ix = Drop(index, w) /\ ten = Drop(tenure, w)
      OBVIOUS
    <2>5. /\ Pool(l, ix, ten, n, now) /\ key \in Identities \ DOMAIN ix
          /\ i \in Nodes /\ \A k \in DOMAIN ix : ix[k] # i
      BY <1>4, <2>1, <2>3, <2>4
    <2>6. LET o == Created(key, i, l, ix, ten)
          IN  /\ Pool(o.lru, o.index, o.tenure, Held(n, key), now)
              /\ key \in DOMAIN o.index /\ o = Outcome(TRUE, o.lru, o.index, o.tenure)
      BY <2>5, CreatedPool
    <2>7. Acquire(key) = Created(key, i, l, ix, ten)
      BY <2>2, <2>4
    <2>8. QED
      BY <2>6, <2>7, Zenon
  <1>5. QED
    BY <1>1, <1>2, <1>3, <1>4

-------------------------------------------------------------------------------
(* The connections that are open, and what they were counted for. *)

Address == DOMAIN SubnetOf
ConnType == [info : Address, ip : BOOLEAN, rl : BOOLEAN]
Counted(op, k) == {c \in DOMAIN op : op[c].ip /\ SubnetOf[op[c].info] = k}
Holding(op, k) == {c \in DOMAIN op : op[c].rl /\ SubnetOf[op[c].info] = k}
Holders(op) == [k \in Identities |-> Cardinality(Holding(op, k))]

OpenOK(op) ==
    /\ DOMAIN op \subseteq Conns
    /\ \A c \in DOMAIN op : op[c] \in ConnType /\ (op[c].rl => op[c].ip)

CountsOK(cc, op) ==
    /\ DOMAIN cc \subseteq Identities
    /\ \A k \in DOMAIN cc : cc[k] = Cardinality(Counted(op, k)) /\ cc[k] <= MaxConnectionsPerIp
    /\ \A k \in Identities \ DOMAIN cc : Counted(op, k) = {}

\* The inductive invariant.
LimInv ==
    /\ now \in Nat
    /\ OpenOK(open)
    /\ CountsOK(connCount, open)
    /\ Pool(Lru, index, tenure, Holders(open), now)
    /\ HeaderPrefixIgnored

LEMMA SetsFinite ==
    ASSUME NEW op, OpenOK(op), NEW k
    PROVE  /\ IsFiniteSet(Counted(op, k)) /\ Cardinality(Counted(op, k)) \in Nat
           /\ IsFiniteSet(Holding(op, k)) /\ Cardinality(Holding(op, k)) \in Nat
  <1>1. Counted(op, k) \subseteq Conns /\ Holding(op, k) \subseteq Conns
    BY DEF Counted, Holding, OpenOK
  <1>2. IsFiniteSet(Counted(op, k)) /\ IsFiniteSet(Holding(op, k))
    BY <1>1, ConnsAssumption, FS_Subset
  <1>3. QED
    BY <1>2, FS_CardinalityType

LEMMA IdentityOf ==
    ASSUME NEW a \in Address
    PROVE  SubnetOf[a] \in Identities
  BY DEF Identities, Address

LEMMA SoundFromInv == LimInv => LimitsSound
  <1> SUFFICES ASSUME LimInv PROVE LimitsSound
    OBVIOUS
  <1>0. Lru.node = node /\ Lru.head = head /\ Lru.tail = tail
    BY DEF Lru
  <1>1. CountsMatchConnections
    <2>1. \A k \in DOMAIN connCount :
             /\ connCount[k] = Cardinality(Counted(open, k))
             /\ connCount[k] <= MaxConnectionsPerIp
      BY DEF LimInv, CountsOK
    <2>2. ASSUME NEW c \in DOMAIN open, open[c].ip
          PROVE  SubnetOf[open[c].info] \in DOMAIN connCount
      <3>1. SubnetOf[open[c].info] \in Identities
        BY IdentityOf DEF LimInv, OpenOK, ConnType
      <3>2. c \in Counted(open, SubnetOf[open[c].info])
        BY <2>2 DEF Counted
      <3>3. QED
        BY <3>1, <3>2 DEF LimInv, CountsOK
    <2>3. ASSUME NEW k \in DOMAIN index
          PROVE  node[index[k]].ref = Cardinality(Holding(open, k))
      BY <1>0 DEF LimInv, Pool, Holders
    <2>4. QED
      BY <2>1, <2>2, <2>3 DEF CountsMatchConnections, Counted, Holding
  <1>2. LiveIdentityTracked
    <2> SUFFICES ASSUME NEW c \in DOMAIN open, open[c].rl,
                        SubnetOf[open[c].info] \notin DOMAIN index
                 PROVE  FALSE
      BY DEF LiveIdentityTracked
    <2> DEFINE k == SubnetOf[open[c].info]
    <2>1. k \in Identities
      BY IdentityOf DEF LimInv, OpenOK, ConnType
    <2>2. Cardinality(Holding(open, k)) = 0
      BY <2>1 DEF LimInv, Pool, Holders
    <2>3. Holding(open, k) = {}
      <3>1. IsFiniteSet(Holding(open, k))
        BY SetsFinite DEF LimInv
      <3>2. QED
        BY <2>2, <3>1, FS_EmptySet
    <2>4. QED
      BY <2>3 DEF Holding
  <1>3. LruIsConsistent
    <2>1. /\ Lru \in LruType /\ ListOK(Lru, Live)
          /\ \A k \in DOMAIN index : node[index[k]].key = k
      BY <1>0 DEF LimInv, Pool, Live
    <2>2. Live = {i \in Nodes : \A S \in SUBSET Nodes : WalksFromHead(S) => i \in S}
      BY <2>1, HeadWalk
    <2>3. Threads(Lru, Live)
      BY <2>1 DEF ListOK
    <2>4. QED
      BY <1>0, <2>1, <2>2, <2>3 DEF LruIsConsistent, Threads
  <1>4. RateBound
    <2> SUFFICES ASSUME NEW k \in DOMAIN tenure
                 PROVE  tenure[k].granted <= Burst + (now - tenure[k].since) * TokensPerTick
      BY DEF RateBound
    <2> DEFINE b == node[index[k]]
               t == tenure[k]
    <2>1. Rated(b, t, now) /\ index[k] \in Nodes /\ Lru \in LruType
      BY <1>0 DEF LimInv, Pool
    <2>2. b.tokens \in Nat /\ b.last \in Nat
      BY <1>0, <2>1 DEF LruType, NodeType
    <2> HIDE DEF b, t
    <2>3. now \in Nat /\ TokensPerTick \in Nat /\ Burst \in Nat
      BY LimitsAssumption DEF LimInv
    <2>4. b.last - t.since \in Int /\ now - t.since \in Int /\ b.last - t.since <= now - t.since
      BY <2>1, <2>2, <2>3 DEF Rated
    <2>5. /\ (b.last - t.since) * TokensPerTick <= (now - t.since) * TokensPerTick
          /\ (b.last - t.since) * TokensPerTick \in Int /\ (now - t.since) * TokensPerTick \in Int
      BY <2>3, <2>4
    <2>6. t.granted <= Burst + (now - t.since) * TokensPerTick
      BY <2>1, <2>2, <2>3, <2>5 DEF Rated
    <2>7. QED
      BY <2>6 DEF t
  <1>5. QED
    BY <1>1, <1>2, <1>3, <1>4 DEF LimitsSound, LimInv

-------------------------------------------------------------------------------
(* Who the client is. *)

\* The rightmost of the hops of a set.
LEMMA Rightmost ==
    ASSUME NEW m \in Nat, NEW H, H \subseteq 1 .. m, H # {}
    PROVE  \E i \in H : \A j \in H : i >= j
  <1> DEFINE D == {m - i : i \in H}
  <1>0. \A i \in H : m - i \in Nat
    OBVIOUS
  <1>1. D \subseteq Nat /\ D # {}
    BY <1>0
  <1>2. PICK x \in D : \A y \in D : x <= y
    BY <1>1, LeastNatural
  <1>3. PICK i \in H : m - i = x
    BY <1>2
  <1>4. \A j \in H : m - i <= m - j
    BY <1>2, <1>3
  <1>5. QED
    BY <1>3, <1>4

LEMMA HopFound ==
    ASSUME NEW chain \in Seq(Address \cup {Junk}), chain # <<>>
    PROVE  /\ Hop(chain) \in Address \cup {Junk}
           /\ \A i \in DOMAIN chain :
                 /\ chain[i] \notin Trusted \cup {Junk}
                 /\ \A j \in (i + 1) .. Len(chain) : chain[j] \in Trusted
                 => Hop(chain) = chain[i]
  <1> DEFINE H == {i \in DOMAIN chain : chain[i] = Junk \/ chain[i] \notin Trusted}
             top == CHOOSE i \in H : \A j \in H : i >= j
  <1>1. /\ DOMAIN chain = 1 .. Len(chain) /\ Len(chain) \in Nat /\ 1 \in DOMAIN chain
        /\ \A i \in DOMAIN chain : chain[i] \in Address \cup {Junk}
    <2>1. /\ DOMAIN chain = 1 .. Len(chain) /\ Len(chain) \in Nat /\ Len(chain) # 0
      BY EmptySeq
    <2>2. \A i \in 1 .. Len(chain) : chain[i] \in Address \cup {Junk}
      BY ElementOfSeq
    <2>3. QED
      BY <2>1, <2>2
  <1>2. H \subseteq 1 .. Len(chain)
    BY <1>1
  <1>3. ASSUME H # {} PROVE top \in H /\ \A j \in H : top >= j
    <2>1. \E i \in H : \A j \in H : i >= j
      BY <1>1, <1>2, <1>3, Rightmost
    <2>2. QED
      BY <2>1
  <1>4. Hop(chain) = IF H = {} THEN chain[1] ELSE chain[top]
    BY DEF Hop
  <1> HIDE DEF top
  <1>5. Hop(chain) \in Address \cup {Junk}
    BY <1>1, <1>3, <1>4
  <1>6. ASSUME NEW i \in DOMAIN chain, chain[i] \notin Trusted \cup {Junk},
               \A j \in (i + 1) .. Len(chain) : chain[j] \in Trusted
        PROVE  Hop(chain) = chain[i]
    <2>1. i \in H
      BY <1>6
    <2>2. top \in H /\ top >= i
      BY <1>3, <2>1
    <2>3. ASSUME top > i PROVE FALSE
      <3>1. top \in (i + 1) .. Len(chain)
        BY <1>1, <1>2, <2>1, <2>2, <2>3
      <3>2. chain[top] \in Trusted /\ chain[top] # Junk
        BY <1>6, <3>1, AddressAssumption
      <3>3. QED
        BY <2>2, <3>2
    <2>4. top = i
      BY <1>1, <1>2, <2>1, <2>2, <2>3
    <2>5. QED
      BY <1>4, <2>1, <2>4
  <1>7. QED
    BY <1>5, <1>6

LEMMA Resolved ==
    ASSUME NEW peer \in Address, NEW chain \in Seq(Address \cup {Junk})
    PROVE  ResolveClientIp(peer, chain) \in Address
  <1>1. CASE peer \notin Trusted \/ chain = <<>>
    BY <1>1 DEF ResolveClientIp
  <1>2. CASE peer \in Trusted /\ chain # <<>>
    <2>1. Hop(chain) \in Address \cup {Junk}
      BY <1>2, HopFound
    <2>2. Len(chain) = 1 => chain[1] \in Address \cup {Junk}
      BY ElementOfSeq
    <2>3. QED
      BY <1>2, <2>1, <2>2 DEF ResolveClientIp
  <1>3. QED
    BY <1>1, <1>2

\* Whatever a client writes in front of it, the address the first trusted proxy
\* recorded is the one resolved.
LEMMA PrefixIgnored ==
    ASSUME NEW peer \in Trusted, NEW chain \in Seq(Address \cup {Junk}), RealIpRecursive,
           NEW i \in DOMAIN chain, chain[i] \notin Trusted \cup {Junk},
           \A j \in (i + 1) .. Len(chain) : chain[j] \in Trusted
    PROVE  ResolveClientIp(peer, chain) = chain[i]
  <1>1. chain # <<>>
    OBVIOUS
  <1>2. Hop(chain) = chain[i]
    BY <1>1, HopFound
  <1>3. QED
    BY <1>1, <1>2 DEF ResolveClientIp

-------------------------------------------------------------------------------
(* How the counts move with one connection. *)

LEMMA FewerCounted ==
    ASSUME NEW op, OpenOK(op), NEW c \in DOMAIN op
    PROVE  /\ OpenOK(Drop(op, c))
           /\ \A k : Counted(Drop(op, c), k) = Counted(op, k) \ {c}
           /\ \A k : Holding(Drop(op, c), k) = Holding(op, k) \ {c}
  <1> DEFINE q == Drop(op, c)
  <1>1. DOMAIN q = DOMAIN op \ {c} /\ \A d \in DOMAIN q : q[d] = op[d]
    BY DEF Drop
  <1> HIDE DEF q
  <1>2. OpenOK(q)
    BY <1>1 DEF OpenOK
  <1>3. ASSUME NEW k PROVE Counted(q, k) = Counted(op, k) \ {c}
    BY <1>1 DEF Counted
  <1>4. ASSUME NEW k PROVE Holding(q, k) = Holding(op, k) \ {c}
    BY <1>1 DEF Holding
  <1>5. QED
    BY <1>2, <1>3, <1>4 DEF q

LEMMA CloseCounts ==
    ASSUME LimInv, NEW c, HandleClose(c)
    PROVE  OpenOK(open') /\ CountsOK(connCount', open')
  <1> DEFINE o == open[c]
             key == SubnetOf[o.info]
             q == Drop(open, c)
  <1>1. /\ c \in DOMAIN open /\ open' = q
        /\ connCount' = IF o.ip THEN ReleaseConnection(key) ELSE connCount
    BY DEF HandleClose
  <1>2. /\ OpenOK(open) /\ CountsOK(connCount, open) /\ o \in ConnType
    BY <1>1 DEF LimInv, OpenOK
  <1>3. OpenOK(q) /\ \A k : Counted(q, k) = Counted(open, k) \ {c}
    BY <1>1, <1>2, FewerCounted
  <1> HIDE DEF q
  <1>4. ASSUME NEW k
        PROVE  /\ IsFiniteSet(Counted(open, k)) /\ Cardinality(Counted(open, k)) \in Nat
               /\ Cardinality(Counted(q, k)) =
                    IF c \in Counted(open, k) THEN Cardinality(Counted(open, k)) - 1
                    ELSE Cardinality(Counted(open, k))
    <2>1. IsFiniteSet(Counted(open, k)) /\ Cardinality(Counted(open, k)) \in Nat
      BY <1>2, SetsFinite
    <2>2. QED
      BY <1>3, <2>1, FS_RemoveElement
  <1>5. CASE ~o.ip
    <2>1. \A k : c \notin Counted(open, k)
      BY <1>5 DEF Counted
    <2>2. connCount' = connCount
      BY <1>1, <1>5
    <2>3. \A k : Counted(q, k) = Counted(open, k)
      BY <1>3, <2>1
    <2>4. CountsOK(connCount, q)
      BY <1>2, <2>3 DEF CountsOK
    <2>5. QED
      BY <1>1, <1>3, <2>2, <2>4
  <1>6. CASE o.ip
    <2>1. /\ key \in Identities /\ c \in Counted(open, key)
          /\ \A k : k # key => c \notin Counted(open, k)
      BY <1>1, <1>2, <1>6, IdentityOf DEF Counted, ConnType
    <2>2. key \in DOMAIN connCount
      BY <1>2, <2>1 DEF CountsOK
    <2>3. \A k : k # key => Counted(q, k) = Counted(open, k)
      BY <1>3, <2>1
    <2>4. /\ connCount[key] = Cardinality(Counted(open, key)) /\ connCount[key] \in Nat
          /\ connCount[key] <= MaxConnectionsPerIp
          /\ Cardinality(Counted(q, key)) = connCount[key] - 1
      BY <1>2, <1>4, <2>1, <2>2 DEF CountsOK
    <2>5. CASE connCount[key] = 1
      <3>1. connCount' = Drop(connCount, key)
        BY <1>1, <1>6, <2>5 DEF ReleaseConnection
      <3>2. Counted(q, key) = {}
        <4>1. IsFiniteSet(Counted(q, key)) /\ Cardinality(Counted(q, key)) = 0
          BY <1>3, <2>4, <2>5, SetsFinite
        <4>2. QED
          BY <4>1, FS_EmptySet
      <3>3. /\ DOMAIN connCount' = DOMAIN connCount \ {key}
            /\ \A k \in DOMAIN connCount' : connCount'[k] = connCount[k]
        BY <3>1 DEF Drop
      <3>4. CountsOK(connCount', q)
        BY <1>2, <2>3, <3>2, <3>3 DEF CountsOK
      <3>5. QED
        BY <1>1, <1>3, <3>4
    <2>6. CASE connCount[key] # 1
      <3>1. connCount' = [connCount EXCEPT ![key] = @ - 1]
        BY <1>1, <1>6, <2>6 DEF ReleaseConnection
      <3>2. /\ DOMAIN connCount' = DOMAIN connCount /\ connCount'[key] = connCount[key] - 1
            /\ \A k \in DOMAIN connCount : k # key => connCount'[k] = connCount[k]
        BY <2>2, <3>1
      <3>3. connCount[key] - 1 <= MaxConnectionsPerIp
        BY <2>4, LimitsAssumption
      <3>4. CountsOK(connCount', q)
        BY <1>2, <2>1, <2>3, <2>4, <3>2, <3>3 DEF CountsOK
      <3>5. QED
        BY <1>1, <1>3, <3>4
    <2>7. QED
      BY <2>5, <2>6
  <1>7. QED
    BY <1>5, <1>6

LEMMA ClosePool ==
    ASSUME LimInv, NEW c, HandleClose(c)
    PROVE  Pool(Lru, index, tenure, Holders(open), now)'
  <1> DEFINE o == open[c]
             key == SubnetOf[o.info]
  <1>1. PICK q : q = Drop(open, c)
    OBVIOUS
  <1>2. /\ c \in DOMAIN open /\ open' = q
        /\ node' = IF o.rl THEN Release(key) ELSE node
        /\ UNCHANGED <<index, head, tail, now, tenure>>
    BY <1>1 DEF HandleClose
  <1>3. OpenOK(open) /\ o \in ConnType /\ Pool(Lru, index, tenure, Holders(open), now)
    BY <1>2 DEF LimInv, OpenOK
  <1>4. OpenOK(q) /\ \A k : Holding(q, k) = Holding(open, k) \ {c}
    BY <1>1, <1>2, <1>3, FewerCounted
  <1>5. CASE ~o.rl
    <2>1. \A k : c \notin Holding(open, k)
      BY <1>5 DEF Holding
    <2>2. \A k : Holding(q, k) = Holding(open, k)
      BY <1>4, <2>1
    <2>3. Holders(q) = Holders(open)
      BY <2>2 DEF Holders
    <2>4. node' = node
      BY <1>2, <1>5
    <2>5. Lru' = Lru /\ Holders(open') = Holders(open)
      BY <1>2, <2>3, <2>4 DEF Lru
    <2>6. QED
      BY <1>2, <1>3, <2>5
  <1>6. CASE o.rl
    <2>0. /\ Lru \in LruType /\ Lru.node = node
          /\ \A k \in DOMAIN index : index[k] \in Nodes /\ node[index[k]].key = k
          /\ \A k \in DOMAIN index : node[index[k]].ref = Holders(open)[k]
          /\ \A k \in DOMAIN index : Rated(node[index[k]], tenure[k], now)
          /\ ListOK(Lru, {index[k] : k \in DOMAIN index})
          /\ \A k \in Identities \ DOMAIN index : Holders(open)[k] = 0
          /\ DOMAIN tenure = DOMAIN index /\ DOMAIN index \subseteq Identities
      <3>1. Lru.node = node
        BY DEF Lru
      <3>2. QED
        BY <1>3, <3>1 DEF Pool
    <2>1. /\ key \in Identities /\ c \in Holding(open, key)
          /\ \A k : k # key => c \notin Holding(open, k)
      BY <1>2, <1>3, <1>6, IdentityOf DEF Holding, ConnType
    <2>2. /\ IsFiniteSet(Holding(open, key)) /\ Cardinality(Holding(open, key)) \in Nat
      BY <1>3, SetsFinite
    <2>3. Cardinality(Holding(q, key)) = Cardinality(Holding(open, key)) - 1
          /\ Cardinality(Holding(open, key)) # 0
      <3>1. Cardinality(Holding(open, key)) # 0
        BY <2>1, <2>2, FS_EmptySet
      <3>2. QED
        BY <1>4, <2>1, <2>2, <3>1, FS_RemoveElement
    <2>4. \A k : k # key => Holding(q, k) = Holding(open, k)
      BY <1>4, <2>1
    <2>5. /\ Holders(q) \in [Identities -> Nat] /\ Holders(q)[key] = Holders(open)[key] - 1
          /\ Holders(open)[key] \in Nat \ {0}
          /\ \A k \in Identities : k # key => Holders(q)[k] = Holders(open)[k]
      <3>1. Holders(q) \in [Identities -> Nat]
        BY <1>4, SetsFinite DEF Holders
      <3>2. QED
        BY <2>1, <2>2, <2>3, <2>4, <3>1 DEF Holders
    <2>6. key \in DOMAIN index
      BY <2>0, <2>1, <2>5
    <2>7. PICK i, b : i = index[key] /\ b = [node[i] EXCEPT !.ref = @ - 1]
      OBVIOUS
    <2>8. i \in Nodes /\ node \in [Nodes -> NodeType] /\ node[i].ref = Holders(open)[key]
      BY <2>0, <2>6, <2>7 DEF LruType
    <2>9. /\ b \in NodeType /\ b.ref = Holders(q)[key] /\ b.key = key
          /\ b.tokens = node[i].tokens /\ b.last = node[i].last
          /\ b.prev = node[i].prev /\ b.next = node[i].next
      BY <2>0, <2>5, <2>6, <2>7, <2>8 DEF NodeType
    <2>10. node' = [node EXCEPT ![i] = b]
      <3>1. node' = [node EXCEPT ![i].ref = IF @ > 0 THEN @ - 1 ELSE 0]
        BY <1>2, <1>6, <2>6, <2>7 DEF Release
      <3>2. node[i].ref > 0
        BY <2>5, <2>8
      <3>3. QED
        BY <2>7, <2>8, <3>1, <3>2
    <2>11. PICK u : u = [Lru EXCEPT !.node[i] = b]
      OBVIOUS
    <2>12. /\ u \in LruType /\ ListOK(u, {index[k] : k \in DOMAIN index})
           /\ u.node = [node EXCEPT ![i] = b]
      BY <2>0, <2>8, <2>9, <2>11, EntryList
    <2>13. Lru' = u
      BY <1>2, <2>0, <2>10, <2>11, <2>12 DEF Lru, LruType
    <2>14. \A k \in DOMAIN index : k # key => index[k] # i
      BY <2>0, <2>6, <2>7
    <2>15. Rated(b, tenure[key], now)
      BY <2>0, <2>6, <2>7, <2>9 DEF Rated
    <2>16. \A k \in DOMAIN index :
              /\ u.node[index[k]].key = k /\ u.node[index[k]].ref = Holders(q)[k]
              /\ Rated(u.node[index[k]], tenure[k], now)
      <3>1. u.node[i] = b /\ \A j \in Nodes \ {i} : u.node[j] = node[j]
        BY <2>8, <2>12
      <3>2. \A k \in DOMAIN index : k # key =>
               /\ u.node[index[k]] = node[index[k]] /\ Holders(q)[k] = Holders(open)[k]
        BY <2>0, <2>5, <2>14, <3>1
      <3>3. /\ u.node[index[key]].key = key /\ u.node[index[key]].ref = Holders(q)[key]
            /\ Rated(u.node[index[key]], tenure[key], now)
        BY <2>7, <2>9, <2>15, <3>1
      <3>4. \A k \in DOMAIN index : k # key =>
               /\ u.node[index[k]].key = k /\ u.node[index[k]].ref = Holders(q)[k]
               /\ Rated(u.node[index[k]], tenure[k], now)
        BY <2>0, <3>2
      <3> HIDE DEF key
      <3>5. QED
        BY <3>3, <3>4
    <2>17. \A k \in Identities \ DOMAIN index : Holders(q)[k] = 0
      BY <2>0, <2>5, <2>6
    <2>18. Pool(u, index, tenure, Holders(q), now)
      BY <2>0, <2>5, <2>12, <2>16, <2>17 DEF Pool
    <2>19. index' = index /\ tenure' = tenure /\ now' = now /\ Holders(open)' = Holders(q)
      BY <1>2 DEF Holders, Holding
    <2>20. QED
      BY <2>13, <2>18, <2>19
  <1>7. QED
    BY <1>5, <1>6

\* One connection changes: the sets it was and is counted in.
LEMMA ChangedCounted ==
    ASSUME NEW op, OpenOK(op), NEW c \in DOMAIN op, NEW q, NEW x \in ConnType, x.rl => x.ip,
           DOMAIN q = DOMAIN op, q[c] = x, \A d \in DOMAIN op \ {c} : q[d] = op[d]
    PROVE  /\ OpenOK(q)
           /\ \A k : Counted(q, k) = IF x.ip /\ SubnetOf[x.info] = k
                                     THEN Counted(op, k) \cup {c} ELSE Counted(op, k) \ {c}
           /\ \A k : Holding(q, k) = IF x.rl /\ SubnetOf[x.info] = k
                                     THEN Holding(op, k) \cup {c} ELSE Holding(op, k) \ {c}
  <1>1. OpenOK(q)
    BY DEF OpenOK
  <1>2. ASSUME NEW k
        PROVE  Counted(q, k) = IF x.ip /\ SubnetOf[x.info] = k
                               THEN Counted(op, k) \cup {c} ELSE Counted(op, k) \ {c}
    BY DEF Counted
  <1>3. ASSUME NEW k
        PROVE  Holding(q, k) = IF x.rl /\ SubnetOf[x.info] = k
                               THEN Holding(op, k) \cup {c} ELSE Holding(op, k) \ {c}
    BY DEF Holding
  <1>4. QED
    BY <1>1, <1>2, <1>3

\* What AllowRequest does, with the identity it charges.
LEMMA RequestParts ==
    ASSUME LimInv, NEW c, NEW chain \in Headers(c), AllowRequest(c, chain)
    PROVE  LET o    == open[c]
               to   == IF o.ip THEN o.info ELSE ResolveClientIp(o.info, chain)
               key  == SubnetOf[to]
               conn == o.ip \/ Connections(key) < MaxConnectionsPerIp
               held == IF o.rl THEN Outcome(TRUE, Lru, index, tenure) ELSE Acquire(key)
           IN  /\ c \in DOMAIN open /\ o \in ConnType /\ to \in Address /\ key \in Identities
               /\ o.rl => o.ip
               /\ DOMAIN open' = DOMAIN open
               /\ open'[c] \in ConnType /\ open'[c].info = to
               /\ open'[c].ip <=> conn
               /\ open'[c].rl <=> conn /\ held.ok
               /\ \A d \in DOMAIN open \ {c} : open'[d] = open[d]
  <1> DEFINE o    == open[c]
             to   == IF o.ip THEN o.info ELSE ResolveClientIp(o.info, chain)
             key  == SubnetOf[to]
             conn == o.ip \/ Connections(key) < MaxConnectionsPerIp
             held == IF o.rl THEN Outcome(TRUE, Lru, index, tenure) ELSE Acquire(key)
  <1>1. c \in DOMAIN open
    BY DEF AllowRequest
  <1>2. o \in ConnType /\ (o.rl => o.ip)
    BY <1>1 DEF LimInv, OpenOK
  <1>3. to \in Address
    <2>1. o.info \in Address
      BY <1>2 DEF ConnType
    <2>2. ~o.ip => chain \in Seq(Address \cup {Junk})
      BY <1>1, AddressAssumption DEF Headers, Address
    <2>3. QED
      BY <2>1, <2>2, Resolved
  <1>4. key \in Identities
    BY <1>3, IdentityOf
  <1>5. open' = [open EXCEPT ![c].info = to, ![c].ip = conn, ![c].rl = conn /\ held.ok]
    BY DEF AllowRequest
  <1> HIDE DEF to, conn, held
  <1>6. /\ DOMAIN open' = DOMAIN open
        /\ \A d \in DOMAIN open \ {c} : open'[d] = open[d]
    BY <1>5
  <1>7. open'[c] = [[[o EXCEPT !.info = to] EXCEPT !.ip = conn] EXCEPT !.rl = (conn /\ held.ok)]
    BY <1>1, <1>5
  <1>8. open'[c] = [info |-> to, ip |-> conn, rl |-> conn /\ held.ok]
    BY <1>2, <1>7 DEF ConnType
  <1>9. conn \in BOOLEAN /\ (conn /\ held.ok) \in BOOLEAN
    BY DEF conn
  <1>10. open'[c] \in ConnType
    BY <1>3, <1>8, <1>9 DEF ConnType, to
  <1>11. /\ open'[c].info = to
         /\ open'[c].ip <=> conn
         /\ open'[c].rl <=> conn /\ held.ok
    <2>1. PICK a, b : a = conn /\ b = (conn /\ held.ok)
      OBVIOUS
    <2>2. open'[c] = [info |-> to, ip |-> a, rl |-> b]
      BY <1>8, <2>1, Zenon
    <2>3. open'[c].info = to /\ open'[c].ip = a /\ open'[c].rl = b
      BY <2>2
    <2>4. (a <=> conn) /\ (b <=> conn /\ held.ok)
      BY <1>9, <2>1
    <2>5. QED
      BY <2>3, <2>4, Zenon
  <1>12. QED
    BY <1>1, <1>2, <1>3, <1>4, <1>6, <1>10, <1>11 DEF to, conn, held

LEMMA ConnectionsExact ==
    ASSUME LimInv, NEW k \in Identities
    PROVE  /\ Connections(k) = Cardinality(Counted(open, k))
           /\ Connections(k) \in Nat /\ Connections(k) <= MaxConnectionsPerIp
  <1>1. OpenOK(open) /\ CountsOK(connCount, open)
    BY DEF LimInv
  <1>2. Cardinality(Counted(open, k)) \in Nat
    BY <1>1, SetsFinite
  <1>3. CASE k \in DOMAIN connCount
    BY <1>1, <1>2, <1>3 DEF CountsOK, Connections
  <1>4. CASE k \notin DOMAIN connCount
    BY <1>1, <1>4, FS_EmptySet, LimitsAssumption DEF CountsOK, Connections
  <1>5. QED
    BY <1>3, <1>4

LEMMA RequestCounts ==
    ASSUME LimInv, NEW c, NEW chain \in Headers(c), AllowRequest(c, chain)
    PROVE  OpenOK(open') /\ CountsOK(connCount', open')
  <1> DEFINE o    == open[c]
             to   == IF o.ip THEN o.info ELSE ResolveClientIp(o.info, chain)
             key  == SubnetOf[to]
             conn == o.ip \/ Connections(key) < MaxConnectionsPerIp
  <1>1. PICK q, x : q = open' /\ x = open'[c]
    OBVIOUS
  <1>2. /\ c \in DOMAIN open /\ o \in ConnType /\ to \in Address /\ key \in Identities
        /\ o.rl => o.ip
        /\ DOMAIN q = DOMAIN open /\ q[c] = x
        /\ x.info = to /\ x \in ConnType
        /\ x.ip <=> conn
        /\ x.rl => x.ip
        /\ \A d \in DOMAIN open \ {c} : q[d] = open[d]
    BY <1>1, RequestParts
  <1>3. connCount' = IF o.ip THEN connCount ELSE AllowConnection(key)
    BY DEF AllowRequest
  <1>4. OpenOK(open) /\ CountsOK(connCount, open)
    BY DEF LimInv
  <1>5. /\ OpenOK(q)
        /\ \A k : Counted(q, k) = IF x.ip /\ SubnetOf[x.info] = k
                                  THEN Counted(open, k) \cup {c} ELSE Counted(open, k) \ {c}
    BY <1>2, <1>4, ChangedCounted
  <1>6. SUFFICES CountsOK(connCount', q)
    BY <1>1, <1>5
  <1>7. CASE o.ip
    <2>1. x.ip /\ SubnetOf[x.info] = SubnetOf[o.info]
      BY <1>2, <1>7
    <2>2. \A k : c \in Counted(open, k) <=> SubnetOf[o.info] = k
      BY <1>2, <1>7 DEF Counted
    <2>3. \A k : Counted(q, k) = Counted(open, k)
      BY <1>5, <2>1, <2>2
    <2>4. QED
      BY <1>3, <1>4, <1>7, <2>3 DEF CountsOK
  <1>8. CASE ~o.ip
    <2>1. \A k : c \notin Counted(open, k)
      BY <1>8 DEF Counted
    <2>2. /\ Connections(key) = Cardinality(Counted(open, key)) /\ Connections(key) \in Nat
          /\ Connections(key) <= MaxConnectionsPerIp
      BY <1>2, ConnectionsExact
    <2> DEFINE n == IF Connections(key) < MaxConnectionsPerIp THEN Connections(key) + 1
                    ELSE Connections(key)
    <2>3. connCount' = With(connCount, key, n)
      BY <1>3, <1>8 DEF AllowConnection
    <2>4. /\ DOMAIN connCount' = DOMAIN connCount \cup {key} /\ connCount'[key] = n
          /\ \A k \in DOMAIN connCount : k # key => connCount'[k] = connCount[k]
      BY <2>3 DEF With
    <2>5. \A k : k # key => Counted(q, k) = Counted(open, k)
      BY <1>2, <1>5, <2>1
    <2>6. n = Cardinality(Counted(q, key)) /\ n <= MaxConnectionsPerIp
      <3>1. CASE Connections(key) < MaxConnectionsPerIp
        <4>1. Counted(q, key) = Counted(open, key) \cup {c}
          BY <1>2, <1>5, <3>1
        <4>2. IsFiniteSet(Counted(open, key))
          BY <1>4, SetsFinite
        <4>3. Cardinality(Counted(q, key)) = Cardinality(Counted(open, key)) + 1
          BY <2>1, <4>1, <4>2, FS_AddElement
        <4>4. QED
          BY <2>2, <3>1, <4>3, LimitsAssumption
      <3>2. CASE ~(Connections(key) < MaxConnectionsPerIp)
        <4>1. Counted(q, key) = Counted(open, key)
          BY <1>2, <1>5, <1>8, <2>1, <3>2
        <4>2. QED
          BY <2>2, <3>2, <4>1
      <3>3. QED
        BY <3>1, <3>2
    <2> HIDE DEF n, key
    <2>7. QED
      BY <1>2, <1>4, <2>4, <2>5, <2>6 DEF CountsOK
  <1>9. QED
    BY <1>7, <1>8

\* The pool that AllowRequest adopts.
LEMMA Adopted ==
    ASSUME NEW g, NEW n, Pool(g.lru, g.index, g.tenure, n, now), Adopt(g), now' = now,
           Holders(open') = n
    PROVE  Pool(Lru, index, tenure, Holders(open), now)'
  <1>1. g.lru \in LruType
    BY DEF Pool
  <1>2. Lru' = g.lru
    BY <1>1 DEF Adopt, Lru, LruType
  <1>3. index' = g.index /\ tenure' = g.tenure
    BY DEF Adopt
  <1>4. Pool(Lru', index', tenure', Holders(open'), now')
    BY <1>2, <1>3
  <1>5. QED
    BY <1>4 DEF Pool, Holders, Holding

LEMMA RequestPool ==
    ASSUME LimInv, NEW c, NEW chain \in Headers(c), AllowRequest(c, chain)
    PROVE  Pool(Lru, index, tenure, Holders(open), now)'
  <1> DEFINE o    == open[c]
             to   == IF o.ip THEN o.info ELSE ResolveClientIp(o.info, chain)
             key  == SubnetOf[to]
             conn == o.ip \/ Connections(key) < MaxConnectionsPerIp
             held == IF o.rl THEN Outcome(TRUE, Lru, index, tenure) ELSE Acquire(key)
  <1>1. PICK q, x : q = open' /\ x = open'[c]
    OBVIOUS
  <1>2. /\ c \in DOMAIN open /\ o \in ConnType /\ to \in Address /\ key \in Identities
        /\ o.rl => o.ip
        /\ DOMAIN q = DOMAIN open /\ q[c] = x
        /\ x.info = to /\ x \in ConnType
        /\ x.ip <=> conn
        /\ x.rl <=> conn /\ held.ok
        /\ x.rl => x.ip
        /\ \A d \in DOMAIN open \ {c} : q[d] = open[d]
    BY <1>1, RequestParts
  <1>3. OpenOK(open) /\ Pool(Lru, index, tenure, Holders(open), now) /\ now \in Nat
    BY DEF LimInv
  <1>4. \A k : Holding(q, k) = IF x.rl /\ SubnetOf[x.info] = k
                               THEN Holding(open, k) \cup {c} ELSE Holding(open, k) \ {c}
    BY <1>2, <1>3, ChangedCounted
  <1>5. ASSUME o.rl <=> x.rl, o.rl => to = o.info PROVE Holders(q) = Holders(open)
    <2>1. \A k : c \in Holding(open, k) <=> o.rl /\ SubnetOf[o.info] = k
      BY <1>2 DEF Holding
    <2>2. \A k : Holding(q, k) = Holding(open, k)
      BY <1>2, <1>4, <1>5, <2>1
    <2>3. QED
      BY <2>2 DEF Holders
  <1>6. now' = now
    BY DEF AllowRequest
  <1>7. CASE ~conn
    <2>1. UNCHANGED <<index, node, head, tail, tenure>>
      BY <1>7 DEF AllowRequest
    <2>2. ~o.rl /\ ~x.rl
      BY <1>2, <1>7
    <2>3. Holders(q) = Holders(open)
      BY <1>5, <2>2
    <2>4. Lru' = Lru /\ Holders(open') = Holders(open)
      BY <1>1, <2>1, <2>3 DEF Lru
    <2>5. Pool(Lru', index', tenure', Holders(open'), now')
      BY <1>3, <1>6, <2>1, <2>4
    <2>6. QED
      BY <2>5 DEF Pool, Holders, Holding
  <1>8. CASE conn /\ o.rl
    <2>1. held = Outcome(TRUE, Lru, index, tenure) /\ held.ok = TRUE
      BY <1>8 DEF Outcome
    <2>2. Adopt(Grant(held, key))
      BY <1>8, <2>1 DEF AllowRequest
    <2>3. key \in DOMAIN index
      BY <1>2, <1>8, SoundFromInv DEF LimitsSound, LiveIdentityTracked
    <2>4. PICK g : g = Grant(Outcome(TRUE, Lru, index, tenure), key)
      OBVIOUS
    <2>5. Pool(g.lru, g.index, g.tenure, Holders(open), now)
      BY <1>3, <2>3, <2>4, GrantPool
    <2>6. x.rl /\ o.rl
      BY <1>2, <1>8, <2>1
    <2>7. Holders(open') = Holders(open)
      BY <1>1, <1>2, <1>5, <1>8, <2>6
    <2>8. QED
      BY <1>6, <2>1, <2>2, <2>4, <2>5, <2>7, Adopted
  <1>9. CASE conn /\ ~o.rl
    <2>1. PICK n, h : n = Holders(open) /\ h = held
      OBVIOUS
    <2>2. h = Acquire(key)
      BY <1>9, <2>1
    <2>3. \/ /\ Pool(h.lru, h.index, h.tenure, Held(n, key), now)
             /\ key \in DOMAIN h.index /\ h = Outcome(TRUE, h.lru, h.index, h.tenure)
          \/ h = Outcome(FALSE, Lru, index, tenure)
      <3>1. PICK k \in Identities : k = key
        BY <1>2
      <3>2. Pool(Lru, index, tenure, n, now) /\ now \in Nat
        BY <1>3, <2>1
      <3>3. LET a == Acquire(k)
            IN  \/ /\ Pool(a.lru, a.index, a.tenure, Held(n, k), now)
                   /\ k \in DOMAIN a.index /\ a = Outcome(TRUE, a.lru, a.index, a.tenure)
                \/ a = Outcome(FALSE, Lru, index, tenure)
        BY <3>2, AcquirePool
      <3>4. QED
        BY <2>2, <3>1, <3>3
    <2>4. Adopt(IF h.ok THEN Grant(h, key) ELSE h)
      BY <1>9, <2>1 DEF AllowRequest
    <2>5. (x.rl <=> h.ok) /\ ~o.rl
      BY <1>2, <1>9, <2>1
    <2>6. CASE h = Outcome(FALSE, Lru, index, tenure)
      <3>1. h.ok = FALSE /\ h.lru = Lru /\ h.index = index /\ h.tenure = tenure
        BY <2>6 DEF Outcome
      <3>2. Holders(open') = n
        BY <1>1, <1>5, <2>1, <2>5, <3>1
      <3>3. Adopt(h) /\ Pool(h.lru, h.index, h.tenure, n, now)
        BY <1>3, <2>1, <2>4, <3>1
      <3>4. QED
        BY <1>6, <3>2, <3>3, Adopted
    <2>7. CASE /\ Pool(h.lru, h.index, h.tenure, Held(n, key), now)
               /\ key \in DOMAIN h.index /\ h = Outcome(TRUE, h.lru, h.index, h.tenure)
      <3>1. h.ok = TRUE
        BY <2>7 DEF Outcome
      <3>2. PICK g : g = Grant(h, key)
        OBVIOUS
      <3>3. Pool(g.lru, g.index, g.tenure, Held(n, key), now)
        <4>1. PICK l, ix, ten : l = h.lru /\ ix = h.index /\ ten = h.tenure
          OBVIOUS
        <4>2. LET gg == Grant(Outcome(TRUE, l, ix, ten), key)
              IN  Pool(gg.lru, gg.index, gg.tenure, Held(n, key), now)
          BY <1>3, <2>7, <4>1, GrantPool
        <4>3. QED
          BY <2>7, <3>2, <4>1, <4>2
      <3>4. Holders(open') = Held(n, key)
        <4>1. Holding(q, key) = Holding(open, key) \cup {c} /\ c \notin Holding(open, key)
          BY <1>2, <1>4, <1>9, <2>5, <3>1 DEF Holding
        <4>2. IsFiniteSet(Holding(open, key))
          BY <1>3, SetsFinite
        <4>3. Cardinality(Holding(q, key)) = Cardinality(Holding(open, key)) + 1
          BY <4>1, <4>2, FS_AddElement
        <4>4. \A k : k # key => Holding(q, k) = Holding(open, k)
          BY <1>2, <1>4, <1>9 DEF Holding
        <4> HIDE DEF key
        <4>5. Holders(q) = Held(n, key)
          BY <1>2, <2>1, <4>3, <4>4 DEF Holders, Held
        <4>6. QED
          BY <1>1, <4>5
      <3>5. Adopt(g)
        BY <2>4, <3>1, <3>2
      <3>6. QED
        BY <1>6, <3>3, <3>4, <3>5, Adopted
    <2>8. QED
      BY <2>3, <2>6, <2>7
  <1>10. QED
    BY <1>7, <1>8, <1>9

\* A step that resolves no address leaves nothing to compare.
LEMMA NothingResolved ==
    ASSUME verdict' = NoVerdict
    PROVE  HeaderPrefixIgnored'
  <1>1. verdict'.peer = Junk
    BY DEF NoVerdict
  <1>2. QED
    BY <1>1, AddressAssumption DEF HeaderPrefixIgnored

\* The first request of a connection resolves its client past any prefix.
LEMMA RequestVerdict ==
    ASSUME LimInv, NEW c, NEW chain \in Headers(c), AllowRequest(c, chain)
    PROVE  HeaderPrefixIgnored'
  <1> DEFINE o == open[c]
             to == ResolveClientIp(o.info, chain)
  <1>1. CASE o.ip
    <2>1. verdict' = NoVerdict
      BY <1>1 DEF AllowRequest
    <2>2. QED
      BY <2>1, NothingResolved
  <1>2. CASE ~o.ip
    <2>1. c \in DOMAIN open /\ verdict' = [peer |-> o.info, chain |-> chain, to |-> to]
      BY <1>2 DEF AllowRequest
    <2>2. chain \in Seq(Address \cup {Junk})
      BY <1>2, <2>1, AddressAssumption DEF Headers, Address
    <2> HIDE DEF to
    <2>3. verdict'.peer = o.info /\ verdict'.chain = chain /\ verdict'.to = to
      BY <2>1
    <2>4. ASSUME RealIpRecursive, o.info \in Trusted, NEW i \in DOMAIN chain,
                 chain[i] \notin Trusted \cup {Junk},
                 \A j \in (i + 1) .. Len(chain) : chain[j] \in Trusted
          PROVE  to = chain[i]
      BY <2>2, <2>4, PrefixIgnored DEF to
    <2>5. QED
      BY <2>3, <2>4 DEF HeaderPrefixIgnored
  <1>3. QED
    BY <1>1, <1>2

LEMMA AcceptHolds ==
    ASSUME LimInv, NEW c \in Conns, NEW p \in Peers, AcceptFrom(c, p)
    PROVE  LimInv'
  <1>1. PICK q, x : q = open' /\ x = [info |-> p, ip |-> FALSE, rl |-> FALSE]
    OBVIOUS
  <1>2. c \notin DOMAIN open /\ q = With(open, c, x)
    BY <1>1 DEF AcceptFrom
  <1>3. /\ DOMAIN q = DOMAIN open \cup {c} /\ q[c] = x
        /\ \A d \in DOMAIN open : q[d] = open[d]
    BY <1>2 DEF With
  <1>4. x \in ConnType /\ ~x.ip /\ ~x.rl
    BY <1>1, AddressAssumption DEF ConnType, Address
  <1>5. OpenOK(q)
    BY <1>3, <1>4 DEF LimInv, OpenOK
  <1>6. \A k : Counted(q, k) = Counted(open, k) /\ Holding(q, k) = Holding(open, k)
    BY <1>2, <1>3, <1>4 DEF Counted, Holding
  <1>7. Holders(q) = Holders(open)
    BY <1>6 DEF Holders
  <1>8. CountsOK(connCount, q)
    BY <1>6 DEF LimInv, CountsOK
  <1>9. UNCHANGED <<connCount, index, node, head, tail, now, tenure>> /\ verdict' = NoVerdict
    BY DEF AcceptFrom
  <1>10. Lru' = Lru
    BY <1>9 DEF Lru
  <1>11. Pool(Lru', index', tenure', Holders(open'), now')
    BY <1>1, <1>7, <1>9, <1>10 DEF LimInv
  <1>12. now' \in Nat /\ OpenOK(open') /\ CountsOK(connCount', open')
    BY <1>1, <1>5, <1>8, <1>9 DEF LimInv
  <1>13. Pool(Lru, index, tenure, Holders(open), now)'
    BY <1>11 DEF Pool, Holders, Holding
  <1>14. HeaderPrefixIgnored'
    BY <1>9, NothingResolved
  <1>15. QED
    BY <1>12, <1>13, <1>14 DEF LimInv, OpenOK, CountsOK, Counted

LEMMA RefillHolds ==
    ASSUME LimInv, Refill
    PROVE  LimInv'
  <1>1. /\ UNCHANGED <<open, connCount, index, node, head, tail, tenure>>
        /\ now' = now + 1 /\ verdict' = NoVerdict
    BY DEF Refill
  <1>2. Lru' = Lru /\ now \in Nat
    BY <1>1 DEF Lru, LimInv
  <1>3. ASSUME NEW b \in NodeType, NEW t, Rated(b, t, now)
        PROVE  Rated(b, t, now + 1)
    BY <1>2, <1>3 DEF Rated, NodeType
  <1>4. Pool(Lru, index, tenure, Holders(open), now + 1)
    <2>1. \A k \in DOMAIN index : Lru.node[index[k]] \in NodeType
      BY DEF LimInv, Pool, LruType
    <2>2. \A k \in DOMAIN index : Rated(Lru.node[index[k]], tenure[k], now + 1)
      BY <1>3, <2>1 DEF LimInv, Pool
    <2>3. QED
      BY <2>2 DEF LimInv, Pool
  <1>5. Pool(Lru', index', tenure', Holders(open'), now')
    BY <1>1, <1>2, <1>4
  <1>6. Pool(Lru, index, tenure, Holders(open), now)'
    BY <1>5 DEF Pool, Holders, Holding
  <1>7. now' \in Nat /\ OpenOK(open') /\ CountsOK(connCount', open')
    BY <1>1, <1>2 DEF LimInv
  <1>8. HeaderPrefixIgnored'
    BY <1>1, NothingResolved
  <1>9. QED
    BY <1>6, <1>7, <1>8 DEF LimInv, OpenOK, CountsOK, Counted

LEMMA InitHolds == LimitInit => LimInv
  <1> SUFFICES ASSUME LimitInit PROVE LimInv
    OBVIOUS
  <1> USE LimitsAssumption
  <1>1. DOMAIN open = {} /\ DOMAIN connCount = {} /\ DOMAIN index = {} /\ DOMAIN tenure = {}
    BY DEF LimitInit
  <1>2. OpenOK(open)
    BY <1>1 DEF OpenOK
  <1>3. \A k : Counted(open, k) = {} /\ Holding(open, k) = {}
    BY <1>1 DEF Counted, Holding
  <1>4. CountsOK(connCount, open)
    BY <1>1, <1>3 DEF CountsOK
  <1>5. Holders(open) = [k \in Identities |-> 0]
    BY <1>3, FS_EmptySet DEF Holders
  <1>6. Lru \in LruType
    BY DEF LimitInit, Lru, LruType, NodeType, Place
  <1>7. {index[k] : k \in DOMAIN index} = {}
    BY <1>1
  <1>8. ListOK(Lru, {})
    <2>1. Threads(Lru, {})
      BY DEF LimitInit, Lru, Threads
    <2>2. Ranks(Lru, {}, [i \in Nodes |-> 0], 0)
      BY DEF Ranks
    <2>3. QED
      BY <2>1, <2>2 DEF ListOK
  <1>9. Pool(Lru, index, tenure, Holders(open), now)
    <2>1. PICK n : n = Holders(open)
      OBVIOUS
    <2>2. n \in [Identities -> Nat] /\ \A k \in Identities : n[k] = 0
      BY <1>5, <2>1
    <2>3. Pool(Lru, index, tenure, n, now)
      BY <1>1, <1>6, <1>7, <1>8, <2>2 DEF Pool
    <2>4. QED
      BY <2>1, <2>3
  <1>10. now \in Nat
    BY DEF LimitInit
  <1>11. HeaderPrefixIgnored
    <2>1. verdict.peer = Junk
      BY DEF LimitInit, NoVerdict
    <2>2. QED
      BY <2>1, AddressAssumption DEF HeaderPrefixIgnored
  <1>12. QED
    BY <1>2, <1>4, <1>9, <1>10, <1>11 DEF LimInv

LEMMA LimStep == LimInv /\ [LimitNext]_limitVars => LimInv'
  <1> SUFFICES ASSUME LimInv, [LimitNext]_limitVars PROVE LimInv'
    OBVIOUS
  <1>1. ASSUME NEW c \in Conns, NEW p \in Peers, AcceptFrom(c, p) PROVE LimInv'
    BY <1>1, AcceptHolds
  <1>2. ASSUME NEW c \in Conns, NEW chain \in Headers(c), AllowRequest(c, chain) PROVE LimInv'
    <2>1. now' \in Nat
      BY <1>2 DEF LimInv, AllowRequest
    <2>2. OpenOK(open') /\ CountsOK(connCount', open')
      BY <1>2, RequestCounts
    <2>3. Pool(Lru, index, tenure, Holders(open), now)'
      BY <1>2, RequestPool
    <2>4. HeaderPrefixIgnored'
      BY <1>2, RequestVerdict
    <2>5. QED
      BY <2>1, <2>2, <2>3, <2>4 DEF LimInv, OpenOK, CountsOK, Counted
  <1>3. ASSUME NEW c \in Conns, HandleClose(c) PROVE LimInv'
    <2>1. now' \in Nat /\ verdict' = NoVerdict
      BY <1>3 DEF LimInv, HandleClose
    <2>2. OpenOK(open') /\ CountsOK(connCount', open')
      BY <1>3, CloseCounts
    <2>3. Pool(Lru, index, tenure, Holders(open), now)'
      BY <1>3, ClosePool
    <2>4. HeaderPrefixIgnored'
      BY <2>1, NothingResolved
    <2>5. QED
      BY <2>1, <2>2, <2>3, <2>4 DEF LimInv, OpenOK, CountsOK, Counted
  <1>4. CASE Refill
    BY <1>4, RefillHolds
  <1>5. CASE UNCHANGED limitVars
    <2>1. Lru' = Lru /\ Holders(open') = Holders(open)
      BY <1>5 DEF limitVars, Lru
    <2>2. Pool(Lru', index', tenure', Holders(open'), now')
      BY <1>5, <2>1 DEF limitVars, LimInv
    <2>3. HeaderPrefixIgnored'
      BY <1>5 DEF limitVars, LimInv, HeaderPrefixIgnored
    <2>4. now' \in Nat /\ OpenOK(open') /\ CountsOK(connCount', open')
      BY <1>5 DEF limitVars, LimInv
    <2>5. QED
      BY <2>2, <2>3, <2>4 DEF LimInv, OpenOK, CountsOK, Counted, Pool, Holders, Holding
  <1>6. QED
    BY <1>1, <1>2, <1>3, <1>4, <1>5 DEF LimitNext

\* Whatever connections come, ask and go, through whatever proxies, and
\* whatever identities the pool forgets: the counters of both limiters are the
\* number of connections they stand for, no identity goes over its connection
\* limit or its rate, a held bucket is never evicted, the LRU list threads
\* exactly the indexed nodes, and a header's prefix decides nothing.
THEOREM LimitsHold == LimitSpec => []LimitsSound
  <1>1. LimitInit => LimInv
    BY InitHolds
  <1>2. LimInv /\ [LimitNext]_limitVars => LimInv'
    BY LimStep
  <1>3. LimInv => LimitsSound
    BY SoundFromInv
  <1>4. QED
    BY <1>1, <1>2, <1>3, PTL DEF LimitSpec

===============================================================================
