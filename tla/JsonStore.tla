----------------------------- MODULE JsonStore -----------------------------
(***************************************************************************)
(* The JSON document of shared/json/json_object.hpp.  A store keeps nodes, *)
(* key/value records (JsonKV) with a free list, and one heap buffer per    *)
(* container node: an array's elements, or an object's key list and the    *)
(* open-addressing hash table that finds its keys.  A JsonRef is a node    *)
(* index, so any node ever made can be edited, in any order.               *)
(*                                                                         *)
(* Strings are their identity; the store's own arrays (nodes, kvs, strs)   *)
(* grow by realloc and are indexed by offset, so only their lengths show.  *)
(* A buffer the pool cannot give ends the process (BufferPool), so the     *)
(* null returns of Alloc are not behaviours of the program.                *)
(***************************************************************************)
EXTENDS Integers, Sequences, FiniteSets, SequencesExt

CONSTANTS JsonKeys,     \* the names in use
          JsonHash,     \* WyHash of each name
          JsonTrees,    \* documents of other stores, to be copied in
          InitListCap,  \* JSON_INIT_CAP
          MinHtCap,     \* the smallest hash table (8)
          MaxNodes,     \* bound: nodes of a document
          MaxEdits      \* bound: calls on it

VARIABLES store, edits

jsonVars == <<store, edits>>

JsonNil  == 0
JsonTomb == -1

FreshNode == [tag |-> "EMPTY", buf |-> 0]
NoBuffer  == [cap |-> 0, list |-> <<>>, ht |-> <<>>]

\* JsonObject::Init: one node, the root object, with no buffer yet
FreshStore == [nodes |-> <<[tag |-> "OBJECT", buf |-> 0]>>, kvs |-> <<>>, free |-> <<>>,
               bufs |-> [b \in {} |-> NoBuffer]]

IsContainer(n) == n.tag \in {"ARRAY", "OBJECT"}

-----------------------------------------------------------------------------
\* Buffers: Alloc, Realloc and Free of the pool, by identity.

BufOf(s, n) == IF s.nodes[n].buf = 0 THEN NoBuffer ELSE s.bufs[s.nodes[n].buf]

\* Store contents c as node n's buffer, allocating the buffer if it has none
SetBuf(s, n, c) ==
    LET b == IF s.nodes[n].buf # 0 THEN s.nodes[n].buf
             ELSE CHOOSE i \in 1 .. Cardinality(DOMAIN s.bufs) + 1 : i \notin DOMAIN s.bufs IN
    [s EXCEPT !.nodes[n].buf = b, !.bufs = [i \in DOMAIN @ \cup {b} |-> IF i = b THEN c ELSE @[i]]]

Freed(bufs, owners) == [b \in DOMAIN bufs \ owners |-> bufs[b]]

DropBufferFault(s, n) == [s EXCEPT !.nodes[n].buf = 0]

\* A node taking a new value frees the container buffer it held
DropBuffer(s, n) ==
    IF IsContainer(s.nodes[n])
    THEN [s EXCEPT !.nodes[n].buf = 0, !.bufs = Freed(@, {s.nodes[n].buf})] ELSE s

-----------------------------------------------------------------------------
\* The hash table of an object: linear probing over a power of two.

BitCeil(n) == CHOOSE p \in {2 ^ k : k \in 0 .. n} : p >= n /\ \A k \in 0 .. n : 2 ^ k >= n => p <= 2 ^ k

ObjHtCapFor(count) == IF BitCeil(2 * count) < MinHtCap THEN MinHtCap ELSE BitCeil(2 * count)

EmptyHt(cap) == [h \in 0 .. cap - 1 |-> JsonNil]

\* The slots in probe order from a hash, as far as the first one holding one of stops
ProbeStop(ht, hash, stops) ==
    LET C == Cardinality(DOMAIN ht)
        D == {d \in 0 .. C - 1 : ht[(hash + d) % C] \in stops}
    IN IF D = {} THEN hash % C ELSE (hash + (CHOOSE d \in D : \A e \in D : d <= e)) % C

KvsNamed(s, key) == {k \in DOMAIN s.kvs : s.kvs[k].key = key}

HTFindFault(s, n, key) ==
    LET ht == BufOf(s, n).ht
        at == ht[ProbeStop(ht, JsonHash[key], {JsonNil, JsonTomb} \cup KvsNamed(s, key))]
    IN IF s.nodes[n].tag # "OBJECT" \/ ht = <<>> \/ at = JsonTomb THEN JsonNil ELSE at

\* The kv an object finds under a key, JsonNil when the probe meets an empty slot
HTFind(s, n, key) ==
    LET ht == BufOf(s, n).ht IN
    IF s.nodes[n].tag # "OBJECT" \/ ht = <<>> THEN JsonNil
    ELSE ht[ProbeStop(ht, JsonHash[key], {JsonNil} \cup KvsNamed(s, key))]

Linked(s, ht, k) == [ht EXCEPT ![ProbeStop(ht, JsonHash[s.kvs[k].key], {JsonNil, JsonTomb})] = k]

\* Rebuild from the key list, resizing either region
RebuildHT(s, n, htCap, listCap) ==
    SetBuf(s, n, [cap |-> listCap, list |-> BufOf(s, n).list,
                  ht |-> FoldLeft(LAMBDA ht, k : Linked(s, ht, k), EmptyHt(htCap), BufOf(s, n).list)])

GrownCap(cap) == IF cap = 0 THEN InitListCap ELSE 2 * cap

\* HTInsert of the kv just appended: rebuilt larger once more than half full
HTInsert(s, n, k) ==
    LET b == BufOf(s, n)
        count == Len(b.list)
        htCap == Cardinality(DOMAIN b.ht)
    IN IF htCap = 0 \/ count > htCap \div 2 THEN RebuildHT(s, n, ObjHtCapFor(count), b.cap)
       ELSE SetBuf(s, n, [b EXCEPT !.ht = Linked(s, b.ht, k)])

\* Append to the key list, which keeps its hash table when it grows (GrowKVCap)
Appended(b, x) == [b EXCEPT !.list = Append(@, x), !.cap = IF Len(b.list) >= @ THEN GrownCap(@) ELSE @]

ObjAppendKV(s, n, k) == HTInsert(SetBuf(s, n, Appended(BufOf(s, n), k)), n, k)

ArrAppend(s, n, elem) == SetBuf(s, n, Appended(BufOf(s, n), elem))

-----------------------------------------------------------------------------
\* Nodes and key/value records.

AllocNode(s) == [s EXCEPT !.nodes = Append(@, FreshNode)]

\* The kv AllocKV hands out: the head of the free list, or a new one
NextKV(s) == IF s.free # <<>> THEN Head(s.free) ELSE Len(s.kvs) + 1

AllocKV(s, key, val) ==
    LET kv == [key |-> key, val |-> val] IN
    IF s.free # <<>> THEN [s EXCEPT !.kvs[Head(s.free)] = kv, !.free = Tail(@)]
    ELSE [s EXCEPT !.kvs = Append(@, kv)]

FreeKV(s, k) == [s EXCEPT !.kvs[k].val = JsonNil, !.free = <<k>> \o @]

\* Link key to an existing node
LinkKey(s, n, key, val) == ObjAppendKV(AllocKV(s, key, val), n, NextKV(s))

\* A key the object does not have: a new node, linked
AppendKey(s, n, key) ==
    LET a == AllocNode(s) IN LinkKey(a, n, key, Len(a.nodes))

\* An EMPTY node becomes the container it is used as
As(s, n, tag) == IF s.nodes[n].tag = "EMPTY" THEN [s EXCEPT !.nodes[n] = [tag |-> tag, buf |-> 0]] ELSE s

Usable(s, n, tag) == s.nodes[n].tag \in {"EMPTY", tag}

GetOrCreate(s, n, key) ==
    LET o == As(s, n, "OBJECT") IN
    IF HTFind(o, n, key) # JsonNil THEN o ELSE AppendKey(o, n, key)

ValueOf(s, n, key) == s.kvs[HTFind(s, n, key)].val

Assign(s, n, tag) == [DropBuffer(s, n) EXCEPT !.nodes[n].tag = tag]

-----------------------------------------------------------------------------
\* Deep copy of another store's tree.

\* One allocation for count keys: list and table at their final size
ObjReserve(s, n, count) ==
    LET b == BufOf(s, n)
        htCap == Cardinality(DOMAIN b.ht)
        want == ObjHtCapFor(count)
        larger(x, y) == IF x > y THEN x ELSE y
    IN IF count <= b.cap /\ want <= htCap THEN s
       ELSE RebuildHT(s, n, larger(want, htCap), larger(count, b.cap))

RECURSIVE CopyNode(_, _, _)

CopyElems(s, n, t) ==
    FoldLeft(LAMBDA a, kid : CopyNode(ArrAppend(AllocNode(a), n, Len(a.nodes) + 1), Len(a.nodes) + 1, kid.node),
             SetBuf(s, n, [NoBuffer EXCEPT !.cap = Len(t.kids)]), t.kids)

CopyKeys(s, n, t) ==
    FoldLeft(LAMBDA a, kid : CopyNode(AppendKey(a, n, kid.key), Len(a.nodes) + 1, kid.node),
             ObjReserve(s, n, Len(t.kids)), t.kids)

CopyNode(s, n, t) ==
    LET e == Assign(Assign(s, n, "EMPTY"), n, t.tag) IN
    IF t.kids = <<>> THEN e
    ELSE IF t.tag = "ARRAY" THEN CopyElems(e, n, t) ELSE CopyKeys(e, n, t)

RECURSIVE TreeSize(_)
TreeSize(t) == 1 + FoldLeft(LAMBDA a, kid : a + TreeSize(kid.node), 0, t.kids)

-----------------------------------------------------------------------------
\* Operations.  Each is one call on a JsonRef, or on the JsonObject.

Room(nodes) == Len(store.nodes) + nodes <= MaxNodes

OpAssign(n, tag) == store' = Assign(store, n, tag)

OpIndex(n, key) ==
    /\ Usable(store, n, "OBJECT") /\ Room(1)
    /\ store' = GetOrCreate(store, n, key)

OpSet(n, key, tag) ==
    /\ Usable(store, n, "OBJECT") /\ Room(1)
    /\ LET g == GetOrCreate(store, n, key) IN store' = Assign(g, ValueOf(g, n, key), tag)

ChildrenOf(s, n) ==
    IF ~IsContainer(s.nodes[n]) THEN {}
    ELSE {IF s.nodes[n].tag = "OBJECT" THEN s.kvs[x].val ELSE x : x \in Range(BufOf(s, n).list)}

\* The nodes below (or at) n: what Serialize would visit
RECURSIVE Below(_, _)
Below(s, n) == {n} \cup UNION {Below(s, m) : m \in ChildrenOf(s, n)}

\* Set(key, JsonRef) within the store: the key is pointed at the node itself.
\* Nothing in the code refuses a node that contains n; a document that
\* contains itself has no text, so callers do not build one.
OpSetRef(n, key, val) ==
    /\ Usable(store, n, "OBJECT") /\ n \notin Below(store, val)
    /\ LET o == As(store, n, "OBJECT")
           k == HTFind(o, n, key)
       IN store' = IF k # JsonNil THEN [o EXCEPT !.kvs[k].val = val] ELSE LinkKey(o, n, key, val)

\* Set(key, JsonRef) of another store: a deep copy
OpSetCopy(n, key, t) ==
    /\ Usable(store, n, "OBJECT") /\ Room(TreeSize(t))
    /\ LET g == GetOrCreate(store, n, key) IN store' = CopyNode(g, ValueOf(g, n, key), t)

\* Merge of another store's root object into this root
Merge(t) ==
    /\ t.tag = "OBJECT" /\ t.kids # <<>> /\ store.nodes[1].tag = "OBJECT" /\ Room(TreeSize(t) - 1)
    /\ LET merged(a, kid) == LET g == GetOrCreate(a, 1, kid.key) IN CopyNode(g, ValueOf(g, 1, kid.key), kid.node)
       IN store' = FoldLeft(merged, ObjReserve(store, 1, Len(BufOf(store, 1).list) + Len(t.kids)), t.kids)

TombsOf(ht) == Cardinality({h \in DOMAIN ht : ht[h] = JsonTomb})

\* Tombstone the slot, close the gap in the list, free the kv
Unlinked(s, n, k) ==
    LET b == BufOf(s, n) IN
    FreeKV(SetBuf(s, n, [b EXCEPT !.ht = [h \in DOMAIN @ |-> IF @[h] = k THEN JsonTomb ELSE @[h]],
                                  !.list = SelectSeq(@, LAMBDA i : i # k)]), k)

EraseKeyFault(n, key) ==
    LET k == HTFind(store, n, key) IN k # JsonNil /\ store' = Unlinked(store, n, k)

\* and rebuild the table in place once over a quarter of it is tombstones
EraseKey(n, key) ==
    LET k == HTFind(store, n, key)
        u == Unlinked(store, n, k)
        b == BufOf(u, n)
        htCap == Cardinality(DOMAIN b.ht)
    IN k # JsonNil /\ store' = IF TombsOf(b.ht) > htCap \div 4 THEN RebuildHT(u, n, htCap, b.cap) ELSE u

EraseIndex(n, i) ==
    /\ store.nodes[n].tag = "ARRAY" /\ i \in DOMAIN BufOf(store, n).list
    /\ store' = SetBuf(store, n, [BufOf(store, n) EXCEPT !.list = RemoveAt(@, i)])

\* PushBack(): an EMPTY element; PushBack(v) assigns it
OpPushBack(n, tag) ==
    /\ Usable(store, n, "ARRAY") /\ Room(1)
    /\ LET a == AllocNode(As(store, n, "ARRAY")) IN
       store' = Assign(ArrAppend(a, n, Len(a.nodes)), Len(a.nodes), tag)

\* Destroy (also the target of a move): every container buffer is freed with
\* its node; the next document starts over.
Destroy ==
    store' = [FreshStore EXCEPT !.bufs =
        Freed(store.bufs, {n.buf : n \in {m \in Range(store.nodes) : IsContainer(m)}})]

JsonInit == store = FreshStore /\ edits = 0

JsonOp ==
    \/ \E n \in DOMAIN store.nodes :
          \/ \E tag \in {"EMPTY", "SCALAR"} : OpAssign(n, tag) \/ OpPushBack(n, tag)
          \/ \E key \in JsonKeys : OpIndex(n, key) \/ OpSet(n, key, "SCALAR") \/ EraseKey(n, key)
          \/ \E key \in JsonKeys, val \in DOMAIN store.nodes : OpSetRef(n, key, val)
          \/ \E key \in JsonKeys, t \in JsonTrees : OpSetCopy(n, key, t)
          \/ \E i \in 1 .. MaxNodes : EraseIndex(n, i)
    \/ \E t \in JsonTrees : Merge(t)
    \/ Destroy

JsonNext == edits < MaxEdits /\ edits' = edits + 1 /\ JsonOp

JsonSpec == JsonInit /\ [][JsonNext]_jsonVars

-----------------------------------------------------------------------------
\* Properties.

Owners(b) == {n \in DOMAIN store.nodes : IsContainer(store.nodes[n]) /\ store.nodes[n].buf = b}

Objects == {n \in DOMAIN store.nodes : store.nodes[n].tag = "OBJECT"}
ListOf(n) == BufOf(store, n).list

\* Every container buffer belongs to exactly one node, so no assignment, deep
\* copy, merge or destruction leaks one or leaves two nodes to free it
\* (DropBuffer, CopyNode, FreeNodeData); no kv is linked twice or is linked
\* and free at once; and every hash table keeps an empty slot, without which
\* the probe loops of HTFind and EraseKey would never end.
JsonStoreSound ==
    /\ \A b \in DOMAIN store.bufs : Cardinality(Owners(b)) = 1
    /\ \A n \in Objects : IsInjective(ListOf(n)) /\ Range(ListOf(n)) \cap Range(store.free) = {}
    /\ \A m, n \in Objects : m # n => Range(ListOf(m)) \cap Range(ListOf(n)) = {}
    /\ \A n \in Objects : LET ht == BufOf(store, n).ht IN ht # <<>> => \E h \in DOMAIN ht : ht[h] = JsonNil

\* The document a reader of the store sees (Serialize walks the lists)
KidsOf(n) ==
    LET list == ListOf(n) IN
    [i \in DOMAIN list |-> IF store.nodes[n].tag = "OBJECT"
                           THEN [key |-> store.kvs[list[i]].key, node |-> store.kvs[list[i]].val]
                           ELSE [key |-> "", node |-> list[i]]]

Visible == [n \in DOMAIN store.nodes |->
    [tag |-> store.nodes[n].tag, kids |-> IF IsContainer(store.nodes[n]) THEN KidsOf(n) ELSE <<>>]]

Document == INSTANCE AbstractDoc WITH doc <- Visible, DocKeys <- JsonKeys, DocTrees <- JsonTrees

\* Whatever sequence of edits, through whatever references, the lists, hash
\* tables and recycled kvs of the store behave as insertion-ordered objects
\* and arrays: a key is found when and only when it is listed, a copied tree
\* reads back whole, and an edit of one node changes no other.
JsonIsADocument == Document!DocSpec
=============================================================================
