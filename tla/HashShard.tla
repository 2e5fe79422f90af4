------------------------------ MODULE HashShard ------------------------------
(***************************************************************************)
(* The open-addressing hash table behind the timer heap's index, the rate  *)
(* limiter and the other maps of a worker (utils/hash_map/hash_shard.ipp). *)
(*                                                                         *)
(* Slots come in aligned groups.  A lookup probes whole groups and stops   *)
(* at the first one with an empty slot, so erasing may not always leave an *)
(* empty slot behind: Erase leaves a tombstone when a run of used slots    *)
(* as wide as a group surrounds the slot.  Tombstones are purged by        *)
(* CompactInPlace or by growing.  A slot is a record [tag, key, val]; a    *)
(* tag is a key's 7-bit hash fragment, "empty" or "deleted".               *)
(***************************************************************************)
EXTENDS Integers, Sequences, FiniteSets, FiniteSetsExt

CONSTANTS
    ShardKeys, ShardValues,
    HashOf,          \* WFXHash: the low bits choose the starting group
    TagOf,           \* its top seven bits
    GroupWidth,      \* GROUP_WIDTH: 8 in the code
    InitialCap,      \* capacity_ after Init
    MaxCap,          \* bound: growing past it fails like a refused allocation
    LoadNum, LoadDen,\* KLOAD_FACTOR_GROW as a fraction
    Nothing          \* the null pointer

VARIABLES
    slots,           \* entries_ and meta_: 0 .. capacity_ - 1 -> slot
    size,            \* size_
    deletedCount,    \* deletedCount_
    reply,           \* what the last call returned
    growthFailed     \* some Resize has been refused its memory

shardVars == <<slots, size, deletedCount, reply, growthFailed>>

EmptySlot == [tag |-> "empty", key |-> Nothing, val |-> Nothing]
IsFull(s) == s.tag \notin {"empty", "deleted"}
EmptyTable(cap) == [i \in 0 .. cap - 1 |-> EmptySlot]
Capacity(t) == Cardinality(DOMAIN t)
Holding(k, v) == [tag |-> TagOf[k], key |-> k, val |-> v]

Init_(cap) ==
    /\ slots = EmptyTable(cap)
    /\ size = 0
    /\ deletedCount = 0

-------------------------------------------------------------------------------
(* The n-th group of a key's probe sequence: strides 1, 2, 3, ... modulo   *)
(* the power-of-two number of groups.                                      *)
ProbeGroup(t, k, n) ==
    (HashOf[k] + (n * (n + 1)) \div 2) % (Capacity(t) \div GroupWidth)
GroupSlots(t, g) == (g * GroupWidth) .. (g * GroupWidth + GroupWidth - 1)

\* The groups a walk reads: up to the first that satisfies Stops, or all.
GroupCount(t) == Capacity(t) \div GroupWidth
FirstGroup(t, k, Stops(_)) ==
    LET hits == {n \in 0 .. GroupCount(t) - 1 : Stops(ProbeGroup(t, k, n))}
    IN  IF hits = {} THEN GroupCount(t) ELSE Min(hits)

Available(t, g) == {i \in GroupSlots(t, g) : ~IsFull(t[i])}
HasEmpty(t, g) == \E i \in GroupSlots(t, g) : t[i].tag = "empty"
Matches(t, g, k) == {i \in GroupSlots(t, g) : t[i].tag = TagOf[k] /\ t[i].key = k}

\* The walk ends at a match, at a group with an empty slot, or (fatal, when
\* the key is not there) after every group.  Without a match the first free
\* slot seen on the way receives the insertion.
FindSlotFault(t, k) ==
    LET Ends(g) == Matches(t, g, k) # {} \/ Available(t, g) # {}
        n == FirstGroup(t, k, Ends)
        last == ProbeGroup(t, k, n)
    IN  IF n = GroupCount(t) THEN [found |-> FALSE, pos |-> -1]
        ELSE IF Matches(t, last, k) # {}
        THEN [found |-> TRUE, pos |-> Min(Matches(t, last, k))]
        ELSE [found |-> FALSE, pos |-> Min(Available(t, last))]

FindSlot(t, k) ==
    LET Ends(g) == Matches(t, g, k) # {} \/ HasEmpty(t, g)
        n == FirstGroup(t, k, Ends)
        last == ProbeGroup(t, k, n)
        Avail(g) == Available(t, g) # {}
        first == ProbeGroup(t, k, FirstGroup(t, k, Avail))
    IN  IF n = GroupCount(t) THEN [found |-> FALSE, pos |-> -1]
        ELSE IF Matches(t, last, k) # {}
        THEN [found |-> TRUE, pos |-> Min(Matches(t, last, k))]
        ELSE [found |-> FALSE, pos |-> Min(Available(t, first))]

\* The walk of CompactInPlace: keys are unique, only a free slot matters.
FindAvailableSlot(t, k) ==
    LET Avail(g) == Available(t, g) # {}
    IN  Min(Available(t, ProbeGroup(t, k, FirstGroup(t, k, Avail))))

-------------------------------------------------------------------------------
\* Resize: every full slot, in table order, is placed in an empty table.
RECURSIVE Rehash(_, _, _)
Rehash(from, i, into) ==
    IF i = Capacity(from) THEN into
    ELSE Rehash(from, i + 1,
            IF IsFull(from[i])
            THEN [into EXCEPT ![FindSlot(into, from[i].key).pos] = from[i]]
            ELSE into)

\* CompactInPlace, second pass: settle slot i, following the cycle of entries
\* that are displaced by it.
RECURSIVE Settle(_, _)
Settle(t, i) ==
    IF i = Capacity(t) THEN t
    ELSE IF t[i].tag # "deleted" THEN Settle(t, i + 1)
    ELSE LET k == t[i].key
             p == FindAvailableSlot(t, k)
             placed == Holding(k, t[i].val)
         IN  IF p = i THEN Settle([t EXCEPT ![i] = placed], i + 1)
             ELSE IF t[p].tag = "empty"
             THEN Settle([t EXCEPT ![p] = placed, ![i] = EmptySlot], i + 1)
             ELSE Settle([t EXCEPT ![p] = placed, ![i] = t[p]], i)

CompactInPlaceFault(t) ==
    [i \in DOMAIN t |-> IF t[i].tag = "deleted" THEN EmptySlot ELSE t[i]]

CompactInPlace(t) ==
    Settle([i \in DOMAIN t |-> IF IsFull(t[i]) THEN [t[i] EXCEPT !.tag = "deleted"]
                               ELSE EmptySlot], 0)

PastLoadFactor(used) == used * LoadDen > LoadNum * Capacity(slots)

\* The table InsertOrGet walks, with its tombstone count: grown, compacted or
\* left alone.  grows: does the allocator serve the Resize, if there is one.
Prepared(grows) ==
    IF ~PastLoadFactor(size + deletedCount + 1)
    THEN [t |-> slots, del |-> deletedCount, refused |-> FALSE]
    ELSE IF ~PastLoadFactor(size + 1)
    THEN [t |-> CompactInPlace(slots), del |-> 0, refused |-> FALSE]
    ELSE IF grows /\ 2 * Capacity(slots) <= MaxCap
    THEN [t |-> Rehash(slots, 0, EmptyTable(2 * Capacity(slots))), del |-> 0, refused |-> FALSE]
    ELSE [t |-> slots, del |-> deletedCount, refused |-> TRUE]

Exhausted == reply' = "fatal" /\ UNCHANGED <<size, deletedCount, slots>>

InsertOrGet(k, v, overwriteExisting, grows) ==
    LET p == Prepared(grows)
        slot == FindSlot(p.t, k)
    IN  /\ growthFailed' = (growthFailed \/ p.refused)
        /\ \/ /\ slot.found
              /\ slots' = IF overwriteExisting THEN [p.t EXCEPT ![slot.pos].val = v] ELSE p.t
              /\ reply' = slots'[slot.pos].val
              /\ deletedCount' = p.del
              /\ UNCHANGED size
           \/ /\ ~slot.found /\ slot.pos # -1
              /\ slots' = [p.t EXCEPT ![slot.pos] = Holding(k, v)]
              /\ deletedCount' = p.del - (IF p.t[slot.pos].tag = "deleted" THEN 1 ELSE 0)
              /\ size' = size + 1
              /\ reply' = v
           \/ slot.pos = -1 /\ Exhausted

\* Used slots right before pos and from pos on, up to one group's width.
RunBefore(t, pos) ==
    Max({n \in 0 .. GroupWidth : \A d \in 1 .. n : t[(pos - d) % Capacity(t)].tag # "empty"})
RunAfter(t, pos) ==
    Max({n \in 0 .. GroupWidth : \A d \in 0 .. n - 1 : t[(pos + d) % Capacity(t)].tag # "empty"})

MustStayTombstoneFault(t, pos) == RunBefore(t, pos) + RunAfter(t, pos) > GroupWidth
MustStayTombstone(t, pos) == RunBefore(t, pos) + RunAfter(t, pos) >= GroupWidth

Erase(k) ==
    LET slot == FindSlot(slots, k)
        keeps == MustStayTombstone(slots, slot.pos)
    IN  /\ UNCHANGED growthFailed
        /\ \/ /\ slot.found
              /\ slots' = [slots EXCEPT ![slot.pos] =
                             [EmptySlot EXCEPT !.tag = IF keeps THEN "deleted" ELSE "empty"]]
              /\ deletedCount' = deletedCount + (IF keeps THEN 1 ELSE 0)
              /\ size' = size - 1
              /\ reply' = "erased"
           \/ /\ ~slot.found /\ slot.pos # -1
              /\ reply' = "absent"
              /\ UNCHANGED <<slots, deletedCount, size>>
           \/ slot.pos = -1 /\ Exhausted

Get(k) ==
    LET slot == FindSlot(slots, k)
    IN  /\ reply' = IF slot.found THEN slots[slot.pos].val
                    ELSE IF slot.pos = -1 THEN "fatal" ELSE Nothing
        /\ UNCHANGED <<slots, size, deletedCount, growthFailed>>

ShardInit == Init_(InitialCap) /\ reply = Nothing /\ growthFailed = FALSE

\* A Fatal ends the process.
ShardNext ==
    /\ reply # "fatal"
    /\ \/ \E k \in ShardKeys, v \in ShardValues, o, g \in BOOLEAN : InsertOrGet(k, v, o, g)
       \/ \E k \in ShardKeys : Erase(k)
       \/ \E k \in ShardKeys : Get(k)

-------------------------------------------------------------------------------
(* Refinement: read only through its full slots, the table is a map, and   *)
(* every answer of Get, Insert, GetOrInsert and Erase is the map's.  A     *)
(* Fatal("FindSlot exhausted every group") needs a refused Resize first.   *)
Content == [k \in ShardKeys |->
    LET at == {i \in DOMAIN slots : IsFull(slots[i]) /\ slots[i].key = k}
    IN  IF at = {} THEN Nothing ELSE slots[CHOOSE i \in at : TRUE].val]

Map == INSTANCE AbstractMap WITH
    MapKeys <- ShardKeys, MapValues <- ShardValues, NoValue <- Nothing, GaveUp <- "fatal",
    content <- Content, answer <- reply, starved <- growthFailed

ShardIsAMap == Map!MapSpec

(* The counters the load factor is computed from are exact, no key is      *)
(* stored twice, and while no Resize has failed some slot stays empty, so  *)
(* that the walk for an absent key ends.                                   *)
CountsExact ==
    LET Tagged(P(_)) == Cardinality({i \in DOMAIN slots : P(slots[i])})
        Dead(s) == s.tag = "deleted"
        Free(s) == s.tag = "empty"
    IN  /\ size = Tagged(IsFull)
        /\ deletedCount = Tagged(Dead)
        /\ \A i, j \in DOMAIN slots :
               IsFull(slots[i]) /\ IsFull(slots[j]) /\ slots[i].key = slots[j].key => i = j
        /\ ~growthFailed => Tagged(Free) > 0
===============================================================================
