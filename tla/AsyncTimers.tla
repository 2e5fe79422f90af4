----------------------------- MODULE AsyncTimers -----------------------------
(***************************************************************************)
(* Sleeping coroutines: the binary heap of utils/timer/timer_heap.cpp with *)
(* its index idMap_, and the event loop code around it (RefreshAsyncTimer, *)
(* HandleAsyncTimer, UpdateAsyncTimer and the removal in ReleaseClient).   *)
(*                                                                         *)
(* One one-shot timerfd serves every sleeper, so whoever changes the head  *)
(* of the heap must re-arm it.  HandleAsyncTimer resumes coroutines while  *)
(* it pops, and a resumed coroutine may go back to sleep at once: the loop *)
(* is split at that call.  Heap positions count from 1.                    *)
(***************************************************************************)
EXTENDS Integers, Sequences

CONSTANTS
    Sleepers,      \* client slots, the heap's 'data'
    NoSleeper,
    Delta,         \* coalescing width: 10 ms in RefreshAsyncTimer
    Delays,        \* the delays coroutines ask for, in ms
    MaxMs          \* bound: the last instant of a behaviour

VARIABLES
    heap,          \* heap_: <<[data, delay], ...>>
    idMap,         \* idMap_: slot -> heap position, 0 when absent
    ms,            \* NowMs()
    fdAt,          \* when asyncTimerFd_ becomes readable, 0 when disarmed
    newTick,       \* HandleAsyncTimer's local while it runs, else -1
    resumed,       \* the coroutine HandleAsyncTimer is running
    wakeAt         \* ctx->isAsyncTimerOperation: the instant asked for, or -1

sleepVars == <<heap, idMap, ms, fdAt, newTick, resumed, wakeAt>>

-------------------------------------------------------------------------------
(* utils/timer/timer_heap.cpp, on a record [h |-> heap_, m |-> idMap_].    *)

RoundToBucket(expire, delta) ==
    IF delta = 0 THEN expire ELSE ((expire + delta \div 2) \div delta) * delta

SwapNodes(s, i, j) ==
    [h |-> [s.h EXCEPT ![i] = s.h[j], ![j] = s.h[i]],
     m |-> [s.m EXCEPT ![s.h[i].data] = j, ![s.h[j].data] = i]]

RECURSIVE SiftUp(_, _)
SiftUp(s, i) ==
    IF i = 1 \/ s.h[i].delay >= s.h[i \div 2].delay
    THEN <<s, i>>
    ELSE SiftUp(SwapNodes(s, i, i \div 2), i \div 2)

\* The child that takes i's place, or i itself: l is preferred on a tie.
SmallestOf(s, i) ==
    LET Below(j, k) == j <= Len(s.h) /\ s.h[j].delay < s.h[k].delay
        left == IF Below(2 * i, i) THEN 2 * i ELSE i
    IN  IF Below(2 * i + 1, left) THEN 2 * i + 1 ELSE left

RECURSIVE SiftDown(_, _)
SiftDown(s, i) ==
    LET j == SmallestOf(s, i)
    IN  IF j = i THEN s ELSE SiftDown(SwapNodes(s, i, j), j)

FixHeap(s, i) == LET up == SiftUp(s, i) IN SiftDown(up[1], up[2])

HeapInsert(s, data, expire) ==
    LET i == Len(s.h) + 1
    IN  FixHeap([h |-> Append(s.h, [data |-> data, delay |-> RoundToBucket(expire, Delta)]),
                 m |-> [s.m EXCEPT ![data] = i]], i)

HeapRemoveFault(s, data) ==
    LET i == s.m[data]
        last == Len(s.h)
        moved == [h |-> SubSeq([s.h EXCEPT ![i] = s.h[last]], 1, last - 1),
                  m |-> [[s.m EXCEPT ![s.h[last].data] = i] EXCEPT ![data] = 0]]
    IN  moved

HeapRemove(s, data) ==
    LET i == s.m[data]
        last == Len(s.h)
        moved == [h |-> SubSeq([s.h EXCEPT ![i] = s.h[last]], 1, last - 1),
                  m |-> [[s.m EXCEPT ![s.h[last].data] = i] EXCEPT ![data] = 0]]
    IN  IF i < last THEN FixHeap(moved, i) ELSE moved

Heap == [h |-> heap, m |-> idMap]
HeapBecomes(s) == heap' = s.h /\ idMap' = s.m

\* PopExpired's test on the head.
HeadExpired == heap # <<>> /\ heap[1].delay <= newTick

-------------------------------------------------------------------------------
(* os_specific/linux/epoll_connection.cpp                                   *)

UpdateAsyncTimerFault(h) ==
    fdAt' = IF h = <<>> THEN 0
            ELSE IF fdAt # 0 THEN fdAt
            ELSE ms + (IF h[1].delay <= ms THEN 1 ELSE h[1].delay - ms)

UpdateAsyncTimer(h) ==
    fdAt' = IF h = <<>> THEN 0
            ELSE ms + (IF h[1].delay <= ms THEN 1 ELSE h[1].delay - ms)

\* A coroutine of client c awaits a sleep: outside the timer's handler, or
\* from the handler that has just resumed it.  Insert refuses a second entry.
RefreshAsyncTimer(c, delayMs) ==
    /\ newTick = -1 \/ resumed = c
    /\ idMap[c] = 0
    /\ HeapBecomes(HeapInsert(Heap, c, ms + delayMs))
    /\ wakeAt' = [wakeAt EXCEPT ![c] = ms + delayMs]
    /\ UpdateAsyncTimer(heap')
    /\ resumed' = NoSleeper
    /\ UNCHANGED <<ms, newTick>>

\* ReleaseClient of a client whose coroutine is still asleep.
ReleaseSleeper(c) ==
    /\ newTick = -1
    /\ wakeAt[c] # -1
    /\ HeapBecomes(HeapRemove(Heap, c))
    /\ wakeAt' = [wakeAt EXCEPT ![c] = -1]
    /\ UpdateAsyncTimer(heap')
    /\ UNCHANGED <<ms, newTick, resumed>>

\* HandleAsyncTimer: the read consumes the expiration, the clock is read once.
HandleAsyncTimer ==
    /\ newTick = -1
    /\ fdAt # 0 /\ fdAt <= ms
    /\ fdAt' = 0
    /\ newTick' = ms
    /\ UNCHANGED <<heap, idMap, ms, resumed, wakeAt>>

\* One turn of its loop: the popped client's coroutine starts to run.
PopExpired ==
    /\ newTick # -1 /\ resumed = NoSleeper
    /\ HeadExpired
    /\ HeapBecomes(HeapRemove(Heap, heap[1].data))
    /\ resumed' = heap[1].data
    /\ wakeAt' = [wakeAt EXCEPT ![heap[1].data] = -1]
    /\ UNCHANGED <<ms, fdAt, newTick>>

\* The coroutine ends, or waits for something that is not a sleep.
CoroutineReturns ==
    /\ resumed # NoSleeper
    /\ resumed' = NoSleeper
    /\ UNCHANGED <<heap, idMap, ms, fdAt, newTick, wakeAt>>

HandleAsyncTimerEnd ==
    /\ newTick # -1 /\ resumed = NoSleeper
    /\ ~HeadExpired
    /\ UpdateAsyncTimer(heap)
    /\ newTick' = -1
    /\ UNCHANGED <<heap, idMap, ms, resumed, wakeAt>>

MsPasses ==
    /\ ms < MaxMs
    /\ ms' = ms + 1
    /\ UNCHANGED <<heap, idMap, fdAt, newTick, resumed, wakeAt>>

SleepInit ==
    /\ heap = <<>>
    /\ idMap = [c \in Sleepers |-> 0]
    /\ ms = 0
    /\ fdAt = 0
    /\ newTick = -1
    /\ resumed = NoSleeper
    /\ wakeAt = [c \in Sleepers |-> -1]

SleepNext ==
    \/ \E c \in Sleepers, d \in Delays : RefreshAsyncTimer(c, d)
    \/ \E c \in Sleepers : ReleaseSleeper(c)
    \/ HandleAsyncTimer
    \/ PopExpired
    \/ CoroutineReturns
    \/ HandleAsyncTimerEnd
    \/ MsPasses

-------------------------------------------------------------------------------
(* The heap and its index agree after any mix of insertions, pops and      *)
(* removals from the middle: every slot is where idMap_ says, no node is   *)
(* earlier than its parent, and exactly the clients marked                 *)
(* isAsyncTimerOperation are in it.                                        *)
HeapIndexed ==
    /\ \A i \in 1 .. Len(heap) :
        /\ idMap[heap[i].data] = i
        /\ i > 1 => heap[i \div 2].delay <= heap[i].delay
    /\ \A c \in Sleepers :
        /\ (wakeAt[c] # -1) <=> (idMap[c] # 0)
        /\ idMap[c] # 0 => heap[idMap[c]].data = c

(* No sleeper is forgotten: whenever the loop is outside HandleAsyncTimer  *)
(* and someone sleeps, the one-shot timerfd is armed for no later than the *)
(* earliest expiry (one millisecond from now when that has passed).        *)
SleeperIsCovered ==
    newTick = -1 /\ heap # <<>> =>
        /\ fdAt # 0
        /\ \A c \in Sleepers : wakeAt[c] # -1 =>
               \/ fdAt <= heap[idMap[c]].delay
               \/ fdAt <= ms + 1

(* A coroutine resumes at most half a bucket before the instant it asked   *)
(* for, the price RefreshAsyncTimer pays for coalescing, whichever other   *)
(* sleepers came and went meanwhile.                                       *)
EarlyByHalfABucket ==
    [][\A c \in Sleepers : (resumed' = c /\ resumed # c) =>
           ms >= wakeAt[c] - Delta \div 2]_sleepVars

(* Nobody oversleeps, wakes early or is lost: the heap and its index       *)
(* agree, the timerfd covers the earliest sleeper, and a coroutine resumes *)
(* no more than half a bucket early.                                       *)
SleepersSound == [](HeapIndexed /\ SleeperIsCovered) /\ EarlyByHalfABucket
===============================================================================
