------------------------------- MODULE Buffers -------------------------------
(***************************************************************************)
(* A connection's write buffer (utils/rw_buffer/rw_buffer.cpp) on top of   *)
(* the worker's memory pool (utils/pool/buffer_pool.cpp).                  *)
(*                                                                         *)
(* The pool grows by segments: up to MaxAttempts sizes are tried, halving  *)
(* from the ideal one but never below what the request needs.  Realloc     *)
(* moves a block when it cannot grow in place, and leaves it alone when it *)
(* fails.  The buffer grows by whole steps to a ceiling, is drained from   *)
(* the front and compacted.  A byte is the number of the byte in the       *)
(* stream its callers appended; sizes are in bytes, metadata left out.     *)
(***************************************************************************)
EXTENDS Integers, Sequences, FiniteSets, FiniteSetsExt

CONSTANTS
    PoolInitial,      \* usable bytes of the first segment
    Overhead,         \* tlsf_pool_overhead() + tlsf_block_size_min()
    RoundShift,       \* 2^TLSF_SL_INDEX_COUNT_LOG2: TLSF's rounding of a request
    MaxAttempts,      \* MAX_EXPANSION_ATTEMPTS
    BufInit,          \* the size given to InitWriteBuffer
    GrowSize, MaxSize,\* sendBufferIncSize, maxSendBufferSize
    Pieces,           \* sizes of the appends
    MaxBytes,         \* bound: bytes appended in a behaviour
    MaxPool           \* bound: bytes the operating system will give

VARIABLES
    poolSize,         \* shard_.poolSize
    used,             \* bytes of the live blocks
    stats,            \* stats_: allocs, frees, failures
    block,            \* writeBuffer_: bytes of its block, 0 when null
    bufferSize,       \* meta->bufferSize
    bytes,            \* the first dataLength bytes of the block
    writtenLength,    \* meta->writtenLength
    appended,         \* bytes accepted so far
    flushed           \* bytes handed to the socket so far

bufferVars == <<poolSize, used, stats, block, bufferSize, bytes, writtenLength, appended, flushed>>

dataLength == Len(bytes)

\* TLSF serves a request when the free bytes hold its rounded size (external:
\* fragmentation can make it refuse one that would fit).
TlsfServes(size, capacity, taken) == taken + size + size \div RoundShift <= capacity

-------------------------------------------------------------------------------
(* ExpandAndAllocate: the segment size of each attempt, in order.          *)
MinSegment(size) == size + size \div RoundShift + Overhead
IdealSize(size) == Max({2 * poolSize, MinSegment(size)})
TrySizeFault(size, attempt) == IdealSize(size) \div (2 ^ attempt)
TrySize(size, attempt) == Max({IdealSize(size) \div (2 ^ attempt), MinSegment(size)})

\* The pool after an expansion for size: the first attempt the operating
\* system serves, or the same pool when none is.
Expanded(size) ==
    LET served == {a \in 0 .. MaxAttempts - 1 : poolSize + TrySize(size, a) <= MaxPool}
    IN  IF served = {} THEN poolSize ELSE poolSize + TrySize(size, Min(served))

\* AllocateFromShard: the pool it leaves, and whether it got the block.
Allocation(size, refused) ==
    IF TlsfServes(size, poolSize, used) /\ ~refused THEN [pool |-> poolSize, ok |-> TRUE]
    ELSE [pool |-> Expanded(size), ok |-> TlsfServes(size, Expanded(size), used)]

Alloc(size, refused) ==
    LET a == Allocation(size, refused)
    IN  /\ poolSize' = a.pool
        /\ used' = IF a.ok THEN used + size ELSE used
        /\ stats' = [stats EXCEPT !.allocs = @ + (IF a.ok THEN 1 ELSE 0),
                                  !.failures = @ + (IF a.ok THEN 0 ELSE 1)]
        /\ block' = IF a.ok THEN size ELSE 0

\* inPlace: TLSF extends the block.  Otherwise a second block is live while
\* the bytes are copied, and the old one is freed.
ReallocFault(newSize, inPlace) ==
    LET a == Allocation(newSize, ~inPlace)
    IN  \/ /\ inPlace /\ used - block + newSize <= poolSize
           /\ used' = used - block + newSize
           /\ block' = newSize
           /\ UNCHANGED <<poolSize, stats>>
        \/ /\ ~inPlace /\ a.ok
           /\ poolSize' = a.pool
           /\ used' = used - block + newSize
           /\ block' = newSize
           /\ stats' = [stats EXCEPT !.allocs = @ + 1]
        \/ /\ ~inPlace /\ ~a.ok
           /\ poolSize' = a.pool
           /\ stats' = [stats EXCEPT !.failures = @ + 2]
           /\ UNCHANGED <<used, block>>

Realloc(newSize, inPlace) ==
    LET a == Allocation(newSize, ~inPlace)
    IN  \/ /\ inPlace /\ used - block + newSize <= poolSize
           /\ used' = used - block + newSize
           /\ block' = newSize
           /\ UNCHANGED <<poolSize, stats>>
        \/ /\ ~inPlace /\ a.ok
           /\ poolSize' = a.pool
           /\ used' = used - block + newSize
           /\ block' = newSize
           /\ stats' = [stats EXCEPT !.allocs = @ + 1, !.frees = @ + 1]
        \/ /\ ~inPlace /\ ~a.ok
           /\ poolSize' = a.pool
           /\ stats' = [stats EXCEPT !.failures = @ + 2]
           /\ UNCHANGED <<used, block>>

-------------------------------------------------------------------------------
InitWriteBuffer(refused) ==
    /\ block = 0
    /\ Alloc(BufInit, refused)
    /\ bufferSize' = IF block' = 0 THEN 0 ELSE BufInit
    /\ bytes' = <<>>
    /\ writtenLength' = 0
    /\ UNCHANGED <<appended, flushed>>

\* The size GenericAppendData asks for: whole steps above the current size,
\* clamped to the ceiling.
GrownSizeFault(required) == bufferSize + GrowSize
GrownSize(required) ==
    LET steps == (required - bufferSize + GrowSize - 1) \div GrowSize
        target == IF GrowSize = 0 THEN required ELSE bufferSize + steps * GrowSize
    IN  IF target > MaxSize THEN MaxSize ELSE target

Accept(n) ==
    /\ bytes' = bytes \o [i \in 1 .. n |-> appended + i]
    /\ appended' = appended + n
    /\ UNCHANGED <<writtenLength, flushed>>
Decline == UNCHANGED <<bufferSize, bytes, writtenLength, appended, flushed>>

AppendWriteData(n, inPlace) ==
    LET required == dataLength + n
    IN  /\ block # 0 /\ appended + n <= MaxBytes
        /\ \/ /\ required <= bufferSize
              /\ Accept(n)
              /\ UNCHANGED <<poolSize, used, stats, block, bufferSize>>
           \/ /\ required > bufferSize /\ required > MaxSize
              /\ Decline
              /\ UNCHANGED <<poolSize, used, stats, block>>
           \/ /\ required > bufferSize /\ required <= MaxSize
              /\ Realloc(GrownSize(required), inPlace)
              /\ IF block' # block
                 THEN bufferSize' = GrownSize(required) /\ Accept(n)
                 ELSE Decline

\* GenericGrowBuffer, without a minimum.
GrowWriteBuffer(inPlace) ==
    /\ block # 0 /\ bufferSize < MaxSize
    /\ LET newSize == IF GrowSize = 0 \/ bufferSize + GrowSize > MaxSize THEN MaxSize
                      ELSE bufferSize + GrowSize
       IN  /\ Realloc(newSize, inPlace)
           /\ bufferSize' = IF block' # block THEN newSize ELSE bufferSize
    /\ UNCHANGED <<bytes, writtenLength, appended, flushed>>

\* The socket took n bytes.
AdvanceWriteLength(n) ==
    /\ block # 0 /\ writtenLength + n <= dataLength
    /\ writtenLength' = writtenLength + n
    /\ flushed' = flushed \o SubSeq(bytes, writtenLength + 1, writtenLength + n)
    /\ UNCHANGED <<poolSize, used, stats, block, bufferSize, bytes, appended>>

CompactWriteBufferFault ==
    /\ block # 0 /\ writtenLength > 0
    /\ bytes' = SubSeq(bytes, writtenLength + 1, dataLength)
    /\ UNCHANGED <<poolSize, used, stats, block, bufferSize, writtenLength, appended, flushed>>

CompactWriteBuffer ==
    /\ block # 0 /\ writtenLength > 0
    /\ bytes' = SubSeq(bytes, writtenLength + 1, dataLength)
    /\ writtenLength' = 0
    /\ UNCHANGED <<poolSize, used, stats, block, bufferSize, appended, flushed>>

\* ResetBuffer, when the connection is recycled after its response was sent.
ResetBuffer ==
    /\ block # 0 /\ writtenLength = dataLength
    /\ used' = used - block
    /\ block' = 0
    /\ bufferSize' = 0
    /\ bytes' = <<>>
    /\ writtenLength' = 0
    /\ stats' = [stats EXCEPT !.frees = @ + 1]
    /\ UNCHANGED <<poolSize, appended, flushed>>

BuffersInit ==
    /\ poolSize = PoolInitial
    /\ used = 0
    /\ stats = [allocs |-> 0, frees |-> 0, failures |-> 0]
    /\ block = 0 /\ bufferSize = 0
    /\ bytes = <<>> /\ writtenLength = 0
    /\ appended = 0 /\ flushed = <<>>

MaxFailures == 2          \* bound: failed requests in a behaviour

BuffersNext ==
    /\ stats.failures < MaxFailures /\ stats.allocs < 5
    /\ \/ \E refused \in BOOLEAN : InitWriteBuffer(refused)
       \/ \E n \in Pieces, inPlace \in BOOLEAN : AppendWriteData(n, inPlace)
       \/ \E inPlace \in BOOLEAN : GrowWriteBuffer(inPlace)
       \/ \E n \in Pieces : AdvanceWriteLength(n)
       \/ CompactWriteBuffer
       \/ ResetBuffer

-------------------------------------------------------------------------------
(* The stream is intact through partial writes, compaction, growth and     *)
(* refused growth: what the socket got, then what the buffer still owes,   *)
(* is what callers appended, in order, with nothing lost or repeated.      *)
StreamIntact ==
    flushed \o SubSeq(bytes, writtenLength + 1, dataLength) = [i \in 1 .. appended |-> i]

(* No byte is written past the block behind the buffer, the size recorded  *)
(* in its metadata is the block's, and growth never passes the ceiling.    *)
FitsItsBlock ==
    /\ dataLength <= bufferSize
    /\ bufferSize = block
    /\ block <= IF MaxSize > BufInit THEN MaxSize ELSE BufInit

(* The pool's counters are exact through in-place growth, moves and failed *)
(* growth: allocations minus frees is the number of live blocks.           *)
StatsExact == stats.allocs - stats.frees = IF block = 0 THEN 0 ELSE 1

(* A segment obtained for a request always serves it: memory is refused    *)
(* only when the operating system would not give even the smallest segment *)
(* that would do, and the pool has not grown for nothing.                  *)
ExpansionServes ==
    [][stats'.failures > stats.failures => poolSize' = poolSize]_bufferVars

(* What is appended leaves once and in order, inside the block that was    *)
(* allocated, whatever the pool answers when the buffer grows.             *)
BuffersSound == [](StreamIntact /\ FitsItsBlock /\ StatsExact) /\ ExpansionServes
===============================================================================
