------------------------------- MODULE FileCache -------------------------------
(***************************************************************************)
(* The cache of open files (utils/fileops/filecache.cpp) together with the *)
(* client file transfers that use its descriptors                          *)
(* (os_specific/linux/epoll_connection.cpp, EnsureFileReady and SendFile). *)
(* The cache is a least-frequently-used cache with recency buckets; it owns*)
(* the descriptors and closes one on eviction.  A transfer copies the      *)
(* descriptor NUMBER into its context and keeps it across the wait for     *)
(* EPOLLOUT, and the kernel hands a closed number to the next open.        *)
(***************************************************************************)
EXTENDS Naturals, Sequences, FiniteSets, SequencesExt

CONSTANTS Files,        \* paths a response may name
          Unreadable,   \* those open() or fstat() refuses
          CacheCapacity,     \* capacity_ after Init
          Transfers,    \* client connections sending a file
          NoFile,
          MaxFreq       \* bound: touches of one entry

ASSUME CapacityAssumption == CacheCapacity \in Nat \ {0}
ASSUME UnreadableAssumption == Unreadable \subseteq Files

VARIABLES entries,      \* entries_: cached path -> [fd, freq]
          freqBuckets,  \* freqBuckets_: frequency -> paths, most recent first
          minFreq,      \* minFreq_
          fdTable,      \* the kernel's table: open descriptor -> path
          transfer,     \* ctx->fileInfo: descriptor being sent, or NoFile
          wanted,       \* the path the transfer was asked for
          lost,         \* history: transfers whose entry was evicted mid-send
          touched       \* history: paths by last use, most recent first

fileVars == <<entries, freqBuckets, minFreq, fdTable, transfer, wanted, lost, touched>>

Cached == DOMAIN entries
Fds    == 1..(CacheCapacity + 1)
Bucket(b, f) == IF f \in DOMAIN b THEN b[f] ELSE <<>>
Without(q, p) == SelectSeq(q, LAMBDA x : x # p)
Store(b, f, q) ==
    IF q = <<>> THEN [g \in DOMAIN b \ {f} |-> b[g]]
    ELSE [g \in DOMAIN b \cup {f} |-> IF g = f THEN q ELSE b[g]]

FileInit ==
    /\ entries = << >> /\ freqBuckets = << >> /\ minFreq = 0 /\ fdTable = << >>
    /\ transfer = [t \in Transfers |-> NoFile]
    /\ wanted = [t \in Transfers |-> NoFile]
    /\ lost = {} /\ touched = <<>>

(* Touch(): to the front of the next frequency's bucket.                   *)
TouchedFreqFault(p) ==
    LET f == entries[p].freq
    IN /\ entries' = [entries EXCEPT ![p].freq = f + 1]
       /\ freqBuckets' = LET less == Store(freqBuckets, f, Without(freqBuckets[f], p))
                         IN Store(less, f + 1, <<p>> \o Bucket(less, f + 1))
       /\ UNCHANGED minFreq
Touch(p) ==
    LET f    == entries[p].freq
        less == Store(freqBuckets, f, Without(freqBuckets[f], p))
    IN /\ entries' = [entries EXCEPT ![p].freq = f + 1]
       /\ freqBuckets' = Store(less, f + 1, <<p>> \o Bucket(less, f + 1))
       /\ minFreq' = IF f \notin DOMAIN less /\ minFreq = f THEN f + 1 ELSE minFreq

(* Evict(): the oldest path of the minFreq bucket.                         *)
Victim == Last(freqBuckets[minFreq])

(* open(): the lowest free descriptor number.                              *)
Opened == CHOOSE n \in Fds : n \notin DOMAIN fdTable
                             /\ \A m \in Fds : m < n => m \in DOMAIN fdTable

(* Insert(): make room, then enter the path with frequency 1; the new file *)
(* was opened before the victim's descriptor is closed.                    *)
Insert(p, fd) ==
    LET full == Cardinality(Cached) >= CacheCapacity
        gone == IF full THEN {Victim} ELSE {}
        kept == [q \in Cached \ gone |-> entries[q]]
        left == IF full THEN Store(freqBuckets, minFreq, Front(freqBuckets[minFreq]))
                ELSE freqBuckets
        shut == {entries[q].fd : q \in gone}
    IN /\ entries' = [q \in DOMAIN kept \cup {p} |->
                         IF q = p THEN [fd |-> fd, freq |-> 1] ELSE kept[q]]
       /\ freqBuckets' = Store(left, 1, <<p>> \o Bucket(left, 1))
       /\ minFreq' = 1
       /\ fdTable' = [n \in (DOMAIN fdTable \cup {fd}) \ shut |->
                         IF n = fd THEN p ELSE fdTable[n]]
       /\ lost' = lost \cup {t \in Transfers : transfer[t] \in shut}
       /\ touched' = <<p>> \o Without(touched, p)

(* GetFileDesc() for a transfer (EnsureFileReady).                         *)
EnsureFileReady(t, p) ==
    /\ transfer[t] = NoFile
    /\ \/ /\ p \in Cached
          /\ entries[p].freq < MaxFreq
          /\ Touch(p)
          /\ touched' = <<p>> \o Without(touched, p)
          /\ transfer' = [transfer EXCEPT ![t] = entries[p].fd]
          /\ wanted' = [wanted EXCEPT ![t] = p]
          /\ UNCHANGED <<fdTable, lost>>
       \/ /\ p \notin Cached \cup Unreadable
          /\ Insert(p, Opened)
          /\ transfer' = [transfer EXCEPT ![t] = Opened]
          /\ wanted' = [wanted EXCEPT ![t] = p]
       \/ /\ p \in Unreadable        \* opened and closed again, or not opened
          /\ UNCHANGED fileVars

(* SendFile(): the whole file went out, or the connection closed; either   *)
(* way the descriptor stays with the cache.  The EAGAIN path waits with    *)
(* ctx->fileInfo unchanged, which is the state before this step.           *)
EndTransferFault(t) ==
    /\ transfer[t] # NoFile
    /\ transfer' = [transfer EXCEPT ![t] = NoFile]
    /\ wanted' = [wanted EXCEPT ![t] = NoFile]
    /\ lost' = lost \ {t}
    /\ fdTable' = [n \in DOMAIN fdTable \ {transfer[t]} |-> fdTable[n]]
    /\ UNCHANGED <<entries, freqBuckets, minFreq, touched>>
EndTransfer(t) ==
    /\ transfer[t] # NoFile
    /\ transfer' = [transfer EXCEPT ![t] = NoFile]
    /\ wanted' = [wanted EXCEPT ![t] = NoFile]
    /\ lost' = lost \ {t}
    /\ UNCHANGED <<entries, freqBuckets, minFreq, fdTable, touched>>

FileNext == \E t \in Transfers : EndTransfer(t) \/ \E p \in Files : EnsureFileReady(t, p)

-----------------------------------------------------------------------------
(* The buckets partition the cached paths by frequency, and minFreq_ names *)
(* a bucket that exists whenever the next insertion has to evict, so       *)
(* freqBuckets_[minFreq_].back() never reads an empty list.                *)
EvictionFindsAVictim ==
    /\ \A f \in DOMAIN freqBuckets :
          /\ freqBuckets[f] # <<>>
          /\ \A i \in DOMAIN freqBuckets[f] : entries[freqBuckets[f][i]].freq = f
    /\ \A p \in Cached : p \in Range(freqBuckets[entries[p].freq])
    /\ Cached # {} => minFreq \in DOMAIN freqBuckets

(* Descriptors are neither leaked nor double-closed: the open descriptors  *)
(* are exactly those of the entries, each naming its entry's file.         *)
DescriptorsOwned ==
    /\ DOMAIN fdTable = {entries[p].fd : p \in Cached}
    /\ \A p \in Cached : fdTable[entries[p].fd] = p
    /\ Cardinality(Cached) <= CacheCapacity

(* What Evict() drops is a path no cached path was used less often than,   *)
(* and of those the one used longest ago.                                  *)
EvictsColdest ==
    [][\A v \in Cached \ DOMAIN entries' :
         \A p \in Cached \ {v} :
            \/ entries[v].freq < entries[p].freq
            \/ /\ entries[v].freq = entries[p].freq
               /\ \E i, j \in DOMAIN touched : touched[i] = p /\ touched[j] = v /\ i < j
      ]_fileVars

(* The descriptor a waiting transfer holds names the file it was asked for *)
(* as long as that file's entry was not evicted under it: the number alone *)
(* protects nothing, the cache has no pin.                                 *)
TransferReadsItsFile ==
    \A t \in Transfers : transfer[t] # NoFile /\ t \notin lost =>
        /\ transfer[t] \in DOMAIN fdTable
        /\ fdTable[transfer[t]] = wanted[t]

(* The cache drops only its coldest file, always finds one to drop, and    *)
(* never leaves a descriptor open or used for another file.                *)
FilesSound ==
    /\ [](EvictionFindsAVictim /\ DescriptorsOwned /\ TransferReadsItsFile)
    /\ EvictsColdest
=============================================================================
