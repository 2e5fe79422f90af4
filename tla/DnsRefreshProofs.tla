--------------------------- MODULE DnsRefreshProofs ---------------------------
(***************************************************************************)
(* What the resolver threads and the loop share, for any number of         *)
(* endpoints, permits and records and any TTLs: DnsSound and               *)
(* AddressesNeverGoBack are proved from one inductive invariant, DnsInv.   *)
(* Its parts: the types; the permits, each held by one thread; the layout  *)
(* of the timer ids, in the order of registration; the marks; the versions *)
(* of the records; and, as long as no signal is lost, the jobs, of which   *)
(* an endpoint has at most one, a thread or a result, begun less than a    *)
(* ceiling ago.                                                            *)
(***************************************************************************)
EXTENDS DnsRefresh, LeastNumber, FiniteSetTheorems, SequenceTheorems, TLAPS

Addrs == Seq(Hosts \cup {"local"})
Answer == [ok : BOOLEAN, version : Nat, addrs : Addrs, ttl : Nat]
Entry == [cfg : DnsConfigs, timerBase : Nat, auxTimerBase : Nat, version : Nat,
          addrs : Addrs, cursor : Nat, marked : BOOLEAN, next : Nat]
Thread == [permit : 1..DnsThreads, on : Nat, step : {"query", "push", "exit"}, answer : Answer,
           since : Nat, retry : Nat]
Result == [on : Nat, answer : Answer, since : Nat]

DnsTypeOK ==
    /\ entries \in Seq(Entry) /\ Len(entries) <= RegisterMax
    /\ clock \in Nat /\ records \in Nat /\ records \in Versions /\ permits \in Nat
    /\ threads \subseteq Thread /\ \A t \in threads : t.on \in Endpoints
    /\ queue \in Seq(Result) /\ \A k \in DOMAIN queue : queue[k].on \in Endpoints
    /\ eventfd \in BOOLEAN /\ drain \in BOOLEAN /\ signalLost \in BOOLEAN

\* Each thread holds a permit of its own, and none is lost.
PermitsInv ==
    /\ IsFiniteSet(threads)
    /\ \A t, u \in threads : t.permit = u.permit => t = u
    /\ PermitsExact

\* The pools' timer ids, one endpoint after the other.
EndOf(e) == e.auxTimerBase + AuxSlots(e)
LayoutInv ==
    /\ \A i \in Endpoints :
          /\ ClientSlots <= entries[i].timerBase
          /\ entries[i].auxTimerBase = entries[i].timerBase + MainSlots(entries[i])
    /\ \A i, j \in Endpoints : i < j => EndOf(entries[i]) <= entries[j].timerBase

Unfinished == {t \in threads : t.step # "exit"}

MarksInv ==
    \A i \in Endpoints : entries[i].marked =>
        \/ \E t \in Unfinished : t.on = i
        \/ (eventfd \/ drain) /\ \E k \in DOMAIN queue : queue[k].on = i

VersionsInv ==
    /\ \A i \in Endpoints : entries[i].version <= records
    /\ \A t \in threads : t.answer.version <= records
    /\ \A k \in DOMAIN queue : queue[k].answer.version <= records

\* A job on endpoint i begun at since.
JobOK(i, since) == entries[i].next = since + MaxRefresh /\ clock <= since + QueryTimeout
JobsInv ==
    /\ \A t \in Unfinished : JobOK(t.on, t.since)
    /\ \A k \in DOMAIN queue : JobOK(queue[k].on, queue[k].since)
    /\ \A t, u \in Unfinished : t.on = u.on => t = u
    /\ \A j, k \in DOMAIN queue : queue[j].on = queue[k].on => j = k
    /\ \A t \in Unfinished, k \in DOMAIN queue : t.on # queue[k].on
    /\ \A t \in Unfinished :
          t.step = "push" /\ t.answer.ok => entries[t.on].version <= t.answer.version
    /\ \A k \in DOMAIN queue :
          queue[k].answer.ok => entries[queue[k].on].version <= queue[k].answer.version
    /\ queue # <<>> => eventfd \/ drain

\* The inductive invariant.
DnsInv ==
    /\ DnsTypeOK /\ PermitsInv /\ LayoutInv /\ MarksInv /\ VersionsInv
    /\ ~signalLost => JobsInv

-------------------------------------------------------------------------------
(* The answers of the resolver and the schedule. *)

LEMMA AnswerTypes ==
    ASSUME NEW v \in Nat, NEW gotA \in BOOLEAN, NEW gotAAAA \in BOOLEAN, v \in Versions
    PROVE  LET r == QueriedAnswer(v, gotA, gotAAAA) IN r \in Answer /\ r.version \in {0, v}
  <1> DEFINE A == IF gotA THEN AnswerOf[v].a ELSE <<>>
             B == IF gotAAAA THEN AnswerOf[v].aaaa ELSE <<>>
             rrs == A \o B
  <1>1. AnswerOf[v].a \in Seq(Record) /\ AnswerOf[v].aaaa \in Seq(Record)
    <2>1. PICK S : S = Seq(Record)
      OBVIOUS
    <2>2. PICK R : R = [a : S, aaaa : S]
      OBVIOUS
    <2>3. AnswerOf \in Seq(R)
      BY <2>1, <2>2, AnswerAssumption
    <2>4. AnswerOf[v] \in R
      BY <2>3, ElementOfSeq DEF Versions
    <2>5. QED
      BY <2>1, <2>2, <2>4
  <1>2. A \in Seq(Record) /\ B \in Seq(Record)
    BY <1>1
  <1>3. rrs \in Seq(Record)
    BY <1>2
  <1>4. CASE rrs = <<>>
    BY <1>4 DEF QueriedAnswer, NoAnswer, Answer, Addrs
  <1>5. CASE rrs # <<>>
    <2>1. DOMAIN rrs = 1..Len(rrs) /\ Len(rrs) \in Nat \ {0} /\ \A k \in DOMAIN rrs : rrs[k] \in Record
      <3>1. PICK q \in Seq(Record) : q = rrs
        BY <1>3
      <3>2. DOMAIN q = 1..Len(q) /\ Len(q) \in Nat
        OBVIOUS
      <3>3. Len(q) # 0
        BY <1>5, <3>1, EmptySeq
      <3>4. \A k \in DOMAIN q : q[k] \in Record
        BY ElementOfSeq
      <3>5. QED
        BY <3>1, <3>2, <3>3, <3>4
    <2> HIDE DEF rrs
    <2>2. Names(rrs) \in Addrs
      BY <2>1 DEF Names, Record, Addrs
    <2>3. MinTtl(rrs) \in Nat
      <3> DEFINE T == {rrs[k].ttl : k \in DOMAIN rrs}
      <3>1. T \subseteq Nat /\ T # {}
        BY <2>1 DEF Record
      <3>2. PICK t \in T : \A u \in T : t <= u
        BY <3>1, LeastNatural
      <3>3. QED
        BY <3>1, <3>2 DEF MinTtl
    <2>4. QueriedAnswer(v, gotA, gotAAAA) =
              [ok |-> TRUE, version |-> v, addrs |-> Names(rrs), ttl |-> MinTtl(rrs)]
      BY <1>5 DEF QueriedAnswer, rrs
    <2>5. QED
      BY <2>2, <2>3, <2>4 DEF Answer
  <1>6. QED
    BY <1>4, <1>5

\* What Resolve may return is an answer from the current records.
LEMMA DnsAnswersTypes ==
    ASSUME NEW cfg, records \in Nat, records \in Versions, NEW r \in DnsAnswers(cfg)
    PROVE  r \in Answer /\ r.version <= records /\ (r.ok => r.version = records)
  <1>1. CASE r = LocalAnswer(records)
    <2>1. <<"local">> \in Addrs
      BY DEF Addrs
    <2>2. QED
      BY <1>1, <2>1, DnsAssumption DEF LocalAnswer, Answer
  <1>2. CASE \E gotA, gotAAAA \in BOOLEAN : r = QueriedAnswer(records, gotA, gotAAAA)
    <2>1. PICK gotA \in BOOLEAN, gotAAAA \in BOOLEAN : r = QueriedAnswer(records, gotA, gotAAAA)
      BY <1>2
    <2>2. r \in Answer /\ r.version \in {0, records}
      BY <2>1, AnswerTypes
    <2>3. r.ok => r.version = records
      BY <2>1 DEF QueriedAnswer, NoAnswer
    <2>4. QED
      BY <2>2, <2>3
  <1>3. QED
    BY <1>1, <1>2 DEF DnsAnswers

\* The next refresh is a time.
LEMMA ScheduleType ==
    ASSUME clock \in Nat, NEW ttl \in Nat, NEW user \in Nat, NEW i \in 1..RegisterMax
    PROVE  ComputeNextDnsRefresh(ttl, user, i) \in Nat
  <1> USE DnsAssumption
  <1>1. PICK n : n = Interval(ttl, user)
    OBVIOUS
  <1>2. n \in Nat
    BY <1>1 DEF Interval, AtLeast, AtMost
  <1>3. n \div 10 \in Nat
    BY <1>2
  <1>4. PICK m : m = AtLeast(MinRefresh, n \div 10)
    OBVIOUS
  <1>5. m \in Nat
    BY <1>3, <1>4 DEF AtLeast
  <1>6. HostHash[i] * m \in Nat
    <2>1. PICK h : h = HostHash[i]
      OBVIOUS
    <2>2. h \in 0..63
      BY <2>1
    <2>3. \A x, y \in Nat : x * y \in Nat
      OBVIOUS
    <2>4. h \in Nat
      BY <2>2
    <2>5. QED
      BY <1>5, <2>1, <2>3, <2>4
  <1>7. PICK p \in Nat : p = HostHash[i] * m
    BY <1>6
  <1>8. p \div 64 \in Nat
    OBVIOUS
  <1>9. Jitter(i, n) \in Nat
    BY <1>4, <1>7, <1>8 DEF Jitter
  <1>10. QED
    BY <1>1, <1>2, <1>9 DEF ComputeNextDnsRefresh

LEMMA RetryType ==
    ASSUME clock \in Nat, NEW i \in 1..RegisterMax
    PROVE  RetrySchedule(i) \in Nat
  BY ScheduleType, DnsAssumption DEF RetrySchedule

LEMMA PoolSlotsType ==
    ASSUME NEW n \in Nat, NEW exact \in BOOLEAN
    PROVE  PoolSlots(n, exact) \in Nat
  <1>1. (n + SlotUnit - 1) \in Nat
    BY DnsAssumption
  <1>2. PICK m : m = (n + SlotUnit - 1) \div SlotUnit
    OBVIOUS
  <1>3. m \in Nat
    BY <1>1, <1>2, DnsAssumption
  <1>4. SlotUnit * m \in Nat
    BY <1>3, DnsAssumption
  <1>5. QED
    BY <1>2, <1>4 DEF PoolSlots
-------------------------------------------------------------------------------
(* What an update of the entries leaves of their layout and their types.   *)

SamePlace(e, f) == e.cfg = f.cfg /\ e.timerBase = f.timerBase /\ e.auxTimerBase = f.auxTimerBase

LEMMA SlotsType ==
    ASSUME NEW e \in Entry
    PROVE  MainSlots(e) \in Nat /\ AuxSlots(e) \in Nat
  <1>1. e.cfg.limit \in Nat /\ e.cfg.aux \in Nat /\ e.cfg.exact \in BOOLEAN
    BY ConfigsAssumption DEF Entry
  <1>2. QED
    BY <1>1, PoolSlotsType DEF MainSlots, AuxSlots

LEMMA LayoutKept ==
    ASSUME LayoutInv, DOMAIN entries' = DOMAIN entries,
           \A i \in DOMAIN entries : SamePlace(entries'[i], entries[i])
    PROVE  LayoutInv'
  <1>1. \A i \in DOMAIN entries : /\ MainSlots(entries'[i]) = MainSlots(entries[i])
                                  /\ AuxSlots(entries'[i]) = AuxSlots(entries[i])
    BY DEF SamePlace, MainSlots, AuxSlots
  <1>2. QED
    BY <1>1 DEF LayoutInv, SamePlace, EndOf, Endpoints

\* One entry is written.
LEMMA OneEntry ==
    ASSUME DnsTypeOK, LayoutInv, NEW i \in Endpoints, NEW e \in Entry,
           entries' = [entries EXCEPT ![i] = e], SamePlace(e, entries[i])
    PROVE  /\ entries' \in Seq(Entry) /\ Len(entries') = Len(entries)
           /\ Endpoints' = Endpoints /\ entries'[i] = e
           /\ \A j \in Endpoints : j # i => entries'[j] = entries[j]
           /\ LayoutInv'
  <1>1. entries \in Seq(Entry) /\ i \in 1..Len(entries)
    BY DEF DnsTypeOK, Endpoints
  <1>2. /\ entries' \in Seq(Entry) /\ Len(entries') = Len(entries)
        /\ DOMAIN entries' = DOMAIN entries /\ entries'[i] = e
        /\ \A j \in DOMAIN entries : j # i => entries'[j] = entries[j]
    BY <1>1, ExceptSeq
  <1>3. \A j \in DOMAIN entries : SamePlace(entries'[j], entries[j])
    BY <1>2 DEF SamePlace
  <1>4. LayoutInv'
    BY <1>2, <1>3, LayoutKept
  <1>5. QED
    BY <1>2, <1>4 DEF Endpoints

LEMMA EntryType ==
    ASSUME DnsTypeOK, NEW i \in Endpoints
    PROVE  entries[i] \in Entry /\ i \in 1..RegisterMax /\ entries[i].cfg.user \in Nat
  <1>1. i \in 1..Len(entries) /\ entries \in Seq(Entry) /\ Len(entries) <= RegisterMax
    BY DEF DnsTypeOK, Endpoints
  <1>2. entries[i] \in Entry
    BY <1>1, ElementOfSeq
  <1>3. entries[i].cfg.user \in Nat
    BY <1>2, ConfigsAssumption DEF Entry
  <1>4. QED
    BY <1>1, <1>2, <1>3, DnsAssumption

LEMMA Rescheduled ==
    ASSUME NEW e \in Entry, NEW at \in Nat
    PROVE  LET f == Reschedule(e, at)
           IN  /\ f \in Entry /\ SamePlace(f, e) /\ f.next = at /\ ~f.marked
               /\ f.version = e.version
  BY DEF Reschedule, Entry, SamePlace

-------------------------------------------------------------------------------
(* The properties follow from the invariant. *)

LEMMA DnsSoundFromInv == DnsInv => DnsSound
  <1> SUFFICES ASSUME DnsInv PROVE DnsSound
    OBVIOUS
  <1>1. NeverStalled
    BY DEF DnsInv, MarksInv, Unfinished, NeverStalled
  <1>2. PermitsExact
    BY DEF DnsInv, PermitsInv
  <1>3. TimerIdsDisjoint
    <2>1. \A i \in Endpoints :
             /\ entries[i].timerBase \in Nat /\ entries[i].auxTimerBase \in Nat
             /\ MainSlots(entries[i]) \in Nat /\ AuxSlots(entries[i]) \in Nat
      BY EntryType, SlotsType DEF DnsInv, Entry
    <2>2. ASSUME NEW i \in Endpoints, NEW j \in Endpoints
          PROVE  LET ids(e) == (e.timerBase .. e.timerBase + MainSlots(e) - 1)
                     aux(e) == (e.auxTimerBase .. e.auxTimerBase + AuxSlots(e) - 1)
                 IN /\ ids(entries[i]) \cap aux(entries[j]) = {}
                    /\ i # j => ids(entries[i]) \cap ids(entries[j]) = {} /\ aux(entries[i]) \cap aux(entries[j]) = {}
                    /\ \A k \in ids(entries[i]) : k >= ClientSlots
      <3>1. i \in Nat /\ j \in Nat
        BY DEF DnsInv, DnsTypeOK, Endpoints
      <3>2. PICK b1, a1, m1, x1, b2, a2, m2, x2 \in Nat :
               /\ b1 = entries[i].timerBase /\ a1 = entries[i].auxTimerBase
               /\ m1 = MainSlots(entries[i]) /\ x1 = AuxSlots(entries[i])
               /\ b2 = entries[j].timerBase /\ a2 = entries[j].auxTimerBase
               /\ m2 = MainSlots(entries[j]) /\ x2 = AuxSlots(entries[j])
        BY <2>1
      <3>3. /\ ClientSlots <= b1 /\ ClientSlots <= b2 /\ a1 = b1 + m1 /\ a2 = b2 + m2
            /\ i < j => a1 + x1 <= b2
            /\ j < i => a2 + x2 <= b1
            /\ i = j => b1 = b2 /\ a1 = a2
        BY <3>2 DEF DnsInv, LayoutInv, EndOf
      <3>4. /\ (b1 .. b1 + m1 - 1) \cap (a2 .. a2 + x2 - 1) = {}
            /\ i # j => /\ (b1 .. b1 + m1 - 1) \cap (b2 .. b2 + m2 - 1) = {}
                        /\ (a1 .. a1 + x1 - 1) \cap (a2 .. a2 + x2 - 1) = {}
            /\ \A k \in b1 .. b1 + m1 - 1 : k >= ClientSlots
        BY <3>1, <3>3, DnsAssumption
      <3>5. QED
        BY <3>2, <3>4
    <2>3. QED
      BY <2>2 DEF TimerIdsDisjoint
  <1>4. QED
    BY <1>1, <1>2, <1>3 DEF DnsSound

-------------------------------------------------------------------------------
(* Threads and their permits. *)

\* A thread that moves on keeps its permit.
LEMMA MovedPermits ==
    ASSUME PermitsInv, NEW t \in threads, NEW u, u.permit = t.permit, Moved(t, u), permits' = permits
    PROVE  PermitsInv'
  <1>1. IsFiniteSet(threads) /\ threads' = (threads \ {t}) \cup {u}
    BY DEF PermitsInv, Moved
  <1>2. u \notin threads \ {t}
    BY DEF PermitsInv
  <1>3. IsFiniteSet(threads \ {t}) /\ Cardinality(threads \ {t}) = Cardinality(threads) - 1
    BY <1>1, FS_RemoveElement
  <1>4. IsFiniteSet(threads') /\ Cardinality(threads') = Cardinality(threads \ {t}) + 1
    BY <1>1, <1>2, <1>3, FS_AddElement
  <1>5. Cardinality(threads) \in Nat
    BY <1>1, FS_CardinalityType
  <1>6. Cardinality(threads') = Cardinality(threads)
    BY <1>3, <1>4, <1>5
  <1>7. \A x, y \in threads' : x.permit = y.permit => x = y
    BY <1>1 DEF PermitsInv
  <1>8. QED
    BY <1>4, <1>6, <1>7 DEF PermitsInv, PermitsExact

\* While the semaphore has a permit, some number is free.
LEMMA PermitFree ==
    ASSUME DnsTypeOK, PermitsInv, permits # 0
    PROVE  FreePermit \in 1..DnsThreads /\ \A t \in threads : t.permit # FreePermit
  <1> DEFINE P == {t.permit : t \in threads}
  <1>1. IsFiniteSet(threads) /\ Cardinality(threads) \in Nat
    BY FS_CardinalityType DEF PermitsInv
  <1>2. Cardinality(threads) < DnsThreads
    BY <1>1, DnsAssumption DEF DnsTypeOK, PermitsInv, PermitsExact
  <1>3. IsFiniteSet(P) /\ Cardinality(P) <= Cardinality(threads)
    <2> DEFINE f == [t \in threads |-> t.permit]
    <2>1. f \in Surjection(threads, P)
      BY DEF Surjection
    <2>2. QED
      BY <1>1, <2>1, FS_Surjection
  <1>4. Cardinality(1..DnsThreads) = DnsThreads /\ IsFiniteSet(1..DnsThreads)
    <2>1. 1 \in Int /\ DnsThreads \in Int /\ DnsThreads >= 1
      BY <1>1, <1>2, DnsAssumption
    <2>2. QED
      BY <2>1, FS_Interval
  <1>5. Cardinality(P) \in Nat
    BY <1>3, FS_CardinalityType
  <1>6. ~(1..DnsThreads \subseteq P)
    <2>1. 1..DnsThreads \subseteq P => Cardinality(1..DnsThreads) <= Cardinality(P)
      BY <1>3, FS_Subset
    <2>2. QED
      BY <1>1, <1>2, <1>3, <1>4, <1>5, <2>1, DnsAssumption
  <1>7. \E n \in 1..DnsThreads : \A t \in threads : t.permit # n
    BY <1>6
  <1>8. QED
    BY <1>7 DEF FreePermit

\* A thread that starts takes a permit, one that ends gives it back.
LEMMA StartedPermits ==
    ASSUME DnsTypeOK, PermitsInv, NEW u, \A t \in threads : t.permit # u.permit,
           threads' = threads \cup {u}, permits' = permits - 1
    PROVE  PermitsInv'
  <1>1. IsFiniteSet(threads) /\ Cardinality(threads) \in Nat /\ u \notin threads
    BY FS_CardinalityType DEF PermitsInv
  <1>2. IsFiniteSet(threads') /\ Cardinality(threads') = Cardinality(threads) + 1
    BY <1>1, FS_AddElement
  <1>3. \A x, y \in threads' : x.permit = y.permit => x = y
    BY DEF PermitsInv
  <1>4. permits' + Cardinality(threads') = permits + Cardinality(threads)
    BY <1>1, <1>2 DEF DnsTypeOK
  <1>5. QED
    BY <1>2, <1>3, <1>4 DEF PermitsInv, PermitsExact

LEMMA EndedPermits ==
    ASSUME DnsTypeOK, PermitsInv, NEW t \in threads,
           threads' = threads \ {t}, permits' = permits + 1
    PROVE  PermitsInv'
  <1>1. IsFiniteSet(threads) /\ Cardinality(threads) \in Nat
    BY FS_CardinalityType DEF PermitsInv
  <1>2. IsFiniteSet(threads') /\ Cardinality(threads') = Cardinality(threads) - 1
    BY <1>1, FS_RemoveElement
  <1>3. \A x, y \in threads' : x.permit = y.permit => x = y
    BY DEF PermitsInv
  <1>4. permits' + Cardinality(threads') = permits + Cardinality(threads)
    BY <1>1, <1>2 DEF DnsTypeOK
  <1>5. QED
    BY <1>2, <1>3, <1>4 DEF PermitsInv, PermitsExact

-------------------------------------------------------------------------------
(* Every step preserves the invariant. *)

LEMMA InitInv == DnsInit => DnsInv
  <1> SUFFICES ASSUME DnsInit PROVE DnsInv
    OBVIOUS
  <1>1. /\ entries = <<>> /\ queue = <<>> /\ threads = {} /\ clock = 0 /\ records = 1
        /\ permits = DnsThreads /\ eventfd = FALSE /\ drain = FALSE /\ signalLost = FALSE
    BY DEF DnsInit
  <1>2. Endpoints = {} /\ DOMAIN queue = {} /\ entries \in Seq(Entry) /\ queue \in Seq(Result)
    BY <1>1 DEF Endpoints
  <1>3. records \in Versions
    <2>1. Len(AnswerOf) \in Nat \ {0} /\ DOMAIN AnswerOf = 1..Len(AnswerOf)
      <3>1. PICK R : AnswerOf \in Seq(R)
        BY AnswerAssumption
      <3>2. QED
        BY <3>1, AnswerAssumption, EmptySeq
    <2>2. QED
      BY <1>1, <2>1 DEF Versions
  <1>4. DnsTypeOK
    <2>1. Len(entries) = 0
      BY <1>1
    <2>2. Len(entries) <= RegisterMax /\ permits \in Nat
      BY <1>1, <2>1, DnsAssumption
    <2>3. threads \subseteq Thread
      BY <1>1
    <2>4. QED
      BY <1>1, <1>2, <1>3, <2>2, <2>3 DEF DnsTypeOK
  <1>5. IsFiniteSet(threads) /\ Cardinality(threads) = 0
    BY <1>1, FS_EmptySet
  <1>6. PermitsInv
    BY <1>1, <1>5, DnsAssumption DEF PermitsInv, PermitsExact
  <1>7. LayoutInv /\ MarksInv
    BY <1>2 DEF LayoutInv, MarksInv
  <1>8. VersionsInv
    BY <1>1, <1>2 DEF VersionsInv
  <1>9. JobsInv
    BY <1>1, <1>2 DEF JobsInv, Unfinished
  <1>10. QED
    BY <1>4, <1>6, <1>7, <1>8, <1>9 DEF DnsInv

\* The invariant does not depend on the phase or the walks.
LEMMA NothingMoves ==
    ASSUME DnsInv, UNCHANGED <<entries, clock, records, permits, threads, queue, eventfd, drain, signalLost>>
    PROVE  DnsInv'
  <1>1. DnsTypeOK'
    BY DEF DnsInv, DnsTypeOK, Endpoints
  <1>2. PermitsInv'
    BY DEF DnsInv, PermitsInv, PermitsExact
  <1>3. LayoutInv'
    BY DEF DnsInv, LayoutInv, Endpoints
  <1>4. MarksInv'
    BY DEF DnsInv, MarksInv, Unfinished, Endpoints
  <1>5. VersionsInv'
    BY DEF DnsInv, VersionsInv, Endpoints
  <1>6. ~signalLost' => JobsInv'
    BY DEF DnsInv, JobsInv, JobOK, Unfinished
  <1>7. QED
    BY <1>1, <1>2, <1>3, <1>4, <1>5, <1>6 DEF DnsInv

LEMMA AllocateInv ==
    ASSUME DnsInv, NEW cfg \in DnsConfigs, AllocateEndpoint(cfg)
    PROVE  DnsInv'
  <1>1. UNCHANGED <<clock, records, permits, threads, queue, eventfd, drain, signalLost>>
    BY DEF AllocateEndpoint
  <1>2. CASE UNCHANGED entries
    BY <1>1, <1>2, NothingMoves
  <1>3. CASE entries' # entries
    <2>1. PICK r \in DnsAnswers(cfg) :
             /\ r.ok /\ Len(entries) < RegisterMax
             /\ entries' = Append(entries,
                   [cfg |-> cfg, timerBase |-> NextTimerBase(entries),
                    auxTimerBase |-> NextTimerBase(entries) + PoolSlots(cfg.limit, cfg.exact),
                    version |-> r.version, addrs |-> r.addrs, cursor |-> 0, marked |-> FALSE,
                    next |-> ComputeNextDnsRefresh(r.ttl, cfg.user, Len(entries) + 1)])
      <3>1. ~(Len(entries) >= RegisterMax)
        BY <1>3 DEF AllocateEndpoint
      <3>2. Len(entries) < RegisterMax
        BY <3>1, DnsAssumption DEF DnsInv, DnsTypeOK
      <3>3. PICK r \in DnsAnswers(cfg) :
               /\ r.ok
               /\ entries' = Append(entries,
                   [cfg |-> cfg, timerBase |-> NextTimerBase(entries),
                    auxTimerBase |-> NextTimerBase(entries) + PoolSlots(cfg.limit, cfg.exact),
                    version |-> r.version, addrs |-> r.addrs, cursor |-> 0, marked |-> FALSE,
                    next |-> ComputeNextDnsRefresh(r.ttl, cfg.user, Len(entries) + 1)])
        BY <1>3, Zenon DEF AllocateEndpoint
      <3>4. QED
        BY <3>2, <3>3
    <2> DEFINE base == NextTimerBase(entries)
               at == ComputeNextDnsRefresh(r.ttl, cfg.user, Len(entries) + 1)
               n == Len(entries)
               e == [cfg |-> cfg, timerBase |-> base,
                     auxTimerBase |-> base + PoolSlots(cfg.limit, cfg.exact),
                     version |-> r.version, addrs |-> r.addrs, cursor |-> 0, marked |-> FALSE,
                     next |-> at]
    <2>2. DnsTypeOK /\ entries \in Seq(Entry) /\ n \in Nat /\ DOMAIN entries = 1..n
      BY DEF DnsInv, DnsTypeOK
    <2>3. r \in Answer /\ r.version = records
      <3>1. records \in Nat /\ records \in Versions
        BY <2>2 DEF DnsTypeOK
      <3>2. QED
        BY <2>1, <3>1, DnsAnswersTypes
    <2>4. /\ cfg.limit \in Nat /\ cfg.aux \in Nat /\ cfg.exact \in BOOLEAN /\ cfg.user \in Nat
      BY ConfigsAssumption
    <2>5. at \in Nat
      <3>1. n + 1 \in 1..RegisterMax /\ r.ttl \in Nat /\ clock \in Nat
        BY <2>1, <2>2, <2>3, DnsAssumption DEF Answer, DnsTypeOK
      <3>2. QED
        BY <2>4, <3>1, ScheduleType
    <2>6. base \in Nat /\ ClientSlots <= base
          /\ \A i \in DOMAIN entries : EndOf(entries[i]) <= base
      <3>1. CASE n = 0
        <4>1. entries = <<>>
          BY <2>2, <3>1, EmptySeq
        <4>2. base = ClientSlots
          BY <4>1 DEF NextTimerBase
        <4>3. QED
          BY <2>2, <3>1, <4>2, DnsAssumption
      <3>2. CASE n # 0
        <4>1. n \in DOMAIN entries /\ n \in Endpoints /\ entries # <<>>
          BY <2>2, <3>2, EmptySeq DEF Endpoints
        <4>2. base = entries[n].timerBase + MainSlots(entries[n]) + AuxSlots(entries[n])
          BY <4>1 DEF NextTimerBase
        <4>3. \A i \in DOMAIN entries : /\ entries[i].timerBase \in Nat /\ entries[i].auxTimerBase \in Nat
                                        /\ MainSlots(entries[i]) \in Nat /\ AuxSlots(entries[i]) \in Nat
          BY <2>2, EntryType, SlotsType DEF Entry, Endpoints
        <4>4. /\ base = EndOf(entries[n]) /\ base \in Nat /\ entries[n].timerBase <= base
              /\ ClientSlots <= entries[n].timerBase
          BY <4>1, <4>2, <4>3 DEF DnsInv, LayoutInv, EndOf, Endpoints
        <4>5. ASSUME NEW i \in DOMAIN entries PROVE EndOf(entries[i]) <= base
          <5>1. CASE i = n
            BY <4>4, <5>1
          <5>2. CASE i < n
            <6>1. EndOf(entries[i]) <= entries[n].timerBase
              BY <4>1, <5>2 DEF DnsInv, LayoutInv, Endpoints
            <6>2. EndOf(entries[i]) \in Nat
              BY <4>3 DEF EndOf
            <6>3. QED
              BY <4>1, <4>3, <4>4, <6>1, <6>2
          <5>3. QED
            BY <2>2, <5>1, <5>2
        <4>6. QED
          BY <4>1, <4>3, <4>4, <4>5, DnsAssumption
      <3>3. QED
        BY <3>1, <3>2
    <2>7. PoolSlots(cfg.limit, cfg.exact) \in Nat
      BY <2>4, PoolSlotsType
    <2> HIDE DEF base, at
    <2>8. e \in Entry
      BY <2>3, <2>5, <2>6, <2>7 DEF Entry, Answer
    <2>9. /\ e.timerBase = base /\ e.auxTimerBase = base + MainSlots(e) /\ ~e.marked
          /\ e.version = records
      BY <2>3 DEF MainSlots
    <2>10. entries' = Append(entries, e)
      BY <2>1 DEF base, at
    <2> HIDE DEF e
    <2>11. /\ entries' \in Seq(Entry) /\ Len(entries') = n + 1 /\ DOMAIN entries' = 1..(n + 1)
           /\ entries'[n + 1] = e /\ \A i \in DOMAIN entries : entries'[i] = entries[i]
      BY <2>2, <2>8, <2>10
    <2> HIDE DEF n
    <2>12. DnsTypeOK'
      BY <1>1, <2>1, <2>2, <2>11, DnsAssumption DEF DnsTypeOK, Endpoints, n
    <2>13. PermitsInv'
      BY <1>1 DEF DnsInv, PermitsInv, PermitsExact
    <2>14. LayoutInv'
      <3>1. \A i \in DOMAIN entries' : i \in DOMAIN entries \/ i = n + 1
        BY <2>2, <2>11
      <3>2. \A i, j \in DOMAIN entries' : i < j => i \in DOMAIN entries
        BY <2>2, <2>11
      <3>3. QED
        BY <2>2, <2>6, <2>9, <2>11, <3>1, <3>2 DEF DnsInv, LayoutInv, Endpoints
    <2>15. MarksInv'
      <3>1. \A i \in DOMAIN entries' : i \in DOMAIN entries \/ i = n + 1
        BY <2>2, <2>11
      <3>2. QED
        BY <1>1, <2>9, <2>11, <3>1 DEF DnsInv, MarksInv, Unfinished, Endpoints
    <2>16. VersionsInv'
      <3>1. \A i \in DOMAIN entries' : i \in DOMAIN entries \/ i = n + 1
        BY <2>2, <2>11
      <3>2. QED
        BY <1>1, <2>2, <2>9, <2>11, <3>1 DEF DnsInv, VersionsInv, Endpoints, DnsTypeOK
    <2>17. ~signalLost' => JobsInv'
      <3>1. \A t \in threads : t.on \in DOMAIN entries
        BY <2>2 DEF DnsTypeOK, Endpoints
      <3>2. \A k \in DOMAIN queue : queue[k].on \in DOMAIN entries
        BY <2>2 DEF DnsTypeOK, Endpoints
      <3>3. QED
        BY <1>1, <2>11, <3>1, <3>2 DEF DnsInv, JobsInv, JobOK, Unfinished
    <2>18. QED
      BY <2>12, <2>13, <2>14, <2>15, <2>16, <2>17 DEF DnsInv
  <1>4. QED
    BY <1>2, <1>3

\* While no signal was lost, an endpoint that is due has no job.
LEMMA DueHasNoJob ==
    ASSUME DnsInv, ~signalLost, NEW i \in Endpoints, clock >= entries[i].next
    PROVE  (\A t \in Unfinished : t.on # i) /\ (\A k \in DOMAIN queue : queue[k].on # i)
  <1>1. ASSUME NEW since \in Nat, JobOK(i, since) PROVE FALSE
    <2>1. clock \in Nat
      BY DEF DnsInv, DnsTypeOK
    <2>2. QED
      BY <1>1, <2>1, TimeoutAssumption, DnsAssumption DEF JobOK
  <1>2. JobsInv
    BY DEF DnsInv
  <1>3. ASSUME NEW t \in Unfinished PROVE t.on # i
    <2>1. JobOK(t.on, t.since) /\ t.since \in Nat
      BY <1>2 DEF JobsInv, Unfinished, DnsInv, DnsTypeOK, Thread
    <2>2. QED
      BY <1>1, <2>1
  <1>4. ASSUME NEW k \in DOMAIN queue PROVE queue[k].on # i
    <2>1. queue[k] \in Result
      BY ElementOfSeq DEF DnsInv, DnsTypeOK
    <2>2. JobOK(queue[k].on, queue[k].since) /\ queue[k].since \in Nat
      BY <1>2, <2>1 DEF JobsInv, Result
    <2>3. QED
      BY <1>1, <2>2
  <1>5. QED
    BY <1>3, <1>4

\* An endpoint that is due is put off.
LEMMA PutOffInv ==
    ASSUME DnsInv, NEW i \in Endpoints, clock >= entries[i].next,
           entries' = [entries EXCEPT ![i] = Reschedule(@, RetrySchedule(i))],
           UNCHANGED <<clock, records, permits, threads, queue, eventfd, drain, signalLost>>
    PROVE  DnsInv'
  <1>1. DnsTypeOK /\ entries[i] \in Entry /\ i \in 1..RegisterMax
    BY EntryType DEF DnsInv
  <1>2. PICK at \in Nat : at = RetrySchedule(i)
    BY <1>1, RetryType DEF DnsTypeOK
  <1>3. PICK e \in Entry : /\ e = Reschedule(entries[i], at) /\ SamePlace(e, entries[i])
                           /\ ~e.marked /\ e.version = entries[i].version
    BY <1>1, Rescheduled
  <1>4. entries' = [entries EXCEPT ![i] = e]
    BY <1>2, <1>3
  <1>5. /\ entries' \in Seq(Entry) /\ Len(entries') = Len(entries)
        /\ Endpoints' = Endpoints /\ entries'[i] = e
        /\ \A j \in Endpoints : j # i => entries'[j] = entries[j]
        /\ LayoutInv'
    BY <1>1, <1>3, <1>4, OneEntry DEF DnsInv
  <1>6. DnsTypeOK'
    BY <1>1, <1>5 DEF DnsTypeOK
  <1>7. PermitsInv'
    BY DEF DnsInv, PermitsInv, PermitsExact
  <1>8. MarksInv'
    BY <1>3, <1>5 DEF DnsInv, MarksInv, Unfinished
  <1>9. VersionsInv'
    BY <1>3, <1>5 DEF DnsInv, VersionsInv
  <1>10. ASSUME ~signalLost' PROVE JobsInv'
    <2>1. JobsInv /\ (\A t \in Unfinished : t.on # i) /\ (\A k \in DOMAIN queue : queue[k].on # i)
      BY <1>10, DueHasNoJob DEF DnsInv
    <2>2. (\A t \in Unfinished : t.on \in Endpoints) /\ (\A k \in DOMAIN queue : queue[k].on \in Endpoints)
      BY <1>1 DEF DnsTypeOK, Unfinished
    <2>3. Unfinished' = Unfinished
      BY DEF Unfinished
    <2>4. QED
      BY <1>5, <2>1, <2>2, <2>3 DEF JobsInv, JobOK
  <1>11. QED
    BY <1>5, <1>6, <1>7, <1>8, <1>9, <1>10 DEF DnsInv

\* A thread is started for an endpoint that is due.
LEMMA SpawnInv ==
    ASSUME DnsInv, NEW i \in Endpoints, clock >= entries[i].next, permits # 0,
           permits' = permits - 1, ThreadStarts(i),
           entries' = [entries EXCEPT ![i].next = clock + MaxRefresh, ![i].marked = TRUE],
           UNCHANGED <<clock, records, queue, eventfd, drain, signalLost>>
    PROVE  DnsInv'
  <1>1. DnsTypeOK /\ entries[i] \in Entry /\ i \in 1..RegisterMax /\ i \in Nat
    BY EntryType DEF DnsInv, DnsTypeOK, Endpoints
  <1>2. clock \in Nat /\ clock + MaxRefresh \in Nat
    <2>1. clock \in Nat /\ MaxRefresh \in Nat
      BY <1>1, DnsAssumption DEF DnsTypeOK
    <2>2. QED
      BY <2>1
  <1>3. PICK e : e = [[entries[i] EXCEPT !.next = clock + MaxRefresh] EXCEPT !.marked = TRUE]
    OBVIOUS
  <1>4. /\ e \in Entry /\ SamePlace(e, entries[i]) /\ e.next = clock + MaxRefresh
        /\ e.version = entries[i].version
    BY <1>1, <1>2, <1>3 DEF Entry, SamePlace
  <1>5. entries' = [entries EXCEPT ![i] = e]
    BY <1>1, <1>3 DEF DnsTypeOK, Endpoints
  <1>6. /\ entries' \in Seq(Entry) /\ Len(entries') = Len(entries)
        /\ Endpoints' = Endpoints /\ entries'[i] = e
        /\ \A j \in Endpoints : j # i => entries'[j] = entries[j]
        /\ LayoutInv'
    BY <1>1, <1>4, <1>5, OneEntry DEF DnsInv
  <1>7. PICK u : u = [permit |-> FreePermit, on |-> i, step |-> "query", answer |-> NoAnswer,
                      since |-> clock, retry |-> RetrySchedule(i)]
    OBVIOUS
  <1>8. threads' = threads \cup {u}
    BY <1>7 DEF ThreadStarts
  <1>9. FreePermit \in 1..DnsThreads /\ \A t \in threads : t.permit # FreePermit
    BY PermitFree DEF DnsInv
  <1>10. NoAnswer \in Answer /\ NoAnswer.version = 0
    BY DEF NoAnswer, Answer, Addrs
  <1>11. RetrySchedule(i) \in Nat
    BY <1>1, <1>2, RetryType
  <1>12. /\ u \in Thread /\ u.on = i /\ u.step = "query" /\ u.since = clock /\ u.answer = NoAnswer
         /\ u.permit = FreePermit
    BY <1>1, <1>2, <1>7, <1>9, <1>10, <1>11 DEF Thread
  <1>13. PermitsInv'
    BY <1>8, <1>9, <1>12, StartedPermits DEF DnsInv
  <1>14. permits' \in Nat
    BY <1>1 DEF DnsTypeOK
  <1>15. DnsTypeOK'
    BY <1>1, <1>6, <1>8, <1>12, <1>14 DEF DnsTypeOK
  <1>16. Unfinished' = Unfinished \cup {u}
    BY <1>8, <1>12 DEF Unfinished
  <1>17. MarksInv'
    BY <1>6, <1>12, <1>16 DEF DnsInv, MarksInv
  <1>18. VersionsInv'
    <2>1. 0 <= records /\ records' = records
      BY <1>1 DEF DnsTypeOK
    <2>2. \A j \in Endpoints' : entries'[j].version <= records'
      BY <1>4, <1>6, <2>1 DEF DnsInv, VersionsInv
    <2>3. \A t \in threads' : t.answer.version <= records'
      BY <1>8, <1>10, <1>12, <2>1 DEF DnsInv, VersionsInv
    <2>4. queue' = queue /\ \A k \in DOMAIN queue : queue[k].answer.version <= records
      BY DEF DnsInv, VersionsInv
    <2>5. QED
      BY <2>1, <2>2, <2>3, <2>4 DEF VersionsInv
  <1>19. ASSUME ~signalLost' PROVE JobsInv'
    <2>1. JobsInv /\ (\A t \in Unfinished : t.on # i) /\ (\A k \in DOMAIN queue : queue[k].on # i)
      BY <1>19, DueHasNoJob DEF DnsInv
    <2>2. (\A t \in Unfinished : t.on \in Endpoints) /\ (\A k \in DOMAIN queue : queue[k].on \in Endpoints)
      BY <1>1 DEF DnsTypeOK, Unfinished
    <2>3. queue' = queue /\ clock' = clock /\ eventfd' = eventfd /\ drain' = drain
      OBVIOUS
    <2>4. \A t \in Unfinished' : /\ entries'[t.on].next = t.since + MaxRefresh
                                  /\ clock' <= t.since + QueryTimeout
      <3>1. \A t \in Unfinished : /\ entries'[t.on].next = t.since + MaxRefresh
                                   /\ clock <= t.since + QueryTimeout
        BY <1>6, <2>1, <2>2 DEF JobsInv, JobOK
      <3>2. entries'[u.on].next = u.since + MaxRefresh /\ clock <= u.since + QueryTimeout
        BY <1>2, <1>4, <1>6, <1>12, DnsAssumption
      <3>3. QED
        BY <1>16, <2>3, <3>1, <3>2
    <2>5. \A k \in DOMAIN queue : /\ entries'[queue[k].on].next = queue[k].since + MaxRefresh
                                  /\ clock <= queue[k].since + QueryTimeout
                                  /\ entries'[queue[k].on] = entries[queue[k].on]
      BY <1>6, <2>1, <2>2 DEF JobsInv, JobOK
    <2>6. \A t, v \in Unfinished' : t.on = v.on => t = v
      BY <1>12, <1>16, <2>1 DEF JobsInv
    <2>7. \A t \in Unfinished' :
             t.step = "push" /\ t.answer.ok => entries'[t.on].version <= t.answer.version
      BY <1>6, <1>12, <1>16, <2>1, <2>2 DEF JobsInv
    <2>8. \A t \in Unfinished', k \in DOMAIN queue : t.on # queue[k].on
      BY <1>12, <1>16, <2>1 DEF JobsInv
    <2>9. /\ \A j, k \in DOMAIN queue : queue[j].on = queue[k].on => j = k
          /\ \A k \in DOMAIN queue :
                queue[k].answer.ok => entries'[queue[k].on].version <= queue[k].answer.version
          /\ queue # <<>> => eventfd \/ drain
      BY <2>1, <2>5 DEF JobsInv
    <2>10. \A t \in Unfinished' : JobOK(t.on, t.since)'
      BY <2>4 DEF JobOK
    <2>11. \A k \in DOMAIN queue' : JobOK(queue[k].on, queue[k].since)'
      BY <2>3, <2>5 DEF JobOK
    <2>12. (\A j, k \in DOMAIN queue : queue[j].on = queue[k].on => j = k)'
      BY <2>3, <2>9
    <2>13. (\A t \in Unfinished, k \in DOMAIN queue : t.on # queue[k].on)'
      BY <2>3, <2>8
    <2>14. (\A k \in DOMAIN queue :
               queue[k].answer.ok => entries[queue[k].on].version <= queue[k].answer.version)'
      BY <2>3, <2>9
    <2>15. (queue # <<>> => eventfd \/ drain)'
      BY <1>1, <2>3, <2>9 DEF DnsTypeOK
    <2>16. QED
      BY <2>6, <2>7, <2>10, <2>11, <2>12, <2>13, <2>14, <2>15 DEF JobsInv
  <1>20. QED
    BY <1>6, <1>13, <1>15, <1>17, <1>18, <1>19 DEF DnsInv

LEMMA RefreshInv ==
    ASSUME DnsInv, NEW i \in Endpoints, HandleDnsRefresh(i)
    PROVE  DnsInv'
  <1>1. /\ clock >= entries[i].next
        /\ UNCHANGED <<clock, records, queue, eventfd, drain, signalLost>>
    BY DEF HandleDnsRefresh
  <1>2. \/ UNCHANGED <<entries, threads, permits>>
        \/ /\ entries' = [entries EXCEPT ![i] = Reschedule(@, RetrySchedule(i))]
           /\ UNCHANGED <<threads, permits>>
        \/ /\ permits # 0 /\ permits' = permits - 1 /\ ThreadStarts(i)
           /\ entries' = [entries EXCEPT ![i].next = clock + MaxRefresh, ![i].marked = TRUE]
    BY Zenon DEF HandleDnsRefresh, Spawn
  <1>3. CASE UNCHANGED <<entries, threads, permits>>
    BY <1>1, <1>3, NothingMoves
  <1>4. CASE /\ entries' = [entries EXCEPT ![i] = Reschedule(@, RetrySchedule(i))]
             /\ UNCHANGED <<threads, permits>>
    BY <1>1, <1>4, PutOffInv
  <1>5. CASE /\ permits # 0 /\ permits' = permits - 1 /\ ThreadStarts(i)
             /\ entries' = [entries EXCEPT ![i].next = clock + MaxRefresh, ![i].marked = TRUE]
    BY <1>1, <1>5, SpawnInv
  <1>6. QED
    BY <1>2, <1>3, <1>4, <1>5

LEMMA ResolveInv ==
    ASSUME DnsInv, NEW t \in threads, Resolve(t)
    PROVE  DnsInv'
  <1>1. UNCHANGED <<entries, clock, records, permits, queue, eventfd, drain, signalLost>>
    BY DEF Resolve
  <1>2. PICK r \in DnsAnswers(entries[t.on].cfg) : Moved(t, [t EXCEPT !.step = "push", !.answer = r])
    BY DEF Resolve
  <1>3. DnsTypeOK /\ t \in Thread /\ t.step = "query" /\ t.on \in Endpoints /\ t.on \in Nat
    BY DEF DnsInv, DnsTypeOK, Resolve, Thread
  <1>4. r \in Answer /\ r.version <= records /\ (r.ok => r.version = records)
    <2>1. records \in Nat /\ records \in Versions
      BY <1>3 DEF DnsTypeOK
    <2>2. QED
      BY <2>1, DnsAnswersTypes
  <1>5. PICK u : u = [[t EXCEPT !.step = "push"] EXCEPT !.answer = r]
    OBVIOUS
  <1>6. /\ u \in Thread /\ u.permit = t.permit /\ u.on = t.on /\ u.since = t.since
        /\ u.step = "push" /\ u.answer = r
    BY <1>3, <1>4, <1>5 DEF Thread
  <1>7. Moved(t, u) /\ threads' = (threads \ {t}) \cup {u}
    BY <1>2, <1>5 DEF Moved
  <1>8. Unfinished' = (Unfinished \ {t}) \cup {u} /\ t \in Unfinished
    BY <1>3, <1>6, <1>7 DEF Unfinished
  <1>9. DnsTypeOK'
    BY <1>1, <1>3, <1>6, <1>7 DEF DnsTypeOK, Endpoints
  <1>10. PermitsInv'
    BY <1>1, <1>6, <1>7, MovedPermits DEF DnsInv
  <1>11. LayoutInv'
    BY <1>1 DEF DnsInv, LayoutInv, Endpoints
  <1>12. MarksInv'
    BY <1>1, <1>6, <1>8 DEF DnsInv, MarksInv, Endpoints
  <1>13. VersionsInv'
    BY <1>1, <1>4, <1>6, <1>7 DEF DnsInv, VersionsInv, Endpoints
  <1>14. ASSUME ~signalLost' PROVE JobsInv'
    <2>1. JobsInv
      BY <1>1, <1>14 DEF DnsInv
    <2>2. (\A v \in Unfinished : JobOK(v.on, v.since))'
      BY <1>1, <1>6, <1>8, <2>1 DEF JobsInv, JobOK
    <2>3. (\A k \in DOMAIN queue : JobOK(queue[k].on, queue[k].since))'
      BY <1>1, <2>1 DEF JobsInv, JobOK
    <2>4. (\A v, w \in Unfinished : v.on = w.on => v = w)'
      BY <1>6, <1>8, <2>1 DEF JobsInv
    <2>5. (\A v \in Unfinished, k \in DOMAIN queue : v.on # queue[k].on)'
      BY <1>1, <1>6, <1>8, <2>1 DEF JobsInv
    <2>6. (\A v \in Unfinished :
              v.step = "push" /\ v.answer.ok => entries[v.on].version <= v.answer.version)'
      <3>1. r.ok => entries[t.on].version <= r.version
        BY <1>3, <1>4 DEF DnsInv, VersionsInv
      <3>2. QED
        BY <1>1, <1>6, <1>8, <2>1, <3>1 DEF JobsInv
    <2>7. /\ (\A j, k \in DOMAIN queue : queue[j].on = queue[k].on => j = k)'
          /\ (\A k \in DOMAIN queue :
                 queue[k].answer.ok => entries[queue[k].on].version <= queue[k].answer.version)'
          /\ (queue # <<>> => eventfd \/ drain)'
      BY <1>1, <2>1 DEF JobsInv
    <2>8. QED
      BY <2>2, <2>3, <2>4, <2>5, <2>6, <2>7 DEF JobsInv
  <1>15. QED
    BY <1>9, <1>10, <1>11, <1>12, <1>13, <1>14 DEF DnsInv

\* The result a thread pushes, signalled or not.
LEMMA PushParts ==
    ASSUME DnsInv, NEW t \in threads, PushResult(t)
    PROVE  /\ t \in Unfinished /\ t \in Thread /\ t.on \in Endpoints /\ t.step = "push"
           /\ Unfinished' = Unfinished \ {t}
           /\ threads' \subseteq Thread /\ \A v \in threads' : v.on \in Endpoints
           /\ \A v \in threads' : v.answer.version <= records
           /\ PermitsInv'
           /\ queue' \in Seq(Result) /\ DOMAIN queue' = 1..(Len(queue) + 1)
           /\ Len(queue) \in Nat /\ DOMAIN queue = 1..Len(queue)
           /\ \A k \in DOMAIN queue : queue'[k] = queue[k]
           /\ queue'[Len(queue) + 1] = [on |-> t.on, answer |-> t.answer, since |-> t.since]
  <1>1. DnsTypeOK /\ t \in Thread /\ t.step = "push" /\ t.on \in Endpoints
    BY DEF DnsInv, DnsTypeOK, PushResult
  <1>2. PICK u : u = [t EXCEPT !.step = "exit"]
    OBVIOUS
  <1>3. /\ u \in Thread /\ u.permit = t.permit /\ u.on = t.on /\ u.step = "exit"
        /\ u.answer = t.answer
    BY <1>1, <1>2 DEF Thread
  <1>4. Moved(t, u) /\ threads' = (threads \ {t}) \cup {u} /\ permits' = permits
    BY <1>2 DEF PushResult, Moved
  <1>5. PermitsInv'
    BY <1>3, <1>4, MovedPermits DEF DnsInv
  <1>6. Unfinished' = Unfinished \ {t} /\ t \in Unfinished
    BY <1>1, <1>3, <1>4 DEF Unfinished
  <1>7. PICK q : q = [on |-> t.on, answer |-> t.answer, since |-> t.since]
    OBVIOUS
  <1>8. q \in Result
    BY <1>1, <1>7 DEF Thread, Result
  <1>9. queue \in Seq(Result) /\ queue' = Append(queue, q)
    BY <1>1, <1>7 DEF DnsTypeOK, PushResult
  <1>10. /\ queue' \in Seq(Result) /\ DOMAIN queue' = 1..(Len(queue) + 1)
         /\ Len(queue) \in Nat /\ DOMAIN queue = 1..Len(queue)
         /\ \A k \in DOMAIN queue : queue'[k] = queue[k]
         /\ queue'[Len(queue) + 1] = q
    BY <1>8, <1>9
  <1>11. /\ threads' \subseteq Thread /\ \A v \in threads' : v.on \in Endpoints
         /\ \A v \in threads' : v.answer.version <= records
    BY <1>1, <1>3, <1>4 DEF DnsTypeOK, DnsInv, VersionsInv
  <1>12. QED
    BY <1>1, <1>5, <1>6, <1>7, <1>10, <1>11

LEMMA PushInv ==
    ASSUME DnsInv, NEW t \in threads, PushResult(t)
    PROVE  DnsInv'
  <1> DEFINE n == Len(queue)
  <1>1. UNCHANGED <<clock, records, permits, drain>>
    BY DEF PushResult
  <1>2. /\ t \in Unfinished /\ t \in Thread /\ t.on \in Endpoints /\ t.step = "push"
        /\ Unfinished' = Unfinished \ {t}
        /\ threads' \subseteq Thread /\ \A v \in threads' : v.on \in Endpoints
        /\ \A v \in threads' : v.answer.version <= records
        /\ PermitsInv'
        /\ queue' \in Seq(Result) /\ DOMAIN queue' = 1..(n + 1)
        /\ n \in Nat /\ DOMAIN queue = 1..n
        /\ \A k \in DOMAIN queue : queue'[k] = queue[k]
        /\ queue'[n + 1] = [on |-> t.on, answer |-> t.answer, since |-> t.since]
    BY PushParts
  <1> HIDE DEF n
  <1>3. /\ \A k \in DOMAIN queue' : k \in DOMAIN queue \/ k = n + 1
        /\ DOMAIN queue \subseteq DOMAIN queue' /\ n + 1 \in DOMAIN queue' /\ n + 1 \notin DOMAIN queue
    BY <1>2
  <1>4. /\ queue'[n + 1].on = t.on /\ queue'[n + 1].answer = t.answer
        /\ queue'[n + 1].since = t.since
    BY <1>2
  <1>5. DnsTypeOK
    BY DEF DnsInv
  <1>6. /\ \A k \in DOMAIN queue' : queue'[k].on \in Endpoints
        /\ \A k \in DOMAIN queue' : queue'[k].answer.version <= records
    BY <1>2, <1>3, <1>4, <1>5 DEF DnsTypeOK, DnsInv, VersionsInv, Unfinished
  <1>7. CASE eventfd' = TRUE /\ UNCHANGED <<entries, signalLost>>
    <2>1. DnsTypeOK'
      BY <1>1, <1>2, <1>5, <1>6, <1>7 DEF DnsTypeOK, Endpoints
    <2>2. LayoutInv'
      BY <1>7 DEF DnsInv, LayoutInv, Endpoints
    <2>3. MarksInv'
      <3> SUFFICES ASSUME NEW i \in Endpoints, entries[i].marked
                   PROVE  \/ \E v \in Unfinished' : v.on = i
                          \/ (eventfd' \/ drain') /\ \E k \in DOMAIN queue' : queue'[k].on = i
        BY <1>7 DEF MarksInv, Endpoints
      <3>1. (\E v \in Unfinished : v.on = i) \/ (\E k \in DOMAIN queue : queue[k].on = i)
        BY DEF DnsInv, MarksInv
      <3>2. QED
        BY <1>2, <1>3, <1>4, <1>7, <3>1
    <2>4. VersionsInv'
      BY <1>1, <1>2, <1>6, <1>7 DEF DnsInv, VersionsInv, Endpoints
    <2>5. ASSUME ~signalLost' PROVE JobsInv'
      <3>1. JobsInv
        BY <1>7, <2>5 DEF DnsInv
      <3>2. (\A v \in Unfinished : JobOK(v.on, v.since))'
        BY <1>1, <1>2, <1>7, <3>1 DEF JobsInv, JobOK
      <3>3. (\A k \in DOMAIN queue : JobOK(queue[k].on, queue[k].since))'
        BY <1>1, <1>2, <1>3, <1>4, <1>7, <3>1 DEF JobsInv, JobOK
      <3>4. (\A v, w \in Unfinished : v.on = w.on => v = w)'
        BY <1>2, <3>1 DEF JobsInv
      <3>5. (\A j, k \in DOMAIN queue : queue[j].on = queue[k].on => j = k)'
        BY <1>2, <1>3, <1>4, <3>1 DEF JobsInv
      <3>6. (\A v \in Unfinished, k \in DOMAIN queue : v.on # queue[k].on)'
        BY <1>2, <1>3, <1>4, <3>1 DEF JobsInv
      <3>7. (\A v \in Unfinished :
                v.step = "push" /\ v.answer.ok => entries[v.on].version <= v.answer.version)'
        BY <1>2, <1>7, <3>1 DEF JobsInv
      <3>8. (\A k \in DOMAIN queue :
                queue[k].answer.ok => entries[queue[k].on].version <= queue[k].answer.version)'
        BY <1>2, <1>3, <1>4, <1>7, <3>1 DEF JobsInv
      <3>9. QED
        BY <1>7, <3>2, <3>3, <3>4, <3>5, <3>6, <3>7, <3>8 DEF JobsInv
    <2>6. QED
      BY <1>2, <2>1, <2>2, <2>3, <2>4, <2>5 DEF DnsInv
  <1>8. CASE entries' = Unsignalled(t) /\ signalLost' = TRUE /\ UNCHANGED eventfd
    <2>1. entries[t.on] \in Entry /\ t.retry \in Nat
      BY <1>2, <1>5, EntryType DEF Thread
    <2>2. PICK e \in Entry : /\ e = Reschedule(entries[t.on], t.retry) /\ SamePlace(e, entries[t.on])
                             /\ ~e.marked /\ e.version = entries[t.on].version
      BY <2>1, Rescheduled
    <2>3. entries' = [entries EXCEPT ![t.on] = e]
      BY <1>8, <2>2 DEF Unsignalled
    <2>4. PICK i \in Endpoints : i = t.on
      BY <1>2
    <2>5. /\ entries' \in Seq(Entry) /\ Len(entries') = Len(entries)
          /\ Endpoints' = Endpoints /\ entries'[i] = e
          /\ \A j \in Endpoints : j # i => entries'[j] = entries[j]
          /\ LayoutInv'
      BY <1>5, <2>2, <2>3, <2>4, OneEntry DEF DnsInv
    <2>6. DnsTypeOK'
      BY <1>1, <1>2, <1>5, <1>6, <1>8, <2>5 DEF DnsTypeOK
    <2>7. MarksInv'
      <3> SUFFICES ASSUME NEW j \in Endpoints, entries'[j].marked
                   PROVE  \/ \E v \in Unfinished' : v.on = j
                          \/ (eventfd' \/ drain') /\ \E k \in DOMAIN queue' : queue'[k].on = j
        BY <2>5 DEF MarksInv
      <3>1. j # i /\ entries[j].marked
        BY <2>2, <2>5
      <3>2. CASE \E v \in Unfinished : v.on = j
        BY <1>2, <2>4, <3>1, <3>2
      <3>3. CASE (eventfd \/ drain) /\ \E k \in DOMAIN queue : queue[k].on = j
        <4>1. eventfd' \/ drain'
          BY <1>1, <1>5, <1>8, <3>3 DEF DnsTypeOK
        <4>2. QED
          BY <1>2, <1>3, <3>3, <4>1
      <3>4. QED
        BY <3>1, <3>2, <3>3 DEF DnsInv, MarksInv
    <2>8. VersionsInv'
      BY <1>1, <1>2, <1>6, <2>2, <2>4, <2>5 DEF DnsInv, VersionsInv
    <2>9. QED
      BY <1>2, <1>8, <2>5, <2>6, <2>7, <2>8 DEF DnsInv
  <1>9. QED
    BY <1>7, <1>8 DEF PushResult

LEMMA ExitInv ==
    ASSUME DnsInv, NEW t \in threads, ThreadExits(t)
    PROVE  DnsInv'
  <1>1. /\ UNCHANGED <<entries, clock, records, queue, eventfd, drain, signalLost>>
        /\ threads' = threads \ {t} /\ permits' = permits + 1 /\ t.step = "exit"
    BY DEF ThreadExits
  <1>2. Unfinished' = Unfinished
    BY <1>1 DEF Unfinished
  <1>3. DnsTypeOK'
    BY <1>1 DEF DnsInv, DnsTypeOK, Endpoints
  <1>4. PermitsInv'
    BY <1>1, EndedPermits DEF DnsInv
  <1>5. LayoutInv'
    BY <1>1 DEF DnsInv, LayoutInv, Endpoints
  <1>6. MarksInv'
    BY <1>1, <1>2 DEF DnsInv, MarksInv, Endpoints
  <1>7. VersionsInv'
    BY <1>1 DEF DnsInv, VersionsInv, Endpoints
  <1>8. ~signalLost' => JobsInv'
    BY <1>1, <1>2 DEF DnsInv, JobsInv, JobOK
  <1>9. QED
    BY <1>3, <1>4, <1>5, <1>6, <1>7, <1>8 DEF DnsInv

LEMMA ReadInv ==
    ASSUME DnsInv, ReadEvent
    PROVE  DnsInv'
  <1>1. /\ UNCHANGED <<entries, clock, records, permits, threads, queue, signalLost>>
        /\ eventfd' = FALSE /\ drain' = TRUE
    BY DEF ReadEvent
  <1>2. DnsTypeOK'
    BY <1>1 DEF DnsInv, DnsTypeOK, Endpoints
  <1>3. PermitsInv'
    BY <1>1 DEF DnsInv, PermitsInv, PermitsExact
  <1>4. LayoutInv'
    BY <1>1 DEF DnsInv, LayoutInv, Endpoints
  <1>5. MarksInv'
    BY <1>1 DEF DnsInv, MarksInv, Unfinished, Endpoints
  <1>6. VersionsInv'
    BY <1>1 DEF DnsInv, VersionsInv, Endpoints
  <1>7. ~signalLost' => JobsInv'
    BY <1>1 DEF DnsInv, JobsInv, JobOK, Unfinished
  <1>8. QED
    BY <1>2, <1>3, <1>4, <1>5, <1>6, <1>7 DEF DnsInv

LEMMA ChangeInv ==
    ASSUME DnsInv, RecordsChange
    PROVE  DnsInv'
  <1>1. /\ UNCHANGED <<entries, clock, permits, threads, queue, eventfd, drain, signalLost>>
        /\ records' = records + 1 /\ records' \in Versions
    BY DEF RecordsChange
  <1>2. DnsTypeOK'
    BY <1>1 DEF DnsInv, DnsTypeOK, Endpoints
  <1>3. PermitsInv'
    BY <1>1 DEF DnsInv, PermitsInv, PermitsExact
  <1>4. LayoutInv'
    BY <1>1 DEF DnsInv, LayoutInv, Endpoints
  <1>5. MarksInv'
    BY <1>1 DEF DnsInv, MarksInv, Unfinished, Endpoints
  <1>6. VersionsInv'
    <2>1. \A v \in Nat : v <= records => v <= records'
      BY <1>1 DEF DnsInv, DnsTypeOK
    <2>2. \A i \in Endpoints : entries[i].version \in Nat
      BY EntryType DEF DnsInv, Entry
    <2>3. \A t \in threads : t.answer.version \in Nat
      BY DEF DnsInv, DnsTypeOK, Thread, Answer
    <2>4. \A k \in DOMAIN queue : queue[k].answer.version \in Nat
      <3>1. \A k \in DOMAIN queue : queue[k] \in Result
        BY ElementOfSeq DEF DnsInv, DnsTypeOK
      <3>2. QED
        BY <3>1 DEF Result, Answer
    <2>5. QED
      BY <1>1, <2>1, <2>2, <2>3, <2>4 DEF DnsInv, VersionsInv, Endpoints
  <1>7. ~signalLost' => JobsInv'
    BY <1>1 DEF DnsInv, JobsInv, JobOK, Unfinished
  <1>8. QED
    BY <1>2, <1>3, <1>4, <1>5, <1>6, <1>7 DEF DnsInv

LEMMA TickInv ==
    ASSUME DnsInv, SecondPasses
    PROVE  DnsInv'
  <1>1. /\ UNCHANGED <<entries, records, permits, threads, queue, eventfd, drain, signalLost>>
        /\ clock' = clock + 1
        /\ \A t \in threads : clock < t.since + QueryTimeout
        /\ eventfd \/ drain => \A k \in DOMAIN queue : clock < queue[k].since + QueryTimeout
    BY DEF SecondPasses
  <1>2. DnsTypeOK'
    BY <1>1 DEF DnsInv, DnsTypeOK, Endpoints
  <1>3. PermitsInv'
    BY <1>1 DEF DnsInv, PermitsInv, PermitsExact
  <1>4. LayoutInv'
    BY <1>1 DEF DnsInv, LayoutInv, Endpoints
  <1>5. MarksInv'
    BY <1>1 DEF DnsInv, MarksInv, Unfinished, Endpoints
  <1>6. VersionsInv'
    BY <1>1 DEF DnsInv, VersionsInv, Endpoints
  <1>7. ASSUME ~signalLost' PROVE JobsInv'
    <2>1. JobsInv
      BY <1>1, <1>7 DEF DnsInv
    <2>2. \A s \in Nat : clock < s + QueryTimeout => clock + 1 <= s + QueryTimeout
      BY DnsAssumption DEF DnsInv, DnsTypeOK
    <2>3. \A t \in Unfinished : t.since \in Nat /\ t \in threads
      BY DEF DnsInv, DnsTypeOK, Unfinished, Thread
    <2>4. \A k \in DOMAIN queue : queue[k].since \in Nat /\ clock < queue[k].since + QueryTimeout
      <3>1. \A k \in DOMAIN queue : queue[k] \in Result /\ queue # <<>>
        BY ElementOfSeq DEF DnsInv, DnsTypeOK
      <3>2. QED
        BY <1>1, <2>1, <3>1 DEF Result, JobsInv
    <2>5. (\A t \in Unfinished : JobOK(t.on, t.since))'
      BY <1>1, <2>1, <2>2, <2>3 DEF JobsInv, JobOK, Unfinished
    <2>6. (\A k \in DOMAIN queue : JobOK(queue[k].on, queue[k].since))'
      BY <1>1, <2>1, <2>2, <2>4 DEF JobsInv, JobOK
    <2>7. QED
      BY <1>1, <2>1, <2>5, <2>6 DEF JobsInv, Unfinished
  <1>8. QED
    BY <1>2, <1>3, <1>4, <1>5, <1>6, <1>7 DEF DnsInv

\* A slot takes the next address.
LEMMA CursorInv ==
    ASSUME DnsInv, NEW i \in Endpoints,
           entries' = [entries EXCEPT ![i].cursor = (@ + 1) % CursorRange],
           UNCHANGED <<clock, records, permits, threads, queue, eventfd, drain, signalLost>>
    PROVE  DnsInv' /\ Endpoints' = Endpoints /\ \A j \in Endpoints : entries'[j].version = entries[j].version
  <1>1. DnsTypeOK /\ entries[i] \in Entry
    BY EntryType DEF DnsInv
  <1>2. PICK c : c = (entries[i].cursor + 1) % CursorRange
    OBVIOUS
  <1>3. c \in Nat
    <2>1. PICK a : a = entries[i].cursor + 1
      OBVIOUS
    <2>2. entries[i].cursor \in Nat
      BY <1>1 DEF Entry
    <2>3. a \in Nat
      BY <2>1, <2>2
    <2>4. CursorRange \in Nat \ {0}
      BY DnsAssumption
    <2>5. QED
      BY <1>2, <2>1, <2>3, <2>4
  <1>4. PICK e : e = [entries[i] EXCEPT !.cursor = c]
    OBVIOUS
  <1>5. /\ e \in Entry /\ SamePlace(e, entries[i]) /\ e.next = entries[i].next
        /\ e.version = entries[i].version /\ e.marked = entries[i].marked
    BY <1>1, <1>3, <1>4 DEF Entry, SamePlace
  <1>6. entries' = [entries EXCEPT ![i] = e]
    BY <1>2, <1>4
  <1>7. /\ entries' \in Seq(Entry) /\ Len(entries') = Len(entries)
        /\ Endpoints' = Endpoints /\ entries'[i] = e
        /\ \A j \in Endpoints : j # i => entries'[j] = entries[j]
        /\ LayoutInv'
    BY <1>1, <1>5, <1>6, OneEntry DEF DnsInv
  <1>8. \A j \in Endpoints : /\ entries'[j].next = entries[j].next
                             /\ entries'[j].version = entries[j].version
                             /\ entries'[j].marked = entries[j].marked
    BY <1>5, <1>7
  <1>9. DnsTypeOK'
    BY <1>1, <1>7 DEF DnsTypeOK
  <1>10. PermitsInv'
    BY DEF DnsInv, PermitsInv, PermitsExact
  <1>11. MarksInv'
    BY <1>7, <1>8 DEF DnsInv, MarksInv, Unfinished
  <1>12. VersionsInv'
    BY <1>7, <1>8 DEF DnsInv, VersionsInv
  <1>13. ASSUME ~signalLost' PROVE JobsInv'
    <2>1. JobsInv
      BY <1>13 DEF DnsInv
    <2>2. (\A t \in Unfinished : t.on \in Endpoints) /\ (\A k \in DOMAIN queue : queue[k].on \in Endpoints)
      BY <1>1 DEF DnsTypeOK, Unfinished
    <2>3. Unfinished' = Unfinished
      BY DEF Unfinished
    <2>4. QED
      BY <1>8, <2>1, <2>2, <2>3 DEF JobsInv, JobOK
  <1>14. QED
    BY <1>7, <1>8, <1>9, <1>10, <1>11, <1>12, <1>13 DEF DnsInv

LEMMA LatestIn ==
    ASSUME NEW n \in Nat, NEW S \in SUBSET (1..n), S # {}
    PROVE  Latest(S) \in S
  <1> DEFINE T == {n - k : k \in S}
  <1>1. \A k \in S : k \in Nat /\ n - k \in Nat
    OBVIOUS
  <1>2. T \subseteq Nat /\ T # {}
    BY <1>1
  <1>3. PICK x \in T : \A y \in T : x <= y
    BY <1>2, LeastNatural
  <1>4. PICK k \in S : x = n - k
    OBVIOUS
  <1>5. ASSUME NEW j \in S PROVE j <= k
    <2>1. x <= n - j
      BY <1>3
    <2>2. j \in Nat /\ k \in Nat
      BY <1>1
    <2>3. QED
      BY <1>4, <2>1, <2>2
  <1>6. QED
    BY <1>5 DEF Latest

\* What the drained results make of one endpoint.
LEMMA RefreshedEntry ==
    ASSUME DnsInv, NEW i \in Endpoints
    PROVE  LET f == Refreshed(i)
           IN  /\ f \in Entry /\ SamePlace(f, entries[i]) /\ f.version <= records
               /\ (\A k \in DOMAIN queue : queue[k].on # i) => f = entries[i]
               /\ (\E k \in DOMAIN queue : queue[k].on = i) => ~f.marked
               /\ ~signalLost => entries[i].version <= f.version
  <1> DEFINE mine == {k \in DOMAIN queue : queue[k].on = i}
             good == {k \in mine : queue[k].answer.ok}
             e    == IF good = {} THEN entries[i]
                     ELSE [entries[i] EXCEPT !.version = queue[Latest(good)].answer.version,
                                             !.addrs = queue[Latest(good)].answer.addrs]
             last == queue[Latest(mine)].answer
             at   == IF last.ok THEN ComputeNextDnsRefresh(last.ttl, e.cfg.user, i) ELSE RetrySchedule(i)
  <1>1. DnsTypeOK /\ entries[i] \in Entry /\ i \in 1..RegisterMax /\ entries[i].cfg.user \in Nat
        /\ entries[i].version <= records
    BY EntryType DEF DnsInv, VersionsInv
  <1>2. Len(queue) \in Nat /\ DOMAIN queue = 1..Len(queue) /\ \A k \in DOMAIN queue : queue[k].answer \in Answer
    <2>1. queue \in Seq(Result)
      BY <1>1 DEF DnsTypeOK
    <2>2. \A k \in DOMAIN queue : queue[k] \in Result
      BY <2>1, ElementOfSeq
    <2>3. QED
      BY <2>1, <2>2 DEF Result
  <1>3. good # {} => Latest(good) \in good
    BY <1>2, LatestIn
  <1>4. mine # {} => Latest(mine) \in mine
    BY <1>2, LatestIn
  <1>5. /\ e \in Entry /\ SamePlace(e, entries[i]) /\ e.version <= records
        /\ e.cfg = entries[i].cfg
        /\ ~signalLost => entries[i].version <= e.version
    <2>1. CASE good = {}
      <3>1. e = entries[i] /\ entries[i].version \in Nat
        BY <1>1, <2>1 DEF Entry
      <3> HIDE DEF e
      <3>2. entries[i].version <= entries[i].version
        BY <3>1
      <3>3. QED
        BY <1>1, <3>1, <3>2 DEF SamePlace
    <2>2. CASE good # {}
      <3>1. PICK b : b = queue[Latest(good)].answer
        OBVIOUS
      <3>2. b \in Answer /\ b.version <= records
        <4>1. PICK k \in DOMAIN queue : k = Latest(good)
          BY <1>3, <2>2
        <4>2. QED
          BY <1>2, <3>1, <4>1 DEF DnsInv, VersionsInv
      <3>3. ~signalLost => entries[i].version <= b.version
        BY <1>3, <2>2, <3>1 DEF DnsInv, JobsInv
      <3>4. e = [[entries[i] EXCEPT !.version = b.version] EXCEPT !.addrs = b.addrs]
        BY <2>2, <3>1
      <3> HIDE DEF e
      <3>5. /\ e \in Entry /\ SamePlace(e, entries[i]) /\ e.version = b.version
        BY <1>1, <3>2, <3>4 DEF Entry, Answer, SamePlace
      <3>6. QED
        BY <3>2, <3>3, <3>5 DEF SamePlace
    <2>3. QED
      BY <2>1, <2>2
  <1>6. Refreshed(i) = IF mine = {} THEN e ELSE Reschedule(e, at)
    BY DEF Refreshed
  <1>7. mine # {} => at \in Nat
    <2> SUFFICES ASSUME mine # {} PROVE at \in Nat
      OBVIOUS
    <2>1. last \in Answer
      BY <1>2, <1>4
    <2>2. last.ttl \in Nat /\ clock \in Nat /\ e.cfg.user \in Nat
      BY <1>1, <1>5, <2>1 DEF Answer, DnsTypeOK
    <2> HIDE DEF last, e
    <2>3. ComputeNextDnsRefresh(last.ttl, e.cfg.user, i) \in Nat
      BY <1>1, <2>2, ScheduleType
    <2>4. RetrySchedule(i) \in Nat
      BY <1>1, <2>2, RetryType
    <2>5. QED
      BY <2>3, <2>4
  <1>8. mine = {} => e = entries[i]
    OBVIOUS
  <1> HIDE DEF e, at
  <1>9. CASE mine = {}
    <2>1. Refreshed(i) = e /\ e = entries[i] /\ \A k \in DOMAIN queue : queue[k].on # i
      BY <1>6, <1>8, <1>9
    <2>2. QED
      BY <1>5, <2>1
  <1>10. CASE mine # {}
    <2>1. \E k \in DOMAIN queue : queue[k].on = i
      BY <1>10
    <2>2. PICK f : f = Reschedule(e, at)
      OBVIOUS
    <2>3. /\ f \in Entry /\ SamePlace(f, e) /\ ~f.marked /\ f.version = e.version
      BY <1>5, <1>7, <1>10, <2>2, Rescheduled
    <2>4. Refreshed(i) = f
      BY <1>6, <1>10, <2>2
    <2>5. SamePlace(f, entries[i])
      BY <1>5, <2>3 DEF SamePlace
    <2>6. QED
      BY <1>5, <2>1, <2>3, <2>4, <2>5
  <1>11. QED
    BY <1>9, <1>10

LEMMA SwapInv ==
    ASSUME DnsInv, SwapAndApply
    PROVE  DnsInv' /\ Endpoints' = Endpoints
           /\ (~signalLost => \A i \in Endpoints : entries[i].version <= entries'[i].version)
  <1>1. /\ UNCHANGED <<clock, records, permits, threads, eventfd, signalLost>>
        /\ entries' = [i \in Endpoints |-> Refreshed(i)] /\ queue' = <<>> /\ drain' = FALSE
    BY DEF SwapAndApply
  <1>2. DnsTypeOK /\ Len(entries) \in Nat /\ Endpoints = 1..Len(entries)
    BY DEF DnsInv, DnsTypeOK, Endpoints
  <1>3. \A i \in Endpoints : /\ entries'[i] \in Entry /\ SamePlace(entries'[i], entries[i])
                             /\ entries'[i].version <= records
                             /\ (\A k \in DOMAIN queue : queue[k].on # i) => entries'[i] = entries[i]
                             /\ (\E k \in DOMAIN queue : queue[k].on = i) => ~entries'[i].marked
                             /\ ~signalLost => entries[i].version <= entries'[i].version
    BY <1>1, RefreshedEntry
  <1>4. DOMAIN entries' = Endpoints
    BY <1>1
  <1>5. entries' \in Seq(Entry) /\ Len(entries') = Len(entries) /\ Endpoints' = Endpoints
    <2>1. entries' \in [1..Len(entries) -> Entry]
      BY <1>1, <1>2, <1>3
    <2>2. QED
      BY <1>2, <1>4, <2>1 DEF Endpoints
  <1>6. queue' \in Seq(Result) /\ DOMAIN queue' = {}
    BY <1>1
  <1>7. DnsTypeOK'
    BY <1>1, <1>2, <1>5, <1>6 DEF DnsTypeOK
  <1>8. PermitsInv'
    BY <1>1 DEF DnsInv, PermitsInv, PermitsExact
  <1>9. LayoutInv'
    BY <1>3, <1>4, LayoutKept DEF DnsInv, Endpoints
  <1>10. Unfinished' = Unfinished
    BY <1>1 DEF Unfinished
  <1>11. MarksInv'
    <2> SUFFICES ASSUME NEW i \in Endpoints, entries'[i].marked PROVE \E t \in Unfinished : t.on = i
      BY <1>5, <1>10 DEF MarksInv
    <2>1. \A k \in DOMAIN queue : queue[k].on # i
      BY <1>3
    <2>2. entries[i].marked
      BY <1>3, <2>1
    <2>3. QED
      BY <2>1, <2>2 DEF DnsInv, MarksInv
  <1>12. VersionsInv'
    BY <1>1, <1>3, <1>5, <1>6 DEF DnsInv, VersionsInv
  <1>13. ASSUME ~signalLost' PROVE JobsInv'
    <2>1. JobsInv
      BY <1>1, <1>13 DEF DnsInv
    <2>2. \A t \in Unfinished : t.on \in Endpoints
      BY <1>2 DEF DnsTypeOK, Unfinished
    <2>3. \A t \in Unfinished : entries'[t.on] = entries[t.on]
      BY <1>3, <2>1, <2>2 DEF JobsInv
    <2>4. (\A t \in Unfinished : JobOK(t.on, t.since))'
      BY <1>1, <1>10, <2>1, <2>3 DEF JobsInv, JobOK
    <2>5. QED
      BY <1>1, <1>6, <1>10, <2>1, <2>3, <2>4 DEF JobsInv
  <1>14. QED
    BY <1>3, <1>5, <1>7, <1>8, <1>9, <1>11, <1>12, <1>13 DEF DnsInv

-------------------------------------------------------------------------------
(* The theorems. *)

\* What a step may do to the entries: nothing older comes in while no signal
\* was lost.
NothingOlder ==
    ~signalLost => \A i \in Endpoints : i \in Endpoints' /\ entries[i].version <= entries'[i].version

LEMMA SameVersions ==
    ASSUME DnsInv, \A i \in Endpoints : i \in DOMAIN entries' /\ entries'[i].version = entries[i].version
    PROVE  NothingOlder
  <1>1. \A i \in Endpoints : entries[i].version \in Nat
    BY EntryType DEF DnsInv, Entry
  <1>2. QED
    BY <1>1 DEF NothingOlder, Endpoints

LEMMA WalkStep ==
    ASSUME DnsInv, NEW j, entries' = [entries EXCEPT ![j].cursor = (@ + 1) % CursorRange],
           UNCHANGED <<clock, records, permits, threads, queue, eventfd, drain, signalLost>>
    PROVE  DnsInv' /\ NothingOlder
  <1>1. CASE j \in Endpoints
    <2>1. DnsInv' /\ Endpoints' = Endpoints /\ \A i \in Endpoints : entries'[i].version = entries[i].version
      BY <1>1, CursorInv
    <2>2. QED
      BY <2>1, SameVersions DEF Endpoints
  <1>2. CASE j \notin Endpoints
    <2>1. entries' = entries
      BY <1>2 DEF DnsInv, DnsTypeOK, Endpoints
    <2>2. QED
      BY <2>1, NothingMoves, SameVersions DEF Endpoints
  <1>3. QED
    BY <1>1, <1>2

LEMMA DnsStep == DnsInv /\ [DnsNext]_dnsVars => DnsInv' /\ NothingOlder
  <1> SUFFICES ASSUME DnsInv, [DnsNext]_dnsVars PROVE DnsInv' /\ NothingOlder
    OBVIOUS
  <1>1. entries' = entries => NothingOlder
    BY SameVersions DEF Endpoints
  <1>2. ASSUME NEW cfg \in DnsConfigs, AllocateEndpoint(cfg) PROVE DnsInv' /\ NothingOlder
    <2>1. DnsInv'
      BY <1>2, AllocateInv
    <2>2. entries' = entries \/ \E e : entries' = Append(entries, e)
      BY <1>2, Zenon DEF AllocateEndpoint
    <2>3. ASSUME NEW e, entries' = Append(entries, e) PROVE NothingOlder
      <3>1. DOMAIN entries = 1..Len(entries) /\ Len(entries) \in Nat
        BY DEF DnsInv, DnsTypeOK
      <3>2. \A i \in DOMAIN entries : i \in DOMAIN entries' /\ entries'[i] = entries[i]
        BY <2>3, <3>1
      <3>3. QED
        BY <3>2, SameVersions DEF Endpoints
    <2>4. QED
      BY <1>1, <2>1, <2>2, <2>3
  <1>3. CASE Run
    BY <1>1, <1>3, NothingMoves DEF Run
  <1>4. ASSUME NEW i \in Endpoints, HandleDnsRefresh(i) PROVE DnsInv' /\ NothingOlder
    <2>1. DnsInv'
      BY <1>4, RefreshInv
    <2>2. entries[i] \in Entry
      BY EntryType DEF DnsInv
    <2>3. \/ entries' = entries
          \/ entries' = [entries EXCEPT ![i] = Reschedule(@, RetrySchedule(i))]
          \/ entries' = [entries EXCEPT ![i].next = clock + MaxRefresh, ![i].marked = TRUE]
      BY <1>4, Zenon DEF HandleDnsRefresh, Spawn
    <2>4. CASE entries' = [entries EXCEPT ![i] = Reschedule(@, RetrySchedule(i))]
      <3>1. Reschedule(entries[i], RetrySchedule(i)).version = entries[i].version
        BY <2>2 DEF Reschedule, Entry
      <3>2. \A j \in Endpoints : j \in DOMAIN entries' /\ entries'[j].version = entries[j].version
        BY <2>4, <3>1 DEF Endpoints
      <3>3. QED
        BY <2>1, <3>2, SameVersions
    <2>5. CASE entries' = [entries EXCEPT ![i].next = clock + MaxRefresh, ![i].marked = TRUE]
      <3>1. DOMAIN entries' = DOMAIN entries /\ \A j \in DOMAIN entries : j # i => entries'[j] = entries[j]
        BY <2>5
      <3>2. entries'[i] = [[entries[i] EXCEPT !.next = clock + MaxRefresh] EXCEPT !.marked = TRUE]
        BY <2>5 DEF Endpoints
      <3>3. entries'[i].version = entries[i].version
        BY <2>2, <3>2 DEF Entry
      <3>4. \A j \in Endpoints : j \in DOMAIN entries' /\ entries'[j].version = entries[j].version
        BY <3>1, <3>3 DEF Endpoints
      <3>5. QED
        BY <2>1, <3>4, SameVersions
    <2>6. QED
      BY <1>1, <2>1, <2>3, <2>4, <2>5
  <1>5. ASSUME NEW t \in threads, Resolve(t) PROVE DnsInv' /\ NothingOlder
    <2>1. entries' = entries
      BY <1>5 DEF Resolve
    <2>2. QED
      BY <1>1, <1>5, <2>1, ResolveInv
  <1>6. ASSUME NEW t \in threads, PushResult(t) PROVE DnsInv' /\ NothingOlder
    <2>1. DnsInv'
      BY <1>6, PushInv
    <2>2. entries' = entries \/ entries' = Unsignalled(t)
      BY <1>6 DEF PushResult
    <2>3. CASE entries' = Unsignalled(t)
      <3>1. t.on \in Endpoints /\ entries[t.on] \in Entry
        BY EntryType DEF DnsInv, DnsTypeOK
      <3>2. Reschedule(entries[t.on], t.retry).version = entries[t.on].version
        BY <3>1 DEF Reschedule, Entry
      <3>3. \A j \in Endpoints : j \in DOMAIN entries' /\ entries'[j].version = entries[j].version
        BY <2>3, <3>2 DEF Endpoints, Unsignalled
      <3>4. QED
        BY <2>1, <3>3, SameVersions
    <2>4. QED
      BY <1>1, <2>1, <2>2, <2>3
  <1>7. ASSUME NEW t \in threads, ThreadExits(t) PROVE DnsInv' /\ NothingOlder
    <2>1. entries' = entries
      BY <1>7 DEF ThreadExits
    <2>2. QED
      BY <1>1, <1>7, <2>1, ExitInv
  <1>8. CASE ReadEvent
    BY <1>1, <1>8, ReadInv DEF ReadEvent
  <1>9. CASE SwapAndApply
    <2>1. DnsInv' /\ Endpoints' = Endpoints
          /\ (~signalLost => \A i \in Endpoints : entries[i].version <= entries'[i].version)
      BY <1>9, SwapInv
    <2>2. QED
      BY <2>1 DEF NothingOlder
  <1>10. ASSUME NEW s \in Walkers, ConnectEnds(s) PROVE DnsInv' /\ NothingOlder
    BY <1>1, <1>10, NothingMoves DEF ConnectEnds
  <1>11. ASSUME NEW s \in Walkers, AddressRefused(s) PROVE DnsInv' /\ NothingOlder
    <2>1. UNCHANGED <<clock, records, permits, threads, queue, eventfd, drain, signalLost>>
      BY <1>11 DEF AddressRefused
    <2>2. \/ entries' = entries
          \/ entries' = [entries EXCEPT ![walk[s].on].cursor = (@ + 1) % CursorRange]
      BY <1>11, Zenon DEF AddressRefused, CreateAndConnect
    <2>3. QED
      BY <1>1, <2>1, <2>2, NothingMoves, WalkStep
  <1>12. ASSUME NEW s \in Walkers, NEW i \in Endpoints, Connect(s, i) PROVE DnsInv' /\ NothingOlder
    <2>1. /\ UNCHANGED <<clock, records, permits, threads, queue, eventfd, drain, signalLost>>
          /\ entries' = [entries EXCEPT ![i].cursor = (@ + 1) % CursorRange]
      BY <1>12 DEF Connect, CreateAndConnect
    <2>2. QED
      BY <2>1, WalkStep
  <1>13. CASE RecordsChange
    BY <1>1, <1>13, ChangeInv DEF RecordsChange
  <1>14. CASE SecondPasses
    BY <1>1, <1>14, TickInv DEF SecondPasses
  <1>15. CASE UNCHANGED dnsVars
    BY <1>1, <1>15, NothingMoves DEF dnsVars
  <1>16. QED
    BY <1>2, <1>3, <1>4, <1>5, <1>6, <1>7, <1>8, <1>9, <1>10, <1>11, <1>12, <1>13, <1>14, <1>15
    DEF DnsNext

\* However resolver threads start, fail, push and end around the loop: no
\* endpoint waits for a result that no wake-up brings, the semaphore and the
\* threads add up to MAX_DNS_THREADS, and no two pools share a timer id.
THEOREM DnsHolds == DnsSpec => []DnsSound
  <1>1. DnsInit => DnsInv
    BY InitInv
  <1>2. DnsInv /\ [DnsNext]_dnsVars => DnsInv'
    BY DnsStep
  <1>3. DnsInv => DnsSound
    BY DnsSoundFromInv
  <1>4. QED
    BY <1>1, <1>2, <1>3, PTL DEF DnsSpec

\* As long as every write to the eventfd succeeds, an endpoint's addresses are
\* never replaced by those of an older answer.
THEOREM AddressesMoveOn == DnsSpec => AddressesNeverGoBack
  <1>1. DnsInit => DnsInv
    BY InitInv
  <1>2. DnsInv /\ [DnsNext]_dnsVars => DnsInv'
    BY DnsStep
  <1>3. DnsInv /\ [DnsNext]_dnsVars
        => [~signalLost => \A i \in Endpoints : entries'[i].version >= entries[i].version]_dnsVars
    <2> SUFFICES ASSUME DnsInv, [DnsNext]_dnsVars, ~signalLost, NEW i \in Endpoints
                 PROVE  entries'[i].version >= entries[i].version
      OBVIOUS
    <2>1. NothingOlder /\ DnsInv'
      BY DnsStep
    <2>2. entries[i].version \in Nat
      BY EntryType DEF DnsInv, Entry
    <2>3. entries[i].version <= entries'[i].version /\ i \in Endpoints'
      BY <2>1 DEF NothingOlder
    <2>4. entries'[i].version \in Nat
      <3>1. entries' \in Seq(Entry) /\ i \in DOMAIN entries'
        BY <2>1, <2>3 DEF DnsInv, DnsTypeOK, Endpoints
      <3>2. entries'[i] \in Entry
        BY <3>1, ElementOfSeq
      <3>3. QED
        BY <3>2 DEF Entry
    <2>5. QED
      BY <2>2, <2>3, <2>4
  <1>4. QED
    BY <1>1, <1>2, <1>3, PTL DEF DnsSpec, AddressesNeverGoBack
===============================================================================
