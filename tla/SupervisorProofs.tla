--------------------------- MODULE SupervisorProofs ---------------------------
(***************************************************************************)
(* For any number of workers and process ids, any timing and any failures: *)
(* the master knows exactly its children, and the group it signals has     *)
(* every one of them in it.                                                *)
(***************************************************************************)
EXTENDS Supervisor, TLAPS

ProcType ==
    [st : {"none", "forked", "joined", "init", "serving", "looping", "stopping", "zombie"},
     grp : PidOrNone, copy : PidOrNone]

Forking == pc \in {"startup2", "revive2"}

\* The master is running and has not begun to wait for the workers to exit.
Tending == pc \notin {"wait", "kill", "cleanup", "exited", "killed", "aborted"}

Types ==
    /\ pc \in {"startup", "startup2", "loop", "presleep", "sleep", "awake", "reap", "revive",
               "revive2", "collect", "wait", "kill", "cleanup", "exited", "killed", "aborted"}
    /\ idx \in Nat \ {0}
    /\ Forking => idx \in Slots /\ child \in Pids /\ pids[idx] = NoPid
    /\ pc = "startup" => \A i \in Slots : i >= idx => pids[i] = NoPid
    /\ pc = "startup2" => \A i \in Slots : i >= idx => pids[i] = NoPid
    /\ pgid \in PidOrNone
    /\ pids \in [Slots -> PidOrNone]
    /\ pending \subseteq Pids
    /\ proc \in [Pids -> ProcType]

\* While a group is named, a worker in the table is a member of it, unless the
\* master is just reaping the last ones.
GroupHeld ==
    Tending /\ pgid # NoPid =>
        \/ pc = "reap" /\ reaped
        \/ \E i \in Slots : pids[i] # NoPid

\* The group a child that has not joined yet is going to join.
CopiesAgree ==
    /\ Tending => \A i \in Slots : pids[i] # NoPid /\ proc[pids[i]].st = "forked" =>
          \/ proc[pids[i]].copy = pgid
          \/ proc[pids[i]].copy = NoPid /\ pgid = pids[i]
    /\ Forking => proc[child].copy = pgid

\* Nobody is left when the master has done waiting and killing.
NobodyLeft == pc \in {"cleanup", "exited"} => pending = {}

Inv ==
    /\ Types
    /\ TableIsExact
    /\ EveryWorkerReachable
    /\ GroupHeld
    /\ CopiesAgree
    /\ NobodyLeft

\* The variables Inv is about, apart from where the master is.
core == <<child, pgid, pids, pending, proc>>

USE DEF Slots, NoProc, PidOrNone, Gone

LEMMA InitInv == Init => Inv
  BY TimeAssumption, PidAssumption
  DEF Init, Inv, Types, ProcType, Forking, Tending, TableIsExact, Children, Table, Known,
      EveryWorkerReachable, GroupHeld, CopiesAgree, NobodyLeft

\* A step of the master that only moves on, between two places where it still
\* tends its workers.
LEMMA MovesOn ==
    ASSUME Inv, UNCHANGED core, idx' \in Nat \ {0}, Tending, Tending', ~Forking, ~Forking',
           pc' \in {"loop", "presleep", "sleep", "awake", "reap", "revive", "collect"},
           GroupHeld'
    PROVE  Inv'
  BY DEF core, Inv, Types, ProcType, Forking, Tending, TableIsExact, Children, Table, Known,
      EveryWorkerReachable, CopiesAgree, NobodyLeft

\* What a step may do to the processes without the invariant noticing.
SameFamily(t, u) ==
    \A p \in Pids : /\ (t[p].st = "none") <=> (u[p].st = "none")
                    /\ u[p].st = "forked" => t[p].st = "forked"
                    /\ u[p].grp = t[p].grp
                    /\ u[p].copy = t[p].copy

\* Workers that live on, exit or crash leave the invariant alone, and so does a
\* signal that wakes the master.
LEMMA ProcessesMoveOn ==
    ASSUME Inv, proc' \in [Pids -> ProcType], SameFamily(proc, proc'),
           UNCHANGED <<idx, child, reaped, pgid, pids, pending>>, pc' \in {pc, Woken(pc)}
    PROVE  Inv'
  <1> USE DEF Inv, Types, ProcType, Forking, Tending, Woken, SameFamily
  <1>1. Types'
    BY Zenon
  <1>2. TableIsExact'
    BY DEF TableIsExact, Children, Table, Known
  <1>3. EveryWorkerReachable'
    BY DEF EveryWorkerReachable
  <1>4. GroupHeld' /\ CopiesAgree' /\ NobodyLeft'
    BY DEF GroupHeld, CopiesAgree, NobodyLeft
  <1>5. QED
    BY <1>1, <1>2, <1>3, <1>4

\* fork() gives the master a child it did not have.
LEMMA ForkInv ==
    ASSUME Inv, Fork, Tending, ~Forking, Forking', idx' = idx, idx \in Slots, pids[idx] = NoPid,
           pc = "startup" <=> pc' = "startup2", pc # "reap",
           UNCHANGED <<pgid, pids, pending>>
    PROVE  Inv'
  <1> USE DEF Inv, Types, ProcType, Forking, Tending
  <1>1. PICK p \in Pids : /\ FreePid(p)
                          /\ child' = p
                          /\ proc' = [proc EXCEPT ![p] = [st |-> "forked", grp |-> NoPid,
                                                         copy |-> pgid]]
    BY DEF Fork
  <1>2. p \notin Table /\ proc[p].st = "none"
    BY <1>1 DEF FreePid, TableIsExact, Children, Known
  <1>3. Types'
    BY <1>1
  <1>4. TableIsExact'
    BY <1>1, <1>2 DEF TableIsExact, Children, Table, Known
  <1>5. EveryWorkerReachable'
    BY <1>1, <1>2 DEF EveryWorkerReachable, Table
  <1>6. GroupHeld' /\ NobodyLeft'
    BY <1>1 DEF GroupHeld, NobodyLeft
  <1>7. CopiesAgree'
    BY <1>1, <1>2 DEF CopiesAgree, Table
  <1>8. QED
    BY <1>3, <1>4, <1>5, <1>6, <1>7

\* The child is entered into the group and the table.  If a group is named, a
\* worker is in it, so the child can join it.
LEMMA AdoptInv ==
    ASSUME Inv, Adopt, Forking, pc' = IF pc = "startup2" THEN "startup" ELSE "revive",
           UNCHANGED <<child, pending>>
    PROVE  Inv'
  <1> USE DEF Inv, Types, ProcType, Forking, Tending
  <1>1. /\ child \in Pids /\ idx \in Slots /\ pids[idx] = NoPid /\ child # NoPid
        /\ pids' = [pids EXCEPT ![idx] = child]
        /\ pgid' = IF pgid = NoPid THEN child ELSE pgid
        /\ proc' = SetPgid(proc, child, pgid')
        /\ pgid' # NoPid /\ pgid' \in Pids
    BY PidAssumption DEF Adopt
  <1>2. pgid # NoPid => \E i \in Slots : pids[i] # NoPid /\ proc[pids[i]].grp = pgid
    BY DEF GroupHeld, EveryWorkerReachable
  <1>3. pgid' = child \/ \E q \in Pids : proc[q].grp = pgid'
    BY <1>1, <1>2
  <1>4. proc' = [proc EXCEPT ![child].grp = pgid']
    BY <1>1, <1>3 DEF SetPgid
  <1>5. child \notin Table /\ \A i \in Slots : pids[i] # child
    BY <1>1 DEF TableIsExact, Table
  <1>6. Types'
    <2>1. idx' = idx + 1 /\ idx' \in Nat \ {0}
      BY <1>1, TimeAssumption DEF Adopt
    <2>2. proc' \in [Pids -> ProcType]
      BY <1>1, <1>4
    <2>3. pc = "startup2" => \A i \in Slots : i >= idx' => pids'[i] = NoPid
      <3>1. SUFFICES ASSUME pc = "startup2", NEW i \in Slots, i >= idx'
                     PROVE  pids'[i] = NoPid
        OBVIOUS
      <3>2. i # idx /\ i >= idx
        BY <1>1, <2>1, <3>1, TimeAssumption
      <3>3. QED
        BY <1>1, <3>1, <3>2
    <2>4. ~Forking' /\ pc' \in {"startup", "revive"} /\ (pc' = "startup" => pc = "startup2")
      OBVIOUS
    <2>5. pids' \in [Slots -> PidOrNone] /\ pgid' \in PidOrNone /\ pending' \subseteq Pids
      BY <1>1
    <2>6. QED
      BY <2>1, <2>2, <2>3, <2>4, <2>5 DEF Types
  <1>7. TableIsExact'
    <2>1. Children' = Children
      BY <1>4 DEF Children
    <2>2. Table' = Table \cup {child}
      BY <1>1 DEF Table
    <2>3. Children = Table \cup {child}
      BY DEF TableIsExact, Known
    <2>4. QED
      BY <1>1, <1>5, <2>1, <2>2, <2>3 DEF TableIsExact, Known
  <1>8. EveryWorkerReachable'
    BY <1>1, <1>4, <1>5 DEF EveryWorkerReachable, GroupHeld
  <1>9. GroupHeld' /\ NobodyLeft'
    BY <1>1 DEF GroupHeld, NobodyLeft
  <1>10. CopiesAgree'
    <2>1. ~Forking' /\ \A p \in Pids : proc'[p].st = proc[p].st /\ proc'[p].copy = proc[p].copy
      BY <1>1, <1>4
    <2>2. SUFFICES ASSUME NEW i \in Slots, pids'[i] # NoPid, proc'[pids'[i]].st = "forked"
                   PROVE  \/ proc'[pids'[i]].copy = pgid'
                          \/ proc'[pids'[i]].copy = NoPid /\ pgid' = pids'[i]
      BY <2>1 DEF CopiesAgree
    <2>3. CASE i = idx
      BY <1>1, <2>1, <2>3 DEF CopiesAgree
    <2>4. CASE i # idx
      <3>1. pids'[i] = pids[i] /\ pids[i] # NoPid /\ pids[i] \in Pids
        BY <1>1, <2>2, <2>4
      <3>2. pgid # NoPid /\ pgid' = pgid
        BY <1>1, <3>1 DEF EveryWorkerReachable
      <3>3. QED
        BY <2>1, <2>2, <3>1, <3>2 DEF CopiesAgree
    <2>5. QED
      BY <2>3, <2>4
  <1>11. QED
    BY <1>6, <1>7, <1>8, <1>9, <1>10

\* A reaped child leaves the process table and the worker table together.
LEMMA ReapInv == Inv /\ Reap => Inv'
  <1> SUFFICES ASSUME Inv, Reap PROVE Inv'
    OBVIOUS
  <1> USE DEF Inv, Types, ProcType, Forking, Tending
  <1>1. PICK i \in Slots : /\ pids[i] # NoPid
                           /\ proc[pids[i]].st = "zombie"
                           /\ proc' = [proc EXCEPT ![pids[i]] = NoProc]
                           /\ pids' = [pids EXCEPT ![i] = NoPid]
    BY DEF Reap
  <1>2. /\ pc = "reap" /\ pc' = pc /\ reaped' = TRUE /\ idx' = idx
        /\ pgid' = pgid /\ pending' = pending /\ child' = child
    BY DEF Reap
  <1>3. pids[i] \in Pids /\ \A j \in Slots : j # i => pids[j] # pids[i]
    BY <1>1 DEF TableIsExact
  <1>4. Types'
    BY <1>1, <1>2, <1>3
  <1>5. TableIsExact'
    <2>1. Children' = Children \ {pids[i]}
      BY <1>1, <1>3 DEF Children
    <2>2. Table' = Table \ {pids[i]}
      BY <1>1, <1>3 DEF Table
    <2>3. QED
      BY <1>1, <1>2, <1>3, <2>1, <2>2 DEF TableIsExact, Known
  <1>6. EveryWorkerReachable'
    BY <1>1, <1>2, <1>3 DEF EveryWorkerReachable
  <1>7. GroupHeld' /\ NobodyLeft'
    BY <1>1, <1>2 DEF GroupHeld, NobodyLeft
  <1>8. CopiesAgree'
    BY <1>1, <1>2, <1>3 DEF CopiesAgree
  <1>9. QED
    BY <1>4, <1>5, <1>6, <1>7, <1>8

\* With the last worker reaped the group's name is dropped.
LEMMA ReapDoneInv == Inv /\ ReapDone => Inv'
  <1> SUFFICES ASSUME Inv, ReapDone PROVE Inv'
    OBVIOUS
  <1> USE DEF Inv, Types, ProcType, Forking, Tending, ReapDone
  <1>1. Types'
    BY TimeAssumption
  <1>2. TableIsExact'
    BY DEF TableIsExact, Children, Table, Known
  <1>3. EveryWorkerReachable' /\ NobodyLeft'
    BY DEF EveryWorkerReachable, NobodyLeft
  <1>4. GroupHeld'
    BY DEF GroupHeld
  <1>5. CopiesAgree'
    BY DEF CopiesAgree
  <1>6. QED
    BY <1>1, <1>2, <1>3, <1>4, <1>5

\* The shutdown phase takes the table over and empties it.
LEMMA ShutdownInv ==
    Inv /\ (Collect \/ WaitReaps \/ WaitEnds \/ KillStragglers \/ KillDone \/ Exit) => Inv'
  <1> SUFFICES ASSUME Inv, Collect \/ WaitReaps \/ WaitEnds \/ KillStragglers \/ KillDone \/ Exit
               PROVE  Inv'
    OBVIOUS
  <1> USE DEF Inv, Types, ProcType, Forking, Tending
  <1>1. CASE Collect
    BY <1>1 DEF Collect, TableIsExact, Children, Table, Known, EveryWorkerReachable, GroupHeld,
                CopiesAgree, NobodyLeft
  <1>2. CASE WaitReaps \/ KillStragglers
    <2>1. PICK p \in pending : /\ proc' = [proc EXCEPT ![p] = NoProc]
                               /\ pending' = pending \ {p}
      BY <1>2 DEF WaitReaps, KillStragglers
    <2>2. pc \in {"wait", "kill"} /\ pc' = pc /\ UNCHANGED <<idx, child, pgid, pids>>
      BY <1>2 DEF WaitReaps, KillStragglers
    <2>3. Types'
      BY <2>1, <2>2
    <2>4. Children' = Children \ {p}
      BY <2>1 DEF Children
    <2>5. TableIsExact'
      BY <2>1, <2>2, <2>4 DEF TableIsExact, Known
    <2>6. QED
      BY <2>2, <2>3, <2>5 DEF EveryWorkerReachable, GroupHeld, CopiesAgree, NobodyLeft
  <1>3. CASE WaitEnds \/ KillDone \/ Exit
    <2>1. /\ pc \in {"wait", "kill", "cleanup"} /\ pc' \in {"kill", "cleanup", "exited"}
          /\ UNCHANGED <<idx, child, pgid, pids, pending, proc>>
      BY <1>3 DEF WaitEnds, KillDone, Exit
    <2>2. Types'
      BY <2>1
    <2>3. TableIsExact'
      BY <2>1 DEF TableIsExact, Children, Known, Table
    <2>4. EveryWorkerReachable' /\ GroupHeld' /\ CopiesAgree'
      BY <2>1 DEF EveryWorkerReachable, GroupHeld, CopiesAgree
    <2>5. NobodyLeft'
      BY <1>3 DEF WaitEnds, KillDone, Exit, NobodyLeft
    <2>6. QED
      BY <2>2, <2>3, <2>4, <2>5
  <1>4. QED
    BY <1>1, <1>2, <1>3

\* A child that joins the group by itself ends up where the master put it.
LEMMA WorkerJoinsInv ==
    ASSUME Inv, NEW p \in Pids, WorkerJoins(p) PROVE Inv'
  <1> USE DEF Inv, Types, ProcType, Forking, Tending
  <1> DEFINE to == IF proc[p].copy = NoPid THEN p ELSE proc[p].copy
  <1>1. /\ proc[p].st = "forked"
        /\ proc' = [SetPgid(proc, p, proc[p].copy) EXCEPT ![p].st = "joined"]
        /\ UNCHANGED <<pc, idx, child, reaped, pgid, pids, pending>>
    BY DEF WorkerJoins, master
  <1>2. PICK g \in PidOrNone :
           /\ g \in {proc[p].grp, to}
           /\ proc' = [proc EXCEPT ![p] = [st |-> "joined", grp |-> g, copy |-> proc[p].copy]]
    <2>1. CASE to = p \/ \E q \in Pids : proc[q].grp = to
      <3>1. SetPgid(proc, p, proc[p].copy) = [proc EXCEPT ![p].grp = to]
        BY <2>1 DEF SetPgid
      <3>2. proc' = [proc EXCEPT ![p] = [st |-> "joined", grp |-> to, copy |-> proc[p].copy]]
        BY <1>1, <3>1
      <3>3. QED
        BY <3>2
    <2>2. CASE ~(to = p \/ \E q \in Pids : proc[q].grp = to)
      <3>1. SetPgid(proc, p, proc[p].copy) = proc
        BY <2>2 DEF SetPgid
      <3>2. proc' = [proc EXCEPT ![p].st = "joined"]
        BY <1>1, <3>1
      <3>3. proc[p] \in ProcType
        OBVIOUS
      <3>4. [proc[p] EXCEPT !.st = "joined"]
              = [st |-> "joined", grp |-> proc[p].grp, copy |-> proc[p].copy]
        BY <3>3
      <3>5. proc' = [proc EXCEPT ![p] = [st |-> "joined", grp |-> proc[p].grp,
                                         copy |-> proc[p].copy]]
        BY <3>2, <3>4
      <3>6. QED
        BY <3>5
    <2>3. QED
      BY <2>1, <2>2
  <1>3. ASSUME Tending, NEW i \in Slots, pids[i] = p PROVE g = pgid
    <2>1. pids[i] # NoPid
      BY <1>3, PidAssumption
    <2>2. pgid # NoPid /\ proc[p].grp = pgid
      BY <1>3, <2>1 DEF EveryWorkerReachable
    <2>3. to = pgid
      BY <1>1, <1>3, <2>1, <2>2 DEF CopiesAgree
    <2>4. QED
      BY <1>2, <2>2, <2>3
  <1>4. Types'
    <2>1. [st |-> "joined", grp |-> g, copy |-> proc[p].copy] \in ProcType
      BY <1>2
    <2>2. proc' \in [Pids -> ProcType]
      BY <1>2, <2>1 DEF Types
    <2>3. QED
      BY <1>1, <2>2, Zenon DEF Types
  <1>5. TableIsExact'
    <2>1. Children' = Children
      BY <1>1, <1>2 DEF Children
    <2>2. QED
      BY <1>1, <2>1 DEF TableIsExact, Known, Table
  <1>6. EveryWorkerReachable'
    BY <1>1, <1>2, <1>3 DEF EveryWorkerReachable
  <1>7. GroupHeld' /\ NobodyLeft'
    BY <1>1 DEF GroupHeld, NobodyLeft
  <1>8. CopiesAgree'
    BY <1>1, <1>2 DEF CopiesAgree
  <1>9. QED
    BY <1>4, <1>5, <1>6, <1>7, <1>8

\* A master that is killed, or gives up at startup, owes nobody anything.
LEMMA GoneInv ==
    ASSUME Inv, UNCHANGED core, idx' = idx, pc' \in {"killed", "aborted"} PROVE Inv'
  BY DEF core, Inv, Types, ProcType, Forking, Tending, TableIsExact, Table,
      EveryWorkerReachable, GroupHeld, CopiesAgree, NobodyLeft

\* A broadcast changes nothing but what workers are doing.
LEMMA BroadcastFamily ==
    ASSUME Types, NEW g
    PROVE  Broadcast(proc, g) \in [Pids -> ProcType] /\ SameFamily(proc, Broadcast(proc, g))
  BY DEF Types, Broadcast, SameFamily, ProcType

LEMMA NextInv == Inv /\ [Next]_vars => Inv'
  <1> SUFFICES ASSUME Inv, [Next]_vars PROVE Inv'
    OBVIOUS
  <1>1. CASE StartFork \/ ReviveForks
    <2>1. idx \in Slots /\ pids[idx] = NoPid
      BY <1>1, TimeAssumption DEF StartFork, ReviveForks, Due, Inv, Types
    <2>2. QED
      BY <1>1, <2>1, ForkInv DEF StartFork, ReviveForks, Tending, Forking
  <1>2. CASE StartAdopt \/ ReviveAdopts
    BY <1>2, AdoptInv DEF StartAdopt, ReviveAdopts, Forking
  <1>3. CASE StartFails
    BY <1>3, GoneInv DEF StartFails, core
  <1>4. CASE StartDone \/ LoopTest \/ Sleep \/ Awake \/ ReviveSkips \/ ReviveFails
             \/ PollWorkerMetrics
    <2>1. /\ UNCHANGED core /\ idx' \in Nat \ {0}
          /\ Tending /\ Tending' /\ ~Forking /\ ~Forking' /\ pc # "reap"
          /\ pc' \in {"loop", "presleep", "sleep", "awake", "reap", "revive", "collect"}
      BY <1>4 DEF StartDone, LoopTest, Sleep, Awake, ReviveSkips, ReviveFails,
                  PollWorkerMetrics, core, Tending, Forking, Inv, Types
    <2>2. GroupHeld'
      BY <2>1 DEF GroupHeld, Inv, core
    <2>3. QED
      BY <2>1, <2>2, MovesOn
  <1>5. CASE Reap
    BY <1>5, ReapInv
  <1>6. CASE ReapDone
    BY <1>6, ReapDoneInv
  <1>7. CASE Collect \/ WaitReaps \/ WaitEnds \/ KillStragglers \/ KillDone \/ Exit
    BY <1>7, ShutdownInv
  <1>8. ASSUME NEW p \in Pids, WorkerJoins(p) PROVE Inv'
    BY <1>8, WorkerJoinsInv
  <1>9. ASSUME NEW p \in Pids, WorkerInstalls(p) \/ WorkerServes(p) \/ WorkerExits(p)
                              \/ WorkerCrashes(p)
        PROVE  Inv'
    <2>1. PICK s \in {"init", "serving", "zombie"} : proc' = [proc EXCEPT ![p].st = s]
      BY <1>9 DEF WorkerInstalls, WorkerServes, WorkerExits, WorkerCrashes, Dies
    <2>2. proc[p].st # "none" /\ UNCHANGED <<idx, child, reaped, pgid, pids, pending>>
      BY <1>9 DEF WorkerInstalls, WorkerServes, WorkerExits, WorkerCrashes, Dies, Alive, master
    <2>3. proc' \in [Pids -> ProcType] /\ SameFamily(proc, proc')
      BY <2>1, <2>2 DEF SameFamily, Inv, Types, ProcType
    <2>4. CASE WorkerInstalls(p) \/ WorkerServes(p)
      BY <2>2, <2>3, <2>4, ProcessesMoveOn DEF WorkerInstalls, WorkerServes, master
    <2>5. CASE WorkerExits(p) \/ WorkerCrashes(p)
      BY <2>2, <2>3, <2>5, ProcessesMoveOn DEF WorkerExits, WorkerCrashes, Dies
    <2>6. QED
      BY <1>9, <2>4, <2>5
  <1>10. CASE Interrupt \/ Stop
    <2>1. HandleMasterSignal
      BY <1>10 DEF Interrupt, Stop
    <2>2. QED
      BY <2>1, BroadcastFamily, ProcessesMoveOn DEF HandleMasterSignal, Inv
  <1>11. CASE Tick \/ UNCHANGED vars \/ (StopReturns /\ Gone)
    <2>1. UNCHANGED <<pc, idx, child, reaped, pgid, pids, pending, proc>>
      BY <1>11 DEF Tick, vars, master, StopReturns
    <2>2. proc' \in [Pids -> ProcType] /\ SameFamily(proc, proc')
      BY <2>1 DEF SameFamily, Inv, Types
    <2>3. QED
      BY <2>1, <2>2, ProcessesMoveOn
  <1>12. CASE StopReturns /\ ~Gone
    BY <1>12, GoneInv DEF StopReturns, core
  <1>13. ASSUME NEW p \in Pids, WorkerLoops(p) PROVE Inv'
    BY <1>13, BroadcastFamily, ProcessesMoveOn DEF WorkerLoops, master, Inv
  <1>14. QED
    BY <1>1, <1>2, <1>3, <1>4, <1>5, <1>6, <1>7, <1>8, <1>9, <1>10, <1>11, <1>12, <1>13
    DEF Next, MasterStep

-------------------------------------------------------------------------------
\* Whatever dies, fails to fork or is signalled when, SIGTERM to the group the
\* master remembers (HandleMasterSignal) reaches every worker of its table, and
\* a revived worker always finds a group to join (SpawnWorker).
THEOREM ReachesEveryWorker == Spec => []EveryWorkerReachable
  <1>1. Inv => EveryWorkerReachable
    BY DEF Inv
  <1>2. QED
    BY <1>1, InitInv, NextInv, PTL DEF Spec

\* The worker table (during shutdown the list of workers to wait for) names each
\* unreaped child exactly once: ReapDeadWorkers, RevivePendingWorkers and the
\* shutdown phase neither forget a child nor fork a second one for its slot.
THEOREM NobodyForgotten == Spec => []TableIsExact
  <1>1. Inv => TableIsExact
    BY DEF Inv
  <1>2. QED
    BY <1>1, InitInv, NextInv, PTL DEF Spec

\* A master that ends by itself leaves no worker behind, whenever the signal
\* came and whether or not the workers obeyed it.
THEOREM CleanExit == Spec => [](pc = "exited" => \A p \in Pids : ~Alive(p))
  <1>1. Inv => (pc = "exited" => \A p \in Pids : ~Alive(p))
    BY DEF Inv, TableIsExact, Children, Known, NobodyLeft, Alive
  <1>2. QED
    BY <1>1, InitInv, NextInv, PTL DEF Spec

-------------------------------------------------------------------------------
(* Time.  'wfx control stop' gives the master worker_shutdown_timeout plus *)
(* a grace period before it kills it; the master, asked to stop, may still *)
(* sleep once before it sees the request, and then waits for the workers.  *)

\* The seconds a master that was asked to stop may still need.
Needs ==
    IF pc = "presleep" THEN PollInterval + ShutdownTimeout
    ELSE IF pc = "sleep" THEN timeLeft + ShutdownTimeout
    ELSE IF pc = "wait" THEN timeLeft
    ELSE IF pc \in {"kill", "cleanup"} THEN 0
    ELSE ShutdownTimeout

Patience ==
    /\ timeLeft \in Nat /\ ctlLeft \in Nat
    /\ pc = "sleep" => timeLeft <= PollInterval
    /\ pc = "wait" => timeLeft <= ShutdownTimeout
    /\ pc # "killed"
    /\ ctl = "waiting" => shouldStop
    /\ ctl = "waiting" /\ ~Gone => ctlLeft > Needs

\* A step that delivers the stop command's SIGTERM does not fall between the test
\* of shouldStop and nanosleep, or the grace covers the sleep that follows.
StopClearOfSleep == Stop => pc # "presleep" \/ PollInterval < Grace

LEMMA PatienceInit == Init => Patience
  BY TimeAssumption DEF Init, Patience

LEMMA PatienceNext ==
    ASSUME 0 < Grace, [StopClearOfSleep]_vars, Types, Patience, [Next]_vars
    PROVE  Patience'
  <1> USE TimeAssumption DEF Patience, Needs
  <1>1. CASE StartFork \/ StartAdopt \/ StartFails \/ StartDone
    BY <1>1 DEF StartFork, StartAdopt, StartFails, StartDone
  <1>2. CASE LoopTest
    BY <1>2 DEF LoopTest
  <1>3. CASE Sleep
    BY <1>3 DEF Sleep
  <1>4. CASE Awake
    BY <1>4 DEF Awake
  <1>5. CASE Reap \/ ReapDone
    BY <1>5 DEF Reap, ReapDone
  <1>6. CASE ReviveSkips \/ ReviveForks \/ ReviveAdopts \/ ReviveFails \/ PollWorkerMetrics
    BY <1>6 DEF ReviveSkips, ReviveForks, ReviveAdopts, ReviveFails, PollWorkerMetrics
  <1>7. CASE Collect
    BY <1>7 DEF Collect
  <1>8. CASE WaitReaps \/ WaitEnds \/ KillStragglers \/ KillDone \/ Exit
    BY <1>8 DEF WaitReaps, WaitEnds, KillStragglers, KillDone, Exit
  <1>9. ASSUME NEW p \in Pids,
               WorkerJoins(p) \/ WorkerLoops(p) \/ WorkerInstalls(p) \/ WorkerServes(p)
        PROVE  Patience'
    BY <1>9 DEF WorkerJoins, WorkerLoops, WorkerInstalls, WorkerServes, master
  <1>10. ASSUME NEW p \in Pids, WorkerExits(p) \/ WorkerCrashes(p)
         PROVE  Patience'
    BY <1>10 DEF WorkerExits, WorkerCrashes, Dies, Woken
  <1>11. CASE Interrupt
    BY <1>11 DEF Interrupt, HandleMasterSignal, Woken
  <1>12. CASE Stop
    <2>1. pc # "presleep" \/ PollInterval < Grace
      BY <1>12 DEF StopClearOfSleep, Stop, vars
    <2>2. QED
      BY <1>12, <2>1 DEF Stop, HandleMasterSignal, Woken
  <1>13. CASE StopReturns
    BY <1>13 DEF StopReturns
  <1>14. CASE Tick
    BY <1>14 DEF Tick
  <1>15. CASE UNCHANGED vars
    BY <1>15 DEF vars, master
  <1>16. QED
    BY <1>1, <1>2, <1>3, <1>4, <1>5, <1>6, <1>7, <1>8, <1>9, <1>10, <1>11, <1>12, <1>13, <1>14,
       <1>15 DEF Next, MasterStep

\* The stop command never kills a master that is still looking after its workers,
\* whoever ignores the signals and however long the poll interval is, unless its
\* SIGTERM falls in the one gap the code leaves: shouldStop is tested before
\* nanosleep, not with it, so the master then sleeps a whole interval.  With the
\* shipped values (an interval and a grace of 2 s) that gap is the only way to
\* lose workers; a grace above the interval closes it.
THEOREM NoOrphans ==
    ASSUME 0 < Grace
    PROVE  Spec /\ [][StopClearOfSleep]_vars => []NoWorkerOutlivesMaster
  <1>1. Inv => Types
    BY DEF Inv
  <1>2. Inv /\ Patience /\ [StopClearOfSleep]_vars /\ [Next]_vars => Patience'
    BY <1>1, PatienceNext
  <1>3. Inv /\ Patience => NoWorkerOutlivesMaster
    BY DEF Inv, TableIsExact, Children, Known, NobodyLeft, Alive, Patience,
           NoWorkerOutlivesMaster
  <1>4. QED
    BY <1>2, <1>3, InitInv, NextInv, PatienceInit, PTL DEF Spec

===============================================================================
