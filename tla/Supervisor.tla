------------------------------ MODULE Supervisor ------------------------------
(***************************************************************************)
(* The master process (cli/commands/cmd_run/helper.cpp): it forks the      *)
(* workers into a process group of their own, reaps and revives the ones   *)
(* that die, and on SIGTERM or SIGINT waits for them, with a deadline.     *)
(* Beside it 'wfx control stop' (utils/daemon/daemon_registry.cpp), which  *)
(* kills the master when it takes too long.                                *)
(*                                                                         *)
(* A signal handler may run between any two steps of the master, a worker  *)
(* may die at any moment, and a forked worker takes a while to join the    *)
(* group, to install its handler and to have an engine to stop.            *)
(***************************************************************************)
EXTENDS Integers

CONSTANTS
    N,                \* worker_processes
    Pids,             \* process ids the kernel may hand out
    NoPid,            \* 0 as a group, SLOT_PENDING in the table of workers
    PollInterval,     \* master_poll_interval
    ShutdownTimeout,  \* worker_shutdown_timeout
    Grace,            \* extraGraceSeconds of 'wfx control stop'
    BackoffBase,      \* worker_backoff_base
    BackoffMax,       \* worker_backoff_max
    Width,            \* 32: bits of the backoff computation
    MaxCrashes,       \* bound: workers that die unasked
    MaxForkFails      \* bound: forks that fail

ASSUME PidAssumption == NoPid \notin Pids
ASSUME TimeAssumption ==
    /\ N \in Nat \ {0}
    /\ PollInterval \in Nat \ {0}
    /\ ShutdownTimeout \in Nat
    /\ Grace \in Nat
    /\ BackoffBase \in Nat
    /\ BackoffMax \in Nat
    /\ Width \in Nat \ {0}
    /\ MaxCrashes \in Nat
    /\ MaxForkFails \in Nat

VARIABLES
    pc,          \* where the master is
    idx,         \* the index of its loops over the slots
    child,       \* what its last fork() returned
    reaped,      \* ReapDeadWorkers' flag of that name
    shouldStop,  \* globalState.shouldStop
    pgid,        \* globalState.workerPGID
    pids,        \* globalState.workerPids
    self,        \* SelfMetrics of every slot: backoffAttempts, nextRetryAt - now
    pending,     \* the shutdown phase's workers still to be waited for
    proc,        \* the kernel's process table, as far as the workers go
    timeLeft,    \* seconds until the master's sleep or deadline ends
    ctl,         \* 'wfx control stop'
    ctlLeft,     \* seconds until it loses patience
    crashes,     \* bound counters
    forkFails

master == <<pc, idx, child, reaped, shouldStop, pgid, pids, self, pending>>
vars == <<master, proc, timeLeft, ctl, ctlLeft, crashes, forkFails>>

Slots == 1 .. N
NoProc == [st |-> "none", grp |-> NoPid, copy |-> NoPid]

\* The master has stopped for good: normally, by SIGKILL, or at startup.
Gone == pc \in {"exited", "killed", "aborted"}

-------------------------------------------------------------------------------
(* The kernel. *)

Alive(p) == proc[p].st \notin {"none", "zombie"}

\* An id is free when no process has it and no process group is named by it.
FreePid(p) == proc[p].st = "none" /\ \A q \in Pids : proc[q].grp # p

\* setpgid(p, g): a group of its own, or a group that has members (zombies are
\* members too); anything else fails, and nobody looks at the result.
SetPgid(t, p, g) ==
    LET to == IF g = NoPid THEN p ELSE g
    IN  IF to = p \/ \E q \in Pids : t[q].grp = to
        THEN [t EXCEPT ![p].grp = to] ELSE t

\* SIGTERM to a process group.  Only a worker whose engine runs can act on it.
\* A child that still has the master's handler signals its copy of workerPGID
\* in turn, itself included, and so never gets out of the handler.
Broadcast(t, g) ==
    LET after(q) == IF q.st = "serving" THEN "stopping"
                    ELSE IF q.st \in {"forked", "joined"} /\ q.copy # NoPid THEN "looping"
                    ELSE q.st
    IN  [p \in Pids |-> IF g # NoPid /\ t[p].grp = g
                        THEN [t[p] EXCEPT !.st = after(t[p])] ELSE t[p]]

\* A signal cuts the master's nanosleep short.
Woken(where) == IF where = "sleep" THEN "awake" ELSE where

-------------------------------------------------------------------------------
(* Spawning. *)

\* fork(): the child starts with a copy of workerPGID.
Fork ==
    \E p \in Pids :
        /\ FreePid(p)
        /\ child' = p
        /\ proc' = [proc EXCEPT ![p] = [st |-> "forked", grp |-> NoPid, copy |-> pgid]]

\* What the master does with the new child: group, table.
Adopt ==
    /\ pgid' = IF pgid = NoPid THEN child ELSE pgid
    /\ proc' = SetPgid(proc, child, pgid')
    /\ pids' = [pids EXCEPT ![idx] = child]
    /\ idx' = idx + 1

StartFork ==
    /\ pc = "startup" /\ idx <= N
    /\ Fork
    /\ pc' = "startup2"
    /\ UNCHANGED <<idx, reaped, shouldStop, pgid, pids, self, pending, timeLeft, ctl, ctlLeft,
                   crashes, forkFails>>

StartAdopt ==
    /\ pc = "startup2"
    /\ Adopt
    /\ pc' = "startup"
    /\ UNCHANGED <<child, reaped, shouldStop, self, pending, timeLeft, ctl, ctlLeft, crashes,
                   forkFails>>

\* fork() fails at startup: the master cleans up its own things and returns.
StartFails ==
    /\ pc = "startup" /\ idx <= N
    /\ forkFails < MaxForkFails
    /\ forkFails' = forkFails + 1
    /\ pc' = "aborted"
    /\ UNCHANGED <<idx, child, reaped, shouldStop, pgid, pids, self, pending, proc, timeLeft,
                   ctl, ctlLeft, crashes>>

StartDone ==
    /\ pc = "startup" /\ idx > N
    /\ pc' = "loop"
    /\ UNCHANGED <<idx, child, reaped, shouldStop, pgid, pids, self, pending, proc, timeLeft,
                   ctl, ctlLeft, crashes, forkFails>>

-------------------------------------------------------------------------------
(* The wait loop. *)

\* while(!shouldStop): a signal that comes after this test and before
\* nanosleep does not shorten the sleep.
LoopTest ==
    /\ pc = "loop"
    /\ pc' = IF shouldStop THEN "collect" ELSE "presleep"
    /\ UNCHANGED <<idx, child, reaped, shouldStop, pgid, pids, self, pending, proc, timeLeft,
                   ctl, ctlLeft, crashes, forkFails>>

Sleep ==
    /\ pc = "presleep"
    /\ pc' = "sleep"
    /\ timeLeft' = PollInterval
    /\ UNCHANGED <<idx, child, reaped, shouldStop, pgid, pids, self, pending, proc, ctl, ctlLeft,
                   crashes, forkFails>>

Awake ==
    /\ \/ pc = "awake"
       \/ pc = "sleep" /\ timeLeft = 0
    /\ pc' = IF shouldStop THEN "collect" ELSE "reap"
    /\ reaped' = FALSE
    /\ timeLeft' = 0
    /\ UNCHANGED <<idx, child, shouldStop, pgid, pids, self, pending, proc, ctl, ctlLeft,
                   crashes, forkFails>>

BackoffOffByOneFault(attempts) ==
    LET shifted == (BackoffBase * 2^attempts) % 2^Width
    IN  IF attempts > Width THEN BackoffMax
        ELSE IF shifted < BackoffMax THEN shifted ELSE BackoffMax

\* min(base << attempts, max) in 32-bit arithmetic; max from the 32nd on.
Backoff(attempts) ==
    LET shifted == (BackoffBase * 2^attempts) % 2^Width
    IN  IF attempts >= Width THEN BackoffMax
        ELSE IF shifted < BackoffMax THEN shifted ELSE BackoffMax

ReapKeepsPidFault ==
    /\ pc = "reap"
    /\ \E i \in Slots :
         /\ pids[i] # NoPid
         /\ proc[pids[i]].st = "zombie"
         /\ proc' = [proc EXCEPT ![pids[i]] = NoProc]
         /\ LET wait == Backoff(self[i].attempts)
            IN  self' = [self EXCEPT ![i].retryIn = wait, ![i].waited = wait]
    /\ reaped' = TRUE
    /\ UNCHANGED <<pc, idx, child, shouldStop, pgid, pids, pending, timeLeft, ctl, ctlLeft,
                   crashes, forkFails>>

\* ReapDeadWorkers: waitpid returns a dead child, its slot waits for revival.
Reap ==
    /\ pc = "reap"
    /\ \E i \in Slots :
         /\ pids[i] # NoPid
         /\ proc[pids[i]].st = "zombie"
         /\ proc' = [proc EXCEPT ![pids[i]] = NoProc]
         /\ pids' = [pids EXCEPT ![i] = NoPid]
         /\ LET wait == Backoff(self[i].attempts)
            IN  self' = [self EXCEPT ![i].retryIn = wait, ![i].waited = wait]
    /\ reaped' = TRUE
    /\ UNCHANGED <<pc, idx, child, shouldStop, pgid, pending, timeLeft, ctl, ctlLeft, crashes,
                   forkFails>>

ReapDoneKeepsGroupFault ==
    /\ pc = "reap"
    /\ \A p \in Pids : proc[p].st # "zombie"
    /\ pc' = "revive"
    /\ idx' = 1
    /\ UNCHANGED <<pgid, child, reaped, shouldStop, pids, self, pending, proc, timeLeft, ctl, ctlLeft,
                   crashes, forkFails>>

\* Nothing left to reap: without a worker the group is gone, and forgotten.
ReapDone ==
    /\ pc = "reap"
    /\ \A p \in Pids : proc[p].st # "zombie"
    /\ pgid' = IF reaped /\ \A i \in Slots : pids[i] = NoPid THEN NoPid ELSE pgid
    /\ pc' = "revive"
    /\ idx' = 1
    /\ UNCHANGED <<child, reaped, shouldStop, pids, self, pending, proc, timeLeft, ctl, ctlLeft,
                   crashes, forkFails>>

\* RevivePendingWorkers, slot by slot.
Due(i) == pids[i] = NoPid /\ self[i].retryIn = 0

ReviveSkips ==
    /\ pc = "revive" /\ idx <= N
    /\ ~Due(idx)
    /\ idx' = idx + 1
    /\ UNCHANGED <<pc, child, reaped, shouldStop, pgid, pids, self, pending, proc, timeLeft, ctl,
                   ctlLeft, crashes, forkFails>>

ReviveForks ==
    /\ pc = "revive" /\ idx <= N
    /\ Due(idx)
    /\ Fork
    /\ pc' = "revive2"
    /\ UNCHANGED <<idx, reaped, shouldStop, pgid, pids, self, pending, timeLeft, ctl, ctlLeft,
                   crashes, forkFails>>

ReviveAdopts ==
    /\ pc = "revive2"
    /\ Adopt
    /\ self' = [self EXCEPT ![idx].attempts = @ + 1]
    /\ pc' = "revive"
    /\ UNCHANGED <<child, reaped, shouldStop, pending, timeLeft, ctl, ctlLeft, crashes,
                   forkFails>>

ReviveFails ==
    /\ pc = "revive" /\ idx <= N
    /\ Due(idx)
    /\ forkFails < MaxForkFails
    /\ forkFails' = forkFails + 1
    /\ self' = [self EXCEPT ![idx].retryIn = BackoffMax]
    /\ idx' = idx + 1
    /\ UNCHANGED <<pc, child, reaped, shouldStop, pgid, pids, pending, proc, timeLeft, ctl,
                   ctlLeft, crashes>>

\* PollWorkerMetrics only reads; the loop goes round.
PollWorkerMetrics ==
    /\ pc = "revive" /\ idx > N
    /\ pc' = "loop"
    /\ UNCHANGED <<idx, child, reaped, shouldStop, pgid, pids, self, pending, proc, timeLeft,
                   ctl, ctlLeft, crashes, forkFails>>

-------------------------------------------------------------------------------
(* Shutdown. *)

Collect ==
    /\ pc = "collect"
    /\ pending' = {pids[i] : i \in Slots} \ {NoPid}
    /\ timeLeft' = ShutdownTimeout
    /\ pc' = "wait"
    /\ UNCHANGED <<idx, child, reaped, shouldStop, pgid, pids, self, proc, ctl, ctlLeft, crashes,
                   forkFails>>

\* waitpid(pid, WNOHANG) finds a worker that has exited.
WaitReaps ==
    /\ pc = "wait"
    /\ \E p \in pending :
         /\ proc[p].st = "zombie"
         /\ proc' = [proc EXCEPT ![p] = NoProc]
         /\ pending' = pending \ {p}
    /\ UNCHANGED <<pc, idx, child, reaped, shouldStop, pgid, pids, self, timeLeft, ctl, ctlLeft,
                   crashes, forkFails>>

WaitEndsNoKillFault ==
    /\ pc = "wait"
    /\ pending = {} \/ timeLeft = 0
    /\ pc' = "cleanup"
    /\ UNCHANGED <<idx, child, reaped, shouldStop, pgid, pids, self, pending, proc, timeLeft,
                   ctl, ctlLeft, crashes, forkFails>>

WaitEndsForeverFault ==
    /\ pc = "wait"
    /\ pending = {}
    /\ pc' = "kill"
    /\ UNCHANGED <<idx, child, reaped, shouldStop, pgid, pids, self, pending, proc, timeLeft,
                   ctl, ctlLeft, crashes, forkFails>>

\* Everybody has exited, or the one window they share is over.
WaitEnds ==
    /\ pc = "wait"
    /\ pending = {} \/ timeLeft = 0
    /\ pc' = "kill"
    /\ UNCHANGED <<idx, child, reaped, shouldStop, pgid, pids, self, pending, proc, timeLeft,
                   ctl, ctlLeft, crashes, forkFails>>

\* SIGKILL and a blocking waitpid for whoever is left.
KillStragglers ==
    /\ pc = "kill"
    /\ \E p \in pending :
         /\ proc' = [proc EXCEPT ![p] = NoProc]
         /\ pending' = pending \ {p}
    /\ UNCHANGED <<pc, idx, child, reaped, shouldStop, pgid, pids, self, timeLeft, ctl, ctlLeft,
                   crashes, forkFails>>

KillDone ==
    /\ pc = "kill"
    /\ pending = {}
    /\ pc' = "cleanup"
    /\ UNCHANGED <<idx, child, reaped, shouldStop, pgid, pids, self, pending, proc, timeLeft,
                   ctl, ctlLeft, crashes, forkFails>>

Exit ==
    /\ pc = "cleanup"
    /\ pc' = "exited"
    /\ UNCHANGED <<idx, child, reaped, shouldStop, pgid, pids, self, pending, proc, timeLeft,
                   ctl, ctlLeft, crashes, forkFails>>

MasterStep ==
    \/ StartFork \/ StartAdopt \/ StartFails \/ StartDone
    \/ LoopTest \/ Sleep \/ Awake
    \/ Reap \/ ReapDone
    \/ ReviveSkips \/ ReviveForks \/ ReviveAdopts \/ ReviveFails \/ PollWorkerMetrics
    \/ Collect \/ WaitReaps \/ WaitEnds \/ KillStragglers \/ KillDone \/ Exit

-------------------------------------------------------------------------------
(* Workers. *)

\* The child puts itself into the group its copy of workerPGID names.
WorkerJoins(p) ==
    /\ proc[p].st = "forked"
    /\ proc' = [SetPgid(proc, p, proc[p].copy) EXCEPT ![p].st = "joined"]
    /\ UNCHANGED <<master, timeLeft, ctl, ctlLeft, crashes, forkFails>>

\* HandleMasterSignal in a child that inherited it, over and over.
WorkerLoops(p) ==
    /\ proc[p].st = "looping"
    /\ proc' = Broadcast(proc, proc[p].copy)
    /\ UNCHANGED <<master, timeLeft, ctl, ctlLeft, crashes, forkFails>>

\* It installs its own handler, which has no engine to stop yet.
WorkerInstalls(p) ==
    /\ proc[p].st = "joined"
    /\ proc' = [proc EXCEPT ![p].st = "init"]
    /\ UNCHANGED <<master, timeLeft, ctl, ctlLeft, crashes, forkFails>>

\* Its engine runs: from now on SIGTERM stops it.
WorkerServes(p) ==
    /\ proc[p].st = "init"
    /\ proc' = [proc EXCEPT ![p].st = "serving"]
    /\ UNCHANGED <<master, timeLeft, ctl, ctlLeft, crashes, forkFails>>

\* A process ends; SIGCHLD wakes a sleeping master.
Dies(p) ==
    /\ proc' = [proc EXCEPT ![p].st = "zombie"]
    /\ pc' = Woken(pc)
    /\ UNCHANGED <<idx, child, reaped, shouldStop, pgid, pids, self, pending, timeLeft, ctl,
                   ctlLeft, forkFails>>

WorkerExits(p) ==
    /\ proc[p].st = "stopping"
    /\ Dies(p)
    /\ UNCHANGED crashes

WorkerCrashes(p) ==
    /\ Alive(p)
    /\ crashes < MaxCrashes
    /\ crashes' = crashes + 1
    /\ Dies(p)

-------------------------------------------------------------------------------
(* Signals, 'wfx control stop' and time. *)

\* HandleMasterSignal, on SIGTERM or SIGINT.
HandleMasterSignal ==
    /\ shouldStop' = TRUE
    /\ proc' = Broadcast(proc, pgid)
    /\ pc' = Woken(pc)
    /\ UNCHANGED <<idx, child, reaped, pgid, pids, self, pending, timeLeft, crashes, forkFails>>

Interrupt ==
    /\ ~Gone
    /\ HandleMasterSignal
    /\ UNCHANGED <<ctl, ctlLeft>>

\* DaemonRegistry::Stop sends SIGTERM and polls for the master's exit.
Stop ==
    /\ ctl = "idle"
    /\ ~Gone
    /\ HandleMasterSignal
    /\ ctl' = "waiting"
    /\ ctlLeft' = ShutdownTimeout + Grace

\* The master has exited, or patience has run out: SIGKILL for the master.
StopReturns ==
    /\ ctl = "waiting"
    /\ Gone \/ ctlLeft = 0
    /\ ctl' = IF Gone THEN "stopped" ELSE "forced"
    /\ pc' = IF Gone THEN pc ELSE "killed"
    /\ UNCHANGED <<idx, child, reaped, shouldStop, pgid, pids, self, pending, proc, timeLeft,
                   ctlLeft, crashes, forkFails>>

\* A second passes.  The master's own steps take no time.
Tick ==
    LET less(n) == IF n = 0 THEN 0 ELSE n - 1
    IN  /\ pc \in {"sleep", "wait"} /\ timeLeft > 0
        /\ ~(ctl = "waiting" /\ ctlLeft = 0)
        /\ timeLeft' = timeLeft - 1
        /\ ctlLeft' = less(ctlLeft)
        /\ self' = [i \in Slots |-> [self[i] EXCEPT !.retryIn = less(@)]]
        /\ UNCHANGED <<pc, idx, child, reaped, shouldStop, pgid, pids, pending, proc, ctl,
                       crashes, forkFails>>

-------------------------------------------------------------------------------
Init ==
    /\ pc = "startup"
    /\ idx = 1
    /\ child = NoPid
    /\ reaped = FALSE
    /\ shouldStop = FALSE
    /\ pgid = NoPid
    /\ pids = [i \in Slots |-> NoPid]
    /\ self = [i \in Slots |-> [attempts |-> 0, retryIn |-> 0, waited |-> 0]]
    /\ pending = {}
    /\ proc = [p \in Pids |-> NoProc]
    /\ timeLeft = 0
    /\ ctl = "idle"
    /\ ctlLeft = 0
    /\ crashes = 0
    /\ forkFails = 0

Next ==
    \/ MasterStep
    \/ \E p \in Pids :
         \/ WorkerJoins(p) \/ WorkerLoops(p) \/ WorkerInstalls(p) \/ WorkerServes(p)
         \/ WorkerExits(p) \/ WorkerCrashes(p)
    \/ Interrupt \/ Stop \/ StopReturns
    \/ Tick

\* The master and starting workers are scheduled and time passes.  A worker
\* told to stop need not obey.
Fairness ==
    /\ WF_vars(MasterStep)
    /\ WF_vars(Tick)
    /\ \A p \in Pids : WF_vars(WorkerJoins(p) \/ WorkerInstalls(p) \/ WorkerServes(p))

Spec == Init /\ [][Next]_vars /\ Fairness

-------------------------------------------------------------------------------
(* Properties. *)

PidOrNone == Pids \cup {NoPid}

\* Every variable holds a value of its type; no revival waits longer than
\* worker_backoff_max (ReapDeadWorkers).
TypeOK ==
    /\ pc \in {"startup", "startup2", "loop", "presleep", "sleep", "awake", "reap", "revive",
               "revive2", "collect", "wait", "kill", "cleanup", "exited", "killed", "aborted"}
    /\ idx \in 1 .. N + 1
    /\ pc \in {"startup2", "revive2"} => idx \in Slots /\ child \in Pids
    /\ child \in PidOrNone
    /\ reaped \in BOOLEAN
    /\ shouldStop \in BOOLEAN
    /\ pgid \in PidOrNone
    /\ pids \in [Slots -> PidOrNone]
    /\ self \in [Slots -> [attempts : Nat, retryIn : 0 .. BackoffMax, waited : 0 .. BackoffMax]]
    /\ pending \subseteq Pids
    /\ proc \in [Pids -> [st : {"none", "forked", "joined", "init", "serving", "looping",
                                "stopping", "zombie"},
                          grp : PidOrNone, copy : PidOrNone]]
    /\ timeLeft \in Nat
    /\ ctl \in {"idle", "waiting", "stopped", "forced"}
    /\ ctlLeft \in Nat
    /\ crashes \in 0 .. MaxCrashes
    /\ forkFails \in 0 .. MaxForkFails

\* The children the master still has to account for.
Children == {p \in Pids : proc[p].st # "none"}
Table == {pids[i] : i \in Slots} \ {NoPid}
Known ==
    IF pc \in {"wait", "kill", "cleanup", "exited"} THEN pending
    ELSE IF pc \in {"startup2", "revive2"} THEN Table \cup {child}
    ELSE Table

\* Nobody is forgotten: the worker table, and during shutdown the list of
\* workers to wait for, name exactly the children that are not reaped yet, and
\* no child fills two slots (what waitpid and the final SIGKILL rely on).
TableIsExact ==
    /\ pc \notin {"killed", "aborted"} => Children = Known
    /\ pc \in {"startup2", "revive2"} => child \notin Table
    /\ \A i, j \in Slots : pids[i] = pids[j] /\ pids[i] # NoPid => i = j

\* SIGTERM reaches every worker: each one in the table is a member of the group
\* HandleMasterSignal signals, also after the whole group died and was revived.
EveryWorkerReachable ==
    pc \notin {"wait", "kill", "cleanup"} /\ ~Gone =>
        \A i \in Slots : pids[i] # NoPid => pgid # NoPid /\ proc[pids[i]].grp = pgid

\* No worker outlives the master that was asked to stop, whenever the signal
\* came, whatever was being forked then and whoever ignores it.
NoWorkerOutlivesMaster == pc \in {"exited", "killed"} => \A p \in Pids : ~Alive(p)

\* No worker outlives its master, however the master ends: also when fork() fails
\* while it starts (RunServerImpl returns from the spawning loop).
NobodyLeftBehind == Gone => \A p \in Pids : ~Alive(p)

\* A slot that keeps crashing is never revived sooner than the time before.
BackoffNeverShrinks ==
    [][\A i \in Slots : pids[i] # NoPid /\ pids'[i] = NoPid => self'[i].waited >= self[i].waited]_vars

Serves(i) == pids[i] # NoPid /\ proc[pids[i]].st = "serving"

\* A worker that crashed is always revived, however often fork() fails.
AlwaysRevived == \A i \in Slots : ~Serves(i) ~> Serves(i) \/ shouldStop \/ Gone

\* A master asked to stop ends, even if no worker obeys.
StopEnds == shouldStop ~> Gone

===============================================================================
