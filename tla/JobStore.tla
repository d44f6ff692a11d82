------------------------------ MODULE JobStore ------------------------------
(***************************************************************************)
(* The job store behind the shell and job tools: foreground runs, one or   *)
(* several processes in a row owned by the tool call, and background jobs, *)
(* one process owned by its record.  The store ties their lifetimes to the *)
(* runtime: shutdown kills what runs, the oldest finished records are      *)
(* evicted, and a checkpoint restore waits behind the gate that every      *)
(* spawn passes and refuses while a job runs.                              *)
(*                                                                         *)
(* Two locks matter: the map of records and each record.  A sweep over the *)
(* map (shutdown, the idle check) is one step here: inserts need the map's *)
(* lock, and every other operation touches one record, whose status never  *)
(* goes back to running.                                                   *)
(***************************************************************************)
EXTENDS Integers, FiniteSets

CONSTANTS
    Task,              \* tool calls that may be under way at once
    MaxJobs,           \* bound: records ever created
    MaxSteps,          \* bound: commands in one foreground chain
    MaxRetained,       \* MAX_RETAINED_JOBS
    CancelForeground   \* whether "job action=cancel" names a foreground run that is still going

ASSUME JobAssumption ==
    /\ MaxJobs \in Nat /\ MaxSteps \in Nat /\ MaxRetained \in Nat
    /\ CancelForeground \in BOOLEAN
    /\ "restore" \notin Task

VARIABLES
    closed,    \* JobStore.closed
    gate,      \* who holds workspace_gate: a set of at most one task or "restore"
    next_id,   \* JobStore.next_id
    jobs,      \* the ids in JobStore.jobs
    job,       \* the record of each id: an Arc, it outlives its place in the map
    proc,      \* the process group of each id
    task,      \* where each tool call is
    restore    \* restore_checkpoint, from its lock of the gate on

vars == <<closed, gate, next_id, jobs, job, proc, task, restore>>

-----------------------------------------------------------------------------
(* Types *)

Id == 1 .. MaxJobs

JobStatus == {"running", "completed", "failed", "timed_out", "cancelled"}

JobState == [kind : {"none", "foreground", "background"}, status : JobStatus, child : BOOLEAN]

(* A process group: never started, its leader alive, its leader gone with    *)
(* whatever it left behind, or killed.                                       *)
Process == {"none", "alive", "exited", "dead"}

Live(p) == p \in {"alive", "exited"}

TaskState == [pc : {"idle", "gate", "insert", "next", "wait", "publish", "abandon", "cancel", "reap"},
              kind : {"none", "foreground", "background"}, id : 0 .. MaxJobs,
              steps : 0 .. MaxSteps, left : 0 .. MaxSteps,
              status : JobStatus, child : BOOLEAN]

NoJob == [kind |-> "none", status |-> "running", child |-> FALSE]

NoTask == [pc |-> "idle", kind |-> "none", id |-> 0, steps |-> 0, left |-> 0,
           status |-> "completed", child |-> FALSE]

(* The state is well typed. *)
TypeOK ==
    /\ closed \in BOOLEAN
    /\ gate \subseteq Task \cup {"restore"}
    /\ next_id \in 0 .. MaxJobs
    /\ jobs \subseteq Id
    /\ job \in [Id -> JobState]
    /\ proc \in [Id -> Process]
    /\ task \in [Task -> TaskState]
    /\ restore \in {"idle", "wait", "holding"}

Init ==
    /\ closed = FALSE /\ gate = {} /\ next_id = 0 /\ jobs = {}
    /\ job = [i \in Id |-> NoJob]
    /\ proc = [i \in Id |-> "none"]
    /\ task = [t \in Task |-> NoTask]
    /\ restore = "idle"

Goto(t, c) == task' = [task EXCEPT ![t] = c]

-----------------------------------------------------------------------------
(* The store *)

MutFinished(J, new) == {i \in jobs \cup {new} : TRUE}

(* What eviction may drop: a running record owns the handle shutdown needs. *)
Finished(J, new) == {i \in jobs \cup {new} : J[i].status # "running"}

MutEvicted(J, new) ==
    LET all == jobs \cup {new}
        old == Finished(J, new)
    IN  {i \in old : Cardinality({k \in old : k < i}) + MaxRetained + 1 < Cardinality(all)}

(* evict_finished_jobs: the oldest finished records beyond the cap go. *)
Evicted(J, new) ==
    LET all == jobs \cup {new}
        old == Finished(J, new)
    IN  {i \in old : Cardinality({k \in old : k < i}) + MaxRetained < Cardinality(all)}

(* insert_with_id, in a map that J describes. *)
Insert(J, new) ==
    /\ job' = J
    /\ jobs' = (jobs \cup {new}) \ Evicted(J, new)

MutRefreshed(i) == proc[i]

(* refresh_job kills what the leader left behind... *)
Refreshed(i) == IF proc[i] = "exited" THEN "dead" ELSE proc[i]

Refreshable(i) == job[i].status = "running" /\ job[i].child /\ proc[i] = "exited"

(* ...and folds its exit into the record. *)
RefreshAll(S) ==
    LET R == {i \in S : Refreshable(i)} IN
    /\ proc' = [i \in Id |-> IF i \in R THEN Refreshed(i) ELSE proc[i]]
    /\ \E ok \in SUBSET R :
          job' = [i \in Id |-> IF i \notin R THEN job[i]
                               ELSE [job[i] EXCEPT !.child = FALSE,
                                        !.status = IF i \in ok THEN "completed" ELSE "failed"]]

-----------------------------------------------------------------------------
(* Spawning *)

Pending == {t \in Task : task[t].pc = "gate"}

(* A call to the shell tool or to "job action=start". *)
Call(t) ==
    /\ task[t].pc = "idle" /\ next_id + Cardinality(Pending) < MaxJobs
    /\ \/ \E n \in 1 .. MaxSteps :
             Goto(t, [NoTask EXCEPT !.pc = "gate", !.kind = "foreground", !.steps = n, !.left = n])
       \/ Goto(t, [NoTask EXCEPT !.pc = "gate", !.kind = "background"])
    /\ UNCHANGED <<closed, gate, next_id, jobs, job, proc, restore>>

Free == gate = {}

(* begin_spawn refuses a closed store. *)
Refuse(t) ==
    /\ task[t].pc = "gate" /\ Free /\ closed
    /\ Goto(t, NoTask)
    /\ UNCHANGED <<closed, gate, next_id, jobs, job, proc, restore>>

(* The foreground run is registered before its first process and releases   *)
(* the gate: its record says running until the call is over.  A shutdown    *)
(* after begin_spawn's check changes nothing here: there is no child yet.   *)
Register(t) ==
    LET i == next_id + 1 IN
    /\ task[t].pc = "gate" /\ task[t].kind = "foreground" /\ Free /\ ~closed
    /\ next_id < MaxJobs
    /\ next_id' = i
    /\ Insert([job EXCEPT ![i] = [kind |-> "foreground", status |-> "running", child |-> FALSE]], i)
    /\ Goto(t, [task[t] EXCEPT !.pc = "next", !.id = i])
    /\ UNCHANGED <<closed, gate, proc, restore>>

(* The background process is started with the gate held, or fails to. *)
Spawn(t) ==
    LET i == next_id + 1 IN
    /\ task[t].pc = "gate" /\ task[t].kind = "background" /\ Free /\ ~closed
    /\ next_id < MaxJobs
    /\ \/ /\ next_id' = i /\ proc' = [proc EXCEPT ![i] = "alive"]
          /\ gate' = {t}
          /\ Goto(t, [task[t] EXCEPT !.pc = "insert", !.id = i])
       \/ Goto(t, NoTask) /\ UNCHANGED <<gate, next_id, proc>>
    /\ UNCHANGED <<closed, jobs, job, restore>>

MutKilledOnInsert == FALSE

(* A child that finished spawning after shutdown's sweep. *)
KilledOnInsert == closed

MutReleased == gate

(* drop(spawn_guard) *)
Released == {}

InsertBackground(t) ==
    LET i == task[t].id IN
    /\ task[t].pc = "insert"
    /\ proc' = IF KilledOnInsert THEN [proc EXCEPT ![i] = "dead"] ELSE proc
    /\ Insert([job EXCEPT ![i] = [kind |-> "background", child |-> TRUE,
                                  status |-> IF KilledOnInsert THEN "cancelled" ELSE "running"]], i)
    /\ gate' = Released
    /\ Goto(t, NoTask)
    /\ UNCHANGED <<closed, next_id, restore>>

-----------------------------------------------------------------------------
(* A foreground run: its steps, and what it publishes *)

MutStepsLeft(c) == c.left >= 0

StepsLeft(c) == c.left > 0

(* The next step of the chain is started, fails to start, or is skipped     *)
(* because the one before it failed.                                        *)
NextStep(t) ==
    LET c == task[t] IN
    /\ c.pc = "next" /\ StepsLeft(c)
    /\ \/ /\ c.status # "completed"
          /\ Goto(t, [c EXCEPT !.left = @ - 1]) /\ UNCHANGED proc
       \/ Goto(t, [c EXCEPT !.pc = "wait"]) /\ proc' = [proc EXCEPT ![c.id] = "alive"]
       \/ /\ Goto(t, IF c.steps = 1 THEN [c EXCEPT !.pc = "abandon"]
                     ELSE [c EXCEPT !.status = "failed", !.left = @ - 1])
          /\ UNCHANGED proc
    /\ UNCHANGED <<closed, gate, next_id, jobs, job, restore>>

MutAfterStep(p) == p

(* kill_process_tree on a cancel or a timeout, kill_process_group after a   *)
(* natural exit: nothing of the step is left when the run goes on.          *)
AfterStep(p) == "dead"

(* The step exited by itself. *)
StepExits(t) ==
    LET c == task[t] IN
    /\ c.pc = "wait" /\ proc[c.id] = "exited"
    /\ proc' = [proc EXCEPT ![c.id] = AfterStep(@)]
    /\ \E s \in {"completed", "failed"} :
          Goto(t, [c EXCEPT !.pc = "next", !.left = @ - 1, !.status = s])
    /\ UNCHANGED <<closed, gate, next_id, jobs, job, restore>>

MutKillReasons == {"cancelled"}

(* The turn was cancelled, or the deadline of the run passed. *)
KillReasons == {"cancelled", "timed_out"}

StepKilled(t, reason) ==
    LET c == task[t] IN
    /\ c.pc = "wait" /\ reason \in KillReasons
    /\ proc' = [proc EXCEPT ![c.id] = AfterStep(@)]
    /\ Goto(t, [c EXCEPT !.pc = "publish", !.status = reason])
    /\ UNCHANGED <<closed, gate, next_id, jobs, job, restore>>

(* The step could not be waited for. *)
WaitFails(t) ==
    LET c == task[t] IN
    /\ c.pc = "wait"
    /\ proc' = [proc EXCEPT ![c.id] = AfterStep(@)]
    /\ Goto(t, [c EXCEPT !.pc = "abandon"])
    /\ UNCHANGED <<closed, gate, next_id, jobs, job, restore>>

(* The record gets its terminal status, if it is still in the map. *)
Publish(t) ==
    LET c == task[t] IN
    /\ \/ c.pc \in {"publish", "abandon"}
       \/ c.pc = "next" /\ c.left = 0
    /\ job' = IF c.id \in jobs
              THEN [job EXCEPT ![c.id].status = IF c.pc = "abandon" THEN "failed" ELSE c.status]
              ELSE job
    /\ Goto(t, NoTask)
    /\ UNCHANGED <<closed, gate, next_id, jobs, proc, restore>>

-----------------------------------------------------------------------------
(* Other calls *)

(* "job action=status" and "tail". *)
Snapshot(i) ==
    /\ i \in jobs /\ Refreshable(i)
    /\ RefreshAll({i})
    /\ UNCHANGED <<closed, gate, next_id, jobs, task, restore>>

(* "job action=cancel": the record is looked up and refreshed... *)
Cancel(t) ==
    /\ task[t].pc = "idle"
    /\ \E i \in jobs :
          /\ job[i].kind = "background" \/ CancelForeground
          /\ RefreshAll({i})
          /\ Goto(t, [NoTask EXCEPT !.pc = "cancel", !.id = i])
    /\ UNCHANGED <<closed, gate, next_id, jobs, restore>>

(* ...then cancel_job kills the child under the record's lock... *)
CancelKill(t) ==
    LET i == task[t].id IN
    /\ task[t].pc = "cancel"
    /\ IF job[i].status # "running"
       THEN Goto(t, NoTask) /\ UNCHANGED <<job, proc>>
       ELSE /\ job' = [job EXCEPT ![i].child = FALSE]
            /\ proc' = IF job[i].child THEN [proc EXCEPT ![i] = "dead"] ELSE proc
            /\ Goto(t, [task[t] EXCEPT !.pc = "reap", !.child = job[i].child])
    /\ UNCHANGED <<closed, gate, next_id, jobs, restore>>

(* ...waits for it without the lock, and marks the record; a failed wait    *)
(* leaves it.                                                               *)
CancelReap(t) ==
    LET i == task[t].id IN
    /\ task[t].pc = "reap"
    /\ \/ job' = [job EXCEPT ![i].status = "cancelled"]
       \/ task[t].child /\ UNCHANGED job
    /\ Goto(t, NoTask)
    /\ UNCHANGED <<closed, gate, next_id, jobs, proc, restore>>

(* shutdown kills every background child that runs. *)
Shutdown ==
    LET R == {i \in jobs : job[i].status = "running" /\ job[i].child} IN
    /\ closed' = TRUE
    /\ proc' = [i \in Id |-> IF i \in R THEN "dead" ELSE proc[i]]
    /\ job' = [i \in Id |-> IF i \in R THEN [job[i] EXCEPT !.status = "cancelled"] ELSE job[i]]
    /\ UNCHANGED <<gate, next_id, jobs, task, restore>>

(* A process ends by itself. *)
LeaderExits(i) ==
    /\ proc[i] = "alive"
    /\ proc' = [proc EXCEPT ![i] = "exited"]
    /\ UNCHANGED <<closed, gate, next_id, jobs, job, task, restore>>

-----------------------------------------------------------------------------
(* restore_checkpoint and idle_workspace *)

RestoreCall ==
    /\ restore = "idle" /\ restore' = "wait"
    /\ UNCHANGED <<closed, gate, next_id, jobs, job, proc, task>>

(* A record that does not keep the workspace busy, after its refresh. *)
IdleJob(i) == job[i].status # "running" \/ Refreshable(i)

(* The sweep finds every job over, and the gate is kept for the restore. *)
IdleWorkspace ==
    /\ restore = "wait" /\ Free
    /\ \A i \in jobs : IdleJob(i)
    /\ RefreshAll(jobs)
    /\ gate' = {"restore"} /\ restore' = "holding"
    /\ UNCHANGED <<closed, next_id, jobs, task>>

(* The sweep stops at a job that runs, or at a killed child that is not     *)
(* reaped yet; it has refreshed any of the others.                          *)
RestoreRefused ==
    /\ restore = "wait" /\ Free
    /\ \E i \in jobs : ~IdleJob(i) \/ (job[i].child /\ proc[i] = "dead")
    /\ \E S \in SUBSET jobs : RefreshAll(S)
    /\ restore' = "idle"
    /\ UNCHANGED <<closed, gate, next_id, jobs, task>>

RestoreDone ==
    /\ restore = "holding"
    /\ gate' = {} /\ restore' = "idle"
    /\ UNCHANGED <<closed, next_id, jobs, job, proc, task>>

-----------------------------------------------------------------------------
(* Specification *)

AtGate(t) == Refuse(t) \/ Register(t) \/ Spawn(t)

Goes(t) == InsertBackground(t) \/ NextStep(t) \/ StepExits(t) \/ Publish(t)
           \/ CancelKill(t) \/ CancelReap(t)

Killed(t) == WaitFails(t) \/ \E reason \in JobStatus : StepKilled(t, reason)

Next ==
    \/ \E t \in Task : Call(t) \/ AtGate(t) \/ Goes(t) \/ Killed(t) \/ Cancel(t)
    \/ \E i \in Id : Snapshot(i) \/ LeaderExits(i)
    \/ Shutdown
    \/ RestoreCall \/ IdleWorkspace \/ RestoreRefused \/ RestoreDone

Spec == Init /\ [][Next]_vars

(* Calls that can go on do, a deadline ends what hangs, and a restore that  *)
(* was let in ends.  The gate is tokio's mutex, which serves its waiters in *)
(* order: whoever finds it free again and again gets it.                    *)
Fairness ==
    /\ \A t \in Task : /\ WF_vars(Goes(t)) /\ SF_vars(AtGate(t))
                       /\ WF_vars(StepKilled(t, "timed_out"))
    /\ SF_vars(IdleWorkspace \/ RestoreRefused) /\ WF_vars(RestoreDone)

-----------------------------------------------------------------------------
(* Properties *)

(* While a restore clears and rewrites the workspace no process of a job    *)
(* runs, registered or not, and nothing a finished one left behind          *)
(* (workspace_gate, idle_workspace, refresh_job).                           *)
RestoreIdle == restore = "holding" => \A i \in Id : ~Live(proc[i])

(* A record that says its job is over is right: the process group is gone   *)
(* (ShellTool::run, refresh_job, cancel_job, shutdown, insert_with_id).           *)
FinishedIsDead ==
    \A i \in Id : job[i].kind # "none" /\ job[i].status # "running" => ~Live(proc[i])

(* After shutdown no background process outlives its registration, however  *)
(* the sweep and a spawn interleave (shutdown, insert_with_id, eviction).   *)
ShutdownReaches ==
    closed => \A i \in Id : Live(proc[i]) =>
                 \/ job[i].kind = "foreground"
                 \/ \E t \in Task : task[t].pc = "insert" /\ task[t].id = i

(* A foreground run finds its record when it is over: eviction spares it    *)
(* (evict_finished_jobs).                                                   *)
RunFindsRecord ==
    \A t \in Task : task[t].pc \in {"next", "wait", "publish", "abandon"} => task[t].id \in jobs

(* An insert leaves at most MAX_RETAINED_JOBS records, or only jobs that    *)
(* run: the store converges to its cap (evict_finished_jobs).               *)
StoreConverges ==
    [][jobs' # jobs => \/ Cardinality(jobs') <= MaxRetained
                       \/ \A i \in jobs' : job'[i].status = "running"]_vars

(* Every call that waits for the gate gets past it, although restores and   *)
(* other spawns come and go (begin_spawn).                                  *)
SpawnServed == \A t \in Task : task[t].pc = "gate" ~> task[t].pc # "gate"

(* Every foreground run ends and publishes (the deadline in ShellTool::run). *)
RunEnds == \A t \in Task : task[t].pc = "wait" ~> task[t].pc = "idle"
=============================================================================
