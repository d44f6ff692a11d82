-------------------------- MODULE BackgroundProofs --------------------------
(***************************************************************************)
(* Proofs about what outlives the call that started it: the job store and  *)
(* the sub-agents. They share nothing.                                     *)
(*                                                                         *)
(* JobStore, for any number of calls, jobs and steps: type correctness,    *)
(* and, as long as nobody cancels a foreground run through the job tool,   *)
(* that a restore finds the workspace idle, that a finished record has no  *)
(* live process, that shutdown reaches every background process, and that  *)
(* a run finds its record.                                                 *)
(*                                                                         *)
(* SubAgents, for every number of dispatches and turns and every cap:      *)
(* ChildrenHold. The ledger's cap is kept because the running records      *)
(* bound the dispatches under way, and eviction only takes finished ones.  *)
(* Two writers never run for calls still wanted, although check and insert *)
(* are two locks apart, because a turn's loop has at most one writer out   *)
(* and every turn but the last is cancelled: the ledger check is not       *)
(* needed for it, and the proof does not use it.                           *)
(***************************************************************************)
EXTENDS JobStore, SubAgents, FiniteSetTheorems, TLAPS

(* What a call under way needs for its next step to be well typed. *)
StepFits ==
    \A t \in Task : /\ task[t].pc = "wait" => task[t].left > 0
                    /\ task[t].pc \in {"insert", "cancel"} => task[t].id \in Id

TInv == TypeOK /\ StepFits

(* The records of an idle call and of an unused id are well typed. *)
LEMMA IdleType == NoTask \in TaskState /\ NoJob \in JobState
BY JobAssumption DEF NoTask, TaskState, NoJob, JobState, JobStatus

(* One call's step changes that call's state and no other. *)
LEMMA StepType ==
    ASSUME NEW t \in Task, NEW c \in TaskState, task \in [Task -> TaskState], Goto(t, c)
    PROVE  /\ task' \in [Task -> TaskState]
           /\ task'[t] = c
           /\ \A u \in Task : u # t => task'[u] = task[u]
BY DEF Goto

(* What refresh_job does to a record: nothing, or its leader is gone, what   *)
(* was left behind is killed and the record is finished.                     *)
LEMMA RefreshEffect ==
    ASSUME TypeOK, NEW S \in SUBSET Id, RefreshAll(S)
    PROVE  /\ job' \in [Id -> JobState] /\ proc' \in [Id -> Process]
           /\ \A i \in Id : ~(i \in S /\ Refreshable(i)) => job'[i] = job[i] /\ proc'[i] = proc[i]
           /\ \A i \in Id : i \in S /\ Refreshable(i) =>
                 /\ job'[i].kind = job[i].kind /\ job'[i].status # "running"
                 /\ ~job'[i].child /\ proc'[i] = "dead"
<1> DEFINE R == {i \in S : Refreshable(i)}
<1>1. proc' = [i \in Id |-> IF i \in R THEN Refreshed(i) ELSE proc[i]]
  BY DEF RefreshAll
<1>2. PICK ok \in SUBSET R :
        job' = [i \in Id |-> IF i \notin R THEN job[i]
                             ELSE [job[i] EXCEPT !.child = FALSE,
                                      !.status = IF i \in ok THEN "completed" ELSE "failed"]]
  BY DEF RefreshAll
<1>3. ASSUME NEW i \in Id, i \in R
      PROVE  /\ proc'[i] = "dead" /\ job'[i] \in JobState
             /\ job'[i].kind = job[i].kind /\ job'[i].status # "running" /\ ~job'[i].child
  <2>1. proc[i] = "exited" /\ job[i] \in JobState
    BY <1>3 DEF Refreshable, TypeOK
  <2>2. job'[i] = [job[i] EXCEPT !.child = FALSE,
                      !.status = IF i \in ok THEN "completed" ELSE "failed"]
    BY <1>2, <1>3
  <2> QED BY <1>1, <1>3, <2>1, <2>2 DEF Refreshed, JobState, JobStatus
<1>4. ASSUME NEW i \in Id, i \notin R
      PROVE  job'[i] = job[i] /\ proc'[i] = proc[i]
  BY <1>1, <1>2, <1>4
<1>5. \A i \in Id : job'[i] \in JobState /\ proc'[i] \in Process
  BY <1>3, <1>4 DEF TypeOK, Process
<1> QED BY <1>1, <1>2, <1>3, <1>4, <1>5

(* What eviction drops is in the map and finished. *)
LEMMA EvictedFinished ==
    ASSUME NEW J, NEW new
    PROVE  Evicted(J, new) \subseteq {i \in jobs \cup {new} : J[i].status # "running"}
BY DEF Evicted, Finished

(* The initial state is well typed. *)
LEMMA InitTInv == Init => TInv
<1> SUFFICES ASSUME Init PROVE TInv
  OBVIOUS
<1>1. TypeOK
  <2>1. task \in [Task -> TaskState] /\ job \in [Id -> JobState] /\ proc \in [Id -> Process]
    BY IdleType DEF Init, Process
  <2>2. next_id \in 0 .. MaxJobs
    BY JobAssumption DEF Init
  <2>3. closed \in BOOLEAN /\ restore \in {"idle", "wait", "holding"}
    BY DEF Init
  <2>4. gate \subseteq Task \cup {"restore"} /\ jobs \subseteq Id
    BY DEF Init
  <2> QED BY <2>1, <2>2, <2>3, <2>4 DEF TypeOK
<1>2. StepFits
  BY DEF Init, StepFits, NoTask
<1> QED BY <1>1, <1>2 DEF TInv

(* A step of one call keeps the calls well typed if its new state is. *)
LEMMA OneCall ==
    ASSUME TInv, NEW t \in Task, NEW c \in TaskState, Goto(t, c),
           c.pc = "wait" => c.left > 0, c.pc \in {"insert", "cancel"} => c.id \in Id
    PROVE  task' \in [Task -> TaskState] /\ StepFits'
<1>1. task \in [Task -> TaskState]
  BY DEF TInv, TypeOK
<1>2. /\ task' \in [Task -> TaskState] /\ task'[t] = c
      /\ \A u \in Task : u # t => task'[u] = task[u]
  BY <1>1, StepType
<1>3. \A u \in Task : /\ task'[u].pc = "wait" => task'[u].left > 0
                      /\ task'[u].pc \in {"insert", "cancel"} => task'[u].id \in Id
  BY <1>2 DEF TInv, StepFits
<1> QED BY <1>2, <1>3 DEF StepFits, Id

(* A call that goes back to idle is well typed. *)
LEMMA CallEnds ==
    ASSUME TInv, NEW t \in Task, Goto(t, NoTask)
    PROVE  task' \in [Task -> TaskState] /\ StepFits'
BY IdleType, OneCall DEF NoTask

(* An insert keeps the map and the records well typed. *)
LEMMA InsertType ==
    ASSUME TInv, NEW i \in Id, NEW r \in JobState, Insert([job EXCEPT ![i] = r], i)
    PROVE  job' \in [Id -> JobState] /\ jobs' \subseteq Id
BY DEF Insert, TInv, TypeOK

(* Every step keeps the types. *)
LEMMA NextTInv == TInv /\ [Next]_vars => TInv'
<1> SUFFICES ASSUME TInv, [Next]_vars PROVE TInv'
  OBVIOUS
<1>0. /\ closed \in BOOLEAN /\ gate \subseteq Task \cup {"restore"} /\ next_id \in 0 .. MaxJobs
      /\ jobs \subseteq Id /\ job \in [Id -> JobState] /\ proc \in [Id -> Process]
      /\ task \in [Task -> TaskState] /\ restore \in {"idle", "wait", "holding"}
  BY DEF TInv, TypeOK
<1> DEFINE Rest == /\ closed' \in BOOLEAN /\ gate' \subseteq Task \cup {"restore"}
                   /\ next_id' \in 0 .. MaxJobs /\ jobs' \subseteq Id
                   /\ job' \in [Id -> JobState] /\ proc' \in [Id -> Process]
                   /\ restore' \in {"idle", "wait", "holding"}
           Ready == task' \in [Task -> TaskState] /\ StepFits'
<1>00. SUFFICES Rest /\ Ready
  BY DEF TInv, TypeOK, StepFits
<1>01. ASSUME UNCHANGED task PROVE Ready
  BY <1>0, <1>01 DEF TInv, StepFits, Id
<1> HIDE DEF Ready
<1>1. ASSUME NEW t \in Task, Call(t) PROVE Rest /\ Ready
  <2>1. Rest
    BY <1>0, <1>1 DEF Call
  <2>2. CASE \E n \in 1 .. MaxSteps : Goto(t, [NoTask EXCEPT !.pc = "gate", !.kind = "foreground",
                                                           !.steps = n, !.left = n])
    <3>1. PICK n \in 1 .. MaxSteps : Goto(t, [NoTask EXCEPT !.pc = "gate", !.kind = "foreground",
                                                            !.steps = n, !.left = n])
      BY <2>2
    <3>2. n \in 0 .. MaxSteps
      BY JobAssumption
    <3>3. [NoTask EXCEPT !.pc = "gate", !.kind = "foreground", !.steps = n, !.left = n] \in TaskState
      BY <3>2, IdleType DEF TaskState
    <3> QED BY <2>1, <3>1, <3>3, OneCall DEF Ready, NoTask
  <2>3. CASE Goto(t, [NoTask EXCEPT !.pc = "gate", !.kind = "background"])
    <3>1. [NoTask EXCEPT !.pc = "gate", !.kind = "background"] \in TaskState
      BY IdleType DEF TaskState
    <3> QED BY <2>1, <2>3, <3>1, OneCall DEF Ready, NoTask
  <2> QED BY <1>1, <2>2, <2>3 DEF Call
<1>2. ASSUME NEW t \in Task, Refuse(t) PROVE Rest /\ Ready
  BY <1>0, <1>2, CallEnds DEF Refuse, Ready
<1>3. ASSUME NEW t \in Task, Register(t) PROVE Rest /\ Ready
  <2>1. next_id + 1 \in Id /\ next_id + 1 \in 0 .. MaxJobs
    BY <1>0, <1>3, JobAssumption DEF Register, Id
  <2>2. [kind |-> "foreground", status |-> "running", child |-> FALSE] \in JobState
    BY DEF JobState, JobStatus
  <2>3. job' \in [Id -> JobState] /\ jobs' \subseteq Id
    BY <1>3, <2>1, <2>2, InsertType DEF Register
  <2>4. [task[t] EXCEPT !.pc = "next", !.id = next_id + 1] \in TaskState
    <3>1. task[t] \in TaskState
      BY <1>0
    <3> QED BY <2>1, <3>1 DEF TaskState
  <2>5. Ready
    BY <1>0, <1>3, <2>4, OneCall DEF Register, Ready, TaskState
  <2> QED BY <1>0, <1>3, <2>1, <2>3, <2>5 DEF Register
<1>4. ASSUME NEW t \in Task, Spawn(t) PROVE Rest /\ Ready
  <2>1. next_id + 1 \in Id /\ next_id + 1 \in 0 .. MaxJobs
    BY <1>0, <1>4, JobAssumption DEF Spawn, Id
  <2>2. [task[t] EXCEPT !.pc = "insert", !.id = next_id + 1] \in TaskState
    <3>1. task[t] \in TaskState
      BY <1>0
    <3> QED BY <2>1, <3>1 DEF TaskState
  <2>3. ASSUME Goto(t, [task[t] EXCEPT !.pc = "insert", !.id = next_id + 1]) PROVE Ready
    BY <1>0, <2>1, <2>2, <2>3, OneCall DEF Ready, TaskState
  <2>4. ASSUME Goto(t, NoTask) PROVE Ready
    BY <2>4, CallEnds DEF Ready
  <2>5. Ready
    BY <1>4, <2>3, <2>4 DEF Spawn
  <2> QED BY <1>0, <1>4, <2>1, <2>5 DEF Spawn, Process
<1>5. ASSUME NEW t \in Task, InsertBackground(t) PROVE Rest /\ Ready
  <2> DEFINE st == IF KilledOnInsert THEN "cancelled" ELSE "running"
  <2>1. task[t].id \in Id
    BY <1>5 DEF InsertBackground, TInv, StepFits
  <2>2. [kind |-> "background", child |-> TRUE, status |-> st] \in JobState
    BY DEF JobState, JobStatus
  <2>3. job' \in [Id -> JobState] /\ jobs' \subseteq Id
    BY <1>5, <2>1, <2>2, InsertType DEF InsertBackground
  <2>4. Ready
    BY <1>5, CallEnds DEF InsertBackground, Ready
  <2> QED BY <1>0, <1>5, <2>3, <2>4 DEF InsertBackground, Released, Process
<1>6. ASSUME NEW t \in Task, NextStep(t) PROVE Rest /\ Ready
  <2>0. task[t] \in TaskState /\ task[t].left > 0 /\ task[t].pc = "next"
    BY <1>0, <1>6 DEF NextStep, StepsLeft
  <2>1. task[t].left - 1 \in 0 .. MaxSteps
    BY <2>0, JobAssumption DEF TaskState
  <2>2. /\ [task[t] EXCEPT !.left = @ - 1] \in TaskState
        /\ [task[t] EXCEPT !.pc = "wait"] \in TaskState
        /\ [task[t] EXCEPT !.pc = "abandon"] \in TaskState
        /\ [task[t] EXCEPT !.status = "failed", !.left = @ - 1] \in TaskState
    BY <2>0, <2>1 DEF TaskState, JobStatus
  <2>3. \/ Goto(t, [task[t] EXCEPT !.left = @ - 1])
        \/ Goto(t, [task[t] EXCEPT !.pc = "wait"])
        \/ Goto(t, [task[t] EXCEPT !.pc = "abandon"])
        \/ Goto(t, [task[t] EXCEPT !.status = "failed", !.left = @ - 1])
    BY <1>6 DEF NextStep
  <2>4. Ready
    <3>1. CASE Goto(t, [task[t] EXCEPT !.left = @ - 1])
      BY <2>0, <2>2, <3>1, OneCall DEF Ready, TaskState
    <3>2. CASE Goto(t, [task[t] EXCEPT !.pc = "wait"])
      BY <2>0, <2>2, <3>2, OneCall DEF Ready, TaskState
    <3>3. CASE Goto(t, [task[t] EXCEPT !.pc = "abandon"])
      BY <2>0, <2>2, <3>3, OneCall DEF Ready, TaskState
    <3>4. CASE Goto(t, [task[t] EXCEPT !.status = "failed", !.left = @ - 1])
      BY <2>0, <2>2, <3>4, OneCall DEF Ready, TaskState
    <3> QED BY <2>3, <3>1, <3>2, <3>3, <3>4
  <2> QED BY <1>0, <1>6, <2>4 DEF NextStep, Process
<1>7. ASSUME NEW t \in Task, StepExits(t) PROVE Rest /\ Ready
  <2>0. task[t] \in TaskState /\ task[t].left > 0 /\ task[t].pc = "wait"
    BY <1>0, <1>7 DEF StepExits, TInv, StepFits
  <2>1. task[t].left - 1 \in 0 .. MaxSteps
    BY <2>0, JobAssumption DEF TaskState
  <2>2. PICK s \in {"completed", "failed"} :
             Goto(t, [task[t] EXCEPT !.pc = "next", !.left = @ - 1, !.status = s])
    BY <1>7 DEF StepExits
  <2>3. [task[t] EXCEPT !.pc = "next", !.left = @ - 1, !.status = s] \in TaskState
    BY <2>0, <2>1 DEF TaskState, JobStatus
  <2>4. Ready
    BY <2>0, <2>2, <2>3, OneCall DEF Ready, TaskState
  <2> QED BY <1>0, <1>7, <2>4 DEF StepExits, AfterStep, Process
<1>8. ASSUME NEW t \in Task, NEW reason \in JobStatus, StepKilled(t, reason) PROVE Rest /\ Ready
  <2>1. [task[t] EXCEPT !.pc = "publish", !.status = reason] \in TaskState
    <3>1. task[t] \in TaskState
      BY <1>0
    <3> QED BY <3>1 DEF TaskState
  <2>2. Ready
    BY <1>0, <1>8, <2>1, OneCall DEF StepKilled, Ready, TaskState
  <2> QED BY <1>0, <1>8, <2>2 DEF StepKilled, AfterStep, Process
<1>9. ASSUME NEW t \in Task, WaitFails(t) PROVE Rest /\ Ready
  <2>1. [task[t] EXCEPT !.pc = "abandon"] \in TaskState
    BY <1>0 DEF TaskState
  <2>2. Ready
    BY <1>0, <1>9, <2>1, OneCall DEF WaitFails, Ready, TaskState
  <2> QED BY <1>0, <1>9, <2>2 DEF WaitFails, AfterStep, Process
<1>10. ASSUME NEW t \in Task, Publish(t) PROVE Rest /\ Ready
  <2>0. task[t] \in TaskState
    BY <1>0
  <2>1. job' \in [Id -> JobState]
    BY <1>0, <1>10, <2>0 DEF Publish, JobState, TaskState, JobStatus
  <2>2. Ready
    BY <1>10, CallEnds DEF Publish, Ready
  <2> QED BY <1>0, <1>10, <2>1, <2>2 DEF Publish
<1>11. ASSUME NEW i \in Id, Snapshot(i) PROVE Rest /\ Ready
  BY <1>0, <1>01, <1>11, RefreshEffect DEF Snapshot, TInv
<1>12. ASSUME NEW t \in Task, Cancel(t) PROVE Rest /\ Ready
  <2>1. PICK i \in jobs : RefreshAll({i}) /\ Goto(t, [NoTask EXCEPT !.pc = "cancel", !.id = i])
    BY <1>12 DEF Cancel
  <2>2. i \in Id /\ i \in 0 .. MaxJobs
    BY <1>0, JobAssumption DEF Id
  <2>3. [NoTask EXCEPT !.pc = "cancel", !.id = i] \in TaskState
    BY <2>2, IdleType DEF TaskState
  <2>4. Ready
    BY <2>1, <2>2, <2>3, OneCall DEF Ready, NoTask
  <2>5. job' \in [Id -> JobState] /\ proc' \in [Id -> Process]
    BY <2>1, <2>2, RefreshEffect DEF TInv
  <2> QED BY <1>0, <1>12, <2>4, <2>5 DEF Cancel
<1>13. ASSUME NEW t \in Task, CancelKill(t) PROVE Rest /\ Ready
  <2>0. task[t] \in TaskState /\ task[t].id \in Id
    BY <1>0, <1>13 DEF CancelKill, TInv, StepFits
  <2>1. job[task[t].id].child \in BOOLEAN
    BY <1>0, <2>0 DEF JobState
  <2>2. [task[t] EXCEPT !.pc = "reap", !.child = job[task[t].id].child] \in TaskState
    BY <2>0, <2>1 DEF TaskState
  <2>3. ASSUME Goto(t, NoTask) PROVE Ready
    BY <2>3, CallEnds DEF Ready
  <2>4. ASSUME Goto(t, [task[t] EXCEPT !.pc = "reap", !.child = job[task[t].id].child])
        PROVE  Ready
    BY <2>0, <2>2, <2>4, OneCall DEF Ready, TaskState
  <2>5. job' \in [Id -> JobState]
    <3>1. job[task[t].id] \in JobState
      BY <1>0, <2>0
    <3>2. [job[task[t].id] EXCEPT !.child = FALSE] \in JobState
      BY <3>1 DEF JobState
    <3> QED BY <1>0, <1>13, <2>0, <3>2 DEF CancelKill
  <2>6. proc' \in [Id -> Process]
    BY <1>0, <1>13, <2>0 DEF CancelKill, Process
  <2> QED BY <1>0, <1>13, <2>3, <2>4, <2>5, <2>6 DEF CancelKill
<1>14. ASSUME NEW t \in Task, CancelReap(t) PROVE Rest /\ Ready
  <2>1. job' \in [Id -> JobState]
    BY <1>0, <1>14 DEF CancelReap, JobState, JobStatus
  <2>2. Ready
    BY <1>14, CallEnds DEF CancelReap, Ready
  <2> QED BY <1>0, <1>14, <2>1, <2>2 DEF CancelReap
<1>15. ASSUME Shutdown PROVE Rest /\ Ready
  <2>1. job' \in [Id -> JobState] /\ proc' \in [Id -> Process]
    BY <1>0, <1>15 DEF Shutdown, JobState, JobStatus, Process
  <2> QED BY <1>0, <1>01, <1>15, <2>1 DEF Shutdown
<1>16. ASSUME NEW i \in Id, LeaderExits(i) PROVE Rest /\ Ready
  BY <1>0, <1>01, <1>16 DEF LeaderExits, Process
<1>17. ASSUME RestoreCall PROVE Rest /\ Ready
  BY <1>0, <1>01, <1>17 DEF RestoreCall
<1>18. ASSUME IdleWorkspace PROVE Rest /\ Ready
  BY <1>0, <1>01, <1>18, RefreshEffect DEF IdleWorkspace, TInv
<1>19. ASSUME RestoreRefused PROVE Rest /\ Ready
  <2>1. PICK S \in SUBSET jobs : RefreshAll(S)
    BY <1>19 DEF RestoreRefused
  <2>2. job' \in [Id -> JobState] /\ proc' \in [Id -> Process]
    BY <1>0, <2>1, RefreshEffect DEF TInv
  <2> QED BY <1>0, <1>01, <1>19, <2>2 DEF RestoreRefused
<1>20. ASSUME RestoreDone PROVE Rest /\ Ready
  BY <1>0, <1>01, <1>20 DEF RestoreDone
<1>21. ASSUME UNCHANGED vars PROVE Rest /\ Ready
  BY <1>0, <1>01, <1>21 DEF vars
<1> QED
  BY <1>1, <1>2, <1>3, <1>4, <1>5, <1>6, <1>7, <1>8, <1>9, <1>10, <1>11, <1>12, <1>13, <1>14,
     <1>15, <1>16, <1>17, <1>18, <1>19, <1>20, <1>21 DEF Next, AtGate, Goes, Killed

(* In every reachable state the store, the records, the processes and the    *)
(* calls are well typed.                                                     *)
THEOREM TypeCorrect == Spec => []TypeOK
<1>1. TInv => TypeOK
  BY DEF TInv
<1> QED BY <1>1, InitTInv, NextTInv, PTL DEF Spec

(* A foreground run is under way in these. *)
Run == {"next", "wait", "publish", "abandon"}

(* An id that was not given out has no record and no process. *)
Alloc ==
    \A i \in Id : i > next_id => i \notin jobs /\ job[i].kind = "none" /\ proc[i] = "none"

(* What a live process group means for the record of its id. *)
Records ==
    \A i \in Id :
        /\ i \in jobs => job[i].kind # "none"
        /\ job[i].kind = "background" /\ Live(proc[i])
           => i \in jobs /\ job[i].status = "running" /\ job[i].child /\ ~closed
        /\ job[i].kind = "foreground"
           => /\ ~job[i].child
              /\ Live(proc[i]) => \E t \in Task : task[t].pc = "wait" /\ task[t].id = i
        /\ job[i].kind = "none" /\ Live(proc[i])
           => \E t \in Task : task[t].pc = "insert" /\ task[t].id = i

(* What a call under way means for the record it works on. *)
Calls ==
    \A t \in Task :
        /\ task[t].pc \in Run => /\ task[t].id \in jobs
                                 /\ job[task[t].id].kind = "foreground"
                                 /\ job[task[t].id].status = "running"
        /\ task[t].pc = "insert" => /\ task[t].id \in Id /\ task[t].id <= next_id
                                    /\ job[task[t].id].kind = "none" /\ gate = {t}
        /\ task[t].pc \in {"cancel", "reap"} => /\ task[t].id \in Id
                                                /\ job[task[t].id].kind = "background"
        /\ task[t].pc = "reap" => ~job[task[t].id].child

(* No two foreground runs share a record. *)
Apart ==
    \A t, u \in Task : task[t].pc \in Run /\ task[u].pc \in Run /\ t # u
                       => task[t].id # task[u].id

(* The restore holds the gate, and no record says running. *)
Restoring ==
    restore = "holding" => gate = {"restore"} /\ \A i \in jobs : job[i].status # "running"

(* The invariant that makes the properties below inductive. *)
Inv == TInv /\ Alloc /\ Records /\ Calls /\ Apart /\ Restoring

(* The state the lemmas below start from. *)
LEMMA InvType ==
    ASSUME Inv
    PROVE  /\ TInv /\ TypeOK /\ Alloc /\ Records /\ Calls /\ Apart /\ Restoring
           /\ next_id \in 0 .. MaxJobs /\ jobs \subseteq Id /\ gate \subseteq Task \cup {"restore"}
           /\ job \in [Id -> JobState] /\ proc \in [Id -> Process]
           /\ task \in [Task -> TaskState] /\ "restore" \notin Task
BY JobAssumption DEF Inv, TInv, TypeOK

(* insert_with_id writes one record and drops no running one. *)
LEMMA InsertEffect ==
    ASSUME TInv, NEW i \in Id, NEW r \in JobState, Insert([job EXCEPT ![i] = r], i)
    PROVE  /\ job'[i] = r /\ \A k \in Id : k # i => job'[k] = job[k]
           /\ jobs' \subseteq jobs \cup {i}
           /\ \A k \in jobs \cup {i} : job'[k].status = "running" => k \in jobs'
<1>1. /\ job' = [job EXCEPT ![i] = r] /\ job \in [Id -> JobState]
      /\ jobs' = (jobs \cup {i}) \ Evicted(job', i)
  BY DEF Insert, TInv, TypeOK
<1>2. Evicted(job', i) \subseteq {k \in jobs \cup {i} : job'[k].status # "running"}
  BY EvictedFinished
<1> QED BY <1>1, <1>2

(* A step of one call that takes up no record and touches nothing else. *)
LEMMA CallFrame ==
    ASSUME Inv, NEW t \in Task, NEW c \in TaskState, Goto(t, c), c.pc \in {"idle", "gate"},
           task[t].pc \in {"idle", "gate", "cancel", "reap"},
           UNCHANGED <<closed, gate, next_id, jobs, job, proc, restore>>
    PROVE  Alloc' /\ Records' /\ Calls' /\ Apart' /\ Restoring'
<1>1. /\ task'[t] = c /\ \A u \in Task : u # t => task'[u] = task[u]
  BY InvType, StepType
<1>2. Alloc' /\ Restoring'
  BY InvType DEF Alloc, Restoring, Id
<1>3. Records'
  BY InvType, <1>1 DEF Records, Live, Id
<1>4. Calls' /\ Apart'
  BY InvType, <1>1 DEF Calls, Apart, Run, Id
<1> QED BY <1>2, <1>3, <1>4

(* A live process of a foreground record belongs to the one run that waits   *)
(* for it.                                                                   *)
LEMMA RunOwns ==
    ASSUME Inv, NEW t \in Task, task[t].pc \in Run
    PROVE  /\ task[t].id \in Id /\ task[t].id <= next_id
           /\ job[task[t].id].kind = "foreground" /\ job[task[t].id].status = "running"
           /\ task[t].id \in jobs
           /\ Live(proc[task[t].id]) => task[t].pc = "wait"
<1>1. /\ task[t].id \in jobs /\ job[task[t].id].kind = "foreground"
      /\ job[task[t].id].status = "running"
  BY InvType DEF Calls
<1>2. task[t].id \in Id /\ task[t].id <= next_id
  BY <1>1, InvType DEF Alloc, Id
<1>3. ASSUME Live(proc[task[t].id]) PROVE task[t].pc = "wait"
  <2>1. PICK u \in Task : task[u].pc = "wait" /\ task[u].id = task[t].id
    BY <1>1, <1>2, <1>3, InvType DEF Records
  <2> QED BY <2>1, InvType DEF Apart, Run
<1> QED BY <1>1, <1>2, <1>3

(* A step within a foreground run: its process and its own state. *)
LEMMA RunStep ==
    ASSUME Inv, NEW t \in Task, task[t].pc \in Run, NEW c \in TaskState, Goto(t, c),
           c.pc \in Run, c.id = task[t].id,
           \A k \in Id : k # c.id => proc'[k] = proc[k],
           Live(proc'[c.id]) => c.pc = "wait",
           UNCHANGED <<closed, gate, next_id, jobs, job, restore>>
    PROVE  Alloc' /\ Records' /\ Calls' /\ Apart' /\ Restoring'
<1>1. /\ task'[t] = c /\ \A u \in Task : u # t => task'[u] = task[u]
  BY InvType, StepType
<1>2. Alloc' /\ Restoring'
  BY InvType, RunOwns DEF Alloc, Restoring, Id
<1>3. Records'
  <2> SUFFICES ASSUME NEW i \in Id
      PROVE /\ i \in jobs => job[i].kind # "none"
            /\ job[i].kind = "background" /\ Live(proc'[i])
               => i \in jobs /\ job[i].status = "running" /\ job[i].child /\ ~closed
            /\ job[i].kind = "foreground"
               => /\ ~job[i].child
                  /\ Live(proc'[i]) => \E u \in Task : task'[u].pc = "wait" /\ task'[u].id = i
            /\ job[i].kind = "none" /\ Live(proc'[i])
               => \E u \in Task : task'[u].pc = "insert" /\ task'[u].id = i
    BY DEF Records, Id, Live
  <2>1. CASE i = c.id
    BY <1>1, <2>1, InvType, RunOwns DEF Records, Run
  <2>2. CASE i # c.id
    <3>1. proc'[i] = proc[i]
      BY <2>2
    <3>2. ASSUME NEW u \in Task, task[u].pc \in {"wait", "insert"}, task[u].id = i
          PROVE task'[u] = task[u]
      BY <1>1, <2>2, <3>2
    <3> QED BY <3>1, <3>2, InvType DEF Records
  <2> QED BY <2>1, <2>2
<1>4. Calls'
  BY InvType, RunOwns, <1>1 DEF Calls, Run, Id
<1>5. Apart'
  BY InvType, <1>1 DEF Apart, Run
<1> QED BY <1>2, <1>3, <1>4, <1>5

(* A sweep of refresh_job, with or without a call that looks up one record   *)
(* to cancel it.                                                             *)
LEMMA Sweep ==
    ASSUME Inv, NEW S \in SUBSET jobs, RefreshAll(S),
           UNCHANGED <<closed, next_id, jobs>>, gate' = gate \/ gate = {},
           \A u \in Task :
              \/ task'[u] = task[u]
              \/ /\ task[u].pc = "idle" /\ task'[u].pc = "cancel"
                 /\ task'[u].id \in jobs /\ job[task'[u].id].kind = "background"
    PROVE  Alloc' /\ Records' /\ Calls' /\ Apart'
<1>1. /\ \A i \in Id : ~(i \in S /\ Refreshable(i)) => job'[i] = job[i] /\ proc'[i] = proc[i]
      /\ \A i \in Id : i \in S /\ Refreshable(i) =>
                 /\ job'[i].kind = job[i].kind /\ job'[i].status # "running"
                 /\ ~job'[i].child /\ proc'[i] = "dead"
  BY InvType, RefreshEffect
<1>2. Alloc'
  BY <1>1, InvType DEF Alloc, Id
<1>3. Records'
  <2> SUFFICES ASSUME NEW i \in Id
      PROVE /\ i \in jobs => job'[i].kind # "none"
            /\ job'[i].kind = "background" /\ Live(proc'[i])
               => i \in jobs /\ job'[i].status = "running" /\ job'[i].child /\ ~closed
            /\ job'[i].kind = "foreground"
               => /\ ~job'[i].child
                  /\ Live(proc'[i]) => \E u \in Task : task'[u].pc = "wait" /\ task'[u].id = i
            /\ job'[i].kind = "none" /\ Live(proc'[i])
               => \E u \in Task : task'[u].pc = "insert" /\ task'[u].id = i
    BY DEF Records, Id, Live
  <2>1. CASE i \in S /\ Refreshable(i)
    BY <1>1, <2>1, InvType DEF Records, Live
  <2>2. CASE ~(i \in S /\ Refreshable(i))
    <3>1. job'[i] = job[i] /\ proc'[i] = proc[i]
      BY <1>1, <2>2
    <3>2. \A u \in Task : task[u].pc \in {"wait", "insert"} => task'[u] = task[u]
      OBVIOUS
    <3> QED BY <3>1, <3>2, InvType DEF Records
  <2> QED BY <2>1, <2>2
<1>4. Calls'
  <2>1. ASSUME NEW u \in Task, task'[u].pc \in Run
        PROVE  /\ task'[u].id \in jobs /\ job'[task'[u].id].kind = "foreground"
               /\ job'[task'[u].id].status = "running"
    <3>1. task'[u] = task[u]
      BY <2>1 DEF Run
    <3>2. /\ task[u].id \in Id /\ job[task[u].id].kind = "foreground" /\ task[u].id \in jobs
          /\ job[task[u].id].status = "running"
      BY <2>1, <3>1, RunOwns
    <3>3. ~Refreshable(task[u].id)
      BY <3>2, InvType DEF Records, Refreshable
    <3> QED BY <1>1, <3>1, <3>2, <3>3
  <2>2. ASSUME NEW u \in Task, task'[u].pc = "insert"
        PROVE  /\ task'[u].id \in Id /\ task'[u].id <= next_id
               /\ job'[task'[u].id].kind = "none" /\ gate' = {u}
    <3>1. task'[u] = task[u]
      BY <2>2
    <3> QED BY <1>1, <2>2, <3>1, InvType DEF Calls
  <2>3. ASSUME NEW u \in Task, task'[u].pc \in {"cancel", "reap"}
        PROVE  /\ task'[u].id \in Id /\ job'[task'[u].id].kind = "background"
               /\ task'[u].pc = "reap" => ~job'[task'[u].id].child
    BY <1>1, <2>3, InvType DEF Calls
  <2> QED BY <2>1, <2>2, <2>3 DEF Calls, Id, Run
<1>5. Apart'
  <2>1. \A u \in Task : task'[u].pc \in Run => task'[u] = task[u]
    BY DEF Run
  <2> QED BY <2>1, InvType DEF Apart, Run
<1> QED BY <1>2, <1>3, <1>4, <1>5

(* The initial state satisfies the invariant. *)
LEMMA InitInv == Init => Inv
<1> SUFFICES ASSUME Init PROVE Inv
  OBVIOUS
<1>1. Alloc /\ Records /\ Calls /\ Apart /\ Restoring
  BY DEF Init, Alloc, Records, Calls, Apart, Restoring, NoJob, NoTask, Live, Run
<1> QED BY <1>1, InitTInv DEF Inv

(* A foreground run is registered: a new id, a new record. *)
LEMMA RegisterInv ==
    ASSUME Inv, NEW t \in Task, Register(t)
    PROVE  Alloc' /\ Records' /\ Calls' /\ Apart' /\ Restoring'
<1> DEFINE i == next_id + 1
           r == [kind |-> "foreground", status |-> "running", child |-> FALSE]
           c == [task[t] EXCEPT !.pc = "next", !.id = i]
<1>1. i \in Id /\ next_id' = i /\ gate = {} /\ task[t] \in TaskState
  BY InvType, JobAssumption DEF Register, Free, Id
<1>2. r \in JobState
  BY DEF JobState, JobStatus
<1>3. /\ job'[i] = r /\ \A k \in Id : k # i => job'[k] = job[k]
      /\ jobs' \subseteq jobs \cup {i}
      /\ \A k \in jobs \cup {i} : job'[k].status = "running" => k \in jobs'
  <2>1. Insert([job EXCEPT ![i] = r], i)
    BY DEF Register
  <2>2. TInv
    BY InvType
  <2> HIDE DEF i, r
  <2> QED BY InsertEffect, <1>1, <1>2, <2>1, <2>2
<1>4. i \notin jobs /\ job[i].kind = "none" /\ proc[i] = "none"
  BY <1>1, InvType DEF Alloc, Id
<1>5. c.pc = "next" /\ c.id = i
  BY <1>1 DEF TaskState
<1>6. task'[t] = c /\ \A u \in Task : u # t => task'[u] = task[u]
  BY InvType DEF Register, Goto
<1>7. UNCHANGED <<closed, gate, proc, restore>> /\ task[t].pc = "gate"
  BY DEF Register
<1> HIDE DEF i, c
<1>8. Alloc'
  <2>1. \A k \in Id : k > i => k > next_id /\ k # i
    BY <1>1, InvType DEF i, Id
  <2> QED BY <1>1, <1>3, <1>7, <2>1, InvType DEF Alloc, Id
<1>9. Restoring'
  BY <1>1, <1>7, InvType DEF Restoring
<1>10. Records'
  BY <1>1, <1>3, <1>4, <1>5, <1>6, <1>7, InvType DEF Records, Live, Id
<1>11. Calls'
  <2>1. ASSUME NEW u \in Task, task'[u].pc \in Run
        PROVE  /\ task'[u].id \in jobs' /\ job'[task'[u].id].kind = "foreground"
               /\ job'[task'[u].id].status = "running"
    <3>1. CASE u = t
      BY <1>1, <1>3, <1>5, <1>6, <3>1
    <3>2. CASE u # t
      <4>1. task'[u] = task[u] /\ task[u].id \in jobs /\ task[u].id \in Id
        BY <1>6, <2>1, <3>2, RunOwns
      <4>2. job'[task[u].id] = job[task[u].id]
        BY <1>3, <1>4, <4>1
      <4> QED BY <1>3, <2>1, <4>1, <4>2, RunOwns
    <3> QED BY <3>1, <3>2
  <2>2. ASSUME NEW u \in Task, task'[u].pc = "insert" PROVE FALSE
    BY <1>1, <1>5, <1>6, <2>2, InvType DEF Calls
  <2>3. ASSUME NEW u \in Task, task'[u].pc \in {"cancel", "reap"}
        PROVE  /\ task'[u].id \in Id /\ job'[task'[u].id].kind = "background"
               /\ task'[u].pc = "reap" => ~job'[task'[u].id].child
    BY <1>3, <1>4, <1>5, <1>6, <2>3, InvType DEF Calls
  <2> QED BY <2>1, <2>2, <2>3 DEF Calls, Id, Run
<1>12. Apart'
  <2>1. \A u \in Task : task[u].pc \in Run => task[u].id # i
    BY <1>4, RunOwns
  <2> QED BY <1>5, <1>6, <2>1, InvType DEF Apart, Run
<1> QED BY <1>8, <1>9, <1>10, <1>11, <1>12

(* A background process is started: live, its record not yet in the map, the *)
(* gate held.                                                                *)
LEMMA SpawnInv ==
    ASSUME Inv, NEW t \in Task, Spawn(t)
    PROVE  Alloc' /\ Records' /\ Calls' /\ Apart' /\ Restoring'
<1> DEFINE i == next_id + 1
           c == [task[t] EXCEPT !.pc = "insert", !.id = i]
<1>1. CASE Goto(t, NoTask) /\ UNCHANGED <<gate, next_id, proc>>
  BY <1>1, IdleType, CallFrame DEF Spawn, NoTask
<1>2. CASE /\ next_id' = i /\ proc' = [proc EXCEPT ![i] = "alive"]
           /\ gate' = {t} /\ Goto(t, c)
  <2>1. i \in Id /\ gate = {} /\ task[t] \in TaskState
    BY InvType, JobAssumption DEF Spawn, Free, Id
  <2>2. i \notin jobs /\ job[i].kind = "none" /\ proc[i] = "none"
    BY <2>1, InvType DEF Alloc, Id
  <2>3. c.pc = "insert" /\ c.id = i
    BY <2>1 DEF TaskState
  <2>4. task'[t] = c /\ \A u \in Task : u # t => task'[u] = task[u]
    BY <1>2, InvType DEF Goto
  <2>5. UNCHANGED <<closed, jobs, job, restore>> /\ task[t].pc = "gate"
    BY DEF Spawn
  <2>6. proc'[i] = "alive" /\ \A k \in Id : k # i => proc'[k] = proc[k]
    BY <1>2, <2>1, InvType
  <2>7. next_id' = i /\ gate' = {t}
    BY <1>2
  <2>8. \A k \in Id : k > i => k > next_id /\ k # i
    BY <2>1, InvType DEF Id
  <2>9. i <= i /\ next_id <= i
    BY <2>1, InvType DEF Id
  <2>10. \A u \in Task : task[u].pc # "insert"
    BY <2>1, InvType DEF Calls
  <2> HIDE DEF i, c
  <2>11. Alloc'
    BY <2>5, <2>6, <2>7, <2>8, InvType DEF Alloc, Id
  <2>12. Restoring'
    BY <2>1, <2>5, InvType DEF Restoring
  <2>13. Records'
    BY <2>2, <2>3, <2>4, <2>5, <2>6, InvType DEF Records, Live, Id
  <2>14. Calls'
    BY <2>1, <2>2, <2>3, <2>4, <2>5, <2>7, <2>9, <2>10, InvType DEF Calls, Run, Id
  <2>15. Apart'
    BY <2>3, <2>4, InvType DEF Apart, Run
  <2> QED BY <2>11, <2>12, <2>13, <2>14, <2>15
<1> QED BY <1>1, <1>2 DEF Spawn

(* The spawned process gets its record: killed at once if the store closed   *)
(* in between.                                                               *)
LEMMA InsertInv ==
    ASSUME Inv, NEW t \in Task, InsertBackground(t)
    PROVE  Alloc' /\ Records' /\ Calls' /\ Apart' /\ Restoring'
<1> DEFINE i == task[t].id
           st == IF KilledOnInsert THEN "cancelled" ELSE "running"
           r == [kind |-> "background", child |-> TRUE, status |-> st]
<1>1. i \in Id /\ i <= next_id /\ job[i].kind = "none" /\ gate = {t} /\ task[t].pc = "insert"
  BY InvType DEF InsertBackground, Calls
<1>2. r \in JobState
  BY DEF JobState, JobStatus
<1>3. /\ job'[i] = r /\ \A k \in Id : k # i => job'[k] = job[k]
      /\ jobs' \subseteq jobs \cup {i}
      /\ \A k \in jobs \cup {i} : job'[k].status = "running" => k \in jobs'
  <2>1. Insert([job EXCEPT ![i] = r], i)
    BY DEF InsertBackground
  <2>2. TInv
    BY InvType
  <2> HIDE DEF i, r
  <2> QED BY InsertEffect, <1>1, <1>2, <2>1, <2>2
<1>4. /\ closed => proc'[i] = "dead" /\ r.status = "cancelled"
      /\ ~closed => r.status = "running"
      /\ r.kind = "background" /\ r.child
  BY <1>1, InvType DEF InsertBackground, KilledOnInsert
<1>5. \A k \in Id : k # i => proc'[k] = proc[k]
  BY <1>1, InvType DEF InsertBackground
<1>6. task'[t] = NoTask /\ \A u \in Task : u # t => task'[u] = task[u]
  BY InvType DEF InsertBackground, Goto
<1>7. UNCHANGED <<closed, next_id, restore>>
  BY DEF InsertBackground
<1>8. restore # "holding"
  BY <1>1, InvType DEF Restoring
<1>9. \A u \in Task : u # t => task[u].pc # "insert"
  BY <1>1, InvType DEF Calls
<1> HIDE DEF i, st, r
<1>10. Alloc'
  BY <1>1, <1>3, <1>5, <1>7, InvType DEF Alloc, Id
<1>11. Restoring'
  BY <1>7, <1>8 DEF Restoring
<1>12. Records'
  <2> SUFFICES ASSUME NEW k \in Id
      PROVE /\ k \in jobs' => job'[k].kind # "none"
            /\ job'[k].kind = "background" /\ Live(proc'[k])
               => k \in jobs' /\ job'[k].status = "running" /\ job'[k].child /\ ~closed'
            /\ job'[k].kind = "foreground"
               => /\ ~job'[k].child
                  /\ Live(proc'[k]) => \E u \in Task : task'[u].pc = "wait" /\ task'[u].id = k
            /\ job'[k].kind = "none" /\ Live(proc'[k])
               => \E u \in Task : task'[u].pc = "insert" /\ task'[u].id = k
    BY DEF Records, Id, Live
  <2>1. CASE k = i
    BY <1>3, <1>4, <1>7, <2>1 DEF Live
  <2>2. CASE k # i
    <3>1. job'[k] = job[k] /\ proc'[k] = proc[k]
      BY <1>3, <1>5, <2>2
    <3>2. \A u \in Task : task[u].pc = "wait" => task'[u] = task[u]
      BY <1>1, <1>6
    <3>3. \A u \in Task : task[u].pc = "insert" => task[u].id # k
      BY <1>9, <2>2 DEF i
    <3>4. k \in jobs /\ job[k].status = "running" => k \in jobs'
      BY <1>3, <3>1
    <3>5. k \in jobs' => k \in jobs
      BY <1>3, <2>2
    <3> QED BY <1>7, <3>1, <3>2, <3>3, <3>4, <3>5, InvType DEF Records
  <2> QED BY <2>1, <2>2
<1>13. Calls'
  <2>1. ASSUME NEW u \in Task, task'[u].pc \in Run
        PROVE  /\ task'[u].id \in jobs' /\ job'[task'[u].id].kind = "foreground"
               /\ job'[task'[u].id].status = "running"
    <3>1. u # t
      BY <1>6, <2>1 DEF NoTask, Run
    <3>2. task'[u] = task[u] /\ task[u].id \in jobs /\ task[u].id \in Id
          /\ job[task[u].id].kind = "foreground" /\ job[task[u].id].status = "running"
      BY <1>6, <2>1, <3>1, RunOwns
    <3>3. job'[task[u].id] = job[task[u].id]
      BY <1>1, <1>3, <3>2
    <3> QED BY <1>3, <3>2, <3>3
  <2>2. ASSUME NEW u \in Task, task'[u].pc = "insert" PROVE FALSE
    BY <1>6, <1>9, <2>2 DEF NoTask
  <2>3. ASSUME NEW u \in Task, task'[u].pc \in {"cancel", "reap"}
        PROVE  /\ task'[u].id \in Id /\ job'[task'[u].id].kind = "background"
               /\ task'[u].pc = "reap" => ~job'[task'[u].id].child
    BY <1>1, <1>3, <1>6, <2>3, InvType DEF Calls, NoTask
  <2> QED BY <2>1, <2>2, <2>3 DEF Calls, Id, Run
<1>14. Apart'
  BY <1>6, InvType DEF Apart, Run, NoTask
<1> QED BY <1>10, <1>11, <1>12, <1>13, <1>14

(* A run publishes its status: nothing of it is alive any more. *)
LEMMA PublishInv ==
    ASSUME Inv, NEW t \in Task, Publish(t)
    PROVE  Alloc' /\ Records' /\ Calls' /\ Apart' /\ Restoring'
<1> DEFINE i == task[t].id
<1>1. task[t].pc \in Run /\ task[t].pc # "wait"
  BY DEF Publish, Run
<1>2. /\ i \in Id /\ i <= next_id /\ i \in jobs /\ ~Live(proc[i])
      /\ job[i].kind = "foreground" /\ job[i].status = "running" /\ job[i] \in JobState
  BY <1>1, RunOwns, InvType
<1>3. /\ job'[i].kind = "foreground" /\ job'[i].child = job[i].child
      /\ \A k \in Id : k # i => job'[k] = job[k]
  BY <1>2, InvType DEF Publish, JobState
<1>4. task'[t] = NoTask /\ \A u \in Task : u # t => task'[u] = task[u]
  BY InvType DEF Publish, Goto
<1>5. UNCHANGED <<closed, gate, next_id, jobs, proc, restore>>
  BY DEF Publish
<1>6. restore # "holding"
  BY <1>2, InvType DEF Restoring
<1>7. \A u \in Task : u # t /\ task[u].pc \in Run => task[u].id # i
  BY <1>1, InvType DEF Apart
<1> HIDE DEF i
<1>8. Alloc'
  BY <1>2, <1>3, <1>5, InvType DEF Alloc, Id
<1>9. Restoring'
  BY <1>5, <1>6 DEF Restoring
<1>10. Records'
  BY <1>1, <1>2, <1>3, <1>4, <1>5, <1>7, InvType DEF Records, Live, Id, Run
<1>11. Calls'
  BY <1>2, <1>3, <1>4, <1>5, <1>7, InvType, RunOwns DEF Calls, Run, Id, NoTask
<1>12. Apart'
  BY <1>4, InvType DEF Apart, Run, NoTask
<1> QED BY <1>8, <1>9, <1>10, <1>11, <1>12

(* cancel_job kills the child of a background record. *)
LEMMA CancelKillInv ==
    ASSUME Inv, NEW t \in Task, CancelKill(t)
    PROVE  Alloc' /\ Records' /\ Calls' /\ Apart' /\ Restoring'
<1> DEFINE i == task[t].id
           c == [task[t] EXCEPT !.pc = "reap", !.child = job[i].child]
<1>1. /\ task[t].pc = "cancel" /\ task[t] \in TaskState
      /\ i \in Id /\ job[i].kind = "background" /\ job[i] \in JobState
  BY InvType DEF CancelKill, Calls
<1>2. CASE job[i].status # "running"
  BY <1>1, <1>2, IdleType, CallFrame DEF CancelKill, NoTask
<1>3. CASE job[i].status = "running"
  <2>1. /\ job'[i].kind = "background" /\ job'[i].status = "running" /\ ~job'[i].child
        /\ \A k \in Id : k # i => job'[k] = job[k]
    BY <1>1, <1>3, InvType DEF CancelKill, JobState
  <2>2. ~Live(proc'[i]) /\ \A k \in Id : k # i => proc'[k] = proc[k]
    BY <1>1, <1>3, InvType DEF CancelKill, Live, Records
  <2>3. task'[t] = c /\ \A u \in Task : u # t => task'[u] = task[u]
    BY <1>3, InvType DEF CancelKill, Goto
  <2>4. c.pc = "reap" /\ c.id = i
    BY <1>1 DEF TaskState
  <2>5. UNCHANGED <<closed, gate, next_id, jobs, restore>>
    BY DEF CancelKill
  <2>6. i <= next_id
    BY <1>1, InvType DEF Alloc, Id
  <2> HIDE DEF i, c
  <2>7. Alloc'
    BY <2>1, <2>2, <2>5, <2>6, InvType DEF Alloc, Id
  <2>8. Restoring'
    BY <1>3, <2>1, <2>5, InvType DEF Restoring
  <2>9. Records'
    BY <1>1, <2>1, <2>2, <2>3, <2>4, <2>5, InvType DEF Records, Live, Id
  <2>10. Calls'
    BY <1>1, <2>1, <2>3, <2>4, <2>5, InvType, RunOwns DEF Calls, Run, Id
  <2>11. Apart'
    BY <2>3, <2>4, InvType DEF Apart, Run
  <2> QED BY <2>7, <2>8, <2>9, <2>10, <2>11
<1> QED BY <1>2, <1>3

(* cancel_job marks the record after the wait: its child was killed before. *)
LEMMA CancelReapInv ==
    ASSUME Inv, NEW t \in Task, CancelReap(t)
    PROVE  Alloc' /\ Records' /\ Calls' /\ Apart' /\ Restoring'
<1> DEFINE i == task[t].id
<1>1. /\ task[t].pc = "reap" /\ i \in Id /\ job[i].kind = "background" /\ job[i] \in JobState
      /\ ~job[i].child
  BY InvType DEF CancelReap, Calls
<1>2. CASE UNCHANGED job
  BY <1>1, <1>2, IdleType, CallFrame DEF CancelReap, NoTask
<1>3. CASE job' = [job EXCEPT ![i].status = "cancelled"]
  <2>1. /\ job'[i].kind = "background" /\ job'[i].status = "cancelled" /\ ~job'[i].child
        /\ \A k \in Id : k # i => job'[k] = job[k]
    BY <1>1, <1>3, InvType DEF JobState
  <2>2. ~Live(proc[i]) /\ i <= next_id
    BY <1>1, InvType DEF Records, Alloc, Id
  <2>3. task'[t] = NoTask /\ \A u \in Task : u # t => task'[u] = task[u]
    BY InvType DEF CancelReap, Goto
  <2>4. UNCHANGED <<closed, gate, next_id, jobs, proc, restore>>
    BY DEF CancelReap
  <2> HIDE DEF i
  <2>5. Alloc'
    BY <2>1, <2>2, <2>4, InvType DEF Alloc, Id
  <2>6. Restoring'
    BY <2>1, <2>4, InvType DEF Restoring
  <2>7. Records'
    BY <1>1, <2>1, <2>2, <2>3, <2>4, InvType DEF Records, Live, Id
  <2>8. Calls'
    BY <1>1, <2>1, <2>3, <2>4, InvType, RunOwns DEF Calls, Run, Id, NoTask
  <2>9. Apart'
    BY <2>3, InvType DEF Apart, Run, NoTask
  <2> QED BY <2>5, <2>6, <2>7, <2>8, <2>9
<1> QED BY <1>2, <1>3 DEF CancelReap

(* shutdown kills and marks every background child that runs. *)
LEMMA ShutdownInv ==
    ASSUME Inv, Shutdown
    PROVE  Alloc' /\ Records' /\ Calls' /\ Apart' /\ Restoring'
<1> DEFINE R == {i \in jobs : job[i].status = "running" /\ job[i].child}
<1>1. closed' = TRUE /\ UNCHANGED <<gate, next_id, jobs, task, restore>>
  BY DEF Shutdown
<1>2. \A i \in Id : i \notin R => job'[i] = job[i] /\ proc'[i] = proc[i]
  BY DEF Shutdown
<1>3. ASSUME NEW i \in Id, i \in R
      PROVE  /\ job'[i].kind = job[i].kind /\ job'[i].child = job[i].child
             /\ job'[i].status = "cancelled" /\ proc'[i] = "dead"
  <2>1. job[i] \in JobState
    BY InvType
  <2> QED BY <1>3, <2>1 DEF Shutdown, JobState
<1>4. \A t \in Task : task[t].pc \in Run => task[t].id \notin R
  BY RunOwns, InvType DEF Records
<1>5. \A i \in Id : i \in R => job[i].kind = "background"
  BY InvType DEF Records, JobState
<1>6. \A i \in Id : job[i].kind = "background" /\ Live(proc[i]) => i \in R
  BY InvType DEF Records
<1> HIDE DEF R
<1>7. Alloc'
  BY <1>1, <1>2, <1>3, <1>5, InvType DEF Alloc, Id
<1>8. Restoring'
  BY <1>1, <1>2, <1>3, InvType DEF Restoring
<1>9. Records'
  BY <1>1, <1>2, <1>3, <1>5, <1>6, InvType DEF Records, Live, Id
<1>10. Calls'
  BY <1>1, <1>2, <1>3, <1>4, InvType, RunOwns DEF Calls, Run, Id
<1>11. Apart'
  BY <1>1, InvType DEF Apart, Run
<1> QED BY <1>7, <1>8, <1>9, <1>10, <1>11

(* As long as nobody cancels a foreground run through the job tool, every    *)
(* step keeps the invariant.                                                 *)
LEMMA NextInv == ~CancelForeground /\ Inv /\ [Next]_vars => Inv'
<1> SUFFICES ASSUME ~CancelForeground, Inv, [Next]_vars PROVE Inv'
  OBVIOUS
<1> DEFINE G == Alloc' /\ Records' /\ Calls' /\ Apart' /\ Restoring'
<1>0. SUFFICES G
  BY NextTInv DEF Inv
<1>1. ASSUME NEW t \in Task, Call(t) PROVE G
  <2>1. task[t].pc = "idle" /\ UNCHANGED <<closed, gate, next_id, jobs, job, proc, restore>>
    BY <1>1 DEF Call
  <2>2. CASE \E n \in 1 .. MaxSteps : Goto(t, [NoTask EXCEPT !.pc = "gate", !.kind = "foreground",
                                                           !.steps = n, !.left = n])
    <3>1. PICK n \in 1 .. MaxSteps : Goto(t, [NoTask EXCEPT !.pc = "gate", !.kind = "foreground",
                                                            !.steps = n, !.left = n])
      BY <2>2
    <3>2. n \in 0 .. MaxSteps
      BY JobAssumption
    <3>3. [NoTask EXCEPT !.pc = "gate", !.kind = "foreground", !.steps = n, !.left = n] \in TaskState
      BY <3>2, IdleType DEF TaskState
    <3> QED BY <2>1, <3>1, <3>3, CallFrame DEF NoTask
  <2>3. CASE Goto(t, [NoTask EXCEPT !.pc = "gate", !.kind = "background"])
    <3>1. [NoTask EXCEPT !.pc = "gate", !.kind = "background"] \in TaskState
      BY IdleType DEF TaskState
    <3> QED BY <2>1, <2>3, <3>1, CallFrame DEF NoTask
  <2> QED BY <1>1, <2>2, <2>3 DEF Call
<1>2. ASSUME NEW t \in Task, Refuse(t) PROVE G
  BY <1>2, IdleType, CallFrame DEF Refuse, NoTask
<1>3. ASSUME NEW t \in Task, NextStep(t) PROVE G
  <2> DEFINE i == task[t].id
  <2>0. /\ task[t] \in TaskState /\ task[t].pc = "next" /\ task[t].left > 0 /\ i \in Id
        /\ ~Live(proc[i]) /\ UNCHANGED <<closed, gate, next_id, jobs, job, restore>>
    BY <1>3, InvType, RunOwns DEF NextStep, StepsLeft, Run
  <2>1. task[t].left - 1 \in 0 .. MaxSteps
    BY <2>0, JobAssumption DEF TaskState
  <2>2. ASSUME NEW c \in TaskState, c.pc \in Run, c.id = i, Goto(t, c), UNCHANGED proc PROVE G
    BY <2>0, <2>2, RunStep DEF Run
  <2>3. CASE Goto(t, [task[t] EXCEPT !.pc = "wait"]) /\ proc' = [proc EXCEPT ![i] = "alive"]
    <3> DEFINE c == [task[t] EXCEPT !.pc = "wait"]
    <3>1. c \in TaskState /\ c.pc = "wait" /\ c.id = i
      BY <2>0 DEF TaskState
    <3>2. \A k \in Id : k # i => proc'[k] = proc[k]
      BY <2>3, InvType
    <3>3. Goto(t, c)
      BY <2>3
    <3> HIDE DEF c
    <3> QED BY <2>0, <3>1, <3>2, <3>3, RunStep DEF Run
  <2>4. CASE Goto(t, [task[t] EXCEPT !.left = @ - 1]) /\ UNCHANGED proc
    <3> DEFINE c == [task[t] EXCEPT !.left = @ - 1]
    <3>1. c \in TaskState /\ c.pc = "next" /\ c.id = i
      BY <2>0, <2>1 DEF TaskState
    <3> QED BY <2>2, <2>4, <3>1 DEF Run
  <2>5. CASE Goto(t, [task[t] EXCEPT !.pc = "abandon"]) /\ UNCHANGED proc
    <3> DEFINE c == [task[t] EXCEPT !.pc = "abandon"]
    <3>1. c \in TaskState /\ c.pc = "abandon" /\ c.id = i
      BY <2>0 DEF TaskState
    <3> QED BY <2>2, <2>5, <3>1 DEF Run
  <2>6. CASE Goto(t, [task[t] EXCEPT !.status = "failed", !.left = @ - 1]) /\ UNCHANGED proc
    <3> DEFINE c == [task[t] EXCEPT !.status = "failed", !.left = @ - 1]
    <3>1. c \in TaskState /\ c.pc = "next" /\ c.id = i
      BY <2>0, <2>1 DEF TaskState, JobStatus
    <3> QED BY <2>2, <2>6, <3>1 DEF Run
  <2> QED BY <1>3, <2>3, <2>4, <2>5, <2>6 DEF NextStep
<1>4. ASSUME NEW t \in Task, task[t].pc = "wait", NEW c \in TaskState, Goto(t, c),
             c.pc \in Run, c.id = task[t].id,
             proc' = [proc EXCEPT ![task[t].id] = AfterStep(@)],
             UNCHANGED <<closed, gate, next_id, jobs, job, restore>>
      PROVE  G
  <2>1. task[t].id \in Id
    BY <1>4, RunOwns DEF Run
  <2>2. ~Live(proc'[c.id]) /\ \A k \in Id : k # c.id => proc'[k] = proc[k]
    BY <1>4, <2>1, InvType DEF AfterStep, Live
  <2> QED BY <1>4, <2>2, RunStep DEF Run
<1>5. ASSUME NEW t \in Task, StepExits(t) PROVE G
  <2>1. PICK s \in {"completed", "failed"} :
             Goto(t, [task[t] EXCEPT !.pc = "next", !.left = @ - 1, !.status = s])
    BY <1>5 DEF StepExits
  <2> DEFINE c == [task[t] EXCEPT !.pc = "next", !.left = @ - 1, !.status = s]
  <2>2. task[t] \in TaskState /\ task[t].left > 0 /\ task[t].pc = "wait"
    BY <1>5, InvType DEF StepExits, TInv, StepFits
  <2>3. task[t].left - 1 \in 0 .. MaxSteps
    BY <2>2, JobAssumption DEF TaskState
  <2>4. c \in TaskState /\ c.pc = "next" /\ c.id = task[t].id
    BY <2>2, <2>3 DEF TaskState, JobStatus
  <2>5. Goto(t, c)
    BY <2>1
  <2> HIDE DEF c
  <2> QED BY <1>4, <1>5, <2>2, <2>4, <2>5 DEF StepExits, Run
<1>6. ASSUME NEW t \in Task, NEW reason \in JobStatus, StepKilled(t, reason) PROVE G
  <2> DEFINE c == [task[t] EXCEPT !.pc = "publish", !.status = reason]
  <2>1. task[t] \in TaskState /\ task[t].pc = "wait" /\ Goto(t, c)
    BY <1>6, InvType DEF StepKilled
  <2>2. c \in TaskState /\ c.pc = "publish" /\ c.id = task[t].id
    BY <2>1 DEF TaskState
  <2> HIDE DEF c
  <2> QED BY <1>4, <1>6, <2>1, <2>2 DEF StepKilled, Run
<1>7. ASSUME NEW t \in Task, WaitFails(t) PROVE G
  <2> DEFINE c == [task[t] EXCEPT !.pc = "abandon"]
  <2>1. task[t] \in TaskState /\ task[t].pc = "wait" /\ Goto(t, c)
    BY <1>7, InvType DEF WaitFails
  <2>2. c \in TaskState /\ c.pc = "abandon" /\ c.id = task[t].id
    BY <2>1 DEF TaskState
  <2> HIDE DEF c
  <2> QED BY <1>4, <1>7, <2>1, <2>2 DEF WaitFails, Run
<1>8. ASSUME NEW i \in Id, Snapshot(i) PROVE G
  <2>1. {i} \in SUBSET jobs /\ RefreshAll({i}) /\ UNCHANGED <<closed, gate, next_id, jobs, task, restore>>
    BY <1>8 DEF Snapshot
  <2>2. Alloc' /\ Records' /\ Calls' /\ Apart'
    BY <2>1, Sweep
  <2>3. \A k \in jobs : job'[k] = job[k] \/ job'[k].status # "running"
    BY <2>1, InvType, RefreshEffect
  <2> QED BY <2>1, <2>2, <2>3, InvType DEF Restoring
<1>9. ASSUME NEW t \in Task, Cancel(t) PROVE G
  <2>1. PICK i \in jobs : /\ job[i].kind = "background" /\ RefreshAll({i})
                          /\ Goto(t, [NoTask EXCEPT !.pc = "cancel", !.id = i])
    BY <1>9 DEF Cancel
  <2>2. task[t].pc = "idle" /\ UNCHANGED <<closed, gate, next_id, jobs, restore>>
    BY <1>9 DEF Cancel
  <2>3. /\ task'[t].pc = "cancel" /\ task'[t].id = i
        /\ \A u \in Task : u # t => task'[u] = task[u]
    BY <2>1, InvType DEF Goto, NoTask
  <2>4. {i} \in SUBSET jobs /\ {i} \in SUBSET Id
    BY InvType
  <2>5. Alloc' /\ Records' /\ Calls' /\ Apart'
    BY <2>1, <2>2, <2>3, <2>4, Sweep
  <2>6. \A k \in jobs : job'[k] = job[k] \/ job'[k].status # "running"
    BY <2>1, <2>4, InvType, RefreshEffect
  <2> QED BY <2>2, <2>5, <2>6, InvType DEF Restoring
<1>10. ASSUME NEW i \in Id, LeaderExits(i) PROVE G
  <2>1. /\ proc[i] = "alive" /\ proc'[i] = "exited" /\ \A k \in Id : k # i => proc'[k] = proc[k]
        /\ UNCHANGED <<closed, gate, next_id, jobs, job, task, restore>>
    BY <1>10, InvType DEF LeaderExits
  <2>2. Alloc' /\ Restoring'
    BY <2>1, InvType DEF Alloc, Restoring, Id
  <2>3. Records'
    BY <2>1, InvType DEF Records, Live, Id
  <2>4. Calls' /\ Apart'
    BY <2>1, InvType DEF Calls, Apart, Run, Id
  <2> QED BY <2>2, <2>3, <2>4
<1>11. ASSUME UNCHANGED <<closed, next_id, jobs, job, proc, task>>, gate' = gate \/ gate = {},
              restore' # "holding" PROVE Alloc' /\ Records' /\ Calls' /\ Apart'
  <2>1. Alloc' /\ Records' /\ Apart'
    BY <1>11, InvType DEF Alloc, Records, Apart, Live, Id, Run
  <2>2. Calls'
    BY <1>11, InvType DEF Calls, Id, Run
  <2> QED BY <2>1, <2>2
<1>12. ASSUME RestoreCall PROVE G
  BY <1>11, <1>12 DEF RestoreCall, Restoring
<1>13. ASSUME IdleWorkspace PROVE G
  <2>1. Alloc' /\ Records' /\ Calls' /\ Apart'
    BY <1>13, Sweep DEF IdleWorkspace, Free
  <2>2. \A i \in jobs : job'[i].status # "running"
    BY <1>13, InvType, RefreshEffect DEF IdleWorkspace, IdleJob
  <2> QED BY <1>13, <2>1, <2>2 DEF IdleWorkspace, Restoring
<1>14. ASSUME RestoreRefused PROVE G
  <2>1. PICK S \in SUBSET jobs : RefreshAll(S)
    BY <1>14 DEF RestoreRefused
  <2>2. Alloc' /\ Records' /\ Calls' /\ Apart'
    BY <1>14, <2>1, Sweep DEF RestoreRefused
  <2> QED BY <1>14, <2>2 DEF RestoreRefused, Restoring
<1>15. ASSUME RestoreDone PROVE G
  <2>1. gate = {"restore"} /\ restore = "holding"
    BY <1>15, InvType DEF RestoreDone, Restoring
  <2>2. \A t \in Task : task[t].pc # "insert"
    BY <2>1, InvType DEF Calls
  <2>3. Alloc' /\ Records' /\ Apart' /\ Restoring'
    BY <1>15, InvType DEF RestoreDone, Alloc, Records, Apart, Restoring, Live, Id, Run
  <2>4. Calls'
    BY <1>15, <2>2, InvType DEF RestoreDone, Calls, Id, Run
  <2> QED BY <2>3, <2>4
<1>16. ASSUME UNCHANGED vars PROVE G
  BY <1>16, InvType DEF vars, Alloc, Records, Calls, Apart, Restoring, Live, Id, Run
<1> QED
  BY <1>1, <1>2, <1>3, <1>5, <1>6, <1>7, <1>8, <1>9, <1>10, <1>12, <1>13, <1>14, <1>15, <1>16,
     RegisterInv, SpawnInv, InsertInv, PublishInv, CancelKillInv, CancelReapInv, ShutdownInv
     DEF Next, AtGate, Goes, Killed

(* The invariant holds in every reachable state. *)
LEMMA Invariance == ~CancelForeground /\ Spec => []Inv
<1>1. ASSUME ~CancelForeground, Inv, [Next]_vars PROVE Inv'
  BY <1>1, NextInv
<1>2. SUFFICES ASSUME ~CancelForeground PROVE Spec => []Inv
  OBVIOUS
<1>3. Inv /\ [Next]_vars => Inv'
  BY <1>1, <1>2
<1> QED BY <1>3, InitInv, PTL DEF Spec

(* A restore clears and rewrites a workspace in which no process of a job    *)
(* runs: none that is registered, none between its spawn and its insert,     *)
(* and nothing a finished one left behind.                                   *)
THEOREM RestoreFindsIdle == ~CancelForeground /\ Spec => []RestoreIdle
<1>1. ASSUME Inv, restore = "holding", NEW i \in Id, Live(proc[i]) PROVE FALSE
  <2>1. gate = {"restore"} /\ \A k \in jobs : job[k].status # "running"
    BY <1>1, InvType DEF Restoring
  <2>2. job[i].kind \in {"none", "foreground", "background"}
    BY <1>1, InvType DEF JobState
  <2>3. CASE job[i].kind = "background"
    BY <1>1, <2>1, <2>3, InvType DEF Records
  <2>4. CASE job[i].kind = "foreground"
    <3>1. PICK t \in Task : task[t].pc = "wait" /\ task[t].id = i
      BY <1>1, <2>4, InvType DEF Records
    <3> QED BY <1>1, <2>1, <3>1, RunOwns DEF Run
  <2>5. CASE job[i].kind = "none"
    <3>1. PICK t \in Task : task[t].pc = "insert" /\ task[t].id = i
      BY <1>1, <2>5, InvType DEF Records
    <3> QED BY <1>1, <2>1, <3>1, InvType DEF Calls
  <2> QED BY <2>2, <2>3, <2>4, <2>5
<1>2. Inv => RestoreIdle
  BY <1>1 DEF RestoreIdle
<1> QED BY <1>2, Invariance, PTL

(* A record that says its job is over is right: its process group is gone. *)
THEOREM FinishedRecordsAreRight == ~CancelForeground /\ Spec => []FinishedIsDead
<1>1. ASSUME Inv, NEW i \in Id, job[i].kind # "none", job[i].status # "running", Live(proc[i])
      PROVE  FALSE
  <2>1. CASE job[i].kind = "background"
    BY <1>1, <2>1, InvType DEF Records
  <2>2. CASE job[i].kind = "foreground"
    <3>1. PICK t \in Task : task[t].pc = "wait" /\ task[t].id = i
      BY <1>1, <2>2, InvType DEF Records
    <3> QED BY <1>1, <3>1, RunOwns DEF Run
  <2> QED BY <1>1, <2>1, <2>2, InvType DEF JobState
<1>2. Inv => FinishedIsDead
  BY <1>1 DEF FinishedIsDead
<1> QED BY <1>2, Invariance, PTL

(* After shutdown no background process outlives its registration, however   *)
(* the sweep and the spawns interleave.                                      *)
THEOREM ShutdownReachesAll == ~CancelForeground /\ Spec => []ShutdownReaches
<1>1. ASSUME Inv, closed, NEW i \in Id, Live(proc[i])
      PROVE  job[i].kind = "foreground" \/ \E t \in Task : task[t].pc = "insert" /\ task[t].id = i
  BY <1>1, InvType DEF Records, JobState
<1>2. Inv => ShutdownReaches
  BY <1>1 DEF ShutdownReaches
<1> QED BY <1>2, Invariance, PTL

(* Eviction never takes the record of a run that is under way. *)
THEOREM RunsKeepTheirRecord == ~CancelForeground /\ Spec => []RunFindsRecord
<1>1. Inv => RunFindsRecord
  BY InvType DEF Calls, Run, RunFindsRecord
<1> QED BY <1>1, Invariance, PTL

-----------------------------------------------------------------------------
-----------------------------------------------------------------------------
(* The inductive invariant *)

(* Dispatches are numbered in the order they are issued. *)
UnissuedIdle == \A d \in Dispatch : d > issued => call[d].pc = "idle"

(* Before insert_agent, a dispatch has neither a record nor a child. *)
NotEntered ==
    \A d \in Dispatch : call[d].pc \in {"idle", "check", "insert"} =>
        d \notin agents /\ record[d] = NoRecord /\ child[d] = NoChild

(* A turn that has a successor is cancelled, and no call is ahead of its turn. *)
OldTurnsCancelled ==
    /\ \A t \in Turn : t < turn => t \in cancelled
    /\ \A d \in Dispatch : call[d].turn <= turn

Active(c) == c.pc \notin {"idle", "returned"}

(* The loop of a turn has one writing dispatch out at most. *)
OneWriterATurn ==
    \A d, e \in Dispatch :
        /\ d # e /\ Active(call[d]) /\ Active(call[e])
        /\ allows_writes(call[d].role) /\ allows_writes(call[e].role)
        => call[d].turn # call[e].turn

SubInv ==
    /\ SubTypeOK /\ UnissuedIdle /\ NotEntered /\ OldTurnsCancelled /\ OneWriterATurn
    /\ RunningIsListed /\ ReturnedIsStopped

-----------------------------------------------------------------------------
(* Lemmas *)

LEMMA MaxConcurrentNat == MaxConcurrent \in Nat
  BY SubAgentAssumption DEF MaxConcurrent

LEMMA DispatchFinite == IsFiniteSet(Dispatch)
  BY SubAgentAssumption, FS_Interval DEF Dispatch

LEMMA StepsStart == 0 \in 0 .. MaxAgentSteps
  BY SubAgentAssumption

(* The dispatches under way. *)
Out == {d \in Dispatch : UnderWay(d)}

LEMMA OutShrinks ==
    ASSUME SubTypeOK, Cardinality(Out) <= MaxConcurrent, Out' \subseteq Out
    PROVE  Cardinality(Out') <= MaxConcurrent
<1>1. IsFiniteSet(Out) /\ IsFiniteSet(Out')
  BY DispatchFinite, FS_Subset DEF Out
<1>2. Cardinality(Out') <= Cardinality(Out)
  BY <1>1, FS_Subset
<1>3. Cardinality(Out) \in Nat /\ Cardinality(Out') \in Nat
  BY <1>1, FS_CardinalityType
<1> QED
  BY <1>2, <1>3, MaxConcurrentNat

(* A call goes on, within its turn and role and past its first check. *)
GoesOn(d) ==
    /\ call[d].pc # "idle" /\ call'[d].pc \notin {"idle", "check"}
    /\ Active(call'[d]) => Active(call[d])
    /\ call'[d].turn = call[d].turn /\ call'[d].role = call[d].role
    /\ \A e \in Dispatch \ {d} : call'[e] = call[e] /\ child'[e] = child[e]
    /\ UNCHANGED <<turn, cancelled, shutdown, issued>>

LEMMA GoesOnKeeps ==
    ASSUME SubInv, NEW d \in Dispatch, GoesOn(d)
    PROVE  UnissuedIdle' /\ OldTurnsCancelled' /\ OneWriterATurn'
<1>1. UnissuedIdle'
  BY DEF SubInv, UnissuedIdle, GoesOn
<1>2. OldTurnsCancelled'
  BY DEF SubInv, OldTurnsCancelled, GoesOn
<1>3. OneWriterATurn'
  BY DEF SubInv, OneWriterATurn, GoesOn
<1> QED
  BY <1>1, <1>2, <1>3

(* A step of a dispatch that has been entered and leaves the ledger alone. *)
LEMMA ChildStepKeeps ==
    ASSUME SubInv, SubTypeOK', NEW d \in Dispatch, GoesOn(d), UNCHANGED <<agents, record>>,
           call[d].pc \notin {"check", "insert"}, call'[d].pc # "insert",
           UnderWay(d)' => UnderWay(d),
           call'[d].pc = "returned" => child'[d].loop # "live" \/ child'[d].token
    PROVE  SubInv'
<1>1. UnissuedIdle' /\ OldTurnsCancelled' /\ OneWriterATurn'
  BY GoesOnKeeps
<1>2. NotEntered'
  BY DEF SubInv, NotEntered, GoesOn
<1>3. \A e \in Dispatch : UnderWay(e)' => UnderWay(e)
  BY DEF GoesOn, UnderWay
<1>4. RunningIsListed'
  <2>1. Out' \subseteq Out
    BY <1>3 DEF Out
  <2>2. ~shutdown => Cardinality(Out') <= MaxConcurrent
    BY <2>1, OutShrinks DEF SubInv, RunningIsListed, Out
  <2> QED
    BY <1>3, <2>2 DEF SubInv, RunningIsListed, GoesOn, Out
<1>5. ReturnedIsStopped'
  BY DEF SubInv, ReturnedIsStopped, GoesOn
<1> QED
  BY <1>1, <1>2, <1>4, <1>5 DEF SubInv

-----------------------------------------------------------------------------
(* Steps *)

LEMMA SubInitInv ==
    ASSUME SubInit
    PROVE  SubInv
<1>1. SubTypeOK
  <2>1. NoRecord \in Record /\ NoChild \in Child
    BY DEF NoRecord, Record, Role, Status, NoChild, Child
  <2>2. 1 \in Turn /\ 0 \in 0 .. MaxDispatch
    BY SubAgentAssumption DEF Turn
  <2>3. NoCall \in DispatchCall
    BY <2>2, StepsStart DEF NoCall, DispatchCall, Role, Reason
  <2> QED
    BY <2>1, <2>2, <2>3 DEF SubInit, SubTypeOK
<1>2. \A d \in Dispatch : call[d].pc = "idle" /\ call[d].turn = 1
  BY DEF SubInit, NoCall
<1>3. Out = {}
  BY <1>2 DEF Out, UnderWay
<1>4. RunningIsListed
  BY <1>2, <1>3, FS_EmptySet, MaxConcurrentNat DEF RunningIsListed, UnderWay, Out
<1>5. UnissuedIdle /\ NotEntered /\ OldTurnsCancelled /\ OneWriterATurn /\ ReturnedIsStopped
  BY <1>2, SubAgentAssumption DEF SubInit, UnissuedIdle, NotEntered, OldTurnsCancelled, OneWriterATurn, Active,
     ReturnedIsStopped, Turn
<1> QED
  BY <1>1, <1>4, <1>5 DEF SubInv

LEMMA SubNextType ==
    ASSUME SubTypeOK, [SubNext]_subVars
    PROVE  SubTypeOK'
<1> USE DEF SubTypeOK
<1>1. ASSUME NEW role \in Role, Issue(role)
      PROVE  SubTypeOK'
  <2>1. [NoCall EXCEPT !.pc = "check", !.turn = turn, !.role = role] \in DispatchCall
    BY StepsStart DEF NoCall, DispatchCall, Reason
  <2>2. issued + 1 \in Dispatch
    BY <1>1, SubAgentAssumption DEF Issue, Dispatch
  <2> QED
    BY <1>1, <2>1, <2>2, SubAgentAssumption DEF Issue, Go, Dispatch
<1>2. CASE CancelParent \/ NextTurn
  <2>1. turn' \in Turn
    BY <1>2, SubAgentAssumption DEF CancelParent, NextTurn, Turn
  <2>2. cancelled' \subseteq Turn
    BY <1>2 DEF CancelParent, NextTurn
  <2> QED
    BY <1>2, <2>1, <2>2 DEF CancelParent, NextTurn
<1>3. CASE CancelAllRunning
  BY <1>3 DEF CancelAllRunning, Record, Status
<1>4. ASSUME NEW d \in Dispatch,
             \/ Check(d) \/ InsertAgent(d) \/ StartChild(d) \/ Interrupt(d)
             \/ ChildTool(d) \/ ChildAsks(d) \/ Answer(d) \/ ChildEnds(d)
             \/ RunnerPanics(d) \/ GraceExpires(d) \/ Finalize(d) \/ Return(d)
      PROVE  SubTypeOK'
  <2>0. call[d] \in DispatchCall /\ child[d] \in Child /\ record[d] \in Record
    OBVIOUS
  <2>1. call' \in [Dispatch -> DispatchCall]
    <3>1. \A c \in DispatchCall : Go(d, c) => call' \in [Dispatch -> DispatchCall]
      BY DEF Go
    <3>2. ASSUME NEW why \in Reason
          PROVE  Returns(d, why) => call' \in [Dispatch -> DispatchCall]
      <4>1. Outcome(d, why) \in Reason
        BY <2>0 DEF Outcome, DispatchCall
      <4>2. [call[d] EXCEPT !.pc = "settle", !.why = Outcome(d, why), !.steps = 0] \in DispatchCall
        BY <2>0, <4>1, StepsStart DEF DispatchCall
      <4> QED
        BY <3>1, <4>2 DEF Returns
    <3>3. CASE Check(d)
      BY <2>0, <3>1, <3>3 DEF Check, DispatchCall
    <3>4. CASE InsertAgent(d)
      BY <2>0, <3>1, <3>4 DEF InsertAgent, DispatchCall
    <3>5. CASE StartChild(d) \/ ChildAsks(d)
      BY <3>5 DEF StartChild, ChildAsks
    <3>6. CASE Interrupt(d)
      BY <2>0, <3>1, <3>6 DEF Interrupt, DispatchCall, Reason
    <3>7. CASE ChildTool(d)
      <4>1. CASE ~LastStep(d) /\ Go(d, [call[d] EXCEPT !.steps = @ + 1])
        <5>1. call[d].steps + 1 \in 0 .. MaxAgentSteps
          BY <2>0, <4>1, SubAgentAssumption DEF LastStep, DispatchCall
        <5> QED
          BY <2>0, <3>1, <4>1, <5>1 DEF DispatchCall
      <4>2. CASE Returns(d, "failed")
        BY <3>2, <4>2 DEF Reason
      <4> QED
        BY <3>7, <4>1, <4>2 DEF ChildTool
    <3>8. CASE Answer(d) \/ RunnerPanics(d)
      BY <3>2, <3>8 DEF Answer, RunnerPanics, Reason
    <3>9. CASE ChildEnds(d)
      BY <3>2, <3>9 DEF ChildEnds, Reason, Ending
    <3>10. CASE GraceExpires(d)
      BY <2>0, <3>1, <3>10, StepsStart DEF GraceExpires, DispatchCall
    <3>11. CASE Finalize(d)
      BY <2>0, <3>1, <3>11 DEF Finalize, DispatchCall
    <3>12. CASE Return(d)
      BY <2>0, <3>1, <3>12 DEF Return, DispatchCall, Reason
    <3> QED
      BY <1>4, <3>3, <3>4, <3>5, <3>6, <3>7, <3>8, <3>9, <3>10, <3>11, <3>12
  <2>2. child' \in [Dispatch -> Child]
    <3>1. CancelChild(d) \in Child /\ DropRun(d) \in Child
      BY <2>0 DEF CancelChild, DropRun, Child
    <3>2. /\ [child[d] EXCEPT !.loop = "live"] \in Child /\ [child[d] EXCEPT !.asks = TRUE] \in Child
          /\ [child[d] EXCEPT !.asks = FALSE] \in Child /\ [child[d] EXCEPT !.token = TRUE] \in Child
          /\ [child[d] EXCEPT !.loop = "over", !.asks = FALSE] \in Child
      BY <2>0 DEF Child
    <3>3. \A c \in Child : [child EXCEPT ![d] = c] \in [Dispatch -> Child]
      OBVIOUS
    <3>4. \/ child' = child
          \/ \E c \in Child : child' = [child EXCEPT ![d] = c]
      BY <1>4, <3>1, <3>2 DEF Check, InsertAgent, StartChild, Interrupt, ChildTool, ChildAsks, Answer,
         ChildEnds, RunnerPanics, GraceExpires, Finalize, Return
    <3> QED
      BY <3>3, <3>4
  <2>3. record' \in [Dispatch -> Record] /\ agents' \subseteq Dispatch
    <3>1. CASE InsertAgent(d)
      <4>1. [NoRecord EXCEPT !.role = call[d].role] \in Record
        BY <2>0 DEF NoRecord, Record, Status, DispatchCall
      <4>2. agents' \subseteq Dispatch
        BY <3>1 DEF InsertAgent
      <4> QED
        BY <3>1, <4>1, <4>2 DEF InsertAgent
    <3>2. CASE Finalize(d)
      <4>1. \A s \in Status : Finish(d, s) => record' \in [Dispatch -> Record]
        BY <2>0 DEF Finish, Record
      <4> QED
        BY <3>2, <4>1 DEF Finalize, Status
    <3>3. CASE ~InsertAgent(d) /\ ~Finalize(d)
      BY <1>4, <3>3 DEF Check, StartChild, Interrupt, ChildTool, ChildAsks, Answer,
         ChildEnds, RunnerPanics, GraceExpires, Return
    <3> QED
      BY <3>1, <3>2, <3>3
  <2>4. UNCHANGED <<turn, cancelled, shutdown, issued>>
    BY <1>4 DEF Check, InsertAgent, StartChild, Interrupt, ChildTool, ChildAsks, Answer,
       ChildEnds, RunnerPanics, GraceExpires, Finalize, Return
  <2> QED
    BY <2>1, <2>2, <2>3, <2>4
<1>5. CASE UNCHANGED subVars
  BY <1>5 DEF subVars
<1> QED
  BY <1>1, <1>2, <1>3, <1>4, <1>5 DEF SubNext

(* The loop of the current turn makes one more call. *)
LEMMA IssueInv ==
    ASSUME SubInv, SubTypeOK', NEW role \in Role, Issue(role)
    PROVE  SubInv'
<1> DEFINE d == issued + 1
           c == [NoCall EXCEPT !.pc = "check", !.turn = turn, !.role = role]
<1>0. /\ issued \in Nat /\ d \in Dispatch /\ issued' = d /\ issued < MaxDispatch
      /\ call \in [Dispatch -> DispatchCall]
      /\ UNCHANGED <<turn, cancelled, shutdown, agents, record, child>>
  BY SubAgentAssumption DEF SubInv, SubTypeOK, Issue, Dispatch
<1>1. call[d].pc = "idle"
  BY <1>0 DEF SubInv, UnissuedIdle
<1>2. /\ call'[d] = c /\ c.pc = "check" /\ c.turn = turn /\ c.role = role
      /\ \A e \in Dispatch \ {d} : call'[e] = call[e]
  BY <1>0 DEF Issue, Go, NoCall
<1>3. role = "implementer" =>
        \A e \in Dispatch : Active(call[e]) /\ call[e].turn = turn => FALSE
  BY <1>2 DEF Issue, Busy, Active, is_parallel_safe, allows_writes
<1>4. \A e \in Dispatch : Active(call[e]) /\ call[e].turn = turn /\ call[e].role = "implementer"
                            => role # "implementer"
  BY <1>3
<1> HIDE DEF c, d
<1>5. UnissuedIdle'
  <2> SUFFICES ASSUME NEW e \in Dispatch, e > d
               PROVE  call'[e].pc = "idle"
    BY <1>0 DEF UnissuedIdle
  <2>1. e # d /\ e > issued
    BY <1>0 DEF d, Dispatch
  <2> QED
    BY <1>2, <2>1 DEF SubInv, UnissuedIdle
<1>6. NotEntered'
  BY <1>0, <1>1, <1>2 DEF SubInv, NotEntered
<1>7. OldTurnsCancelled'
  <2>1. turn \in Int
    BY DEF SubInv, SubTypeOK, Turn
  <2> QED
    BY <1>0, <1>2, <2>1 DEF SubInv, OldTurnsCancelled
<1>8. OneWriterATurn'
  BY <1>0, <1>2, <1>3 DEF SubInv, OneWriterATurn, allows_writes
<1>9. \A e \in Dispatch : UnderWay(e)' => UnderWay(e) /\ e # d
  BY <1>2 DEF UnderWay
<1>10. RunningIsListed'
  <2>1. Out' \subseteq Out
    BY <1>9 DEF Out
  <2>2. ~shutdown => Cardinality(Out') <= MaxConcurrent
    BY <2>1, OutShrinks DEF SubInv, RunningIsListed, Out
  <2> QED
    BY <1>0, <1>9, <2>2 DEF SubInv, RunningIsListed, Out
<1>11. ReturnedIsStopped'
  BY <1>0, <1>2 DEF SubInv, ReturnedIsStopped
<1> QED
  BY <1>5, <1>6, <1>7, <1>8, <1>10, <1>11 DEF SubInv

(* The parent's turn is cancelled or superseded, or the session ends. *)
LEMMA ParentInv ==
    ASSUME SubInv, SubTypeOK', CancelParent \/ NextTurn \/ CancelAllRunning
    PROVE  SubInv'
<1>0. /\ UNCHANGED <<issued, agents, call, child>>
      /\ turn \in Int /\ cancelled \subseteq cancelled'
      /\ turn' = turn \/ (turn' = turn + 1 /\ turn \in cancelled')
      /\ (shutdown' = shutdown /\ record' = record) \/ shutdown'
  BY DEF CancelParent, NextTurn, CancelAllRunning, SubInv, SubTypeOK, Turn
<1>1. UnissuedIdle' /\ OneWriterATurn' /\ ReturnedIsStopped'
  BY <1>0 DEF SubInv, UnissuedIdle, OneWriterATurn, ReturnedIsStopped
<1>2. NotEntered'
  <2>1. \A e \in Dispatch \ agents : record'[e] = record[e]
    BY DEF CancelParent, NextTurn, CancelAllRunning, Running
  <2> QED
    BY <1>0, <2>1 DEF SubInv, NotEntered
<1>3. OldTurnsCancelled'
  <2>1. \A t \in Turn : t \in Int
    BY DEF Turn
  <2>2. \A t \in Turn : t < turn' => t \in cancelled'
    BY <1>0, <2>1 DEF SubInv, OldTurnsCancelled
  <2>3. ASSUME NEW e \in Dispatch
        PROVE  call'[e].turn <= turn'
    <3>1. call[e].turn \in Int /\ call[e].turn <= turn
      BY DEF SubInv, SubTypeOK, DispatchCall, Turn, OldTurnsCancelled
    <3> QED
      BY <1>0, <3>1
  <2> QED
    BY <2>2, <2>3 DEF OldTurnsCancelled
<1>4. RunningIsListed'
  BY <1>0 DEF SubInv, RunningIsListed, UnderWay
<1> QED
  BY <1>1, <1>2, <1>3, <1>4 DEF SubInv

(* insert_agent enters no more than the cap, and evicts nobody who runs. *)
LEMMA AgentInsertInv ==
    ASSUME SubInv, SubTypeOK', NEW d \in Dispatch, InsertAgent(d)
    PROVE  SubInv'
<1>0. /\ call \in [Dispatch -> DispatchCall] /\ call[d] \in DispatchCall /\ record \in [Dispatch -> Record]
      /\ agents \subseteq Dispatch /\ call[d].pc = "insert" /\ child' = child
      /\ UNCHANGED <<turn, cancelled, shutdown, issued>>
  BY DEF SubInv, SubTypeOK, InsertAgent
<1>1. /\ d \notin agents /\ record[d] = NoRecord /\ child[d] = NoChild
      /\ NoRecord.status = "running" /\ NoChild.loop = "none"
  BY <1>0 DEF SubInv, NotEntered, NoRecord, NoChild
<1>2. CASE Cardinality(Running) >= MaxConcurrent /\ Go(d, [call[d] EXCEPT !.pc = "returned"]) /\ UNCHANGED <<agents, record>>
  <2>1. call'[d].pc = "returned" /\ GoesOn(d)
    BY <1>0, <1>2 DEF Go, GoesOn, DispatchCall, Active
  <2>2. UnissuedIdle' /\ OldTurnsCancelled' /\ OneWriterATurn'
    BY <2>1, GoesOnKeeps
  <2>3. \A e \in Dispatch : UnderWay(e)' => UnderWay(e)
    BY <2>1 DEF GoesOn, UnderWay
  <2>4. NotEntered' /\ ReturnedIsStopped'
    BY <1>0, <1>1, <1>2, <2>1 DEF SubInv, NotEntered, ReturnedIsStopped, GoesOn
  <2>5. RunningIsListed'
    <3>1. Out' \subseteq Out
      BY <2>3 DEF Out
    <3>2. ~shutdown => Cardinality(Out') <= MaxConcurrent
      BY <3>1, OutShrinks DEF SubInv, RunningIsListed, Out
    <3> QED
      BY <1>0, <1>2, <2>3, <3>2 DEF SubInv, RunningIsListed, Out
  <2> QED
    BY <2>2, <2>4, <2>5 DEF SubInv
<1>3. CASE /\ Cardinality(Running) < MaxConcurrent
           /\ record' = [record EXCEPT ![d] = [NoRecord EXCEPT !.role = call[d].role]]
           /\ agents' = (agents \cup {d}) \ evict_finished(agents \cup {d})
           /\ Go(d, [call[d] EXCEPT !.pc = "running"])
  <2>1. call'[d].pc = "running" /\ GoesOn(d)
    BY <1>0, <1>3 DEF Go, GoesOn, DispatchCall, Active
  <2>2. UnissuedIdle' /\ OldTurnsCancelled' /\ OneWriterATurn'
    BY <2>1, GoesOnKeeps
  <2>3. record'[d].status = "running" /\ \A e \in Dispatch \ {d} : record'[e] = record[e]
    BY <1>0, <1>3 DEF NoRecord
  <2>4. \A e \in Dispatch : e \in agents \cup {d} /\ record[e].status = "running" => e \in agents'
    BY <1>3 DEF evict_finished, is_terminal
  <2>5. agents' \subseteq agents \cup {d}
    BY <1>3
  <2>6. NotEntered' /\ ReturnedIsStopped'
    <3>1. NotEntered'
      BY <1>0, <2>1, <2>3, <2>5 DEF SubInv, NotEntered, GoesOn
    <3>2. ReturnedIsStopped'
      BY <1>0, <2>1 DEF SubInv, ReturnedIsStopped, GoesOn
    <3> QED
      BY <3>1, <3>2
  <2>7. \A e \in Dispatch : UnderWay(e)' => UnderWay(e) \/ e = d
    BY <2>1 DEF GoesOn, UnderWay
  <2>8. ASSUME ~shutdown
        PROVE  /\ \A e \in Dispatch : UnderWay(e)' => e \in agents' /\ record'[e].status = "running"
               /\ Cardinality(Out') <= MaxConcurrent
    <3>1. \A e \in Dispatch : UnderWay(e) => e \in agents /\ record[e].status = "running"
      BY <2>8 DEF SubInv, RunningIsListed
    <3>2. \A e \in Dispatch : UnderWay(e)' => e \in agents' /\ record'[e].status = "running"
      BY <1>1, <2>3, <2>4, <2>7, <3>1
    <3>3. Out \subseteq Running /\ Out' \subseteq Running \cup {d}
      BY <2>7, <3>1 DEF Out, Running
    <3>4. IsFiniteSet(Running) /\ d \notin Running
      <4>1. Running \subseteq Dispatch
        BY <1>0 DEF Running
      <4> QED
        BY <1>1, <4>1, DispatchFinite, FS_Subset DEF Running
    <3>5. IsFiniteSet(Running \cup {d}) /\ Cardinality(Running \cup {d}) = Cardinality(Running) + 1
      BY <3>4, FS_AddElement
    <3>6. IsFiniteSet(Out') /\ Cardinality(Out') <= Cardinality(Running) + 1
      BY <3>3, <3>5, FS_Subset
    <3>7. Cardinality(Out') \in Nat /\ Cardinality(Running) \in Nat
      BY <3>4, <3>6, FS_CardinalityType
    <3>8. Cardinality(Running) < MaxConcurrent
      BY <1>3
    <3>9. Cardinality(Out') <= MaxConcurrent
      BY <3>6, <3>7, <3>8, MaxConcurrentNat
    <3> QED
      BY <3>2, <3>9
  <2>9. RunningIsListed'
    BY <1>0, <2>8 DEF RunningIsListed, Out
  <2> QED
    BY <2>2, <2>6, <2>9 DEF SubInv
<1> QED
  BY <1>2, <1>3 DEF InsertAgent

(* finalize_success, mark_cancelled, finalize_failure. *)
LEMMA FinalizeInv ==
    ASSUME SubInv, SubTypeOK', NEW d \in Dispatch, Finalize(d)
    PROVE  SubInv'
<1>0. /\ call \in [Dispatch -> DispatchCall] /\ call[d] \in DispatchCall /\ record \in [Dispatch -> Record]
      /\ call[d].pc = "settle"
      /\ UNCHANGED <<turn, cancelled, shutdown, issued, agents, child>>
  BY DEF SubInv, SubTypeOK, Finalize
<1>1. call'[d].pc = "drop" /\ GoesOn(d)
  BY <1>0 DEF Finalize, Go, GoesOn, DispatchCall, Active
<1>2. \A e \in Dispatch \ {d} : record'[e] = record[e]
  BY <1>0 DEF Finalize, Finish
<1>3. UnissuedIdle' /\ OldTurnsCancelled' /\ OneWriterATurn'
  BY <1>1, GoesOnKeeps
<1>4. NotEntered' /\ ReturnedIsStopped'
  BY <1>0, <1>1, <1>2 DEF SubInv, NotEntered, ReturnedIsStopped, GoesOn
<1>5. \A e \in Dispatch : UnderWay(e)' => UnderWay(e) /\ e # d
  BY <1>1 DEF GoesOn, UnderWay
<1>6. RunningIsListed'
  <2>1. Out' \subseteq Out
    BY <1>5 DEF Out
  <2>2. ~shutdown => Cardinality(Out') <= MaxConcurrent
    BY <2>1, OutShrinks DEF SubInv, RunningIsListed, Out
  <2> QED
    BY <1>0, <1>2, <1>5, <2>2 DEF SubInv, RunningIsListed, Out
<1> QED
  BY <1>3, <1>4, <1>6 DEF SubInv

(* The steps of a dispatch and its child outside the ledger. *)
LEMMA ChildInv ==
    ASSUME SubInv, SubTypeOK', NEW d \in Dispatch,
           \/ StartChild(d) \/ Interrupt(d) \/ ChildTool(d) \/ ChildAsks(d) \/ Answer(d)
           \/ ChildEnds(d) \/ RunnerPanics(d) \/ GraceExpires(d) \/ Return(d)
    PROVE  SubInv'
<1>0. /\ call \in [Dispatch -> DispatchCall] /\ call[d] \in DispatchCall
      /\ child \in [Dispatch -> Child] /\ child[d] \in Child
      /\ UNCHANGED <<turn, cancelled, shutdown, issued, agents, record>>
  BY DEF SubInv, SubTypeOK, StartChild, Interrupt, ChildTool, ChildAsks, Answer, ChildEnds,
     RunnerPanics, GraceExpires, Return
<1>1. \A e \in Dispatch \ {d} : call'[e] = call[e] /\ child'[e] = child[e]
  BY <1>0 DEF StartChild, Interrupt, ChildTool, ChildAsks, Answer, ChildEnds,
     RunnerPanics, GraceExpires, Return, Returns, Go
<1>2. call[d].pc \notin {"idle", "check", "insert"}
  <2>1. child[d].loop = "live" => call[d].pc \notin {"idle", "check", "insert"}
    BY DEF SubInv, NotEntered, NoChild
  <2> QED
    BY <2>1 DEF StartChild, Interrupt, ChildTool, ChildAsks, Answer, ChildEnds,
       RunnerPanics, GraceExpires, Return, Reads
<1>3. ASSUME call' = call, call[d].pc = "returned" => child'[d].loop # "live" \/ child'[d].token
      PROVE  SubInv'
  BY <1>0, <1>1, <1>2, <1>3, ChildStepKeeps DEF GoesOn, UnderWay
<1>4. ASSUME call'[d].turn = call[d].turn, call'[d].role = call[d].role,
             call[d].pc # "returned", call'[d].pc \notin {"idle", "check", "insert"},
             call'[d].pc \in {"running", "grace", "settle"} => UnderWay(d),
             call'[d].pc = "returned" => child'[d].token
      PROVE  SubInv'
  <2>1. GoesOn(d)
    BY <1>0, <1>1, <1>2, <1>4 DEF GoesOn, Active
  <2>2. UnderWay(d)' => UnderWay(d)
    BY <1>4 DEF UnderWay
  <2> QED
    BY <1>0, <1>2, <1>4, <2>1, <2>2, ChildStepKeeps
<1>5. \A why : Returns(d, why) =>
        call'[d].pc = "settle" /\ call'[d].turn = call[d].turn /\ call'[d].role = call[d].role
  BY <1>0 DEF Returns, Go, DispatchCall
<1>6. ASSUME NEW why, Returns(d, why), call[d].pc \in {"running", "grace"}
      PROVE  SubInv'
  <2>1. call'[d].pc = "settle" /\ call'[d].turn = call[d].turn /\ call'[d].role = call[d].role
    BY <1>5, <1>6
  <2> QED
    BY <1>4, <1>6, <2>1 DEF UnderWay
<1>7. CASE StartChild(d) \/ ChildAsks(d)
  BY <1>3, <1>7 DEF StartChild, ChildAsks, Reads
<1>8. CASE Interrupt(d)
  <2>1. PICK why : call' = [call EXCEPT ![d] = [call[d] EXCEPT !.pc = "grace", !.why = why]]
    BY <1>8 DEF Interrupt, Go
  <2>2. call'[d].pc = "grace" /\ call'[d].turn = call[d].turn /\ call'[d].role = call[d].role
    BY <1>0, <2>1 DEF DispatchCall
  <2> QED
    BY <1>4, <1>8, <2>2 DEF Interrupt, UnderWay
<1>9. CASE ChildTool(d)
  <2>1. CASE Go(d, [call[d] EXCEPT !.steps = @ + 1])
    <3>1. call'[d].pc = call[d].pc /\ call'[d].turn = call[d].turn /\ call'[d].role = call[d].role
      BY <1>0, <2>1 DEF Go, DispatchCall
    <3> QED
      BY <1>4, <1>9, <3>1 DEF ChildTool, Reads, UnderWay
  <2>2. CASE Returns(d, "failed")
    BY <1>6, <1>9, <2>2 DEF ChildTool, Reads
  <2> QED
    BY <1>9, <2>1, <2>2 DEF ChildTool
<1>10. CASE Answer(d)
  <2>1. CASE call' = call
    BY <1>3, <1>10, <2>1 DEF Answer, Reads
  <2>2. CASE Returns(d, "failed")
    BY <1>6, <1>10, <2>2 DEF Answer, Reads
  <2> QED
    BY <1>10, <2>1, <2>2 DEF Answer
<1>11. CASE ChildEnds(d)
  <2>1. child'[d].loop = "over"
    BY <1>0, <1>11 DEF ChildEnds, Child
  <2>2. CASE call' = call
    BY <1>3, <2>1, <2>2
  <2>3. CASE Reads(d) /\ \E why : Returns(d, why)
    BY <1>6, <2>3 DEF Reads
  <2> QED
    BY <1>11, <2>2, <2>3 DEF ChildEnds
<1>12. CASE RunnerPanics(d)
  BY <1>6, <1>12 DEF RunnerPanics, Reads
<1>13. CASE GraceExpires(d)
  <2>1. call'[d].pc = "settle" /\ call'[d].turn = call[d].turn /\ call'[d].role = call[d].role
    BY <1>0, <1>13 DEF GraceExpires, Go, DispatchCall
  <2> QED
    BY <1>4, <1>13, <2>1 DEF GraceExpires, UnderWay
<1>14. CASE Return(d)
  <2>1. call'[d].pc = "returned" /\ call'[d].turn = call[d].turn /\ call'[d].role = call[d].role
    BY <1>0, <1>14 DEF Return, Go, DispatchCall
  <2>2. child'[d].token
    BY <1>0, <1>14 DEF Return, DropRun, Child
  <2> QED
    BY <1>4, <1>14, <2>1, <2>2 DEF Return
<1> QED
  BY <1>7, <1>8, <1>9, <1>10, <1>11, <1>12, <1>13, <1>14

LEMMA CheckInv ==
    ASSUME SubInv, SubTypeOK', NEW d \in Dispatch, Check(d)
    PROVE  SubInv'
<1>0. /\ call \in [Dispatch -> DispatchCall] /\ call[d] \in DispatchCall /\ call[d].pc = "check"
      /\ UNCHANGED <<turn, cancelled, shutdown, issued, agents, record, child>>
  BY DEF SubInv, SubTypeOK, Check
<1>1. call'[d].pc \in {"returned", "insert"} /\ GoesOn(d)
  BY <1>0 DEF Check, Go, GoesOn, DispatchCall, Active
<1>2. UnissuedIdle' /\ OldTurnsCancelled' /\ OneWriterATurn'
  BY <1>1, GoesOnKeeps
<1>3. \A e \in Dispatch : UnderWay(e)' => UnderWay(e)
  BY <1>1 DEF GoesOn, UnderWay
<1>4. NotEntered' /\ ReturnedIsStopped'
  BY <1>0, <1>1 DEF SubInv, NotEntered, ReturnedIsStopped, GoesOn, NoChild
<1>5. RunningIsListed'
  <2>1. Out' \subseteq Out
    BY <1>3 DEF Out
  <2>2. ~shutdown => Cardinality(Out') <= MaxConcurrent
    BY <2>1, OutShrinks DEF SubInv, RunningIsListed, Out
  <2> QED
    BY <1>0, <1>3, <2>2 DEF SubInv, RunningIsListed, Out
<1> QED
  BY <1>2, <1>4, <1>5 DEF SubInv

LEMMA SubNextInv ==
    ASSUME SubInv, [SubNext]_subVars
    PROVE  SubInv'
<1>1. SubTypeOK'
  BY SubNextType DEF SubInv
<1>2. CASE UNCHANGED subVars
  BY <1>2 DEF subVars, SubInv, SubTypeOK, UnissuedIdle, NotEntered, OldTurnsCancelled, OneWriterATurn,
     RunningIsListed, ReturnedIsStopped, UnderWay
<1> QED
  BY <1>1, <1>2, IssueInv, ParentInv, CheckInv, AgentInsertInv, ChildInv, FinalizeInv DEF SubNext

-----------------------------------------------------------------------------
(* The theorems *)

(* SubInv holds in every reachable state. *)
THEOREM SubInvariance == SubSpec => []SubInv
<1>1. SubInit => SubInv
  BY SubInitInv
<1>2. SubInv /\ [SubNext]_subVars => SubInv'
  BY SubNextInv
<1> QED
  BY <1>1, <1>2, PTL DEF SubSpec

(* Of two writing dispatches out at once, the older turn's is cancelled. *)
LEMMA WritersAreSerial ==
    ASSUME SubInv
    PROVE  WritersSerialized
<1> SUFFICES ASSUME NEW d \in Dispatch, NEW e \in Dispatch, d # e, UnderWay(d), UnderWay(e),
                    allows_writes(call[d].role), allows_writes(call[e].role)
             PROVE  Stopped(d) \/ Stopped(e)
  BY DEF WritersSerialized
<1>1. call[d].turn # call[e].turn
  BY DEF SubInv, OneWriterATurn, Active, UnderWay
<1>2. /\ call[d].turn \in Turn /\ call[e].turn \in Turn /\ turn \in Turn
      /\ call[d].turn <= turn /\ call[e].turn <= turn
  BY DEF SubInv, SubTypeOK, DispatchCall, OldTurnsCancelled
<1>3. call[d].turn < turn \/ call[e].turn < turn
  BY <1>1, <1>2 DEF Turn
<1> QED
  BY <1>2, <1>3 DEF SubInv, OldTurnsCancelled, Stopped

(* For any number of dispatches, turns and records: the ledger lists every  *)
(* dispatch under way and no more than its cap, no two writing children run *)
(* for calls that are both still wanted, and none outlives its call         *)
(* uncancelled (AgentTool::run, SubAgentManager).                           *)
THEOREM ChildrenAreHeld == SubSpec => []ChildrenHold
<1>1. SubInv => ChildrenHold
  BY WritersAreSerial DEF SubInv, ChildrenHold
<1> QED
  BY <1>1, SubInvariance, PTL
=============================================================================
