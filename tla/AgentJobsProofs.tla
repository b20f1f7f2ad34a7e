--------------------------- MODULE AgentJobsProofs ---------------------------
(***************************************************************************)
(* Theorems about AgentJobs, for any number of servers, tasks, Lock        *)
(* objects and job table entries.                                          *)
(***************************************************************************)
EXTENDS AgentJobs, SequenceTheorems, TLAPS

USE ConstantsOK

(* A free task stands for a task that does not exist yet.                  *)
LEMMA FreshIsFree ==
  ASSUME FreeTasks # {}
  PROVE  FreshTask \in Tasks /\ task[FreshTask].phase = "free"
BY DEF FreshTask, FreeTasks

(* A task that does nothing is a task record.                              *)
LEMMA IdleIsRecord ==
  ASSUME NEW p \in Phases
  PROVE  Idle(p) \in TaskRecords /\ Idle(p).phase = p /\ Idle(p).kind = "action"
<1>1. (CHOOSE s \in Servers : TRUE) \in Servers
  BY DEF ConstantsOK
<1>2. Prov \in Locks /\ Blank \in Registries /\ "action" \in Kinds
  BY DEF Locks, Blank, Registries, Kinds
<1>3. QED BY <1>1, <1>2 DEF Idle, TaskRecords

(* What a root tool writes is a registry.                                  *)
LEMMA RewrittenIsRegistry ==
  ASSUME NEW t \in Tasks, task[t] \in TaskRecords
  PROVE  Rewritten(t) \in Registries
BY DEF Rewritten, Installed, Deleted, TaskRecords, Registries

(* The name of a new Lock object is one of the names.                      *)
LEMMA FreshGenIsGen ==
  ASSUME NEW s \in Servers, gen \in [Servers -> Gens]
  PROVE  FreshGen(s) \in Gens
BY DEF FreshGen

(* A server's lock is a lock.                                              *)
LEMMA LockIsLock ==
  ASSUME NEW s \in Servers, gen \in [Servers -> Gens]
  PROVE  Lock(s) \in Locks /\ Lock(s) # Prov
BY DEF Lock, Locks, ConstantsOK

(* Making room in the job table leaves room for one more entry.            *)
LEMMA EvictedFits ==
  ASSUME jobs \in Seq(Tasks), Len(jobs) <= MaxJobs, NEW t \in Tasks
  PROVE  Append(Evicted, t) \in Seq(Tasks) /\ Len(Append(Evicted, t)) <= MaxJobs
<1>1. CASE Len(jobs) < MaxJobs
  BY <1>1 DEF Evicted, ConstantsOK
<1>2. CASE ~(Len(jobs) < MaxJobs)
  <2>1. Len(jobs) = MaxJobs /\ Evicted = SubSeq(jobs, 2, Len(jobs))
    BY <1>2 DEF Evicted, ConstantsOK
  <2>2. Evicted \in Seq(Tasks) /\ Len(Evicted) = MaxJobs - 1
    BY <2>1, SubSeqProperties DEF ConstantsOK
  <2>3. QED BY <2>2 DEF ConstantsOK
<1>3. QED BY <1>1, <1>2

-----------------------------------------------------------------------------
(* Type correctness, operator by operator.                                 *)

LEMMA StartTaskType ==
  ASSUME TypeOK, NEW k \in Kinds, NEW s \in Servers, StartTask(k, s)
  PROVE  /\ FreshTask \in Tasks
         /\ task' = [task EXCEPT ![FreshTask] = [kind |-> k, server |-> s, phase |-> "ready",
                                                 lock |-> Prov, base |-> Blank]]
         /\ task' \in [Tasks -> TaskRecords]
         /\ jobs' \in Seq(Tasks) /\ Len(jobs') <= MaxJobs
         /\ ready' \in Seq(Tasks)
<1>1. FreshTask \in Tasks
  BY FreshIsFree DEF StartTask, NewTask
<1>2. [kind |-> k, server |-> s, phase |-> "ready", lock |-> Prov, base |-> Blank] \in TaskRecords
  BY DEF TaskRecords, Phases, Pending, Locks, Blank, Registries
<1>3. jobs' \in Seq(Tasks) /\ Len(jobs') <= MaxJobs
  BY <1>1, EvictedFits DEF StartTask, TypeOK
<1>4. QED BY <1>1, <1>2, <1>3 DEF StartTask, NewTask, TypeOK

LEMMA EnterServerLockType ==
  ASSUME TypeOK, NEW t \in Tasks,
         NEW h \in [Locks -> Tasks \cup {NoTask}], NEW w \in [Locks -> Seq(Tasks)],
         EnterServerLock(t, h, w)
  PROVE  /\ holder' \in [Locks -> Tasks \cup {NoTask}]
         /\ waiters' \in [Locks -> Seq(Tasks)]
         /\ task' \in [Tasks -> TaskRecords]
<1>1. task[t] \in TaskRecords /\ task[t].server \in Servers
  BY DEF TypeOK, TaskRecords
<1>2. Lock(task[t].server) \in Locks
  BY <1>1, LockIsLock DEF TypeOK
<1>3. \A p \in Phases, l \in Locks :
        /\ [task[t] EXCEPT !.phase = p] \in TaskRecords
        /\ [task[t] EXCEPT !.phase = p, !.lock = l] \in TaskRecords
        /\ [task[t] EXCEPT !.phase = p, !.lock = l, !.base = disk] \in TaskRecords
  BY <1>1 DEF TaskRecords, TypeOK
<1>4. {"lost", "run", "lock"} \subseteq Phases
  BY DEF Phases, Pending
<1> DEFINE s == task[t].server
           l == Lock(s)
<1>5. CASE /\ s \notin servers
           /\ holder' = [h EXCEPT ![Prov] = IF @ = t THEN NoTask ELSE @]
           /\ waiters' = w
           /\ task' = [task EXCEPT ![t].phase = "lost"]
  <2>1. task' \in [Tasks -> TaskRecords]
    BY <1>3, <1>4, <1>5 DEF TypeOK, Locks
  <2>2. h[Prov] \in Tasks \cup {NoTask}
    BY DEF Locks
  <2>3. holder' \in [Locks -> Tasks \cup {NoTask}]
    BY <1>5, <2>2
  <2>4. QED BY <1>5, <2>1, <2>3
<1>6. CASE /\ h[l] = NoTask /\ w[l] = <<>>
           /\ holder' = [h EXCEPT ![l] = t]
           /\ waiters' = w
           /\ task' = [task EXCEPT ![t].phase = "run", ![t].lock = l, ![t].base = disk]
  <2>1. [task[t] EXCEPT !.phase = "run", !.lock = l, !.base = disk] \in TaskRecords
    BY <1>2, <1>3, <1>4
  <2>2. task' = [task EXCEPT ![t] = [task[t] EXCEPT !.phase = "run", !.lock = l, !.base = disk]]
    BY <1>6 DEF TypeOK
  <2>3. task' \in [Tasks -> TaskRecords]
    BY <2>1, <2>2 DEF TypeOK
  <2>4. holder' \in [Locks -> Tasks \cup {NoTask}]
    BY <1>2, <1>6
  <2>5. QED BY <1>6, <2>3, <2>4
<1>7. CASE /\ holder' = h
           /\ waiters' = [w EXCEPT ![l] = Append(@, t)]
           /\ task' = [task EXCEPT ![t].phase = "lock", ![t].lock = l]
  <2>1. [task[t] EXCEPT !.phase = "lock", !.lock = l] \in TaskRecords
    BY <1>2, <1>3, <1>4
  <2>2. task' = [task EXCEPT ![t] = [task[t] EXCEPT !.phase = "lock", !.lock = l]]
    BY <1>7 DEF TypeOK
  <2>3. task' \in [Tasks -> TaskRecords]
    BY <2>1, <2>2 DEF TypeOK
  <2>4. Append(w[l], t) \in Seq(Tasks)
    BY <1>2
  <2>5. waiters' \in [Locks -> Seq(Tasks)]
    BY <1>2, <1>7, <2>4
  <2>6. QED BY <1>7, <2>3, <2>5
<1>8. QED BY <1>5, <1>6, <1>7 DEF EnterServerLock

LEMMA EnterProvisioningType ==
  ASSUME TypeOK, NEW t \in Tasks, NEW w \in [Locks -> Seq(Tasks)], EnterProvisioning(t, w)
  PROVE  /\ holder' \in [Locks -> Tasks \cup {NoTask}]
         /\ waiters' \in [Locks -> Seq(Tasks)]
         /\ task' \in [Tasks -> TaskRecords]
<1> DEFINE h == [holder EXCEPT ![Prov] = t]
<1>1. h \in [Locks -> Tasks \cup {NoTask}]
  BY DEF TypeOK
<1>2. CASE task[t].kind = "provision"
  <2>1. [task[t] EXCEPT !.phase = "run", !.base = disk] \in TaskRecords
    <3>1. task[t] \in TaskRecords /\ disk \in Registries /\ "run" \in Phases
      BY DEF TypeOK, Phases, Pending
    <3>2. QED BY <3>1 DEF TaskRecords
  <2>2. task' = [task EXCEPT ![t] = [task[t] EXCEPT !.phase = "run", !.base = disk]]
    BY <1>2 DEF EnterProvisioning, TypeOK
  <2>3. task' \in [Tasks -> TaskRecords]
    BY <2>1, <2>2 DEF TypeOK
  <2>4. holder' = h /\ waiters' = w
    BY <1>2 DEF EnterProvisioning
  <2>5. QED BY <1>1, <2>3, <2>4
<1>3. CASE task[t].kind # "provision"
  <2>1. EnterServerLock(t, h, w)
    BY <1>3 DEF EnterProvisioning
  <2>2. QED BY <1>1, <2>1, EnterServerLockType
<1>4. QED BY <1>2, <1>3

LEMMA EndJobType ==
  ASSUME TypeOK, NEW t \in Tasks, NEW p \in {"succeeded", "failed", "strayed"} \cup Abandoned,
         EndJob(t, p)
  PROVE  /\ holder' \in [Locks -> Tasks \cup {NoTask}]
         /\ task' \in [Tasks -> TaskRecords]
         /\ maintenance' \subseteq Servers
         /\ UNCHANGED <<up, waiters, jobs, ready>>
<1>1. p \in Phases
  BY DEF Phases, Abandoned
<1>2. Idle(p) \in TaskRecords
  BY <1>1, IdleIsRecord
<1>3. [task[t] EXCEPT !.phase = p, !.lock = Prov] \in TaskRecords
  <2>1. task[t] \in TaskRecords /\ Prov \in Locks
    BY DEF TypeOK, Locks
  <2>2. QED BY <1>1, <2>1 DEF TaskRecords
<1>4. task' \in [Tasks -> TaskRecords]
  <2>1. CASE p \in Abandoned
    BY <1>3, <2>1 DEF EndJob, TypeOK
  <2>2. CASE p \notin Abandoned
    BY <1>2, <2>2 DEF EndJob, TypeOK
  <2>3. QED BY <2>1, <2>2
<1>5. holder' \in [Locks -> Tasks \cup {NoTask}]
  BY DEF EndJob, TypeOK
<1>6. maintenance' \subseteq Servers
  BY DEF EndJob, TypeOK
<1>7. QED BY <1>4, <1>5, <1>6 DEF EndJob

LEMMA ReplaceConfigType ==
  ASSUME TypeOK, ReplaceConfig(Loaded(disk))
  PROVE  servers' \subseteq Servers /\ gen' \in [Servers -> Gens]
<1>1. Loaded(disk) \subseteq Servers
  BY DEF Loaded, TypeOK, Registries, ConstantsOK
<1>2. QED BY <1>1, FreshGenIsGen DEF ReplaceConfig, TypeOK

-----------------------------------------------------------------------------
(* Every variable keeps its type, whatever step the agent takes: in        *)
(* particular the job table never outgrows MAX_JOBS (agent.py:286).        *)

LEMMA TypeInit == Init => TypeOK
<1>1. Idle("free") \in TaskRecords
  BY IdleIsRecord DEF Phases
<1>2. (CHOOSE g \in Gens : TRUE) \in Gens
  BY DEF ConstantsOK
<1>3. <<>> \in Seq(Tasks) /\ Len(<<>>) <= MaxJobs
  BY EmptySeq DEF ConstantsOK
<1>4. QED BY <1>1, <1>2, <1>3 DEF Init, TypeOK, Registries, ConstantsOK

LEMMA TypeStep == TypeOK /\ [Next]_vars => TypeOK'
<1> SUFFICES ASSUME TypeOK, [Next]_vars PROVE TypeOK'
  OBVIOUS
<1> USE DEF TypeOK
<1>1. ASSUME NEW s \in Servers, AcceptAction(s) PROVE TypeOK'
  <2>1. "action" \in Kinds /\ StartTask("action", s)
    BY <1>1 DEF AcceptAction, Kinds
  <2>2. QED BY <1>1, <2>1, StartTaskType DEF AcceptAction, StartTask
<1>2. ASSUME NEW s \in Servers, AcceptProvision(s) PROVE TypeOK'
  <2>1. "provision" \in Kinds /\ StartTask("provision", s)
    BY <1>2 DEF AcceptProvision, Kinds, Tools
  <2>2. QED BY <1>2, <2>1, StartTaskType DEF AcceptProvision, StartTask
<1>3. ASSUME NEW s \in Servers, NEW k \in Maint, AcceptMaintenance(k, s) PROVE TypeOK'
  <2>1. k \in Kinds /\ StartTask(k, s)
    BY <1>3 DEF AcceptMaintenance, Kinds, Tools, Maint
  <2>2. QED BY <1>3, <2>1, StartTaskType DEF AcceptMaintenance, StartTask
<1>4. ASSUME NEW s \in Servers, QueueFileOp(s) PROVE TypeOK'
  <2>1. FreshTask \in Tasks
    BY <1>4, FreshIsFree DEF QueueFileOp, NewTask
  <2>2. Lock(s) \in Locks
    BY LockIsLock
  <2>3. [kind |-> "file", server |-> s, phase |-> "lock", lock |-> Lock(s),
         base |-> Blank] \in TaskRecords
    BY <2>2 DEF TaskRecords, Phases, Pending, Kinds, Blank, Registries
  <2>4. task' \in [Tasks -> TaskRecords]
    BY <1>4, <2>3 DEF QueueFileOp, NewTask
  <2>5. waiters' \in [Locks -> Seq(Tasks)]
    BY <1>4, <2>1, <2>2 DEF QueueFileOp
  <2>6. QED BY <1>4, <2>4, <2>5 DEF QueueFileOp
<1>5. ASSUME NEW t \in Tasks, Begin(t) PROVE TypeOK'
  <2>1. ready' \in Seq(Tasks)
    BY <1>5, HeadTailProperties DEF Begin
  <2>2. /\ holder' \in [Locks -> Tasks \cup {NoTask}]
        /\ waiters' \in [Locks -> Seq(Tasks)]
        /\ task' \in [Tasks -> TaskRecords]
    <3>1. CASE EnterServerLock(t, holder, waiters)
      BY <3>1, EnterServerLockType
    <3>2. CASE EnterProvisioning(t, waiters)
      BY <3>2, EnterProvisioningType
    <3>3. CASE /\ waiters' = [waiters EXCEPT ![Prov] = Append(@, t)]
               /\ task' = [task EXCEPT ![t].phase = "prov"]
               /\ UNCHANGED holder
      <4>1. task[t] \in TaskRecords /\ "prov" \in Phases
        BY DEF Phases, Pending
      <4>2. [task[t] EXCEPT !.phase = "prov"] \in TaskRecords
        BY <4>1 DEF TaskRecords
      <4>3. task' \in [Tasks -> TaskRecords]
        BY <3>3, <4>2
      <4>4. Prov \in Locks /\ Append(waiters[Prov], t) \in Seq(Tasks)
        BY DEF Locks
      <4>5. QED BY <3>3, <4>3, <4>4
    <3>4. QED BY <1>5, <3>1, <3>2, <3>3 DEF Begin
  <2>3. QED BY <1>5, <2>1, <2>2 DEF Begin
<1>6. ASSUME NEW t \in Tasks, ProvTurn(t) PROVE TypeOK'
  <2> DEFINE w == [waiters EXCEPT ![Prov] = Tail(@)]
  <2>1. Prov \in Locks /\ Tail(waiters[Prov]) \in Seq(Tasks)
    BY <1>6, HeadTailProperties DEF ProvTurn, IsNext, Locks
  <2>2. w \in [Locks -> Seq(Tasks)] /\ EnterProvisioning(t, w)
    BY <1>6, <2>1 DEF ProvTurn
  <2> HIDE DEF w
  <2>3. QED BY <1>6, <2>2, EnterProvisioningType DEF ProvTurn
<1>7. ASSUME NEW t \in Tasks, LockTurn(t) PROVE TypeOK'
  <2> DEFINE l == task[t].lock
  <2>1. task[t] \in TaskRecords /\ l \in Locks
    BY DEF TaskRecords
  <2>2. waiters' \in [Locks -> Seq(Tasks)]
    BY <1>7, <2>1, HeadTailProperties DEF LockTurn, IsNext
  <2>3. CASE task[t].kind = "file"
    <3>1. Idle("succeeded") \in TaskRecords
      BY IdleIsRecord DEF Phases
    <3>2. QED BY <1>7, <2>2, <2>3, <3>1 DEF LockTurn
  <2>4. CASE task[t].kind # "file"
    <3>1. "run" \in Phases /\ disk \in Registries
      BY DEF Phases, Pending
    <3>2. [task[t] EXCEPT !.phase = "run", !.base = disk] \in TaskRecords
      BY <2>1, <3>1 DEF TaskRecords
    <3>3. task' = [task EXCEPT ![t] = [task[t] EXCEPT !.phase = "run", !.base = disk]]
      BY <1>7, <2>4 DEF LockTurn
    <3>4. task' \in [Tasks -> TaskRecords]
      BY <3>2, <3>3
    <3>5. holder' \in [Locks -> Tasks \cup {NoTask}]
      BY <1>7, <2>1, <2>4 DEF LockTurn
    <3>6. QED BY <1>7, <2>2, <3>4, <3>5 DEF LockTurn
  <2>5. QED BY <2>3, <2>4
<1>8. ASSUME NEW t \in Tasks, EndAction(t) PROVE TypeOK'
  BY <1>8, EndJobType DEF EndAction
<1>9. ASSUME NEW t \in Tasks, ToolCommit(t) PROVE TypeOK'
  <2>1. task[t] \in TaskRecords /\ "commit" \in Phases
    BY DEF Phases, Pending
  <2>2. [task[t] EXCEPT !.phase = "commit"] \in TaskRecords
    BY <2>1 DEF TaskRecords
  <2>3. disk' \in Registries
    BY <1>9, <2>1, RewrittenIsRegistry DEF ToolCommit
  <2>4. QED BY <1>9, <2>2, <2>3 DEF ToolCommit
<1>10. ASSUME NEW t \in Tasks, ToolFails(t) PROVE TypeOK'
  <2>1. EndJob(t, "failed") /\ disk' \in Registries
    BY <1>10 DEF ToolFails, TaskRecords
  <2>2. QED BY <1>10, <2>1, EndJobType DEF ToolFails
<1>11. ASSUME NEW t \in Tasks, ToolExits(t) PROVE TypeOK'
  <2>1. \E p \in {"succeeded", "failed"} : EndJob(t, p)
    BY <1>11 DEF ToolExits
  <2>2. servers' \subseteq Servers /\ gen' \in [Servers -> Gens]
    BY <1>11, ReplaceConfigType DEF ToolExits
  <2>3. QED BY <1>11, <2>1, <2>2, EndJobType DEF ToolExits
<1>12. ASSUME NEW t \in Tasks, JobTimeout(t) PROVE TypeOK'
  <2>1. \E p \in {"strayed"} \cup Abandoned : EndJob(t, p)
    BY <1>12 DEF JobTimeout, Past, Abandoned
  <2>2. QED BY <1>12, <2>1, EndJobType DEF JobTimeout
<1>13. ASSUME NEW t \in Tasks, StrayCommits(t) \/ StrayEnds(t) PROVE TypeOK'
  <2>1. Idle("strayed") \in TaskRecords
    BY IdleIsRecord DEF Phases
  <2>2. task[t] \in TaskRecords /\ "adrift" \in Phases
    BY DEF Phases, Abandoned
  <2>3. [task[t] EXCEPT !.phase = "adrift"] \in TaskRecords
    BY <2>2 DEF TaskRecords
  <2>4. task' \in [Tasks -> TaskRecords]
    BY <1>13, <2>1, <2>3 DEF StrayCommits, StrayEnds
  <2>5. disk' \in Registries
    BY <1>13, <2>2, RewrittenIsRegistry DEF StrayCommits, StrayEnds, TaskRecords
  <2>6. QED BY <1>13, <2>4, <2>5 DEF StrayCommits, StrayEnds
<1>14. ASSUME Restart PROVE TypeOK'
  <2>1. Idle("killed") \in TaskRecords
    BY IdleIsRecord DEF Phases
  <2>2. up' \in BOOLEAN
    BY <1>14 DEF Restart, Loadable
  <2>3. servers' \subseteq Servers
    BY <1>14 DEF Restart, Loaded, Registries, ConstantsOK
  <2>4. <<>> \in Seq(Tasks) /\ Len(<<>>) <= MaxJobs
    BY EmptySeq DEF ConstantsOK
  <2>5. task' \in [Tasks -> TaskRecords]
    BY <1>14, <2>1 DEF Restart
  <2>6. QED BY <1>14, <2>2, <2>3, <2>4, <2>5 DEF Restart
<1>15. CASE UNCHANGED vars
  BY <1>15 DEF vars
<1>16. QED
  BY <1>1, <1>2, <1>3, <1>4, <1>5, <1>6, <1>7, <1>8, <1>9, <1>10, <1>11, <1>12, <1>13,
     <1>14, <1>15 DEF Next, TaskStep

(* Every state of every behaviour is well typed.                           *)
THEOREM TypeCorrect == Spec => []TypeOK
BY TypeInit, TypeStep, PTL DEF Spec

-----------------------------------------------------------------------------
(* A task appears at most once among those that have not started, and only *)
(* while it has not.                                                       *)
ReadyOK ==
  /\ \A i \in DOMAIN ready : task[ready[i]].phase = "ready"
  /\ \A i, j \in DOMAIN ready : ready[i] = ready[j] => i = j

(* What a step does to the work on servers: it changes one task and none   *)
(* of the others.                                                          *)
OneTask(t) == \A u \in Tasks \ {t} : task'[u] = task[u]

\* it moves t on, and t's job stays queued or running
Advances(t) ==
  /\ OneTask(t)
  /\ task[t].phase \in Pending
  /\ task'[t].kind = task[t].kind /\ task'[t].server = task[t].server
  /\ task'[t].phase \in Pending \ {"ready"}

LEMMA EnterServerLockAdvances ==
  ASSUME TypeOK, NEW t \in Tasks, task[t].phase \in Pending, NEW h, NEW w,
         EnterServerLock(t, h, w)
  PROVE  Advances(t)
<1>1. task[t] \in TaskRecords /\ task \in [Tasks -> TaskRecords]
  BY DEF TypeOK
<1>2. {"lost", "run", "lock"} \subseteq Pending \ {"ready"}
  BY DEF Pending
<1> DEFINE l == Lock(task[t].server)
<1>3. CASE task' = [task EXCEPT ![t].phase = "lost"]
  BY <1>1, <1>2, <1>3 DEF Advances, OneTask, TaskRecords
<1>4. CASE task' = [task EXCEPT ![t].phase = "run", ![t].lock = l, ![t].base = disk]
  BY <1>1, <1>2, <1>4 DEF Advances, OneTask, TaskRecords
<1>5. CASE task' = [task EXCEPT ![t].phase = "lock", ![t].lock = l]
  BY <1>1, <1>2, <1>5 DEF Advances, OneTask, TaskRecords
<1>6. QED BY <1>3, <1>4, <1>5 DEF EnterServerLock

LEMMA EnterProvisioningAdvances ==
  ASSUME TypeOK, NEW t \in Tasks, task[t].phase \in Pending, NEW w, EnterProvisioning(t, w)
  PROVE  Advances(t)
<1>1. task[t] \in TaskRecords /\ task \in [Tasks -> TaskRecords]
  BY DEF TypeOK
<1>2. CASE task' = [task EXCEPT ![t].phase = "run", ![t].base = disk]
  BY <1>1, <1>2 DEF Advances, OneTask, TaskRecords, Pending
<1>3. CASE EnterServerLock(t, [holder EXCEPT ![Prov] = t], w)
  BY <1>3, EnterServerLockAdvances
<1>4. QED BY <1>2, <1>3 DEF EnterProvisioning

LEMMA EndJobEnds ==
  ASSUME TypeOK, NEW t \in Tasks, NEW p \in {"succeeded", "failed", "strayed"} \cup Abandoned,
         EndJob(t, p)
  PROVE  OneTask(t) /\ task'[t].phase \notin Pending
<1>1. task[t] \in TaskRecords /\ task \in [Tasks -> TaskRecords]
  BY DEF TypeOK
<1>2. p \notin Pending
  BY DEF Pending, Abandoned
<1>3. Idle(p).phase = p
  BY DEF Idle
<1>4. [task[t] EXCEPT !.phase = p, !.lock = Prov].phase = p
  BY <1>1 DEF TaskRecords
<1>5. QED BY <1>1, <1>2, <1>3, <1>4 DEF EndJob, OneTask

-----------------------------------------------------------------------------
(* ReadyOK is preserved by a step that leaves ready as it is and touches   *)
(* no task that waits to be started.                                       *)
LEMMA ReadyKept ==
  ASSUME TypeOK, ReadyOK, UNCHANGED ready, NEW t \in Tasks, OneTask(t),
         task[t].phase # "ready"
  PROVE  ReadyOK'
<1>1. \A i \in DOMAIN ready : ready[i] \in Tasks \ {t}
  BY ElementOfSeq, LenProperties DEF TypeOK, ReadyOK
<1>2. QED BY <1>1 DEF ReadyOK, OneTask

LEMMA ReadyStart ==
  ASSUME TypeOK, ReadyOK, NEW k \in Kinds, NEW s \in Servers, StartTask(k, s)
  PROVE  ReadyOK'
<1> DEFINE f == FreshTask
<1>1. f \in Tasks /\ task[f].phase = "free"
  BY FreshIsFree DEF StartTask, NewTask
<1>2. task'[f].phase = "ready" /\ OneTask(f)
  BY <1>1, StartTaskType DEF OneTask, TypeOK
<1>3. ready \in Seq(Tasks) /\ Len(ready) \in Nat /\ DOMAIN ready = 1 .. Len(ready)
  BY LenProperties DEF TypeOK
<1>4. \A i \in DOMAIN ready : ready[i] \in Tasks \ {f}
  BY <1>1, <1>3, ElementOfSeq DEF ReadyOK
<1> HIDE DEF f
<1>5. ready' = Append(ready, f)
  BY DEF StartTask, f
<1>6. /\ DOMAIN ready' = 1 .. Len(ready) + 1
      /\ \A i \in 1 .. Len(ready) : ready'[i] = ready[i]
      /\ ready'[Len(ready) + 1] = f
  BY <1>1, <1>3, <1>5, AppendProperties, LenProperties
<1>7. QED BY <1>2, <1>3, <1>4, <1>6 DEF ReadyOK, OneTask

LEMMA ReadyBegin ==
  ASSUME TypeOK, ReadyOK, NEW t \in Tasks, Begin(t)
  PROVE  ReadyOK' /\ Advances(t) /\ task[t].phase = "ready"
<1>1. ready \in Seq(Tasks) /\ ready # <<>> /\ t = Head(ready)
  BY DEF Begin, TypeOK
<1>2. Len(ready) \in Nat \ {0} /\ DOMAIN ready = 1 .. Len(ready) /\ t = ready[1]
  BY <1>1, LenProperties, EmptySeq
<1>3. task[t].phase = "ready" /\ "ready" \in Pending
  BY <1>2 DEF ReadyOK, Pending
<1>4. Advances(t)
  <2>1. CASE EnterServerLock(t, holder, waiters)
    BY <1>3, <2>1, EnterServerLockAdvances
  <2>2. CASE EnterProvisioning(t, waiters)
    BY <1>3, <2>2, EnterProvisioningAdvances
  <2>3. CASE task' = [task EXCEPT ![t].phase = "prov"]
    <3>1. task[t] \in TaskRecords /\ task \in [Tasks -> TaskRecords]
      BY DEF TypeOK
    <3>2. QED BY <1>3, <2>3, <3>1 DEF Advances, OneTask, TaskRecords, Pending
  <2>4. QED BY <2>1, <2>2, <2>3 DEF Begin
<1>5. ready' = Tail(ready)
  BY DEF Begin
<1>6. /\ DOMAIN ready' = 1 .. Len(ready) - 1
      /\ \A i \in 1 .. Len(ready) - 1 : ready'[i] = ready[i + 1]
  BY <1>1, <1>2, <1>5, HeadTailProperties, LenProperties
<1>7. \A i \in 1 .. Len(ready) - 1 : ready'[i] \in Tasks \ {t}
  BY <1>1, <1>2, <1>6, ElementOfSeq DEF ReadyOK
<1>8. \A i \in DOMAIN ready' : i + 1 \in DOMAIN ready /\ ready'[i] = ready[i + 1]
  BY <1>2, <1>6
<1>9. \A i \in DOMAIN ready' : task'[ready'[i]] = task[ready[i + 1]]
  BY <1>4, <1>6, <1>7, <1>8 DEF Advances, OneTask
<1>10. \A i \in DOMAIN ready' : task'[ready'[i]].phase = "ready"
  BY <1>8, <1>9 DEF ReadyOK
<1>11. \A i, j \in DOMAIN ready' : ready'[i] = ready'[j] => i = j
  <2>1. \A i, j \in DOMAIN ready' : ready'[i] = ready'[j] => i + 1 = j + 1
    BY <1>8 DEF ReadyOK
  <2>2. QED BY <1>2, <1>6, <2>1
<1>12. QED BY <1>3, <1>4, <1>10, <1>11 DEF ReadyOK

-----------------------------------------------------------------------------
(* MaintenanceExact, by the effect a step has on one task.                 *)

LEMMA ExactWhenAdvancing ==
  ASSUME MaintenanceExact, NEW t \in Tasks, Advances(t), UNCHANGED maintenance
  PROVE  MaintenanceExact'
<1>1. \A u \in Tasks, s \in Servers : Maintains(u, s)' <=> Maintains(u, s)
  BY DEF Advances, OneTask, Maintains
<1>2. QED BY <1>1 DEF MaintenanceExact

LEMMA ExactWhenEnding ==
  ASSUME TypeOK, MaintenanceExact, NEW t \in Tasks, task[t].phase \in Pending,
         NEW p \in {"succeeded", "failed", "strayed"} \cup Abandoned, EndJob(t, p)
  PROVE  MaintenanceExact'
<1>1. OneTask(t) /\ task'[t].phase \notin Pending
  BY EndJobEnds
<1>2. \A u \in Tasks, s \in Servers : Maintains(u, s)' <=> Maintains(u, s) /\ u # t
  BY <1>1 DEF OneTask, Maintains
<1>3. CASE task[t].kind \in Maint
  <2>1. task[t].server \in Servers /\ Maintains(t, task[t].server)
    BY <1>3 DEF TypeOK, TaskRecords, Maintains
  <2>2. maintenance' = maintenance \ {task[t].server}
    BY <1>3 DEF EndJob
  <2>3. \A s \in Servers : Maintains(t, s) <=> s = task[t].server
    BY <1>3 DEF Maintains
  <2>4. QED BY <1>2, <2>1, <2>2, <2>3 DEF MaintenanceExact
<1>4. CASE task[t].kind \notin Maint
  <2>1. maintenance' = maintenance
    BY <1>4 DEF EndJob
  <2>2. \A s \in Servers : ~Maintains(t, s)
    BY <1>4 DEF Maintains
  <2>3. QED BY <1>2, <2>1, <2>2 DEF MaintenanceExact
<1>5. QED BY <1>3, <1>4

(* A step on a task that maintains nothing, before or after.               *)
LEMMA ExactWhenElsewhere ==
  ASSUME MaintenanceExact, NEW t \in Tasks, OneTask(t), UNCHANGED maintenance,
         \A s \in Servers : ~Maintains(t, s) /\ ~Maintains(t, s)'
  PROVE  MaintenanceExact'
<1>1. \A u \in Tasks, s \in Servers : Maintains(u, s)' <=> Maintains(u, s)
  BY DEF OneTask, Maintains
<1>2. QED BY <1>1 DEF MaintenanceExact

(* A new task that maintains a server nobody maintains.                    *)
LEMMA ExactWhenStarting ==
  ASSUME TypeOK, MaintenanceExact, NEW k \in Maint, NEW s \in Servers,
         AcceptMaintenance(k, s)
  PROVE  MaintenanceExact'
<1>1. k \in Kinds /\ StartTask(k, s)
  BY DEF AcceptMaintenance, Kinds, Tools, Maint
<1>2. PICK f \in Tasks : f = FreshTask /\ task[f].phase = "free"
  BY <1>1, FreshIsFree DEF StartTask, NewTask
<1>3. OneTask(f) /\ task'[f].kind = k /\ task'[f].server = s /\ task'[f].phase = "ready"
  BY <1>1, <1>2, StartTaskType DEF OneTask, TypeOK
<1>4. s \notin maintenance /\ maintenance' = maintenance \cup {s}
  BY DEF AcceptMaintenance, MaintenanceGuard, Busy
<1>5. \A r \in Servers : ~Maintains(f, r)
  BY <1>2 DEF Maintains, Pending
<1>6. \A r \in Servers : Maintains(f, r)' <=> r = s
  BY <1>3 DEF Maintains, Pending
<1>7. \A u \in Tasks \ {f}, r \in Servers : Maintains(u, r)' <=> Maintains(u, r)
  BY <1>3 DEF OneTask, Maintains
<1>8. QED BY <1>2, <1>4, <1>5, <1>6, <1>7 DEF MaintenanceExact

-----------------------------------------------------------------------------
(* The maintenance flags are exact, in every state of every behaviour.  The *)
(* inductive invariant is TypeOK /\ ReadyOK /\ MaintenanceExact.           *)

Inductive == TypeOK /\ ReadyOK /\ MaintenanceExact

LEMMA ExactInit == Init => ReadyOK /\ MaintenanceExact
<1> SUFFICES ASSUME Init PROVE ReadyOK /\ MaintenanceExact
  OBVIOUS
<1>1. ReadyOK
  BY DEF Init, ReadyOK
<1>2. \A t \in Tasks, s \in Servers : ~Maintains(t, s)
  BY DEF Init, Maintains, Idle, Maint
<1>3. QED BY <1>1, <1>2 DEF Init, MaintenanceExact

LEMMA ExactStep == Inductive /\ [Next]_vars => (ReadyOK /\ MaintenanceExact)'
<1> SUFFICES ASSUME TypeOK, ReadyOK, MaintenanceExact, [Next]_vars
             PROVE  ReadyOK' /\ MaintenanceExact'
  BY DEF Inductive
<1>1. ASSUME NEW s \in Servers, NEW k \in {"action", "provision"}, StartTask(k, s),
             UNCHANGED maintenance
      PROVE  ReadyOK' /\ MaintenanceExact'
  <2>1. k \in Kinds /\ k \notin Maint
    BY DEF Kinds, Tools, Maint
  <2>2. PICK f \in Tasks : f = FreshTask /\ task[f].phase = "free"
    BY <1>1, FreshIsFree DEF StartTask, NewTask
  <2>3. OneTask(f) /\ task'[f].kind = k
    BY <1>1, <2>1, <2>2, StartTaskType DEF OneTask, TypeOK
  <2>4. \A r \in Servers : ~Maintains(f, r) /\ ~Maintains(f, r)'
    BY <2>1, <2>2, <2>3 DEF Maintains, Pending
  <2>5. QED BY <1>1, <2>1, <2>2, <2>3, <2>4, ReadyStart, ExactWhenElsewhere
<1>2. ASSUME NEW s \in Servers, AcceptAction(s) PROVE ReadyOK' /\ MaintenanceExact'
  BY <1>1, <1>2 DEF AcceptAction
<1>3. ASSUME NEW s \in Servers, AcceptProvision(s) PROVE ReadyOK' /\ MaintenanceExact'
  BY <1>1, <1>3 DEF AcceptProvision
<1>4. ASSUME NEW s \in Servers, NEW k \in Maint, AcceptMaintenance(k, s)
      PROVE  ReadyOK' /\ MaintenanceExact'
  <2>1. k \in Kinds /\ StartTask(k, s)
    BY <1>4 DEF AcceptMaintenance, Kinds, Tools, Maint
  <2>2. QED BY <1>4, <2>1, ReadyStart, ExactWhenStarting
<1>5. ASSUME NEW s \in Servers, QueueFileOp(s) PROVE ReadyOK' /\ MaintenanceExact'
  <2>1. PICK f \in Tasks : f = FreshTask /\ task[f].phase = "free"
    BY <1>5, FreshIsFree DEF QueueFileOp, NewTask
  <2>2. OneTask(f) /\ task'[f].kind = "file"
    BY <1>5, <2>1 DEF QueueFileOp, NewTask, OneTask, TypeOK
  <2>3. \A r \in Servers : ~Maintains(f, r) /\ ~Maintains(f, r)'
    BY <2>1, <2>2 DEF Maintains, Pending, Maint
  <2>4. UNCHANGED <<ready, maintenance>>
    BY <1>5 DEF QueueFileOp
  <2>5. QED BY <2>1, <2>2, <2>3, <2>4, ReadyKept, ExactWhenElsewhere
<1>6. ASSUME NEW t \in Tasks, Begin(t) PROVE ReadyOK' /\ MaintenanceExact'
  <2>1. UNCHANGED maintenance
    BY <1>6 DEF Begin
  <2>2. QED BY <1>6, <2>1, ReadyBegin, ExactWhenAdvancing
<1>7. ASSUME NEW t \in Tasks, UNCHANGED <<ready, maintenance>>, Advances(t),
             task[t].phase # "ready"
      PROVE  ReadyOK' /\ MaintenanceExact'
  BY <1>7, ReadyKept, ExactWhenAdvancing DEF Advances
<1>8. ASSUME NEW t \in Tasks, ProvTurn(t) PROVE ReadyOK' /\ MaintenanceExact'
  <2>1. task[t].phase = "prov" /\ task[t].phase \in Pending
    BY <1>8 DEF ProvTurn, Pending
  <2>2. Advances(t)
    BY <1>8, <2>1, EnterProvisioningAdvances DEF ProvTurn
  <2>3. QED BY <1>7, <1>8, <2>1, <2>2 DEF ProvTurn
<1>9. ASSUME NEW t \in Tasks, LockTurn(t) PROVE ReadyOK' /\ MaintenanceExact'
  <2>1. task[t] \in TaskRecords /\ task \in [Tasks -> TaskRecords]
    BY DEF TypeOK
  <2>2. task[t].phase = "lock" /\ UNCHANGED <<ready, maintenance>>
    BY <1>9 DEF LockTurn
  <2>3. CASE task[t].kind = "file"
    <3>1. task' = [task EXCEPT ![t] = Idle("succeeded")]
      BY <1>9, <2>3 DEF LockTurn
    <3>2. OneTask(t) /\ task'[t].kind = "action"
      BY <2>1, <3>1 DEF OneTask, Idle
    <3>3. \A r \in Servers : ~Maintains(t, r) /\ ~Maintains(t, r)'
      BY <2>3, <3>2 DEF Maintains, Maint
    <3>4. QED BY <2>2, <3>2, <3>3, ReadyKept, ExactWhenElsewhere
  <2>4. CASE task[t].kind # "file"
    <3>1. task' = [task EXCEPT ![t].phase = "run", ![t].base = disk]
      BY <1>9, <2>4 DEF LockTurn
    <3>2. Advances(t)
      BY <2>1, <2>2, <3>1 DEF Advances, OneTask, TaskRecords, Pending
    <3>3. QED BY <1>7, <2>2, <3>2
  <2>5. QED BY <2>3, <2>4
<1>10. ASSUME NEW t \in Tasks, NEW p \in {"succeeded", "failed", "strayed"} \cup Abandoned,
              EndJob(t, p), task[t].phase \in {"run", "commit"}
       PROVE  ReadyOK' /\ MaintenanceExact'
  <2>1. OneTask(t)
    BY <1>10, EndJobEnds
  <2>2. UNCHANGED ready /\ task[t].phase \in Pending
    BY <1>10 DEF EndJob, Pending
  <2>3. QED BY <1>10, <2>1, <2>2, ReadyKept, ExactWhenEnding
<1>11. ASSUME NEW t \in Tasks,
              EndAction(t) \/ ToolFails(t) \/ ToolExits(t) \/ JobTimeout(t)
       PROVE  ReadyOK' /\ MaintenanceExact'
  <2>1. /\ task[t].phase \in {"run", "commit"}
        /\ \E p \in {"succeeded", "failed", "strayed"} \cup Abandoned : EndJob(t, p)
    BY <1>11 DEF EndAction, ToolFails, ToolExits, JobTimeout, Past, Abandoned
  <2>2. QED BY <1>10, <2>1
<1>12. ASSUME NEW t \in Tasks, ToolCommit(t) PROVE ReadyOK' /\ MaintenanceExact'
  <2>1. task[t] \in TaskRecords /\ task \in [Tasks -> TaskRecords]
    BY DEF TypeOK
  <2>2. Advances(t)
    BY <1>12, <2>1 DEF ToolCommit, Advances, OneTask, TaskRecords, Pending
  <2>3. QED BY <1>7, <1>12, <2>2 DEF ToolCommit
<1>13. ASSUME NEW t \in Tasks, StrayCommits(t) \/ StrayEnds(t)
       PROVE  ReadyOK' /\ MaintenanceExact'
  <2>1. OneTask(t) /\ task'[t].phase \in {"adrift", "strayed"}
    BY <1>13 DEF StrayCommits, StrayEnds, OneTask, TypeOK, TaskRecords, Idle
  <2>2. \A r \in Servers : ~Maintains(t, r) /\ ~Maintains(t, r)'
    BY <1>13, <2>1 DEF StrayCommits, StrayEnds, Maintains, Pending
  <2>3. UNCHANGED <<ready, maintenance>> /\ task[t].phase # "ready"
    BY <1>13 DEF StrayCommits, StrayEnds
  <2>4. QED BY <2>1, <2>2, <2>3, ReadyKept, ExactWhenElsewhere
<1>14. ASSUME Restart PROVE ReadyOK' /\ MaintenanceExact'
  <2>1. ReadyOK'
    BY <1>14 DEF Restart, ReadyOK
  <2>2. \A t \in Tasks, s \in Servers : ~Maintains(t, s)'
    BY <1>14 DEF Restart, Maintains, Idle, Maint, Pending
  <2>3. QED BY <1>14, <2>1, <2>2 DEF Restart, MaintenanceExact
<1>15. CASE UNCHANGED vars
  BY <1>15 DEF vars, ReadyOK, MaintenanceExact, Maintains
<1>16. QED
  BY <1>2, <1>3, <1>4, <1>5, <1>6, <1>8, <1>9, <1>11, <1>12, <1>13, <1>14, <1>15
     DEF Next, TaskStep

(* A server is under maintenance exactly while one change or deletion of it *)
(* is queued or running, whatever jobs end, fail, time out or are evicted  *)
(* from the job table meanwhile, and across restarts of the agent.         *)
THEOREM MaintenanceCorrect == Spec => []MaintenanceExact
<1>1. Init => Inductive
  BY TypeInit, ExactInit DEF Inductive
<1>2. Inductive /\ [Next]_vars => Inductive'
  BY TypeStep, ExactStep DEF Inductive
<1>3. Inductive => MaintenanceExact
  BY DEF Inductive
<1>4. QED BY <1>1, <1>2, <1>3, PTL DEF Spec

=============================================================================
