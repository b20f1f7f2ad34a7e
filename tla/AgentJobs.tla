------------------------------ MODULE AgentJobs ------------------------------
(***************************************************************************)
(* The host agent's job engine (mc_manager/agent.py): the handlers that    *)
(* accept work on a Minecraft server, the asyncio tasks that carry it out, *)
(* and the locks, the maintenance flags, the bounded job table and the     *)
(* configuration reloads they share.  The root tools a job runs            *)
(* (mc_manager/server_installer.py) appear by what they do to the registry *)
(* file managed-servers.json, which they read when they begin and rewrite  *)
(* as a whole when they commit.                                            *)
(*                                                                         *)
(* The event loop runs one callback at a time, so a step is the code       *)
(* between two awaits.  Tasks first run in the order they were created     *)
(* (variable ready); a released asyncio.Lock is unlocked until its first   *)
(* waiter is resumed, and in that gap other handlers run.                  *)
(***************************************************************************)
EXTENDS Naturals, Sequences

CONSTANTS
  Servers,   \* server ids
  Legacy,    \* the ids agent.toml lists itself: standard legacy servers
  Managed,   \* the ids the registry file lists at first
  Tasks,     \* as many asyncio tasks as a behaviour may create
  NoTask,    \* nobody holds the lock
  Gens,      \* names for the successive Lock objects of one server
  Prov,      \* runtime.provisioning_lock
  MaxJobs    \* MAX_JOBS, the size of the job table

ASSUME ConstantsOK ==
  /\ Servers # {}
  /\ Legacy \subseteq Servers
  /\ Managed \subseteq Servers
  /\ Legacy \cap Managed = {}
  /\ NoTask \notin Tasks
  /\ Gens # {}
  /\ Prov \notin Servers \X Gens
  /\ MaxJobs \in Nat \ {0}

VARIABLES
  up,           \* the agent process is running
  servers,      \* the keys of runtime.servers and runtime.locks
  gen,          \* gen[s] names the Lock object runtime.locks[s]
  holder,       \* who holds each lock
  waiters,      \* who waits for it, in order
  maintenance,  \* runtime.maintenance_servers
  jobs,         \* runtime.jobs, oldest first
  ready,        \* tasks created and not yet started, in order
  task,         \* what each task does, and how far it is
  disk          \* the registry file

vars == <<up, servers, gen, holder, waiters, maintenance, jobs, ready, task, disk>>
-----------------------------------------------------------------------------
Locks      == (Servers \X Gens) \cup {Prov}
Registries == [managed : SUBSET Servers, tombs : SUBSET Servers]
Blank      == [managed |-> {}, tombs |-> {}]

Tools == {"provision", "change", "delete", "deleteLegacy"}
Maint == {"change", "delete", "deleteLegacy"}
Kinds == Tools \cup {"action", "file"}

\* queued and running jobs, in the order a job passes through; "lost" is a task
\* that died of a KeyError and left its job queued for ever
Pending == {"ready", "prov", "lock", "run", "commit", "lost"}
\* over: "stray" is a tool its job abandoned at the timeout, "adrift" an abandoned change
\* that has written the registry and may still roll back, "strayed" one that has ended
Abandoned == {"stray", "adrift"}
Phases    == Pending \cup Abandoned \cup {"free", "succeeded", "failed", "killed", "strayed"}

TaskRecords == [kind : Kinds, server : Servers, phase : Phases,
                lock : Locks, base : Registries]

\* load_agent_config: agent.toml's servers and the registry's, less the tombstones;
\* an id listed twice is a ConfigError.
Loadable(r) == ((Legacy \cap r.managed) \ r.tombs) = {}
\* (mutant) the tombstones of deleted legacy servers are forgotten
LoadedWithoutTombs(r) == Legacy \cup r.managed
Loaded(r)   == (Legacy \cup r.managed) \ r.tombs

\* A task that does nothing (yet, or any more) in phase p.
Idle(p) == [kind |-> "action", server |-> CHOOSE s \in Servers : TRUE,
            phase |-> p, lock |-> Prov, base |-> Blank]

Lock(s)       == <<s, gen[s]>>
\* (mutant) only a running job makes a server busy, not one that waits
BusyWhenLocked(s) == holder[Lock(s)] # NoTask
Busy(s)       == s \in maintenance \/ holder[Lock(s)] # NoTask
HasPending(s) == \E i \in DOMAIN jobs :
                   task[jobs[i]].server = s /\ task[jobs[i]].phase \in Pending

\* (mutant) nobody waits for the provisioning lock
FreeOrProv(l) == l = Prov \/ (holder[l] = NoTask /\ waiters[l] = <<>>)

\* asyncio.Lock.acquire takes a free lock at once only when nobody waits for it.
FreeLock(l) == holder[l] = NoTask /\ waiters[l] = <<>>

FreeTasks == {t \in Tasks : task[t].phase = "free"}
FreshTask == CHOOSE t \in FreeTasks : TRUE

\* a name for a new Lock object: not the one a task still holds or waits for
LocksInUse  == {task[t].lock : t \in {u \in Tasks : task[u].phase \in Pending}}
FreshGen(s) == LET free == {g \in Gens : <<s, g>> \notin LocksInUse}
               IN IF free = {} THEN gen[s] ELSE CHOOSE g \in free : TRUE

(* The root tools: whether the registry r they read lets them proceed on s,  *)
(* and the registry they write when they do.                                 *)
InstallAccepts(s, r)        == s \notin r.managed /\ s \notin Legacy \ r.tombs
ChangeAccepts(s, r)         == s \in r.managed
DeleteAccepts(s, r, legacy) == s \in r.managed \/ (legacy /\ s \in Legacy)

Installed(s, r) == [managed |-> r.managed \cup {s}, tombs |-> r.tombs \ {s}]
Deleted(s, r)   == IF s \in r.managed THEN [r EXCEPT !.managed = @ \ {s}]
                                      ELSE [r EXCEPT !.tombs = @ \cup {s}]

Accepts(t) ==
  LET s == task[t].server
      r == task[t].base
  IN CASE task[t].kind = "provision" -> InstallAccepts(s, r)
       [] task[t].kind = "change"    -> ChangeAccepts(s, r)
       [] OTHER                      -> DeleteAccepts(s, r, task[t].kind = "deleteLegacy")

\* The registry the tool of t writes: the one it read, with its own change.
Rewritten(t) ==
  LET s == task[t].server
      r == task[t].base
  IN CASE task[t].kind = "provision" -> Installed(s, r)
       [] task[t].kind = "change"    -> r
       [] OTHER                      -> Deleted(s, r)
-----------------------------------------------------------------------------
Init ==
  /\ up = TRUE
  /\ disk = [managed |-> Managed, tombs |-> {}]
  /\ servers = Legacy \cup Managed
  /\ gen = [s \in Servers |-> CHOOSE g \in Gens : TRUE]
  /\ holder = [l \in Locks |-> NoTask]
  /\ waiters = [l \in Locks |-> <<>>]
  /\ maintenance = {}
  /\ jobs = <<>>
  /\ ready = <<>>
  /\ task = [t \in Tasks |-> Idle("free")]
-----------------------------------------------------------------------------
(* Handlers: they run to their end without an await.                       *)

\* (mutant) one entry too many
EvictedLate == IF Len(jobs) <= MaxJobs THEN jobs
               ELSE SubSeq(jobs, Len(jobs) - MaxJobs + 2, Len(jobs))

\* The oldest entries make room, whatever the state of their jobs.
Evicted == IF Len(jobs) < MaxJobs THEN jobs
           ELSE SubSeq(jobs, Len(jobs) - MaxJobs + 2, Len(jobs))

NewTask(k, s, p, l) ==
  /\ FreeTasks # {}
  /\ task' = [task EXCEPT ![FreshTask] = [kind |-> k, server |-> s, phase |-> p,
                                         lock |-> l, base |-> Blank]]

StartTask(k, s) ==
  /\ NewTask(k, s, "ready", Prov)
  /\ jobs' = Append(Evicted, FreshTask)
  /\ ready' = Append(ready, FreshTask)
  /\ UNCHANGED <<up, servers, gen, holder, waiters, disk>>

\* start_action, start_script
AcceptAction(s) ==
  /\ up
  /\ s \in servers
  /\ ~Busy(s)
  /\ StartTask("action", s)
  /\ UNCHANGED maintenance

\* provision
AcceptProvision(s) ==
  /\ up
  /\ holder[Prov] = NoTask
  /\ s \notin servers
  /\ StartTask("provision", s)
  /\ UNCHANGED maintenance

\* (mutant) the job table alone is asked whether the server is in use
PendingGuard(s) == holder[Prov] = NoTask /\ ~HasPending(s)

MaintenanceGuard(s) == holder[Prov] = NoTask /\ ~Busy(s) /\ ~HasPending(s)

\* change_software and delete_server; a managed server has a record in the registry
AcceptMaintenance(k, s) ==
  /\ up
  /\ s \in servers
  /\ IF k = "deleteLegacy" THEN s \in Legacy \ disk.managed ELSE s \in disk.managed
  /\ MaintenanceGuard(s)
  /\ StartTask(k, s)
  /\ maintenance' = maintenance \cup {s}

\* write_file, create_directory, upload_file, delete_file.  With the lock free
\* the whole operation is one step and changes nothing here; otherwise it waits,
\* and that happens only in the gap after a release.
QueueFileOp(s) ==
  /\ up
  /\ s \in servers
  /\ ~Busy(s)
  /\ waiters[Lock(s)] # <<>>
  /\ NewTask("file", s, "lock", Lock(s))
  /\ waiters' = [waiters EXCEPT ![Lock(s)] = Append(@, FreshTask)]
  /\ UNCHANGED <<up, servers, gen, holder, maintenance, jobs, ready, disk>>
-----------------------------------------------------------------------------
(* Tasks.  h and w are the holders and waiters the step has made so far.   *)

\* `async with self.locks[server.id]`: a server dropped from the configuration
\* is a KeyError, which also releases the provisioning lock.
EnterServerLock(t, h, w) ==
  LET s == task[t].server
      l == Lock(s)
  IN \/ /\ s \notin servers
        /\ holder' = [h EXCEPT ![Prov] = IF @ = t THEN NoTask ELSE @]
        /\ waiters' = w
        /\ task' = [task EXCEPT ![t].phase = "lost"]
     \/ /\ s \in servers
        /\ h[l] = NoTask /\ w[l] = <<>>
        /\ holder' = [h EXCEPT ![l] = t]
        /\ waiters' = w
        /\ task' = [task EXCEPT ![t].phase = "run", ![t].lock = l, ![t].base = disk]
     \/ /\ s \in servers
        /\ ~(h[l] = NoTask /\ w[l] = <<>>)
        /\ holder' = h
        /\ waiters' = [w EXCEPT ![l] = Append(@, t)]
        /\ task' = [task EXCEPT ![t].phase = "lock", ![t].lock = l]

\* t has the provisioning lock: a provision job starts its tool, the others
\* go on to the server's lock.
EnterProvisioning(t, w) ==
  LET h == [holder EXCEPT ![Prov] = t]
  IN IF task[t].kind = "provision"
       THEN /\ holder' = h
            /\ waiters' = w
            /\ task' = [task EXCEPT ![t].phase = "run", ![t].base = disk]
       ELSE EnterServerLock(t, h, w)

\* the first step of run_job, run_provision_job, run_software_change_job and
\* run_delete_server_job
Begin(t) ==
  /\ ready # <<>>
  /\ t = Head(ready)
  /\ ready' = Tail(ready)
  /\ \/ task[t].kind = "action" /\ EnterServerLock(t, holder, waiters)
     \/ task[t].kind \in Tools /\ FreeLock(Prov) /\ EnterProvisioning(t, waiters)
     \/ /\ task[t].kind \in Tools
        /\ ~FreeLock(Prov)
        /\ waiters' = [waiters EXCEPT ![Prov] = Append(@, t)]
        /\ task' = [task EXCEPT ![t].phase = "prov"]
        /\ UNCHANGED holder
  /\ UNCHANGED <<up, servers, gen, maintenance, jobs, disk>>

IsNext(t, l) == holder[l] = NoTask /\ waiters[l] # <<>> /\ t = Head(waiters[l])

ProvTurn(t) ==
  /\ task[t].phase = "prov"
  /\ IsNext(t, Prov)
  /\ EnterProvisioning(t, [waiters EXCEPT ![Prov] = Tail(@)])
  /\ UNCHANGED <<up, servers, gen, maintenance, jobs, ready, disk>>

\* A file operation does all its work in the step that resumes it.
LockTurn(t) ==
  LET l == task[t].lock
  IN /\ task[t].phase = "lock"
     /\ IsNext(t, l)
     /\ waiters' = [waiters EXCEPT ![l] = Tail(@)]
     /\ IF task[t].kind = "file"
          THEN task' = [task EXCEPT ![t] = Idle("succeeded")] /\ UNCHANGED holder
          ELSE /\ task' = [task EXCEPT ![t].phase = "run", ![t].base = disk]
               /\ holder' = [holder EXCEPT ![l] = t]
     /\ UNCHANGED <<up, servers, gen, maintenance, jobs, ready, disk>>

\* (mutant) a failed job keeps its locks
EndJobHoldsLocks(t, p) ==
  /\ task' = [task EXCEPT ![t] = IF p \in Abandoned THEN [@ EXCEPT !.phase = p, !.lock = Prov]
                                                    ELSE Idle(p)]
  /\ holder' = [l \in Locks |-> IF holder[l] = t /\ p # "failed" THEN NoTask ELSE holder[l]]
  /\ maintenance' = IF task[t].kind \in Maint THEN maintenance \ {task[t].server}
                                              ELSE maintenance
  /\ UNCHANGED <<up, waiters, jobs, ready>>

\* (mutant) only a successful job ends the maintenance of its server
EndJobFlagOnSuccess(t, p) ==
  /\ task' = [task EXCEPT ![t] = IF p \in Abandoned THEN [@ EXCEPT !.phase = p, !.lock = Prov]
                                                    ELSE Idle(p)]
  /\ holder' = [l \in Locks |-> IF holder[l] = t THEN NoTask ELSE holder[l]]
  /\ maintenance' = IF task[t].kind \in Maint /\ p = "succeeded"
                       THEN maintenance \ {task[t].server} ELSE maintenance
  /\ UNCHANGED <<up, waiters, jobs, ready>>

\* The end of a job, in every branch of its try statement: its locks are
\* released and its server leaves maintenance.
EndJob(t, p) ==
  /\ task' = [task EXCEPT ![t] = IF p \in Abandoned THEN [@ EXCEPT !.phase = p, !.lock = Prov]
                                                    ELSE Idle(p)]
  /\ holder' = [l \in Locks |-> IF holder[l] = t THEN NoTask ELSE holder[l]]
  /\ maintenance' = IF task[t].kind \in Maint THEN maintenance \ {task[t].server}
                                              ELSE maintenance
  /\ UNCHANGED <<up, waiters, jobs, ready>>

\* execute_steps: every command ran, or one failed, or was killed at its timeout
EndAction(t) ==
  /\ task[t].kind = "action" /\ task[t].phase = "run"
  /\ \E p \in {"succeeded", "failed"} : EndJob(t, p)
  /\ UNCHANGED <<servers, gen, disk>>

\* The root tool writes the registry, its last effect but for cleaning up.
ToolCommit(t) ==
  /\ task[t].kind \in Tools /\ task[t].phase = "run"
  /\ Accepts(t)
  /\ disk' = Rewritten(t)
  /\ task' = [task EXCEPT ![t].phase = "commit"]
  /\ UNCHANGED <<up, servers, gen, holder, waiters, maintenance, jobs, ready>>

\* A nonzero exit: the tool refused, or rolled back.  A change that restores its
\* backup after the commit writes the registry it read again.
ToolFails(t) ==
  /\ task[t].kind \in Tools
  /\ \/ task[t].phase = "run" /\ UNCHANGED disk
     \/ task[t].phase = "commit" /\ task[t].kind = "change" /\ disk' = task[t].base
  /\ EndJob(t, "failed")
  /\ UNCHANGED <<servers, gen>>

\* (mutant) every reload makes every Lock object anew
ReplaceConfigAndLocks(new) ==
  /\ servers' = new
  /\ gen' = [s \in Servers |-> IF s \notin new THEN gen[s] ELSE FreshGen(s)]

\* replace_config: a server that stays keeps its Lock object.
ReplaceConfig(new) ==
  /\ servers' = new
  /\ gen' = [s \in Servers |-> IF s \in servers \/ s \notin new THEN gen[s] ELSE FreshGen(s)]

\* Exit code 0: the agent reloads its configuration, which may fail.
ToolExits(t) ==
  /\ task[t].kind \in Tools /\ task[t].phase = "commit"
  /\ UNCHANGED disk
  /\ IF Loadable(disk)
       THEN ReplaceConfig(Loaded(disk)) /\ EndJob(t, "succeeded")
       ELSE UNCHANGED <<servers, gen>> /\ EndJob(t, "failed")

\* where an abandoned tool is that has written the registry
Past(t) == IF task[t].kind = "change" THEN "adrift" ELSE "strayed"

\* asyncio.wait_for gives up on the tool and does not kill it.  An install or a deletion
\* that has written the registry is over; so is one that exits with an error after that
\* write, which its job ends for in the same way: without a reload.
JobTimeout(t) ==
  /\ task[t].kind \in Tools /\ task[t].phase \in {"run", "commit"}
  /\ EndJob(t, IF task[t].phase = "run" THEN "stray" ELSE Past(t))
  /\ UNCHANGED <<servers, gen, disk>>

\* The abandoned tool writes the registry, and a change goes on to its restart; or it
\* fails before.
StrayCommits(t) ==
  /\ task[t].phase = "stray"
  /\ \/ /\ Accepts(t) /\ disk' = Rewritten(t)
        /\ task' = [task EXCEPT ![t] = IF Past(t) = "adrift" THEN [@ EXCEPT !.phase = "adrift"]
                                                           ELSE Idle("strayed")]
     \/ UNCHANGED disk /\ task' = [task EXCEPT ![t] = Idle("strayed")]
  /\ UNCHANGED <<up, servers, gen, holder, waiters, maintenance, jobs, ready>>

\* The abandoned change ends well, or restores its backup and the registry it read.
StrayEnds(t) ==
  /\ task[t].phase = "adrift"
  /\ disk' \in {disk, task[t].base}
  /\ task' = [task EXCEPT ![t] = Idle("strayed")]
  /\ UNCHANGED <<up, servers, gen, holder, waiters, maintenance, jobs, ready>>
-----------------------------------------------------------------------------
\* The agent is restarted: systemd ends the tools with it, and the process that
\* comes up remembers no job.  It does not come up on a configuration it rejects.
Restart ==
  /\ up
  /\ up' = Loadable(disk)
  /\ servers' = IF Loadable(disk) THEN Loaded(disk) ELSE {}
  /\ holder' = [l \in Locks |-> NoTask]
  /\ waiters' = [l \in Locks |-> <<>>]
  /\ maintenance' = {}
  /\ jobs' = <<>>
  /\ ready' = <<>>
  /\ task' = [t \in Tasks |-> IF task[t].phase = "free" THEN task[t] ELSE Idle("killed")]
  /\ UNCHANGED <<gen, disk>>

TaskStep(t) ==
  \/ Begin(t) \/ ProvTurn(t) \/ LockTurn(t)
  \/ EndAction(t) \/ ToolCommit(t) \/ ToolFails(t) \/ ToolExits(t) \/ JobTimeout(t)

Next ==
  \/ \E s \in Servers : \/ AcceptAction(s) \/ AcceptProvision(s) \/ QueueFileOp(s)
                        \/ \E k \in Maint : AcceptMaintenance(k, s)
  \/ \E t \in Tasks : TaskStep(t) \/ StrayCommits(t) \/ StrayEnds(t)
  \/ Restart

\* A command ends by itself or at its timeout, and the event loop resumes every
\* task that can run; nobody has to send a request or restart the agent.
Fairness == \A t \in Tasks : WF_vars(TaskStep(t))

Spec == Init /\ [][Next]_vars /\ Fairness
-----------------------------------------------------------------------------
TypeOK ==
  /\ up \in BOOLEAN
  /\ servers \subseteq Servers
  /\ gen \in [Servers -> Gens]
  /\ holder \in [Locks -> Tasks \cup {NoTask}]
  /\ waiters \in [Locks -> Seq(Tasks)]
  /\ maintenance \subseteq Servers
  /\ jobs \in Seq(Tasks) /\ Len(jobs) <= MaxJobs
  /\ ready \in Seq(Tasks)
  /\ task \in [Tasks -> TaskRecords]
  /\ disk \in Registries

\* some tool outlived its job, so its picture of the registry may be stale
EverStray == \E t \in Tasks : task[t].phase \in Abandoned \cup {"strayed"}

Touches(t, s) ==
  /\ task[t].server = s
  /\ task[t].phase \in {"run", "commit"} \cup Abandoned
  /\ task[t].kind \in Tools => Accepts(t)

\* Unless a tool was ever abandoned at its timeout, at most one job's command or
\* root tool works on a server at any time, across deletions and reinstallations
\* that give its id a new Lock object.
ServerExclusive ==
  EverStray \/ \A s \in Servers : \A t, u \in Tasks : Touches(t, s) /\ Touches(u, s) => t = u

\* Unless a tool was ever abandoned, a task that waits for a server's lock or holds
\* it uses the Lock object in runtime.locks: nobody is left behind on the lock of
\* a server that was deleted, and no task dies of a missing lock.
NoOrphans ==
  EverStray \/ \A t \in Tasks :
    /\ task[t].phase # "lost"
    /\ task[t].phase \in {"lock", "run", "commit"} /\ task[t].kind # "provision" =>
         task[t].server \in servers /\ task[t].lock = Lock(task[t].server)

Maintains(t, s) ==
  task[t].kind \in Maint /\ task[t].server = s /\ task[t].phase \in Pending

\* A server is under maintenance exactly while one change or deletion of it is
\* queued or running: the flag is not dropped by another job's end, nor left up.
MaintenanceExact ==
  /\ \A s \in Servers : s \in maintenance <=> \E t \in Tasks : Maintains(t, s)
  /\ \A s \in Servers : \A t, u \in Tasks : Maintains(t, s) /\ Maintains(u, s) => t = u

\* A job that reports success has done what it says: a provisioned or changed
\* server is served, a deleted one is not (unless a tool was abandoned).
SuccessMeansServed ==
  [][\A t \in Tasks :
       task[t].phase = "commit" /\ task'[t].phase = "succeeded" /\ ~EverStray =>
         (task[t].server \in servers' <=> task[t].kind \in {"provision", "change"})]_vars

\* While no tool has been abandoned, a server enters the registry only by being
\* provisioned and leaves it only by being deleted: no tool undoes another's change.
NoLostRegistryUpdate ==
  [][\A s \in Servers : ~EverStray /\ (s \in Loaded(disk)) # (s \in Loaded(disk)') =>
       \E t \in Tasks : /\ task[t].phase = "run" /\ task'[t].phase = "commit"
                        /\ task[t].server = s /\ task[t].kind # "change"]_vars

\* Every accepted job ends, in whatever way: nothing waits for ever behind a lock.
JobsEnd ==
  \A t \in Tasks : task[t].phase \in {"ready", "prov", "lock", "run", "commit"} ~>
                     task[t].phase \notin {"ready", "prov", "lock", "run", "commit"}

\* Maintenance does not lock a server away for ever (unless a tool was abandoned).
MaintenanceEnds ==
  \A s \in Servers : s \in maintenance ~> (s \notin maintenance \/ EverStray)

\* README.md:508-510: after a deletion "the same ID can be provisioned again", so
\* the registry the tools leave is one the agent can load.
AlwaysLoadable == Loadable(disk)

\* README.md:509: "The controller and agent remember the deletion": a server that
\* left the registry comes back to it only by being provisioned.
DeletionRemembered ==
  [][\A s \in Servers : s \notin Loaded(disk) /\ s \in Loaded(disk)' =>
       \E t \in Tasks : /\ task[t].kind = "provision" /\ task[t].server = s
                        /\ task[t].phase # task'[t].phase]_vars
=============================================================================
