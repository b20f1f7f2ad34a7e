--------------------------- MODULE ServerAutomation ---------------------------
(***************************************************************************)
(* The controller's automation of one Minecraft server                     *)
(* (mc_manager/automation.py): the scheduled restart script, the recovery  *)
(* monitor, the observer that records what administrators and the UPS do,  *)
(* and the reconciliation of a restart the controller itself interrupted.  *)
(*                                                                         *)
(* A step of the automation is the code between two awaits.  Requests to   *)
(* the agent take time: the agent serves them in steps of its own, and its *)
(* answers may be stale when they are handled.  The agent and the server   *)
(* process are modelled as the automation meets them: one job at a time, a *)
(* status that says busy while it runs.                                    *)
(*                                                                         *)
(* Durations are abstracted: what waits for a time to pass is a flag that  *)
(* an action of its own lowers.  Disturbances (crashes, lost messages,     *)
(* failing jobs, power events), schedule slots, and starts and maintenance *)
(* that administrators ask for come out of one budget, so every behaviour  *)
(* has finitely many of them; administrators may stop at any time.         *)
(***************************************************************************)
EXTENDS Naturals

CONSTANTS
  Threshold,    \* failure_threshold: offline answers that make a crash
  MaxPerHour,   \* max_restarts_per_hour
  UpsEnabled,   \* config.ups.enabled
  PowerRecover, \* recover_after_power_loss
  Requests,     \* what administrators do: a subset of AdminRequests
  Budget        \* bound: disturbances, slots, starts and maintenances in a behaviour

AdminRequests == {"stop", "deleteFile", "start", "maintenance"}

ASSUME ParametersOK ==
  /\ Threshold \in Nat \ {0}
  /\ MaxPerHour \in Nat \ {0}
  /\ UpsEnabled \in BOOLEAN /\ PowerRecover \in BOOLEAN
  /\ Requests \subseteq AdminRequests
  /\ Budget \in Nat

VARIABLES
  rt,      \* the server's record in panel-state.json: survives the controller
  power,   \* power_confirmed, line_since, and the persisted outage
  op,      \* tasks[server]: the restart or resume task
  check,   \* the answer of a monitor poll, from the agent to its handling
  wire,    \* requests of the automation on their way to the agent
  asked,   \* a request of an administrator or of the UPS on its way
  work,    \* the job the agent runs on the server
  result,  \* what the agent knows of the automation's last job
  proc,    \* the server process
  down,    \* history: the process was down at some time since a scheduled
           \* restart last found it up
  budget   \* what is left of Budget

vars == <<rt, power, op, check, wire, asked, work, result, proc, down, budget>>
-----------------------------------------------------------------------------
Stages   == {"none", "warning", "stopping", "starting"}
Statuses == {"online", "offline", "busy"}

\* pending is the pair of its stage and of whether it has a job_id; away says
\* that last_seen is offline or busy; hold that maintenance_until has not passed;
\* attempts are those of the last hour, cooling that the last is a recent one.
RuntimeRecords ==
  [desired : {"unknown", "on", "off"}, intentional : BOOLEAN,
   reason : {"none", "admin_stop", "maintenance"}, powerPending : BOOLEAN,
   hold : BOOLEAN, stage : Stages, job : BOOLEAN, away : BOOLEAN,
   checks : 0 .. Threshold, attempts : 0 .. MaxPerHour, cooling : BOOLEAN]

RestartSteps == {"begin", "probe", "warn", "flush", "stopSent", "stopAcked", "stopWait",
                 "offline", "startSent", "startAcked", "startWait", "online"}
ResumeSteps  == {"resume", "resumeJob", "resumeStatus"}

\* stage and job are the arguments resume was created with
Operations == [pc : RestartSteps \cup ResumeSteps \cup {"idle"}, recovery : BOOLEAN,
               seen : Statuses \cup {"none"}, good : 0 .. 1, stage : Stages, job : BOOLEAN]

Idle == [pc |-> "idle", recovery |-> FALSE, seen |-> "none", good |-> 0,
         stage |-> "none", job |-> FALSE]
Live == op.pc # "idle"

NoWork == [kind |-> "none", auto |-> FALSE]
Status == IF work # NoWork THEN "busy" ELSE IF proc = "up" THEN "online" ELSE "offline"

Blocked == ~power.confirmed \/ power.outage
Allowed == ~Blocked /\ ~rt.intentional

Disturbance == budget > 0 /\ budget' = budget - 1
-----------------------------------------------------------------------------
Init ==
  /\ rt = [desired |-> "unknown", intentional |-> FALSE, reason |-> "none",
           powerPending |-> FALSE, hold |-> FALSE, stage |-> "none", job |-> FALSE,
           away |-> FALSE, checks |-> 0, attempts |-> 0, cooling |-> FALSE]
  /\ power = [confirmed |-> ~UpsEnabled, line |-> FALSE, outage |-> FALSE]
  /\ op = Idle
  /\ check = "none"
  /\ wire = {}
  /\ asked = "none"
  /\ work = NoWork
  /\ result = "none"
  /\ proc \in {"up", "down"}
  /\ down = (proc = "down")
  /\ budget = Budget
-----------------------------------------------------------------------------
(* What the controller writes.                                             *)

ClearPending == [rt EXCEPT !.stage = "none", !.job = FALSE]
\* pending gets a new stage, and no job_id yet
Stage(st) == [rt EXCEPT !.desired = "on", !.stage = st, !.job = FALSE]

\* finish: success is recorded and announced
Finished(r) == [r EXCEPT !.stage = "none", !.job = FALSE, !.desired = "on",
                         !.intentional = FALSE, !.reason = "none", !.powerPending = FALSE,
                         !.checks = 0, !.away = FALSE, !.hold = FALSE]

\* the except clause of restart and of resume
Fail == op' = Idle /\ rt' = ClearPending

Goto(pc) == op' = [op EXCEPT !.pc = pc, !.seen = "none", !.good = 0]

\* restart up to its first await
Probe(recovery) ==
  IF Allowed
    THEN op' = [Idle EXCEPT !.pc = "probe", !.recovery = recovery] /\ UNCHANGED rt
    ELSE Fail
-----------------------------------------------------------------------------
(* observe_operation: called before the request is sent.                   *)

AdminStopRecord ==
  [rt EXCEPT !.desired = "off", !.intentional = TRUE, !.reason = "admin_stop",
             !.powerPending = FALSE, !.stage = "none", !.job = FALSE]

\* (mutant) the running restart is not cancelled
RecordStopOnly == op' = op /\ rt' = AdminStopRecord
RecordStop     == op' = Idle /\ rt' = AdminStopRecord

\* the stop action, a stop command on the console or a shutdown script of the host,
\* from the panel or Discord
AdminStop ==
  /\ asked = "none"
  /\ asked' = "stop"
  /\ RecordStop
  /\ UNCHANGED <<power, check, wire, work, result, proc, down, budget>>

\* delete_file of the panel's file manager: any DELETE counts as a stop
AdminDeletesFile ==
  /\ RecordStop
  /\ UNCHANGED <<power, check, wire, asked, work, result, proc, down, budget>>

\* start or restart
AdminStart ==
  /\ asked = "none"
  /\ Disturbance
  /\ asked' = "start"
  /\ op' = Idle
  /\ rt' = [rt EXCEPT !.desired = "on", !.intentional = FALSE, !.reason = "none",
                      !.powerPending = FALSE, !.hold = TRUE, !.checks = 0,
                      !.stage = "none", !.job = FALSE]
  /\ UNCHANGED <<power, check, wire, work, result, proc, down>>

\* any other action or script
AdminMaintenance ==
  /\ asked = "none"
  /\ Disturbance
  /\ asked' = "maint"
  /\ rt' = [rt EXCEPT !.desired = "off", !.intentional = TRUE, !.reason = "maintenance",
                      !.hold = TRUE]
  /\ UNCHANGED <<power, op, check, wire, work, result, proc, down>>

\* the UPS monitor stops the server, with the outage on record
UpsStops ==
  /\ power.outage
  /\ asked = "none"
  /\ asked' = "stop"
  /\ rt' = [rt EXCEPT !.powerPending = (rt.desired = "on")]
  /\ UNCHANGED <<power, op, check, wire, work, result, proc, down, budget>>
-----------------------------------------------------------------------------
(* power_reading: a line reading counts only after 60 s of them.           *)

BadReading ==
  /\ UpsEnabled
  /\ Disturbance
  /\ \E protective \in BOOLEAN :
       power' = [confirmed |-> FALSE, line |-> FALSE, outage |-> power.outage \/ protective]
  /\ UNCHANGED <<rt, op, check, wire, asked, work, result, proc, down>>

LineReading ==
  /\ UpsEnabled
  /\ ~power.confirmed
  /\ power' = IF ~power.line THEN [power EXCEPT !.line = TRUE]
              ELSE [confirmed |-> TRUE, line |-> TRUE, outage |-> FALSE]
  /\ UNCHANGED <<rt, op, check, wire, asked, work, result, proc, down, budget>>
-----------------------------------------------------------------------------
(* The agent and the server.                                               *)

ProcBecomes(p) == proc' = p /\ down' = (down \/ p = "down")

Waiting(k) == op.pc = (IF k = "stop" THEN "stopSent" ELSE "startSent")
Answered(k) == IF k = "stop" THEN "stopAcked" ELSE "startAcked"

AgentAccepts(k) ==
  /\ k \in wire
  /\ work = NoWork
  /\ wire' = wire \ {k}
  /\ work' = [kind |-> k, auto |-> TRUE]
  /\ result' = "running"
  /\ IF Waiting(k) THEN Goto(Answered(k)) ELSE UNCHANGED op
  /\ UNCHANGED <<rt, power, check, asked, proc, down, budget>>

\* 409, or no answer at all
RequestFails(k) ==
  /\ k \in wire
  /\ wire' = wire \ {k}
  /\ \/ work # NoWork /\ UNCHANGED budget
     \/ Disturbance
  /\ IF Waiting(k) THEN Fail ELSE UNCHANGED <<op, rt>>
  /\ UNCHANGED <<power, check, asked, work, result, proc, down>>

\* the request of an administrator or of the UPS is accepted or refused
AgentServesOthers ==
  /\ asked # "none"
  /\ asked' = "none"
  /\ work' = IF work = NoWork THEN [kind |-> asked, auto |-> FALSE] ELSE work
  /\ UNCHANGED <<rt, power, op, check, wire, result, proc, down, budget>>

WorkEnds ==
  /\ work # NoWork
  /\ work' = NoWork
  /\ \/ /\ \/ work.kind = "stop" /\ ProcBecomes("down")
           \/ work.kind = "start" /\ ProcBecomes("up")
           \/ work.kind = "maint" /\ \E p \in {"up", "down"} : ProcBecomes(p)
        /\ result' = IF work.auto THEN "succeeded" ELSE result
        /\ UNCHANGED budget
     \/ /\ Disturbance
        /\ result' = IF work.auto THEN "failed" ELSE result
        /\ UNCHANGED <<proc, down>>
  /\ UNCHANGED <<rt, power, op, check, wire, asked>>

ServerCrashes ==
  /\ Disturbance
  /\ proc = "up" /\ work = NoWork
  /\ ProcBecomes("down")
  /\ UNCHANGED <<rt, power, op, check, wire, asked, work, result>>

\* the agent forgets its jobs; the server may be started at boot
HostRestarts ==
  /\ Disturbance
  /\ \E p \in {"up", "down"} : proc' = p
  /\ down' = TRUE
  /\ work' = NoWork
  /\ result' = IF result = "none" THEN "none" ELSE "gone"
  /\ UNCHANGED <<rt, power, op, check, wire, asked>>
-----------------------------------------------------------------------------
(* check_server.                                                           *)

PollAgent ==
  /\ check = "none"
  /\ ~Live
  /\ \/ check' = Status /\ UNCHANGED <<rt, budget>>
     \/ Disturbance /\ rt' = [rt EXCEPT !.checks = 0] /\ UNCHANGED check
  /\ UNCHANGED <<power, op, wire, asked, work, result, proc, down>>

Returning == rt.reason = "maintenance" /\ (rt.away \/ ~rt.hold)

SeenOnline ==
  LET r == [rt EXCEPT !.away = FALSE, !.checks = 0,
                      !.desired = IF Returning \/ @ = "unknown" THEN "on" ELSE @,
                      !.intentional = @ /\ ~Returning]
  IN rt' = IF rt.powerPending /\ PowerRecover /\ ~Blocked THEN Finished(r) ELSE r

\* (mutant) the count of offline answers is not capped
CountOn == rt.checks + 1
Count   == IF rt.checks < Threshold THEN rt.checks + 1 ELSE Threshold

\* (mutant) a server stopped for an outage counts as stopped
RecoverableWithPower ==
  /\ ~rt.intentional /\ rt.desired = "on" /\ ~Blocked
  /\ ~rt.powerPending
  /\ Count = Threshold /\ ~rt.hold
  /\ rt.attempts < MaxPerHour /\ ~rt.cooling

Recoverable ==
  /\ ~rt.intentional /\ rt.desired = "on" /\ ~Blocked
  /\ rt.powerPending => PowerRecover
  /\ Count = Threshold /\ ~rt.hold
  /\ rt.attempts < MaxPerHour /\ ~rt.cooling

SeenOffline ==
  IF Recoverable
    THEN /\ rt' = [rt EXCEPT !.away = TRUE, !.checks = Count, !.attempts = @ + 1,
                             !.cooling = TRUE]
         /\ op' = [Idle EXCEPT !.pc = "begin", !.recovery = TRUE]
    ELSE rt' = [rt EXCEPT !.away = TRUE, !.checks = Count] /\ UNCHANGED op

HandleAnswer ==
  /\ check # "none"
  /\ check' = "none"
  /\ \/ Live /\ UNCHANGED <<rt, op>>
     \/ ~Live /\ check = "online" /\ SeenOnline /\ UNCHANGED op
     \/ ~Live /\ check = "busy" /\ UNCHANGED op
              /\ rt' = [rt EXCEPT !.away = TRUE, !.checks = 0]
     \/ ~Live /\ check = "offline" /\ SeenOffline
  /\ UNCHANGED <<power, wire, asked, work, result, proc, down, budget>>
-----------------------------------------------------------------------------
(* restart.                                                                *)

\* tick: a slot of the schedule is due
SlotDue ==
  /\ ~Live /\ Allowed
  /\ Disturbance
  /\ op' = [Idle EXCEPT !.pc = "begin"]
  /\ UNCHANGED <<rt, power, check, wire, asked, work, result, proc, down>>

OpOnly == UNCHANGED <<power, check, wire, asked, work, result, proc, down, budget>>

Begin == op.pc = "begin" /\ Probe(op.recovery) /\ OpOnly

ProbeAnswered ==
  /\ op.pc = "probe" /\ op.seen = "none"
  /\ op' = [op EXCEPT !.seen = Status]
  /\ UNCHANGED rt
  /\ OpOnly

\* the request to start the server goes out with no await after the checks
StartServer ==
  /\ rt' = Stage("starting")
  /\ wire' = wire \cup {"start"}
  /\ Goto("startSent")

\* (mutant) what was allowed before the status request still is
ProbeHandledUnchecked ==
  /\ op.pc = "probe" /\ op.seen # "none"
  /\ IF op.recovery
       THEN IF op.seen = "offline" THEN StartServer ELSE Fail /\ UNCHANGED wire
       ELSE /\ IF op.seen = "online" THEN rt' = Stage("warning") /\ Goto("warn") ELSE Fail
            /\ UNCHANGED wire
  /\ down' = IF op.recovery THEN down ELSE proc = "down"
  /\ UNCHANGED <<power, check, asked, work, result, proc, budget>>

ProbeHandled ==
  /\ op.pc = "probe" /\ op.seen # "none"
  /\ IF op.recovery
       THEN IF op.seen = "offline" /\ Allowed THEN StartServer ELSE Fail /\ UNCHANGED wire
       ELSE /\ IF op.seen = "online" /\ Allowed
                 THEN rt' = Stage("warning") /\ Goto("warn") ELSE Fail
            /\ UNCHANGED wire
  /\ down' = IF op.recovery THEN down ELSE proc = "down"
  /\ UNCHANGED <<power, check, asked, work, result, proc, budget>>

\* the countdown ends, or one of its checks fails
WarningsGiven ==
  /\ op.pc = "warn"
  /\ IF Allowed THEN rt' = Stage("stopping") /\ Goto("flush") ELSE Fail
  /\ OpOnly

\* save-all flush was answered: the request to stop goes out
StopServer ==
  /\ op.pc = "flush"
  /\ Goto("stopSent")
  /\ wire' = wire \cup {"stop"}
  /\ UNCHANGED <<rt, power, check, asked, work, result, proc, down, budget>>

\* the answer names the job, and the record does from now on
JobNamed ==
  /\ \/ op.pc = "stopAcked" /\ Goto("stopWait")
     \/ op.pc = "startAcked" /\ Goto("startWait")
  /\ rt' = [rt EXCEPT !.job = TRUE]
  /\ OpOnly

\* wait_job
JobAnswered ==
  /\ op.pc \in {"stopWait", "startWait"}
  /\ result # "running"
  /\ IF result = "succeeded"
       THEN Goto(IF op.pc = "stopWait" THEN "offline" ELSE "online") /\ UNCHANGED rt
       ELSE Fail
  /\ OpOnly

\* wait_state, with the deadline that ends it
WentOffline ==
  /\ op.pc = "offline"
  /\ \/ Status = "offline" /\ Allowed /\ StartServer
     \/ Status = "offline" /\ ~Allowed /\ Fail /\ UNCHANGED wire
     \/ Status # "offline" /\ Fail /\ UNCHANGED wire
  /\ UNCHANGED <<power, check, asked, work, result, proc, down, budget>>

CameOnline ==
  /\ op.pc = "online"
  /\ \/ Status = "online" /\ op.good = 0 /\ op' = [op EXCEPT !.good = 1] /\ UNCHANGED rt
     \/ Status = "online" /\ op.good = 1 /\ op' = Idle /\ rt' = Finished(rt)
     \/ Status # "online" /\ op.good = 1 /\ op' = [op EXCEPT !.good = 0] /\ UNCHANGED rt
     \/ Status # "online" /\ Fail
  /\ OpOnly

\* the agent cannot be reached, a warning not delivered, or a deadline passes
OpBreaks ==
  /\ Disturbance
  /\ op.pc \in (RestartSteps \ {"begin"}) \cup {"resumeStatus"}
  /\ Fail
  /\ UNCHANGED <<power, check, wire, asked, work, result, proc, down>>
-----------------------------------------------------------------------------
(* The controller restarts: run and resume.                                *)

ControllerRestarts ==
  /\ Disturbance
  /\ power' = [power EXCEPT !.confirmed = ~UpsEnabled, !.line = FALSE]
  /\ op' = IF rt.stage = "none" THEN Idle
           ELSE [Idle EXCEPT !.pc = "resume", !.stage = rt.stage, !.job = rt.job]
  /\ check' = "none"
  /\ UNCHANGED <<rt, wire, asked, work, result, proc, down>>

ResumeBegins ==
  /\ op.pc = "resume"
  /\ \/ op.stage = "warning" /\ Fail
     \/ op.stage # "warning" /\ ~Blocked /\ rt.intentional /\ Fail
     \/ /\ op.stage # "warning" /\ Allowed
        /\ Goto(IF op.job THEN "resumeJob" ELSE "resumeStatus")
        /\ UNCHANGED rt
  /\ OpOnly

\* whatever became of the job
ResumeJob ==
  /\ op.pc = "resumeJob"
  /\ \/ result # "running" /\ UNCHANGED budget
     \/ Disturbance
  /\ Goto("resumeStatus")
  /\ UNCHANGED <<rt, power, check, wire, asked, work, result, proc, down>>

\* (mutant) an online server is taken for a restarted one
ReconciledOnline ==
  \/ Status = "offline" /\ Probe(TRUE)
  \/ Status = "online" /\ Goto("online") /\ UNCHANGED rt
  \/ Status = "busy" /\ Fail

Reconciled ==
  \/ Status = "offline" /\ Probe(TRUE)
  \/ Status = "online" /\ op.stage = "starting" /\ Goto("online") /\ UNCHANGED rt
  \/ Status = "online" /\ op.stage # "starting" /\ Fail
  \/ Status = "busy" /\ Fail

ResumeStatus == op.pc = "resumeStatus" /\ Reconciled /\ OpOnly
-----------------------------------------------------------------------------
(* Time passes.                                                            *)

TimeOnly == UNCHANGED <<power, op, check, wire, asked, work, result, proc, down, budget>>

HoldPasses == rt.hold /\ rt' = [rt EXCEPT !.hold = FALSE] /\ TimeOnly
CoolOff    == rt.cooling /\ rt' = [rt EXCEPT !.cooling = FALSE] /\ TimeOnly
HourPasses == rt.attempts > 0 /\ rt' = [rt EXCEPT !.attempts = 0, !.cooling = FALSE] /\ TimeOnly
-----------------------------------------------------------------------------
Admin ==
  \/ "stop" \in Requests /\ AdminStop
  \/ "deleteFile" \in Requests /\ AdminDeletesFile
  \/ "start" \in Requests /\ AdminStart
  \/ "maintenance" \in Requests /\ AdminMaintenance

RestartStep ==
  \/ Begin \/ ProbeAnswered \/ ProbeHandled \/ WarningsGiven \/ StopServer \/ JobNamed
  \/ JobAnswered \/ WentOffline \/ CameOnline
  \/ ResumeBegins \/ ResumeJob \/ ResumeStatus

Agent == AgentServesOthers \/ WorkEnds \/ \E k \in wire : AgentAccepts(k) \/ RequestFails(k)

Next ==
  \/ Admin \/ UpsStops \/ BadReading \/ LineReading
  \/ Agent \/ ServerCrashes \/ HostRestarts
  \/ PollAgent \/ HandleAnswer \/ SlotDue \/ RestartStep \/ OpBreaks
  \/ ControllerRestarts
  \/ HoldPasses \/ CoolOff \/ HourPasses

\* The event loop runs every task that can run, the agent serves requests and its
\* commands end, the monitor polls every check_interval_seconds, UPS readings go on,
\* and time passes.  Nobody has to administer or disturb anything.
Fairness ==
  /\ WF_vars(RestartStep) /\ WF_vars(PollAgent) /\ WF_vars(HandleAnswer)
  /\ WF_vars(AgentServesOthers) /\ WF_vars(WorkEnds)
  /\ \A k \in {"stop", "start"} : WF_vars(AgentAccepts(k) \/ RequestFails(k))
  /\ WF_vars(LineReading)
  /\ WF_vars(HoldPasses) /\ WF_vars(CoolOff) /\ WF_vars(HourPasses)

Spec == Init /\ [][Next]_vars /\ Fairness
-----------------------------------------------------------------------------
TypeOK ==
  /\ rt \in RuntimeRecords
  /\ power \in [confirmed : BOOLEAN, line : BOOLEAN, outage : BOOLEAN]
  /\ op \in Operations
  /\ check \in Statuses \cup {"none"}
  /\ wire \subseteq {"stop", "start"}
  /\ asked \in {"none", "stop", "start", "maint"}
  /\ work \in [kind : {"none", "stop", "start", "maint"}, auto : BOOLEAN]
  /\ result \in {"none", "running", "succeeded", "failed", "gone"}
  /\ proc \in {"up", "down"}
  /\ down \in BOOLEAN
  /\ budget \in 0 .. Budget

\* After an administrator's stop (README.md:61-64) the automation has nothing under
\* way and nothing to resume, and no outage to recover from, until somebody starts
\* or maintains the server: no answer, finish or reconciliation that was on its way
\* takes the stop back.
AdminStopStands ==
  rt.intentional /\ rt.reason = "admin_stop" =>
    ~Live /\ rt.stage = "none" /\ ~rt.powerPending /\ rt.desired = "off"

\* The automation asks for a start only while line power is confirmed, no outage is
\* on record and no administrator has stopped or is maintaining the server.
StartsAllowed == [][wire' \ wire = {"start"} => Allowed]_vars

\* A scheduled restart that reports success has restarted the server: the process
\* was down since the script found it up, whatever crashed or restarted meanwhile.
SuccessMeansRestarted ==
  [][op.pc = "online" /\ op' = Idle /\ rt' = Finished(rt) => down]_vars

\* A monitored server that should run and does not will run again, unless somebody
\* decides otherwise: crashes, outages, failed starts and interrupted restarts are
\* all recovered from once they stop coming.
ServerComesBack ==
  (rt.desired = "on" /\ proc = "down") ~> (proc = "up" \/ rt.desired = "off")

\* README.md:47-49: the restart script stops the server, "waits for the stop to
\* complete, then starts the server and confirms it is running": with no stop asked
\* for and nothing disturbed, a server it stops is up again in the end.
ScriptStartsAgain ==
  (work.auto /\ work.kind = "stop") ~> (proc = "up" /\ work = NoWork)
=============================================================================
