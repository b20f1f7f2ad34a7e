------------------------ MODULE ServerAutomationProofs ------------------------
(***************************************************************************)
(* Theorems about ServerAutomation, for every threshold, hourly limit and  *)
(* budget of disturbances, with and without a UPS.                         *)
(***************************************************************************)
EXTENDS ServerAutomation, TLAPS

(* The records the controller writes are records.                          *)
LEMMA Records ==
  ASSUME NEW r \in RuntimeRecords
  PROVE  /\ Finished(r) \in RuntimeRecords
         /\ [r EXCEPT !.stage = "none", !.job = FALSE] \in RuntimeRecords
         /\ \A st \in Stages :
              [r EXCEPT !.desired = "on", !.stage = st, !.job = FALSE] \in RuntimeRecords
         /\ [r EXCEPT !.desired = "off", !.intentional = TRUE, !.reason = "admin_stop",
                      !.powerPending = FALSE, !.stage = "none", !.job = FALSE]
              \in RuntimeRecords
<1>1. 0 \in 0 .. Threshold
  BY ParametersOK
<1>2. QED BY <1>1 DEF RuntimeRecords, Finished, Stages

LEMMA IdleIsOperation ==
  /\ Idle \in Operations
  /\ \A pc \in RestartSteps \cup ResumeSteps, b \in BOOLEAN :
       [Idle EXCEPT !.pc = pc, !.recovery = b] \in Operations
<1>1. 0 \in 0 .. 1 /\ "none" \in Stages
  BY DEF Stages
<1>2. Idle \in Operations
  BY <1>1 DEF Idle, Operations
<1>3. QED BY <1>2 DEF Operations

LEMMA GotoType ==
  ASSUME op \in Operations, NEW pc \in RestartSteps \cup ResumeSteps, Goto(pc)
  PROVE  op' \in Operations
<1>1. 0 \in 0 .. 1
  OBVIOUS
<1>2. QED BY <1>1 DEF Goto, Operations

LEMMA FailType ==
  ASSUME rt \in RuntimeRecords, Fail
  PROVE  op' \in Operations /\ rt' \in RuntimeRecords
BY Records, IdleIsOperation DEF Fail, ClearPending

LEMMA ProbeType ==
  ASSUME rt \in RuntimeRecords, NEW b \in BOOLEAN, Probe(b)
  PROVE  op' \in Operations /\ rt' \in RuntimeRecords
<1>1. CASE Allowed
  BY <1>1, IdleIsOperation DEF Probe, RestartSteps
<1>2. CASE ~Allowed
  BY <1>2, FailType DEF Probe
<1>3. QED BY <1>1, <1>2

LEMMA StatusType == Status \in Statuses
BY DEF Status, Statuses

-----------------------------------------------------------------------------
(* Type correctness.                                                       *)

LEMMA TypeInit == Init => TypeOK
<1> SUFFICES ASSUME Init PROVE TypeOK
  OBVIOUS
<1>1. rt \in RuntimeRecords
  <2>1. 0 \in 0 .. Threshold /\ 0 \in 0 .. MaxPerHour
    BY ParametersOK
  <2>2. QED BY <2>1 DEF Init, RuntimeRecords, Stages
<1>2. power \in [confirmed : BOOLEAN, line : BOOLEAN, outage : BOOLEAN]
  BY ParametersOK DEF Init
<1>3. work \in [kind : {"none", "stop", "start", "maint"}, auto : BOOLEAN]
  BY DEF Init, NoWork
<1>4. budget \in 0 .. Budget
  BY ParametersOK DEF Init
<1>5. QED BY <1>1, <1>2, <1>3, <1>4, IdleIsOperation DEF Init, TypeOK

(* The part of TypeOK the automation's own steps change.                   *)
OwnTypes ==
  rt \in RuntimeRecords /\ op \in Operations /\ wire \subseteq {"stop", "start"}

LEMMA OtherTypes ==
  ASSUME TypeOK, OwnTypes', UNCHANGED <<power, check, asked, work, result, proc, budget>>,
         down' \in BOOLEAN
  PROVE  TypeOK'
BY DEF TypeOK, OwnTypes

LEMMA DisturbanceType ==
  ASSUME budget \in 0 .. Budget, Disturbance
  PROVE  budget' \in 0 .. Budget
BY ParametersOK DEF Disturbance

LEMMA AdminType ==
  ASSUME TypeOK, Admin \/ UpsStops
  PROVE  TypeOK'
<1> USE DEF TypeOK
<1>1. CASE AdminStop \/ AdminDeletesFile
  BY <1>1, Records, IdleIsOperation DEF AdminStop, AdminDeletesFile, RecordStop, AdminStopRecord
<1>2. CASE AdminStart
  <2>1. 0 \in 0 .. Threshold
    BY ParametersOK
  <2>2. rt' \in RuntimeRecords
    BY <1>2, <2>1 DEF AdminStart, RuntimeRecords, Stages
  <2>3. QED BY <1>2, <2>2, IdleIsOperation, DisturbanceType DEF AdminStart
<1>3. CASE AdminMaintenance
  <2>1. rt' \in RuntimeRecords
    BY <1>3 DEF AdminMaintenance, RuntimeRecords
  <2>2. QED BY <1>3, <2>1, DisturbanceType DEF AdminMaintenance
<1>4. CASE UpsStops
  <2>1. rt' \in RuntimeRecords
    BY <1>4 DEF UpsStops, RuntimeRecords
  <2>2. QED BY <1>4, <2>1 DEF UpsStops
<1>5. QED BY <1>1, <1>2, <1>3, <1>4 DEF Admin

LEMMA WorldType ==
  ASSUME TypeOK, BadReading \/ LineReading \/ AgentServesOthers \/ WorkEnds \/ ServerCrashes
                 \/ HostRestarts
  PROVE  TypeOK'
<1> USE DEF TypeOK
<1>1. CASE BadReading
  BY <1>1, DisturbanceType DEF BadReading
<1>2. CASE LineReading
  BY <1>2 DEF LineReading
<1>3. CASE AgentServesOthers
  BY <1>3 DEF AgentServesOthers
<1>4. CASE WorkEnds
  <2>1. budget' \in 0 .. Budget
    BY <1>4, DisturbanceType DEF WorkEnds
  <2>2. proc' \in {"up", "down"} /\ down' \in BOOLEAN
    BY <1>4 DEF WorkEnds, ProcBecomes
  <2>3. QED BY <1>4, <2>1, <2>2 DEF WorkEnds, NoWork
<1>5. CASE ServerCrashes
  BY <1>5, DisturbanceType DEF ServerCrashes, ProcBecomes
<1>6. CASE HostRestarts
  BY <1>6, DisturbanceType DEF HostRestarts, NoWork
<1>7. QED BY <1>1, <1>2, <1>3, <1>4, <1>5, <1>6

LEMMA RequestType ==
  ASSUME TypeOK, NEW k \in wire, AgentAccepts(k) \/ RequestFails(k)
  PROVE  TypeOK'
<1> USE DEF TypeOK
<1>1. CASE AgentAccepts(k)
  <2>1. op' \in Operations
    BY <1>1, GotoType DEF AgentAccepts, Answered, RestartSteps
  <2>2. work' \in [kind : {"none", "stop", "start", "maint"}, auto : BOOLEAN]
    BY <1>1 DEF AgentAccepts
  <2>3. QED BY <1>1, <2>1, <2>2 DEF AgentAccepts
<1>2. CASE RequestFails(k)
  <2>1. op' \in Operations /\ rt' \in RuntimeRecords
    BY <1>2, FailType DEF RequestFails
  <2>2. budget' \in 0 .. Budget
    BY <1>2, DisturbanceType DEF RequestFails
  <2>3. QED BY <1>2, <2>1, <2>2 DEF RequestFails
<1>3. QED BY <1>1, <1>2

(* What a monitor poll makes of the server's record.                       *)
LEMMA CountType ==
  ASSUME rt \in RuntimeRecords
  PROVE  Count \in 0 .. Threshold
<1>1. rt.checks \in 0 .. Threshold
  BY DEF RuntimeRecords
<1>2. QED BY <1>1, ParametersOK DEF Count

LEMMA SeenOnlineType ==
  ASSUME rt \in RuntimeRecords, SeenOnline
  PROVE  rt' \in RuntimeRecords
<1> DEFINE r == [rt EXCEPT !.away = FALSE, !.checks = 0,
                           !.desired = IF Returning \/ @ = "unknown" THEN "on" ELSE @,
                           !.intentional = @ /\ ~Returning]
<1>1. 0 \in 0 .. Threshold
  BY ParametersOK
<1>2. r \in RuntimeRecords
  BY <1>1 DEF RuntimeRecords
<1>3. rt' = r \/ rt' = Finished(r)
  BY DEF SeenOnline
<1> HIDE DEF r
<1>4. QED BY <1>2, <1>3, Records

LEMMA SeenOfflineType ==
  ASSUME rt \in RuntimeRecords, op \in Operations, SeenOffline
  PROVE  rt' \in RuntimeRecords /\ op' \in Operations
<1>1. CASE Recoverable
  <2>1. rt.attempts + 1 \in 0 .. MaxPerHour
    BY <1>1, ParametersOK DEF Recoverable, RuntimeRecords
  <2>2. rt' = [rt EXCEPT !.away = TRUE, !.checks = Count, !.attempts = rt.attempts + 1,
                         !.cooling = TRUE]
    BY <1>1 DEF SeenOffline, RuntimeRecords
  <2>3. rt' \in RuntimeRecords
    BY <2>1, <2>2, CountType DEF RuntimeRecords
  <2>4. op' \in Operations
    BY <1>1, IdleIsOperation DEF SeenOffline, RestartSteps
  <2>5. QED BY <2>3, <2>4
<1>2. CASE ~Recoverable
  <2>1. rt' = [rt EXCEPT !.away = TRUE, !.checks = Count] /\ op' = op
    BY <1>2 DEF SeenOffline
  <2>2. QED BY <2>1, CountType DEF RuntimeRecords
<1>3. QED BY <1>1, <1>2

LEMMA PollType ==
  ASSUME TypeOK, PollAgent \/ HandleAnswer
  PROVE  TypeOK'
<1> USE DEF TypeOK
<1>0. 0 \in 0 .. Threshold
  BY ParametersOK
<1>1. CASE PollAgent
  <2>1. rt' \in RuntimeRecords
    BY <1>0, <1>1 DEF PollAgent, RuntimeRecords
  <2>2. check' \in Statuses \cup {"none"} /\ budget' \in 0 .. Budget
    BY <1>1, StatusType, DisturbanceType DEF PollAgent
  <2>3. QED BY <1>1, <2>1, <2>2 DEF PollAgent
<1>2. CASE HandleAnswer
  <2>1. check \in Statuses /\ check' = "none"
    BY <1>2 DEF HandleAnswer
  <2>2. rt' \in RuntimeRecords /\ op' \in Operations
    <3>1. CASE Live
      BY <1>2, <3>1 DEF HandleAnswer
    <3>2. CASE ~Live /\ check = "online"
      BY <1>2, <3>2, SeenOnlineType DEF HandleAnswer
    <3>3. CASE ~Live /\ check = "busy"
      <4>1. rt' = [rt EXCEPT !.away = TRUE, !.checks = 0] /\ op' = op
        BY <1>2, <3>3 DEF HandleAnswer
      <4>2. QED BY <1>0, <4>1 DEF RuntimeRecords
    <3>4. CASE ~Live /\ check = "offline"
      BY <1>2, <3>4, SeenOfflineType DEF HandleAnswer
    <3>5. QED BY <2>1, <3>1, <3>2, <3>3, <3>4 DEF Statuses
  <2>3. QED BY <1>2, <2>1, <2>2 DEF HandleAnswer
<1>3. QED BY <1>1, <1>2

LEMMA StageType ==
  ASSUME rt \in RuntimeRecords, NEW st \in Stages
  PROVE  Stage(st) \in RuntimeRecords
BY Records DEF Stage

LEMMA StartServerType ==
  ASSUME rt \in RuntimeRecords, op \in Operations, wire \subseteq {"stop", "start"},
         StartServer
  PROVE  OwnTypes'
<1>1. rt' \in RuntimeRecords
  BY StageType DEF StartServer, Stages
<1>2. op' \in Operations
  BY GotoType DEF StartServer, RestartSteps
<1>3. QED BY <1>1, <1>2 DEF StartServer, OwnTypes

LEMMA RestartType ==
  ASSUME TypeOK, RestartStep
  PROVE  TypeOK'
<1>0. rt \in RuntimeRecords /\ op \in Operations /\ wire \subseteq {"stop", "start"}
      /\ down \in BOOLEAN /\ budget \in 0 .. Budget
  BY DEF TypeOK
<1> USE DEF OwnTypes, OpOnly
<1>1. CASE Begin
  <2>1. op' \in Operations /\ rt' \in RuntimeRecords
    BY <1>0, <1>1, ProbeType DEF Begin, Operations
  <2>2. QED BY <1>0, <1>1, <2>1, OtherTypes DEF Begin
<1>2. CASE ProbeAnswered
  <2>1. op' \in Operations
    BY <1>0, <1>2, StatusType DEF ProbeAnswered, Operations
  <2>2. QED BY <1>0, <1>2, <2>1, OtherTypes DEF ProbeAnswered
<1>3. CASE ProbeHandled
  <2>1. OwnTypes'
    <3>1. CASE StartServer
      BY <1>0, <3>1, StartServerType
    <3>2. CASE Fail /\ UNCHANGED wire
      BY <1>0, <3>2, FailType
    <3>3. CASE rt' = Stage("warning") /\ Goto("warn") /\ UNCHANGED wire
      BY <1>0, <3>3, StageType, GotoType DEF Stages, RestartSteps
    <3>4. QED BY <1>3, <3>1, <3>2, <3>3 DEF ProbeHandled
  <2>2. down' \in BOOLEAN
    BY <1>0, <1>3 DEF ProbeHandled
  <2>3. QED BY <1>3, <2>1, <2>2, OtherTypes DEF ProbeHandled
<1>4. CASE WarningsGiven
  <2>1. op' \in Operations /\ rt' \in RuntimeRecords
    BY <1>0, <1>4, FailType, StageType, GotoType DEF WarningsGiven, Stages, RestartSteps
  <2>2. QED BY <1>0, <1>4, <2>1, OtherTypes DEF WarningsGiven
<1>5. CASE StopServer
  <2>1. op' \in Operations
    BY <1>0, <1>5, GotoType DEF StopServer, RestartSteps
  <2>2. QED BY <1>0, <1>5, <2>1, OtherTypes DEF StopServer
<1>6. CASE JobNamed
  <2>1. op' \in Operations
    BY <1>0, <1>6, GotoType DEF JobNamed, RestartSteps
  <2>2. rt' \in RuntimeRecords
    BY <1>0, <1>6 DEF JobNamed, RuntimeRecords
  <2>3. QED BY <1>0, <1>6, <2>1, <2>2, OtherTypes DEF JobNamed
<1>7. CASE JobAnswered
  <2>1. op' \in Operations /\ rt' \in RuntimeRecords
    BY <1>0, <1>7, FailType, GotoType DEF JobAnswered, RestartSteps
  <2>2. QED BY <1>0, <1>7, <2>1, OtherTypes DEF JobAnswered
<1>8. CASE WentOffline
  <2>1. OwnTypes'
    BY <1>0, <1>8, FailType, StartServerType DEF WentOffline
  <2>2. QED BY <1>0, <1>8, <2>1, OtherTypes DEF WentOffline
<1>9. CASE CameOnline
  <2>1. \A g \in 0 .. 1 : [op EXCEPT !.good = g] \in Operations
    BY <1>0 DEF Operations
  <2>2. Finished(rt) \in RuntimeRecords
    BY <1>0, Records
  <2>3. op' \in Operations /\ rt' \in RuntimeRecords
    <3>1. CASE UNCHANGED rt /\ \E g \in 0 .. 1 : op' = [op EXCEPT !.good = g]
      BY <1>0, <3>1, <2>1
    <3>2. CASE op' = Idle /\ rt' = Finished(rt)
      BY <3>2, <2>2, IdleIsOperation
    <3>3. CASE Fail
      BY <1>0, <3>3, FailType
    <3>4. QED BY <1>9, <3>1, <3>2, <3>3 DEF CameOnline
  <2>4. QED BY <1>0, <1>9, <2>3, OtherTypes DEF CameOnline
<1>10. CASE ResumeBegins
  <2>1. op' \in Operations /\ rt' \in RuntimeRecords
    BY <1>0, <1>10, FailType, GotoType DEF ResumeBegins, ResumeSteps
  <2>2. QED BY <1>0, <1>10, <2>1, OtherTypes DEF ResumeBegins
<1>11. CASE ResumeJob
  <2>1. op' \in Operations
    BY <1>0, <1>11, GotoType DEF ResumeJob, ResumeSteps
  <2>2. budget' \in 0 .. Budget
    BY <1>0, <1>11, DisturbanceType DEF ResumeJob
  <2>3. QED BY <1>11, <2>1, <2>2 DEF ResumeJob, TypeOK
<1>12. CASE ResumeStatus
  <2>1. op' \in Operations /\ rt' \in RuntimeRecords
    BY <1>0, <1>12, FailType, GotoType, ProbeType DEF ResumeStatus, Reconciled, RestartSteps
  <2>2. QED BY <1>0, <1>12, <2>1, OtherTypes DEF ResumeStatus
<1>13. QED BY <1>1, <1>2, <1>3, <1>4, <1>5, <1>6, <1>7, <1>8, <1>9, <1>10, <1>11, <1>12
          DEF RestartStep

LEMMA TypeStep == TypeOK /\ [Next]_vars => TypeOK'
<1> SUFFICES ASSUME TypeOK, [Next]_vars PROVE TypeOK'
  OBVIOUS
<1> USE DEF TypeOK
<1>1. CASE Admin \/ UpsStops
  BY <1>1, AdminType
<1>2. CASE BadReading \/ LineReading \/ ServerCrashes \/ HostRestarts
  BY <1>2, WorldType
<1>3. CASE Agent
  BY <1>3, WorldType, RequestType DEF Agent
<1>4. CASE PollAgent \/ HandleAnswer
  BY <1>4, PollType
<1>5. CASE SlotDue
  <2>1. op' \in Operations
    <3>1. op' = [Idle EXCEPT !.pc = "begin"]
      BY <1>5 DEF SlotDue
    <3>2. QED BY <3>1, IdleIsOperation DEF Operations, RestartSteps
  <2>2. QED BY <1>5, <2>1, DisturbanceType DEF SlotDue
<1>6. CASE RestartStep
  BY <1>6, RestartType
<1>7. CASE OpBreaks
  BY <1>7, FailType, DisturbanceType DEF OpBreaks
<1>8. CASE ControllerRestarts
  <2>1. op' \in Operations
    <3>1. rt.stage \in Stages /\ rt.job \in BOOLEAN
      BY DEF RuntimeRecords
    <3>2. [Idle EXCEPT !.pc = "resume", !.stage = rt.stage, !.job = rt.job] \in Operations
      BY <3>1, IdleIsOperation DEF Operations, ResumeSteps
    <3>3. QED BY <1>8, <3>2, IdleIsOperation DEF ControllerRestarts
  <2>2. power' \in [confirmed : BOOLEAN, line : BOOLEAN, outage : BOOLEAN]
    BY <1>8 DEF ControllerRestarts
  <2>3. QED BY <1>8, <2>1, <2>2, DisturbanceType DEF ControllerRestarts
<1>9. CASE HoldPasses \/ CoolOff \/ HourPasses
  <2>1. 0 \in 0 .. MaxPerHour
    BY ParametersOK
  <2>2. rt' \in RuntimeRecords
    <3>1. CASE HoldPasses
      BY <3>1 DEF HoldPasses, RuntimeRecords
    <3>2. CASE CoolOff
      BY <3>2 DEF CoolOff, RuntimeRecords
    <3>3. CASE HourPasses
      BY <3>3, <2>1 DEF HourPasses, RuntimeRecords
    <3>4. QED BY <1>9, <3>1, <3>2, <3>3
  <2>3. QED BY <1>9, <2>2 DEF HoldPasses, CoolOff, HourPasses, TimeOnly
<1>10. CASE UNCHANGED vars
  BY <1>10 DEF vars
<1>11. QED BY <1>1, <1>2, <1>3, <1>4, <1>5, <1>6, <1>7, <1>8, <1>9, <1>10 DEF Next

(* Every state of every behaviour is well typed: the count of offline       *)
(* answers and that of recoveries within the hour stay within their limits *)
(* (automation.py:289-308).                                                *)
THEOREM TypeCorrect == Spec => []TypeOK
BY TypeInit, TypeStep, PTL DEF Spec

-----------------------------------------------------------------------------
(* An administrator's stop stands.                                         *)

Stopped == rt.intentional /\ rt.reason = "admin_stop"
Quiet   == ~Live /\ rt.stage = "none" /\ ~rt.powerPending /\ rt.desired = "off"

LEMMA IdleIsNotLive == ASSUME op' = Idle PROVE ~Live'
BY DEF Idle, Live

(* The steps of a task under way: none makes a stop of anything else, and   *)
(* none is taken while a stop stands.                                       *)
KeepsIntent ==
  \/ rt'.intentional = rt.intentional /\ rt'.reason = rt.reason
  \/ ~rt'.intentional

LEMMA LiveSteps ==
  ASSUME AdminStopStands, Live, KeepsIntent
  PROVE  AdminStopStands'
BY DEF AdminStopStands, KeepsIntent

LEMMA FailKeeps == ASSUME rt \in RuntimeRecords, Fail PROVE KeepsIntent
BY DEF Fail, ClearPending, KeepsIntent, RuntimeRecords

LEMMA StageKeeps ==
  ASSUME rt \in RuntimeRecords, NEW st \in Stages, rt' = Stage(st)
  PROVE  KeepsIntent
BY DEF Stage, KeepsIntent, RuntimeRecords

LEMMA ProbeKeeps ==
  ASSUME rt \in RuntimeRecords, NEW b \in BOOLEAN, Probe(b)
  PROVE  KeepsIntent
BY FailKeeps DEF Probe, KeepsIntent

LEMMA FinishedKeeps ==
  ASSUME rt \in RuntimeRecords, rt' = Finished(rt)
  PROVE  KeepsIntent
BY DEF Finished, KeepsIntent, RuntimeRecords

LEMMA RestartKeeps ==
  ASSUME TypeOK, RestartStep
  PROVE  Live /\ KeepsIntent
<1>0. rt \in RuntimeRecords /\ op \in Operations
  BY DEF TypeOK
<1> USE DEF Live
<1>1. CASE Begin
  BY <1>0, <1>1, ProbeKeeps DEF Begin, Operations
<1>2. CASE ProbeAnswered \/ StopServer \/ ResumeJob
  BY <1>2 DEF ProbeAnswered, StopServer, ResumeJob, KeepsIntent
<1>3. CASE ProbeHandled
  BY <1>0, <1>3, StageKeeps, FailKeeps DEF ProbeHandled, StartServer, Stages
<1>4. CASE WarningsGiven
  BY <1>0, <1>4, StageKeeps, FailKeeps DEF WarningsGiven, Stages
<1>5. CASE JobNamed
  <2>1. op.pc # "idle" /\ rt' = [rt EXCEPT !.job = TRUE]
    BY <1>5 DEF JobNamed
  <2>2. QED BY <1>0, <2>1 DEF KeepsIntent, RuntimeRecords
<1>6. CASE JobAnswered
  BY <1>0, <1>6, FailKeeps DEF JobAnswered, KeepsIntent
<1>7. CASE WentOffline
  BY <1>0, <1>7, StageKeeps, FailKeeps DEF WentOffline, StartServer, Stages
<1>8. CASE CameOnline
  <2>1. op.pc = "online"
    BY <1>8 DEF CameOnline
  <2>2. UNCHANGED rt \/ rt' = Finished(rt) \/ Fail
    BY <1>8 DEF CameOnline
  <2>3. QED BY <1>0, <2>1, <2>2, FinishedKeeps, FailKeeps DEF KeepsIntent
<1>9. CASE ResumeBegins
  BY <1>0, <1>9, FailKeeps DEF ResumeBegins, KeepsIntent
<1>10. CASE ResumeStatus
  BY <1>0, <1>10, FailKeeps, ProbeKeeps DEF ResumeStatus, Reconciled, KeepsIntent
<1>11. QED BY <1>1, <1>2, <1>3, <1>4, <1>5, <1>6, <1>7, <1>8, <1>9, <1>10 DEF RestartStep

LEMMA AdminKeepsStop ==
  ASSUME TypeOK, AdminStopStands, Admin \/ UpsStops
  PROVE  AdminStopStands'
<1>0. rt \in RuntimeRecords
  BY DEF TypeOK
<1>1. CASE AdminStop \/ AdminDeletesFile
  <2>1. op' = Idle /\ rt' = AdminStopRecord
    BY <1>1 DEF AdminStop, AdminDeletesFile, RecordStop
  <2>2. rt'.stage = "none" /\ ~rt'.powerPending /\ rt'.desired = "off"
    BY <1>0, <2>1 DEF AdminStopRecord, RuntimeRecords
  <2>3. QED BY <2>1, <2>2, IdleIsNotLive DEF AdminStopStands
<1>2. CASE AdminStart
  <2>1. ~rt'.intentional
    BY <1>0, <1>2 DEF AdminStart, RuntimeRecords
  <2>2. QED BY <2>1 DEF AdminStopStands
<1>3. CASE AdminMaintenance
  <2>1. rt'.reason = "maintenance"
    BY <1>0, <1>3 DEF AdminMaintenance, RuntimeRecords
  <2>2. QED BY <2>1 DEF AdminStopStands
<1>4. CASE UpsStops
  <2>1. rt' = [rt EXCEPT !.powerPending = (rt.desired = "on")] /\ op' = op
    BY <1>4 DEF UpsStops
  <2>2. /\ rt'.intentional = rt.intentional /\ rt'.reason = rt.reason
        /\ rt'.stage = rt.stage /\ rt'.desired = rt.desired
        /\ rt'.powerPending = (rt.desired = "on")
    BY <1>0, <2>1 DEF RuntimeRecords
  <2>3. QED BY <2>1, <2>2 DEF AdminStopStands, Live
<1>5. QED BY <1>1, <1>2, <1>3, <1>4 DEF Admin

(* A poll reports the server online or offline: what follows depends on     *)
(* whether a stop stands at the moment the answer is handled, not when the  *)
(* agent was asked.                                                         *)
LEMMA PollKeepsStop ==
  ASSUME TypeOK, AdminStopStands, PollAgent \/ HandleAnswer
  PROVE  AdminStopStands'
<1>0. rt \in RuntimeRecords
  BY DEF TypeOK
<1> DEFINE Same == /\ rt'.intentional = rt.intentional /\ rt'.reason = rt.reason
                   /\ rt'.stage = rt.stage /\ rt'.desired = rt.desired
                   /\ rt'.powerPending = rt.powerPending
<1>1. CASE UNCHANGED op /\ Same
  BY <1>1 DEF AdminStopStands, Live
<1>2. CASE PollAgent
  <2>1. UNCHANGED op
    BY <1>2 DEF PollAgent
  <2>2. Same
    BY <1>0, <1>2 DEF PollAgent, RuntimeRecords
  <2>3. QED BY <1>1, <2>1, <2>2
<1>3. CASE UNCHANGED <<rt, op>>
  BY <1>1, <1>3
<1>4. CASE rt' = [rt EXCEPT !.away = TRUE, !.checks = 0] /\ UNCHANGED op
  <2>1. Same
    BY <1>0, <1>4 DEF RuntimeRecords
  <2>2. QED BY <1>1, <1>4, <2>1
<1>5. CASE SeenOnline /\ UNCHANGED op
  <2> DEFINE r == [rt EXCEPT !.away = FALSE, !.checks = 0,
                             !.desired = IF Returning \/ @ = "unknown" THEN "on" ELSE @,
                             !.intentional = @ /\ ~Returning]
  <2>1. rt' = IF rt.powerPending /\ PowerRecover /\ ~Blocked THEN Finished(r) ELSE r
    BY <1>5 DEF SeenOnline
  <2>2. /\ r.intentional = (rt.intentional /\ ~Returning)
        /\ r.reason = rt.reason /\ r.stage = rt.stage /\ r.powerPending = rt.powerPending
        /\ r.desired = IF Returning \/ rt.desired = "unknown" THEN "on" ELSE rt.desired
    BY <1>0 DEF RuntimeRecords
  <2>4. CASE rt' = r
    <3>1. CASE ~Stopped
      BY <2>2, <2>4, <3>1 DEF Stopped, AdminStopStands
    <3>2. CASE Stopped
      <4>1. ~Returning /\ Quiet
        BY <3>2 DEF Stopped, Returning, AdminStopStands, Quiet
      <4>2. Same
        BY <1>0, <2>2, <2>4, <4>1 DEF RuntimeRecords, Quiet
      <4>3. QED BY <1>1, <1>5, <4>2
    <3>3. QED BY <3>1, <3>2
  <2>5. CASE rt' = Finished(r)
    <3>1. r \in RuntimeRecords
      <4>1. 0 \in 0 .. Threshold
        BY ParametersOK
      <4>2. QED BY <1>0, <4>1 DEF RuntimeRecords
    <3> HIDE DEF r
    <3>2. ~rt'.intentional
      BY <2>5, <3>1 DEF Finished, RuntimeRecords
    <3>3. QED BY <3>2 DEF AdminStopStands
  <2>6. QED BY <2>1, <2>4, <2>5
<1>6. CASE SeenOffline
  <2>1. CASE Recoverable
    <3>1. ~rt'.intentional
      BY <1>0, <1>6, <2>1 DEF SeenOffline, Recoverable, RuntimeRecords
    <3>2. QED BY <3>1 DEF AdminStopStands
  <2>2. CASE ~Recoverable
    <3>1. Same /\ UNCHANGED op
      BY <1>0, <1>6, <2>2 DEF SeenOffline, RuntimeRecords
    <3>2. QED BY <1>1, <3>1
  <2>3. QED BY <2>1, <2>2
<1>7. QED BY <1>2, <1>3, <1>4, <1>5, <1>6 DEF HandleAnswer

LEMMA StopStep == TypeOK /\ AdminStopStands /\ [Next]_vars => AdminStopStands'
<1> SUFFICES ASSUME TypeOK, AdminStopStands, [Next]_vars PROVE AdminStopStands'
  OBVIOUS
<1>0. rt \in RuntimeRecords
  BY DEF TypeOK
<1>1. CASE UNCHANGED <<rt, op>>
  BY <1>1 DEF AdminStopStands, Live
<1>2. CASE Admin \/ UpsStops
  BY <1>2, AdminKeepsStop
<1>3. CASE BadReading \/ LineReading \/ ServerCrashes \/ HostRestarts
           \/ AgentServesOthers \/ WorkEnds
  BY <1>1, <1>3 DEF BadReading, LineReading, ServerCrashes, HostRestarts, AgentServesOthers,
                    WorkEnds
<1>4. ASSUME NEW k \in wire, AgentAccepts(k) \/ RequestFails(k)
      PROVE  AdminStopStands'
  <2>1. CASE Waiting(k)
    <3>1. Live
      BY <2>1 DEF Waiting, Live
    <3>2. KeepsIntent
      BY <1>0, <1>4, FailKeeps DEF AgentAccepts, RequestFails, KeepsIntent
    <3>3. QED BY <3>1, <3>2, LiveSteps
  <2>2. CASE ~Waiting(k)
    BY <1>1, <1>4, <2>2 DEF AgentAccepts, RequestFails
  <2>3. QED BY <2>1, <2>2
<1>5. CASE PollAgent \/ HandleAnswer
  BY <1>5, PollKeepsStop
<1>6. CASE SlotDue
  BY <1>6 DEF SlotDue, Allowed, AdminStopStands
<1>7. CASE RestartStep
  BY <1>7, RestartKeeps, LiveSteps
<1>8. CASE OpBreaks
  <2>1. Live
    BY <1>8 DEF OpBreaks, Live, RestartSteps
  <2>2. QED BY <1>0, <1>8, <2>1, FailKeeps, LiveSteps DEF OpBreaks
<1>9. CASE ControllerRestarts
  <2>1. UNCHANGED rt /\ (rt.stage = "none" => op' = Idle)
    BY <1>9 DEF ControllerRestarts
  <2>2. QED BY <2>1, IdleIsNotLive DEF AdminStopStands
<1>10. CASE HoldPasses \/ CoolOff \/ HourPasses
  <2>1. UNCHANGED op
    BY <1>10 DEF HoldPasses, CoolOff, HourPasses, TimeOnly
  <2>2. /\ rt'.intentional = rt.intentional /\ rt'.reason = rt.reason
        /\ rt'.stage = rt.stage /\ rt'.desired = rt.desired
        /\ rt'.powerPending = rt.powerPending
    BY <1>0, <1>10 DEF HoldPasses, CoolOff, HourPasses, RuntimeRecords
  <2>3. QED BY <2>1, <2>2 DEF AdminStopStands, Live
<1>11. CASE UNCHANGED vars
  BY <1>1, <1>11 DEF vars
<1>12. QED BY <1>2, <1>3, <1>4, <1>5, <1>6, <1>7, <1>8, <1>9, <1>10, <1>11 DEF Next, Agent

(* What an administrator stopped stays stopped, whatever answers, jobs and  *)
(* reconciliations were under way (automation.py:99-136, 178-190, 270-314,  *)
(* 341-365).                                                                *)
THEOREM AdminStopCorrect == Spec => []AdminStopStands
<1>1. Init => AdminStopStands
  BY DEF Init, AdminStopStands
<1>2. QED BY <1>1, TypeCorrect, StopStep, PTL DEF Spec

(* No step asks for a start while power is unconfirmed, an outage is on     *)
(* record or an administrator's stop or maintenance stands                  *)
(* (automation.py:149-155, 204-225, 232-236).                               *)
THEOREM StartsCorrect == Spec => StartsAllowed
<1>1. [Next]_vars => (wire' \ wire = {"start"} => Allowed)
  <2> SUFFICES ASSUME [Next]_vars, wire' \ wire = {"start"} PROVE Allowed
    OBVIOUS
  <2>0. "start" \in wire' /\ "start" \notin wire
    OBVIOUS
  <2>1. CASE RestartStep
    <3>1. CASE ProbeHandled
      BY <2>0, <3>1 DEF ProbeHandled, Allowed
    <3>2. CASE WentOffline
      BY <2>0, <3>2 DEF WentOffline
    <3>3. CASE StopServer
      BY <2>0, <3>3 DEF StopServer
    <3>4. CASE UNCHANGED wire
      BY <2>0, <3>4
    <3>5. QED BY <2>1, <3>1, <3>2, <3>3, <3>4 DEF RestartStep, Begin, ProbeAnswered,
                 WarningsGiven, JobNamed, JobAnswered, CameOnline, ResumeBegins, ResumeJob,
                 ResumeStatus, OpOnly
  <2>2. CASE Agent
    <3>1. wire' \subseteq wire
      BY <2>2 DEF Agent, AgentServesOthers, WorkEnds, AgentAccepts, RequestFails
    <3>2. QED BY <2>0, <3>1
  <2>3. CASE UNCHANGED wire
    BY <2>0, <2>3
  <2>4. QED BY <2>1, <2>2, <2>3 DEF Next, Admin, AdminStop, AdminDeletesFile, AdminStart,
               AdminMaintenance, UpsStops, BadReading, LineReading, ServerCrashes, HostRestarts,
               PollAgent, HandleAnswer, SlotDue, OpBreaks, ControllerRestarts, HoldPasses,
               CoolOff, HourPasses, TimeOnly, vars
<1>2. QED BY <1>1, PTL DEF Spec, StartsAllowed

-----------------------------------------------------------------------------
(* A restart that reports success restarted the server.                    *)

Starting == {"startSent", "startAcked", "startWait", "online"}

(* What the history of the process owes to the steps of a restart: once a  *)
(* start has been asked for, by this task or by the one the record tells   *)
(* of, the process has been down since a scheduled restart last found it   *)
(* up.  An answer that said offline is only as good as the history that    *)
(* followed it, and a task that may still reset the history carries no     *)
(* stage of an earlier one.                                                *)
DownSeen ==
  /\ proc = "down" => down
  /\ op.pc = "probe" /\ op.seen = "offline" => down
  /\ op.pc \in Starting => down
  /\ rt.stage = "starting" => down
  /\ op.stage = "starting" => down
  /\ op.pc \in {"begin", "probe"} => op.stage = "none"

LEMMA FreshOperation ==
  /\ Idle.pc = "idle" /\ Idle.stage = "none" /\ Idle.seen = "none"
  /\ \A pc \in RestartSteps \cup ResumeSteps, b \in BOOLEAN :
       LET o == [Idle EXCEPT !.pc = pc, !.recovery = b]
       IN  o.pc = pc /\ o.stage = "none" /\ o.seen = "none"
BY DEF Idle

LEMMA GotoEffect ==
  ASSUME op \in Operations, NEW pc, Goto(pc)
  PROVE  op'.pc = pc /\ op'.seen = "none" /\ op'.stage = op.stage
BY DEF Goto, Operations

LEMMA FailEffect ==
  ASSUME rt \in RuntimeRecords, Fail
  PROVE  op' = Idle /\ rt'.stage = "none"
BY DEF Fail, ClearPending, RuntimeRecords

LEMMA StageEffect ==
  ASSUME rt \in RuntimeRecords, NEW st \in Stages
  PROVE  Stage(st).stage = st
BY DEF Stage, RuntimeRecords

LEMMA OfflineIsDown ==
  ASSUME proc \in {"up", "down"}, Status = "offline"
  PROVE  proc = "down"
BY DEF Status

(* The history only grows, and nothing that rests on it is new.            *)
LEMMA DownKept ==
  ASSUME DownSeen, down => down', proc' = "down" => down',
         op' = op \/ op' = Idle, rt'.stage = "starting" => rt.stage = "starting"
  PROVE  DownSeen'
BY FreshOperation DEF DownSeen, Starting

(* The task goes on, from a step with a start behind it or to one without. *)
LEMMA DownGoto ==
  ASSUME DownSeen, op \in Operations, UNCHANGED <<proc, down>>, NEW pc, Goto(pc),
         pc \in Starting => down, pc \notin {"begin", "probe"},
         rt'.stage = "starting" => down
  PROVE  DownSeen'
BY GotoEffect DEF DownSeen, Starting

LEMMA DownProbe ==
  ASSUME DownSeen, rt \in RuntimeRecords, UNCHANGED <<proc, down>>, NEW b \in BOOLEAN, Probe(b)
  PROVE  DownSeen'
<1>1. CASE Allowed
  <2>1. op' = [Idle EXCEPT !.pc = "probe", !.recovery = b] /\ UNCHANGED rt
    BY <1>1 DEF Probe
  <2>2. op'.pc = "probe" /\ op'.stage = "none" /\ op'.seen = "none"
    BY <2>1, FreshOperation DEF RestartSteps
  <2>3. QED BY <2>1, <2>2 DEF DownSeen, Starting
<1>2. CASE ~Allowed
  BY <1>2, FailEffect, DownKept DEF Probe, DownSeen
<1>3. QED BY <1>1, <1>2

LEMMA DownStart ==
  ASSUME DownSeen, rt \in RuntimeRecords, op \in Operations, UNCHANGED <<proc, down>>, down,
         StartServer
  PROVE  DownSeen'
BY DownGoto DEF StartServer

LEMMA DownRestart ==
  ASSUME TypeOK, DownSeen, RestartStep
  PROVE  DownSeen'
<1>0. rt \in RuntimeRecords /\ op \in Operations /\ proc \in {"up", "down"}
  BY DEF TypeOK
<1> USE DEF OpOnly
<1>1. CASE Begin
  BY <1>0, <1>1, DownProbe DEF Begin, Operations
<1>2. CASE ProbeAnswered
  <2>1. op.pc = "probe" /\ op' = [op EXCEPT !.seen = Status] /\ UNCHANGED <<rt, proc, down>>
    BY <1>2 DEF ProbeAnswered
  <2>2. op'.pc = "probe" /\ op'.stage = op.stage /\ op'.seen = Status
    BY <1>0, <2>1 DEF Operations
  <2>3. op'.seen = "offline" => down
    BY <1>0, <2>2, OfflineIsDown DEF DownSeen
  <2>4. QED BY <2>1, <2>2, <2>3 DEF DownSeen, Starting
<1>3. CASE ProbeHandled
  <2>1. op.pc = "probe" /\ op.stage = "none" /\ proc' = proc
    BY <1>3 DEF ProbeHandled, DownSeen
  <2>2. CASE op.recovery
    <3>1. UNCHANGED <<proc, down>>
      BY <1>3, <2>2 DEF ProbeHandled
    <3>2. CASE StartServer
      <4>1. op.seen = "offline" \/ Fail
        BY <1>3, <2>2 DEF ProbeHandled
      <4>2. CASE op.seen = "offline"
        BY <1>0, <2>1, <3>1, <3>2, <4>2, DownStart DEF DownSeen
      <4>3. CASE Fail
        BY <1>0, <3>1, <4>3, FailEffect, DownKept DEF DownSeen
      <4>4. QED BY <4>1, <4>2, <4>3
    <3>3. CASE Fail
      BY <1>0, <3>1, <3>3, FailEffect, DownKept DEF DownSeen
    <3>4. QED BY <1>3, <2>2, <3>2, <3>3 DEF ProbeHandled
(* A scheduled restart forgets the history: nothing of an earlier start is  *)
(* left for it to rest on.                                                  *)
  <2>3. CASE ~op.recovery
    <3>1. down' = (proc = "down")
      BY <1>3, <2>3 DEF ProbeHandled
    <3>2. CASE rt' = Stage("warning") /\ Goto("warn")
      <4>1. rt'.stage = "warning"
        BY <1>0, <3>2, StageEffect DEF Stages
      <4>2. op'.pc = "warn" /\ op'.stage = "none"
        BY <1>0, <2>1, <3>2, GotoEffect
      <4>3. QED BY <2>1, <3>1, <4>1, <4>2 DEF DownSeen, Starting
    <3>3. CASE Fail
      <4>1. op' = Idle /\ rt'.stage = "none"
        BY <1>0, <3>3, FailEffect
      <4>2. QED BY <2>1, <3>1, <4>1, FreshOperation DEF DownSeen, Starting
    <3>4. QED BY <1>3, <2>3, <3>2, <3>3 DEF ProbeHandled
  <2>4. QED BY <2>2, <2>3
<1>4. CASE WarningsGiven
  <2>1. UNCHANGED <<proc, down>>
    BY <1>4 DEF WarningsGiven
  <2>2. CASE rt' = Stage("stopping") /\ Goto("flush")
    <3>1. rt'.stage = "stopping"
      BY <1>0, <2>2, StageEffect DEF Stages
    <3>2. QED BY <1>0, <2>1, <2>2, <3>1, DownGoto DEF Starting
  <2>3. CASE Fail
    BY <1>0, <2>1, <2>3, FailEffect, DownKept DEF DownSeen
  <2>4. QED BY <1>4, <2>2, <2>3 DEF WarningsGiven
<1>5. CASE StopServer
  <2>1. Goto("stopSent") /\ UNCHANGED <<rt, proc, down>>
    BY <1>5 DEF StopServer
  <2>2. QED BY <1>0, <2>1, DownGoto DEF Starting, DownSeen
<1>6. CASE JobNamed
  <2>1. UNCHANGED <<proc, down>> /\ rt'.stage = rt.stage
    BY <1>0, <1>6 DEF JobNamed, RuntimeRecords
  <2>2. CASE op.pc = "stopAcked" /\ Goto("stopWait")
    BY <1>0, <2>1, <2>2, DownGoto DEF Starting, DownSeen
  <2>3. CASE op.pc = "startAcked" /\ Goto("startWait")
    <3>1. down
      BY <2>3 DEF DownSeen, Starting
    <3>2. QED BY <1>0, <2>1, <2>3, <3>1, DownGoto
  <2>4. QED BY <1>6, <2>2, <2>3 DEF JobNamed
<1>7. CASE JobAnswered
  <2>1. UNCHANGED <<proc, down>>
    BY <1>7 DEF JobAnswered
  <2>2. CASE op.pc = "stopWait" /\ Goto("offline") /\ UNCHANGED rt
    BY <1>0, <2>1, <2>2, DownGoto DEF Starting, DownSeen
  <2>3. CASE op.pc = "startWait" /\ Goto("online") /\ UNCHANGED rt
    <3>1. down
      BY <2>3 DEF DownSeen, Starting
    <3>2. QED BY <1>0, <2>1, <2>3, <3>1, DownGoto
  <2>4. CASE Fail
    BY <1>0, <2>1, <2>4, FailEffect, DownKept DEF DownSeen
  <2>5. QED BY <1>7, <2>2, <2>3, <2>4 DEF JobAnswered
<1>8. CASE WentOffline
  <2>1. UNCHANGED <<proc, down>>
    BY <1>8 DEF WentOffline
  <2>2. CASE Status = "offline" /\ StartServer
    <3>1. down
      BY <1>0, <2>2, OfflineIsDown DEF DownSeen
    <3>2. QED BY <1>0, <2>1, <2>2, <3>1, DownStart
  <2>3. CASE Fail
    BY <1>0, <2>1, <2>3, FailEffect, DownKept DEF DownSeen
  <2>4. QED BY <1>8, <2>2, <2>3 DEF WentOffline
<1>9. CASE CameOnline
  <2>1. UNCHANGED <<proc, down>> /\ op.pc = "online" /\ down
    BY <1>9 DEF CameOnline, DownSeen, Starting
  <2>2. \/ op'.pc = op.pc /\ op'.stage = op.stage
        \/ op' = Idle
    BY <1>0, <1>9 DEF CameOnline, Fail, Operations
  <2>3. QED BY <2>1, <2>2, FreshOperation DEF DownSeen, Starting
<1>10. CASE ResumeBegins
  <2>1. UNCHANGED <<proc, down>>
    BY <1>10 DEF ResumeBegins
  <2>2. CASE UNCHANGED rt /\ \E pc \in {"resumeJob", "resumeStatus"} : Goto(pc)
    BY <1>0, <2>1, <2>2, DownGoto DEF Starting, DownSeen
  <2>3. CASE Fail
    BY <1>0, <2>1, <2>3, FailEffect, DownKept DEF DownSeen
  <2>4. QED BY <1>10, <2>2, <2>3 DEF ResumeBegins
<1>11. CASE ResumeJob
  <2>1. Goto("resumeStatus") /\ UNCHANGED <<rt, proc, down>>
    BY <1>11 DEF ResumeJob
  <2>2. QED BY <1>0, <2>1, DownGoto DEF Starting, DownSeen
<1>12. CASE ResumeStatus
  <2>1. UNCHANGED <<proc, down>>
    BY <1>12 DEF ResumeStatus
  <2>2. CASE Probe(TRUE)
    BY <1>0, <2>1, <2>2, DownProbe
  <2>3. CASE op.stage = "starting" /\ Goto("online") /\ UNCHANGED rt
    <3>1. down
      BY <2>3 DEF DownSeen
    <3>2. QED BY <1>0, <2>1, <2>3, <3>1, DownGoto
  <2>4. CASE Fail
    BY <1>0, <2>1, <2>4, FailEffect, DownKept DEF DownSeen
  <2>5. QED BY <1>12, <2>2, <2>3, <2>4 DEF ResumeStatus, Reconciled
<1>13. QED BY <1>1, <1>2, <1>3, <1>4, <1>5, <1>6, <1>7, <1>8, <1>9, <1>10, <1>11, <1>12
          DEF RestartStep

LEMMA DownRequest ==
  ASSUME TypeOK, DownSeen, NEW k \in wire, AgentAccepts(k) \/ RequestFails(k)
  PROVE  DownSeen'
<1>0. rt \in RuntimeRecords /\ op \in Operations /\ k \in {"stop", "start"}
      /\ UNCHANGED <<proc, down>>
  BY DEF TypeOK, AgentAccepts, RequestFails
<1>1. CASE UNCHANGED <<rt, op>>
  BY <1>0, <1>1, DownKept DEF DownSeen
<1>2. CASE Fail
  BY <1>0, <1>2, FailEffect, DownKept DEF DownSeen
<1>3. CASE Waiting(k) /\ Goto(Answered(k)) /\ UNCHANGED rt
  <2>1. CASE k = "stop"
    BY <1>0, <1>3, <2>1, DownGoto DEF Answered, Starting, DownSeen
  <2>2. CASE k = "start"
    <3>1. down
      BY <1>3, <2>2 DEF Waiting, DownSeen, Starting
    <3>2. QED BY <1>0, <1>3, <2>2, <3>1, DownGoto DEF Answered
  <2>3. QED BY <1>0, <2>1, <2>2
<1>4. QED BY <1>1, <1>2, <1>3 DEF AgentAccepts, RequestFails

LEMMA DownStep == TypeOK /\ DownSeen /\ [Next]_vars => DownSeen'
<1> SUFFICES ASSUME TypeOK, DownSeen, [Next]_vars PROVE DownSeen'
  OBVIOUS
<1>0. rt \in RuntimeRecords /\ op \in Operations /\ proc \in {"up", "down"}
  BY DEF TypeOK
<1>1. CASE UNCHANGED <<proc, down>> /\ (op' = op \/ op' = Idle) /\ rt'.stage \in {rt.stage, "none"}
  BY <1>1, DownKept DEF DownSeen
<1>2. CASE Admin \/ UpsStops
  <2>1. UNCHANGED <<proc, down>> /\ (op' = op \/ op' = Idle)
    BY <1>2 DEF Admin, AdminStop, AdminDeletesFile, RecordStop, AdminStart, AdminMaintenance,
                UpsStops
  <2>2. rt'.stage \in {rt.stage, "none"}
    BY <1>0, <1>2 DEF Admin, AdminStop, AdminDeletesFile, RecordStop, AdminStopRecord,
                      AdminStart, AdminMaintenance, UpsStops, RuntimeRecords
  <2>3. QED BY <1>1, <2>1, <2>2
<1>3. CASE BadReading \/ LineReading \/ AgentServesOthers
  BY <1>1, <1>3 DEF BadReading, LineReading, AgentServesOthers
<1>4. CASE WorkEnds \/ ServerCrashes \/ HostRestarts
  <2>1. UNCHANGED <<rt, op>>
    BY <1>4 DEF WorkEnds, ServerCrashes, HostRestarts
  <2>2. (down => down') /\ (proc' = "down" => down')
    BY <1>4 DEF WorkEnds, ServerCrashes, HostRestarts, ProcBecomes, DownSeen
  <2>3. QED BY <2>1, <2>2, DownKept
<1>5. ASSUME NEW k \in wire, AgentAccepts(k) \/ RequestFails(k)
      PROVE  DownSeen'
  BY <1>5, DownRequest
<1>6. CASE PollAgent
  <2>1. rt'.stage = rt.stage
    BY <1>0, <1>6 DEF PollAgent, RuntimeRecords
  <2>2. QED BY <1>1, <1>6, <2>1 DEF PollAgent
<1>7. CASE HandleAnswer
  <2>1. UNCHANGED <<proc, down>>
    BY <1>7 DEF HandleAnswer
  <2>2. rt'.stage \in {rt.stage, "none"}
    <3>1. CASE SeenOnline
      <4> DEFINE r == [rt EXCEPT !.away = FALSE, !.checks = 0,
                                 !.desired = IF Returning \/ @ = "unknown" THEN "on" ELSE @,
                                 !.intentional = @ /\ ~Returning]
      <4>1. rt' = r \/ rt' = Finished(r)
        BY <3>1 DEF SeenOnline
      <4>2. r.stage = rt.stage
        BY <1>0 DEF RuntimeRecords
      <4>3. r \in RuntimeRecords
        <5>1. 0 \in 0 .. Threshold
          BY ParametersOK
        <5>2. QED BY <1>0, <5>1 DEF RuntimeRecords
      <4> HIDE DEF r
      <4>4. Finished(r).stage = "none"
        BY <4>3 DEF Finished, RuntimeRecords
      <4>5. QED BY <4>1, <4>2, <4>4
    <3>2. CASE SeenOffline
      BY <1>0, <3>2 DEF SeenOffline, RuntimeRecords
    <3>3. CASE rt' = [rt EXCEPT !.away = TRUE, !.checks = 0] \/ rt' = rt
      BY <1>0, <3>3 DEF RuntimeRecords
    <3>4. QED BY <1>7, <3>1, <3>2, <3>3 DEF HandleAnswer
  <2>3. op' = op \/ op' = [Idle EXCEPT !.pc = "begin", !.recovery = TRUE]
    BY <1>7 DEF HandleAnswer, SeenOffline
  <2>4. CASE op' = op
    BY <1>1, <2>1, <2>2, <2>4
  <2>5. CASE op' = [Idle EXCEPT !.pc = "begin", !.recovery = TRUE]
    <3>1. op'.pc = "begin" /\ op'.stage = "none"
      BY <2>5, FreshOperation DEF RestartSteps
    <3>2. QED BY <2>1, <2>2, <3>1 DEF DownSeen, Starting
  <2>6. QED BY <2>3, <2>4, <2>5
<1>8. CASE SlotDue
  <2>1. op'.pc = "begin" /\ op'.stage = "none" /\ UNCHANGED <<rt, proc, down>>
    BY <1>8 DEF SlotDue, Idle
  <2>2. QED BY <2>1 DEF DownSeen, Starting
<1>9. CASE RestartStep
  BY <1>9, DownRestart
<1>10. CASE OpBreaks
  BY <1>0, <1>1, <1>10, FailEffect DEF OpBreaks
<1>11. CASE ControllerRestarts
  <2>1. UNCHANGED <<rt, proc, down>>
    BY <1>11 DEF ControllerRestarts
  <2>2. CASE op' = Idle
    BY <1>1, <2>1, <2>2
  <2>3. CASE op' = [Idle EXCEPT !.pc = "resume", !.stage = rt.stage, !.job = rt.job]
    <3>1. op'.pc = "resume" /\ op'.stage = rt.stage
      BY <2>3 DEF Idle
    <3>2. QED BY <2>1, <3>1 DEF DownSeen, Starting
  <2>4. QED BY <1>11, <2>2, <2>3 DEF ControllerRestarts
<1>12. CASE HoldPasses \/ CoolOff \/ HourPasses
  <2>1. UNCHANGED <<op, proc, down>>
    BY <1>12 DEF HoldPasses, CoolOff, HourPasses, TimeOnly
  <2>2. rt'.stage = rt.stage
    BY <1>0, <1>12 DEF HoldPasses, CoolOff, HourPasses, RuntimeRecords
  <2>3. QED BY <1>1, <2>1, <2>2
<1>13. CASE UNCHANGED vars
  BY <1>1, <1>13 DEF vars
<1>14. QED BY <1>2, <1>3, <1>4, <1>5, <1>6, <1>7, <1>8, <1>9, <1>10, <1>11, <1>12, <1>13
          DEF Next, Agent

(* A restart that reports success has had the process down since a         *)
(* scheduled restart last found it up, whatever crashed, broke off or was  *)
(* resumed in between (automation.py:198-268, 341-365).                    *)
THEOREM RestartCorrect == Spec => SuccessMeansRestarted
<1>1. Init => DownSeen
  <2> SUFFICES ASSUME Init PROVE DownSeen
    OBVIOUS
  <2>1. rt.stage = "none"
    BY DEF Init
  <2>2. op = Idle /\ down = (proc = "down")
    BY DEF Init
  <2>3. QED BY <2>1, <2>2, FreshOperation DEF DownSeen, Starting
<1>2. DownSeen => (op.pc = "online" /\ op' = Idle /\ rt' = Finished(rt) => down)
  BY DEF DownSeen, Starting
<1>3. QED BY <1>1, <1>2, TypeCorrect, DownStep, PTL DEF Spec, SuccessMeansRestarted

=============================================================================
