-------------------------- MODULE ServerToolsProofs --------------------------
(***************************************************************************)
(* Theorems about ServerTools, for any software, any number of             *)
(* installations, requests, failures, kills and crashes.                   *)
(***************************************************************************)
EXTENDS ServerTools, TLAPS

Kinds  == {"install", "change", "delete"}
Steps  == UNION {Tools[k] : k \in Kinds}
Fields == [kind : Kinds, step : Steps, software : Softwares \cup {None}, backup : Contents,
           wasActive : BOOLEAN, old : Softwares \cup {None}, before : Softwares \cup {Free, Stale, Damaged},
           broken : BOOLEAN]

(* What holds of the disk, the unit and the tool at each of its steps,     *)
(* whatever failed before.                                                 *)
InstallShape ==
  /\ ~active /\ aside = None
  /\ ~tool.broken => Listed = None
  /\ tool.step # "discard" => ~tool.broken
  /\ tool.software \in Versions /\ ~tool.wasActive
  /\ tool.step \in {"stage", "place"} => dir = None /\ lives < MaxLives
  /\ tool.step \in {"enable", "record", "discard"} => dir # None

ChangeShape ==
  /\ entry # None /\ tool.old # None /\ tool.software \in Versions
  /\ tool.step \notin {"stage", "stop", "resume", "check"} => ~active
  /\ tool.step \in {"stage", "stop"} => ~tool.wasActive
  /\ aside # None <=> tool.step \in {"extract", "own", "clear"}
  /\ dir = None <=> tool.step = "extract"
  /\ tool.step \notin {"stage", "stop", "archive", "resume"} => tool.backup # None

DeleteShape ==
  /\ tool.step \in {"archive", "disable", "move", "record", "clear", "putBack"} => ~active
  /\ tool.step \in {"clear", "putBack"} => aside # None
  /\ tool.step \notin {"record", "clear", "putBack"} => aside = None
  /\ tool.step \in {"archive", "move"} => dir # None
  /\ tool.step \in {"record", "clear", "putBack"} => dir = None
  /\ tool.step # "clear" /\ ~tool.broken => Listed # None /\ Loadable /\ tool.old = entry
  /\ tool.step \notin {"putBack", "reenable", "resume"} => ~tool.broken
  /\ tool.step = "clear" => Listed = None
  /\ tool.wasActive => tool.step # "stop" /\ (dir # None \/ aside # None)

Shape ==
  /\ active => dir # None
  /\ tool = Idle => aside = None
  /\ tool # Idle => tool.old \in Versions \cup {None}
  /\ tool.kind = "install" => InstallShape
  /\ tool.kind = "change" => ChangeShape
  /\ tool.kind = "delete" => DeleteShape

Typed == TypeOK /\ Shape

-----------------------------------------------------------------------------
(* The tool's record.                                                      *)

LEMMA RunningFields ==
  ASSUME NEW t
  PROVE  t \in Running <=> t \in Fields /\ t.step \in Tools[t.kind]
<1>1. DOMAIN Tools = Kinds
  BY DEF Tools, Kinds
<1>2. \A k \in Kinds : Tools[k] \subseteq Steps
  BY DEF Steps
<1> DEFINE Of(k) == [kind : {k}, step : Tools[k], software : Softwares \cup {None}, backup : Contents,
                     wasActive : BOOLEAN, old : Softwares \cup {None},
                     before : Softwares \cup {Free, Stale, Damaged}, broken : BOOLEAN]
<1>3. Running = UNION {Of(k) : k \in Kinds}
  BY <1>1 DEF Running
<1>4. t \in Running <=> \E k \in Kinds : t \in Of(k)
  BY <1>3
<1>5. ASSUME NEW k \in Kinds, t \in Of(k)
      PROVE  t \in Fields /\ t.step \in Tools[t.kind]
  BY <1>2, <1>5 DEF Fields
<1>6. ASSUME t \in Fields, t.step \in Tools[t.kind]
      PROVE  t.kind \in Kinds /\ t \in Of(t.kind)
  BY <1>6 DEF Fields
<1>7. QED BY <1>4, <1>5, <1>6

LEMMA IdleApart ==
  /\ Idle \notin Running /\ Idle.kind = "idle"
  /\ \A t \in Running : t # Idle /\ t.kind \in Kinds
<1>1. Idle.kind = "idle"
  BY DEF Idle
<1>2. \A t \in Running : t.kind \in Kinds
  BY RunningFields DEF Fields
<1>3. QED BY <1>1, <1>2 DEF Kinds

LEMMA ToolCases ==
  ASSUME TypeOK
  PROVE  /\ tool = Idle <=> tool.kind = "idle"
         /\ tool # Idle => tool \in Running /\ tool \in Fields /\ tool.kind \in Kinds
                           /\ tool.step \in Tools[tool.kind]
BY IdleApart, RunningFields DEF TypeOK, Kinds

(* The tool goes on to another step and has the same variables.            *)
Same ==
  /\ tool'.kind = tool.kind /\ tool'.software = tool.software /\ tool'.backup = tool.backup
  /\ tool'.wasActive = tool.wasActive /\ tool'.old = tool.old /\ tool'.before = tool.before

LEMMA StepEffect ==
  ASSUME TypeOK, tool # Idle, NEW step \in Tools[tool.kind], Step(step)
  PROVE  /\ tool' \in Running /\ tool' # Idle
         /\ Same /\ tool'.step = step /\ tool'.broken = tool.broken
<1>1. tool \in Fields /\ tool.kind \in Kinds
  BY ToolCases
<1>2. step \in Steps
  BY <1>1 DEF Steps
<1>3. tool' \in Fields /\ Same /\ tool'.step = step /\ tool'.broken = tool.broken
  BY <1>1, <1>2 DEF Step, Same, Fields
<1>4. tool' \in Running
  BY <1>3, RunningFields DEF Same
<1>5. QED BY <1>3, <1>4, IdleApart

LEMMA BreakEffect ==
  ASSUME TypeOK, tool # Idle, NEW step \in Tools[tool.kind], Break(step)
  PROVE  /\ tool' \in Running /\ tool' # Idle
         /\ Same /\ tool'.step = step /\ tool'.broken = TRUE
<1>1. tool \in Fields /\ tool.kind \in Kinds
  BY ToolCases
<1>2. step \in Steps
  BY <1>1 DEF Steps
<1>3. tool' \in Fields /\ Same /\ tool'.step = step /\ tool'.broken = TRUE
  BY <1>1, <1>2 DEF Break, Same, Fields
<1>4. tool' \in Running
  BY <1>3, RunningFields DEF Same
<1>5. QED BY <1>3, <1>4, IdleApart

LEMMA BudgetOK ==
  ASSUME TypeOK, Calm \/ Fault
  PROVE  requests' \in 0 .. Requests /\ faults' \in 0 .. Faults
BY ToolsAssumption DEF TypeOK, Calm, Fault, budget

LEMMA EndsOK ==
  ASSUME TypeOK, NEW o \in {"ok", "failed", "broken"}, Ends(o)
  PROVE  /\ tool' = Idle /\ outcome' = o /\ outcome' \in {"ok", "failed", "broken"}
         /\ damaged' \in BOOLEAN /\ UNCHANGED <<lives, legacy>>
         /\ (o # "broken" => damaged' = damaged)
<1>1. tool' = Idle /\ outcome' = o /\ UNCHANGED <<lives, legacy>> /\ damaged' = (damaged \/ o = "broken")
  BY DEF Ends
<1>2. damaged' \in BOOLEAN
  BY <1>1, Zenon
<1>3. damaged \in BOOLEAN
  BY DEF TypeOK
<1>4. o # "broken" => damaged' = damaged
  BY <1>1, <1>3
<1>5. QED BY <1>1, <1>2, <1>4

LEMMA FailsOK ==
  ASSUME TypeOK, Fails \/ Dies
  PROVE  /\ tool' = Idle /\ outcome' \in {"ok", "failed", "broken"}
         /\ damaged' \in BOOLEAN /\ UNCHANGED <<lives, legacy, stake>>
         /\ outcome' # "broken" => damaged' = damaged /\ ~tool.broken /\ outcome' = "failed"
         /\ Dies => damaged' = TRUE
<1>1. CASE Fails
  <2>1. PICK o \in {"failed", "broken"} : Ends(o) /\ (o = "failed" => ~tool.broken) /\ UNCHANGED stake
    BY <1>1 DEF Fails
  <2>2. o \in {"ok", "failed", "broken"}
    BY <2>1
  <2>3. outcome' = o /\ tool' = Idle /\ damaged' \in BOOLEAN /\ UNCHANGED <<lives, legacy>>
        /\ (o # "broken" => damaged' = damaged)
    BY <2>1, <2>2, EndsOK
  <2>4. Dies => damaged' = TRUE
    <3>1. ASSUME Dies
          PROVE  damaged' = (damaged \/ "broken" = "broken")
      BY <3>1 DEF Dies, Ends
    <3>2. QED BY <3>1, Zenon
  <2>5. QED BY <2>1, <2>3, <2>4
<1>2. CASE Dies
  <2>1. Ends("broken") /\ UNCHANGED stake
    BY <1>2 DEF Dies
  <2>2. damaged' = (damaged \/ "broken" = "broken")
    BY <2>1 DEF Ends
  <2>3. damaged' = TRUE
    BY <2>2, Zenon
  <2>4. QED BY <2>1, <2>3, EndsOK
<1>3. QED BY <1>1, <1>2

(* The parts of Typed for a step after which the tool goes on.             *)
LEMMA TypedOn ==
  ASSUME Typed, tool' \in Running, tool' # Idle, tool'.old = tool.old, tool'.kind = tool.kind, tool # Idle,
         Still, Calm \/ Fault, UNCHANGED legacy,
         dir' \in Contents, aside' \in Contents, left' \subseteq Content, archives' \subseteq Content,
         entry' \in Versions \cup {None}, tomb' \in BOOLEAN, enabled' \in BOOLEAN, active' \in BOOLEAN,
         active' => dir' # None,
         tool.kind = "install" => InstallShape',
         tool.kind = "change" => ChangeShape',
         tool.kind = "delete" => DeleteShape'
  PROVE  Typed'
<1>1. requests' \in 0 .. Requests /\ faults' \in 0 .. Faults
  BY BudgetOK DEF Typed
<1>2. TypeOK'
  BY <1>1 DEF Typed, TypeOK, Still, ends, history
<1>3. Shape'
  BY DEF Typed, Shape
<1>4. QED BY <1>2, <1>3 DEF Typed

(* The parts of Typed for a step that ends the tool.                       *)
LEMMA TypedEnd ==
  ASSUME Typed, tool' = Idle, outcome' \in {"ok", "failed", "broken"}, damaged' \in BOOLEAN,
         UNCHANGED <<lives, legacy>>, Calm \/ Fault, stake' = stake \/ (dir # None /\ stake' = AtStake(dir)),
         dir' \in Contents, aside' = None, left' \subseteq Content, archives' \subseteq Content,
         entry' \in Versions \cup {None}, tomb' \in BOOLEAN, enabled' \in BOOLEAN, active' \in BOOLEAN,
         active' => dir' # None
  PROVE  Typed'
<1>1. requests' \in 0 .. Requests /\ faults' \in 0 .. Faults
  BY BudgetOK DEF Typed
<1>2. stake' \in [Lives -> (0 .. MaxWorld) \cup {None}]
  <2>1. stake \in [Lives -> (0 .. MaxWorld) \cup {None}] /\ dir \in Contents
    BY DEF Typed, TypeOK
  <2>2. ASSUME dir # None
        PROVE  dir.life \in Lives /\ dir.world \in 0 .. MaxWorld
    BY <2>1, <2>2 DEF Contents, Content
  <2>3. QED BY <2>1, <2>2 DEF AtStake
<1>3. TypeOK'
  BY <1>1, <1>2 DEF Typed, TypeOK, Contents
<1>4. Shape'
  BY IdleApart DEF Shape
<1>5. QED BY <1>3, <1>4 DEF Typed

LEMMA LeftType ==
  ASSUME TypeOK, LeaveAside
  PROVE  aside' = None /\ left' \subseteq Content
BY DEF LeaveAside, TypeOK, Contents

LEMMA ListedType == ASSUME TypeOK PROVE Listed \in Softwares \cup {None}
BY DEF TypeOK, Listed, Softwares

-----------------------------------------------------------------------------
(* An installation.                                                        *)

LEMMA InstallTyped ==
  ASSUME Typed, tool.kind = "install", Stage \/ Place \/ Enable \/ RecordInstall \/ Discard
  PROVE  Typed'
<1>1. /\ TypeOK /\ tool # Idle /\ InstallShape /\ tool \in Running /\ tool \in Fields
      /\ Tools["install"] = {"stage", "place", "enable", "record", "discard"}
      /\ active => dir # None
  BY IdleApart, ToolCases DEF Typed, Shape, Tools
<1>2. CASE Stage
  <2>1. UNCHANGED <<disk, entry, tomb, unit, legacy>> /\ (Calm \/ Fault)
    BY <1>1, <1>2, FailsOK DEF Stage
  <2>2. CASE Step("place") /\ Still
    <3>1. tool' \in Running /\ tool' # Idle /\ Same /\ tool'.step = "place" /\ tool'.broken = tool.broken
      BY <1>1, <2>2, StepEffect, "place" \in Tools[tool.kind]
    <3>2. InstallShape'
      BY <1>1, <1>2, <2>1, <2>2, <3>1 DEF InstallShape, Stage, Same, disk, unit, Listed, Still, history
    <3>3. QED BY <1>1, <2>1, <2>2, <3>1, <3>2, TypedOn DEF Same, disk, unit, TypeOK
  <2>3. CASE Fails
    BY <1>1, <2>1, <2>3, FailsOK, TypedEnd DEF InstallShape, disk, unit, TypeOK
  <2>4. QED BY <1>1, <1>2, <2>2, <2>3 DEF Stage
<1>3. CASE Place
  <2>1. UNCHANGED <<aside, left, archives, listing, unit, ends>> /\ tool.step = "place"
    BY <1>3 DEF Place, At
  <2>2. dir = None /\ lives < MaxLives /\ lives \in 0 .. MaxLives /\ MaxLives \in Nat
    BY <1>1, <2>1, ToolsAssumption DEF InstallShape, TypeOK
  <2>3. CASE /\ dir' = [life |-> lives + 1, world |-> 0, whole |-> TRUE, software |-> tool.software]
             /\ lives' = lives + 1 /\ UNCHANGED stake /\ Step("enable") /\ Calm
    <3>1. tool' \in Running /\ tool' # Idle /\ Same /\ tool'.step = "enable" /\ tool'.broken = tool.broken
      BY <1>1, <2>3, StepEffect, "enable" \in Tools[tool.kind]
    <3>2. dir' \in Content /\ dir' # None
      <4>1. lives + 1 \in Lives /\ 0 \in 0 .. MaxWorld /\ tool.software \in Softwares \cup {Mixed}
        BY <1>1, <2>2, ToolsAssumption DEF Lives, Softwares, InstallShape
      <4>2. dir' \in Content
        BY <2>3, <4>1 DEF Content
      <4>3. QED BY <4>2, NoneApart
    <3>3. InstallShape'
      BY <1>1, <2>1, <3>1, <3>2 DEF InstallShape, Same, listing, unit, Listed
    <3>4. lives' \in 0 .. MaxLives
      BY <2>2, <2>3
    <3>5. requests' \in 0 .. Requests /\ faults' \in 0 .. Faults
      BY <1>1, <2>3, BudgetOK
    <3>6. TypeOK'
      BY <1>1, <2>1, <2>3, <3>1, <3>2, <3>4, <3>5 DEF TypeOK, Contents, listing, unit, ends
    <3>7. Shape'
      BY <1>1, <2>1, <3>1, <3>2, <3>3 DEF Typed, Shape, Same, unit
    <3>8. QED BY <3>6, <3>7 DEF Typed
  <2>4. CASE Fails /\ Fault /\ UNCHANGED dir
    BY <1>1, <2>1, <2>4, FailsOK, TypedEnd DEF InstallShape, TypeOK, listing, unit
  <2>5. QED BY <1>3, <2>3, <2>4 DEF Place
<1>4. CASE Enable
  <2>1. UNCHANGED <<disk, listing, active>> /\ Still /\ tool.step = "enable" /\ (Calm \/ Fault)
        /\ enabled' \in BOOLEAN
    BY <1>1, <1>4 DEF Enable, At, TypeOK, Raise
  <2>2. PICK step \in {"record", "discard"} : Step(step)
    BY <1>4 DEF Enable, Raise
  <2>3. tool' \in Running /\ tool' # Idle /\ Same /\ tool'.step = step /\ tool'.broken = tool.broken
    BY <1>1, <2>2, StepEffect, step \in Tools[tool.kind]
  <2>4. InstallShape'
    BY <1>1, <2>1, <2>2, <2>3 DEF InstallShape, Same, listing, disk, Listed, Still, history
  <2>5. QED BY <1>1, <2>1, <2>3, <2>4, TypedOn DEF Same, TypeOK, disk, listing
<1>5. CASE RecordInstall
  <2>1. UNCHANGED <<disk, unit>> /\ tool.step = "record" /\ dir # None /\ aside = None
    BY <1>1, <1>5 DEF RecordInstall, At, InstallShape
  <2>2. CASE entry' = tool.software /\ tomb' = FALSE /\ Ends("ok") /\ Calm /\ stake' = AtStake(dir)
    BY <1>1, <2>1, <2>2, EndsOK, TypedEnd DEF InstallShape, TypeOK, disk, unit
  <2>3. CASE Raise("discard") /\ UNCHANGED listing /\ Still
    <3>1. /\ tool' \in Running /\ tool' # Idle /\ Same /\ tool'.step = "discard" /\ Fault
          /\ tool'.broken = tool.broken
      BY <1>1, <2>3, StepEffect, "discard" \in Tools[tool.kind] DEF Raise
    <3>2. InstallShape'
      BY <1>1, <2>1, <2>3, <3>1 DEF InstallShape, Same, listing, disk, unit, Listed, Still, history
    <3>3. QED BY <1>1, <2>1, <2>3, <3>1, <3>2, TypedOn DEF Same, TypeOK, disk, unit, listing
  <2>4. CASE /\ Break("discard") /\ entry' = tool.software /\ tomb' = FALSE
             /\ UNCHANGED legacy /\ Still
    <3>1. /\ tool' \in Running /\ tool' # Idle /\ Same /\ tool'.step = "discard" /\ Fault
          /\ tool'.broken = TRUE
      BY <1>1, <2>4, BreakEffect, "discard" \in Tools[tool.kind] DEF Break
    <3>2. InstallShape'
      BY <1>1, <2>1, <3>1 DEF InstallShape, Same, disk, unit
    <3>3. entry' \in Versions \cup {None} /\ tomb' \in BOOLEAN
      BY <1>1, <2>4 DEF InstallShape
    <3>4. QED BY <1>1, <2>1, <2>4, <3>1, <3>2, <3>3, TypedOn DEF Same, TypeOK, disk, unit
  <2>5. QED BY <1>5, <2>2, <2>3, <2>4 DEF RecordInstall
<1>6. CASE Discard
  <2>1. /\ UNCHANGED <<aside, left, archives, entry, tomb, active>> /\ tool.step = "discard"
        /\ dir # None /\ aside = None /\ (Calm \/ Fault) /\ ~active
    BY <1>1, <1>6 DEF Discard, At, InstallShape, Dies
  <2>2. dir' \in Contents /\ enabled' \in BOOLEAN
    <3>1. dir \in Content
      BY <1>1, <2>1 DEF TypeOK, Contents
    <3>2. [dir EXCEPT !.whole = FALSE] \in Content
      BY <3>1 DEF Content
    <3>3. QED BY <1>1, <1>6, <3>2 DEF Discard, Contents, TypeOK
  <2>3. Fails \/ Dies
    BY <1>6 DEF Discard
  <2>4. QED BY <1>1, <2>1, <2>2, <2>3, FailsOK, TypedEnd DEF TypeOK
<1>7. QED BY <1>2, <1>3, <1>4, <1>5, <1>6
-----------------------------------------------------------------------------
(* A change of the software.                                               *)

LEMMA StopEffect ==
  ASSUME TypeOK, tool # Idle, NEW step \in Tools[tool.kind],
         tool' = [tool EXCEPT !.wasActive = active, !.step = step]
  PROVE  /\ tool' \in Running /\ tool' # Idle
         /\ tool'.kind = tool.kind /\ tool'.software = tool.software /\ tool'.backup = tool.backup
         /\ tool'.old = tool.old /\ tool'.before = tool.before /\ tool'.broken = tool.broken
         /\ tool'.wasActive = active /\ tool'.step = step
<1>1. tool \in Fields /\ tool.kind \in Kinds /\ active \in BOOLEAN
  BY ToolCases DEF TypeOK
<1>2. step \in Steps
  BY <1>1 DEF Steps
<1>3. /\ tool' \in Fields
      /\ tool'.kind = tool.kind /\ tool'.software = tool.software /\ tool'.backup = tool.backup
      /\ tool'.old = tool.old /\ tool'.before = tool.before /\ tool'.broken = tool.broken
      /\ tool'.wasActive = active /\ tool'.step = step
  BY <1>1, <1>2 DEF Fields
<1>4. tool' \in Running
  BY <1>3, RunningFields
<1>5. QED BY <1>3, <1>4, IdleApart

LEMMA ArchiveEffect ==
  ASSUME TypeOK, tool # Idle, NEW step \in Tools[tool.kind],
         tool' = [tool EXCEPT !.backup = dir, !.step = step]
  PROVE  /\ tool' \in Running /\ tool' # Idle
         /\ tool'.kind = tool.kind /\ tool'.software = tool.software /\ tool'.backup = dir
         /\ tool'.old = tool.old /\ tool'.before = tool.before /\ tool'.broken = tool.broken
         /\ tool'.wasActive = tool.wasActive /\ tool'.step = step
<1>1. tool \in Fields /\ tool.kind \in Kinds /\ dir \in Contents
  BY ToolCases DEF TypeOK
<1>2. step \in Steps
  BY <1>1 DEF Steps
<1>3. /\ tool' \in Fields
      /\ tool'.kind = tool.kind /\ tool'.software = tool.software /\ tool'.backup = dir
      /\ tool'.old = tool.old /\ tool'.before = tool.before /\ tool'.broken = tool.broken
      /\ tool'.wasActive = tool.wasActive /\ tool'.step = step
  BY <1>1, <1>2 DEF Fields
<1>4. tool' \in Running
  BY <1>3, RunningFields
<1>5. QED BY <1>3, <1>4, IdleApart

(* The tool until it succeeds, or fails with nothing to undo.              *)
LEMMA ChangeTyped ==
  ASSUME Typed, tool.kind = "change", Stage \/ Stop \/ Archive \/ Resume \/ Copy \/ RecordChange \/ Start \/ Check
  PROVE  Typed'
<1>1. /\ TypeOK /\ tool # Idle /\ ChangeShape /\ tool \in Running /\ tool \in Fields
      /\ Tools["change"] = {"stage", "stop", "archive", "copy", "record", "start", "check", "resume",
                            "unstart", "setAside", "extract", "own", "clear", "unrecord", "restart"}
      /\ active => dir # None
  BY IdleApart, ToolCases DEF Typed, Shape, Tools
<1>2. CASE Stage
  <2>1. UNCHANGED <<disk, entry, tomb, unit>> /\ tool.step = "stage" /\ dir # None /\ aside = None
    BY <1>1, <1>2 DEF Stage, ChangeShape
  <2>2. CASE Step("stop") /\ Calm /\ UNCHANGED legacy /\ Still
    <3>1. tool' \in Running /\ tool' # Idle /\ Same /\ tool'.step = "stop"
      BY <1>1, <2>2, StepEffect, "stop" \in Tools[tool.kind]
    <3>2. ChangeShape'
      BY <1>1, <2>1, <3>1 DEF ChangeShape, Same, disk, unit
    <3>3. QED BY <1>1, <2>1, <2>2, <3>1, <3>2, TypedOn DEF Same, disk, unit, TypeOK
  <2>3. CASE Fails /\ Fault
    BY <1>1, <2>1, <2>3, FailsOK, TypedEnd DEF disk, unit, TypeOK
  <2>4. QED BY <1>1, <1>2, <2>2, <2>3 DEF Stage
<1>3. CASE Stop
  <2>1. /\ UNCHANGED <<disk, listing, enabled>> /\ Still /\ tool.step = "stop" /\ (Calm \/ Fault)
        /\ dir # None /\ aside = None
        /\ active' \in {active, FALSE} /\ active' \in BOOLEAN
    BY <1>1, <1>3 DEF Stop, ChangeShape, TypeOK
  <2>2. PICK step \in {"archive", "resume"} :
          /\ tool' = [tool EXCEPT !.wasActive = active, !.step = step]
          /\ step = "archive" => ~active'
    BY <1>1, <1>3, <2>1 DEF Stop
  <2>3. /\ tool' \in Running /\ tool' # Idle /\ tool'.kind = tool.kind /\ tool'.software = tool.software
        /\ tool'.old = tool.old /\ tool'.step = step
    BY <1>1, <2>2, StopEffect, step \in Tools[tool.kind]
  <2>4. ChangeShape'
    BY <1>1, <2>1, <2>2, <2>3 DEF ChangeShape, disk, listing
  <2>5. QED BY <1>1, <2>1, <2>3, <2>4, TypedOn DEF disk, listing, TypeOK
<1>4. CASE Archive
  <2>1. /\ UNCHANGED <<dir, aside, left, listing, unit>> /\ Still /\ tool.step = "archive" /\ (Calm \/ Fault)
        /\ dir # None /\ aside = None /\ ~active
    BY <1>1, <1>4 DEF Archive, ChangeShape, Raise
  <2>2. archives' \subseteq Content
    BY <1>1, <1>4, <2>1 DEF Archive, TypeOK, Contents
  <2>3. CASE tool' = [tool EXCEPT !.backup = dir, !.step = "copy"]
    <3>1. /\ tool' \in Running /\ tool' # Idle /\ tool'.kind = tool.kind /\ tool'.software = tool.software
          /\ tool'.old = tool.old /\ tool'.step = "copy" /\ tool'.backup = dir
      BY <1>1, <2>3, ArchiveEffect, "copy" \in Tools[tool.kind]
    <3>2. ChangeShape'
      BY <1>1, <2>1, <3>1 DEF ChangeShape, listing, unit
    <3>3. QED BY <1>1, <2>1, <2>2, <3>1, <3>2, TypedOn DEF listing, unit, TypeOK
  <2>4. CASE Step("resume")
    <3>1. tool' \in Running /\ tool' # Idle /\ Same /\ tool'.step = "resume"
      BY <1>1, <2>4, StepEffect, "resume" \in Tools[tool.kind]
    <3>2. ChangeShape'
      BY <1>1, <2>1, <3>1 DEF ChangeShape, Same, listing, unit
    <3>3. QED BY <1>1, <2>1, <2>2, <3>1, <3>2, TypedOn DEF Same, listing, unit, TypeOK
  <2>5. QED BY <1>1, <1>4, <2>3, <2>4 DEF Archive, Raise
<1>5. CASE Resume
  <2>1. /\ UNCHANGED <<disk, entry, tomb, enabled>> /\ aside = None /\ dir # None /\ (Calm \/ Fault)
        /\ Fails \/ Dies
    BY <1>1, <1>5 DEF Resume, ChangeShape, Dies
  <2>2. active' \in BOOLEAN
    BY <1>1, <1>5 DEF Resume, TypeOK, Fields
  <2>3. QED BY <1>1, <2>1, <2>2, FailsOK, TypedEnd DEF disk, TypeOK
<1>6. CASE Copy
  <2>1. /\ UNCHANGED <<aside, left, archives, listing, unit>> /\ Still /\ tool.step = "copy" /\ (Calm \/ Fault)
        /\ dir # None /\ aside = None /\ ~active
    BY <1>1, <1>6 DEF Copy, At, ChangeShape, Raise
  <2>2. dir' \in Content /\ dir' # None
    <3>1. dir \in Content /\ tool.software \in Softwares \cup {Mixed} /\ Mixed \in Softwares \cup {Mixed}
      BY <1>1, <2>1 DEF TypeOK, Contents, ChangeShape, Softwares
    <3>2. dir' \in Content
      BY <1>6, <3>1 DEF Copy, Content
    <3>3. QED BY <3>2, NoneApart
  <2>3. PICK step \in {"record", "unstart"} : Step(step)
    BY <1>6 DEF Copy, Raise
  <2>4. tool' \in Running /\ tool' # Idle /\ Same /\ tool'.step = step
    BY <1>1, <2>3, StepEffect, step \in Tools[tool.kind]
  <2>5. ChangeShape'
    BY <1>1, <2>1, <2>2, <2>4 DEF ChangeShape, Same, listing, unit
  <2>6. QED BY <1>1, <2>1, <2>2, <2>4, <2>5, TypedOn DEF Same, listing, unit, TypeOK, Contents
<1>7. CASE RecordChange
  <2>1. /\ UNCHANGED <<disk, unit, tomb>> /\ tool.step = "record" /\ (Calm \/ Fault)
        /\ dir # None /\ aside = None /\ ~active /\ tool.software # None
        /\ entry' \in Versions /\ entry' # None
    <3>1. tool.software \in Versions /\ None \notin Versions
      BY <1>1, ToolsAssumption DEF ChangeShape
    <3>2. QED BY <1>1, <1>7, <3>1 DEF RecordChange, At, ChangeShape, Raise, TypeOK
  <2>2. CASE UNCHANGED legacy /\ Still /\ \E step \in {"start", "unstart"} : Step(step)
    <3>1. PICK step \in {"start", "unstart"} : Step(step)
      BY <2>2
    <3>2. tool' \in Running /\ tool' # Idle /\ Same /\ tool'.step = step
      BY <1>1, <3>1, StepEffect, step \in Tools[tool.kind]
    <3>3. ChangeShape'
      BY <1>1, <2>1, <3>2 DEF ChangeShape, Same, disk, unit
    <3>4. QED BY <1>1, <2>1, <2>2, <3>2, <3>3, TypedOn DEF Same, disk, unit, TypeOK
  <2>3. CASE Ends("ok") /\ UNCHANGED stake
    BY <1>1, <2>1, <2>3, EndsOK, TypedEnd DEF disk, unit, TypeOK
  <2>4. QED BY <1>7, <2>2, <2>3 DEF RecordChange, Raise
<1>8. CASE Start
  <2>1. /\ UNCHANGED <<disk, listing, enabled>> /\ Still /\ tool.step = "start" /\ (Calm \/ Fault)
        /\ dir # None /\ aside = None /\ active' \in BOOLEAN
    BY <1>1, <1>8 DEF Start, At, ChangeShape, Raise, TypeOK
  <2>2. PICK step \in {"check", "unstart"} : Step(step) /\ (step = "unstart" => ~active')
    BY <1>1, <1>8 DEF Start, At, Raise, ChangeShape
  <2>3. tool' \in Running /\ tool' # Idle /\ Same /\ tool'.step = step
    BY <1>1, <2>2, StepEffect, step \in Tools[tool.kind]
  <2>4. ChangeShape'
    BY <1>1, <1>8, <2>1, <2>2, <2>3 DEF ChangeShape, Same, disk, listing, Start, At
  <2>5. QED BY <1>1, <2>1, <2>3, <2>4, TypedOn DEF Same, disk, listing, TypeOK
<1>9. CASE Check
  <2>1. /\ UNCHANGED <<disk, entry, tomb, unit>> /\ Calm /\ tool.step = "check"
        /\ dir # None /\ aside = None
    BY <1>1, <1>9 DEF Check, At, ChangeShape
  <2>2. CASE Ends("ok") /\ stake' = AtStake(dir)
    BY <1>1, <2>1, <2>2, EndsOK, TypedEnd DEF disk, unit, TypeOK
  <2>3. CASE ~active /\ Step("unstart") /\ UNCHANGED legacy /\ Still
    <3>1. tool' \in Running /\ tool' # Idle /\ Same /\ tool'.step = "unstart"
      BY <1>1, <2>3, StepEffect, "unstart" \in Tools[tool.kind]
    <3>2. ChangeShape'
      BY <1>1, <2>1, <2>3, <3>1 DEF ChangeShape, Same, disk, unit
    <3>3. QED BY <1>1, <2>1, <2>3, <3>1, <3>2, TypedOn DEF Same, disk, unit, TypeOK
  <2>4. QED BY <1>9, <2>2, <2>3 DEF Check
<1>10. QED BY <1>2, <1>3, <1>4, <1>5, <1>6, <1>7, <1>8, <1>9

(* The rollback.                                                           *)
LEMMA RollbackTyped ==
  ASSUME Typed, tool.kind = "change", Unstart \/ SetAside \/ Extract \/ Own \/ ClearChange \/ Unrecord \/ Restart
  PROVE  Typed'
<1>1. /\ TypeOK /\ tool # Idle /\ ChangeShape /\ tool \in Running /\ tool \in Fields
      /\ Tools["change"] = {"stage", "stop", "archive", "copy", "record", "start", "check", "resume",
                            "unstart", "setAside", "extract", "own", "clear", "unrecord", "restart"}
      /\ active => dir # None
  BY IdleApart, ToolCases DEF Typed, Shape, Tools
<1>2. CASE Unstart
  <2>1. UNCHANGED <<disk, listing, enabled>> /\ Still /\ tool.step = "unstart" /\ ~active /\ ~active'
        /\ active' \in BOOLEAN
    <3>1. UNCHANGED <<disk, listing, enabled>> /\ Still /\ tool.step = "unstart"
      BY <1>2 DEF Unstart, At
    <3>2. ~active
      BY <1>1, <3>1 DEF ChangeShape
    <3>3. active' = FALSE \/ active' = active
      BY <1>2 DEF Unstart
    <3>4. active = FALSE
      BY <1>1, <3>2 DEF TypeOK
    <3>5. active' = FALSE
      BY <3>3, <3>4
    <3>6. active' \in BOOLEAN
      BY <3>5
    <3>7. QED BY <3>1, <3>2, <3>5, <3>6
  <2>2. Calm \/ Fault
    BY <1>2 DEF Unstart, Break
  <2>3. tool' \in Running /\ tool' # Idle /\ Same /\ tool'.step = "setAside"
    BY <1>1, <1>2, StepEffect, BreakEffect, "setAside" \in Tools[tool.kind] DEF Unstart
  <2>4. ChangeShape'
    BY <1>1, <2>1, <2>3 DEF ChangeShape, Same, disk, listing
  <2>5. QED BY <1>1, <2>1, <2>2, <2>3, <2>4, TypedOn DEF Same, disk, listing, TypeOK
<1>3. CASE SetAside
  <2>1. UNCHANGED <<left, archives, entry, tomb, unit>> /\ tool.step = "setAside" /\ ~active
        /\ dir # None /\ aside = None
    BY <1>1, <1>3 DEF SetAside, At, ChangeShape
  <2>2. CASE dir' = None /\ aside' = dir /\ Step("extract") /\ Calm /\ UNCHANGED legacy /\ Still
    <3>1. tool' \in Running /\ tool' # Idle /\ Same /\ tool'.step = "extract"
      BY <1>1, <2>2, StepEffect, "extract" \in Tools[tool.kind]
    <3>2. ChangeShape'
      BY <1>1, <2>1, <2>2, <3>1 DEF ChangeShape, Same, unit
    <3>3. QED BY <1>1, <2>1, <2>2, <3>1, <3>2, TypedOn DEF Same, unit, TypeOK, Contents
  <2>3. CASE Dies /\ UNCHANGED <<dir, aside>>
    BY <1>1, <2>1, <2>3, FailsOK, TypedEnd DEF unit, TypeOK, Dies
  <2>4. QED BY <1>3, <2>2, <2>3 DEF SetAside
<1>4. CASE Extract
  <2>1. UNCHANGED <<archives, entry, tomb, unit>> /\ tool.step = "extract" /\ ~active /\ aside # None
        /\ tool.backup # None /\ tool.backup \in Content /\ aside \in Content
    BY <1>1, <1>4 DEF Extract, At, ChangeShape, TypeOK, Contents, Fields
  <2>2. CASE dir' = tool.backup /\ Step("own") /\ Calm /\ UNCHANGED <<aside, left, legacy>> /\ Still
    <3>1. tool' \in Running /\ tool' # Idle /\ Same /\ tool'.step = "own"
      BY <1>1, <2>2, StepEffect, "own" \in Tools[tool.kind]
    <3>2. ChangeShape'
      BY <1>1, <2>1, <2>2, <3>1 DEF ChangeShape, Same, unit
    <3>3. QED BY <1>1, <2>1, <2>2, <3>1, <3>2, TypedOn DEF Same, unit, TypeOK, Contents
  <2>3. CASE Dies /\ dir' = aside /\ aside' = None /\ UNCHANGED left
    BY <1>1, <2>1, <2>3, FailsOK, TypedEnd DEF unit, TypeOK, Dies
  <2>4. CASE Dies /\ dir' = [tool.backup EXCEPT !.whole = FALSE] /\ LeaveAside
    <3>1. dir' \in Content
      BY <2>1, <2>4 DEF Content
    <3>2. aside' = None /\ left' \subseteq Content
      BY <1>1, <2>4, LeftType
    <3>3. QED BY <1>1, <2>1, <2>4, <3>1, <3>2, FailsOK, TypedEnd, NoneApart DEF unit, TypeOK, Dies, Contents
  <2>5. QED BY <1>4, <2>2, <2>3, <2>4 DEF Extract
<1>5. CASE Own
  <2>1. UNCHANGED <<dir, archives, entry, tomb, unit>> /\ tool.step = "own" /\ ~active
    BY <1>1, <1>5 DEF Own, At, ChangeShape
  <2>2. CASE Step("clear") /\ Calm /\ UNCHANGED <<aside, left, legacy>> /\ Still
    <3>1. tool' \in Running /\ tool' # Idle /\ Same /\ tool'.step = "clear"
      BY <1>1, <2>2, StepEffect, "clear" \in Tools[tool.kind]
    <3>2. ChangeShape'
      BY <1>1, <2>1, <2>2, <3>1 DEF ChangeShape, Same, unit
    <3>3. QED BY <1>1, <2>1, <2>2, <3>1, <3>2, TypedOn DEF Same, unit, TypeOK
  <2>3. CASE Dies /\ LeaveAside
    <3>1. aside' = None /\ left' \subseteq Content
      BY <1>1, <2>3, LeftType
    <3>2. QED BY <1>1, <2>1, <2>3, <3>1, FailsOK, TypedEnd DEF unit, TypeOK, Dies
  <2>4. QED BY <1>5, <2>2, <2>3 DEF Own
<1>6. CASE ClearChange
  <2>1. UNCHANGED <<dir, archives, entry, tomb, unit>> /\ tool.step = "clear" /\ ~active /\ aside # None
        /\ aside \in Content /\ aside' = None
    BY <1>1, <1>6 DEF ClearChange, At, ChangeShape, TypeOK, Contents
  <2>2. CASE Step("unrecord") /\ Calm /\ UNCHANGED <<left, legacy>> /\ Still
    <3>1. tool' \in Running /\ tool' # Idle /\ Same /\ tool'.step = "unrecord"
      BY <1>1, <2>2, StepEffect, "unrecord" \in Tools[tool.kind]
    <3>2. ChangeShape'
      BY <1>1, <2>1, <2>2, <3>1 DEF ChangeShape, Same, unit
    <3>3. QED BY <1>1, <2>1, <2>2, <3>1, <3>2, TypedOn DEF Same, unit, TypeOK, Contents
  <2>3. CASE Dies /\ left' = left \cup {[aside EXCEPT !.whole = FALSE]}
    <3>1. [aside EXCEPT !.whole = FALSE] \in Content
      BY <2>1 DEF Content
    <3>2. left' \subseteq Content
      BY <1>1, <2>3, <3>1 DEF TypeOK
    <3>3. QED BY <1>1, <2>1, <2>3, <3>2, FailsOK, TypedEnd DEF unit, TypeOK, Dies
  <2>4. QED BY <1>6, <2>2, <2>3 DEF ClearChange
<1>7. CASE Unrecord
  <2>1. UNCHANGED <<disk, unit, tomb>> /\ tool.step = "unrecord" /\ ~active /\ aside = None
    BY <1>1, <1>7 DEF Unrecord, At, ChangeShape
  <2>2. entry' \in Versions /\ entry' # None
    <3>1. tool.old \in Versions /\ entry \in Versions /\ None \notin Versions
      BY <1>1, ToolsAssumption DEF ChangeShape, Typed, Shape, TypeOK
    <3>2. QED BY <1>7, <3>1 DEF Unrecord
  <2>3. CASE entry' = tool.old /\ Step("restart") /\ Calm /\ UNCHANGED legacy /\ Still
    <3>1. tool' \in Running /\ tool' # Idle /\ Same /\ tool'.step = "restart"
      BY <1>1, <2>3, StepEffect, "restart" \in Tools[tool.kind]
    <3>2. ChangeShape'
      BY <1>1, <2>1, <2>2, <2>3, <3>1 DEF ChangeShape, Same, disk, unit
    <3>3. QED BY <1>1, <2>1, <2>2, <2>3, <3>1, <3>2, TypedOn DEF Same, disk, unit, TypeOK
  <2>4. CASE Dies
    BY <1>1, <2>1, <2>2, <2>4, FailsOK, TypedEnd DEF disk, unit, TypeOK, Dies
  <2>5. QED BY <1>7, <2>3, <2>4 DEF Unrecord
<1>8. CASE Restart
  <2>1. /\ UNCHANGED <<disk, entry, tomb, enabled>> /\ aside = None /\ dir # None /\ (Calm \/ Fault)
        /\ Fails \/ Dies
    BY <1>1, <1>8 DEF Restart, At, ChangeShape, Dies
  <2>2. active' \in BOOLEAN
    BY <1>1, <1>8 DEF Restart, TypeOK, Fields
  <2>3. QED BY <1>1, <2>1, <2>2, FailsOK, TypedEnd DEF disk, TypeOK
<1>9. QED BY <1>2, <1>3, <1>4, <1>5, <1>6, <1>7, <1>8

-----------------------------------------------------------------------------
(* A deletion.                                                             *)

LEMMA DeleteTyped ==
  ASSUME Typed, tool.kind = "delete", Stop \/ Archive \/ Resume \/ Disable \/ Move \/ RecordDelete \/ ClearDelete \/ PutBack \/ Reenable
  PROVE  Typed'
<1>1. /\ TypeOK /\ tool # Idle /\ DeleteShape /\ tool \in Running /\ tool \in Fields
      /\ Tools["delete"] = {"stop", "archive", "disable", "move", "record", "clear", "putBack", "reenable", "resume"}
      /\ active => dir # None
  BY IdleApart, ToolCases DEF Typed, Shape, Tools
<1>2. CASE Stop
  <2>1. /\ UNCHANGED <<disk, listing, enabled>> /\ Still /\ tool.step = "stop" /\ (Calm \/ Fault)
        /\ aside = None /\ Listed # None /\ Loadable /\ tool.old = entry
        /\ active' \in {active, FALSE} /\ active' \in BOOLEAN
    BY <1>1, <1>2 DEF Stop, DeleteShape, TypeOK
  <2>2. PICK step \in {"archive", "disable", "reenable"} :
          /\ tool' = [tool EXCEPT !.wasActive = active, !.step = step]
          /\ step # "reenable" => ~active'
          /\ step = "archive" => dir # None
    BY <1>1, <1>2, <2>1 DEF Stop
  <2>3. /\ tool' \in Running /\ tool' # Idle /\ tool'.kind = tool.kind
        /\ tool'.old = tool.old /\ tool'.step = step /\ tool'.wasActive = active
        /\ tool'.broken = tool.broken
    BY <1>1, <2>2, StopEffect, step \in Tools[tool.kind]
  <2>4. DeleteShape'
    BY <1>1, <2>1, <2>2, <2>3 DEF DeleteShape, disk, listing, Listed, Loadable
  <2>5. QED BY <1>1, <2>1, <2>3, <2>4, TypedOn DEF disk, listing, TypeOK
<1>3. CASE Archive
  <2>1. /\ UNCHANGED <<dir, aside, left, listing, unit>> /\ Still /\ tool.step = "archive" /\ (Calm \/ Fault)
        /\ dir # None /\ aside = None /\ ~active /\ Listed # None /\ Loadable /\ tool.old = entry
    BY <1>1, <1>3 DEF Archive, DeleteShape, Raise
  <2>2. archives' \subseteq Content
    BY <1>1, <1>3, <2>1 DEF Archive, TypeOK, Contents
  <2>3. CASE tool' = [tool EXCEPT !.backup = dir, !.step = "disable"]
    <3>1. /\ tool' \in Running /\ tool' # Idle /\ tool'.kind = tool.kind
          /\ tool'.old = tool.old /\ tool'.step = "disable" /\ tool'.wasActive = tool.wasActive
          /\ tool'.broken = tool.broken
      BY <1>1, <2>3, ArchiveEffect, "disable" \in Tools[tool.kind]
    <3>2. DeleteShape'
      BY <1>1, <2>1, <3>1 DEF DeleteShape, listing, unit, Listed, Loadable
    <3>3. QED BY <1>1, <2>1, <2>2, <3>1, <3>2, TypedOn DEF listing, unit, TypeOK
  <2>4. CASE Step("reenable")
    <3>1. tool' \in Running /\ tool' # Idle /\ Same /\ tool'.broken = tool.broken /\ tool'.step = "reenable"
      BY <1>1, <2>4, StepEffect, "reenable" \in Tools[tool.kind]
    <3>2. DeleteShape'
      BY <1>1, <2>1, <3>1 DEF DeleteShape, Same, listing, unit, Listed, Loadable
    <3>3. QED BY <1>1, <2>1, <2>2, <3>1, <3>2, TypedOn DEF Same, listing, unit, TypeOK
  <2>5. QED BY <1>1, <1>3, <2>3, <2>4 DEF Archive, Raise
<1>4. CASE Resume
  <2>1. /\ UNCHANGED <<disk, entry, tomb, enabled>> /\ aside = None /\ (Calm \/ Fault)
        /\ Fails \/ Dies
    BY <1>1, <1>4 DEF Resume, DeleteShape, Dies
  <2>2. active' \in BOOLEAN /\ (active' => dir' # None)
    BY <1>1, <1>4 DEF Resume, TypeOK, Fields, disk
  <2>3. QED BY <1>1, <2>1, <2>2, FailsOK, TypedEnd DEF disk, TypeOK
<1>5. CASE Disable
  <2>1. /\ UNCHANGED <<disk, listing, active>> /\ Still /\ tool.step = "disable" /\ (Calm \/ Fault)
        /\ aside = None /\ ~active /\ Listed # None /\ Loadable /\ tool.old = entry /\ enabled' \in BOOLEAN
    BY <1>1, <1>5 DEF Disable, At, DeleteShape, Raise, TypeOK
  <2>2. PICK step \in {"record", "move", "reenable"} :
          Step(step) /\ (step = "move" => dir # None) /\ (step = "record" => dir = None)
    BY <1>5 DEF Disable, Raise
  <2>3. tool' \in Running /\ tool' # Idle /\ Same /\ tool'.broken = tool.broken /\ tool'.step = step
    BY <1>1, <2>2, StepEffect, step \in Tools[tool.kind]
  <2>4. DeleteShape'
    BY <1>1, <2>1, <2>2, <2>3 DEF DeleteShape, Same, disk, listing, Listed, Loadable
  <2>5. QED BY <1>1, <2>1, <2>3, <2>4, TypedOn DEF Same, disk, listing, TypeOK
<1>6. CASE Move
  <2>1. /\ UNCHANGED <<left, archives, listing, unit>> /\ Still /\ tool.step = "move" /\ (Calm \/ Fault)
        /\ dir # None /\ aside = None /\ ~active /\ Listed # None /\ Loadable /\ tool.old = entry
    BY <1>1, <1>6 DEF Move, At, DeleteShape, Raise
  <2>2. CASE dir' = None /\ aside' = dir /\ Step("record")
    <3>1. tool' \in Running /\ tool' # Idle /\ Same /\ tool'.broken = tool.broken /\ tool'.step = "record"
      BY <1>1, <2>2, StepEffect, "record" \in Tools[tool.kind]
    <3>2. DeleteShape'
      BY <1>1, <2>1, <2>2, <3>1 DEF DeleteShape, Same, listing, unit, Listed, Loadable
    <3>3. QED BY <1>1, <2>1, <2>2, <3>1, <3>2, TypedOn DEF Same, listing, unit, TypeOK, Contents
  <2>3. CASE UNCHANGED <<dir, aside>> /\ Step("reenable")
    <3>1. tool' \in Running /\ tool' # Idle /\ Same /\ tool'.broken = tool.broken /\ tool'.step = "reenable"
      BY <1>1, <2>3, StepEffect, "reenable" \in Tools[tool.kind]
    <3>2. DeleteShape'
      BY <1>1, <2>1, <2>3, <3>1 DEF DeleteShape, Same, listing, unit, Listed, Loadable
    <3>3. QED BY <1>1, <2>1, <2>3, <3>1, <3>2, TypedOn DEF Same, listing, unit, TypeOK
  <2>4. QED BY <1>6, <2>2, <2>3 DEF Move, Raise
<1>7. CASE RecordDelete
  <2>1. /\ UNCHANGED <<disk, unit>> /\ tool.step = "record" /\ (Calm \/ Fault)
        /\ dir = None /\ ~active /\ Listed # None /\ Loadable /\ tool.old = entry
        /\ entry' \in Versions \cup {None} /\ tomb' \in BOOLEAN
    BY <1>1, <1>7 DEF RecordDelete, At, DeleteShape, Raise, Break, TypeOK, listing
  <2>2. CASE entry' = None /\ tomb' = (tomb \/ tool.old = None) /\ Ends("ok") /\ UNCHANGED stake /\ aside = None
    BY <1>1, <2>1, <2>2, EndsOK, TypedEnd DEF disk, unit, TypeOK
  <2>3. CASE entry' = None /\ tomb' = (tomb \/ tool.old = None) /\ Step("clear") /\ UNCHANGED legacy /\ Still /\ aside # None
    <3>1. tool' \in Running /\ tool' # Idle /\ Same /\ tool'.broken = tool.broken /\ tool'.step = "clear"
      BY <1>1, <2>3, StepEffect, "clear" \in Tools[tool.kind]
    <3>2. Listed' = None
      BY <2>1, <2>3 DEF Listed, Loadable
    <3>3. DeleteShape'
      BY <1>1, <2>1, <2>3, <3>1, <3>2 DEF DeleteShape, Same, disk, unit
    <3>4. QED BY <1>1, <2>1, <2>3, <3>1, <3>3, TypedOn DEF Same, disk, unit, TypeOK
  <2>4. CASE UNCHANGED listing /\ Still /\ \E step \in {"reenable", "putBack"} :
               Step(step) /\ (step = "reenable" <=> aside = None)
    <3>1. PICK step \in {"reenable", "putBack"} : Step(step) /\ (step = "reenable" <=> aside = None)
      BY <2>4
    <3>2. tool' \in Running /\ tool' # Idle /\ Same /\ tool'.broken = tool.broken /\ tool'.step = step
      BY <1>1, <3>1, StepEffect, step \in Tools[tool.kind]
    <3>3. DeleteShape'
      BY <1>1, <2>1, <2>4, <3>1, <3>2 DEF DeleteShape, Same, disk, unit, listing, Listed, Loadable
    <3>4. QED BY <1>1, <2>1, <2>4, <3>2, <3>3, TypedOn DEF Same, disk, unit, listing, TypeOK
  <2>5. CASE Break(Undelete) /\ UNCHANGED legacy /\ Still
    <3>1. PICK step \in {"reenable", "putBack"} : step = Undelete /\ (step = "reenable" <=> aside = None)
      BY DEF Undelete
    <3>2. tool' \in Running /\ tool' # Idle /\ Same /\ tool'.broken = TRUE /\ tool'.step = step
      BY <1>1, <2>5, <3>1, BreakEffect, step \in Tools[tool.kind]
    <3>3. DeleteShape'
      BY <1>1, <2>1, <3>1, <3>2 DEF DeleteShape, Same, disk, unit
    <3>4. QED BY <1>1, <2>1, <2>5, <3>2, <3>3, TypedOn DEF Same, disk, unit, TypeOK
  <2>6. CASE Raise(Undelete) /\ UNCHANGED listing /\ Still
    BY <2>4, <2>6 DEF Raise, Undelete
  <2>7. QED BY <1>7, <2>2, <2>3, <2>5, <2>6 DEF RecordDelete
<1>8. CASE ClearDelete
  <2>1. /\ UNCHANGED <<dir, archives, entry, tomb, unit, stake>> /\ tool.step = "clear" /\ (Calm \/ Fault)
        /\ aside' = None /\ aside \in Content /\ ~active /\ Ends("ok")
    BY <1>1, <1>8 DEF ClearDelete, At, DeleteShape, TypeOK, Contents
  <2>2. left' \subseteq Content
    <3>1. [aside EXCEPT !.whole = FALSE] \in Content
      BY <2>1 DEF Content
    <3>2. QED BY <1>1, <1>8, <3>1 DEF ClearDelete, TypeOK
  <2>3. QED BY <1>1, <2>1, <2>2, EndsOK, TypedEnd DEF unit, TypeOK
<1>9. CASE PutBack
  <2>1. /\ UNCHANGED <<archives, entry, tomb, unit>> /\ tool.step = "putBack"
        /\ dir = None /\ aside # None /\ ~active
        /\ ~tool.broken => Listed # None /\ Loadable /\ tool.old = entry
    BY <1>1, <1>9 DEF PutBack, At, DeleteShape
  <2>2. CASE dir' = aside /\ aside' = None /\ Step("reenable") /\ Calm /\ UNCHANGED <<left, legacy>> /\ Still
    <3>1. tool' \in Running /\ tool' # Idle /\ Same /\ tool'.broken = tool.broken /\ tool'.step = "reenable"
      BY <1>1, <2>2, StepEffect, "reenable" \in Tools[tool.kind]
    <3>2. DeleteShape'
      BY <1>1, <2>1, <2>2, <3>1 DEF DeleteShape, Same, unit, Listed, Loadable
    <3>3. QED BY <1>1, <2>1, <2>2, <3>1, <3>2, TypedOn DEF Same, unit, TypeOK, Contents
  <2>3. CASE Dies /\ UNCHANGED dir /\ LeaveAside
    <3>1. aside' = None /\ left' \subseteq Content
      BY <1>1, <2>3, LeftType
    <3>2. QED BY <1>1, <2>1, <2>3, <3>1, FailsOK, TypedEnd DEF unit, TypeOK, Dies
  <2>4. QED BY <1>9, <2>2, <2>3 DEF PutBack
<1>10. CASE Reenable
  <2>1. UNCHANGED <<disk, listing, active>> /\ Still /\ tool.step = "reenable" /\ aside = None
        /\ (~tool.broken => Listed # None /\ Loadable /\ tool.old = entry) /\ enabled' \in BOOLEAN
    BY <1>1, <1>10 DEF Reenable, At, DeleteShape, TypeOK
  <2>2. Calm \/ Fault
    BY <1>10 DEF Reenable, Break
  <2>3. /\ tool' \in Running /\ tool' # Idle /\ Same /\ tool'.step = "resume"
        /\ tool'.broken = tool.broken \/ tool'.broken = TRUE
    BY <1>1, <1>10, StepEffect, BreakEffect, "resume" \in Tools[tool.kind] DEF Reenable
  <2>4. DeleteShape'
    BY <1>1, <2>1, <2>3 DEF DeleteShape, Same, disk, listing, Listed, Loadable
  <2>5. QED BY <1>1, <2>1, <2>2, <2>3, <2>4, TypedOn DEF Same, disk, listing, TypeOK
<1>11. QED BY <1>2, <1>3, <1>4, <1>5, <1>6, <1>7, <1>8, <1>9, <1>10

-----------------------------------------------------------------------------
(* What else happens, and the type invariant.                              *)

LEMMA ActualType == ASSUME TypeOK PROVE Actual \in Softwares \cup {Free, Stale, Damaged}
<1>1. Listed = None \/ Listed \in Softwares
  BY ListedType
<1>2. Actual \in {Free, Stale, Damaged} \/ (Listed # None /\ Actual = Listed)
  BY DEF Actual
<1>3. QED BY <1>1, <1>2

LEMMA BeginEffect ==
  ASSUME TypeOK, NEW kind \in Kinds, NEW step \in Tools[kind], NEW software \in Versions \cup {None},
         Begin(kind, step, software)
  PROVE  /\ tool' \in Running /\ tool' # Idle
         /\ tool'.kind = kind /\ tool'.step = step /\ tool'.software = software /\ tool'.backup = None
         /\ tool'.wasActive = FALSE /\ tool'.old = entry /\ tool'.before = Actual /\ tool'.broken = FALSE
<1>1. /\ Actual \in Softwares \cup {Free, Stale, Damaged} /\ entry \in Softwares \cup {None}
      /\ software \in Softwares \cup {None} /\ None \in Contents /\ FALSE \in BOOLEAN
  BY ActualType DEF TypeOK, Softwares, Contents
<1>2. step \in Steps
  BY DEF Steps
<1>3. tool' = [kind |-> kind, step |-> step, software |-> software, backup |-> None,
               wasActive |-> FALSE, old |-> entry, before |-> Actual, broken |-> FALSE]
  BY DEF Begin
<1>4. tool' \in Fields
  BY <1>1, <1>2, <1>3 DEF Fields
<1>5. /\ tool'.kind = kind /\ tool'.step = step /\ tool'.software = software /\ tool'.backup = None
      /\ tool'.wasActive = FALSE /\ tool'.old = entry /\ tool'.before = Actual /\ tool'.broken = FALSE
  BY <1>3
<1>6. tool' \in Running
  BY <1>4, <1>5, RunningFields
<1>7. QED BY <1>5, <1>6, IdleApart

(* The parts of Typed when a tool begins.                                  *)
LEMMA TypedBegin ==
  ASSUME Typed, NEW kind \in Kinds, NEW step \in Tools[kind], NEW software \in Versions \cup {None},
         Begin(kind, step, software),
         kind = "install" => InstallShape', kind = "change" => ChangeShape', kind = "delete" => DeleteShape'
  PROVE  Typed'
<1>1. /\ TypeOK /\ tool = Idle /\ aside = None /\ (active => dir # None)
      /\ UNCHANGED <<disk, listing, unit, ends, history, faults>>
      /\ requests > 0 /\ requests' = requests - 1
  BY DEF Typed, Shape, Begin
<1>2. /\ tool' \in Running /\ tool' # Idle /\ tool'.kind = kind /\ tool'.old = entry
  BY <1>1, BeginEffect
<1>3. requests' \in 0 .. Requests
  BY <1>1, ToolsAssumption DEF TypeOK
<1>4. TypeOK'
  BY <1>1, <1>2, <1>3 DEF TypeOK, disk, listing, unit, ends, history
<1>5. Shape'
  BY <1>1, <1>2 DEF Shape, disk, unit, TypeOK
<1>6. QED BY <1>4, <1>5 DEF Typed

LEMMA BeginsTyped ==
  ASSUME Typed, (\E v \in Versions : InstallBegins(v) \/ ChangeBegins(v)) \/ DeleteBegins
  PROVE  Typed'
<1>1. TypeOK /\ (active => dir # None) /\ (tool = Idle => aside = None)
  BY DEF Typed, Shape
<1>2. ASSUME NEW v \in Versions, InstallBegins(v)
      PROVE  Typed'
  <2>1. Listed = None /\ dir = None /\ lives < MaxLives /\ Begin("install", "stage", v)
    BY <1>2 DEF InstallBegins
  <2>2. UNCHANGED <<disk, listing, unit, history>> /\ tool = Idle
    BY <2>1 DEF Begin
  <2>3. "install" \in Kinds /\ "stage" \in Tools["install"] /\ v \in Versions \cup {None}
    BY DEF Kinds, Tools
  <2>4. tool'.step = "stage" /\ tool'.software = v /\ tool'.wasActive = FALSE /\ tool'.kind = "install"
        /\ tool'.broken = FALSE
    BY <1>1, <2>1, <2>3, BeginEffect
  <2>5. InstallShape'
    BY <1>1, <2>1, <2>2, <2>4 DEF InstallShape, disk, listing, unit, history, Listed
  <2>6. QED BY <2>1, <2>3, <2>5, TypedBegin
<1>3. ASSUME NEW v \in Versions, ChangeBegins(v)
      PROVE  Typed'
  <2>1. entry # None /\ dir # None /\ Begin("change", "stage", v)
    BY <1>3 DEF ChangeBegins
  <2>2. UNCHANGED <<disk, listing, unit, history>> /\ tool = Idle
    BY <2>1 DEF Begin
  <2>3. "change" \in Kinds /\ "stage" \in Tools["change"] /\ v \in Versions \cup {None}
    BY DEF Kinds, Tools
  <2>4. tool'.step = "stage" /\ tool'.software = v /\ tool'.wasActive = FALSE /\ tool'.old = entry
    BY <1>1, <2>1, <2>3, BeginEffect
  <2>5. ChangeShape'
    BY <1>1, <2>1, <2>2, <2>4 DEF ChangeShape, disk, listing, unit, history
  <2>6. QED BY <2>1, <2>3, <2>5, TypedBegin
<1>4. CASE DeleteBegins
  <2>1. Listed # None /\ Begin("delete", "stop", None)
    BY <1>4 DEF DeleteBegins
  <2>2. UNCHANGED <<disk, listing, unit, history>> /\ tool = Idle /\ Loadable
    BY <2>1 DEF Begin
  <2>3. "delete" \in Kinds /\ "stop" \in Tools["delete"] /\ None \in Versions \cup {None}
    BY DEF Kinds, Tools
  <2>4. tool'.step = "stop" /\ tool'.wasActive = FALSE /\ tool'.old = entry /\ tool'.broken = FALSE
    BY <1>1, <2>1, <2>3, BeginEffect
  <2>5. DeleteShape'
    BY <1>1, <2>1, <2>2, <2>4 DEF DeleteShape, disk, listing, unit, history, Listed, Loadable
  <2>6. QED BY <2>1, <2>3, <2>5, TypedBegin
<1>5. QED BY <1>2, <1>3, <1>4

LEMMA PlayEffect ==
  ASSUME TypeOK, Play
  PROVE  /\ dir \in Content /\ dir' \in Content /\ dir' # None
         /\ dir'.life = dir.life /\ dir'.whole = dir.whole /\ dir'.software = dir.software
         /\ dir'.world = dir.world + 1
<1>1. dir \in Content /\ dir' = [dir EXCEPT !.world = @ + 1] /\ dir.world < MaxWorld
  BY DEF Play, TypeOK, Contents
<1>2. dir.world + 1 \in 0 .. MaxWorld
  BY <1>1, ToolsAssumption DEF Content
<1>3. dir' \in Content
  BY <1>1, <1>2 DEF Content
<1>4. QED BY <1>1, <1>3, NoneApart DEF Content

(* Where the server runs, a tool is at one of these steps.                 *)
LEMMA OthersTyped ==
  ASSUME Typed, ManagedAction \/ ServerExits \/ Play
  PROVE  Typed'
<1>1. TypeOK /\ Shape /\ ToolsAssumption
  BY ToolsAssumption DEF Typed
<1>2. CASE ManagedAction
  <2>1. /\ tool = Idle /\ dir # None /\ active' \in BOOLEAN
        /\ UNCHANGED <<disk, listing, enabled, tool, ends, history, budget>>
    BY <1>2 DEF ManagedAction
  <2>2. TypeOK'
    BY <1>1, <2>1 DEF TypeOK, disk, listing, ends, history, budget
  <2>3. Shape'
    BY <1>1, <2>1, IdleApart DEF Shape, disk
  <2>4. QED BY <2>2, <2>3 DEF Typed
<1>3. CASE ServerExits
  <2>1. active' = FALSE /\ UNCHANGED <<disk, listing, enabled, tool, ends, history, budget>>
    BY <1>3 DEF ServerExits
  <2>2. TypeOK'
    BY <1>1, <2>1 DEF TypeOK, disk, listing, ends, history, budget
  <2>3. Shape'
    BY <1>1, <2>1 DEF Shape, InstallShape, ChangeShape, DeleteShape, disk, listing, history, Listed, Loadable
  <2>4. QED BY <2>2, <2>3 DEF Typed
<1>4. CASE Play
  <2>1. /\ active /\ dir # None /\ stake' \in {stake, AtStake(dir')}
        /\ UNCHANGED <<aside, left, archives, listing, unit, tool, ends, lives, budget>>
    BY <1>4 DEF Play
  <2>2. dir' \in Content /\ dir' # None
    BY <1>1, <1>4, PlayEffect
  <2>3. stake' \in [Lives -> (0 .. MaxWorld) \cup {None}]
    BY <1>1, <2>1, <2>2 DEF TypeOK, AtStake, Content
  <2>4. TypeOK'
    BY <1>1, <2>1, <2>2, <2>3 DEF TypeOK, Contents, listing, unit, ends, budget
  <2>5. Shape'
    BY <1>1, <2>1, <2>2 DEF Shape, InstallShape, ChangeShape, DeleteShape, listing, unit, Listed, Loadable
  <2>6. QED BY <2>4, <2>5 DEF Typed
<1>5. QED BY <1>2, <1>3, <1>4

LEMMA KilledTyped ==
  ASSUME Typed, NEW crash \in BOOLEAN, Killed(crash)
  PROVE  Typed'
<1>1. /\ TypeOK /\ (active => dir # None) /\ tool' = Idle /\ Fault
      /\ UNCHANGED <<dir, archives, listing, enabled, history>>
  BY DEF Typed, Shape, Killed
<1>2. aside' = None /\ left' \subseteq Content
  BY <1>1, LeftType DEF Killed
<1>3. active' \in BOOLEAN /\ (active' => dir # None)
  <2>1. CASE crash
    <3>1. active' = (enabled /\ dir # None)
      BY <2>1 DEF Killed
    <3>2. QED BY <3>1
  <2>2. CASE ~crash
    <3>1. active' = active
      BY <2>2 DEF Killed
    <3>2. QED BY <1>1, <3>1 DEF TypeOK
  <2>3. QED BY <2>1, <2>2
<1>4. outcome' \in {"ok", "failed", "broken"} /\ damaged' \in BOOLEAN
  BY <1>1 DEF Killed, TypeOK, ends
<1>5. requests' \in 0 .. Requests /\ faults' \in 0 .. Faults
  BY <1>1, BudgetOK
<1>6. TypeOK'
  BY <1>1, <1>2, <1>3, <1>4, <1>5 DEF TypeOK, Contents, listing, history
<1>7. Shape'
  BY <1>1, <1>2, <1>3, IdleApart DEF Shape
<1>8. QED BY <1>6, <1>7 DEF Typed

LEMMA ToolTyped == ASSUME Typed, ToolStep PROVE Typed'
<1>1. tool.kind \in Kinds
  <2>1. TypeOK
    BY DEF Typed
  <2>2. tool # Idle
    BY IdleApart DEF ToolStep, Stage, Stop, Archive, Resume, Place, Enable, RecordInstall, Discard, Copy,
          RecordChange, Start, Check, Unstart, SetAside, Extract, Own, ClearChange, Unrecord, Restart,
          Disable, Move, RecordDelete, ClearDelete, PutBack, Reenable, At
  <2>3. QED BY <2>1, <2>2, ToolCases
<1>2. CASE tool.kind = "install"
  <2>1. Stage \/ Place \/ Enable \/ RecordInstall \/ Discard
    BY <1>2 DEF ToolStep, Stop, Archive, Resume, Copy,
          RecordChange, Start, Check, Unstart, SetAside, Extract, Own, ClearChange, Unrecord, Restart,
          Disable, Move, RecordDelete, ClearDelete, PutBack, Reenable, At
  <2>2. QED BY <1>2, <2>1, InstallTyped
<1>3. CASE tool.kind = "change"
  <2>1. \/ Stage \/ Stop \/ Archive \/ Resume \/ Copy \/ RecordChange \/ Start \/ Check
        \/ Unstart \/ SetAside \/ Extract \/ Own \/ ClearChange \/ Unrecord \/ Restart
    BY <1>3 DEF ToolStep, Place, Enable, RecordInstall, Discard,
          Disable, Move, RecordDelete, ClearDelete, PutBack, Reenable, At
  <2>2. QED BY <1>3, <2>1, ChangeTyped, RollbackTyped
<1>4. CASE tool.kind = "delete"
  <2>1. \/ Stop \/ Archive \/ Resume \/ Disable \/ Move \/ RecordDelete \/ ClearDelete \/ PutBack
        \/ Reenable
    BY <1>4 DEF ToolStep, Stage, Place, Enable, RecordInstall, Discard, Copy,
          RecordChange, Start, Check, Unstart, SetAside, Extract, Own, ClearChange, Unrecord, Restart, At
  <2>2. QED BY <1>4, <2>1, DeleteTyped
<1>5. QED BY <1>1, <1>2, <1>3, <1>4 DEF Kinds

LEMMA InitTyped == ASSUME Init PROVE Typed
<1>1. /\ aside = None /\ left = {} /\ archives = {} /\ tool = Idle /\ outcome = "ok" /\ damaged = FALSE
      /\ legacy \in BOOLEAN /\ tomb = FALSE /\ entry \in Versions \cup {None}
      /\ requests = Requests /\ faults = Faults
      /\ lives = (IF dir = None THEN 0 ELSE 1)
      /\ stake = [l \in Lives |-> IF dir # None /\ l = 1 THEN 0 ELSE None]
  BY DEF Init
<1>2. dir \in Contents
  <2>1. CASE Listed = None
    BY <2>1 DEF Init, Contents
  <2>2. CASE Listed # None
    <3>1. Listed \in Softwares
      BY <1>1, <2>2 DEF Listed, Softwares
    <3>2. 1 \in Lives /\ 0 \in 0 .. MaxWorld
      BY ToolsAssumption DEF Lives
    <3>3. [life |-> 1, world |-> 0, whole |-> TRUE, software |-> Listed] \in Content
      BY <3>1, <3>2 DEF Content
    <3>4. QED BY <2>2, <3>3 DEF Init, Contents
  <2>3. QED BY <2>1, <2>2
<1>3. active \in BOOLEAN /\ (active => dir # None) /\ enabled \in BOOLEAN
  BY DEF Init
<1>4. lives \in 0 .. MaxLives /\ requests \in 0 .. Requests /\ faults \in 0 .. Faults /\ 0 \in 0 .. MaxWorld
  BY <1>1, ToolsAssumption
<1>5. stake \in [Lives -> (0 .. MaxWorld) \cup {None}]
  BY <1>1, <1>4
<1>6. TypeOK
  BY <1>1, <1>2, <1>3, <1>4, <1>5 DEF TypeOK, Contents
<1>7. Shape
  BY <1>1, <1>3, IdleApart DEF Shape
<1>8. QED BY <1>6, <1>7 DEF Typed

LEMMA NextTyped == ASSUME Typed, [Next]_vars PROVE Typed'
<1>1. CASE Next
  BY <1>1, BeginsTyped, ToolTyped, OthersTyped, KilledTyped DEF Next
<1>2. CASE UNCHANGED vars
  BY <1>2 DEF vars, Typed, TypeOK, Shape, InstallShape, ChangeShape, DeleteShape, disk, listing, unit, ends,
              history, budget, Listed, Loadable
<1>3. QED BY <1>1, <1>2

(* The disk, the registry, the unit and the tool have their types, and each step of a     *)
(* tool finds what the step before left it, after failures, kills and crashes too         *)
(* (server_installer.py).                                                                  *)
THEOREM TypeCorrect == Spec => []TypeOK
<1>1. Init => Typed
  BY InitTyped
<1>2. Typed /\ [Next]_vars => Typed'
  BY NextTyped
<1>3. Typed => TypeOK
  BY DEF Typed
<1>4. QED BY <1>1, <1>2, <1>3, PTL DEF Spec

-----------------------------------------------------------------------------
(* Nothing that players built is lost.                                     *)

Placed   == {"enable", "record", "discard"}
Trial    == {"copy", "record", "start", "check", "unstart", "setAside"}
Restored == {"own", "clear"}

(* c is not behind what must not be lost of its installation.              *)
Fresh(c) ==
  c # None => /\ c.life <= lives
              /\ c.whole => stake[c.life] = None \/ c.world >= stake[c.life]

(* An installation has nothing to lose until it is recorded.               *)
InstallStake == tool.step \in Placed => stake[dir.life] = None

(* The archive has the world that the change began with, and that is what  *)
(* is at stake until the change has passed its check.                      *)
ChangeStake ==
  /\ tool.step \in Trial \cup {"extract"} \cup Restored => Fresh(tool.backup)
  /\ tool.step \in Trial => dir.life = tool.backup.life /\ dir.whole = tool.backup.whole
  /\ tool.step \in {"extract"} \cup Restored => aside.life = tool.backup.life /\ aside.whole = tool.backup.whole
  /\ tool.step \in Restored => dir = tool.backup

(* What a deletion removes is in an archive.                               *)
DeleteStake ==
  /\ tool.step \in {"disable", "move"} => dir = None \/ dir \in archives
  /\ tool.step \in {"record", "clear"} => aside = None \/ aside \in archives

Kept ==
  /\ NoLoss
  /\ \A l \in Lives : l > lives => stake[l] = None
  /\ Fresh(dir) /\ Fresh(aside)

Guarded ==
  /\ Kept
  /\ tool.kind = "install" => InstallStake
  /\ tool.kind = "change" => ChangeStake
  /\ tool.kind = "delete" => DeleteStake

LEMMA CopiesType == ASSUME TypeOK PROVE Copies \subseteq Content
BY DEF TypeOK, Copies, Contents

LEMMA StakeType ==
  ASSUME TypeOK, NEW l \in Lives
  PROVE  stake[l] = None \/ (stake[l] # None /\ stake[l] \in Nat)
BY ToolsAssumption DEF TypeOK

(* Nothing is lost when what goes away has nothing at stake or is          *)
(* somewhere else, too.                                                    *)
LEMMA LossKept ==
  ASSUME TypeOK, TypeOK', NoLoss, stake' = stake,
         \A c \in Copies : c.whole =>
           \/ stake[c.life] = None
           \/ \E d \in Copies' : /\ d.life = c.life /\ d.whole
                                /\ (d.world >= c.world \/ d.world >= stake[c.life])
  PROVE  NoLoss'
<1> SUFFICES ASSUME NEW l \in Lives, stake[l] # None
             PROVE  \E d \in Copies' : d.life = l /\ d.whole /\ d.world >= stake[l]
  BY DEF NoLoss
<1>1. PICK c \in Copies : c.life = l /\ c.whole /\ c.world >= stake[l]
  BY DEF NoLoss
<1>2. PICK d \in Copies' : d.life = l /\ d.whole /\ (d.world >= c.world \/ d.world >= stake[l])
  BY <1>1
<1>3. c.world \in Nat /\ d.world \in Nat /\ stake[l] \in Nat
  <2>1. c \in Content
    BY CopiesType
  <2>2. Copies' \subseteq Content
    BY DEF TypeOK, Copies, Contents
  <2>3. QED BY <2>1, <2>2, StakeType, ToolsAssumption DEF Content
<1>4. QED BY <1>1, <1>2, <1>3

LEMMA MoreKept ==
  ASSUME TypeOK, TypeOK', NoLoss, stake' = stake, Copies \subseteq Copies'
  PROVE  NoLoss'
<1>1. \A c \in Copies : c \in Copies' /\ c.world >= c.world
  BY CopiesType, ToolsAssumption DEF Content
<1>2. QED BY <1>1, LossKept

LEMMA QuietKept == ASSUME Typed, Typed', Guarded, UNCHANGED <<disk, history>> PROVE Kept'
<1>1. Copies' = Copies
  BY DEF Copies, disk
<1>2. NoLoss'
  BY <1>1, MoreKept DEF Typed, Guarded, Kept, history
<1>3. QED BY <1>2 DEF Guarded, Kept, Fresh, disk, history

LEMMA EndKept == ASSUME Kept', tool' = Idle PROVE Guarded'
BY IdleApart DEF Guarded

(* The world goes on, and may be at stake from now on.                     *)
LEMMA WorldKept ==
  ASSUME Typed, Typed', Guarded, dir \in Content, dir' \in Content, aside = None,
         dir'.life = dir.life, dir'.whole = dir.whole, dir'.world >= dir.world,
         UNCHANGED <<aside, left, archives, lives>>, stake' \in {stake, AtStake(dir')}
  PROVE  Kept'
<1>1. /\ TypeOK /\ TypeOK' /\ NoLoss /\ Fresh(dir)
      /\ \A l \in Lives : l > lives => stake[l] = None
  BY DEF Typed, Guarded, Kept
<1>2. dir # None /\ dir' # None /\ dir.life \in Lives /\ dir.world \in Nat /\ dir'.world \in Nat
      /\ lives \in Nat /\ MaxLives \in Nat
  BY <1>1, NoneApart, ToolsAssumption DEF Content, TypeOK
<1>3. \A l \in Lives : l # dir.life => stake'[l] = stake[l]
  BY <1>1 DEF AtStake, TypeOK
<1>4. \/ stake'[dir.life] = stake[dir.life]
      \/ dir'.whole /\ stake'[dir.life] = dir'.world
  BY <1>1, <1>2 DEF AtStake, TypeOK
<1>5. Fresh(dir)'
  BY <1>1, <1>2, <1>4, StakeType DEF Fresh
<1>6. NoLoss'
  <2> SUFFICES ASSUME NEW l \in Lives, stake'[l] # None
               PROVE  \E d \in Copies' : d.life = l /\ d.whole /\ d.world >= stake'[l]
    BY DEF NoLoss
  <2>1. dir' \in Copies'
    BY <1>2 DEF Copies
  <2>2. CASE l = dir.life /\ dir.whole
    BY <1>2, <1>5, <2>1, <2>2 DEF Fresh
  <2>3. CASE ~(l = dir.life /\ dir.whole)
    <3>1. stake'[l] = stake[l]
      BY <1>3, <1>4, <2>3
    <3>2. PICK c \in Copies : c.life = l /\ c.whole /\ c.world >= stake[l]
      BY <1>1, <3>1 DEF NoLoss
    <3>3. c # dir
      BY <2>3, <3>2
    <3>4. c \in Copies'
      BY <3>3 DEF Copies
    <3>5. QED BY <3>1, <3>2, <3>4
  <2>4. QED BY <2>2, <2>3
<1>7. \A l \in Lives : l > lives => stake'[l] = None
  BY <1>1, <1>2, <1>3 DEF Fresh, Lives
<1>8. Fresh(aside)'
  BY DEF Fresh
<1>9. QED BY <1>5, <1>6, <1>7, <1>8 DEF Kept

(* A step that leaves the disk as it is and goes on from one such step of  *)
(* the tool to another.                                                    *)
LEMMA QuietOn ==
  ASSUME Typed, Typed', Guarded, UNCHANGED <<disk, history>>, tool'.kind = tool.kind,
         tool'.backup = tool.backup,
         tool.kind = "install" /\ tool'.step \in Placed => tool.step \in Placed,
         tool.kind = "change" => tool'.step \notin {"extract"} \cup Restored,
         tool.kind = "change" /\ tool'.step \in Trial => tool.step \in Trial,
         tool.kind = "delete" /\ tool'.step \in {"disable", "move"} => dir = None \/ tool.step = "disable",
         tool.kind = "delete" /\ tool'.step \in {"record", "clear"} => aside = None \/ tool.step = "record"
  PROVE  Guarded'
<1>1. Kept'
  BY QuietKept
<1>2. tool'.kind = "install" => InstallStake'
  BY DEF Guarded, InstallStake, disk, history
<1>3. tool'.kind = "change" => ChangeStake'
  BY DEF Guarded, ChangeStake, Fresh, disk, history
<1>4. tool'.kind = "delete" => DeleteStake'
  BY DEF Guarded, DeleteStake, disk
<1>5. QED BY <1>1, <1>2, <1>3, <1>4 DEF Guarded

LEMMA InstallKept ==
  ASSUME Typed, Typed', Guarded, tool.kind = "install", Stage \/ Place \/ Enable \/ RecordInstall \/ Discard
  PROVE  Guarded'
<1>1. /\ TypeOK /\ TypeOK' /\ Kept /\ tool # Idle /\ InstallShape /\ InstallStake /\ aside = None
      /\ Tools[tool.kind] = {"stage", "place", "enable", "record", "discard"}
      /\ dir \in Contents /\ lives \in 0 .. MaxLives /\ MaxLives \in Nat
  BY IdleApart, ToolsAssumption DEF Typed, TypeOK, Shape, InstallShape, Guarded, Tools
<1>2. CASE Stage
  <2>1. UNCHANGED <<disk, history>>
    BY <1>1, <1>2, FailsOK DEF Stage, Still, history
  <2>2. tool' = Idle \/ Step("place")
    BY <1>1, <1>2, FailsOK DEF Stage
  <2>3. CASE Step("place")
    <3>1. Same /\ tool'.step = "place"
      BY <1>1, <2>3, StepEffect, "place" \in Tools[tool.kind]
    <3>2. QED BY <2>1, <3>1, QuietOn DEF Same, Placed
  <2>4. QED BY <2>1, <2>2, <2>3, QuietKept, EndKept
<1>3. CASE Place
  <2>1. UNCHANGED <<aside, left, archives>> /\ tool.step = "place"
    BY <1>3 DEF Place, At
  <2>2. CASE /\ dir' = [life |-> lives + 1, world |-> 0, whole |-> TRUE, software |-> tool.software]
             /\ lives' = lives + 1 /\ UNCHANGED stake /\ Step("enable")
    <3>1. Same /\ tool'.step = "enable"
      BY <1>1, <2>2, StepEffect, "enable" \in Tools[tool.kind]
    <3>2. dir = None /\ lives' \in Lives /\ lives < lives'
      BY <1>1, <2>1, <2>2 DEF InstallShape, Lives
    <3>3. stake[lives'] = None
      BY <1>1, <3>2 DEF Kept
    <3>4. dir'.life = lives' /\ dir'.whole
      BY <2>2
    <3>5. NoLoss'
      BY <1>1, <2>1, <2>2, <3>2, MoreKept DEF Copies, Kept
    <3>6. Fresh(dir)' /\ Fresh(aside)'
      BY <1>1, <2>1, <2>2, <3>2, <3>3, <3>4 DEF Fresh
    <3>7. \A l \in Lives : l > lives' => stake'[l] = None
      BY <1>1, <2>2, <3>2 DEF Kept, Lives
    <3>8. InstallStake'
      BY <2>2, <3>3, <3>4 DEF InstallStake
    <3>9. QED BY <3>1, <3>5, <3>6, <3>7, <3>8 DEF Kept, Guarded, Same
  <2>3. CASE Fails /\ UNCHANGED dir
    <3>1. UNCHANGED <<disk, history>> /\ tool' = Idle
      BY <1>1, <2>1, <2>3, FailsOK DEF disk, history
    <3>2. QED BY <3>1, QuietKept, EndKept
  <2>4. QED BY <1>3, <2>2, <2>3 DEF Place
<1>4. CASE Enable
  <2>1. UNCHANGED <<disk, history>> /\ tool.step = "enable"
    BY <1>4 DEF Enable, At, Still
  <2>2. PICK step \in {"record", "discard"} : Step(step)
    BY <1>4 DEF Enable, Raise
  <2>3. Same /\ tool'.step = step
    BY <1>1, <2>2, StepEffect, step \in Tools[tool.kind]
  <2>4. QED BY <1>1, <2>1, <2>3, QuietOn DEF Same, Placed
<1>5. CASE RecordInstall
  <2>1. UNCHANGED disk /\ tool.step = "record" /\ dir # None
    BY <1>1, <1>5 DEF RecordInstall, At, InstallShape
  <2>2. CASE Ends("ok") /\ stake' = AtStake(dir)
    <3>1. dir \in Content /\ dir' = dir /\ dir.world >= dir.world
      BY <1>1, <2>1, ToolsAssumption DEF Contents, Content, disk
    <3>2. UNCHANGED <<aside, left, archives, lives>> /\ tool' = Idle
      BY <1>1, <2>1, <2>2, EndsOK DEF disk
    <3>3. Kept'
      BY <1>1, <2>2, <3>1, <3>2, WorldKept
    <3>4. QED BY <3>2, <3>3, EndKept
  <2>3. CASE Step("discard") /\ Still
    <3>1. Same /\ tool'.step = "discard"
      BY <1>1, <2>3, StepEffect, "discard" \in Tools[tool.kind]
    <3>2. QED BY <1>1, <2>1, <2>3, <3>1, QuietOn DEF Same, Placed, Still
  <2>4. CASE Break("discard") /\ Still
    <3>1. Same /\ tool'.step = "discard"
      BY <1>1, <2>4, BreakEffect, "discard" \in Tools[tool.kind]
    <3>2. QED BY <1>1, <2>1, <2>4, <3>1, QuietOn DEF Same, Placed, Still
  <2>5. QED BY <1>5, <2>2, <2>3, <2>4 DEF RecordInstall, Raise
<1>6. CASE Discard
  <2>1. /\ UNCHANGED <<aside, left, archives>> /\ tool.step = "discard" /\ dir # None
        /\ tool' = Idle /\ UNCHANGED <<lives, stake>>
    BY <1>1, <1>6, FailsOK DEF Discard, At, InstallShape
  <2>2. dir' \in {None, [dir EXCEPT !.whole = FALSE], dir} /\ (dir' # None => ~dir'.whole)
    BY <1>1, <1>6, <2>1 DEF Discard, Contents, Content
  <2>3. stake[dir.life] = None
    BY <1>1, <2>1 DEF InstallStake, Placed
  <2>4. \A c \in Copies : c.world >= c.world /\ (c = dir \/ c \in Copies')
    BY <1>1, <2>1, CopiesType, ToolsAssumption DEF Copies, Content
  <2>5. NoLoss'
    BY <1>1, <2>1, <2>3, <2>4, LossKept DEF Kept
  <2>6. Fresh(dir)'
    BY <1>1, <2>1, <2>2 DEF Kept, Fresh, Contents, Content
  <2>7. Kept'
    BY <1>1, <2>1, <2>5, <2>6 DEF Kept, Fresh
  <2>8. QED BY <2>1, <2>7, EndKept
<1>7. QED BY <1>2, <1>3, <1>4, <1>5, <1>6

(* A change until its rollback.                                            *)
LEMMA ChangeKept ==
  ASSUME Typed, Typed', Guarded, tool.kind = "change",
         Stage \/ Stop \/ Archive \/ Resume \/ Copy \/ RecordChange \/ Start \/ Check
  PROVE  Guarded'
<1>1. /\ TypeOK /\ TypeOK' /\ Kept /\ tool # Idle /\ ChangeShape /\ ChangeStake /\ dir \in Contents
      /\ Tools[tool.kind] = {"stage", "stop", "archive", "copy", "record", "start", "check", "resume",
                             "unstart", "setAside", "extract", "own", "clear", "unrecord", "restart"}
  BY IdleApart DEF Typed, TypeOK, Shape, Guarded, Tools
<1>2. CASE Stage
  <2>1. UNCHANGED <<disk, history>> /\ (tool' = Idle \/ Step("stop"))
    BY <1>1, <1>2, FailsOK DEF Stage, Still, history
  <2>2. CASE Step("stop")
    <3>1. Same /\ tool'.step = "stop"
      BY <1>1, <2>2, StepEffect, "stop" \in Tools[tool.kind]
    <3>2. QED BY <1>1, <2>1, <3>1, QuietOn DEF Same, Trial, Restored
  <2>3. QED BY <2>1, <2>2, QuietKept, EndKept
<1>3. CASE Stop
  <2>1. UNCHANGED <<disk, history>> /\ dir # None
    BY <1>1, <1>3 DEF Stop, Still, ChangeShape
  <2>2. PICK step \in {"archive", "resume"} : tool' = [tool EXCEPT !.wasActive = active, !.step = step]
    BY <1>1, <1>3, <2>1 DEF Stop
  <2>3. tool'.kind = tool.kind /\ tool'.backup = tool.backup /\ tool'.step = step
    BY <1>1, <2>2, StopEffect, step \in Tools[tool.kind]
  <2>4. QED BY <1>1, <2>1, <2>3, QuietOn DEF Trial, Restored
<1>4. CASE Archive
  <2>1. UNCHANGED <<dir, aside, left, history>> /\ dir \in Content /\ aside = None
    BY <1>1, <1>4 DEF Archive, Still, ChangeShape, Contents
  <2>2. CASE archives' = archives \cup {dir} /\ tool' = [tool EXCEPT !.backup = dir, !.step = "copy"]
    <3>1. tool'.kind = tool.kind /\ tool'.step = "copy" /\ tool'.backup = dir
      BY <1>1, <2>2, ArchiveEffect, "copy" \in Tools[tool.kind]
    <3>2. NoLoss'
      BY <1>1, <2>1, <2>2, MoreKept DEF Kept, Copies, history
    <3>3. Kept'
      BY <1>1, <2>1, <3>2 DEF Kept, Fresh, history
    <3>4. ChangeStake'
      BY <1>1, <2>1, <3>1 DEF ChangeStake, Kept, Fresh, history, Restored
    <3>5. QED BY <1>1, <3>1, <3>3, <3>4 DEF Guarded
  <2>3. CASE Step("resume") /\ UNCHANGED archives
    <3>1. Same /\ tool'.step = "resume"
      BY <1>1, <2>3, StepEffect, "resume" \in Tools[tool.kind]
    <3>2. QED BY <1>1, <2>1, <2>3, <3>1, QuietOn DEF Same, Trial, Restored, disk
  <2>4. QED BY <1>1, <1>4, <2>2, <2>3 DEF Archive, Raise
<1>5. CASE Resume
  <2>1. UNCHANGED <<disk, history>> /\ tool' = Idle
    BY <1>1, <1>5, FailsOK DEF Resume, history
  <2>2. QED BY <2>1, QuietKept, EndKept
<1>6. CASE Copy
  <2>1. /\ UNCHANGED <<aside, left, archives, lives, stake>> /\ tool.step = "copy" /\ dir \in Content /\ aside = None
    BY <1>1, <1>6 DEF Copy, At, Still, ChangeShape, Contents, history
  <2>2. /\ dir' \in {dir, [dir EXCEPT !.software = tool.software], [dir EXCEPT !.software = Mixed]}
        /\ \E step \in {"record", "unstart"} : Step(step)
    BY <1>6 DEF Copy, Raise
  <2>3. /\ dir'.life = dir.life /\ dir'.whole = dir.whole /\ dir'.world = dir.world /\ dir.world >= dir.world
        /\ dir' # None
    BY <1>1, <2>1, <2>2, ToolsAssumption, NoneApart DEF Content, Typed, Shape, ChangeShape, TypeOK, Softwares
  <2>4. dir' \in Content
    BY <1>1, <2>3 DEF TypeOK, Contents
  <2>5. Kept'
    BY <1>1, <2>1, <2>3, <2>4, WorldKept
  <2>6. PICK step \in {"record", "unstart"} : Step(step)
    BY <2>2
  <2>7. Same /\ tool'.step = step
    BY <1>1, <2>6, StepEffect, step \in Tools[tool.kind]
  <2>8. ChangeStake'
    BY <1>1, <2>1, <2>3, <2>7 DEF ChangeStake, Same, Fresh, Trial, Restored
  <2>9. QED BY <1>1, <2>5, <2>7, <2>8 DEF Guarded, Same
<1>7. CASE RecordChange
  <2>1. UNCHANGED <<disk, history>> /\ tool.step = "record"
    BY <1>1, <1>7, EndsOK DEF RecordChange, At, Still, history
  <2>2. CASE \E step \in {"start", "unstart"} : Step(step)
    <3>1. PICK step \in {"start", "unstart"} : Step(step)
      BY <2>2
    <3>2. Same /\ tool'.step = step
      BY <1>1, <3>1, StepEffect, step \in Tools[tool.kind]
    <3>3. QED BY <1>1, <2>1, <3>2, QuietOn DEF Same, Trial, Restored
  <2>3. CASE Ends("ok")
    BY <1>1, <2>1, <2>3, EndsOK, QuietKept, EndKept
  <2>4. QED BY <1>7, <2>2, <2>3 DEF RecordChange, Raise
<1>8. CASE Start
  <2>1. UNCHANGED <<disk, history>> /\ tool.step = "start"
    BY <1>8 DEF Start, At, Still
  <2>2. PICK step \in {"check", "unstart"} : Step(step)
    BY <1>8 DEF Start, Raise
  <2>3. Same /\ tool'.step = step
    BY <1>1, <2>2, StepEffect, step \in Tools[tool.kind]
  <2>4. QED BY <1>1, <2>1, <2>3, QuietOn DEF Same, Trial, Restored
<1>9. CASE Check
  <2>1. UNCHANGED disk /\ tool.step = "check" /\ dir \in Content /\ aside = None
    BY <1>1, <1>9 DEF Check, At, ChangeShape, Contents
  <2>2. CASE Ends("ok") /\ stake' = AtStake(dir)
    <3>1. dir' = dir /\ dir.world >= dir.world
      BY <2>1, ToolsAssumption DEF Content, disk
    <3>2. UNCHANGED <<aside, left, archives, lives>> /\ tool' = Idle
      BY <1>1, <2>1, <2>2, EndsOK DEF disk
    <3>3. Kept'
      BY <1>1, <2>1, <2>2, <3>1, <3>2, WorldKept
    <3>4. QED BY <3>2, <3>3, EndKept
  <2>3. CASE Step("unstart") /\ Still
    <3>1. Same /\ tool'.step = "unstart"
      BY <1>1, <2>3, StepEffect, "unstart" \in Tools[tool.kind]
    <3>2. QED BY <1>1, <2>1, <2>3, <3>1, QuietOn DEF Same, Trial, Restored, Still
  <2>4. QED BY <1>9, <2>2, <2>3 DEF Check
<1>10. QED BY <1>2, <1>3, <1>4, <1>5, <1>6, <1>7, <1>8, <1>9

LEMMA LeftKept ==
  ASSUME Typed, Typed', Guarded, LeaveAside, UNCHANGED <<dir, archives, history>>
  PROVE  Kept'
<1>1. aside' = None /\ left' = left \cup ({aside} \ {None}) /\ dir' = dir /\ archives' = archives /\ stake' = stake
  BY DEF LeaveAside, history
<1>2. Copies' = Copies
  BY <1>1 DEF Copies
<1>3. NoLoss'
  BY <1>1, <1>2, MoreKept DEF Typed, Guarded, Kept
<1>4. QED BY <1>1, <1>3 DEF Guarded, Kept, Fresh, history

(* The rollback.                                                           *)
LEMMA RollbackKept ==
  ASSUME Typed, Typed', Guarded, tool.kind = "change",
         Unstart \/ SetAside \/ Extract \/ Own \/ ClearChange \/ Unrecord \/ Restart
  PROVE  Guarded'
<1>1. /\ TypeOK /\ TypeOK' /\ Kept /\ tool # Idle /\ ChangeShape /\ ChangeStake
      /\ dir \in Contents /\ aside \in Contents /\ tool.backup \in Contents
      /\ Tools[tool.kind] = {"stage", "stop", "archive", "copy", "record", "start", "check", "resume",
                             "unstart", "setAside", "extract", "own", "clear", "unrecord", "restart"}
  BY IdleApart, ToolCases DEF Typed, TypeOK, Shape, Guarded, Tools, Fields
<1>2. CASE Unstart
  <2>1. UNCHANGED <<disk, history>> /\ tool.step = "unstart"
    BY <1>2 DEF Unstart, At, Still
  <2>2. Same /\ tool'.step = "setAside"
    BY <1>1, <1>2, StepEffect, BreakEffect, "setAside" \in Tools[tool.kind] DEF Unstart
  <2>3. QED BY <1>1, <2>1, <2>2, QuietOn DEF Same, Trial, Restored
<1>3. CASE SetAside
  <2>1. UNCHANGED <<left, archives>> /\ tool.step = "setAside" /\ dir # None /\ aside = None
    BY <1>1, <1>3 DEF SetAside, At, ChangeShape
  <2>2. CASE dir' = None /\ aside' = dir /\ Step("extract") /\ Still
    <3>1. Same /\ tool'.step = "extract"
      BY <1>1, <2>2, StepEffect, "extract" \in Tools[tool.kind]
    <3>2. Copies' = Copies /\ UNCHANGED history
      BY <2>1, <2>2 DEF Copies, Still
    <3>3. NoLoss'
      BY <1>1, <3>2, MoreKept DEF Kept, history
    <3>4. Kept'
      BY <1>1, <2>2, <3>2, <3>3 DEF Kept, Fresh, history
    <3>5. ChangeStake'
      BY <1>1, <2>1, <2>2, <3>1, <3>2 DEF ChangeStake, Same, Fresh, history, Trial, Restored
    <3>6. QED BY <1>1, <3>1, <3>4, <3>5 DEF Guarded, Same
  <2>3. CASE Dies /\ UNCHANGED <<dir, aside>>
    <3>1. UNCHANGED <<disk, history>> /\ tool' = Idle
      BY <1>1, <2>1, <2>3, FailsOK DEF disk, history
    <3>2. QED BY <3>1, QuietKept, EndKept
  <2>4. QED BY <1>3, <2>2, <2>3 DEF SetAside
<1>4. CASE Extract
  <2>1. /\ UNCHANGED archives /\ tool.step = "extract" /\ dir = None /\ aside # None
        /\ tool.backup # None /\ Fresh(tool.backup)
        /\ aside.life = tool.backup.life /\ aside.whole = tool.backup.whole
    BY <1>1, <1>4 DEF Extract, At, ChangeShape, ChangeStake
  <2>2. CASE dir' = tool.backup /\ Step("own") /\ UNCHANGED <<aside, left>> /\ Still
    <3>1. Same /\ tool'.step = "own"
      BY <1>1, <2>2, StepEffect, "own" \in Tools[tool.kind]
    <3>2. Copies \subseteq Copies' /\ UNCHANGED history
      BY <2>1, <2>2 DEF Copies, Still
    <3>3. NoLoss'
      BY <1>1, <3>2, MoreKept DEF Kept, history
    <3>4. Kept'
      BY <1>1, <2>1, <2>2, <3>2, <3>3 DEF Kept, Fresh, history
    <3>5. ChangeStake'
      BY <1>1, <2>1, <2>2, <3>1, <3>2 DEF ChangeStake, Same, Fresh, history, Trial, Restored
    <3>6. QED BY <1>1, <3>1, <3>4, <3>5 DEF Guarded, Same
  <2>3. CASE Dies /\ dir' = aside /\ aside' = None /\ UNCHANGED left
    <3>1. Copies' = Copies /\ UNCHANGED history /\ tool' = Idle
      BY <1>1, <2>1, <2>3, FailsOK DEF Copies, history
    <3>2. NoLoss'
      BY <1>1, <3>1, MoreKept DEF Kept, history
    <3>3. Kept'
      BY <1>1, <2>3, <3>1, <3>2 DEF Kept, Fresh, history
    <3>4. QED BY <3>1, <3>3, EndKept
  <2>4. CASE Dies /\ dir' = [tool.backup EXCEPT !.whole = FALSE] /\ LeaveAside
    <3>1. Copies \subseteq Copies' /\ UNCHANGED history /\ tool' = Idle /\ aside' = None
      BY <1>1, <2>1, <2>4, FailsOK DEF Copies, history, LeaveAside
    <3>2. NoLoss'
      BY <1>1, <3>1, MoreKept DEF Kept, history
    <3>3. dir'.life = tool.backup.life /\ ~dir'.whole
      BY <1>1, <2>1, <2>4 DEF Contents, Content
    <3>4. Kept'
      BY <1>1, <2>1, <3>1, <3>2, <3>3 DEF Kept, Fresh, history
    <3>5. QED BY <3>1, <3>4, EndKept
  <2>5. QED BY <1>4, <2>2, <2>3, <2>4 DEF Extract
<1>5. CASE Own
  <2>1. UNCHANGED <<dir, archives>> /\ tool.step = "own"
    BY <1>5 DEF Own, At
  <2>2. CASE Step("clear") /\ UNCHANGED <<aside, left>> /\ Still
    <3>1. Same /\ tool'.step = "clear" /\ UNCHANGED <<disk, history>>
      BY <1>1, <2>1, <2>2, StepEffect, "clear" \in Tools[tool.kind] DEF Still, disk
    <3>2. Kept'
      BY <3>1, QuietKept
    <3>3. ChangeStake'
      BY <1>1, <2>1, <3>1 DEF ChangeStake, Same, Fresh, disk, history, Trial, Restored
    <3>4. QED BY <1>1, <3>1, <3>2, <3>3 DEF Guarded, Same
  <2>3. CASE Dies /\ LeaveAside
    <3>1. UNCHANGED history /\ tool' = Idle
      BY <1>1, <2>3, FailsOK DEF history
    <3>2. QED BY <2>1, <2>3, <3>1, LeftKept, EndKept
  <2>4. QED BY <1>5, <2>2, <2>3 DEF Own
<1>6. CASE ClearChange
  <2>1. /\ UNCHANGED <<dir, archives, history>> /\ tool.step = "clear" /\ aside' = None /\ left \subseteq left'
    BY <1>1, <1>6, FailsOK DEF ClearChange, At, Still, history
  <2>2. /\ dir = tool.backup /\ dir \in Content /\ Fresh(dir) /\ dir # None /\ aside # None
        /\ aside.life = dir.life /\ aside.whole = dir.whole
    BY <1>1, <2>1 DEF ChangeShape, ChangeStake, Restored, Contents
  <2>3. dir \in Copies' /\ \A c \in Copies : c.world >= c.world /\ (c = aside \/ c \in Copies')
    BY <1>1, <2>1, <2>2, CopiesType, ToolsAssumption DEF Copies, Content
  <2>4. \A c \in Copies : c.whole =>
           \/ stake[c.life] = None
           \/ \E d \in Copies' : /\ d.life = c.life /\ d.whole
                                /\ (d.world >= c.world \/ d.world >= stake[c.life])
    <3> TAKE c \in Copies
    <3> HAVE c.whole
    <3>1. CASE c = aside
      BY <2>2, <2>3, <3>1 DEF Fresh
    <3>2. CASE c \in Copies'
      BY <2>3, <3>2
    <3>3. QED BY <2>3, <3>1, <3>2
  <2>5. NoLoss'
    BY <1>1, <2>1, <2>4, LossKept DEF Kept, history
  <2>6. Kept'
    BY <1>1, <2>1, <2>5 DEF Kept, Fresh, history
  <2>7. CASE Step("unrecord")
    <3>1. Same /\ tool'.step = "unrecord"
      BY <1>1, <2>7, StepEffect, "unrecord" \in Tools[tool.kind]
    <3>2. ChangeStake'
      BY <3>1 DEF ChangeStake, Trial, Restored
    <3>3. QED BY <1>1, <2>6, <3>1, <3>2 DEF Guarded, Same
  <2>8. CASE tool' = Idle
    BY <2>6, <2>8, EndKept
  <2>9. QED BY <1>1, <1>6, <2>7, <2>8, FailsOK DEF ClearChange
<1>7. CASE Unrecord
  <2>1. UNCHANGED <<disk, history>> /\ (tool' = Idle \/ Step("restart"))
    BY <1>1, <1>7, FailsOK DEF Unrecord, Still, history
  <2>2. CASE Step("restart")
    <3>1. Same /\ tool'.step = "restart"
      BY <1>1, <2>2, StepEffect, "restart" \in Tools[tool.kind]
    <3>2. QED BY <1>1, <2>1, <3>1, QuietOn DEF Same, Trial, Restored
  <2>3. QED BY <2>1, <2>2, QuietKept, EndKept
<1>8. CASE Restart
  <2>1. UNCHANGED <<disk, history>> /\ tool' = Idle
    BY <1>1, <1>8, FailsOK DEF Restart, history
  <2>2. QED BY <2>1, QuietKept, EndKept
<1>9. QED BY <1>2, <1>3, <1>4, <1>5, <1>6, <1>7, <1>8

LEMMA DeleteKept ==
  ASSUME Typed, Typed', Guarded, tool.kind = "delete",
         Stop \/ Archive \/ Resume \/ Disable \/ Move \/ RecordDelete \/ ClearDelete \/ PutBack \/ Reenable
  PROVE  Guarded'
<1>1. /\ TypeOK /\ TypeOK' /\ Kept /\ tool # Idle /\ DeleteShape /\ DeleteStake
      /\ dir \in Contents /\ aside \in Contents
      /\ Tools[tool.kind] = {"stop", "archive", "disable", "move", "record", "clear", "putBack", "reenable", "resume"}
  BY IdleApart DEF Typed, TypeOK, Shape, Guarded, Tools
<1>2. CASE Stop
  <2>1. UNCHANGED <<disk, history>>
    BY <1>1, <1>2 DEF Stop, Still
  <2>2. PICK step \in {"archive", "disable", "reenable"} :
          /\ tool' = [tool EXCEPT !.wasActive = active, !.step = step]
          /\ step = "disable" => dir = None
    BY <1>1, <1>2, <2>1 DEF Stop
  <2>3. tool'.kind = tool.kind /\ tool'.backup = tool.backup /\ tool'.step = step
    BY <1>1, <2>2, StopEffect, step \in Tools[tool.kind]
  <2>4. QED BY <1>1, <2>1, <2>2, <2>3, QuietOn
<1>3. CASE Archive
  <2>1. UNCHANGED <<dir, aside, left, history>> /\ dir \in Content
    BY <1>1, <1>3 DEF Archive, Still, DeleteShape, Contents
  <2>2. CASE archives' = archives \cup {dir} /\ tool' = [tool EXCEPT !.backup = dir, !.step = "disable"]
    <3>1. tool'.kind = tool.kind /\ tool'.step = "disable"
      BY <1>1, <2>2, ArchiveEffect, "disable" \in Tools[tool.kind]
    <3>2. NoLoss'
      BY <1>1, <2>1, <2>2, MoreKept DEF Kept, Copies, history
    <3>3. Kept'
      BY <1>1, <2>1, <3>2 DEF Kept, Fresh, history
    <3>4. DeleteStake'
      BY <2>1, <2>2, <3>1 DEF DeleteStake
    <3>5. QED BY <1>1, <3>1, <3>3, <3>4 DEF Guarded
  <2>3. CASE Step("reenable") /\ UNCHANGED archives
    <3>1. Same /\ tool'.step = "reenable"
      BY <1>1, <2>3, StepEffect, "reenable" \in Tools[tool.kind]
    <3>2. QED BY <1>1, <2>1, <2>3, <3>1, QuietOn DEF Same, disk
  <2>4. QED BY <1>1, <1>3, <2>2, <2>3 DEF Archive, Raise
<1>4. CASE Resume
  <2>1. UNCHANGED <<disk, history>> /\ tool' = Idle
    BY <1>1, <1>4, FailsOK DEF Resume, history
  <2>2. QED BY <2>1, QuietKept, EndKept
<1>5. CASE Disable
  <2>1. UNCHANGED <<disk, history>> /\ tool.step = "disable" /\ aside = None
    BY <1>1, <1>5 DEF Disable, At, Still, DeleteShape
  <2>2. PICK step \in {"record", "move", "reenable"} : Step(step)
    BY <1>5 DEF Disable, Raise
  <2>3. Same /\ tool'.step = step
    BY <1>1, <2>2, StepEffect, step \in Tools[tool.kind]
  <2>4. QED BY <1>1, <2>1, <2>3, QuietOn DEF Same
<1>6. CASE Move
  <2>1. /\ UNCHANGED <<left, archives, history>> /\ tool.step = "move" /\ dir # None /\ aside = None
        /\ dir \in archives
    BY <1>1, <1>6 DEF Move, At, DeleteShape, DeleteStake, Still
  <2>2. CASE dir' = None /\ aside' = dir /\ Step("record")
    <3>1. Same /\ tool'.step = "record"
      BY <1>1, <2>2, StepEffect, "record" \in Tools[tool.kind]
    <3>2. Copies' = Copies
      BY <2>1, <2>2 DEF Copies
    <3>3. NoLoss'
      BY <1>1, <2>1, <3>2, MoreKept DEF Kept, history
    <3>4. Kept'
      BY <1>1, <2>1, <2>2, <3>3 DEF Kept, Fresh, history
    <3>5. DeleteStake'
      BY <2>1, <2>2, <3>1 DEF DeleteStake
    <3>6. QED BY <1>1, <3>1, <3>4, <3>5 DEF Guarded, Same
  <2>3. CASE UNCHANGED <<dir, aside>> /\ Step("reenable")
    <3>1. Same /\ tool'.step = "reenable"
      BY <1>1, <2>3, StepEffect, "reenable" \in Tools[tool.kind]
    <3>2. QED BY <1>1, <2>1, <2>3, <3>1, QuietOn DEF Same, disk
  <2>4. QED BY <1>6, <2>2, <2>3 DEF Move, Raise
<1>7. CASE RecordDelete
  <2>1. UNCHANGED <<disk, history>> /\ tool.step = "record"
    BY <1>1, <1>7, EndsOK DEF RecordDelete, At, Still, history
  <2>2. CASE \E step \in {"clear", "reenable", "putBack"} : Step(step)
    <3>1. PICK step \in {"clear", "reenable", "putBack"} : Step(step)
      BY <2>2
    <3>2. Same /\ tool'.step = step
      BY <1>1, <3>1, StepEffect, step \in Tools[tool.kind]
    <3>3. QED BY <1>1, <2>1, <3>2, QuietOn DEF Same
  <2>3. CASE Ends("ok")
    BY <1>1, <2>1, <2>3, EndsOK, QuietKept, EndKept
  <2>4. CASE Break(Undelete)
    <3>1. PICK step \in {"reenable", "putBack"} : step = Undelete
      BY DEF Undelete
    <3>2. Same /\ tool'.step = step
      BY <1>1, <2>4, <3>1, BreakEffect, step \in Tools[tool.kind]
    <3>3. QED BY <1>1, <2>1, <3>2, QuietOn DEF Same
  <2>5. QED BY <1>7, <2>2, <2>3, <2>4 DEF RecordDelete, Raise, Undelete
<1>8. CASE ClearDelete
  <2>1. /\ UNCHANGED <<dir, archives, history>> /\ tool.step = "clear" /\ aside' = None /\ left \subseteq left'
        /\ tool' = Idle
    BY <1>1, <1>8, EndsOK DEF ClearDelete, At, history
  <2>2. aside \in archives
    BY <1>1, <2>1 DEF DeleteShape, DeleteStake
  <2>3. Copies \subseteq Copies'
    BY <2>1, <2>2 DEF Copies
  <2>4. NoLoss'
    BY <1>1, <2>1, <2>3, MoreKept DEF Kept, history
  <2>5. Kept'
    BY <1>1, <2>1, <2>4 DEF Kept, Fresh, history
  <2>6. QED BY <2>1, <2>5, EndKept
<1>9. CASE PutBack
  <2>1. UNCHANGED archives /\ tool.step = "putBack" /\ dir = None
    BY <1>1, <1>9 DEF PutBack, At, DeleteShape
  <2>2. CASE dir' = aside /\ aside' = None /\ Step("reenable") /\ UNCHANGED left /\ Still
    <3>1. Same /\ tool'.step = "reenable"
      BY <1>1, <2>2, StepEffect, "reenable" \in Tools[tool.kind]
    <3>2. Copies' = Copies /\ UNCHANGED history
      BY <2>1, <2>2 DEF Copies, Still
    <3>3. NoLoss'
      BY <1>1, <3>2, MoreKept DEF Kept, history
    <3>4. Kept'
      BY <1>1, <2>2, <3>2, <3>3 DEF Kept, Fresh, history
    <3>5. DeleteStake'
      BY <3>1 DEF DeleteStake
    <3>6. QED BY <1>1, <3>1, <3>4, <3>5 DEF Guarded, Same
  <2>3. CASE Dies /\ UNCHANGED dir /\ LeaveAside
    <3>1. UNCHANGED history /\ tool' = Idle
      BY <1>1, <2>3, FailsOK DEF history
    <3>2. QED BY <2>1, <2>3, <3>1, LeftKept, EndKept
  <2>4. QED BY <1>9, <2>2, <2>3 DEF PutBack
<1>10. CASE Reenable
  <2>1. UNCHANGED <<disk, history>>
    BY <1>10 DEF Reenable, Still
  <2>2. Same /\ tool'.step = "resume"
    BY <1>1, <1>10, StepEffect, BreakEffect, "resume" \in Tools[tool.kind] DEF Reenable
  <2>3. QED BY <1>1, <2>1, <2>2, QuietOn DEF Same
<1>11. QED BY <1>2, <1>3, <1>4, <1>5, <1>6, <1>7, <1>8, <1>9, <1>10

LEMMA BeginsKept ==
  ASSUME Typed, Typed', Guarded, (\E v \in Versions : InstallBegins(v) \/ ChangeBegins(v)) \/ DeleteBegins
  PROVE  Guarded'
<1>1. PICK kind \in Kinds, step \in {"stage", "stop"}, software \in Versions \cup {None} :
        Begin(kind, step, software) /\ step \in Tools[kind]
  <2>1. "install" \in Kinds /\ "change" \in Kinds /\ "delete" \in Kinds
    BY DEF Kinds
  <2>2. "stage" \in Tools["install"] /\ "stage" \in Tools["change"] /\ "stop" \in Tools["delete"]
    BY DEF Tools
  <2>3. ASSUME NEW v \in Versions, InstallBegins(v) \/ ChangeBegins(v)
        PROVE  Begin("install", "stage", v) \/ Begin("change", "stage", v)
    BY <2>3 DEF InstallBegins, ChangeBegins
  <2>4. DeleteBegins => Begin("delete", "stop", None)
    BY DEF DeleteBegins
  <2>5. QED BY <2>1, <2>2, <2>3, <2>4
<1>2. UNCHANGED <<disk, history>>
  BY <1>1 DEF Begin
<1>3. tool'.step = step
  BY <1>1, BeginEffect DEF Typed
<1>4. Kept'
  BY <1>2, QuietKept
<1>5. QED BY <1>3, <1>4 DEF Guarded, InstallStake, ChangeStake, DeleteStake, Placed, Trial, Restored

LEMMA OthersKept ==
  ASSUME Typed, Typed', Guarded, ManagedAction \/ ServerExits \/ Play
  PROVE  Guarded'
<1>1. CASE ManagedAction \/ ServerExits
  <2>1. UNCHANGED <<disk, tool, history>>
    BY <1>1 DEF ManagedAction, ServerExits
  <2>2. Kept'
    BY <2>1, QuietKept
  <2>3. QED BY <2>1, <2>2 DEF Guarded, InstallStake, ChangeStake, DeleteStake, Fresh, disk, history
<1>2. CASE Play
  <2>1. /\ active /\ UNCHANGED <<aside, left, archives, lives, tool>>
        /\ stake' = (IF OnTrial THEN stake ELSE AtStake(dir'))
    BY <1>2 DEF Play
  <2>2. /\ dir \in Content /\ dir' \in Content /\ dir'.life = dir.life /\ dir'.whole = dir.whole
        /\ dir'.world >= dir.world
    BY <1>2, PlayEffect, ToolsAssumption DEF Typed, Content
  <2>3. aside = None
    BY <2>1, IdleApart, ToolCases DEF Typed, Shape, InstallShape, ChangeShape, DeleteShape, Kinds
  <2>4. Kept'
    BY <2>1, <2>2, <2>3, WorldKept
  <2>5. tool.kind # "install"
    BY <2>1 DEF Typed, Shape, InstallShape
  <2>6. tool.kind = "change" => ChangeStake'
    <3>1. SUFFICES ASSUME tool.kind = "change"
                   PROVE  ChangeStake'
      OBVIOUS
    <3>2. tool.step \in {"stage", "stop", "resume", "check"} /\ ChangeStake
      BY <2>1, <3>1 DEF Typed, Shape, ChangeShape, Guarded
    <3>3. CASE tool.step = "check"
      <4>1. stake' = stake
        BY <2>1, <3>1, <3>3 DEF OnTrial
      <4>2. QED BY <2>1, <2>2, <3>2, <3>3, <4>1 DEF ChangeStake, Fresh, Trial, Restored
    <3>4. CASE tool.step # "check"
      BY <2>1, <3>2, <3>4 DEF ChangeStake, Trial, Restored
    <3>5. QED BY <3>3, <3>4
  <2>7. tool.kind = "delete" => DeleteStake'
    BY <2>1 DEF Typed, Shape, DeleteShape, DeleteStake
  <2>8. QED BY <2>1, <2>4, <2>5, <2>6, <2>7 DEF Guarded
<1>3. QED BY <1>1, <1>2

LEMMA NextKept == ASSUME Typed, Guarded, [Next]_vars PROVE Guarded'
<1>1. Typed'
  BY NextTyped
<1>2. CASE ToolStep
  <2>1. tool.kind \in Kinds
    <3>1. tool # Idle
      BY <1>2, IdleApart DEF ToolStep, Stage, Stop, Archive, Resume, Place, Enable, RecordInstall, Discard, Copy,
            RecordChange, Start, Check, Unstart, SetAside, Extract, Own, ClearChange, Unrecord, Restart,
            Disable, Move, RecordDelete, ClearDelete, PutBack, Reenable, At
    <3>2. QED BY <3>1, ToolCases DEF Typed
  <2>2. CASE tool.kind = "install"
    <3>1. Stage \/ Place \/ Enable \/ RecordInstall \/ Discard
      BY <1>2, <2>2 DEF ToolStep, Stop, Archive, Resume, Copy,
            RecordChange, Start, Check, Unstart, SetAside, Extract, Own, ClearChange, Unrecord, Restart,
            Disable, Move, RecordDelete, ClearDelete, PutBack, Reenable, At
    <3>2. QED BY <1>1, <2>2, <3>1, InstallKept
  <2>3. CASE tool.kind = "change"
    <3>1. \/ Stage \/ Stop \/ Archive \/ Resume \/ Copy \/ RecordChange \/ Start \/ Check
          \/ Unstart \/ SetAside \/ Extract \/ Own \/ ClearChange \/ Unrecord \/ Restart
      BY <1>2, <2>3 DEF ToolStep, Place, Enable, RecordInstall, Discard,
            Disable, Move, RecordDelete, ClearDelete, PutBack, Reenable, At
    <3>2. QED BY <1>1, <2>3, <3>1, ChangeKept, RollbackKept
  <2>4. CASE tool.kind = "delete"
    <3>1. \/ Stop \/ Archive \/ Resume \/ Disable \/ Move \/ RecordDelete \/ ClearDelete \/ PutBack
          \/ Reenable
      BY <1>2, <2>4 DEF ToolStep, Stage, Place, Enable, RecordInstall, Discard, Copy,
            RecordChange, Start, Check, Unstart, SetAside, Extract, Own, ClearChange, Unrecord, Restart, At
    <3>2. QED BY <1>1, <2>4, <3>1, DeleteKept
  <2>5. QED BY <2>1, <2>2, <2>3, <2>4 DEF Kinds
<1>3. ASSUME NEW crash \in BOOLEAN, Killed(crash)
      PROVE  Guarded'
  BY <1>1, <1>3, LeftKept, EndKept DEF Killed
<1>4. CASE UNCHANGED vars
  <2>1. UNCHANGED <<disk, history, tool>>
    BY <1>4 DEF vars
  <2>2. Kept'
    BY <1>1, <2>1, QuietKept
  <2>3. QED BY <2>1, <2>2 DEF Guarded, InstallStake, ChangeStake, DeleteStake, Fresh, disk, history
<1>5. QED BY <1>1, <1>2, <1>3, <1>4, BeginsKept, OthersKept DEF Next

LEMMA InitKept == ASSUME Init PROVE Guarded
<1>1. Typed
  BY InitTyped
<1>2. /\ aside = None /\ tool = Idle /\ lives = (IF dir = None THEN 0 ELSE 1)
      /\ stake = [l \in Lives |-> IF dir # None /\ l = 1 THEN 0 ELSE None]
      /\ 1 \in Lives
  BY ToolsAssumption DEF Init, Lives
<1>3. dir # None => dir.life = 1 /\ dir.world = 0 /\ dir.whole
  BY DEF Init
<1>4. NoLoss
  BY <1>2, <1>3 DEF NoLoss, Copies
<1>5. \A l \in Lives : l > lives => stake[l] = None
  BY <1>2 DEF Lives
<1>6. Fresh(dir) /\ Fresh(aside)
  BY <1>2, <1>3 DEF Fresh
<1>7. QED BY <1>2, <1>4, <1>5, <1>6, IdleApart DEF Guarded, Kept

(* The world of every server that was ever installed is whole in some directory or in a   *)
(* complete archive, as the players last left it, whichever steps fail and whenever a      *)
(* tool is killed or the host crashes (install_server, change_server_software,             *)
(* _restore_software_backup, delete_managed_server).                                       *)
THEOREM NoLossCorrect == Spec => []NoLoss
<1>1. Init => Typed /\ Guarded
  BY InitTyped, InitKept
<1>2. Typed /\ Guarded /\ [Next]_vars => (Typed /\ Guarded)'
  BY NextTyped, NextKept
<1>3. Guarded => NoLoss
  BY DEF Guarded, Kept
<1>4. QED BY <1>1, <1>2, <1>3, PTL DEF Spec

-----------------------------------------------------------------------------
(* All or nothing.                                                         *)

Whole(c, software) == c # None /\ c.whole /\ c.software = software

(* What the id has when no tool runs.                                      *)
Intact ==
  \/ Listed = None /\ dir = None /\ ~enabled
  \/ Listed = Manual /\ dir = None
  \/ Listed # None /\ enabled /\ Whole(dir, Listed)

(* How far each tool is, and what it has to go back to.                    *)
InstallSound ==
  /\ tool.before = Free
  /\ tool.step \in {"stage", "place", "enable"} => ~enabled
  /\ tool.step \in {"enable", "record"} => Whole(dir, tool.software)
  /\ tool.step = "record" => enabled

ChangeSound ==
  /\ tool.before = tool.old /\ enabled
  /\ tool.step \in {"stage", "stop", "archive", "resume", "copy", "record", "restart"} => entry = tool.old
  /\ tool.step \in {"stage", "stop", "archive", "resume", "copy", "unrecord", "restart"} => Whole(dir, tool.old)
  /\ tool.step \in {"start", "check"} => entry = tool.software
  /\ tool.step \in {"record", "start", "check"} => Whole(dir, tool.software)
  /\ tool.step \in Trial \cup {"extract"} \cup Restored => Whole(tool.backup, tool.old)

DeleteSound ==
  /\ tool.step # "clear" /\ ~tool.broken =>
       \/ tool.before = Stale /\ Listed = Manual /\ dir = None /\ aside = None
       \/ tool.before = Listed /\ Whole(IF tool.step \in {"record", "putBack"} THEN aside ELSE dir, Listed)
  /\ tool.step = "clear" => tool.before \in Softwares
  /\ tool.step \in {"move", "record", "clear"} => ~enabled
  /\ tool.step = "resume" => enabled \/ tool.broken

Sound ==
  ~damaged => /\ tool = Idle => Intact
              /\ tool.kind = "install" => InstallSound
              /\ tool.kind = "change" => ChangeSound
              /\ tool.kind = "delete" => DeleteSound

LEMMA ActualIs ==
  /\ Listed' = None /\ dir' = None /\ ~enabled' => Intact' /\ Actual' = Free
  /\ Listed' = Manual /\ dir' = None => Intact' /\ Actual' = Stale
  /\ Listed' # None /\ enabled' /\ Whole(dir', Listed') => Intact' /\ Actual' = Listed'
<1>1. Manual # None
  BY ToolsAssumption
<1>2. Listed' = None /\ dir' = None /\ ~enabled' => Actual' = Free
  BY <1>1 DEF Actual
<1>3. Listed' = Manual /\ dir' = None => Actual' = Stale
  BY <1>1 DEF Actual
<1>4. Listed' # None /\ enabled' /\ Whole(dir', Listed') => Actual' = Listed'
  BY DEF Actual, Whole
<1>5. QED BY <1>2, <1>3, <1>4 DEF Intact, Whole

LEMMA NowActual ==
  /\ Listed = None /\ dir = None /\ ~enabled => Actual = Free
  /\ Listed = Manual /\ dir = None => Actual = Stale
  /\ Listed # None /\ enabled /\ Whole(dir, Listed) => Actual = Listed
<1>1. Manual # None
  BY ToolsAssumption
<1>2. Listed = None /\ dir = None /\ ~enabled => Actual = Free
  BY <1>1 DEF Actual
<1>3. Listed = Manual /\ dir = None => Actual = Stale
  BY <1>1 DEF Actual
<1>4. Listed # None /\ enabled /\ Whole(dir, Listed) => Actual = Listed
  BY DEF Actual, Whole
<1>5. QED BY <1>2, <1>3, <1>4

LEMMA FailsSound ==
  ASSUME TypeOK, Fails, ~damaged'
  PROVE  ~damaged /\ ~tool.broken /\ tool' = Idle /\ UNCHANGED legacy
<1>1. PICK o \in {"failed", "broken"} : Ends(o) /\ (tool.broken => o = "broken")
  BY DEF Fails
<1>2. damaged' = (damaged \/ o = "broken") /\ tool' = Idle /\ UNCHANGED legacy
  BY <1>1 DEF Ends
<1>3. ~damaged /\ o # "broken"
  BY <1>2
<1>4. QED BY <1>1, <1>2, <1>3

LEMMA EndsSound ==
  ASSUME TypeOK, Ends("ok"), ~damaged'
  PROVE  ~damaged /\ tool' = Idle /\ UNCHANGED legacy
<1>1. damaged' = (damaged \/ "ok" = "broken") /\ tool' = Idle /\ UNCHANGED legacy
  BY DEF Ends
<1>2. ~damaged
  BY <1>1
<1>3. QED BY <1>1, <1>2

LEMMA DiesSound == ASSUME TypeOK, ~damaged' PROVE ~Dies
BY FailsOK

LEMMA StillSound == ASSUME Still, ~damaged' PROVE ~damaged
BY DEF Still, ends

LEMMA InstallRight ==
  ASSUME Typed, Sound, ~damaged', tool.kind = "install",
         Stage \/ Place \/ Enable \/ RecordInstall \/ Discard
  PROVE  /\ ~damaged
         /\ tool' # Idle => Same /\ InstallSound'
         /\ tool' = Idle => Intact' /\ Actual' \in Versions \cup {Free}
<1>1. /\ TypeOK /\ tool # Idle /\ InstallShape /\ aside = None
      /\ (~tool.broken => Listed = None) /\ (tool.step # "discard" => ~tool.broken)
      /\ Tools[tool.kind] = {"stage", "place", "enable", "record", "discard"}
      /\ ~damaged => InstallSound
  BY IdleApart DEF Typed, Shape, InstallShape, Sound, Tools
<1>2. CASE Stage
  <2>1. UNCHANGED <<disk, entry, tomb, unit>> /\ tool.step = "stage" /\ dir = None
    BY <1>1, <1>2 DEF Stage, InstallShape
  <2>2. CASE Step("place") /\ UNCHANGED legacy /\ Still
    <3>1. Same /\ tool'.step = "place" /\ tool' # Idle
      BY <1>1, <2>2, StepEffect, "place" \in Tools[tool.kind]
    <3>2. ~damaged
      BY <2>2 DEF Still, ends
    <3>3. QED BY <1>1, <2>1, <3>1, <3>2 DEF InstallSound, Same, unit
  <2>3. CASE Fails
    <3>1. ~damaged /\ tool' = Idle /\ UNCHANGED legacy
      BY <1>1, <2>3, FailsSound
    <3>2. Listed' = None /\ dir' = None /\ ~enabled'
      BY <1>1, <2>1, <3>1 DEF InstallSound, Listed, disk, unit
    <3>3. QED BY <3>1, <3>2, ActualIs
  <2>4. QED BY <1>1, <1>2, <2>2, <2>3 DEF Stage
<1>3. CASE Place
  <2>1. UNCHANGED <<listing, unit, ends>> \/ Fails
    BY <1>3 DEF Place
  <2>2. UNCHANGED <<listing, unit>> /\ tool.step = "place" /\ dir = None
    BY <1>1, <1>3 DEF Place, At, InstallShape
  <2>3. CASE /\ dir' = [life |-> lives + 1, world |-> 0, whole |-> TRUE, software |-> tool.software]
             /\ Step("enable") /\ UNCHANGED ends
    <3>1. Same /\ tool'.step = "enable" /\ tool' # Idle
      BY <1>1, <2>3, StepEffect, "enable" \in Tools[tool.kind]
    <3>2. dir' # None
      <4>1. Typed'
        BY <1>3, InstallTyped
      <4>2. QED BY <1>1, <3>1, <4>1 DEF Typed, Shape, InstallShape, Same
    <3>3. ~damaged
      BY <2>3 DEF ends
    <3>4. QED BY <1>1, <2>2, <2>3, <3>1, <3>2, <3>3 DEF InstallSound, Same, Whole, unit
  <2>4. CASE Fails /\ UNCHANGED dir
    <3>1. ~damaged /\ tool' = Idle
      BY <1>1, <2>4, FailsSound
    <3>2. Listed' = None /\ dir' = None /\ ~enabled'
      BY <1>1, <2>2, <2>4, <3>1 DEF InstallSound, Listed, listing, unit
    <3>3. QED BY <3>1, <3>2, ActualIs
  <2>5. QED BY <1>3, <2>3, <2>4 DEF Place
<1>4. CASE Enable
  <2>1. UNCHANGED disk /\ ~damaged /\ tool.step = "enable"
    BY <1>4 DEF Enable, At, Still, ends
  <2>2. PICK step \in {"record", "discard"} : Step(step) /\ (step = "record" => enabled' = TRUE)
    BY <1>4 DEF Enable, Raise
  <2>3. Same /\ tool'.step = step /\ tool' # Idle
    BY <1>1, <2>2, StepEffect, step \in Tools[tool.kind]
  <2>4. QED BY <1>1, <2>1, <2>2, <2>3 DEF InstallSound, Same, disk
<1>5. CASE RecordInstall
  <2>1. UNCHANGED <<disk, unit>> /\ tool.step = "record"
    BY <1>5 DEF RecordInstall, At
  <2>2. CASE entry' = tool.software /\ Ends("ok")
    <3>1. ~damaged /\ tool' = Idle
      BY <1>1, <2>2, EndsSound
    <3>2. entry' # None /\ entry' \in Versions
      BY <1>1, <2>2, ToolsAssumption DEF InstallShape
    <3>3. Listed' = entry'
      BY <3>2 DEF Listed
    <3>4. enabled' /\ Whole(dir', Listed')
      BY <1>1, <2>1, <2>2, <3>1, <3>3 DEF InstallSound, disk, unit
    <3>5. QED BY <3>1, <3>2, <3>3, <3>4, ActualIs
  <2>3. CASE Step("discard") /\ Still
    <3>1. Same /\ tool'.step = "discard" /\ tool' # Idle
      BY <1>1, <2>3, StepEffect, "discard" \in Tools[tool.kind]
    <3>2. ~damaged
      BY <2>3 DEF Still, ends
    <3>3. QED BY <1>1, <2>1, <3>1, <3>2 DEF InstallSound, Same
  <2>4. CASE Break("discard") /\ Still
    <3>1. Same /\ tool'.step = "discard" /\ tool' # Idle
      BY <1>1, <2>4, BreakEffect, "discard" \in Tools[tool.kind]
    <3>2. ~damaged
      BY <2>4 DEF Still, ends
    <3>3. QED BY <1>1, <2>1, <3>1, <3>2 DEF InstallSound, Same
  <2>5. QED BY <1>5, <2>2, <2>3, <2>4 DEF RecordInstall, Raise
<1>6. CASE Discard
  <2>1. dir' = None /\ enabled' = FALSE /\ Fails /\ UNCHANGED <<entry, tomb>>
    BY <1>1, <1>6, DiesSound DEF Discard
  <2>2. ~damaged /\ ~tool.broken /\ tool' = Idle /\ UNCHANGED legacy
    BY <1>1, <2>1, FailsSound
  <2>3. Listed' = None
    BY <1>1, <2>1, <2>2 DEF Listed
  <2>4. QED BY <2>1, <2>2, <2>3, ActualIs
<1>7. QED BY <1>2, <1>3, <1>4, <1>5, <1>6

LEMMA ChangeRight ==
  ASSUME Typed, Sound, ~damaged', tool.kind = "change",
         Stage \/ Stop \/ Archive \/ Resume \/ Copy \/ RecordChange \/ Start \/ Check
  PROVE  /\ ~damaged
         /\ tool' # Idle => tool'.kind = tool.kind /\ tool'.before = tool.before /\ ChangeSound'
         /\ tool' = Idle => Intact' /\ Actual' \in Versions
<1>1. /\ TypeOK /\ tool # Idle /\ ChangeShape /\ dir \in Contents /\ entry \in Versions /\ None \notin Versions
      /\ entry # None /\ Listed = entry
      /\ Tools[tool.kind] = {"stage", "stop", "archive", "copy", "record", "start", "check", "resume",
                             "unstart", "setAside", "extract", "own", "clear", "unrecord", "restart"}
      /\ ~damaged => ChangeSound
  BY IdleApart, ToolsAssumption DEF Typed, TypeOK, Shape, ChangeShape, Sound, Tools, Listed
<1>2. CASE Stage
  <2>1. UNCHANGED <<disk, entry, tomb, unit>> /\ tool.step = "stage"
    BY <1>1, <1>2 DEF Stage
  <2>2. CASE Step("stop") /\ Still
    <3>1. Same /\ tool'.step = "stop" /\ tool' # Idle
      BY <1>1, <2>2, StepEffect, "stop" \in Tools[tool.kind]
    <3>2. ~damaged
      BY <2>2 DEF Still, ends
    <3>3. QED BY <1>1, <2>1, <3>1, <3>2 DEF ChangeSound, Same, Whole, unit, disk, Trial, Restored
  <2>3. CASE Fails
    <3>1. ~damaged /\ tool' = Idle
      BY <1>1, <2>3, FailsSound
    <3>2. Listed' = entry' /\ entry' # None /\ entry' \in Versions /\ enabled' /\ Whole(dir', Listed')
      BY <1>1, <2>1, <3>1 DEF ChangeSound, Listed, Whole, disk, unit
    <3>3. QED BY <3>1, <3>2, ActualIs
  <2>4. QED BY <1>1, <1>2, <2>2, <2>3 DEF Stage
<1>3. CASE Stop
  <2>1. UNCHANGED <<disk, listing, enabled>> /\ tool.step = "stop" /\ dir # None /\ ~damaged
    BY <1>1, <1>3 DEF Stop, Still, ends, ChangeShape
  <2>2. PICK step \in {"archive", "resume"} : tool' = [tool EXCEPT !.wasActive = active, !.step = step]
    BY <1>1, <1>3, <2>1 DEF Stop
  <2>3. /\ tool'.kind = tool.kind /\ tool'.before = tool.before /\ tool'.old = tool.old
        /\ tool'.software = tool.software /\ tool'.step = step /\ tool' # Idle
    BY <1>1, <2>2, StopEffect, step \in Tools[tool.kind]
  <2>4. QED BY <1>1, <2>1, <2>3 DEF ChangeSound, Whole, listing, disk, Trial, Restored
<1>4. CASE Archive
  <2>1. UNCHANGED <<dir, listing, unit>> /\ tool.step = "archive" /\ ~damaged
    BY <1>1, <1>4 DEF Archive, Still, ends
  <2>2. CASE tool' = [tool EXCEPT !.backup = dir, !.step = "copy"]
    <3>1. /\ tool'.kind = tool.kind /\ tool'.before = tool.before /\ tool'.old = tool.old
          /\ tool'.software = tool.software /\ tool'.step = "copy" /\ tool' # Idle /\ tool'.backup = dir
      BY <1>1, <2>2, ArchiveEffect, "copy" \in Tools[tool.kind]
    <3>2. QED BY <1>1, <2>1, <3>1 DEF ChangeSound, Whole, listing, unit, Trial, Restored
  <2>3. CASE Step("resume")
    <3>1. Same /\ tool'.step = "resume" /\ tool' # Idle
      BY <1>1, <2>3, StepEffect, "resume" \in Tools[tool.kind]
    <3>2. QED BY <1>1, <2>1, <3>1 DEF ChangeSound, Same, Whole, listing, unit, Trial, Restored
  <2>4. QED BY <1>1, <1>4, <2>2, <2>3 DEF Archive, Raise
<1>5. CASE Resume
  <2>1. UNCHANGED <<disk, entry, tomb, enabled>> /\ Fails /\ tool.step = "resume"
    BY <1>1, <1>5, DiesSound DEF Resume
  <2>2. ~damaged /\ tool' = Idle
    BY <1>1, <2>1, FailsSound
  <2>3. Listed' = entry' /\ entry' # None /\ entry' \in Versions /\ enabled' /\ Whole(dir', Listed')
    BY <1>1, <2>1, <2>2 DEF ChangeSound, Listed, Whole, disk
  <2>4. QED BY <2>2, <2>3, ActualIs
<1>6. CASE Copy
  <2>1. UNCHANGED <<listing, unit>> /\ tool.step = "copy" /\ ~damaged /\ dir \in Content
    BY <1>1, <1>6 DEF Copy, At, Still, ends, ChangeShape, Contents
  <2>2. CASE dir' = [dir EXCEPT !.software = tool.software] /\ Step("record")
    <3>1. Same /\ tool'.step = "record" /\ tool' # Idle
      BY <1>1, <2>2, StepEffect, "record" \in Tools[tool.kind]
    <3>2. Whole(dir', tool.software)
      <4>1. Typed'
        BY <1>6, ChangeTyped
      <4>2. dir' # None
        BY <1>1, <3>1, <4>1 DEF Typed, Shape, ChangeShape, Same
      <4>3. dir'.whole /\ dir'.software = tool.software
        BY <1>1, <2>1, <2>2 DEF ChangeSound, Whole, Content
      <4>4. QED BY <4>2, <4>3 DEF Whole
    <3>3. QED BY <1>1, <2>1, <3>1, <3>2 DEF ChangeSound, Same, Whole, listing, unit, Trial, Restored
  <2>3. CASE Step("unstart")
    <3>1. Same /\ tool'.step = "unstart" /\ tool' # Idle
      BY <1>1, <2>3, StepEffect, "unstart" \in Tools[tool.kind]
    <3>2. QED BY <1>1, <2>1, <3>1 DEF ChangeSound, Same, Whole, listing, unit, Trial, Restored
  <2>4. QED BY <1>6, <2>2, <2>3 DEF Copy, Raise
<1>7. CASE RecordChange
  <2>1. UNCHANGED <<disk, unit, tomb>> /\ tool.step = "record"
    BY <1>7 DEF RecordChange, At
  <2>2. CASE entry' = tool.software /\ Step("start") /\ Still
    <3>1. Same /\ tool'.step = "start" /\ tool' # Idle
      BY <1>1, <2>2, StepEffect, "start" \in Tools[tool.kind]
    <3>2. ~damaged
      BY <2>2 DEF Still, ends
    <3>3. QED BY <1>1, <2>1, <2>2, <3>1, <3>2 DEF ChangeSound, Same, Whole, disk, unit, Trial, Restored
  <2>3. CASE entry' = tool.software /\ Ends("ok")
    <3>1. ~damaged /\ tool' = Idle
      BY <1>1, <2>3, EndsSound
    <3>2. Listed' = entry' /\ entry' # None /\ entry' \in Versions
      BY <1>1, <2>3 DEF Listed, ChangeShape
    <3>3. enabled' /\ Whole(dir', Listed')
      BY <1>1, <2>1, <2>3, <3>1, <3>2 DEF ChangeSound, Whole, disk, unit
    <3>4. QED BY <3>1, <3>2, <3>3, ActualIs
  <2>4. CASE Step("unstart") /\ Still
    <3>1. Same /\ tool'.step = "unstart" /\ tool' # Idle
      BY <1>1, <2>4, StepEffect, "unstart" \in Tools[tool.kind]
    <3>2. ~damaged
      BY <2>4 DEF Still, ends
    <3>3. QED BY <1>1, <2>1, <3>1, <3>2 DEF ChangeSound, Same, Whole, disk, unit, Trial, Restored
  <2>5. QED BY <1>7, <2>2, <2>3, <2>4 DEF RecordChange, Raise
<1>8. CASE Start
  <2>1. UNCHANGED <<disk, listing, enabled>> /\ tool.step = "start" /\ ~damaged
    BY <1>8 DEF Start, At, Still, ends
  <2>2. PICK step \in {"check", "unstart"} : Step(step)
    BY <1>8 DEF Start, Raise
  <2>3. Same /\ tool'.step = step /\ tool' # Idle
    BY <1>1, <2>2, StepEffect, step \in Tools[tool.kind]
  <2>4. QED BY <1>1, <2>1, <2>3 DEF ChangeSound, Same, Whole, disk, listing, Trial, Restored
<1>9. CASE Check
  <2>1. UNCHANGED <<disk, entry, tomb, unit>> /\ tool.step = "check"
    BY <1>9 DEF Check, At
  <2>2. CASE Ends("ok")
    <3>1. ~damaged /\ tool' = Idle
      BY <1>1, <2>2, EndsSound
    <3>2. Listed' = entry' /\ entry' # None /\ entry' \in Versions /\ enabled' /\ Whole(dir', Listed')
      BY <1>1, <2>1, <3>1 DEF ChangeSound, Listed, Whole, disk, unit
    <3>3. QED BY <3>1, <3>2, ActualIs
  <2>3. CASE Step("unstart") /\ Still
    <3>1. Same /\ tool'.step = "unstart" /\ tool' # Idle
      BY <1>1, <2>3, StepEffect, "unstart" \in Tools[tool.kind]
    <3>2. ~damaged
      BY <2>3 DEF Still, ends
    <3>3. QED BY <1>1, <2>1, <3>1, <3>2 DEF ChangeSound, Same, Whole, disk, unit, Trial, Restored
  <2>4. QED BY <1>9, <2>2, <2>3 DEF Check
<1>10. QED BY <1>2, <1>3, <1>4, <1>5, <1>6, <1>7, <1>8, <1>9

LEMMA RollbackRight ==
  ASSUME Typed, Guarded, Sound, ~damaged', tool.kind = "change",
         Unstart \/ SetAside \/ Extract \/ Own \/ ClearChange \/ Unrecord \/ Restart
  PROVE  /\ ~damaged
         /\ tool' # Idle => tool'.kind = tool.kind /\ tool'.before = tool.before /\ ChangeSound'
         /\ tool' = Idle => Intact' /\ Actual' \in Versions
<1>1. /\ TypeOK /\ tool # Idle /\ ChangeShape /\ ChangeStake /\ entry \in Versions /\ None \notin Versions
      /\ entry # None /\ Listed = entry
      /\ Tools[tool.kind] = {"stage", "stop", "archive", "copy", "record", "start", "check", "resume",
                             "unstart", "setAside", "extract", "own", "clear", "unrecord", "restart"}
      /\ ~damaged => ChangeSound
  BY IdleApart, ToolsAssumption DEF Typed, TypeOK, Shape, ChangeShape, Sound, Tools, Listed, Guarded
<1>2. CASE Unstart
  <2>1. UNCHANGED <<disk, listing, enabled>> /\ tool.step = "unstart" /\ ~damaged
    BY <1>2 DEF Unstart, At, Still, ends
  <2>2. Same /\ tool'.step = "setAside" /\ tool' # Idle
    BY <1>1, <1>2, StepEffect, BreakEffect, "setAside" \in Tools[tool.kind] DEF Unstart
  <2>3. QED BY <1>1, <2>1, <2>2 DEF ChangeSound, Same, Whole, Trial, Restored
<1>3. CASE SetAside
  <2>1. UNCHANGED unit /\ tool.step = "setAside" /\ Step("extract") /\ ~damaged
    BY <1>1, <1>3, DiesSound, StillSound DEF SetAside, At
  <2>2. Same /\ tool'.step = "extract" /\ tool' # Idle
    BY <1>1, <2>1, StepEffect, "extract" \in Tools[tool.kind]
  <2>3. QED BY <1>1, <2>1, <2>2 DEF ChangeSound, Same, Whole, Trial, Restored, unit
<1>4. CASE Extract
  <2>1. UNCHANGED unit /\ tool.step = "extract" /\ Step("own") /\ ~damaged
    BY <1>1, <1>4, DiesSound, StillSound DEF Extract, At
  <2>2. Same /\ tool'.step = "own" /\ tool' # Idle
    BY <1>1, <2>1, StepEffect, "own" \in Tools[tool.kind]
  <2>3. QED BY <1>1, <2>1, <2>2 DEF ChangeSound, Same, Whole, Trial, Restored, unit
<1>5. CASE Own
  <2>1. UNCHANGED unit /\ tool.step = "own" /\ Step("clear") /\ ~damaged
    BY <1>1, <1>5, DiesSound, StillSound DEF Own, At
  <2>2. Same /\ tool'.step = "clear" /\ tool' # Idle
    BY <1>1, <2>1, StepEffect, "clear" \in Tools[tool.kind]
  <2>3. QED BY <1>1, <2>1, <2>2 DEF ChangeSound, Same, Whole, Trial, Restored, unit
<1>6. CASE ClearChange
  <2>1. UNCHANGED <<dir, unit>> /\ tool.step = "clear" /\ Step("unrecord") /\ ~damaged
    BY <1>1, <1>6, DiesSound, StillSound DEF ClearChange, At
  <2>2. Same /\ tool'.step = "unrecord" /\ tool' # Idle
    BY <1>1, <2>1, StepEffect, "unrecord" \in Tools[tool.kind]
  <2>3. Whole(dir, tool.old)
    BY <1>1, <2>1 DEF ChangeSound, ChangeStake, Trial, Restored
  <2>4. QED BY <1>1, <2>1, <2>2, <2>3 DEF ChangeSound, Same, Whole, Trial, Restored, unit
<1>7. CASE Unrecord
  <2>1. UNCHANGED <<disk, unit>> /\ tool.step = "unrecord" /\ Step("restart") /\ entry' = tool.old /\ ~damaged
    BY <1>1, <1>7, DiesSound, StillSound DEF Unrecord, At
  <2>2. Same /\ tool'.step = "restart" /\ tool' # Idle
    BY <1>1, <2>1, StepEffect, "restart" \in Tools[tool.kind]
  <2>3. QED BY <1>1, <2>1, <2>2 DEF ChangeSound, Same, Whole, Trial, Restored, disk, unit
<1>8. CASE Restart
  <2>1. UNCHANGED <<disk, entry, tomb, enabled>> /\ Fails /\ tool.step = "restart"
    BY <1>1, <1>8, DiesSound DEF Restart, At
  <2>2. ~damaged /\ tool' = Idle
    BY <1>1, <2>1, FailsSound
  <2>3. Listed' = entry' /\ entry' # None /\ entry' \in Versions /\ enabled' /\ Whole(dir', Listed')
    BY <1>1, <2>1, <2>2 DEF ChangeSound, Listed, Whole, disk
  <2>4. QED BY <2>2, <2>3, ActualIs
<1>9. QED BY <1>2, <1>3, <1>4, <1>5, <1>6, <1>7, <1>8

LEMMA DeleteRight ==
  ASSUME Typed, Sound, ~damaged', tool.kind = "delete",
         Stop \/ Archive \/ Resume \/ Disable \/ Move \/ RecordDelete \/ ClearDelete \/ PutBack \/ Reenable
  PROVE  /\ ~damaged
         /\ tool' # Idle => tool'.kind = tool.kind /\ tool'.before = tool.before /\ DeleteSound'
         /\ tool' = Idle => /\ Intact'
                           /\ \/ Actual' = tool.before
                              \/ Actual' = Free /\ tool.before \in Softwares \cup {Stale}
<1>1. /\ TypeOK /\ tool # Idle /\ DeleteShape /\ Listed \in Softwares \cup {None}
      /\ Tools[tool.kind] = {"stop", "archive", "disable", "move", "record", "clear", "putBack", "reenable", "resume"}
      /\ ~damaged => DeleteSound
  BY IdleApart, ListedType DEF Typed, Shape, Sound, Tools
<1>2. CASE Stop
  <2>1. UNCHANGED <<disk, listing, enabled>> /\ tool.step = "stop" /\ ~damaged
    BY <1>1, <1>2, StillSound DEF Stop
  <2>2. PICK step \in {"archive", "disable", "reenable"} : tool' = [tool EXCEPT !.wasActive = active, !.step = step]
    BY <1>1, <1>2, <2>1 DEF Stop
  <2>3. /\ tool'.kind = tool.kind /\ tool'.before = tool.before /\ tool'.step = step /\ tool' # Idle
        /\ tool'.broken = tool.broken
    BY <1>1, <2>2, StopEffect, step \in Tools[tool.kind]
  <2>4. DeleteSound'
    BY <1>1, <2>1, <2>3 DEF DeleteSound, Whole, listing, disk, Listed
  <2>5. QED BY <2>1, <2>3, <2>4
<1>3. CASE Archive
  <2>1. UNCHANGED <<dir, aside, listing, unit>> /\ tool.step = "archive" /\ ~damaged
    BY <1>1, <1>3, StillSound DEF Archive
  <2>2. \/ tool' = [tool EXCEPT !.backup = dir, !.step = "disable"]
        \/ Step("reenable")
    BY <1>1, <1>3 DEF Archive, Raise
  <2>3. PICK step \in {"disable", "reenable"} :
          tool'.kind = tool.kind /\ tool'.before = tool.before /\ tool'.step = step /\ tool' # Idle
          /\ tool'.broken = tool.broken
    BY <1>1, <2>2, ArchiveEffect, StepEffect, "disable" \in Tools[tool.kind], "reenable" \in Tools[tool.kind] DEF Same
  <2>4. DeleteSound'
    BY <1>1, <2>1, <2>3 DEF DeleteSound, Whole, listing, unit, Listed
  <2>5. QED BY <2>1, <2>3, <2>4
<1>4. CASE Resume
  <2>1. UNCHANGED <<disk, entry, tomb, enabled>> /\ Fails /\ tool.step = "resume"
    BY <1>1, <1>4, DiesSound DEF Resume
  <2>2. ~damaged /\ tool' = Idle /\ ~tool.broken /\ UNCHANGED legacy
    BY <1>1, <2>1, FailsSound
  <2>3. Listed' = Listed /\ Listed # None /\ UNCHANGED <<dir, enabled>>
    BY <1>1, <2>1, <2>2 DEF Listed, DeleteShape, disk
  <2>4. \/ tool.before = Stale /\ Listed = Manual /\ dir = None
        \/ tool.before = Listed /\ Whole(dir, Listed) /\ enabled
    BY <1>1, <2>1, <2>2 DEF DeleteSound
  <2>5. QED BY <2>2, <2>3, <2>4, ActualIs
<1>5. CASE Disable
  <2>1. UNCHANGED <<disk, listing, active>> /\ tool.step = "disable" /\ ~damaged
    BY <1>5, StillSound DEF Disable, At
  <2>2. PICK step \in {"record", "move", "reenable"} :
          /\ Step(step) /\ (step = "record" => dir = None)
          /\ step # "reenable" => enabled' = FALSE
    BY <1>5 DEF Disable, Raise
  <2>3. Same /\ tool'.step = step /\ tool' # Idle /\ tool'.broken = tool.broken
    BY <1>1, <2>2, StepEffect, step \in Tools[tool.kind]
  <2>4. DeleteSound'
    BY <1>1, <2>1, <2>2, <2>3 DEF DeleteSound, Same, Whole, listing, disk, Listed
  <2>5. QED BY <2>1, <2>3, <2>4 DEF Same
<1>6. CASE Move
  <2>1. UNCHANGED <<listing, unit>> /\ tool.step = "move" /\ ~damaged /\ dir # None /\ aside = None
    BY <1>1, <1>6, StillSound DEF Move, At, DeleteShape
  <2>2. CASE dir' = None /\ aside' = dir /\ Step("record")
    <3>1. Same /\ tool'.step = "record" /\ tool' # Idle /\ tool'.broken = tool.broken
      BY <1>1, <2>2, StepEffect, "record" \in Tools[tool.kind]
    <3>2. DeleteSound'
      BY <1>1, <2>1, <2>2, <3>1 DEF DeleteSound, Same, Whole, listing, unit, Listed
    <3>3. QED BY <2>1, <3>1, <3>2 DEF Same
  <2>3. CASE UNCHANGED <<dir, aside>> /\ Step("reenable")
    <3>1. Same /\ tool'.step = "reenable" /\ tool' # Idle /\ tool'.broken = tool.broken
      BY <1>1, <2>3, StepEffect, "reenable" \in Tools[tool.kind]
    <3>2. DeleteSound'
      BY <1>1, <2>1, <2>3, <3>1 DEF DeleteSound, Same, Whole, listing, unit, Listed
    <3>3. QED BY <2>1, <3>1, <3>2 DEF Same
  <2>4. QED BY <1>6, <2>2, <2>3 DEF Move, Raise
<1>7. CASE RecordDelete
  <2>1. /\ UNCHANGED <<disk, unit>> /\ tool.step = "record" /\ dir = None /\ Listed # None /\ Loadable
        /\ tool.old = entry /\ (~damaged => ~enabled) /\ ~tool.broken
    BY <1>1, <1>7 DEF RecordDelete, At, DeleteShape, DeleteSound
  <2>2. ASSUME entry' = None, tomb' = (tomb \/ tool.old = None), UNCHANGED legacy
        PROVE  Listed' = None
    BY <2>1, <2>2 DEF Listed, Loadable
  <2>3. CASE entry' = None /\ tomb' = (tomb \/ tool.old = None) /\ Ends("ok") /\ aside = None
    <3>1. ~damaged /\ tool' = Idle /\ UNCHANGED legacy
      BY <1>1, <2>3, EndsSound
    <3>2. Listed' = None /\ dir' = None /\ ~enabled'
      BY <2>1, <2>2, <2>3, <3>1 DEF disk, unit
    <3>3. tool.before = Stale
      BY <1>1, <2>1, <2>3, <3>1 DEF DeleteSound, Whole
    <3>4. QED BY <3>1, <3>2, <3>3, ActualIs
  <2>4. CASE Step("clear") /\ Still /\ aside # None
    <3>1. Same /\ tool'.step = "clear" /\ tool' # Idle /\ tool'.broken = tool.broken
      BY <1>1, <2>4, StepEffect, "clear" \in Tools[tool.kind]
    <3>2. ~damaged
      BY <2>4, StillSound
    <3>3. tool.before \in Softwares
      BY <1>1, <2>1, <2>4, <3>2 DEF DeleteSound
    <3>4. DeleteSound'
      BY <2>1, <3>1, <3>2, <3>3 DEF DeleteSound, Same, unit
    <3>5. QED BY <3>1, <3>2, <3>4 DEF Same
  <2>5. CASE UNCHANGED listing /\ Still /\ \E step \in {"reenable", "putBack"} :
               Step(step) /\ (step = "reenable" <=> aside = None)
    <3>1. PICK step \in {"reenable", "putBack"} : Step(step) /\ (step = "reenable" <=> aside = None)
      BY <2>5
    <3>2. Same /\ tool'.step = step /\ tool' # Idle /\ tool'.broken = tool.broken
      BY <1>1, <3>1, StepEffect, step \in Tools[tool.kind]
    <3>3. ~damaged
      BY <2>5, StillSound
    <3>4. DeleteSound'
      BY <1>1, <2>1, <2>5, <3>1, <3>2, <3>3 DEF DeleteSound, Same, Whole, listing, disk, unit, Listed
    <3>5. QED BY <3>2, <3>3, <3>4 DEF Same
  <2>6. CASE Raise(Undelete) /\ UNCHANGED listing /\ Still
    BY <2>5, <2>6 DEF Raise, Undelete
  <2>7. CASE Break(Undelete) /\ Still
    <3>1. PICK step \in {"reenable", "putBack"} : step = Undelete
      BY DEF Undelete
    <3>2. Same /\ tool'.step = step /\ tool' # Idle /\ tool'.broken = TRUE
      BY <1>1, <2>7, <3>1, BreakEffect, step \in Tools[tool.kind]
    <3>3. ~damaged
      BY <2>7, StillSound
    <3>4. DeleteSound'
      BY <3>1, <3>2 DEF DeleteSound
    <3>5. QED BY <3>2, <3>3, <3>4 DEF Same
  <2>8. QED BY <1>7, <2>3, <2>4, <2>6, <2>7 DEF RecordDelete
<1>8. CASE ClearDelete
  <2>1. UNCHANGED <<dir, entry, tomb, unit>> /\ tool.step = "clear" /\ Ends("ok") /\ Listed = None /\ dir = None
    BY <1>1, <1>8 DEF ClearDelete, At, DeleteShape
  <2>2. ~damaged /\ tool' = Idle /\ UNCHANGED legacy
    BY <1>1, <2>1, EndsSound
  <2>3. Listed' = None /\ dir' = None /\ ~enabled' /\ tool.before \in Softwares
    BY <1>1, <2>1, <2>2 DEF DeleteSound, Listed, unit
  <2>4. QED BY <2>2, <2>3, ActualIs
<1>9. CASE PutBack
  <2>1. /\ UNCHANGED <<entry, tomb, unit, legacy>> /\ tool.step = "putBack" /\ aside # None
        /\ dir' = aside /\ aside' = None /\ Step("reenable") /\ ~damaged
    BY <1>1, <1>9, DiesSound, StillSound DEF PutBack, At, DeleteShape
  <2>2. Same /\ tool'.step = "reenable" /\ tool' # Idle /\ tool'.broken = tool.broken
    BY <1>1, <2>1, StepEffect, "reenable" \in Tools[tool.kind]
  <2>3. DeleteSound'
    BY <1>1, <2>1, <2>2 DEF DeleteSound, Same, Whole, unit, Listed
  <2>4. QED BY <2>1, <2>2, <2>3 DEF Same
<1>10. CASE Reenable
  <2>1. UNCHANGED <<disk, listing>> /\ tool.step = "reenable" /\ ~damaged
    BY <1>10, StillSound DEF Reenable, At
  <2>2. /\ Same /\ tool'.step = "resume" /\ tool' # Idle
        /\ \/ tool'.broken = tool.broken /\ enabled' = TRUE
           \/ tool'.broken = TRUE
    BY <1>1, <1>10, StepEffect, BreakEffect, "resume" \in Tools[tool.kind] DEF Reenable
  <2>3. DeleteSound'
    BY <1>1, <2>1, <2>2 DEF DeleteSound, Same, Whole, disk, listing, Listed
  <2>4. QED BY <2>1, <2>2, <2>3 DEF Same
<1>11. QED BY <1>2, <1>3, <1>4, <1>5, <1>6, <1>7, <1>8, <1>9, <1>10

LEMMA BeginsRight ==
  ASSUME Typed, Sound, ~damaged', (\E v \in Versions : InstallBegins(v) \/ ChangeBegins(v)) \/ DeleteBegins
  PROVE  /\ ~damaged /\ tool = Idle /\ tool' # Idle /\ tool'.before = Actual
         /\ tool'.kind = "install" => InstallSound'
         /\ tool'.kind = "change" => ChangeSound'
         /\ tool'.kind = "delete" => DeleteSound'
<1>1. TypeOK /\ (tool = Idle => aside = None) /\ Manual # None /\ Manual \notin Versions
  BY ToolsAssumption DEF Typed, Shape
<1>2. ASSUME NEW kind \in Kinds, NEW step \in Tools[kind], NEW software \in Versions \cup {None},
             Begin(kind, step, software)
      PROVE  /\ ~damaged /\ tool = Idle /\ Intact /\ aside = None /\ UNCHANGED <<disk, listing, unit>>
             /\ tool' # Idle /\ tool'.kind = kind /\ tool'.step = step /\ tool'.old = entry
             /\ tool'.before = Actual
  <2>1. UNCHANGED <<disk, listing, unit, ends>> /\ tool = Idle
    BY <1>2 DEF Begin
  <2>2. ~damaged
    BY <2>1 DEF ends
  <2>3. QED BY <1>1, <1>2, <2>1, <2>2, BeginEffect DEF Sound
<1>3. "install" \in Kinds /\ "change" \in Kinds /\ "delete" \in Kinds
  BY DEF Kinds
<1>4. "stage" \in Tools["install"] /\ "stage" \in Tools["change"] /\ "stop" \in Tools["delete"]
  BY DEF Tools
<1>5. ASSUME NEW v \in Versions, InstallBegins(v)
      PROVE  /\ ~damaged /\ tool = Idle /\ tool' # Idle /\ tool'.before = Actual
             /\ tool'.kind = "install" /\ InstallSound'
  <2>1. Listed = None /\ dir = None /\ Begin("install", "stage", v)
    BY <1>5 DEF InstallBegins
  <2>2. /\ ~damaged /\ tool = Idle /\ Intact /\ UNCHANGED unit /\ tool' # Idle
        /\ tool'.kind = "install" /\ tool'.step = "stage" /\ tool'.before = Actual
    BY <1>2, <1>3, <1>4, <2>1
  <2>3. ~enabled
    BY <1>1, <2>1, <2>2 DEF Intact
  <2>4. Actual = Free
    BY <2>1, <2>3, NowActual
  <2>5. QED BY <2>2, <2>3, <2>4 DEF InstallSound, unit
<1>6. ASSUME NEW v \in Versions, ChangeBegins(v)
      PROVE  /\ ~damaged /\ tool = Idle /\ tool' # Idle /\ tool'.before = Actual
             /\ tool'.kind = "change" /\ ChangeSound'
  <2>1. entry # None /\ dir # None /\ Begin("change", "stage", v)
    BY <1>6 DEF ChangeBegins
  <2>2. /\ ~damaged /\ tool = Idle /\ Intact /\ UNCHANGED <<disk, listing, unit>> /\ tool' # Idle
        /\ tool'.kind = "change" /\ tool'.step = "stage" /\ tool'.old = entry /\ tool'.before = Actual
    BY <1>2, <1>3, <1>4, <2>1
  <2>3. Listed = entry /\ Listed # Manual
    BY <1>1, <2>1 DEF Listed, TypeOK
  <2>4. Listed # None /\ enabled /\ Whole(dir, Listed)
    BY <2>1, <2>2, <2>3 DEF Intact
  <2>5. Actual = entry
    BY <2>3, <2>4, NowActual
  <2>6. QED BY <2>2, <2>3, <2>4, <2>5 DEF ChangeSound, Whole, disk, listing, unit, Trial, Restored
<1>7. CASE DeleteBegins
  <2>1. Listed # None /\ Begin("delete", "stop", None)
    BY <1>7 DEF DeleteBegins
  <2>2. /\ ~damaged /\ tool = Idle /\ Intact /\ aside = None /\ UNCHANGED <<disk, listing, unit>> /\ tool' # Idle
        /\ tool'.kind = "delete" /\ tool'.step = "stop" /\ tool'.before = Actual
    BY <1>2, <1>3, <1>4, <2>1
  <2>3. \/ Listed = Manual /\ dir = None /\ Actual = Stale
        \/ Whole(dir, Listed) /\ Actual = Listed
    BY <2>1, <2>2, NowActual DEF Intact
  <2>4. DeleteSound'
    BY <2>2, <2>3 DEF DeleteSound, Whole, disk, listing, Listed
  <2>5. QED BY <2>2, <2>4
<1>8. QED BY <1>5, <1>6, <1>7

LEMMA OthersRight ==
  ASSUME Typed, Sound, ~damaged', ManagedAction \/ ServerExits \/ Play \/ UNCHANGED vars
  PROVE  Sound' /\ ~damaged /\ tool' = tool /\ (tool = Idle => Actual' = Actual)
<1>1. tool' = tool /\ UNCHANGED <<aside, listing, enabled, damaged>>
  BY DEF ManagedAction, ServerExits, Play, vars, disk, listing, unit, ends
<1>2. ~damaged
  BY <1>1
<1>3. Listed' = Listed
  BY <1>1 DEF listing, Listed
<1>4. CASE UNCHANGED dir
  BY <1>1, <1>2, <1>3, <1>4 DEF Sound, Intact, InstallSound, ChangeSound, DeleteSound, Whole, Actual, listing
<1>5. CASE Play
  <2>1. active /\ dir # None /\ dir' # None /\ dir'.whole = dir.whole /\ dir'.software = dir.software
    BY <1>5, PlayEffect DEF Play, Typed
  <2>2. \A software : Whole(dir', software) <=> Whole(dir, software)
    BY <2>1 DEF Whole
  <2>3. tool.kind # "install"
    BY <2>1 DEF Typed, Shape, InstallShape
  <2>4. tool.kind = "change" => ChangeSound'
    BY <1>1, <1>2, <2>2 DEF Sound, ChangeSound, Whole, listing
  <2>5. tool.kind = "delete" => DeleteSound'
    BY <1>1, <1>2, <1>3, <2>1, <2>2 DEF Sound, DeleteSound, Whole
  <2>6. tool = Idle => Intact' /\ Actual' = Actual
    BY <1>1, <1>2, <1>3, <2>1, <2>2 DEF Sound, Intact, Whole, Actual
  <2>7. QED BY <1>1, <1>2, <2>3, <2>4, <2>5, <2>6 DEF Sound
<1>6. QED BY <1>4, <1>5 DEF ManagedAction, ServerExits, vars, disk

LEMMA KilledRight ==
  ASSUME Typed, Sound, ~damaged', NEW crash \in BOOLEAN, Killed(crash)
  PROVE  Sound' /\ ~damaged /\ tool = Idle /\ tool' = Idle /\ Actual' = Actual
<1>1. tool = Idle /\ tool' = Idle /\ UNCHANGED <<dir, listing, enabled, ends>>
  BY DEF Killed
<1>2. ~damaged
  BY <1>1 DEF ends
<1>3. Listed' = Listed
  BY <1>1 DEF listing, Listed
<1>4. Intact' /\ Actual' = Actual
  BY <1>1, <1>2, <1>3 DEF Sound, Intact, Whole, Actual
<1>5. QED BY <1>1, <1>2, <1>4, IdleApart DEF Sound

LEMMA KindCases ==
  ASSUME TypeOK, ToolStep
  PROVE  /\ tool # Idle /\ tool.kind \in Kinds
         /\ tool.kind = "install" => Stage \/ Place \/ Enable \/ RecordInstall \/ Discard
         /\ tool.kind = "change" =>
               \/ Stage \/ Stop \/ Archive \/ Resume \/ Copy \/ RecordChange \/ Start \/ Check
               \/ Unstart \/ SetAside \/ Extract \/ Own \/ ClearChange \/ Unrecord \/ Restart
         /\ tool.kind = "delete" =>
               \/ Stop \/ Archive \/ Resume \/ Disable \/ Move \/ RecordDelete \/ ClearDelete \/ PutBack
               \/ Reenable
<1>1. tool # Idle
  BY IdleApart DEF ToolStep, Stage, Stop, Archive, Resume, Place, Enable, RecordInstall, Discard, Copy,
        RecordChange, Start, Check, Unstart, SetAside, Extract, Own, ClearChange, Unrecord, Restart,
        Disable, Move, RecordDelete, ClearDelete, PutBack, Reenable, At
<1>2. tool.kind \in Kinds
  BY <1>1, ToolCases
<1>3. tool.kind = "install" => Stage \/ Place \/ Enable \/ RecordInstall \/ Discard
  BY DEF ToolStep, Stop, Archive, Resume, Copy,
        RecordChange, Start, Check, Unstart, SetAside, Extract, Own, ClearChange, Unrecord, Restart,
        Disable, Move, RecordDelete, ClearDelete, PutBack, Reenable, At
<1>4. tool.kind = "change" =>
        \/ Stage \/ Stop \/ Archive \/ Resume \/ Copy \/ RecordChange \/ Start \/ Check
        \/ Unstart \/ SetAside \/ Extract \/ Own \/ ClearChange \/ Unrecord \/ Restart
  BY DEF ToolStep, Place, Enable, RecordInstall, Discard,
        Disable, Move, RecordDelete, ClearDelete, PutBack, Reenable, At
<1>5. tool.kind = "delete" =>
        \/ Stop \/ Archive \/ Resume \/ Disable \/ Move \/ RecordDelete \/ ClearDelete \/ PutBack
        \/ Reenable
  BY DEF ToolStep, Stage, Place, Enable, RecordInstall, Discard, Copy,
        RecordChange, Start, Check, Unstart, SetAside, Extract, Own, ClearChange, Unrecord, Restart, At
<1>6. QED BY <1>1, <1>2, <1>3, <1>4, <1>5

(* The server as ManagedServer sees it.                                    *)
Seen == IF damaged THEN Damaged ELSE IF tool # Idle THEN tool.before ELSE Actual

SeenStep ==
  \/ Seen' = Seen \/ Seen' = Damaged
  \/ Seen \in Versions \cup {Free} /\ Seen' \in Versions
  \/ Seen \in Softwares \cup {Stale} /\ Seen' = Free

LEMMA ToolRight == ASSUME Typed, Guarded, Sound, ~damaged', ToolStep PROVE Sound' /\ SeenStep
<1>1. TypeOK /\ tool # Idle /\ tool.kind \in Kinds
  BY KindCases DEF Typed
<1>2. tool' = Idle => tool'.kind = "idle"
  BY IdleApart
<1>3. ASSUME ~damaged
      PROVE  /\ tool' # Idle /\ tool'.before = tool.before => SeenStep
             /\ tool' = Idle => Seen = tool.before /\ Seen' = Actual'
  BY <1>1, <1>3 DEF Seen, SeenStep
<1>4. CASE tool.kind = "install"
  <2>1. /\ ~damaged
        /\ tool' # Idle => Same /\ InstallSound'
        /\ tool' = Idle => Intact' /\ Actual' \in Versions \cup {Free}
    BY <1>1, <1>4, KindCases, InstallRight
  <2>2. tool.before = Free
    BY <1>4, <2>1 DEF Sound, InstallSound
  <2>3. Sound'
    BY <1>2, <1>4, <2>1 DEF Sound, Same
  <2>4. QED BY <1>3, <2>1, <2>2, <2>3 DEF SeenStep, Same
<1>5. CASE tool.kind = "change"
  <2>1. /\ ~damaged
        /\ tool' # Idle => tool'.kind = tool.kind /\ tool'.before = tool.before /\ ChangeSound'
        /\ tool' = Idle => Intact' /\ Actual' \in Versions
    BY <1>1, <1>5, KindCases, ChangeRight, RollbackRight
  <2>2. tool.before \in Versions
    <3>1. tool.before = tool.old /\ tool.old # None
      BY <1>5, <2>1 DEF Sound, ChangeSound, Typed, Shape, ChangeShape
    <3>2. QED BY <1>1, <3>1 DEF Typed, Shape
  <2>3. Sound'
    BY <1>2, <1>5, <2>1 DEF Sound
  <2>4. QED BY <1>3, <2>1, <2>2, <2>3 DEF SeenStep
<1>6. CASE tool.kind = "delete"
  <2>1. /\ ~damaged
        /\ tool' # Idle => tool'.kind = tool.kind /\ tool'.before = tool.before /\ DeleteSound'
        /\ tool' = Idle => /\ Intact'
                          /\ \/ Actual' = tool.before
                             \/ Actual' = Free /\ tool.before \in Softwares \cup {Stale}
    BY <1>1, <1>6, KindCases, DeleteRight
  <2>2. Sound'
    BY <1>2, <1>6, <2>1 DEF Sound
  <2>3. QED BY <1>3, <2>1, <2>2 DEF SeenStep
<1>7. QED BY <1>1, <1>4, <1>5, <1>6 DEF Kinds

LEMMA NextRight == ASSUME Typed, Guarded, Sound, [Next]_vars PROVE Sound' /\ SeenStep
<1>1. CASE damaged'
  BY <1>1 DEF Sound, Seen, SeenStep
<1>2. CASE ~damaged'
  <2>1. CASE (\E v \in Versions : InstallBegins(v) \/ ChangeBegins(v)) \/ DeleteBegins
    <3>1. /\ ~damaged /\ tool = Idle /\ tool' # Idle /\ tool'.before = Actual
          /\ tool'.kind = "install" => InstallSound'
          /\ tool'.kind = "change" => ChangeSound'
          /\ tool'.kind = "delete" => DeleteSound'
      BY <1>2, <2>1, BeginsRight
    <3>2. QED BY <1>2, <3>1 DEF Sound, Seen, SeenStep
  <2>2. CASE ToolStep
    BY <1>2, <2>2, ToolRight
  <2>3. CASE ManagedAction \/ ServerExits \/ Play \/ UNCHANGED vars
    <3>1. Sound' /\ ~damaged /\ tool' = tool /\ (tool = Idle => Actual' = Actual)
      BY <1>2, <2>3, OthersRight
    <3>2. QED BY <1>2, <3>1 DEF Seen, SeenStep
  <2>4. ASSUME NEW crash \in BOOLEAN, Killed(crash)
        PROVE  Sound' /\ SeenStep
    <3>1. Sound' /\ ~damaged /\ tool = Idle /\ tool' = Idle /\ Actual' = Actual
      BY <1>2, <2>4, KilledRight
    <3>2. QED BY <1>2, <3>1 DEF Seen, SeenStep
  <2>5. QED BY <2>1, <2>2, <2>3, <2>4 DEF Next
<1>3. QED BY <1>1, <1>2

LEMMA InitRight == ASSUME Init PROVE Sound /\ Seen \in Softwares \cup {Free, Stale}
<1>1. /\ ~damaged /\ tool = Idle /\ (enabled <=> Listed # None) /\ tomb = FALSE
      /\ dir = None \/ (Listed # None /\ Whole(dir, Listed))
      /\ Listed # None /\ dir = None => legacy /\ entry = None
  <2>1. ~damaged /\ tool = Idle /\ (enabled <=> Listed # None) /\ tomb = FALSE /\ (legacy => entry = None)
    BY DEF Init
  <2>2. Listed = None => dir = None
    BY DEF Init
  <2>3. ASSUME Listed # None
        PROVE  \/ dir = [life |-> 1, world |-> 0, whole |-> TRUE, software |-> Listed]
               \/ legacy /\ dir = None
    BY <2>3 DEF Init
  <2>4. ASSUME Listed # None
        PROVE  [life |-> 1, world |-> 0, whole |-> TRUE, software |-> Listed] # None
    <3>1. Listed \in Softwares /\ 1 \in Lives /\ 0 \in 0 .. MaxWorld
      BY InitTyped, ListedType, <2>4, ToolsAssumption DEF Typed, Lives
    <3>2. [life |-> 1, world |-> 0, whole |-> TRUE, software |-> Listed] \in Content
      BY <3>1 DEF Content
    <3>3. QED BY <3>2, NoneApart
  <2>5. QED BY <2>1, <2>2, <2>3, <2>4 DEF Whole
<1>2. Listed # None /\ dir = None => Listed = Manual
  BY <1>1 DEF Listed
<1>3. Intact
  BY <1>1, <1>2 DEF Intact
<1>4. Actual \in {Free, Stale} \/ (Listed # None /\ Actual = Listed)
  BY <1>3, NowActual DEF Intact
<1>5. Listed \in Softwares \cup {None}
  BY InitTyped, ListedType DEF Typed
<1>6. QED BY <1>1, <1>3, <1>4, <1>5, IdleApart DEF Sound, Seen

LEMMA Invariants == Spec => [](Typed /\ Guarded /\ Sound)
<1>1. Init => Typed /\ Guarded /\ Sound
  BY InitTyped, InitKept, InitRight
<1>2. Typed /\ Guarded /\ Sound /\ [Next]_vars => (Typed /\ Guarded /\ Sound)'
  BY NextTyped, NextKept, NextRight
<1>3. QED BY <1>1, <1>2, PTL DEF Spec

(* The server never runs software that is not the one the registry says, while a tool runs *)
(* or undoes its work, unless a step of the undoing failed or a deletion's registry write  *)
(* failed after it had replaced the file (change_server_software, delete_managed_server,   *)
(* _write_registry).                                                                       *)
THEOREM RunsAsRegisteredCorrect == Spec => []RunsAsRegistered
<1>1. ASSUME Typed, Sound
      PROVE  RunsAsRegistered
  <2>1. SUFFICES ASSUME active, ~damaged, tool # Idle => ~tool.broken
                 PROVE  dir # None /\ dir.software = Listed
    BY DEF RunsAsRegistered
  <2>2. dir # None /\ tool.kind # "install" /\ TypeOK
    BY <1>1, <2>1 DEF Typed, Shape, InstallShape
  <2>3. CASE tool = Idle
    BY <1>1, <2>1, <2>2, <2>3 DEF Sound, Intact, Whole
  <2>4. CASE tool.kind = "change"
    BY <1>1, <2>1, <2>4 DEF Typed, Shape, ChangeShape, Sound, ChangeSound, Whole, Listed
  <2>5. CASE tool.kind = "delete"
    BY <1>1, <2>1, <2>2, <2>5, IdleApart DEF Typed, Shape, DeleteShape, Sound, DeleteSound, Whole
  <2>6. QED BY <2>2, <2>3, <2>4, <2>5, ToolCases DEF Kinds
<1>2. QED BY <1>1, Invariants, PTL

(* What a tool does to a server is what ManagedServer promises: all of it or nothing, to   *)
(* the directory, the unit and the registry together, unless the tool is killed, cannot    *)
(* undo its work, or does not because its registry write failed after it had replaced the  *)
(* file (server_installer.py).                                                             *)
THEOREM ImplementsCorrect == Spec => Implements
<1>1. ASSUME Init
      PROVE  Promise!Init
  <2>1. Seen \in Softwares \cup {Free, Stale}
    BY <1>1, InitRight
  <2>2. QED BY <2>1 DEF Promise!Init, Seen, Softwares
<1>2. ASSUME Typed, Guarded, Sound, [Next]_vars
      PROVE  [Promise!Next]_(Seen)
  <2>1. SeenStep
    BY <1>2, NextRight
  <2>2. QED BY <2>1 DEF SeenStep, Seen, Softwares, Promise!Next, Promise!Install, Promise!Change,
                        Promise!Delete, Promise!Damage
<1>3. QED BY <1>1, <1>2, Invariants, PTL DEF Spec, Implements, Promise!Spec, Seen

-----------------------------------------------------------------------------
(* Who ran runs again.                                                     *)

LEMMA GoesOn ==
  ASSUME TypeOK, tool # Idle, NEW step,
         \/ Step(step) \/ Break(step)
         \/ tool' = [tool EXCEPT !.wasActive = active, !.step = step]
         \/ tool' = [tool EXCEPT !.backup = dir, !.step = step]
  PROVE  tool' # Idle
<1>1. tool \in Fields /\ tool.kind \in Kinds
  BY ToolCases
<1>2. tool'.kind = tool.kind
  BY <1>1 DEF Step, Break, Fields
<1>3. QED BY <1>1, <1>2 DEF Idle, Kinds

LEMMA DiesBroken == ASSUME Dies PROVE outcome' = "broken"
BY DEF Dies, Ends

LEMMA ChangeAgain ==
  ASSUME Typed, tool.kind = "change", ToolStep, tool' = Idle, outcome' # "broken"
  PROVE  Listed' # None /\ (tool.wasActive => active')
<1>1. /\ TypeOK /\ tool # Idle /\ ChangeShape /\ ~Dies
      /\ entry # None /\ tool.software # None /\ tool.old # None
  BY IdleApart, DiesBroken, ToolsAssumption DEF Typed, Shape, ChangeShape
<1>2. \A step : ~Step(step) /\ ~Break(step)
  BY <1>1, GoesOn
<1>3. ~Stop /\ ~Archive
  BY <1>1, GoesOn DEF Stop, Archive, Raise
<1>4. Stage \/ Resume \/ RecordChange \/ Check \/ Restart
  BY <1>1, <1>2, <1>3, KindCases DEF Copy, Start, Unstart, SetAside, Extract, Own, ClearChange, Unrecord, Raise
<1>5. entry' # None
  BY <1>1, <1>4 DEF Stage, Resume, RecordChange, Check, Restart
<1>6. Listed' # None
  BY <1>5 DEF Listed
<1>7. tool.wasActive => active'
  <2>1. CASE Stage
    BY <1>1, <2>1 DEF Stage, ChangeShape
  <2>2. CASE Resume
    <3>1. active' = (active \/ (tool.wasActive /\ dir # None)) /\ tool.step = "resume"
      BY <1>1, <2>2 DEF Resume
    <3>2. dir # None
      BY <1>1, <3>1 DEF ChangeShape
    <3>3. QED BY <3>1, <3>2
  <2>3. CASE RecordChange
    BY <1>1, <1>2, <2>3 DEF RecordChange, Raise
  <2>4. CASE Check
    BY <1>1, <1>2, <2>4 DEF Check, unit
  <2>5. CASE Restart
    <3>1. active' = (active \/ tool.wasActive)
      BY <1>1, <2>5 DEF Restart
    <3>2. QED BY <3>1
  <2>6. QED BY <1>4, <2>1, <2>2, <2>3, <2>4, <2>5
<1>8. QED BY <1>6, <1>7

LEMMA DeleteAgain ==
  ASSUME Typed, tool.kind = "delete", ToolStep, tool' = Idle, outcome' # "broken"
  PROVE  IF Listed' = None THEN ~active' ELSE tool.wasActive => active'
<1>1. TypeOK /\ tool # Idle /\ DeleteShape /\ ~Dies
  BY IdleApart, DiesBroken DEF Typed, Shape
<1>2. \A step : ~Step(step) /\ ~Break(step)
  BY <1>1, GoesOn
<1>3. ~Stop /\ ~Archive
  BY <1>1, GoesOn DEF Stop, Archive, Raise
<1>4. Resume \/ RecordDelete \/ ClearDelete
  BY <1>1, <1>2, <1>3, KindCases DEF Disable, Move, PutBack, Reenable, Raise
<1>5. CASE Resume
  <2>1. /\ active' = (active \/ (tool.wasActive /\ dir # None)) /\ tool.step = "resume" /\ Fails
        /\ UNCHANGED <<entry, tomb>>
    BY <1>1, <1>5 DEF Resume
  <2>2. UNCHANGED legacy /\ ~tool.broken
    BY <1>1, <2>1, FailsOK
  <2>3. Listed' # None
    BY <1>1, <2>1, <2>2 DEF DeleteShape, Listed
  <2>4. tool.wasActive => dir # None
    BY <1>1, <2>1 DEF DeleteShape
  <2>5. QED BY <2>1, <2>3, <2>4
<1>6. CASE RecordDelete
  <2>1. /\ UNCHANGED active /\ tool.step = "record" /\ Ends("ok")
        /\ entry' = None /\ tomb' = (tomb \/ tool.old = None)
    BY <1>2, <1>6 DEF RecordDelete, Raise, At, unit
  <2>2. ~active /\ Loadable /\ tool.old = entry
    BY <1>1, <2>1 DEF DeleteShape
  <2>3. UNCHANGED legacy
    BY <2>1 DEF Ends
  <2>4. Listed' = None
    BY <2>1, <2>2, <2>3 DEF Listed, Loadable
  <2>5. QED BY <2>1, <2>2, <2>4
<1>7. CASE ClearDelete
  <2>1. UNCHANGED <<active, entry, tomb, legacy>> /\ tool.step = "clear"
    BY <1>7 DEF ClearDelete, At, unit, Ends
  <2>2. ~active /\ Listed = None
    BY <1>1, <2>1 DEF DeleteShape
  <2>3. Listed' = None
    BY <2>1, <2>2 DEF Listed
  <2>4. QED BY <2>1, <2>2, <2>3
<1>8. QED BY <1>4, <1>5, <1>6, <1>7

(* A tool that ends leaves a server running if it ran before, and down if it is deleted,   *)
(* unless a step of its handler failed or it did not undo a registry write that failed     *)
(* late (change_server_software, delete_managed_server).                                   *)
THEOREM RunsAgainCorrect == Spec => RunsAgain
<1>1. ASSUME Typed, [Next]_vars
      PROVE  [tool # Idle /\ tool' = Idle /\ outcome' # "broken"
                => IF Listed' = None THEN ~active' ELSE tool.wasActive => active']_vars
  <2>1. SUFFICES ASSUME Next, tool # Idle, tool' = Idle, outcome' # "broken"
                 PROVE  IF Listed' = None THEN ~active' ELSE tool.wasActive => active'
    BY <1>1
  <2>2. TypeOK /\ Shape
    BY <1>1 DEF Typed
  <2>3. ToolStep
    <3>1. ~(\E crash \in BOOLEAN : Killed(crash))
      BY <2>1 DEF Killed
    <3>2. ~ManagedAction /\ ~ServerExits /\ ~Play
      BY <2>1 DEF ManagedAction, ServerExits, Play
    <3>3. ~(\E v \in Versions : InstallBegins(v) \/ ChangeBegins(v)) /\ ~DeleteBegins
      BY <2>1 DEF InstallBegins, ChangeBegins, DeleteBegins, Begin
    <3>4. QED BY <2>1, <3>1, <3>2, <3>3 DEF Next
  <2>4. CASE tool.kind = "install"
    <3>1. ~active /\ ~tool.wasActive
      BY <2>2, <2>4 DEF Shape, InstallShape
    <3>2. active' = active
      BY <2>2, <2>3, <2>4, KindCases DEF Stage, Place, Enable, RecordInstall, Discard, unit
    <3>3. QED BY <3>1, <3>2
  <2>5. CASE tool.kind = "change"
    BY <1>1, <2>1, <2>3, <2>5, ChangeAgain
  <2>6. CASE tool.kind = "delete"
    BY <1>1, <2>1, <2>3, <2>6, DeleteAgain
  <2>7. QED BY <2>1, <2>2, <2>4, <2>5, <2>6, ToolCases DEF Kinds
<1>2. QED BY <1>1, Invariants, PTL DEF Spec, RunsAgain
=============================================================================
