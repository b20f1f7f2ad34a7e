----------------------------- MODULE ServerTools -----------------------------
(***************************************************************************)
(* The root tools that install a Minecraft server, change its software and *)
(* delete it (mc_manager/server_installer.py), on one server id: its       *)
(* directory, its archives, its systemd unit and its place in the          *)
(* registry.  The agent runs one of them at a time on a server and         *)
(* nothing else meanwhile (AgentJobs).                                     *)
(*                                                                         *)
(* A step is one effect on the disk or on systemd.  Any of them may fail,  *)
(* in the middle too, and the tool's handlers undo what was done; their    *)
(* steps may fail as well, and a registry write that fails after it has    *)
(* replaced the file is not undone by an installation or a deletion.  The  *)
(* tool may be killed between two steps (the agent's unit is stopped) and  *)
(* the host may crash.  Failures, kills and crashes come out of Faults,    *)
(* requests out of Requests.  A staging directory shows nothing to anybody *)
(* and appears by the step it takes; an archive counts once it is          *)
(* complete.                                                               *)
(***************************************************************************)
EXTENDS Naturals

CONSTANTS
  Versions, Manual, Free, Stale, Damaged,  \* see ManagedServer
  Mixed,      \* a directory in which some of the software was replaced
  None,       \* no directory, no entry, no archive
  MaxLives,   \* bound: installations on the id, the first server included
  MaxWorld,   \* bound: how often players change the world
  Requests,   \* bound: tools that begin
  Faults      \* bound: failed steps, kills and crashes

ASSUME ToolsAssumption ==
  /\ {Manual, Free, Stale, Damaged, Mixed, None} \cap Versions = {} /\ Manual # None
  /\ MaxLives \in Nat \ {0} /\ MaxWorld \in Nat /\ Requests \in Nat /\ Faults \in Nat

VARIABLES
  dir,       \* /srv/minecraft/ID
  aside,     \* where this tool put it: .ID-deleting, .ID-failed-software-change
  left,      \* such directories that earlier tools left behind
  archives,  \* complete archives under /srv/minecraft-backups/ID
  entry,     \* the server's software in managed-servers.json, None when it is not there
  tomb,      \* deleted_legacy_servers has the id
  legacy,    \* agent.toml lists the id
  enabled, active,  \* the unit minecraft@ID
  tool,      \* the tool that runs
  outcome,   \* how the last one ended
  damaged,   \* history: a tool was killed, or what it had done was not undone
  lives,     \* history: the installations there were
  stake,     \* history: the world each of them must not lose, None for none yet
  requests, faults  \* what is left of Requests and Faults

disk    == <<dir, aside, left, archives>>
listing == <<entry, tomb, legacy>>
unit    == <<enabled, active>>
history == <<lives, stake>>
ends    == <<outcome, damaged>>
budget  == <<requests, faults>>
vars == <<disk, listing, unit, tool, ends, history, budget>>
-----------------------------------------------------------------------------
Lives     == 1 .. MaxLives
Softwares == Versions \cup {Manual}
Content   == [life : Lives, world : 0 .. MaxWorld, whole : BOOLEAN,
              software : Softwares \cup {Mixed}]
Contents  == Content \cup {None}

ASSUME NoneApart == None \notin Content

Tools == [install |-> {"stage", "place", "enable", "record", "discard"},
          change  |-> {"stage", "stop", "archive", "copy", "record", "start", "check", "resume",
                       "unstart", "setAside", "extract", "own", "clear", "unrecord", "restart"},
          delete  |-> {"stop", "archive", "disable", "move", "record", "clear",
                       "putBack", "reenable", "resume"}]
Idle == [kind |-> "idle"]
Running ==
  UNION {[kind : {k}, step : Tools[k], software : Softwares \cup {None}, backup : Contents,
          wasActive : BOOLEAN, old : Softwares \cup {None}, before : Softwares \cup {Free, Stale, Damaged},
          broken : BOOLEAN] : k \in DOMAIN Tools}

\* the software of the id's server, as the agent lists it
Listed == IF entry # None THEN entry ELSE IF legacy /\ ~tomb THEN Manual ELSE None

\* the agent does not load an id that both list, and asks no tool for it any more
Loadable == ~(entry # None /\ legacy /\ ~tomb)

\* what the id has, when no tool runs
Actual ==
  CASE Listed = None /\ dir = None /\ ~enabled -> Free
    [] Listed = Manual /\ dir = None -> Stale
    [] Listed # None /\ dir # None /\ enabled ->
         IF dir.whole /\ dir.software = Listed THEN Listed ELSE Damaged
    [] OTHER -> Damaged

At(kind, step) == tool.kind = kind /\ tool.step = step
Step(step)     == tool' = [tool EXCEPT !.step = step]
Calm           == UNCHANGED budget
Fault          == faults > 0 /\ faults' = faults - 1 /\ UNCHANGED requests
Still          == UNCHANGED <<ends, history>>

\* an exception is raised, and step is the first of the handler's that remain
Raise(step) == Fault /\ Step(step)

\* a step fails, and nobody undoes what it has left
Break(step) == Fault /\ tool' = [tool EXCEPT !.step = step, !.broken = TRUE]

Ends(o) ==
  /\ tool' = Idle
  /\ outcome' = o
  /\ damaged' = (damaged \/ o = "broken")
  /\ UNCHANGED <<lives, legacy>>

\* the tool ends with an exception
Fails == Ends(IF tool.broken THEN "broken" ELSE "failed") /\ UNCHANGED stake
Dies  == Fault /\ Ends("broken") /\ UNCHANGED stake

\* from now on the world of this directory must not be lost, if it is one that is whole
AtStake(d) == IF d.whole THEN [stake EXCEPT ![d.life] = d.world] ELSE stake

\* (mutant) a tool that put nothing aside leaves something, too
LeaveAsideAlways == left' = left \cup {aside} /\ aside' = None

\* what the tool put aside stays there
LeaveAside == left' = left \cup ({aside} \ {None}) /\ aside' = None
-----------------------------------------------------------------------------
Init ==
  /\ legacy \in BOOLEAN /\ tomb = FALSE
  /\ entry \in IF legacy THEN {None} ELSE Versions \cup {None}
  /\ dir \in IF Listed = None THEN {None}
             ELSE {[life |-> 1, world |-> 0, whole |-> TRUE, software |-> Listed]}
                  \cup (IF legacy THEN {None} ELSE {})
  /\ enabled = (Listed # None) /\ active \in {FALSE, dir # None}
  /\ aside = None /\ left = {} /\ archives = {}
  /\ tool = Idle /\ outcome = "ok" /\ damaged = FALSE
  /\ lives = IF dir = None THEN 0 ELSE 1
  /\ stake = [l \in Lives |-> IF dir # None /\ l = 1 THEN 0 ELSE None]
  /\ requests = Requests /\ faults = Faults

\* a request passed the checks of its tool
Begin(kind, step, software) ==
  /\ tool = Idle /\ Loadable
  /\ requests > 0 /\ requests' = requests - 1
  /\ tool' = [kind |-> kind, step |-> step, software |-> software, backup |-> None,
              wasActive |-> FALSE, old |-> entry, before |-> Actual, broken |-> FALSE]
  /\ UNCHANGED <<disk, listing, unit, ends, history, faults>>
-----------------------------------------------------------------------------
(* install_server                                                          *)

InstallBegins(v) == Listed = None /\ dir = None /\ lives < MaxLives /\ Begin("install", "stage", v)

\* the directory is made in one rename
Place ==
  /\ At("install", "place")
  /\ UNCHANGED <<aside, left, archives, listing, unit, ends>>
  /\ \/ /\ dir' = [life |-> lives + 1, world |-> 0, whole |-> TRUE, software |-> tool.software]
        /\ lives' = lives + 1
        /\ UNCHANGED stake
        /\ Step("enable") /\ Calm
     \/ Fails /\ Fault /\ UNCHANGED dir

\* the files get their owner, and systemd the unit
Enable ==
  /\ At("install", "enable")
  /\ \/ enabled' = TRUE /\ Step("record") /\ Calm
     \/ enabled' \in {enabled, TRUE} /\ Raise("discard")
  /\ UNCHANGED <<disk, listing, active>> /\ Still

\* _write_registry replaces the file and then gives it its owner.  When that fails, it
\* raises like a write that changed nothing, and registry_written is not set: the handler
\* leaves the registry as it is now.
RecordInstall ==
  /\ At("install", "record")
  /\ UNCHANGED <<disk, unit>>
  /\ \/ /\ entry' = tool.software /\ tomb' = FALSE
        /\ Ends("ok") /\ Calm
        /\ stake' = AtStake(dir)
     \/ Raise("discard") /\ UNCHANGED listing /\ Still
     \/ Break("discard") /\ entry' = tool.software /\ tomb' = FALSE /\ UNCHANGED legacy /\ Still

\* a directory whose removal fails stays, and so does a unit that cannot be disabled
Discard ==
  /\ At("install", "discard")
  /\ \/ dir' = None /\ enabled' = FALSE /\ Fails /\ Calm
     \/ /\ dir' \in {None, [dir EXCEPT !.whole = FALSE]} /\ enabled' \in {enabled, FALSE}
        /\ Dies
  /\ UNCHANGED <<aside, left, archives, entry, tomb, active>>
-----------------------------------------------------------------------------
(* The steps that tools share.                                             *)

\* the download, its checks and the launcher, in a directory of their own
Stage ==
  /\ tool.kind \in {"install", "change"} /\ tool.step = "stage"
  /\ UNCHANGED <<disk, entry, tomb, unit>>
  /\ \/ Step(IF tool.kind = "install" THEN "place" ELSE "stop") /\ Calm /\ UNCHANGED legacy /\ Still
     \/ Fails /\ Fault

\* (mutant) the archive is made of the running server, which is stopped afterwards
StopLate ==
  /\ tool.kind \in {"change", "delete"} /\ tool.step = "stop"
  /\ tool' = [tool EXCEPT !.wasActive = active, !.step = IF dir = None THEN "disable" ELSE "archive"]
  /\ Calm
  /\ UNCHANGED <<disk, listing, unit>> /\ Still

\* was_active is read, then the server is stopped
Stop ==
  /\ tool.kind \in {"change", "delete"} /\ tool.step = "stop"
  /\ \/ /\ active' = FALSE
        /\ tool' = [tool EXCEPT !.wasActive = active, !.step = IF dir = None THEN "disable" ELSE "archive"]
        /\ Calm
     \/ /\ active' \in {active, FALSE}
        /\ tool' = [tool EXCEPT !.wasActive = active,
                                !.step = IF tool.kind = "change" THEN "resume" ELSE "reenable"]
        /\ Fault
  /\ UNCHANGED <<disk, listing, enabled>> /\ Still

\* _full_server_backup; what it could not finish it removes
Archive ==
  /\ tool.kind \in {"change", "delete"} /\ tool.step = "archive"
  /\ \/ /\ archives' = archives \cup {dir}
        /\ tool' = [tool EXCEPT !.backup = dir,
                                !.step = IF tool.kind = "change" THEN "copy" ELSE "disable"]
        /\ Calm
     \/ /\ Raise(IF tool.kind = "change" THEN "resume" ELSE "reenable")
        /\ UNCHANGED archives
  /\ UNCHANGED <<dir, aside, left, listing, unit>> /\ Still

\* the server is started again if it ran; nobody looks whether it does
Resume ==
  /\ tool.kind \in {"change", "delete"} /\ tool.step = "resume"
  /\ \/ active' = (active \/ (tool.wasActive /\ dir # None)) /\ Fails /\ Calm
     \/ tool.wasActive /\ UNCHANGED active /\ Dies
  /\ UNCHANGED <<disk, entry, tomb, enabled>>
-----------------------------------------------------------------------------
(* change_server_software                                                  *)

ChangeBegins(v) == entry # None /\ dir # None /\ Begin("change", "stage", v)

\* copytree and the update environment; what fails on the way leaves a mixture
Copy ==
  /\ At("change", "copy")
  /\ \/ dir' = [dir EXCEPT !.software = tool.software] /\ Step("record") /\ Calm
     \/ dir' \in {dir, [dir EXCEPT !.software = Mixed]} /\ Raise("unstart")
  /\ UNCHANGED <<aside, left, archives, listing, unit>> /\ Still

\* the handler writes the old registry back, whether this write failed early or late
RecordChange ==
  /\ At("change", "record")
  /\ UNCHANGED <<disk, unit, tomb>>
  /\ \/ /\ entry' = tool.software
        /\ IF tool.wasActive THEN Step("start") /\ UNCHANGED legacy /\ Still
                             ELSE Ends("ok") /\ UNCHANGED stake
        /\ Calm
     \/ Raise("unstart") /\ entry' \in {entry, tool.software} /\ UNCHANGED legacy /\ Still

Start ==
  /\ At("change", "start")
  /\ \/ active' = TRUE /\ Step("check") /\ Calm
     \/ UNCHANGED active /\ Raise("unstart")
  /\ UNCHANGED <<disk, listing, enabled>> /\ Still

\* (mutant) a server that was started counts as running
CheckNothing ==
  /\ At("change", "check")
  /\ Ends("ok") /\ stake' = AtStake(dir)
  /\ Calm
  /\ UNCHANGED <<disk, entry, tomb, unit>>

\* the server must still run after some seconds
Check ==
  /\ At("change", "check")
  /\ \/ active /\ Ends("ok") /\ stake' = AtStake(dir)
     \/ ~active /\ Step("unstart") /\ UNCHANGED legacy /\ Still
  /\ Calm
  /\ UNCHANGED <<disk, entry, tomb, unit>>

\* the rollback begins
Unstart ==
  /\ At("change", "unstart")
  /\ \/ active' = FALSE /\ Step("setAside") /\ Calm
     \/ UNCHANGED active /\ Break("setAside")
  /\ UNCHANGED <<disk, listing, enabled>> /\ Still

\* _restore_software_backup
SetAside ==
  /\ At("change", "setAside")
  /\ UNCHANGED <<left, archives, entry, tomb, unit>>
  /\ \/ dir' = None /\ aside' = dir /\ Step("extract") /\ Calm /\ UNCHANGED legacy /\ Still
     \/ Dies /\ UNCHANGED <<dir, aside>>

\* what cannot be extracted makes room again for the directory, if it can be removed
Extract ==
  /\ At("change", "extract")
  /\ UNCHANGED <<archives, entry, tomb, unit>>
  /\ \/ dir' = tool.backup /\ Step("own") /\ Calm /\ UNCHANGED <<aside, left, legacy>> /\ Still
     \/ Dies /\ dir' = aside /\ aside' = None /\ UNCHANGED left
     \/ Dies /\ dir' = [tool.backup EXCEPT !.whole = FALSE] /\ LeaveAside

\* the owners of what was extracted
Own ==
  /\ At("change", "own")
  /\ UNCHANGED <<dir, archives, entry, tomb, unit>>
  /\ \/ Step("clear") /\ Calm /\ UNCHANGED <<aside, left, legacy>> /\ Still
     \/ Dies /\ LeaveAside

\* the directory that was set aside is removed
ClearChange ==
  /\ At("change", "clear")
  /\ UNCHANGED <<dir, archives, entry, tomb, unit>>
  /\ \/ aside' = None /\ Step("unrecord") /\ Calm /\ UNCHANGED <<left, legacy>> /\ Still
     \/ Dies /\ aside' = None /\ left' = left \cup {[aside EXCEPT !.whole = FALSE]}

\* (mutant) the registry keeps the new software
UnrecordNothing ==
  At("change", "unrecord") /\ Step("restart") /\ Calm /\ UNCHANGED <<disk, listing, unit>> /\ Still

Unrecord ==
  /\ At("change", "unrecord")
  /\ UNCHANGED <<disk, unit, tomb>>
  /\ \/ entry' = tool.old /\ Step("restart") /\ Calm /\ UNCHANGED legacy /\ Still
     \/ Dies /\ entry' \in {entry, tool.old}

Restart ==
  /\ At("change", "restart")
  /\ \/ active' = (active \/ tool.wasActive) /\ Fails /\ Calm
     \/ tool.wasActive /\ UNCHANGED active /\ Dies
  /\ UNCHANGED <<disk, entry, tomb, enabled>>
-----------------------------------------------------------------------------
(* delete_managed_server                                                   *)

DeleteBegins == Listed # None /\ (dir # None \/ Listed = Manual) /\ Begin("delete", "stop", None)

Disable ==
  /\ At("delete", "disable")
  /\ \/ enabled' = FALSE /\ Step(IF dir = None THEN "record" ELSE "move") /\ Calm
     \/ enabled' \in {enabled, FALSE} /\ Raise("reenable")
  /\ UNCHANGED <<disk, listing, active>> /\ Still

Move ==
  /\ At("delete", "move")
  /\ \/ dir' = None /\ aside' = dir /\ Step("record") /\ Calm
     \/ UNCHANGED <<dir, aside>> /\ Raise("reenable")
  /\ UNCHANGED <<left, archives, listing, unit>> /\ Still

\* what the handler begins with: the directory, if there was one
Undelete == IF aside = None THEN "reenable" ELSE "putBack"

\* The handler undoes the deletion of the directory and the unit; that of the entry stays
\* when it was written and only its owner could not be set (registry_changed is not set).
RecordDelete ==
  /\ At("delete", "record")
  /\ UNCHANGED <<disk, unit>>
  /\ \/ /\ entry' = None /\ tomb' = (tomb \/ tool.old = None)
        /\ IF aside = None THEN Ends("ok") /\ UNCHANGED stake
                           ELSE Step("clear") /\ UNCHANGED legacy /\ Still
        /\ Calm
     \/ Raise(Undelete) /\ UNCHANGED listing /\ Still
     \/ /\ Break(Undelete)
        /\ entry' = None /\ tomb' = (tomb \/ tool.old = None) /\ UNCHANGED legacy /\ Still

\* what cannot be removed is reported as cleanup_pending
ClearDelete ==
  /\ At("delete", "clear")
  /\ Ends("ok")
  /\ aside' = None
  /\ \/ UNCHANGED left /\ Calm
     \/ left' = left \cup {[aside EXCEPT !.whole = FALSE]} /\ Fault
  /\ UNCHANGED <<dir, archives, entry, tomb, unit, stake>>

PutBack ==
  /\ At("delete", "putBack")
  /\ UNCHANGED <<archives, entry, tomb, unit>>
  /\ \/ dir' = aside /\ aside' = None /\ Step("reenable") /\ Calm /\ UNCHANGED <<left, legacy>> /\ Still
     \/ Dies /\ UNCHANGED dir /\ LeaveAside

\* (mutant) a unit that was disabled stays so
ReenableNothing ==
  At("delete", "reenable") /\ Step("resume") /\ Calm /\ UNCHANGED <<disk, listing, unit>> /\ Still

Reenable ==
  /\ At("delete", "reenable")
  /\ \/ enabled' = TRUE /\ Step("resume") /\ Calm
     \/ UNCHANGED enabled /\ Break("resume")
  /\ UNCHANGED <<disk, listing, active>> /\ Still
-----------------------------------------------------------------------------
(* What else happens to the server.                                        *)

\* managed_action_main starts and stops it while no tool runs
ManagedAction ==
  /\ tool = Idle /\ Loadable /\ Listed # None /\ dir # None
  /\ active' \in {TRUE, FALSE}
  /\ UNCHANGED <<disk, listing, enabled, tool, ends, history, budget>>

ServerExits ==
  /\ active /\ active' = FALSE
  /\ UNCHANGED <<disk, listing, enabled, tool, ends, history, budget>>

\* Players change the world.  What they do while a change is on trial is not at stake.
OnTrial == tool.kind = "change" /\ tool.step \in {"check", "unstart", "setAside"}

Play ==
  /\ active /\ dir # None /\ dir.world < MaxWorld
  /\ dir' = [dir EXCEPT !.world = @ + 1]
  /\ stake' = IF OnTrial THEN stake ELSE AtStake(dir')
  /\ UNCHANGED <<aside, left, archives, listing, unit, tool, ends, lives, budget>>

\* the tool is killed, with the agent or with the host
Killed(crash) ==
  /\ tool # Idle \/ crash
  /\ Fault
  /\ active' = IF crash THEN enabled /\ dir # None ELSE active
  /\ LeaveAside
  /\ tool' = Idle
  /\ IF tool # Idle THEN outcome' = "broken" /\ damaged' = TRUE ELSE UNCHANGED ends
  /\ UNCHANGED <<dir, archives, listing, enabled, history>>

ToolStep ==
  \/ Stage \/ Stop \/ Archive \/ Resume
  \/ Place \/ Enable \/ RecordInstall \/ Discard
  \/ Copy \/ RecordChange \/ Start \/ Check
  \/ Unstart \/ SetAside \/ Extract \/ Own \/ ClearChange \/ Unrecord \/ Restart
  \/ Disable \/ Move \/ RecordDelete \/ ClearDelete \/ PutBack \/ Reenable

Next ==
  \/ \E v \in Versions : InstallBegins(v) \/ ChangeBegins(v)
  \/ DeleteBegins
  \/ ToolStep
  \/ ManagedAction \/ ServerExits \/ Play
  \/ \E crash \in BOOLEAN : Killed(crash)

Spec == Init /\ [][Next]_vars
-----------------------------------------------------------------------------
TypeOK ==
  /\ dir \in Contents /\ aside \in Contents
  /\ left \subseteq Content /\ archives \subseteq Content
  /\ entry \in Versions \cup {None} /\ tomb \in BOOLEAN /\ legacy \in BOOLEAN
  /\ enabled \in BOOLEAN /\ active \in BOOLEAN
  /\ tool \in Running \cup {Idle}
  /\ outcome \in {"ok", "failed", "broken"} /\ damaged \in BOOLEAN
  /\ lives \in 0 .. MaxLives
  /\ stake \in [Lives -> (0 .. MaxWorld) \cup {None}]
  /\ requests \in 0 .. Requests /\ faults \in 0 .. Faults

Copies == (({dir, aside} \ {None}) \cup left) \cup archives

\* The world of every server that was ever installed is whole in some directory or in a
\* complete archive, as the players last left it, whichever steps fail and whenever a
\* tool is killed (the server is stopped and archived before anything is changed, and
\* what is restored is only cleared away once it is).
NoLoss ==
  \A l \in Lives :
    stake[l] # None => \E c \in Copies : c.life = l /\ c.whole /\ c.world >= stake[l]

\* The server never runs software that is not the one the registry says, or without being
\* registered: while a change is undone it stays down until both are what they were.  (A
\* deletion whose registry write failed late brings back a server that is not registered.)
RunsAsRegistered ==
  active /\ ~damaged /\ (tool # Idle => ~tool.broken) => dir # None /\ dir.software = Listed

\* A tool that ends leaves a server running if it ran before, be it that the tool
\* succeeded or that it undid its work, and down if it is deleted (change_server_software,
\* delete_managed_server).  A tool whose handler failed, or did not undo a registry write
\* that failed late, is excepted.
RunsAgain ==
  [][tool # Idle /\ tool' = Idle /\ outcome' # "broken"
       => IF Listed' = None THEN ~active' ELSE tool.wasActive => active']_vars

Promise == INSTANCE ManagedServer WITH
  server <- IF damaged THEN Damaged ELSE IF tool # Idle THEN tool.before ELSE Actual

\* A tool does all it was asked for or nothing, to the directory, the unit and the registry
\* together, unless it is killed, a step of its handler fails, or it is an installation or
\* a deletion whose registry write fails after it replaced the file.
Implements == Promise!Spec
=============================================================================
