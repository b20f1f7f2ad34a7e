----------------------------- MODULE PackInstaller -----------------------------
(***************************************************************************)
(* The launcher's installer (mc_manager/launcher/installer.py): a release  *)
(* of a mod pack is installed into an instance directory as a transaction. *)
(* It is planned, downloaded to the side, backed up, journaled, applied    *)
(* file by file, and committed by the receipt; a failure rolls it back, a  *)
(* crash leaves the journal to the next recovery.                          *)
(*                                                                         *)
(* One launcher at a time holds the instance's lock, and pc is where that  *)
(* one is.  The player edits files at any time, except a file that was     *)
(* checked and is about to be written: nothing in the code could tell, and *)
(* docs/launcher-framework.md asks the player to close the editors.        *)
(* Reading several files is one step: a file that changes after it was     *)
(* read is a file that changes after the step.                             *)
(***************************************************************************)
EXTENDS Naturals

CONSTANTS
  Paths,         \* the paths a release may manage
  Contents,      \* the contents a file may have
  Versions,
  Absent,        \* there is no file
  NoPack,        \* no release
  Release,       \* the content of each path in each release, Absent where it has none
  AtFirst,       \* bound: the contents of the directory before the first installation
  MaxInstalls,   \* bound: installations begun
  MaxEdits,      \* bound: files the player changes, backups lost
  MaxTroubles    \* bound: these, and crashes, errors and cancellations

ASSUME ConstantsOK ==
  /\ Absent \notin Contents
  /\ NoPack \notin Versions
  /\ Release \in [Versions \cup {NoPack} -> [Paths -> Contents \cup {Absent}]]
  /\ \A p \in Paths : Release[NoPack][p] = Absent
  /\ AtFirst \subseteq [Paths -> Contents \cup {Absent}]
  /\ MaxInstalls \in Nat /\ MaxEdits \in Nat /\ MaxTroubles \in Nat

VARIABLES
  files,      \* the content of each path
  receipt,    \* .launcher/installed.json: the transaction and its release
  journal,    \* .launcher/transaction.json: the transaction and its operations
  history,    \* .launcher/history: the backups of every transaction
  review,     \* the plan the player has in front of him
  pc,         \* where the launcher that holds the lock is
  job,        \* what it was asked: a release (or NoPack, to recover), what the
              \* player agreed to replace, and the plan he reviewed
  plan,       \* the plan it follows
  left,       \* the paths it has yet to back up or to apply
  checked,    \* the paths it has compared and is about to write
  own,        \* (history) paths the player touched since a release was put there
  late,       \* (history) those he touched since the last plan was made
  txn, installs, edits, failures   \* the last transaction's number, and bounds

disk    == <<files, receipt, journal, history>>
process == <<pc, job, plan, left, checked>>
ghosts  == <<own, late>>
bounds  == <<installs, edits, failures>>
vars    == <<disk, review, process, ghosts, txn, bounds>>
-----------------------------------------------------------------------------
NoPlan == [want |-> NoPack, ops |-> [p \in {} |-> Absent], conflicts |-> {}]
NoTxn  == [id |-> 0, ops |-> NoPlan.ops]
NoJob  == [want |-> NoPack, seen |-> {}, expected |-> NoPlan]

Places == {"idle", "recover", "restore", "plan", "download", "backup", "apply", "committed"}

File      == Contents \cup {Absent}
Operation == [before : File, after : File]
Plans     == [want : Versions \cup {NoPack}, ops : UNION {[D -> Operation] : D \in SUBSET Paths},
              conflicts : SUBSET Paths]

Pending   == journal.id # 0
Committed == receipt.id = journal.id
Targets   == DOMAIN journal.ops

\* (mutant) what only the installed release had is forgotten
ManagedNow(v) == {p \in Paths : Release[v][p] # Absent}

\* plan_installation: the files of the release and those of the installed one
\* that differ from what they should be; a conflict is a file that is neither
\* missing nor as the installed release has it
Managed(v)  == {p \in Paths : Release[v][p] # Absent \/ Release[receipt.version][p] # Absent}
Changes(v)  == {p \in Managed(v) : files[p] # Release[v][p]}
Conflict(p) == files[p] \notin {Absent, Release[receipt.version][p]}
Plan(v)     == [want |-> v,
                ops |-> [p \in Changes(v) |-> [before |-> files[p], after |-> Release[v][p]]],
                conflicts |-> {p \in Changes(v) : Conflict(p)}]

\* replacements come before removals, and are undone after them
Removals(ops, P) == {p \in P : ops[p].after = Absent}
Soonest(P) == IF P \ Removals(plan.ops, P) # {} THEN P \ Removals(plan.ops, P) ELSE P
Latest(P)  == IF Removals(journal.ops, P) # {} THEN Removals(journal.ops, P) ELSE P

Backup(id, p, content) == [id |-> id, path |-> p, content |-> content]

Init ==
  /\ files \in AtFirst
  /\ receipt = [id |-> 0, version |-> NoPack]
  /\ journal = NoTxn
  /\ history = {}
  /\ review = NoPlan
  /\ pc = "idle" /\ job = NoJob /\ plan = NoPlan /\ left = {} /\ checked = {}
  /\ own = {p \in Paths : files[p] # Absent}
  /\ late = {}
  /\ txn = 0 /\ installs = 0 /\ edits = 0 /\ failures = 0
-----------------------------------------------------------------------------
(* The player.                                                             *)

Touch(p) ==
  /\ edits < MaxEdits /\ edits + failures < MaxTroubles
  /\ edits' = edits + 1
  /\ own' = own \cup {p} /\ late' = late \cup {p}
  /\ UNCHANGED <<receipt, journal, review, process, txn, installs, failures>>

EditFile(p) ==
  /\ p \notin checked
  /\ \E content \in File \ {files[p]} : files' = [files EXCEPT ![p] = content]
  /\ Touch(p)
  /\ UNCHANGED history

\* a backup of a pending journal is deleted or damaged between two launchers
LoseBackup(p) ==
  /\ pc = "idle" /\ Pending /\ p \in Targets
  /\ \E b \in history : b.id = journal.id /\ b.path = p /\ history' = history \ {b}
  /\ Touch(p)
  /\ UNCHANGED files

\* plan_installation on its own, without the lock: the desktop's preview, which stays on
\* the screen until it is answered (one that is turned down might as well not have been)
Preview(v) ==
  /\ ~Pending /\ review = NoPlan
  /\ review' = Plan(v)
  /\ UNCHANGED <<disk, process, ghosts, txn, bounds>>
-----------------------------------------------------------------------------
(* The launcher: the lock, and recovery.                                   *)

Begin(j) ==
  /\ pc = "idle" /\ pc' = "recover"
  /\ job' = j
  /\ UNCHANGED <<disk, plan, left, checked, ghosts, txn, edits, failures>>

\* the CLI replaces the player's files with --replace-modified only, and then all
InstallFromCli(v) ==
  /\ installs < MaxInstalls /\ installs' = installs + 1
  /\ \E seen \in {{}, Paths} : Begin([want |-> v, seen |-> seen, expected |-> NoPlan])
  /\ UNCHANGED review

\* the desktop installs what was reviewed, and replaces the conflicts it showed
InstallFromDesktop ==
  /\ review # NoPlan /\ review' = NoPlan
  /\ installs < MaxInstalls /\ installs' = installs + 1
  /\ Begin([want |-> review.want, seen |-> review.conflicts, expected |-> review])

\* (a recovery with no journal changes nothing)
RecoverOnly ==
  /\ Pending
  /\ Begin(NoJob)
  /\ UNCHANGED <<review, installs>>


\* the lock is released, and nothing of the process is left
Leave ==
  /\ pc' = "idle"
  /\ job' = NoJob /\ plan' = NoPlan /\ left' = {} /\ checked' = {}

\* _recover_locked has returned: what follows is the installation, if there is one
Recovered ==
  IF job.want = NoPack THEN Leave
  ELSE pc' = "plan" /\ UNCHANGED <<job, plan, left, checked>>

Around == UNCHANGED <<review, ghosts, txn, bounds>>

NothingToRecover ==
  /\ pc = "recover" /\ ~Pending
  /\ Recovered
  /\ Around /\ UNCHANGED disk

\* the receipt is there: the transaction is over, whatever the files are now
RecoverCommitted ==
  /\ pc = "recover" /\ Pending /\ Committed
  /\ journal' = NoTxn
  /\ Recovered
  /\ Around /\ UNCHANGED <<files, receipt, history>>

Undone(p) == files[p] = journal.ops[p].before
Backed(p) == journal.ops[p].before # Absent =>
               Backup(journal.id, p, journal.ops[p].before) \in history
Foreign   == {p \in Targets : ~Undone(p) /\ files[p] # journal.ops[p].after}
Damaged   == {p \in Targets : ~Undone(p) /\ ~Backed(p)}

\* every file and every backup is checked before one is touched
RefuseRecovery ==
  /\ pc = "recover" /\ Pending /\ ~Committed
  /\ Foreign \cup Damaged # {}
  /\ Leave
  /\ Around /\ UNCHANGED disk

\* (mutant) files the transaction added are left there
ReplacedOnly == {p \in Targets : ~Undone(p) /\ journal.ops[p].before # Absent}
ToUndo       == {p \in Targets : ~Undone(p)}

CheckRecovery ==
  /\ pc = "recover" /\ Pending /\ ~Committed
  /\ Foreign \cup Damaged = {}
  /\ pc' = "restore"
  /\ checked' = ToUndo
  /\ UNCHANGED <<job, plan, left>>
  /\ Around /\ UNCHANGED disk

Restore(p) ==
  /\ pc = "restore" /\ p \in Latest(checked)
  /\ files' = [files EXCEPT ![p] = journal.ops[p].before]
  /\ checked' = checked \ {p}
  /\ UNCHANGED <<receipt, journal, history, pc, job, plan, left>>
  /\ Around

RolledBack ==
  /\ pc = "restore" /\ checked = {}
  /\ journal' = NoTxn
  /\ Recovered
  /\ Around /\ UNCHANGED <<files, receipt, history>>
-----------------------------------------------------------------------------
(* install_release, after its recovery.                                    *)

\* (mutant) the plan is not compared with the one the player reviewed
AgreedUnseen == Plan(job.want).conflicts # {} => job.seen # {}

\* expected_plan_id, and replace_modified where there are conflicts
Agreed ==
  /\ job.expected # NoPlan => Plan(job.want) = job.expected
  /\ Plan(job.want).conflicts # {} => job.seen # {}

RefusePlan ==
  /\ pc = "plan" /\ ~Agreed
  /\ Leave
  /\ Around /\ UNCHANGED disk

MakePlan ==
  /\ pc = "plan" /\ Agreed
  /\ plan' = Plan(job.want)
  /\ txn' = txn + 1
  /\ late' = {}
  /\ pc' = "download"
  /\ UNCHANGED <<disk, review, job, left, checked, own, bounds>>

\* once everything is downloaded: the files of the release, those it keeps
\* included, and the removals are as planned
AsPlanned ==
  \A p \in Paths :
    files[p] = IF p \in DOMAIN plan.ops THEN plan.ops[p].before
               ELSE IF Release[plan.want][p] # Absent THEN Release[plan.want][p]
               ELSE files[p]

RefuseFiles ==
  /\ pc = "download" /\ ~AsPlanned
  /\ Leave
  /\ Around /\ UNCHANGED disk

Downloaded ==
  /\ pc = "download" /\ AsPlanned
  /\ pc' = "backup"
  /\ left' = {p \in DOMAIN plan.ops : plan.ops[p].before # Absent}
  /\ UNCHANGED <<job, plan, checked>>
  /\ Around /\ UNCHANGED disk

\* (mutant) a file that has gone is backed up as if it were there
CopiedBlindly(p) == {Backup(txn, p, files[p])}
Copied(p)        == {Backup(txn, q, files[q]) : q \in {q \in {p} : files[q] # Absent}}

\* the copy is compared with the plan after it was made
BackUp(p) ==
  /\ pc = "backup" /\ p \in left
  /\ history' = history \cup Copied(p)
  /\ IF files[p] = plan.ops[p].before
     THEN left' = left \ {p} /\ UNCHANGED <<pc, job, plan, checked>>
     ELSE Leave
  /\ Around /\ UNCHANGED <<files, receipt, journal>>

\* (mutant) the first replacement does not wait for the last backup
BackedUpSome == TRUE
BackedUp     == left = {}

WriteJournal ==
  /\ pc = "backup" /\ BackedUp
  /\ journal' = [id |-> txn, ops |-> plan.ops]
  /\ pc' = "apply"
  /\ left' = DOMAIN plan.ops
  /\ UNCHANGED <<files, receipt, history, job, plan, checked>>
  /\ Around

\* an error or a cancellation once the journal is there
RollBack ==
  /\ pc' = "recover"
  /\ job' = NoJob /\ plan' = NoPlan /\ left' = {} /\ checked' = {}

\* (mutant) a file is replaced whatever it is by now
TargetAsAny(p)    == TRUE
TargetAsBefore(p) == files[p] = plan.ops[p].before

CheckTarget(p) ==
  /\ pc = "apply" /\ checked = {} /\ p \in Soonest(left)
  /\ IF TargetAsBefore(p)
     THEN checked' = {p} /\ UNCHANGED <<pc, job, plan, left>>
     ELSE RollBack
  /\ Around /\ UNCHANGED disk

Replace(p) ==
  /\ pc = "apply" /\ p \in checked
  /\ files' = [files EXCEPT ![p] = plan.ops[p].after]
  /\ left' = left \ {p} /\ checked' = {}
  /\ UNCHANGED <<receipt, journal, history, pc, job, plan>>
  /\ Around

\* the receipt is the commit point
Commit ==
  /\ pc = "apply" /\ left = {}
  /\ receipt' = [id |-> txn, version |-> plan.want]
  /\ own' = (own \ Managed(plan.want)) \cup late
  /\ pc' = "committed"
  /\ UNCHANGED <<files, journal, history, review, job, plan, left, checked, late, txn, bounds>>

ForgetJournal ==
  /\ pc = "committed"
  /\ journal' = NoTxn
  /\ Leave
  /\ Around /\ UNCHANGED <<files, receipt, history>>
-----------------------------------------------------------------------------
Fails ==
  /\ edits + failures < MaxTroubles
  /\ failures' = failures + 1
  /\ UNCHANGED <<disk, review, ghosts, txn, installs, edits>>

\* the launcher dies; or, with no journal yet or while it recovers, it is cancelled
\* or meets an error
Die == pc # "idle" /\ Leave /\ Fails

\* with the journal written, an error or a cancellation rolls back at once
Cancelled == pc \in {"apply", "committed"} /\ RollBack /\ Fails

Next ==
  \/ InstallFromDesktop \/ RecoverOnly
  \/ \E v \in Versions : InstallFromCli(v) \/ Preview(v)
  \/ \E p \in Paths : EditFile(p) \/ LoseBackup(p) \/ Restore(p) \/ BackUp(p)
                      \/ CheckTarget(p) \/ Replace(p)
  \/ NothingToRecover \/ RecoverCommitted \/ RefuseRecovery \/ CheckRecovery \/ RolledBack
  \/ RefusePlan \/ MakePlan \/ RefuseFiles \/ Downloaded \/ WriteJournal \/ Commit \/ ForgetJournal
  \/ Die \/ Cancelled

Spec == Init /\ [][Next]_vars
-----------------------------------------------------------------------------
TypeOK ==
  /\ files \in [Paths -> File]
  /\ receipt \in [id : Nat, version : Versions \cup {NoPack}]
  /\ journal.id \in Nat /\ journal.ops \in [Targets -> Operation] /\ Targets \subseteq Paths
  /\ \A b \in history : b \in [id : Nat, path : Paths, content : Contents]
  /\ review \in Plans /\ plan \in Plans
  /\ pc \in Places
  /\ job.want \in Versions \cup {NoPack} /\ job.seen \subseteq Paths /\ job.expected \in Plans
  /\ left \subseteq Paths /\ checked \subseteq Paths
  /\ own \subseteq Paths /\ late \subseteq Paths
  /\ txn \in Nat /\ installs \in Nat /\ edits \in Nat /\ failures \in Nat

\* docs/launcher-framework.md:391: "A process interruption can be recovered".  Wherever
\* the launcher dies, in the middle of a recovery too, each file of a transaction that
\* has not committed can be put back as it was, unless the player touched it or its
\* backup since the plan was made.
Recoverable ==
  Pending /\ ~Committed =>
    \A p \in Targets \ late : ~Undone(p) => files[p] = journal.ops[p].after /\ Backed(p)

\* The receipt says what is there: with no update pending, the files are those of the
\* release it names, the kept and the removed ones too, except where the player was.
PackAsReleased ==
  receipt.version # NoPack /\ (Pending => Committed) =>
    \A p \in Paths \ own : files[p] = Release[receipt.version][p]

\* installer.py:3: "Only manifest-owned pack files are changed", and
\* docs/launcher-framework.md:214: "recovery backups are retained either way": the
\* installer and the recovery take away no content that a release or a backup does not
\* have, whenever the player wrote it.
NothingLost ==
  [][edits' = edits =>
       \A p \in Paths : files[p] # Absent /\ files'[p] # files[p] =>
         \/ \E v \in Versions : files[p] = Release[v][p]
         \/ \E b \in history' : b.path = p /\ b.content = files[p]]_vars

\* docs/launcher-framework.md:372: "plan_id binds a review to that exact filesystem
\* state": a file that is not as the installed release has it is replaced or removed only
\* if the player was shown that file, however long ago, or asked for all of them.
NothingUnseen ==
  [][pc = "apply" /\ pc' = "apply" =>
       \A p \in checked : files'[p] # files[p] /\ Conflict(p) => p \in job.seen]_vars

\* What an update promises.  Until the receipt is there, a file that was replaced counts
\* as what it was before: rolling back is then no step at all, and the commit is one.
Settled(p) ==
  IF Pending /\ ~Committed /\ p \in Targets /\ files[p] = journal.ops[p].after
  THEN journal.ops[p].before ELSE files[p]

Promise == INSTANCE PackUpdate WITH
             files <- [p \in Paths |-> Settled(p)], version <- receipt.version

\* docs/launcher-framework.md:388: "committing the receipt marks a completed transaction":
\* the installer, through failures, crashes and edits, does nothing but whole updates.
Implements == Promise!Spec
=============================================================================
