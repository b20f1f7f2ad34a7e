-------------------------- MODULE PackInstallerProofs --------------------------
(***************************************************************************)
(* The installer's invariants, and that it implements PackUpdate, for any  *)
(* paths, contents, releases and bounds.                                   *)
(***************************************************************************)
EXTENDS PackInstaller, TLAPS

\* where the launcher is says what is in the journal and what it was asked
Control ==
  /\ pc \in {"plan", "download", "backup"} => ~Pending
  /\ pc = "plan" => job.want \in Versions
  /\ pc = "restore" => Pending /\ ~Committed
  /\ pc = "apply" => Pending /\ ~Committed /\ journal.id = txn /\ journal.ops = plan.ops
  /\ pc = "committed" => Pending /\ Committed
  /\ pc \notin {"apply", "restore"} => checked = {}

Numbers ==
  /\ receipt.id <= txn /\ journal.id <= txn
  /\ pc \in {"download", "backup"} => txn # 0 /\ receipt.id # txn

\* the player agreed to nothing, to everything, or to what the review showed
Agreement ==
  IF job.expected = NoPlan THEN job.seen \in {{}, Paths} ELSE job.seen = job.expected.conflicts

\* the plan is one the code makes, and agreed to
PlanMade ==
  pc \in {"download", "backup", "apply"} =>
    /\ plan.want \in Versions
    /\ DOMAIN plan.ops \subseteq Managed(plan.want)
    /\ \A p \in DOMAIN plan.ops : plan.ops[p].after = Release[plan.want][p]
    /\ \A p \in DOMAIN plan.ops :
         plan.ops[p].before \notin {Absent, Release[receipt.version][p]} => p \in job.seen

\* how far the files are, but for those the player touched
FilesAsPlanned ==
  /\ pc \in {"download", "backup", "apply"} =>
       \A p \in Managed(plan.want) \ (DOMAIN plan.ops \cup late) : files[p] = Release[plan.want][p]
  /\ pc \in {"download", "backup"} =>
       \A p \in DOMAIN plan.ops \ late : files[p] = plan.ops[p].before
  /\ pc = "apply" =>
       \A p \in DOMAIN plan.ops \ late :
         files[p] = IF p \in left THEN plan.ops[p].before ELSE plan.ops[p].after
  /\ pc = "apply" =>
       checked \subseteq left /\ left \subseteq DOMAIN plan.ops
       /\ \A p \in checked : files[p] = plan.ops[p].before

\* nothing is replaced before it is backed up
BackupsMade ==
  /\ pc = "backup" =>
       \A p \in DOMAIN plan.ops \ left :
         plan.ops[p].before # Absent => Backup(txn, p, plan.ops[p].before) \in history
  /\ pc = "apply" => \A p \in Targets : Backed(p)

\* what a journal promises to whoever finds it
JournalGood ==
  /\ \A p \in Targets : \E v \in Versions : journal.ops[p].after = Release[v][p]
  /\ Pending /\ ~Committed =>
       \A p \in Targets \ late :
         Backed(p) /\ files[p] \in {journal.ops[p].before, journal.ops[p].after}

Restoring ==
  pc = "restore" =>
    /\ checked \subseteq Targets
    /\ \A p \in checked : files[p] = journal.ops[p].after
    /\ \A p \in Targets \ late : p \in checked \/ files[p] = journal.ops[p].before

\* but for what the player touched, the installed release is there, or will be again
ReleaseSettled ==
  /\ late \subseteq own
  /\ \A p \in Paths \ own : Settled(p) = Release[receipt.version][p]

IInv ==
  TypeOK /\ Control /\ Numbers /\ Agreement /\ PlanMade /\ FilesAsPlanned /\ BackupsMade
  /\ JournalGood /\ Restoring /\ ReleaseSettled
-----------------------------------------------------------------------------
(* Types.                                                                  *)

\* A plan made of typed state is a plan.
LEMMA PlanTyped ==
  ASSUME TypeOK, NEW v \in Versions
  PROVE  Plan(v) \in Plans
<1>1. Changes(v) \subseteq Paths
  BY DEF Changes, Managed
<1>2. Plan(v).ops \in [Changes(v) -> Operation]
  BY <1>1, ConstantsOK DEF Plan, TypeOK, Operation, File
<1>3. Plan(v).ops \in UNION {[D -> Operation] : D \in SUBSET Paths}
  BY <1>1, <1>2
<1> QED
  BY <1>1, <1>3 DEF Plan, Plans

\* No plan is a plan.
LEMMA NoPlanTyped == NoPlan \in Plans
<1>1. NoPlan.ops \in [{} -> Operation]
  BY DEF NoPlan
<1>2. NoPlan.ops \in UNION {[D -> Operation] : D \in SUBSET Paths}
  BY <1>1
<1> QED
  BY <1>2 DEF NoPlan, Plans

\* What a plan's operations are.
LEMMA OpsTyped ==
  ASSUME NEW q \in Plans
  PROVE  /\ DOMAIN q.ops \subseteq Paths
         /\ q.ops \in [DOMAIN q.ops -> Operation]
         /\ q.conflicts \subseteq Paths
         /\ q.want \in Versions \cup {NoPack}
BY DEF Plans

\* The state is well typed at first.
LEMMA TypeInit == Init => TypeOK
BY NoPlanTyped, ConstantsOK DEF Init, TypeOK, NoTxn, NoJob, NoPlan, File, Places, Targets

\* Every step keeps the state well typed.
LEMMA TypeStep == IInv /\ [Next]_vars => TypeOK'
<1> SUFFICES ASSUME IInv, [Next]_vars PROVE TypeOK'
  OBVIOUS
<1> USE DEF disk, process, ghosts, bounds, Around
<1> TypeOK
  BY DEF IInv
<1> DEFINE ProcessOK ==
      /\ pc \in Places /\ plan \in Plans /\ left \subseteq Paths /\ checked \subseteq Paths
      /\ job.want \in Versions \cup {NoPack} /\ job.seen \subseteq Paths /\ job.expected \in Plans
<1>a. NoPlan \in Plans /\ NoJob.want = NoPack /\ NoJob.seen = {} /\ NoJob.expected = NoPlan
  BY NoPlanTyped DEF NoJob
<1>b. ASSUME Leave PROVE ProcessOK'
  BY <1>a, <1>b DEF Leave, Places
<1>c. ASSUME RollBack PROVE ProcessOK'
  BY <1>a, <1>c DEF RollBack, Places
<1>d. ASSUME Recovered PROVE ProcessOK'
  BY <1>b, <1>d DEF Recovered, Places, TypeOK
<1>e. ASSUME journal' = NoTxn
      PROVE  journal'.id \in Nat /\ journal'.ops \in [Targets' -> Operation] /\ Targets' \subseteq Paths
  BY <1>e DEF NoTxn, NoPlan, Targets
<1>1. ASSUME UNCHANGED vars PROVE TypeOK'
  BY <1>1 DEF vars, TypeOK, Targets
<1>2. ASSUME InstallFromDesktop PROVE TypeOK'
  <2>1. review.conflicts \subseteq Paths /\ review.want \in Versions \cup {NoPack}
    BY OpsTyped DEF TypeOK
  <2> QED
    BY <1>2, <1>a, <2>1 DEF InstallFromDesktop, Begin, TypeOK, Targets, Places
<1>3. ASSUME RecoverOnly PROVE TypeOK'
  BY <1>3, <1>a DEF RecoverOnly, Begin, TypeOK, Targets, Places
<1>4. ASSUME NEW v \in Versions, InstallFromCli(v) PROVE TypeOK'
  BY <1>4, <1>a DEF InstallFromCli, Begin, TypeOK, Targets, Places
<1>5. ASSUME NEW v \in Versions, Preview(v) PROVE TypeOK'
  BY <1>5, PlanTyped DEF Preview, TypeOK, Targets
<1>6. ASSUME NEW p \in Paths, EditFile(p) PROVE TypeOK'
  BY <1>6 DEF EditFile, Touch, TypeOK, Targets
<1>7. ASSUME NEW p \in Paths, LoseBackup(p) PROVE TypeOK'
  BY <1>7 DEF LoseBackup, Touch, TypeOK, Targets
<1>8. ASSUME NEW p \in Paths, Restore(p) PROVE TypeOK'
  <2>1. journal.ops[p].before \in File
    BY <1>8 DEF IInv, Restoring, Restore, Latest, Removals, TypeOK, Operation
  <2> QED
    BY <1>8, <2>1 DEF Restore, TypeOK, Targets
<1>9. ASSUME NEW p \in Paths, BackUp(p) PROVE TypeOK'
  <2>1. \A b \in history' : b \in [id : Nat, path : Paths, content : Contents]
    BY <1>9 DEF BackUp, Copied, Backup, TypeOK, File
  <2>2. ProcessOK'
    BY <1>9, <1>b DEF BackUp, TypeOK
  <2> QED
    BY <1>9, <2>1, <2>2 DEF BackUp, TypeOK, Targets
<1>10. ASSUME NEW p \in Paths, CheckTarget(p) PROVE TypeOK'
  <2>1. ProcessOK'
    BY <1>10, <1>c DEF CheckTarget, TypeOK
  <2> QED
    BY <1>10, <2>1 DEF CheckTarget, TypeOK, Targets
<1>11. ASSUME NEW p \in Paths, Replace(p) PROVE TypeOK'
  <2>1. plan.ops[p].after \in File
    BY <1>11, OpsTyped DEF IInv, FilesAsPlanned, Replace, TypeOK, Operation
  <2> QED
    BY <1>11, <2>1 DEF Replace, TypeOK, Targets
<1>12. ASSUME NothingToRecover PROVE TypeOK'
  BY <1>12, <1>d DEF NothingToRecover, TypeOK, Targets
<1>13. ASSUME RecoverCommitted PROVE TypeOK'
  BY <1>13, <1>d, <1>e DEF RecoverCommitted, TypeOK
<1>14. ASSUME RefuseRecovery PROVE TypeOK'
  BY <1>14, <1>b DEF RefuseRecovery, TypeOK, Targets
<1>15. ASSUME CheckRecovery PROVE TypeOK'
  BY <1>15 DEF CheckRecovery, ToUndo, TypeOK, Targets, Places
<1>16. ASSUME RolledBack PROVE TypeOK'
  BY <1>16, <1>d, <1>e DEF RolledBack, TypeOK
<1>17. ASSUME RefusePlan PROVE TypeOK'
  BY <1>17, <1>b DEF RefusePlan, TypeOK, Targets
<1>18. ASSUME MakePlan PROVE TypeOK'
  <2>1. Plan(job.want) \in Plans
    BY <1>18, PlanTyped DEF MakePlan, IInv, Control
  <2> QED
    BY <1>18, <2>1 DEF MakePlan, TypeOK, Targets, Places
<1>19. ASSUME RefuseFiles PROVE TypeOK'
  BY <1>19, <1>b DEF RefuseFiles, TypeOK, Targets
<1>20. ASSUME Downloaded PROVE TypeOK'
  BY <1>20, OpsTyped DEF Downloaded, TypeOK, Targets, Places
<1>21. ASSUME WriteJournal PROVE TypeOK'
  <2>1. journal' = [id |-> txn, ops |-> plan.ops]
    BY <1>21 DEF WriteJournal
  <2>2. journal'.id \in Nat /\ journal'.ops \in [Targets' -> Operation] /\ Targets' \subseteq Paths
    BY <2>1, OpsTyped DEF TypeOK, Targets
  <2> QED
    BY <1>21, <2>2, OpsTyped DEF WriteJournal, TypeOK, Places
<1>22. ASSUME Commit PROVE TypeOK'
  BY <1>22, OpsTyped DEF Commit, TypeOK, Targets, Places, IInv
<1>23. ASSUME ForgetJournal PROVE TypeOK'
  BY <1>23, <1>b, <1>e DEF ForgetJournal, TypeOK
<1>24. ASSUME Die PROVE TypeOK'
  BY <1>24, <1>b DEF Die, Fails, TypeOK, Targets
<1>25. ASSUME Cancelled PROVE TypeOK'
  BY <1>25, <1>c DEF Cancelled, Fails, TypeOK, Targets
<1> QED
  BY <1>1, <1>2, <1>3, <1>4, <1>5, <1>6, <1>7, <1>8, <1>9, <1>10, <1>11, <1>12, <1>13, <1>14,
     <1>15, <1>16, <1>17, <1>18, <1>19, <1>20, <1>21, <1>22, <1>23, <1>24, <1>25 DEF Next

\* Every step keeps pc in line with the journal.
LEMMA ControlStep == IInv /\ [Next]_vars => Control'
<1> SUFFICES ASSUME IInv, [Next]_vars PROVE Control'
  OBVIOUS
<1> USE DEF disk, process, ghosts, bounds, Around
<1>1. ASSUME UNCHANGED vars PROVE Control'
  BY <1>1 DEF vars, IInv, TypeOK, Control, Numbers, Pending, Committed, NoTxn, NoJob, NoPlan,
     Places
<1>2. ASSUME InstallFromDesktop PROVE Control'
  BY <1>2 DEF InstallFromDesktop, Begin, IInv, TypeOK, Control, Numbers, Pending, Committed,
     NoTxn, NoJob, NoPlan, Places
<1>3. ASSUME RecoverOnly PROVE Control'
  BY <1>3 DEF RecoverOnly, Begin, IInv, TypeOK, Control, Numbers, Pending, Committed, NoTxn,
     NoJob, NoPlan, Places
<1>4. ASSUME NEW v \in Versions, InstallFromCli(v) PROVE Control'
  BY <1>4 DEF InstallFromCli, Begin, IInv, TypeOK, Control, Numbers, Pending, Committed, NoTxn,
     NoJob, NoPlan, Places
<1>5. ASSUME NEW v \in Versions, Preview(v) PROVE Control'
  BY <1>5 DEF Preview, IInv, TypeOK, Control, Numbers, Pending, Committed, NoTxn, NoJob, NoPlan,
     Places
<1>6. ASSUME NEW p \in Paths, EditFile(p) PROVE Control'
  BY <1>6 DEF EditFile, Touch, IInv, TypeOK, Control, Numbers, Pending, Committed, NoTxn, NoJob,
     NoPlan, Places
<1>7. ASSUME NEW p \in Paths, LoseBackup(p) PROVE Control'
  BY <1>7 DEF LoseBackup, Touch, IInv, TypeOK, Control, Numbers, Pending, Committed, NoTxn,
     NoJob, NoPlan, Places
<1>8. ASSUME NEW p \in Paths, Restore(p) PROVE Control'
  BY <1>8 DEF Restore, IInv, TypeOK, Control, Numbers, Pending, Committed, NoTxn, NoJob, NoPlan,
     Places
<1>9. ASSUME NEW p \in Paths, BackUp(p) PROVE Control'
  BY <1>9 DEF BackUp, Leave, IInv, TypeOK, Control, Numbers, Pending, Committed, NoTxn, NoJob,
     NoPlan, Places
<1>10. ASSUME NEW p \in Paths, CheckTarget(p) PROVE Control'
  BY <1>10 DEF CheckTarget, RollBack, IInv, TypeOK, Control, Numbers, Pending, Committed, NoTxn,
     NoJob, NoPlan, Places
<1>11. ASSUME NEW p \in Paths, Replace(p) PROVE Control'
  BY <1>11 DEF Replace, IInv, TypeOK, Control, Numbers, Pending, Committed, NoTxn, NoJob,
     NoPlan, Places
<1>12. ASSUME NothingToRecover PROVE Control'
  BY <1>12 DEF NothingToRecover, Recovered, Leave, IInv, TypeOK, Control, Numbers, Pending,
     Committed, NoTxn, NoJob, NoPlan, Places
<1>13. ASSUME RecoverCommitted PROVE Control'
  BY <1>13 DEF RecoverCommitted, Recovered, Leave, IInv, TypeOK, Control, Numbers, Pending,
     Committed, NoTxn, NoJob, NoPlan, Places
<1>14. ASSUME RefuseRecovery PROVE Control'
  BY <1>14 DEF RefuseRecovery, Leave, IInv, TypeOK, Control, Numbers, Pending, Committed, NoTxn,
     NoJob, NoPlan, Places
<1>15. ASSUME CheckRecovery PROVE Control'
  BY <1>15 DEF CheckRecovery, IInv, TypeOK, Control, Numbers, Pending, Committed, NoTxn, NoJob,
     NoPlan, Places
<1>16. ASSUME RolledBack PROVE Control'
  BY <1>16 DEF RolledBack, Recovered, Leave, IInv, TypeOK, Control, Numbers, Pending, Committed,
     NoTxn, NoJob, NoPlan, Places
<1>17. ASSUME RefusePlan PROVE Control'
  BY <1>17 DEF RefusePlan, Leave, IInv, TypeOK, Control, Numbers, Pending, Committed, NoTxn,
     NoJob, NoPlan, Places
<1>18. ASSUME MakePlan PROVE Control'
  BY <1>18 DEF MakePlan, IInv, TypeOK, Control, Numbers, Pending, Committed, NoTxn, NoJob,
     NoPlan, Places
<1>19. ASSUME RefuseFiles PROVE Control'
  BY <1>19 DEF RefuseFiles, Leave, IInv, TypeOK, Control, Numbers, Pending, Committed, NoTxn,
     NoJob, NoPlan, Places
<1>20. ASSUME Downloaded PROVE Control'
  BY <1>20 DEF Downloaded, IInv, TypeOK, Control, Numbers, Pending, Committed, NoTxn, NoJob,
     NoPlan, Places
<1>21. ASSUME WriteJournal PROVE Control'
  BY <1>21 DEF WriteJournal, IInv, TypeOK, Control, Numbers, Pending, Committed, NoTxn, NoJob,
     NoPlan, Places
<1>22. ASSUME Commit PROVE Control'
  BY <1>22 DEF Commit, IInv, TypeOK, Control, Pending, Committed, FilesAsPlanned
<1>23. ASSUME ForgetJournal PROVE Control'
  BY <1>23 DEF ForgetJournal, Leave, IInv, TypeOK, Control, Numbers, Pending, Committed, NoTxn,
     NoJob, NoPlan, Places
<1>24. ASSUME Die PROVE Control'
  BY <1>24 DEF Die, Leave, Fails, IInv, TypeOK, Control, Numbers, Pending, Committed, NoTxn,
     NoJob, NoPlan, Places
<1>25. ASSUME Cancelled PROVE Control'
  BY <1>25 DEF Cancelled, RollBack, Fails, IInv, TypeOK, Control, Numbers, Pending, Committed,
     NoTxn, NoJob, NoPlan, Places
<1> QED
  BY <1>1, <1>2, <1>3, <1>4, <1>5, <1>6, <1>7, <1>8, <1>9, <1>10, <1>11, <1>12, <1>13, <1>14,
     <1>15, <1>16, <1>17, <1>18, <1>19, <1>20, <1>21, <1>22, <1>23, <1>24, <1>25 DEF Next

\* Every transaction has a number of its own.
LEMMA NumbersStep == IInv /\ [Next]_vars => Numbers'
<1> SUFFICES ASSUME IInv, [Next]_vars PROVE Numbers'
  OBVIOUS
<1> USE DEF disk, process, ghosts, bounds, Around
<1>1. ASSUME UNCHANGED vars PROVE Numbers'
  BY <1>1 DEF vars, IInv, TypeOK, Control, Numbers, NoTxn, Places, Pending, Committed
<1>2. ASSUME InstallFromDesktop PROVE Numbers'
  BY <1>2 DEF InstallFromDesktop, Begin, IInv, TypeOK, Control, Numbers, NoTxn, Places, Pending,
     Committed
<1>3. ASSUME RecoverOnly PROVE Numbers'
  BY <1>3 DEF RecoverOnly, Begin, IInv, TypeOK, Control, Numbers, NoTxn, Places, Pending,
     Committed
<1>4. ASSUME NEW v \in Versions, InstallFromCli(v) PROVE Numbers'
  BY <1>4 DEF InstallFromCli, Begin, IInv, TypeOK, Control, Numbers, NoTxn, Places, Pending,
     Committed
<1>5. ASSUME NEW v \in Versions, Preview(v) PROVE Numbers'
  BY <1>5 DEF Preview, IInv, TypeOK, Control, Numbers, NoTxn, Places, Pending, Committed
<1>6. ASSUME NEW p \in Paths, EditFile(p) PROVE Numbers'
  BY <1>6 DEF EditFile, Touch, IInv, TypeOK, Control, Numbers, NoTxn, Places, Pending, Committed
<1>7. ASSUME NEW p \in Paths, LoseBackup(p) PROVE Numbers'
  BY <1>7 DEF LoseBackup, Touch, IInv, TypeOK, Control, Numbers, NoTxn, Places, Pending, Committed
<1>8. ASSUME NEW p \in Paths, Restore(p) PROVE Numbers'
  BY <1>8 DEF Restore, IInv, TypeOK, Control, Numbers, NoTxn, Places, Pending, Committed
<1>9. ASSUME NEW p \in Paths, BackUp(p) PROVE Numbers'
  BY <1>9 DEF BackUp, Leave, IInv, TypeOK, Control, Numbers, NoTxn, Places, Pending, Committed
<1>10. ASSUME NEW p \in Paths, CheckTarget(p) PROVE Numbers'
  BY <1>10 DEF CheckTarget, RollBack, IInv, TypeOK, Control, Numbers, NoTxn, Places, Pending,
     Committed
<1>11. ASSUME NEW p \in Paths, Replace(p) PROVE Numbers'
  BY <1>11 DEF Replace, IInv, TypeOK, Control, Numbers, NoTxn, Places, Pending, Committed
<1>12. ASSUME NothingToRecover PROVE Numbers'
  BY <1>12 DEF NothingToRecover, Recovered, Leave, IInv, TypeOK, Control, Numbers, NoTxn,
     Places, Pending, Committed
<1>13. ASSUME RecoverCommitted PROVE Numbers'
  BY <1>13 DEF RecoverCommitted, Recovered, Leave, IInv, TypeOK, Control, Numbers, NoTxn,
     Places, Pending, Committed
<1>14. ASSUME RefuseRecovery PROVE Numbers'
  BY <1>14 DEF RefuseRecovery, Leave, IInv, TypeOK, Control, Numbers, NoTxn, Places, Pending,
     Committed
<1>15. ASSUME CheckRecovery PROVE Numbers'
  BY <1>15 DEF CheckRecovery, IInv, TypeOK, Control, Numbers, NoTxn, Places, Pending, Committed
<1>16. ASSUME RolledBack PROVE Numbers'
  BY <1>16 DEF RolledBack, Recovered, Leave, IInv, TypeOK, Control, Numbers, NoTxn, Places,
     Pending, Committed
<1>17. ASSUME RefusePlan PROVE Numbers'
  BY <1>17 DEF RefusePlan, Leave, IInv, TypeOK, Control, Numbers, NoTxn, Places, Pending,
     Committed
<1>18. ASSUME MakePlan PROVE Numbers'
  BY <1>18 DEF MakePlan, IInv, TypeOK, Control, Numbers, NoTxn, Places, Pending, Committed
<1>19. ASSUME RefuseFiles PROVE Numbers'
  BY <1>19 DEF RefuseFiles, Leave, IInv, TypeOK, Control, Numbers, NoTxn, Places, Pending,
     Committed
<1>20. ASSUME Downloaded PROVE Numbers'
  BY <1>20 DEF Downloaded, IInv, TypeOK, Control, Numbers, NoTxn, Places, Pending, Committed
<1>21. ASSUME WriteJournal PROVE Numbers'
  BY <1>21 DEF WriteJournal, IInv, TypeOK, Control, Numbers, NoTxn, Places, Pending, Committed
<1>22. ASSUME Commit PROVE Numbers'
  BY <1>22 DEF Commit, IInv, TypeOK, Control, Numbers, NoTxn, Places, Pending, Committed
<1>23. ASSUME ForgetJournal PROVE Numbers'
  BY <1>23 DEF ForgetJournal, Leave, IInv, TypeOK, Control, Numbers, NoTxn, Places, Pending,
     Committed
<1>24. ASSUME Die PROVE Numbers'
  BY <1>24 DEF Die, Leave, Fails, IInv, TypeOK, Control, Numbers, NoTxn, Places, Pending,
     Committed
<1>25. ASSUME Cancelled PROVE Numbers'
  BY <1>25 DEF Cancelled, RollBack, Fails, IInv, TypeOK, Control, Numbers, NoTxn, Places,
     Pending, Committed
<1> QED
  BY <1>1, <1>2, <1>3, <1>4, <1>5, <1>6, <1>7, <1>8, <1>9, <1>10, <1>11, <1>12, <1>13, <1>14,
     <1>15, <1>16, <1>17, <1>18, <1>19, <1>20, <1>21, <1>22, <1>23, <1>24, <1>25 DEF Next

\* What was agreed to is what was reviewed.
LEMMA AgreementStep == IInv /\ [Next]_vars => Agreement'
<1> SUFFICES ASSUME IInv, [Next]_vars PROVE Agreement'
  OBVIOUS
<1> USE DEF disk, process, ghosts, bounds, Around
<1>a. NoJob.seen = {} /\ NoJob.expected = NoPlan
  BY DEF NoJob
<1>b. ASSUME Leave \/ RollBack PROVE Agreement'
  BY <1>a, <1>b DEF Leave, RollBack, Agreement
<1>c. ASSUME Recovered PROVE Agreement'
  BY <1>b, <1>c DEF Recovered, IInv, Agreement
<1>1. ASSUME UNCHANGED vars PROVE Agreement'
  BY <1>1 DEF vars, IInv, Agreement
<1>2. ASSUME InstallFromDesktop PROVE Agreement'
  BY <1>2 DEF InstallFromDesktop, Begin, IInv, Agreement
<1>3. ASSUME RecoverOnly PROVE Agreement'
  BY <1>3, <1>a DEF RecoverOnly, Begin, Agreement
<1>4. ASSUME NEW v \in Versions, InstallFromCli(v) PROVE Agreement'
  BY <1>4 DEF InstallFromCli, Begin, IInv, Agreement
<1>5. ASSUME NEW v \in Versions, Preview(v) PROVE Agreement'
  BY <1>5 DEF Preview, IInv, Agreement
<1>6. ASSUME NEW p \in Paths, EditFile(p) PROVE Agreement'
  BY <1>6 DEF EditFile, Touch, IInv, Agreement
<1>7. ASSUME NEW p \in Paths, LoseBackup(p) PROVE Agreement'
  BY <1>7 DEF LoseBackup, Touch, IInv, Agreement
<1>8. ASSUME NEW p \in Paths, Restore(p) PROVE Agreement'
  BY <1>8 DEF Restore, IInv, Agreement
<1>9. ASSUME NEW p \in Paths, BackUp(p) PROVE Agreement'
  BY <1>9, <1>b DEF BackUp, IInv, Agreement
<1>10. ASSUME NEW p \in Paths, CheckTarget(p) PROVE Agreement'
  BY <1>10, <1>b DEF CheckTarget, IInv, Agreement
<1>11. ASSUME NEW p \in Paths, Replace(p) PROVE Agreement'
  BY <1>11 DEF Replace, IInv, Agreement
<1>12. ASSUME NothingToRecover PROVE Agreement'
  BY <1>12, <1>c DEF NothingToRecover
<1>13. ASSUME RecoverCommitted PROVE Agreement'
  BY <1>13, <1>c DEF RecoverCommitted
<1>14. ASSUME RefuseRecovery PROVE Agreement'
  BY <1>14, <1>b DEF RefuseRecovery, IInv, Agreement
<1>15. ASSUME CheckRecovery PROVE Agreement'
  BY <1>15 DEF CheckRecovery, IInv, Agreement
<1>16. ASSUME RolledBack PROVE Agreement'
  BY <1>16, <1>c DEF RolledBack
<1>17. ASSUME RefusePlan PROVE Agreement'
  BY <1>17, <1>b DEF RefusePlan, IInv, Agreement
<1>18. ASSUME MakePlan PROVE Agreement'
  BY <1>18 DEF MakePlan, IInv, Agreement
<1>19. ASSUME RefuseFiles PROVE Agreement'
  BY <1>19, <1>b DEF RefuseFiles, IInv, Agreement
<1>20. ASSUME Downloaded PROVE Agreement'
  BY <1>20 DEF Downloaded, IInv, Agreement
<1>21. ASSUME WriteJournal PROVE Agreement'
  BY <1>21 DEF WriteJournal, IInv, Agreement
<1>22. ASSUME Commit PROVE Agreement'
  BY <1>22 DEF Commit, IInv, Agreement
<1>23. ASSUME ForgetJournal PROVE Agreement'
  BY <1>23, <1>b DEF ForgetJournal, IInv, Agreement
<1>24. ASSUME Die PROVE Agreement'
  BY <1>24, <1>b DEF Die, IInv, Agreement
<1>25. ASSUME Cancelled PROVE Agreement'
  BY <1>25, <1>b DEF Cancelled, IInv, Agreement
<1> QED
  BY <1>1, <1>2, <1>3, <1>4, <1>5, <1>6, <1>7, <1>8, <1>9, <1>10, <1>11, <1>12, <1>13, <1>14,
     <1>15, <1>16, <1>17, <1>18, <1>19, <1>20, <1>21, <1>22, <1>23, <1>24, <1>25 DEF Next

\* The plan that is followed stays the one that was agreed to.
LEMMA PlanStep == IInv /\ [Next]_vars => PlanMade'
<1> SUFFICES ASSUME IInv, [Next]_vars PROVE PlanMade'
  OBVIOUS
<1> USE DEF disk, process, ghosts, bounds, Around
<1>1. ASSUME UNCHANGED vars PROVE PlanMade'
  BY <1>1 DEF vars, IInv, PlanMade, Managed
<1>2. ASSUME InstallFromDesktop PROVE PlanMade'
  BY <1>2 DEF InstallFromDesktop, Begin, IInv, PlanMade, Managed
<1>3. ASSUME RecoverOnly PROVE PlanMade'
  BY <1>3 DEF RecoverOnly, Begin, IInv, PlanMade, Managed
<1>4. ASSUME NEW v \in Versions, InstallFromCli(v) PROVE PlanMade'
  BY <1>4 DEF InstallFromCli, Begin, IInv, PlanMade, Managed
<1>5. ASSUME NEW v \in Versions, Preview(v) PROVE PlanMade'
  BY <1>5 DEF Preview, IInv, PlanMade, Managed
<1>6. ASSUME NEW p \in Paths, EditFile(p) PROVE PlanMade'
  BY <1>6 DEF EditFile, Touch, IInv, PlanMade, Managed
<1>7. ASSUME NEW p \in Paths, LoseBackup(p) PROVE PlanMade'
  BY <1>7 DEF LoseBackup, Touch, IInv, PlanMade, Managed
<1>8. ASSUME NEW p \in Paths, Restore(p) PROVE PlanMade'
  BY <1>8 DEF Restore, IInv, PlanMade, Managed
<1>9. ASSUME NEW p \in Paths, BackUp(p) PROVE PlanMade'
  BY <1>9 DEF BackUp, Leave, IInv, PlanMade, Managed
<1>10. ASSUME NEW p \in Paths, CheckTarget(p) PROVE PlanMade'
  BY <1>10 DEF CheckTarget, RollBack, IInv, PlanMade, Managed
<1>11. ASSUME NEW p \in Paths, Replace(p) PROVE PlanMade'
  BY <1>11 DEF Replace, IInv, PlanMade, Managed
<1>12. ASSUME NothingToRecover PROVE PlanMade'
  BY <1>12 DEF NothingToRecover, Recovered, Leave, IInv, PlanMade, Managed
<1>13. ASSUME RecoverCommitted PROVE PlanMade'
  BY <1>13 DEF RecoverCommitted, Recovered, Leave, IInv, PlanMade, Managed
<1>14. ASSUME RefuseRecovery PROVE PlanMade'
  BY <1>14 DEF RefuseRecovery, Leave, IInv, PlanMade, Managed
<1>15. ASSUME CheckRecovery PROVE PlanMade'
  BY <1>15 DEF CheckRecovery, IInv, PlanMade, Managed
<1>16. ASSUME RolledBack PROVE PlanMade'
  BY <1>16 DEF RolledBack, Recovered, Leave, IInv, PlanMade, Managed
<1>17. ASSUME RefusePlan PROVE PlanMade'
  BY <1>17 DEF RefusePlan, Leave, IInv, PlanMade, Managed
<1>18. ASSUME MakePlan PROVE PlanMade'
  <2>1. plan' = Plan(job.want) /\ job.want \in Versions /\ job' = job /\ files' = files /\ receipt' = receipt
    BY <1>18 DEF MakePlan, IInv, Control
  <2>2. plan'.want = job.want /\ DOMAIN plan'.ops = Changes(job.want) /\ plan'.conflicts \subseteq job.seen
    <3>1. CASE job.expected = NoPlan
      BY <1>18, <2>1, <3>1 DEF MakePlan, Agreed, Plan, IInv, Agreement, Changes, Managed
    <3>2. CASE job.expected # NoPlan
      BY <1>18, <2>1, <3>2 DEF MakePlan, Agreed, Plan, IInv, Agreement
    <3> QED
      BY <3>1, <3>2
  <2>3. \A p \in Changes(job.want) : plan'.ops[p].before = files[p] /\ plan'.ops[p].after = Release[job.want][p]
    BY <2>1 DEF Plan
  <2>4. \A p \in Changes(job.want) : Conflict(p) => p \in job.seen
    BY <2>1, <2>2 DEF Plan
  <2> QED
    <3>1. \A p \in DOMAIN plan'.ops : plan'.ops[p].after = Release[job.want][p] /\ plan'.ops[p].before = files[p]
      BY <2>2, <2>3 DEF Changes
    <3>2. DOMAIN plan'.ops \subseteq Managed(plan.want)'
      BY <2>1, <2>2 DEF Changes, Managed
    <3>3. \A p \in DOMAIN plan'.ops : files[p] \notin {Absent,
    Release[receipt.version][p]} => p \in job.seen
      BY <2>2, <2>4 DEF Conflict
    <3> QED
      BY <2>1, <2>2, <3>1, <3>2, <3>3 DEF PlanMade
<1>19. ASSUME RefuseFiles PROVE PlanMade'
  BY <1>19 DEF RefuseFiles, Leave, IInv, PlanMade, Managed
<1>20. ASSUME Downloaded PROVE PlanMade'
  BY <1>20 DEF Downloaded, IInv, PlanMade, Managed
<1>21. ASSUME WriteJournal PROVE PlanMade'
  BY <1>21 DEF WriteJournal, IInv, PlanMade, Managed
<1>22. ASSUME Commit PROVE PlanMade'
  BY <1>22 DEF Commit, IInv, PlanMade, Managed
<1>23. ASSUME ForgetJournal PROVE PlanMade'
  BY <1>23 DEF ForgetJournal, Leave, IInv, PlanMade, Managed
<1>24. ASSUME Die PROVE PlanMade'
  BY <1>24 DEF Die, Leave, Fails, IInv, PlanMade, Managed
<1>25. ASSUME Cancelled PROVE PlanMade'
  BY <1>25 DEF Cancelled, RollBack, Fails, IInv, PlanMade, Managed
<1> QED
  BY <1>1, <1>2, <1>3, <1>4, <1>5, <1>6, <1>7, <1>8, <1>9, <1>10, <1>11, <1>12, <1>13, <1>14,
     <1>15, <1>16, <1>17, <1>18, <1>19, <1>20, <1>21, <1>22, <1>23, <1>24, <1>25 DEF Next

\* The files move as the plan says, and the player's edits are known.
LEMMA FilesStep == IInv /\ [Next]_vars => FilesAsPlanned'
<1> SUFFICES ASSUME IInv, [Next]_vars PROVE FilesAsPlanned'
  OBVIOUS
<1> USE DEF disk, process, ghosts, bounds, Around
<1>1. ASSUME UNCHANGED vars PROVE FilesAsPlanned'
  BY <1>1 DEF vars, IInv, TypeOK, FilesAsPlanned, Managed, Places
<1>2. ASSUME InstallFromDesktop PROVE FilesAsPlanned'
  BY <1>2 DEF InstallFromDesktop, Begin, IInv, TypeOK, FilesAsPlanned, Managed, Places
<1>3. ASSUME RecoverOnly PROVE FilesAsPlanned'
  BY <1>3 DEF RecoverOnly, Begin, IInv, TypeOK, FilesAsPlanned, Managed, Places
<1>4. ASSUME NEW v \in Versions, InstallFromCli(v) PROVE FilesAsPlanned'
  BY <1>4 DEF InstallFromCli, Begin, IInv, TypeOK, FilesAsPlanned, Managed, Places
<1>5. ASSUME NEW v \in Versions, Preview(v) PROVE FilesAsPlanned'
  BY <1>5 DEF Preview, IInv, TypeOK, FilesAsPlanned, Managed, Places
<1>6. ASSUME NEW p \in Paths, EditFile(p) PROVE FilesAsPlanned'
  BY <1>6 DEF EditFile, Touch, IInv, TypeOK, FilesAsPlanned, Managed, Places
<1>7. ASSUME NEW p \in Paths, LoseBackup(p) PROVE FilesAsPlanned'
  BY <1>7 DEF LoseBackup, Touch, IInv, TypeOK, FilesAsPlanned, Managed, Places
<1>8. ASSUME NEW p \in Paths, Restore(p) PROVE FilesAsPlanned'
  BY <1>8 DEF Restore, IInv, TypeOK, FilesAsPlanned, Managed, Places
<1>9. ASSUME NEW p \in Paths, BackUp(p) PROVE FilesAsPlanned'
  BY <1>9 DEF BackUp, Leave, IInv, TypeOK, FilesAsPlanned, Managed, Places
<1>10. ASSUME NEW p \in Paths, CheckTarget(p) PROVE FilesAsPlanned'
  BY <1>10 DEF CheckTarget, RollBack, TargetAsBefore, Soonest, Removals, IInv, FilesAsPlanned,
     Managed
<1>11. ASSUME NEW p \in Paths, Replace(p) PROVE FilesAsPlanned'
  <2>1. p \in left /\ p \in DOMAIN plan.ops /\ p \in Paths /\ files \in [Paths -> File]
    BY <1>11 DEF Replace, IInv, FilesAsPlanned, TypeOK
  <2> QED
    BY <1>11, <2>1 DEF Replace, IInv, FilesAsPlanned, PlanMade, Managed
<1>12. ASSUME NothingToRecover PROVE FilesAsPlanned'
  BY <1>12 DEF NothingToRecover, Recovered, Leave, IInv, TypeOK, FilesAsPlanned, Managed, Places
<1>13. ASSUME RecoverCommitted PROVE FilesAsPlanned'
  BY <1>13 DEF RecoverCommitted, Recovered, Leave, IInv, TypeOK, FilesAsPlanned, Managed, Places
<1>14. ASSUME RefuseRecovery PROVE FilesAsPlanned'
  BY <1>14 DEF RefuseRecovery, Leave, IInv, TypeOK, FilesAsPlanned, Managed, Places
<1>15. ASSUME CheckRecovery PROVE FilesAsPlanned'
  BY <1>15 DEF CheckRecovery, IInv, TypeOK, FilesAsPlanned, Managed, Places
<1>16. ASSUME RolledBack PROVE FilesAsPlanned'
  BY <1>16 DEF RolledBack, Recovered, Leave, IInv, TypeOK, FilesAsPlanned, Managed, Places
<1>17. ASSUME RefusePlan PROVE FilesAsPlanned'
  BY <1>17 DEF RefusePlan, Leave, IInv, TypeOK, FilesAsPlanned, Managed, Places
<1>18. ASSUME MakePlan PROVE FilesAsPlanned'
  <2>1. plan' = Plan(job.want) /\ late' = {} /\ pc' = "download" /\ files' = files /\ receipt' = receipt
    BY <1>18 DEF MakePlan
  <2>2. plan'.want = job.want /\ DOMAIN plan'.ops = Changes(job.want)
        /\ \A p \in Changes(job.want) : plan'.ops[p].before = files[p]
    BY <2>1 DEF Plan
  <2>3. \A p \in Managed(job.want) \ Changes(job.want) : files[p] = Release[job.want][p]
    BY DEF Changes
  <2> QED
    BY <2>1, <2>2, <2>3 DEF FilesAsPlanned, Managed, Changes
<1>19. ASSUME RefuseFiles PROVE FilesAsPlanned'
  BY <1>19 DEF RefuseFiles, Leave, IInv, TypeOK, FilesAsPlanned, Managed, Places
<1>20. ASSUME Downloaded PROVE FilesAsPlanned'
  BY <1>20 DEF Downloaded, IInv, TypeOK, FilesAsPlanned, Managed, Places
<1>21. ASSUME WriteJournal PROVE FilesAsPlanned'
  BY <1>21 DEF WriteJournal, BackedUp, IInv, Control, FilesAsPlanned, Managed
<1>22. ASSUME Commit PROVE FilesAsPlanned'
  BY <1>22 DEF Commit, IInv, TypeOK, FilesAsPlanned, Managed, Places
<1>23. ASSUME ForgetJournal PROVE FilesAsPlanned'
  BY <1>23 DEF ForgetJournal, Leave, IInv, TypeOK, FilesAsPlanned, Managed, Places
<1>24. ASSUME Die PROVE FilesAsPlanned'
  BY <1>24 DEF Die, Leave, Fails, IInv, TypeOK, FilesAsPlanned, Managed, Places
<1>25. ASSUME Cancelled PROVE FilesAsPlanned'
  BY <1>25 DEF Cancelled, RollBack, Fails, IInv, TypeOK, FilesAsPlanned, Managed, Places
<1> QED
  BY <1>1, <1>2, <1>3, <1>4, <1>5, <1>6, <1>7, <1>8, <1>9, <1>10, <1>11, <1>12, <1>13, <1>14,
     <1>15, <1>16, <1>17, <1>18, <1>19, <1>20, <1>21, <1>22, <1>23, <1>24, <1>25 DEF Next

\* Backups are made before the journal and stay while it is applied.
LEMMA BackupsStep == IInv /\ [Next]_vars => BackupsMade'
<1> SUFFICES ASSUME IInv, [Next]_vars PROVE BackupsMade'
  OBVIOUS
<1> USE DEF disk, process, ghosts, bounds, Around
<1>1. ASSUME UNCHANGED vars PROVE BackupsMade'
  BY <1>1 DEF vars, IInv, TypeOK, BackupsMade, Backed, Targets, Control
<1>2. ASSUME InstallFromDesktop PROVE BackupsMade'
  BY <1>2 DEF InstallFromDesktop, Begin, IInv, TypeOK, BackupsMade, Backed, Targets, Control
<1>3. ASSUME RecoverOnly PROVE BackupsMade'
  BY <1>3 DEF RecoverOnly, Begin, IInv, TypeOK, BackupsMade, Backed, Targets, Control
<1>4. ASSUME NEW v \in Versions, InstallFromCli(v) PROVE BackupsMade'
  BY <1>4 DEF InstallFromCli, Begin, IInv, TypeOK, BackupsMade, Backed, Targets, Control
<1>5. ASSUME NEW v \in Versions, Preview(v) PROVE BackupsMade'
  BY <1>5 DEF Preview, IInv, TypeOK, BackupsMade, Backed, Targets, Control
<1>6. ASSUME NEW p \in Paths, EditFile(p) PROVE BackupsMade'
  BY <1>6 DEF EditFile, Touch, IInv, TypeOK, BackupsMade, Backed, Targets, Control
<1>7. ASSUME NEW p \in Paths, LoseBackup(p) PROVE BackupsMade'
  BY <1>7 DEF LoseBackup, Touch, IInv, TypeOK, BackupsMade, Backed, Targets, Control
<1>8. ASSUME NEW p \in Paths, Restore(p) PROVE BackupsMade'
  BY <1>8 DEF Restore, IInv, TypeOK, BackupsMade, Backed, Targets, Control
<1>9. ASSUME NEW p \in Paths, BackUp(p) PROVE BackupsMade'
  <2>1. CASE files[p] = plan.ops[p].before
    BY <1>9, <2>1 DEF BackUp, Copied, IInv, BackupsMade
  <2>2. CASE files[p] # plan.ops[p].before
    BY <1>9, <2>2 DEF BackUp, Leave, BackupsMade
  <2> QED
    BY <2>1, <2>2
<1>10. ASSUME NEW p \in Paths, CheckTarget(p) PROVE BackupsMade'
  BY <1>10 DEF CheckTarget, RollBack, IInv, TypeOK, BackupsMade, Backed, Targets, Control
<1>11. ASSUME NEW p \in Paths, Replace(p) PROVE BackupsMade'
  BY <1>11 DEF Replace, IInv, TypeOK, BackupsMade, Backed, Targets, Control
<1>12. ASSUME NothingToRecover PROVE BackupsMade'
  BY <1>12 DEF NothingToRecover, Recovered, Leave, IInv, TypeOK, BackupsMade, Backed, Targets,
     Control
<1>13. ASSUME RecoverCommitted PROVE BackupsMade'
  BY <1>13 DEF RecoverCommitted, Recovered, Leave, IInv, TypeOK, BackupsMade, Backed, Targets,
     Control
<1>14. ASSUME RefuseRecovery PROVE BackupsMade'
  BY <1>14 DEF RefuseRecovery, Leave, IInv, TypeOK, BackupsMade, Backed, Targets, Control
<1>15. ASSUME CheckRecovery PROVE BackupsMade'
  BY <1>15 DEF CheckRecovery, IInv, TypeOK, BackupsMade, Backed, Targets, Control
<1>16. ASSUME RolledBack PROVE BackupsMade'
  BY <1>16 DEF RolledBack, Recovered, Leave, IInv, TypeOK, BackupsMade, Backed, Targets, Control
<1>17. ASSUME RefusePlan PROVE BackupsMade'
  BY <1>17 DEF RefusePlan, Leave, IInv, TypeOK, BackupsMade, Backed, Targets, Control
<1>18. ASSUME MakePlan PROVE BackupsMade'
  BY <1>18 DEF MakePlan, IInv, TypeOK, BackupsMade, Backed, Targets, Control
<1>19. ASSUME RefuseFiles PROVE BackupsMade'
  BY <1>19 DEF RefuseFiles, Leave, IInv, TypeOK, BackupsMade, Backed, Targets, Control
<1>20. ASSUME Downloaded PROVE BackupsMade'
  BY <1>20 DEF Downloaded, IInv, TypeOK, BackupsMade, Backed, Targets, Control
<1>21. ASSUME WriteJournal PROVE BackupsMade'
  BY <1>21 DEF WriteJournal, BackedUp, IInv, BackupsMade, Backed, Targets
<1>22. ASSUME Commit PROVE BackupsMade'
  BY <1>22 DEF Commit, IInv, TypeOK, BackupsMade, Backed, Targets, Control
<1>23. ASSUME ForgetJournal PROVE BackupsMade'
  BY <1>23 DEF ForgetJournal, Leave, IInv, TypeOK, BackupsMade, Backed, Targets, Control
<1>24. ASSUME Die PROVE BackupsMade'
  BY <1>24 DEF Die, Leave, Fails, IInv, TypeOK, BackupsMade, Backed, Targets, Control
<1>25. ASSUME Cancelled PROVE BackupsMade'
  BY <1>25 DEF Cancelled, RollBack, Fails, IInv, TypeOK, BackupsMade, Backed, Targets, Control
<1> QED
  BY <1>1, <1>2, <1>3, <1>4, <1>5, <1>6, <1>7, <1>8, <1>9, <1>10, <1>11, <1>12, <1>13, <1>14,
     <1>15, <1>16, <1>17, <1>18, <1>19, <1>20, <1>21, <1>22, <1>23, <1>24, <1>25 DEF Next

\* A journal can be rolled back wherever it is left.
LEMMA JournalStep == IInv /\ [Next]_vars => JournalGood'
<1> SUFFICES ASSUME IInv, [Next]_vars PROVE JournalGood'
  OBVIOUS
<1> USE DEF disk, process, ghosts, bounds, Around
<1>1. ASSUME UNCHANGED vars PROVE JournalGood'
  BY <1>1 DEF vars, IInv, TypeOK, JournalGood, Backed, Targets, Control, Pending, Committed,
     NoTxn, NoPlan, Restoring
<1>2. ASSUME InstallFromDesktop PROVE JournalGood'
  BY <1>2 DEF InstallFromDesktop, Begin, IInv, TypeOK, JournalGood, Backed, Targets, Control,
     Pending, Committed, NoTxn, NoPlan, Restoring
<1>3. ASSUME RecoverOnly PROVE JournalGood'
  BY <1>3 DEF RecoverOnly, Begin, IInv, TypeOK, JournalGood, Backed, Targets, Control, Pending,
     Committed, NoTxn, NoPlan, Restoring
<1>4. ASSUME NEW v \in Versions, InstallFromCli(v) PROVE JournalGood'
  BY <1>4 DEF InstallFromCli, Begin, IInv, TypeOK, JournalGood, Backed, Targets, Control,
     Pending, Committed, NoTxn, NoPlan, Restoring
<1>5. ASSUME NEW v \in Versions, Preview(v) PROVE JournalGood'
  BY <1>5 DEF Preview, IInv, TypeOK, JournalGood, Backed, Targets, Control, Pending, Committed,
     NoTxn, NoPlan, Restoring
<1>6. ASSUME NEW p \in Paths, EditFile(p) PROVE JournalGood'
  BY <1>6 DEF EditFile, Touch, IInv, TypeOK, JournalGood, Backed, Targets, Control, Pending,
     Committed, NoTxn, NoPlan, Restoring
<1>7. ASSUME NEW p \in Paths, LoseBackup(p) PROVE JournalGood'
  <2>1. \A q \in Targets \ {p} : Backed(q) => Backed(q)'
    BY <1>7 DEF LoseBackup, Touch, Backed, Backup, Targets
  <2> QED
    BY <1>7, <2>1 DEF LoseBackup, Touch, IInv, JournalGood, Pending, Committed, Targets
<1>8. ASSUME NEW p \in Paths, Restore(p) PROVE JournalGood'
  BY <1>8 DEF Restore, IInv, TypeOK, JournalGood, Backed, Targets, Control, Pending, Committed,
     NoTxn, NoPlan, Restoring
<1>9. ASSUME NEW p \in Paths, BackUp(p) PROVE JournalGood'
  BY <1>9 DEF BackUp, Leave, IInv, TypeOK, JournalGood, Backed, Targets, Control, Pending,
     Committed, NoTxn, NoPlan, Restoring
<1>10. ASSUME NEW p \in Paths, CheckTarget(p) PROVE JournalGood'
  BY <1>10 DEF CheckTarget, RollBack, IInv, TypeOK, JournalGood, Backed, Targets, Control,
     Pending, Committed, NoTxn, NoPlan, Restoring
<1>11. ASSUME NEW p \in Paths, Replace(p) PROVE JournalGood'
  BY <1>11 DEF Replace, IInv, TypeOK, JournalGood, Backed, Targets, Control, Pending, Committed,
     NoTxn, NoPlan, Restoring
<1>12. ASSUME NothingToRecover PROVE JournalGood'
  BY <1>12 DEF NothingToRecover, Recovered, Leave, IInv, TypeOK, JournalGood, Backed, Targets,
     Control, Pending, Committed, NoTxn, NoPlan, Restoring
<1>13. ASSUME RecoverCommitted PROVE JournalGood'
  BY <1>13 DEF RecoverCommitted, Recovered, Leave, IInv, TypeOK, JournalGood, Backed, Targets,
     Control, Pending, Committed, NoTxn, NoPlan, Restoring
<1>14. ASSUME RefuseRecovery PROVE JournalGood'
  BY <1>14 DEF RefuseRecovery, Leave, IInv, TypeOK, JournalGood, Backed, Targets, Control,
     Pending, Committed, NoTxn, NoPlan, Restoring
<1>15. ASSUME CheckRecovery PROVE JournalGood'
  BY <1>15 DEF CheckRecovery, IInv, TypeOK, JournalGood, Backed, Targets, Control, Pending,
     Committed, NoTxn, NoPlan, Restoring
<1>16. ASSUME RolledBack PROVE JournalGood'
  BY <1>16 DEF RolledBack, Recovered, Leave, IInv, TypeOK, JournalGood, Backed, Targets,
     Control, Pending, Committed, NoTxn, NoPlan, Restoring
<1>17. ASSUME RefusePlan PROVE JournalGood'
  BY <1>17 DEF RefusePlan, Leave, IInv, TypeOK, JournalGood, Backed, Targets, Control, Pending,
     Committed, NoTxn, NoPlan, Restoring
<1>18. ASSUME MakePlan PROVE JournalGood'
  BY <1>18 DEF MakePlan, IInv, TypeOK, JournalGood, Backed, Targets, Control, Pending,
     Committed, NoTxn, NoPlan, Restoring
<1>19. ASSUME RefuseFiles PROVE JournalGood'
  BY <1>19 DEF RefuseFiles, Leave, IInv, TypeOK, JournalGood, Backed, Targets, Control, Pending,
     Committed, NoTxn, NoPlan, Restoring
<1>20. ASSUME Downloaded PROVE JournalGood'
  BY <1>20 DEF Downloaded, IInv, TypeOK, JournalGood, Backed, Targets, Control, Pending,
     Committed, NoTxn, NoPlan, Restoring
<1>21. ASSUME WriteJournal PROVE JournalGood'
  <2>1. journal' = [id |-> txn,
  ops |-> plan.ops] /\ files' = files /\ history' = history /\ late' = late
    BY <1>21 DEF WriteJournal
  <2>2. \A p \in DOMAIN plan.ops : plan.ops[p].before # Absent => Backup(txn, p,
  plan.ops[p].before) \in history
    BY <1>21 DEF WriteJournal, BackedUp, IInv, BackupsMade
  <2>3. \A p \in DOMAIN plan.ops \ late : files[p] = plan.ops[p].before
    BY <1>21 DEF WriteJournal, IInv, FilesAsPlanned
  <2>4. \A p \in DOMAIN plan.ops : \E v \in Versions : plan.ops[p].after = Release[v][p]
    BY <1>21 DEF WriteJournal, IInv, PlanMade
  <2> QED
    BY <2>1, <2>2, <2>3, <2>4 DEF JournalGood, Backed, Targets
<1>22. ASSUME Commit PROVE JournalGood'
  BY <1>22 DEF Commit, IInv, TypeOK, JournalGood, Backed, Targets, Control, Pending, Committed,
     NoTxn, NoPlan, Restoring
<1>23. ASSUME ForgetJournal PROVE JournalGood'
  BY <1>23 DEF ForgetJournal, Leave, IInv, TypeOK, JournalGood, Backed, Targets, Control,
     Pending, Committed, NoTxn, NoPlan, Restoring
<1>24. ASSUME Die PROVE JournalGood'
  BY <1>24 DEF Die, Leave, Fails, IInv, TypeOK, JournalGood, Backed, Targets, Control, Pending,
     Committed, NoTxn, NoPlan, Restoring
<1>25. ASSUME Cancelled PROVE JournalGood'
  BY <1>25 DEF Cancelled, RollBack, Fails, IInv, TypeOK, JournalGood, Backed, Targets, Control,
     Pending, Committed, NoTxn, NoPlan, Restoring
<1> QED
  BY <1>1, <1>2, <1>3, <1>4, <1>5, <1>6, <1>7, <1>8, <1>9, <1>10, <1>11, <1>12, <1>13, <1>14,
     <1>15, <1>16, <1>17, <1>18, <1>19, <1>20, <1>21, <1>22, <1>23, <1>24, <1>25 DEF Next

\* A recovery knows what it has yet to restore.
LEMMA RestoringStep == IInv /\ [Next]_vars => Restoring'
<1> SUFFICES ASSUME IInv, [Next]_vars PROVE Restoring'
  OBVIOUS
<1> USE DEF disk, process, ghosts, bounds, Around
<1>1. ASSUME UNCHANGED vars PROVE Restoring'
  BY <1>1 DEF vars, IInv, TypeOK, Restoring, JournalGood, Targets, Control
<1>2. ASSUME InstallFromDesktop PROVE Restoring'
  BY <1>2 DEF InstallFromDesktop, Begin, IInv, TypeOK, Restoring, JournalGood, Targets, Control
<1>3. ASSUME RecoverOnly PROVE Restoring'
  BY <1>3 DEF RecoverOnly, Begin, IInv, TypeOK, Restoring, JournalGood, Targets, Control
<1>4. ASSUME NEW v \in Versions, InstallFromCli(v) PROVE Restoring'
  BY <1>4 DEF InstallFromCli, Begin, IInv, TypeOK, Restoring, JournalGood, Targets, Control
<1>5. ASSUME NEW v \in Versions, Preview(v) PROVE Restoring'
  BY <1>5 DEF Preview, IInv, TypeOK, Restoring, JournalGood, Targets, Control
<1>6. ASSUME NEW p \in Paths, EditFile(p) PROVE Restoring'
  BY <1>6 DEF EditFile, Touch, IInv, TypeOK, Restoring, JournalGood, Targets, Control
<1>7. ASSUME NEW p \in Paths, LoseBackup(p) PROVE Restoring'
  BY <1>7 DEF LoseBackup, Touch, IInv, TypeOK, Restoring, JournalGood, Targets, Control
<1>8. ASSUME NEW p \in Paths, Restore(p) PROVE Restoring'
  BY <1>8 DEF Restore, IInv, TypeOK, Restoring, JournalGood, Targets, Control
<1>9. ASSUME NEW p \in Paths, BackUp(p) PROVE Restoring'
  BY <1>9 DEF BackUp, Leave, IInv, TypeOK, Restoring, JournalGood, Targets, Control
<1>10. ASSUME NEW p \in Paths, CheckTarget(p) PROVE Restoring'
  BY <1>10 DEF CheckTarget, RollBack, IInv, TypeOK, Restoring, JournalGood, Targets, Control
<1>11. ASSUME NEW p \in Paths, Replace(p) PROVE Restoring'
  BY <1>11 DEF Replace, IInv, TypeOK, Restoring, JournalGood, Targets, Control
<1>12. ASSUME NothingToRecover PROVE Restoring'
  BY <1>12 DEF NothingToRecover, Recovered, Leave, IInv, TypeOK, Restoring, JournalGood,
     Targets, Control
<1>13. ASSUME RecoverCommitted PROVE Restoring'
  BY <1>13 DEF RecoverCommitted, Recovered, Leave, IInv, TypeOK, Restoring, JournalGood,
     Targets, Control
<1>14. ASSUME RefuseRecovery PROVE Restoring'
  BY <1>14 DEF RefuseRecovery, Leave, IInv, TypeOK, Restoring, JournalGood, Targets, Control
<1>15. ASSUME CheckRecovery PROVE Restoring'
  BY <1>15 DEF CheckRecovery, ToUndo, Undone, Foreign, Damaged, IInv, JournalGood, Restoring,
     Targets
<1>16. ASSUME RolledBack PROVE Restoring'
  BY <1>16 DEF RolledBack, Recovered, Leave, IInv, TypeOK, Restoring, JournalGood, Targets,
     Control
<1>17. ASSUME RefusePlan PROVE Restoring'
  BY <1>17 DEF RefusePlan, Leave, IInv, TypeOK, Restoring, JournalGood, Targets, Control
<1>18. ASSUME MakePlan PROVE Restoring'
  BY <1>18 DEF MakePlan, IInv, TypeOK, Restoring, JournalGood, Targets, Control
<1>19. ASSUME RefuseFiles PROVE Restoring'
  BY <1>19 DEF RefuseFiles, Leave, IInv, TypeOK, Restoring, JournalGood, Targets, Control
<1>20. ASSUME Downloaded PROVE Restoring'
  BY <1>20 DEF Downloaded, IInv, TypeOK, Restoring, JournalGood, Targets, Control
<1>21. ASSUME WriteJournal PROVE Restoring'
  BY <1>21 DEF WriteJournal, IInv, TypeOK, Restoring, JournalGood, Targets, Control
<1>22. ASSUME Commit PROVE Restoring'
  BY <1>22 DEF Commit, IInv, TypeOK, Restoring, JournalGood, Targets, Control
<1>23. ASSUME ForgetJournal PROVE Restoring'
  BY <1>23 DEF ForgetJournal, Leave, IInv, TypeOK, Restoring, JournalGood, Targets, Control
<1>24. ASSUME Die PROVE Restoring'
  BY <1>24 DEF Die, Leave, Fails, IInv, TypeOK, Restoring, JournalGood, Targets, Control
<1>25. ASSUME Cancelled PROVE Restoring'
  BY <1>25 DEF Cancelled, RollBack, Fails, IInv, TypeOK, Restoring, JournalGood, Targets, Control
<1> QED
  BY <1>1, <1>2, <1>3, <1>4, <1>5, <1>6, <1>7, <1>8, <1>9, <1>10, <1>11, <1>12, <1>13, <1>14,
     <1>15, <1>16, <1>17, <1>18, <1>19, <1>20, <1>21, <1>22, <1>23, <1>24, <1>25 DEF Next

-----------------------------------------------------------------------------
(* The files as the player may count on them.                              *)

\* A step that leaves the disk alone leaves Settled alone.
LEMMA SettledDisk ==
  ASSUME UNCHANGED <<files, receipt, journal>>, NEW p \in Paths
  PROVE  Settled(p)' = Settled(p)
BY DEF Settled, Pending, Committed, Targets

\* Restoring a file or replacing it leaves Settled alone.
LEMMA SettledReplace ==
  ASSUME IInv, NEW q \in Paths, Restore(q) \/ Replace(q), NEW p \in Paths
  PROVE  Settled(p)' = Settled(p)
<1>1. Pending /\ ~Committed /\ UNCHANGED <<journal, receipt>> /\ q \in Targets /\ files \in [Paths -> File]
  BY DEF IInv, TypeOK, Control, Restore, Replace, Restoring, FilesAsPlanned, Latest, Removals,
     Targets
<1>2. /\ \A r \in Paths \ {q} : files'[r] = files[r]
      /\ {files[q], files'[q]} \subseteq {journal.ops[q].before, journal.ops[q].after}
  <2>1. CASE Restore(q)
    BY <1>1, <2>1 DEF Restore, IInv, Control, Restoring, Latest, Removals
  <2>2. CASE Replace(q)
    BY <1>1, <2>2 DEF Replace, IInv, Control, FilesAsPlanned
  <2> QED
    BY <2>1, <2>2
<1> QED
  BY <1>1, <1>2 DEF Settled, Pending, Committed, Targets

\* Editing a file changes Settled there only.
LEMMA SettledEdit ==
  ASSUME IInv, NEW q \in Paths, EditFile(q), NEW p \in Paths \ {q}
  PROVE  Settled(p)' = Settled(p)
BY DEF IInv, TypeOK, EditFile, Touch, Settled, Pending, Committed, Targets

\* Writing the journal, or dropping it after a roll-back, changes Settled only where the
\* player was.
LEMMA SettledJournal ==
  ASSUME IInv, WriteJournal \/ RolledBack, NEW p \in Paths \ late
  PROVE  Settled(p)' = Settled(p)
<1>1. CASE WriteJournal
  <2>1. ~Pending /\ journal' = [id |-> txn, ops |-> plan.ops] /\ files' = files
        /\ (p \in DOMAIN plan.ops => files[p] = plan.ops[p].before)
    BY <1>1 DEF WriteJournal, IInv, Control, FilesAsPlanned
  <2> QED
    BY <2>1 DEF Settled, Pending, Committed, Targets
<1>2. CASE RolledBack
  <2>1. journal'.id = 0 /\ files' = files /\ (p \in Targets => files[p] = journal.ops[p].before)
    BY <1>2 DEF RolledBack, IInv, Restoring, NoTxn
  <2> QED
    BY <2>1 DEF Settled, Pending, Committed, Targets
<1> QED
  BY <1>1, <1>2

\* Forgetting the journal of a transaction that has committed leaves Settled alone.
LEMMA SettledCommitted ==
  ASSUME IInv, RecoverCommitted \/ ForgetJournal, NEW p \in Paths
  PROVE  Settled(p)' = Settled(p)
<1>1. Committed /\ journal'.id = 0 /\ files' = files
  BY DEF RecoverCommitted, ForgetJournal, IInv, Control, NoTxn
<1> QED
  BY <1>1 DEF Settled, Pending, Committed

\* The commit puts the release there as a whole, but where the player was.
LEMMA SettledCommit ==
  ASSUME IInv, Commit, NEW p \in Paths
  PROVE  IF p \notin Managed(plan.want) THEN Settled(p)' = Settled(p)
         ELSE \/ Settled(p)' = Release[plan.want][p]
              \/ p \in late /\ Settled(p)' = Settled(p)
<1>1. Pending /\ ~Committed /\ journal.ops = plan.ops /\ journal.id = txn /\ left = {}
      /\ receipt' = [id |-> txn, version |-> plan.want] /\ files' = files /\ journal' = journal
  BY DEF Commit, IInv, Control
<1>2. Settled(p)' = files[p]
  BY <1>1 DEF Settled, Pending, Committed
<1>3. CASE p \notin DOMAIN plan.ops
  <2>1. Settled(p) = files[p]
    BY <1>1, <1>3 DEF Settled, Targets
  <2>2. p \in Managed(plan.want) \ late => files[p] = Release[plan.want][p]
    BY <1>3 DEF Commit, IInv, FilesAsPlanned
  <2> QED
    BY <1>2, <2>1, <2>2
<1>4. CASE p \in DOMAIN plan.ops
  <2>1. p \in Managed(plan.want) /\ plan.ops[p].after = Release[plan.want][p]
    BY <1>4 DEF Commit, IInv, PlanMade
  <2>2. p \notin late => files[p] = plan.ops[p].after
    BY <1>1, <1>4 DEF Commit, IInv, FilesAsPlanned
  <2>3. files[p] # plan.ops[p].after => Settled(p) = files[p]
    BY <1>1 DEF Settled, Targets
  <2> QED
    BY <1>2, <2>1, <2>2, <2>3
<1> QED
  BY <1>3, <1>4

\* The installed release stays there, but where the player was.
LEMMA ReleaseStep == IInv /\ [Next]_vars => ReleaseSettled'
<1> SUFFICES ASSUME IInv, [Next]_vars PROVE ReleaseSettled'
  OBVIOUS
<1> USE DEF disk, process, ghosts, bounds, Around
<1>1. ASSUME UNCHANGED vars PROVE ReleaseSettled'
  BY <1>1 DEF vars, IInv, ReleaseSettled, Settled, Pending, Committed, Targets
<1>2. ASSUME InstallFromDesktop PROVE ReleaseSettled'
  BY <1>2, SettledDisk DEF InstallFromDesktop, Begin, IInv, ReleaseSettled
<1>3. ASSUME RecoverOnly PROVE ReleaseSettled'
  BY <1>3, SettledDisk DEF RecoverOnly, Begin, IInv, ReleaseSettled
<1>4. ASSUME NEW v \in Versions, InstallFromCli(v) PROVE ReleaseSettled'
  BY <1>4, SettledDisk DEF InstallFromCli, Begin, IInv, ReleaseSettled
<1>5. ASSUME NEW v \in Versions, Preview(v) PROVE ReleaseSettled'
  BY <1>5, SettledDisk DEF Preview, IInv, ReleaseSettled
<1>6. ASSUME NEW p \in Paths, EditFile(p) PROVE ReleaseSettled'
  BY <1>6, SettledEdit DEF EditFile, Touch, IInv, ReleaseSettled
<1>7. ASSUME NEW p \in Paths, LoseBackup(p) PROVE ReleaseSettled'
  BY <1>7, SettledDisk DEF LoseBackup, Touch, IInv, ReleaseSettled
<1>8. ASSUME NEW p \in Paths, Restore(p) PROVE ReleaseSettled'
  BY <1>8, SettledReplace DEF Restore, IInv, ReleaseSettled
<1>9. ASSUME NEW p \in Paths, BackUp(p) PROVE ReleaseSettled'
  BY <1>9, SettledDisk DEF BackUp, IInv, ReleaseSettled
<1>10. ASSUME NEW p \in Paths, CheckTarget(p) PROVE ReleaseSettled'
  BY <1>10, SettledDisk DEF CheckTarget, IInv, ReleaseSettled
<1>11. ASSUME NEW p \in Paths, Replace(p) PROVE ReleaseSettled'
  BY <1>11, SettledReplace DEF Replace, IInv, ReleaseSettled
<1>12. ASSUME NothingToRecover PROVE ReleaseSettled'
  BY <1>12, SettledDisk DEF NothingToRecover, IInv, ReleaseSettled
<1>13. ASSUME RecoverCommitted PROVE ReleaseSettled'
  BY <1>13, SettledCommitted DEF RecoverCommitted, IInv, ReleaseSettled
<1>14. ASSUME RefuseRecovery PROVE ReleaseSettled'
  BY <1>14, SettledDisk DEF RefuseRecovery, IInv, ReleaseSettled
<1>15. ASSUME CheckRecovery PROVE ReleaseSettled'
  BY <1>15, SettledDisk DEF CheckRecovery, IInv, ReleaseSettled
<1>16. ASSUME RolledBack PROVE ReleaseSettled'
  BY <1>16, SettledJournal DEF RolledBack, IInv, ReleaseSettled
<1>17. ASSUME RefusePlan PROVE ReleaseSettled'
  BY <1>17, SettledDisk DEF RefusePlan, IInv, ReleaseSettled
<1>18. ASSUME MakePlan PROVE ReleaseSettled'
  BY <1>18, SettledDisk DEF MakePlan, IInv, ReleaseSettled
<1>19. ASSUME RefuseFiles PROVE ReleaseSettled'
  BY <1>19, SettledDisk DEF RefuseFiles, IInv, ReleaseSettled
<1>20. ASSUME Downloaded PROVE ReleaseSettled'
  BY <1>20, SettledDisk DEF Downloaded, IInv, ReleaseSettled
<1>21. ASSUME WriteJournal PROVE ReleaseSettled'
  BY <1>21, SettledJournal DEF WriteJournal, IInv, ReleaseSettled
<1>22. ASSUME Commit PROVE ReleaseSettled'
  <2>1. receipt'.version = plan.want /\ own' = (own \ Managed(plan.want)) \cup late /\ late' = late
    BY <1>22 DEF Commit
  <2>2. late \subseteq own'
    BY <2>1
  <2>3. ASSUME NEW p \in Paths \ own' PROVE Settled(p)' = Release[plan.want][p]
    <3>1. CASE p \in Managed(plan.want)
      BY <1>22, <2>1, <3>1, SettledCommit
    <3>2. CASE p \notin Managed(plan.want)
      <4>1. Settled(p)' = Settled(p) /\ p \notin own
        BY <1>22, <2>1, <3>2, SettledCommit
      <4>2. Release[plan.want][p] = Absent /\ Release[receipt.version][p] = Absent
        BY <3>2 DEF Managed
      <4> QED
        BY <4>1, <4>2 DEF IInv, ReleaseSettled
    <3> QED
      BY <3>1, <3>2
  <2> QED
    BY <2>1, <2>2, <2>3 DEF ReleaseSettled
<1>23. ASSUME ForgetJournal PROVE ReleaseSettled'
  BY <1>23, SettledCommitted DEF ForgetJournal, IInv, ReleaseSettled
<1>24. ASSUME Die PROVE ReleaseSettled'
  BY <1>24, SettledDisk DEF Die, Fails, IInv, ReleaseSettled
<1>25. ASSUME Cancelled PROVE ReleaseSettled'
  BY <1>25, SettledDisk DEF Cancelled, Fails, IInv, ReleaseSettled
<1> QED
  BY <1>1, <1>2, <1>3, <1>4, <1>5, <1>6, <1>7, <1>8, <1>9, <1>10, <1>11, <1>12, <1>13, <1>14,
     <1>15, <1>16, <1>17, <1>18, <1>19, <1>20, <1>21, <1>22, <1>23, <1>24, <1>25 DEF Next
-----------------------------------------------------------------------------
(* The inductive invariant, and what follows from it.                      *)

\* The invariant holds at first.
LEMMA InvInit == Init => IInv
<1> SUFFICES ASSUME Init PROVE IInv
  OBVIOUS
<1>1. TypeOK
  BY TypeInit
<1>2. ~Pending /\ pc = "idle" /\ checked = {} /\ Targets = {} /\ txn = 0 /\ receipt.id = 0
      /\ journal.id = 0 /\ late = {} /\ job = NoJob /\ receipt.version = NoPack
  BY DEF Init, NoTxn, NoPlan, Pending, Targets
<1>3. Control /\ Numbers /\ PlanMade /\ FilesAsPlanned /\ BackupsMade /\ JournalGood /\ Restoring
  BY <1>2 DEF Control, Numbers, PlanMade, FilesAsPlanned, BackupsMade, JournalGood, Restoring
<1>4. Agreement
  BY <1>2 DEF Agreement, NoJob
<1>5. \A p \in Paths \ own : Settled(p) = Release[receipt.version][p]
  BY <1>2, ConstantsOK DEF Settled, Init
<1> QED
  BY <1>1, <1>2, <1>3, <1>4, <1>5 DEF IInv, ReleaseSettled

\* Every step keeps it.
LEMMA InvStep == IInv /\ [Next]_vars => IInv'
BY TypeStep, ControlStep, NumbersStep, AgreementStep, PlanStep, FilesStep, BackupsStep,
   JournalStep,
   RestoringStep, ReleaseStep DEF IInv

\* It holds always.
LEMMA InvAlways == Spec => []IInv
BY InvInit, InvStep, PTL DEF Spec

\* The state is well typed.
THEOREM TypeCorrect == Spec => []TypeOK
<1>1. IInv => TypeOK
  BY DEF IInv
<1> QED
  BY <1>1, InvAlways, PTL

\* A transaction that has not committed can be rolled back wherever it is left.
THEOREM RecoverableAlways == Spec => []Recoverable
<1>1. IInv => Recoverable
  BY DEF IInv, JournalGood, Recoverable, Undone
<1> QED
  BY <1>1, InvAlways, PTL

\* The receipt says what is there.
THEOREM PackCorrect == Spec => []PackAsReleased
<1>1. IInv => PackAsReleased
  BY DEF IInv, ReleaseSettled, PackAsReleased, Settled
<1> QED
  BY <1>1, InvAlways, PTL

\* Nothing of the player's is lost.
THEOREM NothingLostEver == Spec => NothingLost
<1> DEFINE Kept == edits' = edits =>
      \A p \in Paths : files[p] # Absent /\ files'[p] # files[p] =>
        \/ \E v \in Versions : files[p] = Release[v][p]
        \/ \E b \in history' : b.path = p /\ b.content = files[p]
<1>1. IInv /\ [Next]_vars => Kept \/ UNCHANGED vars
  <2> SUFFICES ASSUME IInv, Next, edits' = edits, NEW p \in Paths, files[p] # Absent,
  files'[p] # files[p]
               PROVE  \/ \E v \in Versions : files[p] = Release[v][p]
                      \/ \E b \in history' : b.path = p /\ b.content = files[p]
    OBVIOUS
  <2>1. \E q \in Paths : Restore(q) \/ Replace(q)
    <3> USE DEF disk, process, ghosts, bounds, Around
    <3>1. ASSUME NEW q \in Paths, EditFile(q) \/ LoseBackup(q) PROVE FALSE
      BY <3>1 DEF EditFile, LoseBackup, Touch, IInv, TypeOK
    <3>2. ASSUME NEW q \in Paths, BackUp(q) \/ CheckTarget(q) PROVE FALSE
      BY <3>2 DEF BackUp, CheckTarget
    <3>3. ASSUME NEW v \in Versions, InstallFromCli(v) \/ Preview(v) PROVE FALSE
      BY <3>3 DEF InstallFromCli, Preview, Begin
    <3>4. ASSUME InstallFromDesktop \/ RecoverOnly \/ NothingToRecover \/ RecoverCommitted
                 \/ RefuseRecovery \/ CheckRecovery \/ RolledBack PROVE FALSE
      BY <3>4 DEF InstallFromDesktop, RecoverOnly, Begin, NothingToRecover, RecoverCommitted,
         RefuseRecovery, CheckRecovery, RolledBack
    <3>5. ASSUME RefusePlan \/ MakePlan \/ RefuseFiles \/ Downloaded \/ WriteJournal \/ Commit
                 \/ ForgetJournal \/ Die \/ Cancelled PROVE FALSE
      BY <3>5 DEF RefusePlan, MakePlan, RefuseFiles, Downloaded, WriteJournal, Commit,
         ForgetJournal,
         Die, Cancelled, Fails
    <3> QED
      BY <3>1, <3>2, <3>3, <3>4, <3>5 DEF Next
  <2>2. PICK q \in Paths : Restore(q) \/ Replace(q)
    BY <2>1
  <2>3. p = q
    BY <2>2 DEF Restore, Replace, IInv, TypeOK
  <2>4. CASE Restore(q)
    <3>1. q \in Targets /\ files[q] = journal.ops[q].after
      BY <2>4 DEF Restore, Latest, Removals, IInv, Restoring
    <3> QED
      BY <2>3, <3>1 DEF IInv, JournalGood
  <2>5. CASE Replace(q)
    <3>1. q \in Targets /\ files[q] = journal.ops[q].before /\ Backed(q) /\ history' = history
      BY <2>5 DEF Replace, IInv, Control, FilesAsPlanned, BackupsMade, Targets
    <3>2. Backup(journal.id, q, files[q]) \in history'
      BY <2>3, <3>1 DEF Backed
    <3> QED
      BY <2>3, <3>2 DEF Backup
  <2> QED
    BY <2>2, <2>4, <2>5
<1> QED
  BY <1>1, InvAlways, PTL DEF Spec, NothingLost

\* What the player was not shown is not replaced.
THEOREM NothingUnseenEver == Spec => NothingUnseen
<1>1. IInv /\ [Next]_vars =>
        (pc = "apply" /\ pc' = "apply" =>
           \A p \in checked : files'[p] # files[p] /\ Conflict(p) => p \in job.seen)
  <2> SUFFICES ASSUME IInv, pc = "apply", NEW p \in checked, Conflict(p)
               PROVE  p \in job.seen
    OBVIOUS
  <2> QED
    BY DEF IInv, PlanMade, FilesAsPlanned, Conflict
<1> QED
  BY <1>1, InvAlways, PTL DEF Spec, NothingUnseen
-----------------------------------------------------------------------------
(* The installer implements the update it promises.                        *)

\* The installer does nothing but whole updates.
THEOREM UpdateCorrect == Spec => Implements
<1>1. Init => Promise!Init
  <2> SUFFICES ASSUME Init PROVE Promise!Init
    OBVIOUS
  <2>1. files \in [Paths -> File] /\ ~Pending
    BY ConstantsOK DEF Init, File, Pending, NoTxn
  <2>2. [p \in Paths |-> Settled(p)] = files
    BY <2>1 DEF Settled
  <2> QED
    BY <2>2 DEF Init, Promise!Init
<1>2. IInv /\ IInv' /\ [Next]_vars => [Promise!Next]_(Promise!vars)
  <2> SUFFICES ASSUME IInv, IInv', [Next]_vars PROVE [Promise!Next]_(Promise!vars)
    OBVIOUS
  <2> DEFINE Same == \A p \in Paths : Settled(p)' = Settled(p)
  <2> USE DEF disk, process, ghosts, bounds, Around
  <2>1. ASSUME Same, UNCHANGED <<receipt, own>> PROVE UNCHANGED Promise!vars
    BY <2>1 DEF Promise!vars
  <2>2. \A p \in Paths : Settled(p)' \in Contents \cup {Absent}
    BY DEF IInv, TypeOK, Settled, Targets, Operation, File
  <2>3. ASSUME NEW P \in SUBSET Paths, \A p \in Paths \ P : Settled(p)' = Settled(p),
               own' = own \cup P, receipt' = receipt
        PROVE  Promise!Edit
    BY <2>2, <2>3 DEF Promise!Edit
  <2>4. ASSUME UNCHANGED <<files, receipt, journal, own>> PROVE UNCHANGED Promise!vars
    BY <2>1, <2>4, SettledDisk
  <2>5. ASSUME NEW q \in Paths, EditFile(q) PROVE Promise!Edit
    <3>1. {q} \in SUBSET Paths /\ own' = own \cup {q} /\ receipt' = receipt
      BY <2>5 DEF EditFile, Touch
    <3>2. \A p \in Paths \ {q} : Settled(p)' = Settled(p)
      BY <2>5, SettledEdit
    <3> QED
      BY <2>3, <3>1, <3>2
  <2>6. ASSUME NEW q \in Paths, LoseBackup(q) PROVE Promise!Edit
    BY <2>3, <2>6, SettledDisk DEF LoseBackup, Touch
  <2>7. ASSUME WriteJournal \/ RolledBack PROVE Promise!Edit
    <3>1. late \subseteq Paths /\ own' = own \cup late /\ receipt' = receipt
      BY <2>7 DEF WriteJournal, RolledBack, IInv, TypeOK, ReleaseSettled
    <3> QED
      BY <2>3, <2>7, <3>1, SettledJournal
  <2>8. ASSUME NEW q \in Paths, Restore(q) \/ Replace(q) PROVE UNCHANGED Promise!vars
    BY <2>1, <2>8, SettledReplace DEF Restore, Replace
  <2>9. ASSUME RecoverCommitted \/ ForgetJournal PROVE UNCHANGED Promise!vars
    BY <2>1, <2>9, SettledCommitted DEF RecoverCommitted, ForgetJournal
  <2>10. ASSUME Commit PROVE Promise!Install
    <3>1. plan.want \in Versions /\ late \in SUBSET own /\ receipt'.version = plan.want
          /\ own' = (own \ Managed(plan.want)) \cup late
      BY <2>10 DEF Commit, IInv, PlanMade, ReleaseSettled
    <3>2. Promise!Managed(plan.want) = Managed(plan.want)
      BY DEF Managed, Promise!Managed
    <3> QED
      BY <2>2, <2>10, <3>1, <3>2, SettledCommit DEF Promise!Install
  <2>11. ASSUME UNCHANGED vars PROVE UNCHANGED Promise!vars
    BY <2>4, <2>11 DEF vars
  <2>12. ASSUME InstallFromDesktop \/ RecoverOnly PROVE UNCHANGED Promise!vars
    BY <2>4, <2>12 DEF InstallFromDesktop, RecoverOnly, Begin
  <2>13. ASSUME NEW v \in Versions, InstallFromCli(v) \/ Preview(v) PROVE UNCHANGED Promise!vars
    BY <2>4, <2>13 DEF InstallFromCli, Preview, Begin
  <2>14. ASSUME NEW p \in Paths, BackUp(p) \/ CheckTarget(p) PROVE UNCHANGED Promise!vars
    BY <2>4, <2>14 DEF BackUp, CheckTarget
  <2>15. ASSUME NothingToRecover \/ RefuseRecovery \/ CheckRecovery \/ RefusePlan \/ MakePlan
                \/ RefuseFiles \/ Downloaded \/ Die \/ Cancelled
         PROVE  UNCHANGED Promise!vars
    BY <2>4, <2>15 DEF NothingToRecover, RefuseRecovery, CheckRecovery, RefusePlan, MakePlan,
       RefuseFiles, Downloaded, Die, Cancelled, Fails
  <2> QED
    BY <2>5, <2>6, <2>7, <2>8, <2>9, <2>10, <2>11, <2>12, <2>13, <2>14, <2>15 DEF Next,
       Promise!Next
<1> QED
  BY <1>1, <1>2, InvAlways, PTL DEF Spec, Implements, Promise!Spec
=============================================================================
