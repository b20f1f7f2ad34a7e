------------------------------ MODULE PackUpdate ------------------------------
(***************************************************************************)
(* What an update of a mod pack promises (the introduction of              *)
(* mc_manager/launcher/installer.py and docs/launcher-framework.md): the   *)
(* managed files change from one release to another as a whole or not at   *)
(* all, and what the player writes meanwhile is left alone.                *)
(***************************************************************************)
CONSTANTS Paths, Contents, Versions, Absent, NoPack,
          Release,   \* the content of each path in each release, Absent where it has none
          AtFirst    \* the contents of the directory before the first release

VARIABLES
  files,     \* the content of each path, Absent where there is no file
  version,   \* the release that is installed, or NoPack
  own        \* the paths the player has touched since a release was put there

vars == <<files, version, own>>
-----------------------------------------------------------------------------
Managed(v) == {p \in Paths : Release[v][p] # Absent \/ Release[version][p] # Absent}

Init ==
  /\ files \in AtFirst
  /\ version = NoPack
  /\ own = {p \in Paths : files[p] # Absent}

\* The player writes, deletes or puts back some files.
Edit ==
  \E P \in SUBSET Paths :
    /\ files' \in [Paths -> Contents \cup {Absent}]
    /\ \A p \in Paths \ P : files'[p] = files[p]
    /\ own' = own \cup P
    /\ UNCHANGED version

\* A release replaces another.  The paths of E are those the player touches
\* while that happens.
Install ==
  \E v \in Versions, E \in SUBSET own :
    /\ files' \in [Paths -> Contents \cup {Absent}]
    /\ \A p \in Paths :
         IF p \notin Managed(v) THEN files'[p] = files[p]
         ELSE \/ files'[p] = Release[v][p]
              \/ p \in E /\ files'[p] = files[p]
    /\ version' = v
    /\ own' = (own \ Managed(v)) \cup E

Next == Edit \/ Install

Spec == Init /\ [][Next]_vars
=============================================================================
