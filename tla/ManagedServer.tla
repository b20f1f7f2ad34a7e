---------------------------- MODULE ManagedServer ----------------------------
(* What the root tools of mc_manager/server_installer.py promise about one  *)
(* server id: it is free, or it has one server that is registered, enabled *)
(* and has the software the registry says; a tool changes that as a whole  *)
(* or not at all.  Only a tool that was killed, that failed again while it *)
(* undid its work, or whose registry write failed when the file had been   *)
(* replaced, may leave anything else: the server is damaged.               *)
CONSTANTS
  Versions,  \* the software that can be installed
  Manual,    \* the software of a server that agent.toml lists
  Free,      \* no server
  Stale,     \* an entry of agent.toml without files
  Damaged    \* nothing is promised any more

VARIABLE server

Init    == server \in Versions \cup {Manual, Free, Stale}
Install == server = Free /\ server' \in Versions
Change  == server \in Versions /\ server' \in Versions
Delete  == server \in Versions \cup {Manual, Stale} /\ server' = Free
Damage  == server' = Damaged
Next    == Install \/ Change \/ Delete \/ Damage

Spec == Init /\ [][Next]_server
=============================================================================
