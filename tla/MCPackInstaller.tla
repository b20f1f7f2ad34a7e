---------------------------- MODULE MCPackInstaller ----------------------------
(***************************************************************************)
(* Two releases of three files: one is changed, one removed, one added.    *)
(***************************************************************************)
EXTENDS PackInstaller, TLC

CONSTANTS changed, removed, added

Pack ==
  NoPack :> [p \in Paths |-> Absent] @@
  "one"  :> (changed :> "one" @@ removed :> "one" @@ added :> Absent) @@
  "two"  :> (changed :> "two" @@ removed :> Absent @@ added :> "two")
\* a file of the player's where the pack has one
Unowned == {[p \in Paths |-> IF p = changed THEN "mine" ELSE Absent]}
=============================================================================
