------------------------- MODULE MCServerDirectory --------------------------
(* An instance of ServerDirectory: the server of controller.toml is on one  *)
(* agent, and both agents have a server with the same id.                  *)
EXTENDS ServerDirectory

CONSTANTS lobby, world, host1, host2

MCBase == {lobby}
MCSourceAgent == [b \in MCBase |-> host1]
MCFleets == {[a \in {host1, host2} |-> IF a = host1 THEN {lobby, world} ELSE {world}]}
=============================================================================
