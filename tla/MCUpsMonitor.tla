----------------------------- MODULE MCUpsMonitor -----------------------------
(* UpsMonitor with two servers on one host and one on another, any of which  *)
(* may leave the list or change its place in it.                             *)
EXTENDS UpsMonitor

CONSTANTS s1, s2, s3, h1, h2

MCServers == {s1, s2, s3}
MCHosts   == {h1, h2}
MCHostOf  == [s \in {s1, s2, s3} |-> IF s = s3 THEN h2 ELSE h1]
MCFirst   == <<s1, s2, s3>>
=============================================================================
