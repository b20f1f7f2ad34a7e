------------------------------ MODULE UpsMonitor ------------------------------
(***************************************************************************)
(* The controller's UPS monitor (mc_manager/ups.py) and the supervisor     *)
(* that restarts it (mc_manager/controller.py): it polls the UPS, and when *)
(* the UPS runs on battery through a delay, stops every server, asks each  *)
(* host whose servers all stopped to shut down, and shuts the controller   *)
(* down.  What it publishes reaches ServerAutomation.power_reading, which  *)
(* keeps the outage on record.                                             *)
(*                                                                         *)
(* A step is the code between two awaits.  An announcement raises while    *)
(* the network is down: announce (mc_manager/discord_bot.py) catches       *)
(* Discord's own errors and not those of the connection.  (A channel is    *)
(* configured, and the bot was ready before.)                              *)
(***************************************************************************)
EXTENDS Naturals, Sequences, FiniteSets, Functions

CONSTANTS
  Servers,        \* the servers the controller may know
  Hosts,          \* pairs of agent_url and token
  HostOf,         \* the host of each server
  First,          \* config.servers at first, in order
  Exposed,        \* hosts with a shutdown_host script
  Delayed,        \* on_battery_delay_seconds is not 0
  NetworkReturns, \* whether a network that went down comes back
  MaxChanges,     \* bound: changes of config.servers in a behaviour
  Budget          \* bound: failed queries, refused or failed requests, network losses

ASSUME ConstantsOK ==
  /\ IsFiniteSet(Servers)
  /\ HostOf \in [Servers -> Hosts]
  /\ First \in Seq(Servers)
  /\ Exposed \subseteq Hosts
  /\ Delayed \in BOOLEAN /\ NetworkReturns \in BOOLEAN
  /\ MaxChanges \in Nat /\ Budget \in Nat

VARIABLES
  source,   \* what feeds the load, as the UPS reports it
  online,   \* the controller reaches Discord
  config,   \* config.servers
  power,    \* ServerAutomation's power_confirmed, line_since and outage
  pc,       \* where the monitor is
  listed,   \* the servers the stop phase began with
  stop,     \* how far _stop_server is for each of them
  paired,   \* config.servers when the stops were over, each with the result taken for its own
  host,     \* what became of each host
  changes,
  budget

vars == <<source, online, config, power, pc, listed, stop, paired, host, changes, budget>>
-----------------------------------------------------------------------------
Sources == {"line", "battery", "bypass"}
Steps   == {"poll", "warn", "delay", "act", "stopping", "hosts", "final", "off", "ended"}

\* the lists of servers there can be: each server once, in any order
Lists == UNION {Injection(1 .. n, Servers) : n \in 0 .. Cardinality(Servers)}

Group(h)    == {i \in DOMAIN paired : HostOf[paired[i].server] = h}
Disturbance == budget > 0 /\ budget' = budget - 1

\* (mutant) a protective status does not go on record
PublishedUnrecorded(reading) ==
  IF reading # "line" THEN {[power EXCEPT !.confirmed = FALSE, !.line = FALSE]}
  ELSE {[power EXCEPT !.line = TRUE]} \cup
       (IF power.line THEN {[confirmed |-> TRUE, line |-> TRUE, outage |-> FALSE]} ELSE {})

\* _publish_reading, into power_reading: line power counts after 60 s of it
Published(reading) ==
  CASE reading = "line" ->
         {[power EXCEPT !.line = TRUE]} \cup
         (IF power.line THEN {[confirmed |-> TRUE, line |-> TRUE, outage |-> FALSE]} ELSE {})
    [] reading = "battery" -> {[confirmed |-> FALSE, line |-> FALSE, outage |-> TRUE]}
    [] OTHER -> {[power EXCEPT !.confirmed = FALSE, !.line = FALSE]}

Init ==
  /\ source \in Sources
  /\ online = TRUE
  /\ config = First
  /\ power = [confirmed |-> FALSE, line |-> FALSE, outage |-> FALSE]
  /\ pc = "poll"
  /\ listed = <<>>
  /\ stop = [s \in Servers |-> "none"]
  /\ paired = <<>>
  /\ host = [h \in Hosts |-> "up"]
  /\ changes = MaxChanges
  /\ budget = Budget
-----------------------------------------------------------------------------
(* Around the monitor.                                                     *)

PowerChanges ==
  /\ pc # "off"
  /\ source' \in Sources \ {source}
  /\ UNCHANGED <<online, config, power, pc, listed, stop, paired, host, changes, budget>>

NetworkDown ==
  /\ online /\ online' = FALSE
  /\ Disturbance
  /\ UNCHANGED <<source, config, power, pc, listed, stop, paired, host, changes>>

NetworkUp ==
  /\ NetworkReturns
  /\ ~online /\ online' = TRUE
  /\ UNCHANGED <<source, config, power, pc, listed, stop, paired, host, changes, budget>>

\* sync_runtime_servers puts another list in the same config object: whatever the
\* registry and the paired agents have by now
ConfigChanges ==
  /\ changes > 0 /\ changes' = changes - 1
  /\ config' \in Lists \ {config}
  /\ UNCHANGED <<source, online, power, pc, listed, stop, paired, host, budget>>
-----------------------------------------------------------------------------
(* run and confirm_on_battery_after_delay.                                 *)

MonitorOnly == UNCHANGED <<source, online, config, listed, stop, paired, host, changes>>

\* await self.announce(...): an exception ends the monitor
Announce(next) == pc' = IF online THEN next ELSE "ended"

QueryFails ==
  /\ pc = "poll"
  /\ Disturbance
  /\ power' \in Published("unavailable")
  /\ UNCHANGED pc
  /\ MonitorOnly

Poll ==
  /\ pc = "poll"
  /\ power' \in Published(source)
  /\ pc' = IF source = "battery" THEN "warn" ELSE "poll"
  /\ UNCHANGED budget
  /\ MonitorOnly

Warn ==
  /\ pc = "warn"
  /\ Announce(IF Delayed THEN "delay" ELSE "act")
  /\ UNCHANGED <<power, budget>>
  /\ MonitorOnly

\* the second reading: only line power cancels
Confirm ==
  /\ pc = "delay"
  /\ \/ /\ power' \in Published(source)
        /\ IF source = "line" THEN Announce("poll") ELSE pc' = "act"
        /\ UNCHANGED budget
     \/ /\ Disturbance
        /\ power' \in Published("unavailable")
        /\ Announce("act")
  /\ MonitorOnly

\* (mutant) the monitor that ended is not replaced
SuperviseNever == FALSE

\* the supervisor makes a new monitor five seconds after one ended
Supervise ==
  /\ pc = "ended" /\ pc' = "poll"
  /\ UNCHANGED <<power, budget>>
  /\ MonitorOnly
-----------------------------------------------------------------------------
(* handle_power_outage.                                                    *)

StopOnly == UNCHANGED <<source, online, config, power, changes>>

BeginStops ==
  /\ pc = "act"
  /\ Announce("stopping")
  /\ IF online
       THEN listed' = config /\ stop' = [s \in Servers |-> IF s \in Range(config)
                                                             THEN "announce" ELSE "none"]
       ELSE UNCHANGED <<listed, stop>>
  /\ UNCHANGED <<paired, host, budget>>
  /\ StopOnly

\* _stop_server: an announcement that raises counts as a failed stop
SendStop(s) ==
  /\ pc = "stopping" /\ stop[s] = "announce"
  /\ stop' = [stop EXCEPT ![s] = IF online THEN "sent" ELSE "failed"]
  /\ UNCHANGED <<pc, listed, paired, host, budget>>
  /\ StopOnly

\* the stop job ends; refused, unreachable, failed or late, it is a failure
StopEnds(s) ==
  /\ pc = "stopping" /\ stop[s] = "sent"
  /\ \/ /\ stop' = [stop EXCEPT ![s] = IF host[HostOf[s]] = "off" THEN "failed" ELSE "stopped"]
        /\ UNCHANGED budget
     \/ Disturbance /\ stop' = [stop EXCEPT ![s] = "failed"]
  /\ UNCHANGED <<pc, listed, paired, host>>
  /\ StopOnly

\* zip(config.servers, stop_results): by position
Pair == [i \in DOMAIN config \cap DOMAIN listed |->
           [server |-> config[i], stopped |-> stop[listed[i]] = "stopped"]]

\* (mutant) the results are paired as far as they go
PairsAnyway == TRUE

\* strict=True: there is a result for every server, as far as their number tells
Pairs == Len(config) = Len(listed)

\* (mutant) servers are not grouped by their host
PendingServers == [s \in Range(config) |-> "pending"]
\* groups
PendingHosts == [h \in Hosts |-> IF host[h] = "off" THEN "off" ELSE "pending"]

\* zip raises when the list has another length by now
StopsOver ==
  /\ pc = "stopping"
  /\ \A s \in Servers : stop[s] \notin {"announce", "sent"}
  /\ IF Pairs
       THEN pc' = "hosts" /\ paired' = Pair /\ host' = PendingHosts
       ELSE pc' = "ended" /\ UNCHANGED <<paired, host>>
  /\ UNCHANGED <<listed, stop, budget>>
  /\ StopOnly

AllStopped(h) == \A i \in Group(h) : paired[i].stopped

\* _protect_downstream_host; a host with no server in the list is not asked
ProtectHost(h) ==
  /\ pc = "hosts" /\ host[h] = "pending"
  /\ \/ /\ host' = [host EXCEPT ![h] = IF Group(h) # {} /\ AllStopped(h) /\ h \in Exposed /\ online
                                         THEN "off" ELSE "kept"]
        /\ UNCHANGED budget
     \/ Disturbance /\ host' = [host EXCEPT ![h] = "kept"]
  /\ UNCHANGED <<pc, listed, stop, paired>>
  /\ StopOnly

HostsOver ==
  /\ pc = "hosts"
  /\ \A h \in Hosts : host[h] # "pending"
  /\ Announce("final")
  /\ UNCHANGED <<listed, stop, paired, host, budget>>
  /\ StopOnly

\* local_shutdown_command
ShutDown ==
  /\ pc = "final"
  /\ \/ pc' = "off" /\ UNCHANGED budget
     \/ Disturbance /\ pc' = "ended"
  /\ UNCHANGED <<listed, stop, paired, host>>
  /\ StopOnly

-----------------------------------------------------------------------------
Monitor ==
  \/ Poll \/ Warn \/ Confirm \/ Supervise \/ BeginStops \/ StopsOver \/ HostsOver \/ ShutDown
  \/ \E s \in Servers : SendStop(s) \/ StopEnds(s)
  \/ \E h \in Hosts : ProtectHost(h)

Next == PowerChanges \/ NetworkDown \/ NetworkUp \/ ConfigChanges \/ QueryFails \/ Monitor

\* the event loop runs the monitor, queries and jobs have deadlines, and a network
\* that returns returns in the end
Fairness == WF_vars(Monitor) /\ WF_vars(NetworkUp)

Spec == Init /\ [][Next]_vars /\ Fairness
-----------------------------------------------------------------------------
TypeOK ==
  /\ source \in Sources
  /\ online \in BOOLEAN
  /\ config \in Seq(Servers)
  /\ power \in [confirmed : BOOLEAN, line : BOOLEAN, outage : BOOLEAN]
  /\ pc \in Steps
  /\ listed \in Seq(Servers)
  /\ stop \in [Servers -> {"none", "announce", "sent", "stopped", "failed"}]
  /\ paired \in Seq([server : Servers, stopped : BOOLEAN])
  /\ host \in [Hosts -> {"up", "pending", "kept", "off"}]
  /\ changes \in 0 .. MaxChanges
  /\ budget \in 0 .. Budget

\* README.md:68: "UPS events are persisted before protective shutdown actions": from
\* the first stop to the last shutdown the outage is on record and line power is not
\* confirmed, so that the automation starts none of the servers again.
OutageOnRecord ==
  pc \in {"act", "stopping", "hosts", "final", "off"} => power.outage /\ ~power.confirmed

\* config.servers was replaced by another list while the servers were stopped, and the
\* results of the stops were taken for those of other servers.
Mispaired == \E i \in DOMAIN paired : paired[i].server # listed[i]

\* A host is shut down only when every server on it that the monitor set out to stop
\* has stopped, whatever is added to or dropped from the server list meanwhile.  The
\* exception is a list of the same length with other servers or in another order, which
\* zip(strict=True) does not tell from the one the stops began with: then a host may go
\* down with a server up.
HostsOffWhenStopped ==
  [][\A h \in Hosts : host[h] # "off" /\ host'[h] = "off" =>
       Mispaired \/ \A s \in Range(listed) : HostOf[s] = h => stop[s] = "stopped"]_vars

\* While the UPS stays on battery the controller gets to its own shutdown in the end,
\* although queries, announcements, stops and shutdowns may fail on the way.
ShutsDown == source = "battery" ~> (pc = "off" \/ source # "battery")

\* README.md:32: "Optionally monitor a UPS and perform an orderly shutdown": a UPS that
\* goes on battery and stays there has the controller shut down.
OrderlyShutdown == <>[](source = "battery") => <>(pc = "off")
=============================================================================
