--------------------------- MODULE UpsMonitorProofs ---------------------------
(***************************************************************************)
(* Theorems about UpsMonitor, for any servers, hosts and list of servers, *)
(* any number of its changes, and any number of failures.                  *)
(***************************************************************************)
EXTENDS UpsMonitor, FiniteSetTheorems, TLAPS

PowerRecords == [confirmed : BOOLEAN, line : BOOLEAN, outage : BOOLEAN]

Outage == power.outage /\ ~power.confirmed

(* OutageOnRecord from the reading that starts the confirmation delay on:  *)
(* the second reading may be neither line power nor a protective status,   *)
(* and then it is the first that put the outage on record.                 *)
OnRecord ==
  /\ power \in PowerRecords
  /\ pc \in {"warn", "delay", "act", "stopping", "hosts", "final", "off"} => Outage

(* What a reading makes of the record of the power.                        *)
LEMMA Readings ==
  ASSUME power \in PowerRecords, NEW reading, power' \in Published(reading)
  PROVE  /\ power' \in PowerRecords
         /\ reading = "battery" => Outage'
         /\ reading # "line" /\ Outage => Outage'
<1>1. CASE reading = "line"
  <2>1. \/ power' = [power EXCEPT !.line = TRUE]
        \/ power' = [confirmed |-> TRUE, line |-> TRUE, outage |-> FALSE]
    <3> DEFINE Some      == [power EXCEPT !.line = TRUE]
               Confirmed == [confirmed |-> TRUE, line |-> TRUE, outage |-> FALSE]
    <3>1. power' \in {Some} \cup (IF power.line THEN {Confirmed} ELSE {})
      BY <1>1 DEF Published
    <3> HIDE DEF Some, Confirmed
    <3>2. power' = Some \/ power' = Confirmed
      BY <3>1
    <3>3. QED BY <3>2 DEF Some, Confirmed
  <2>2. [power EXCEPT !.line = TRUE] \in PowerRecords
    BY DEF PowerRecords
  <2>3. [confirmed |-> TRUE, line |-> TRUE, outage |-> FALSE] \in PowerRecords
    BY DEF PowerRecords
  <2>4. power' \in PowerRecords
    BY <2>1, <2>2, <2>3
  <2>5. QED BY <1>1, <2>4
<1>2. CASE reading = "battery"
  <2>1. power' = [confirmed |-> FALSE, line |-> FALSE, outage |-> TRUE]
    BY <1>2 DEF Published
  <2>2. QED BY <2>1 DEF PowerRecords, Outage
<1>3. CASE reading # "line" /\ reading # "battery"
  <2>1. power' = [power EXCEPT !.confirmed = FALSE, !.line = FALSE]
    BY <1>3 DEF Published
  <2>2. power' \in PowerRecords /\ ~power'.confirmed /\ power'.outage = power.outage
    BY <2>1 DEF PowerRecords
  <2>3. QED BY <1>3, <2>2 DEF Outage
<1>4. QED BY <1>1, <1>2, <1>3

LEMMA OnRecordInit == Init => OnRecord
BY DEF Init, OnRecord, PowerRecords

LEMMA OnRecordStep == OnRecord /\ [Next]_vars => OnRecord'
<1> SUFFICES ASSUME OnRecord, [Next]_vars PROVE OnRecord'
  OBVIOUS
<1> USE DEF OnRecord
<1>1. CASE UNCHANGED <<power, pc>>
  BY <1>1 DEF Outage
<1>2. CASE PowerChanges \/ NetworkDown \/ NetworkUp \/ ConfigChanges
  BY <1>1, <1>2 DEF PowerChanges, NetworkDown, NetworkUp, ConfigChanges
<1>3. CASE QueryFails
  BY <1>3, Readings DEF QueryFails
<1>4. CASE Poll
  BY <1>4, Readings DEF Poll
<1>5. CASE Confirm
  <2>1. Outage
    BY <1>5 DEF Confirm
  <2>2. CASE power' \in Published(source) /\ source = "line" /\ Announce("poll")
    <3>1. pc' \in {"poll", "ended"}
      BY <2>2 DEF Announce
    <3>2. QED BY <2>2, <3>1, Readings
  <2>3. CASE power' \in Published(source) /\ source # "line"
    BY <2>1, <2>3, Readings
  <2>4. CASE power' \in Published("unavailable")
    BY <2>1, <2>4, Readings
  <2>5. QED BY <1>5, <2>2, <2>3, <2>4 DEF Confirm
(* Every other step leaves the power alone, and goes on from a step with   *)
(* the outage on record, or back.                                          *)
<1>6. CASE Warn \/ Supervise \/ BeginStops \/ StopsOver \/ HostsOver \/ ShutDown
  <2>1. UNCHANGED power
    BY <1>6 DEF Warn, Supervise, BeginStops, StopsOver, HostsOver, ShutDown, StopOnly
  <2>2. \/ pc \in {"warn", "act", "stopping", "hosts", "final"}
        \/ pc' = "poll"
    BY <1>6 DEF Warn, Supervise, BeginStops, StopsOver, HostsOver, ShutDown
  <2>3. QED BY <2>1, <2>2 DEF Outage
<1>7. ASSUME NEW s \in Servers, SendStop(s) \/ StopEnds(s) PROVE OnRecord'
  BY <1>1, <1>7 DEF SendStop, StopEnds, StopOnly
<1>8. ASSUME NEW h \in Hosts, ProtectHost(h) PROVE OnRecord'
  BY <1>1, <1>8 DEF ProtectHost, StopOnly
<1>9. CASE UNCHANGED vars
  BY <1>1, <1>9 DEF vars
<1>10. QED BY <1>2, <1>3, <1>4, <1>5, <1>6, <1>7, <1>8, <1>9 DEF Next, Monitor

(* From the first stop to the last shutdown the outage is on record        *)
(* (ups.py: handle_power_outage runs only after _publish_reading of a      *)
(* protective status, and nothing it awaits reports line power).           *)
THEOREM OutageCorrect == Spec => []OutageOnRecord
<1>1. OnRecord => OutageOnRecord
  BY DEF OnRecord, OutageOnRecord, Outage
<1>2. QED BY <1>1, OnRecordInit, OnRecordStep, PTL DEF Spec

-----------------------------------------------------------------------------
(* Type correctness.                                                       *)

LEMMA ListType == Lists \subseteq Seq(Servers)
<1> SUFFICES ASSUME NEW list \in Lists PROVE list \in Seq(Servers)
  OBVIOUS
<1>1. Cardinality(Servers) \in Nat
  BY ConstantsOK, FS_CardinalityType
<1>2. PICK n \in 0 .. Cardinality(Servers) : list \in Injection(1 .. n, Servers)
  BY DEF Lists
<1>3. n \in Nat /\ list \in [1 .. n -> Servers]
  BY <1>1, <1>2 DEF Injection
<1>4. QED BY <1>3

LEMMA DisturbanceType ==
  ASSUME budget \in 0 .. Budget, Disturbance
  PROVE  budget' \in 0 .. Budget
BY ConstantsOK DEF Disturbance

LEMMA AnnounceType ==
  ASSUME NEW next \in Steps, Announce(next)
  PROVE  pc' \in Steps
BY DEF Announce, Steps

LEMMA TypeInit == Init => TypeOK
<1> SUFFICES ASSUME Init PROVE TypeOK
  OBVIOUS
<1>1. power \in [confirmed : BOOLEAN, line : BOOLEAN, outage : BOOLEAN]
  BY DEF Init
<1>2. listed \in Seq(Servers) /\ config \in Seq(Servers)
  BY ConstantsOK DEF Init
<1>3. paired \in Seq([server : Servers, stopped : BOOLEAN])
  BY DEF Init
<1>4. stop \in [Servers -> {"none", "announce", "sent", "stopped", "failed"}]
  BY DEF Init
<1>5. host \in [Hosts -> {"up", "pending", "kept", "off"}]
  BY DEF Init
<1>6. changes \in 0 .. MaxChanges /\ budget \in 0 .. Budget
  BY ConstantsOK DEF Init
<1>7. QED BY <1>1, <1>2, <1>3, <1>4, <1>5, <1>6 DEF Init, TypeOK, Steps

LEMMA AroundType ==
  ASSUME TypeOK, PowerChanges \/ NetworkDown \/ NetworkUp \/ ConfigChanges
  PROVE  TypeOK'
<1> USE DEF TypeOK
<1>1. CASE PowerChanges
  BY <1>1 DEF PowerChanges
<1>2. CASE NetworkDown
  BY <1>2, DisturbanceType DEF NetworkDown
<1>3. CASE NetworkUp
  BY <1>3 DEF NetworkUp
<1>4. CASE ConfigChanges
  <2>1. config' \in Seq(Servers)
    BY <1>4, ListType DEF ConfigChanges
  <2>2. changes' \in 0 .. MaxChanges
    BY <1>4, ConstantsOK DEF ConfigChanges
  <2>3. QED BY <1>4, <2>1, <2>2 DEF ConfigChanges
<1>5. QED BY <1>1, <1>2, <1>3, <1>4

LEMMA ReadingType ==
  ASSUME TypeOK, QueryFails \/ Poll \/ Warn \/ Confirm \/ Supervise
  PROVE  TypeOK'
<1> USE DEF TypeOK
<1>1. power' \in [confirmed : BOOLEAN, line : BOOLEAN, outage : BOOLEAN]
  BY Readings DEF PowerRecords, QueryFails, Poll, Warn, Confirm, Supervise
<1>2. pc' \in Steps
  <2>1. {"poll", "warn", "delay", "act"} \subseteq Steps
    BY DEF Steps
  <2>2. QED BY <2>1, AnnounceType DEF QueryFails, Poll, Warn, Confirm, Supervise
<1>3. budget' \in 0 .. Budget
  BY DisturbanceType DEF QueryFails, Poll, Warn, Confirm, Supervise
<1>4. MonitorOnly
  BY DEF QueryFails, Poll, Warn, Confirm, Supervise
<1>5. QED BY <1>1, <1>2, <1>3, <1>4 DEF MonitorOnly

LEMMA PairType ==
  ASSUME config \in Seq(Servers), listed \in Seq(Servers), Pairs
  PROVE  /\ Pair \in Seq([server : Servers, stopped : BOOLEAN])
         /\ DOMAIN Pair = DOMAIN listed
         /\ \A i \in DOMAIN Pair : Pair[i].stopped => stop[listed[i]] = "stopped"
<1>1. DOMAIN config = 1 .. Len(listed) /\ DOMAIN listed = 1 .. Len(listed) /\ Len(listed) \in Nat
  BY DEF Pairs
<1>2. DOMAIN Pair = 1 .. Len(listed)
  BY <1>1 DEF Pair
<1>3. ASSUME NEW i \in 1 .. Len(listed)
      PROVE  /\ Pair[i] \in [server : Servers, stopped : BOOLEAN]
             /\ Pair[i].stopped => stop[listed[i]] = "stopped"
  <2>1. config[i] \in Servers
    BY <1>1
  <2> DEFINE done == stop[listed[i]] = "stopped"
  <2>2. Pair[i] = [server |-> config[i], stopped |-> done]
    BY <1>1 DEF Pair
  <2>3. done \in BOOLEAN /\ (done => stop[listed[i]] = "stopped")
    OBVIOUS
  <2> HIDE DEF done, Pair
  <2>4. Pair[i] \in [server : Servers, stopped : BOOLEAN] /\ Pair[i].stopped = done
    BY <2>1, <2>2, <2>3
  <2>5. QED BY <2>3, <2>4
<1>4. Pair \in [1 .. Len(listed) -> [server : Servers, stopped : BOOLEAN]]
  <2>1. Pair = [i \in 1 .. Len(listed) |-> Pair[i]]
    BY <1>1 DEF Pair
  <2> HIDE DEF Pair
  <2>2. QED BY <1>3, <2>1
<1> HIDE DEF Pair
<1>5. Pair \in Seq([server : Servers, stopped : BOOLEAN])
  <2> DEFINE Results == [server : Servers, stopped : BOOLEAN]
  <2>1. Pair \in [1 .. Len(listed) -> Results] /\ Len(listed) \in Nat
    BY <1>1, <1>4
  <2> HIDE DEF Results
  <2>2. Pair \in Seq(Results)
    BY <2>1
  <2>3. QED BY <2>2 DEF Results
<1>6. QED BY <1>1, <1>2, <1>3, <1>5

LEMMA PendingType ==
  ASSUME host \in [Hosts -> {"up", "pending", "kept", "off"}]
  PROVE  PendingHosts \in [Hosts -> {"up", "pending", "kept", "off"}]
BY DEF PendingHosts

LEMMA ShutdownType ==
  ASSUME TypeOK, BeginStops \/ StopsOver \/ HostsOver \/ ShutDown
  PROVE  TypeOK'
<1>0. {"stopping", "hosts", "final", "off", "ended"} \subseteq Steps
  BY DEF Steps
<1> USE DEF TypeOK
<1>1. pc' \in Steps
  BY <1>0, AnnounceType DEF BeginStops, StopsOver, HostsOver, ShutDown
<1>2. listed' \in Seq(Servers)
  BY DEF BeginStops, StopsOver, HostsOver, ShutDown
<1>3. stop' \in [Servers -> {"none", "announce", "sent", "stopped", "failed"}]
  BY DEF BeginStops, StopsOver, HostsOver, ShutDown
<1>4. paired' \in Seq([server : Servers, stopped : BOOLEAN])
  <2>1. paired' = paired \/ (Pairs /\ paired' = Pair)
    BY DEF BeginStops, StopsOver, HostsOver, ShutDown
  <2>2. QED BY <2>1, PairType
<1>5. host' \in [Hosts -> {"up", "pending", "kept", "off"}]
  <2>1. host' = host \/ host' = PendingHosts
    BY DEF BeginStops, StopsOver, HostsOver, ShutDown
  <2>2. QED BY <2>1, PendingType
<1>6. budget' \in 0 .. Budget
  BY DisturbanceType DEF BeginStops, StopsOver, HostsOver, ShutDown
<1>7. StopOnly
  BY DEF BeginStops, StopsOver, HostsOver, ShutDown
<1>8. QED BY <1>1, <1>2, <1>3, <1>4, <1>5, <1>6, <1>7 DEF StopOnly

LEMMA ServerType ==
  ASSUME TypeOK, NEW s \in Servers, SendStop(s) \/ StopEnds(s)
  PROVE  TypeOK'
<1> USE DEF TypeOK
<1>1. stop' \in [Servers -> {"none", "announce", "sent", "stopped", "failed"}]
  BY DEF SendStop, StopEnds
<1>2. budget' \in 0 .. Budget
  BY DisturbanceType DEF SendStop, StopEnds
<1>3. StopOnly /\ UNCHANGED <<pc, listed, paired, host>>
  BY DEF SendStop, StopEnds
<1>4. QED BY <1>1, <1>2, <1>3 DEF StopOnly

LEMMA HostType ==
  ASSUME TypeOK, NEW h \in Hosts, ProtectHost(h)
  PROVE  TypeOK'
<1> USE DEF TypeOK
<1>1. host' \in [Hosts -> {"up", "pending", "kept", "off"}]
  BY DEF ProtectHost
<1>2. budget' \in 0 .. Budget
  BY DisturbanceType DEF ProtectHost
<1>3. StopOnly /\ UNCHANGED <<pc, listed, stop, paired>>
  BY DEF ProtectHost
<1>4. QED BY <1>1, <1>2, <1>3 DEF StopOnly

LEMMA TypeStep == TypeOK /\ [Next]_vars => TypeOK'
<1> SUFFICES ASSUME TypeOK, [Next]_vars PROVE TypeOK'
  OBVIOUS
<1>1. CASE UNCHANGED vars
  BY <1>1 DEF vars, TypeOK
<1>2. QED BY <1>1, AroundType, ReadingType, ShutdownType, ServerType, HostType DEF Next, Monitor

(* Every state of every behaviour is well typed; in particular what the    *)
(* host phase takes for the results speaks of servers only, however the    *)
(* list changed while they were stopped (ups.py: handle_power_outage).     *)
THEOREM TypeCorrect == Spec => []TypeOK
BY TypeInit, TypeStep, PTL DEF Spec

-----------------------------------------------------------------------------
(* Hosts go down after their servers.                                      *)

(* What the host phase takes for the results is one for each stop that was *)
(* sent, in their order, and claims no stop that did not succeed.          *)
PairedRight ==
  pc = "hosts" =>
    /\ DOMAIN paired = DOMAIN listed
    /\ \A i \in DOMAIN paired : paired[i].stopped => stop[listed[i]] = "stopped"

LEMMA PairedStep == TypeOK /\ PairedRight /\ [Next]_vars => PairedRight'
<1> SUFFICES ASSUME TypeOK, PairedRight, [Next]_vars PROVE PairedRight'
  OBVIOUS
<1>1. CASE UNCHANGED <<pc, listed, stop, paired>>
  BY <1>1 DEF PairedRight
<1>2. CASE pc' # "hosts"
  BY <1>2 DEF PairedRight
<1>3. CASE StopsOver
  <2>1. CASE Pairs
    <3>1. config \in Seq(Servers) /\ listed \in Seq(Servers)
      BY DEF TypeOK
    <3>2. paired' = Pair /\ UNCHANGED <<listed, stop>>
      BY <1>3, <2>1 DEF StopsOver
    <3> HIDE DEF Pair
    <3>3. QED BY <2>1, <3>1, <3>2, PairType DEF PairedRight
  <2>2. CASE ~Pairs
    BY <1>2, <1>3, <2>2 DEF StopsOver
  <2>3. QED BY <2>1, <2>2
<1>4. CASE PowerChanges \/ NetworkDown \/ NetworkUp \/ ConfigChanges
  BY <1>1, <1>4 DEF PowerChanges, NetworkDown, NetworkUp, ConfigChanges
<1>5. CASE QueryFails \/ Poll \/ Warn \/ Confirm \/ Supervise
  BY <1>2, <1>5 DEF QueryFails, Poll, Warn, Confirm, Supervise, Announce
<1>6. CASE BeginStops \/ HostsOver \/ ShutDown
  BY <1>2, <1>6 DEF BeginStops, HostsOver, ShutDown, Announce
<1>7. ASSUME NEW s \in Servers, SendStop(s) \/ StopEnds(s) PROVE PairedRight'
  BY <1>2, <1>7 DEF SendStop, StopEnds
<1>8. ASSUME NEW h \in Hosts, ProtectHost(h) PROVE PairedRight'
  BY <1>1, <1>8 DEF ProtectHost
<1>9. CASE UNCHANGED vars
  BY <1>1, <1>9 DEF vars
<1>10. QED BY <1>3, <1>4, <1>5, <1>6, <1>7, <1>8, <1>9 DEF Next, Monitor

(* Only the host phase shuts a host down.                                  *)
LEMMA OnlyProtected ==
  ASSUME TypeOK, [Next]_vars, NEW h \in Hosts, host[h] # "off", host'[h] = "off"
  PROVE  ProtectHost(h) /\ Group(h) # {} /\ AllStopped(h)
<1>1. host' # host
  OBVIOUS
<1>2. ASSUME StopsOver PROVE FALSE
  BY <1>1, <1>2 DEF StopsOver, PendingHosts
<1>3. \E g \in Hosts : ProtectHost(g)
  BY <1>1, <1>2 DEF Next, Monitor, PowerChanges, NetworkDown, NetworkUp, ConfigChanges,
     QueryFails, Poll, Warn, Confirm, Supervise, MonitorOnly, BeginStops, SendStop, StopEnds,
     HostsOver, ShutDown, vars
<1>4. PICK g \in Hosts : ProtectHost(g)
  BY <1>3
<1>5. g = h
  BY <1>4 DEF ProtectHost, TypeOK
<1>6. QED BY <1>4, <1>5 DEF ProtectHost, TypeOK

LEMMA HostsStep ==
  TypeOK /\ PairedRight /\ [Next]_vars =>
    \A h \in Hosts : host[h] # "off" /\ host'[h] = "off" =>
      Mispaired \/ \A s \in Range(listed) : HostOf[s] = h => stop[s] = "stopped"
<1> SUFFICES ASSUME TypeOK, PairedRight, [Next]_vars,
                    NEW h \in Hosts, host[h] # "off", host'[h] = "off",
                    ~Mispaired,
                    NEW s \in Range(listed), HostOf[s] = h
             PROVE  stop[s] = "stopped"
  OBVIOUS
<1>1. ProtectHost(h) /\ AllStopped(h)
  BY OnlyProtected
<1>2. /\ DOMAIN paired = DOMAIN listed
      /\ \A i \in DOMAIN paired : paired[i].stopped => stop[listed[i]] = "stopped"
  BY <1>1 DEF ProtectHost, PairedRight
<1>3. PICK i \in DOMAIN listed : listed[i] = s
  BY DEF Range
<1>4. paired[i].server = s
  BY <1>2, <1>3 DEF Mispaired
<1>5. QED BY <1>1, <1>2, <1>3, <1>4 DEF AllStopped, Group

(* A host is shut down only after every server on it that a stop was sent  *)
(* to, unless another list of the same length took the place of            *)
(* config.servers while the servers were stopped: mispaired results are    *)
(* the only way (ups.py: handle_power_outage, _protect_downstream_host).   *)
THEOREM HostsOffCorrect == Spec => HostsOffWhenStopped
<1>1. Init => PairedRight
  BY DEF Init, PairedRight
<1>2. QED BY <1>1, PairedStep, HostsStep, TypeCorrect, PTL DEF Spec, HostsOffWhenStopped

=============================================================================
