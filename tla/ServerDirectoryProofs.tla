------------------------ MODULE ServerDirectoryProofs ------------------------
(***************************************************************************)
(* Theorems about ServerDirectory, for any servers, agents, fleets and     *)
(* handlers, and any number of pairings, requests, failed writes and       *)
(* restarts.                                                               *)
(***************************************************************************)
EXTENDS ServerDirectory, TLAPS

(* The object that a refresh or a handler holds was created for the agent it *)
(* asked.                                                                    *)
References ==
  /\ \A a \in Agents :
       /\ poll[a].object \in 0 .. created
       /\ poll[a].object # 0 => object[poll[a].object].agent = a
       /\ poll[a] # Quiet => poll[a].object # 0
  /\ \A h \in Handlers :
       task[h].kind = "installed" =>
         /\ task[h].object \in 1 .. created
         /\ object[task[h].object].agent = task[h].agent

(* Only pairings and the news of an installation name no server.           *)
Named == \A h \in Handlers : task[h].kind \in Kinds \ {"pair", "installed"} => task[h].id \in Ids

Typed == TypeOK /\ References

(* The parts of TypeOK.                                                    *)
AgentTypes ==
  /\ installed \in [Agents -> SUBSET Ids] /\ ever \in [Agents -> SUBSET Ids]
  /\ working \subseteq Jobs /\ deleted \subseteq Agents \X Ids
RegistryTypes ==
  /\ entries \in [Ids -> Agents \cup {None}]
  /\ suppressed \subseteq Base
  /\ saved \in [entries : [Ids -> Agents \cup {None}], suppressed : SUBSET Base]
PairingTypes ==
  /\ object \in [1 .. MaxPairings -> [agent : Agents \cup {None}, servers : SUBSET Ids]]
  /\ created \in 0 .. MaxPairings
  /\ paired \in [Agents -> 0 .. created]
  /\ \A a \in Agents : paired[a] # 0 => object[paired[a]].agent = a
  /\ before \subseteq Agents \X Agents
  /\ savedPairs \in [Agents -> [paired : BOOLEAN, servers : SUBSET Ids]]
DirectoryTypes ==
  owner \in [Ids -> Agents \cup {None}] /\ route \in [Ids -> Agents \cup {None}]
HandlerTypes ==
  task \in [Handlers -> Task \cup {Idle}] /\ poll \in [Agents -> Polls]
BudgetTypes ==
  requests \in 0 .. Requests /\ faults \in 0 .. Faults

LEMMA Parts ==
  TypeOK <=> /\ AgentTypes /\ RegistryTypes /\ PairingTypes
             /\ DirectoryTypes /\ HandlerTypes /\ BudgetTypes
BY DEF TypeOK, AgentTypes, RegistryTypes, PairingTypes, DirectoryTypes, HandlerTypes, BudgetTypes

LEMMA PartsNext ==
  ASSUME AgentTypes', RegistryTypes', PairingTypes', DirectoryTypes', HandlerTypes', BudgetTypes'
  PROVE  TypeOK'
BY DEF TypeOK, AgentTypes, RegistryTypes, PairingTypes, DirectoryTypes, HandlerTypes, BudgetTypes

(* Parts that a step leaves alone stay well typed.                         *)
LEMMA AgentKept == ASSUME AgentTypes, UNCHANGED agentSide PROVE AgentTypes'
BY DEF AgentTypes, agentSide
LEMMA RegistryKept == ASSUME RegistryTypes, UNCHANGED registry PROVE RegistryTypes'
BY DEF RegistryTypes, registry
LEMMA PairingKept == ASSUME PairingTypes, UNCHANGED pairing PROVE PairingTypes'
BY DEF PairingTypes, pairing
LEMMA DirectoryKept == ASSUME DirectoryTypes, UNCHANGED directory PROVE DirectoryTypes'
BY DEF DirectoryTypes, directory

LEMMA BudgetKept ==
  ASSUME BudgetTypes, Calm \/ Request \/ Fault \/ UNCHANGED <<requests, faults>>
  PROVE  BudgetTypes'
BY ConfigurationOK DEF BudgetTypes, Calm, Request, Fault

-----------------------------------------------------------------------------
(* The operators the handlers share.                                       *)

LEMMA ListsType ==
  ASSUME PairingTypes
  PROVE  Lists \in [Agents -> SUBSET Ids]
<1>1. ASSUME NEW a \in Agents, paired[a] # 0
      PROVE  object[paired[a]].servers \in SUBSET Ids
  <2>1. paired[a] \in 1 .. MaxPairings
    BY <1>1, ConfigurationOK DEF PairingTypes
  <2>2. QED BY <2>1 DEF PairingTypes
<1>2. QED BY <1>1 DEF Lists

(* sync_runtime_servers: the directory it makes is well typed.             *)
LEMMA OwnerListed ==
  ASSUME NEW e \in [Ids -> Agents \cup {None}], NEW s \in SUBSET Base,
         NEW l \in [Agents -> SUBSET Ids], NEW b, NEW id \in Ids
  PROVE  \/ Owner(id, e, s, l, b) = None
         \/ /\ Owner(id, e, s, l, b) \in Agents
            /\ id \in l[Owner(id, e, s, l, b)]
            /\ id \notin Reserved(e, s)
<1>1. CASE id \notin Reserved(e, s) /\ \E a \in Agents : First(id, a, l, b)
  <2> DEFINE a == CHOOSE a \in Agents : First(id, a, l, b)
  <2>1. a \in Agents /\ First(id, a, l, b)
    BY <1>1
  <2>2. Owner(id, e, s, l, b) = a
    BY <1>1 DEF Owner
  <2> HIDE DEF a
  <2>3. QED BY <1>1, <2>1, <2>2 DEF First
<1>2. CASE ~(id \notin Reserved(e, s) /\ \E a \in Agents : First(id, a, l, b))
  BY <1>2 DEF Owner
<1>3. QED BY <1>1, <1>2

(* A server in the directory is in the list of its agent, in               *)
(* controller.toml, or registered; the last two come first.                *)
LEMMA Synced ==
  ASSUME NEW e \in [Ids -> Agents \cup {None}], NEW s \in SUBSET Base,
         NEW l \in [Agents -> SUBSET Ids], NEW b,
         Sync(e, s, l, b)
  PROVE  /\ DirectoryTypes'
         /\ \A id \in Ids :
              /\ id \in Active(s) => route'[id] = SourceAgent[id] /\ owner'[id] = None
              /\ e[id] # None /\ id \notin Active(s) => route'[id] = e[id] /\ owner'[id] = None
              /\ route'[id] # None =>
                   \/ id \in l[route'[id]]
                   \/ id \in Base /\ route'[id] = SourceAgent[id]
                   \/ route'[id] = e[id]
<1>1. /\ owner' = [id \in Ids |-> Owner(id, e, s, l, b)]
      /\ route' = [id \in Ids |-> Route(id, e, s, l, b)]
  BY DEF Sync
<1>2. Base \subseteq Ids /\ SourceAgent \in [Base -> Agents] /\ None \notin Agents
  BY ConfigurationOK
<1>3. ASSUME NEW id \in Ids
      PROVE  /\ Owner(id, e, s, l, b) \in Agents \cup {None}
             /\ Route(id, e, s, l, b) \in Agents \cup {None}
             /\ id \in Active(s) => Route(id, e, s, l, b) = SourceAgent[id] /\ Owner(id, e, s, l, b) = None
             /\ e[id] # None /\ id \notin Active(s)
                  => Route(id, e, s, l, b) = e[id] /\ Owner(id, e, s, l, b) = None
             /\ Route(id, e, s, l, b) # None =>
                   \/ id \in l[Route(id, e, s, l, b)]
                   \/ id \in Base /\ Route(id, e, s, l, b) = SourceAgent[id]
                   \/ Route(id, e, s, l, b) = e[id]
  <2>1. \/ Owner(id, e, s, l, b) = None
        \/ /\ Owner(id, e, s, l, b) \in Agents
           /\ id \in l[Owner(id, e, s, l, b)]
           /\ id \notin Reserved(e, s)
    BY OwnerListed
  <2>2. CASE Owner(id, e, s, l, b) = None
    BY <1>2, <2>2 DEF Route, Active
  <2>3. CASE Owner(id, e, s, l, b) # None
    BY <1>2, <2>1, <2>3 DEF Route, Reserved, Active
  <2>4. QED BY <2>2, <2>3
<1>4. QED BY <1>1, <1>3 DEF DirectoryTypes

LEMMA BeginType ==
  ASSUME HandlerTypes, NEW h \in Handlers, NEW kind \in Kinds, NEW id \in Ids \cup {None},
         NEW a \in Agents, NEW o \in 0 .. MaxPairings,
         Begin(h, kind, id, a, o), UNCHANGED poll
  PROVE  HandlerTypes'
BY DEF HandlerTypes, Begin, Task

LEMMA EndType ==
  ASSUME HandlerTypes, NEW h \in Handlers, End(h), UNCHANGED poll
  PROVE  HandlerTypes'
BY DEF HandlerTypes, End

(* A handler that got its answer is a task.                                *)
LEMMA ReadyType ==
  ASSUME HandlerTypes, NEW h \in Handlers, NEW kind \in Kinds, task[h].kind = kind
  PROVE  task[h] \in Task
BY DEF HandlerTypes, Kinds, Idle

LEMMA OnDiskType ==
  ASSUME NEW p, NEW l \in [Agents -> SUBSET Ids]
  PROVE  OnDisk(p, l) \in [Agents -> [paired : BOOLEAN, servers : SUBSET Ids]]
BY DEF OnDisk, Unpaired

-----------------------------------------------------------------------------
(* Type correctness, step by step.                                         *)

(* A step that creates no object and takes none away from its agent, and   *)
(* leaves the refreshes and the handlers of installations alone.           *)
LEMMA ReferencesKept ==
  ASSUME Typed,
         created' = created,
         \A o \in 1 .. MaxPairings : object'[o].agent = object[o].agent,
         \A a \in Agents : poll'[a] = poll[a] \/ poll'[a] = Quiet,
         \A h \in Handlers : task'[h].kind = "installed" =>
                               task[h].kind = "installed" /\ task'[h].object = task[h].object
                               /\ task'[h].agent = task[h].agent
  PROVE  References'
<1>1. created \in 0 .. MaxPairings
  BY DEF Typed, TypeOK
<1>2. \A a \in Agents : poll[a].object # 0 => poll[a].object \in 1 .. MaxPairings
  BY <1>1, ConfigurationOK DEF Typed, References
<1>3. \A h \in Handlers : task[h].kind = "installed" => task[h].object \in 1 .. MaxPairings
  BY <1>1, ConfigurationOK DEF Typed, References
<1>4. Quiet.object = 0 /\ Quiet.answered = FALSE
  BY DEF Quiet
<1>5. ASSUME NEW a \in Agents
      PROVE  /\ poll'[a].object \in 0 .. created'
             /\ poll'[a].object # 0 => object'[poll'[a].object].agent = a
             /\ poll'[a] # Quiet => poll'[a].object # 0
  <2>1. CASE poll'[a] = poll[a]
    BY <1>2, <2>1 DEF Typed, References
  <2>2. CASE poll'[a] = Quiet
    BY <1>1, <1>4, <2>2
  <2>3. QED BY <2>1, <2>2
<1>6. ASSUME NEW h \in Handlers, task'[h].kind = "installed"
      PROVE  task'[h].object \in 1 .. created' /\ object'[task'[h].object].agent = task'[h].agent
  BY <1>3, <1>6 DEF Typed, References
<1>7. QED BY <1>5, <1>6 DEF References

(* Steps that begin or end a handler and touch no object.                  *)
LEMMA HandlerReferences ==
  ASSUME Typed, UNCHANGED <<object, created, poll>>, NEW h \in Handlers,
         \/ End(h)
         \/ \E kind \in Kinds \ {"installed"} : \E id, a, o : Begin(h, kind, id, a, o)
  PROVE  References'
<1>1. \A g \in Handlers : task'[g].kind = "installed" => g # h
  BY DEF Typed, TypeOK, End, Begin, Idle, Kinds
<1>2. \A g \in Handlers : g # h => task'[g] = task[g]
  BY DEF Typed, TypeOK, End, Begin
<1>3. QED BY <1>1, <1>2, ReferencesKept

LEMMA TypeInit == Init => Typed
<1> SUFFICES ASSUME Init PROVE Typed
  OBVIOUS
<1>1. AgentTypes /\ RegistryTypes /\ DirectoryTypes /\ BudgetTypes
  BY ConfigurationOK DEF Init, AgentTypes, RegistryTypes, DirectoryTypes, BudgetTypes
<1>2. PairingTypes
  BY ConfigurationOK DEF Init, PairingTypes, Unpaired
<1>3. HandlerTypes
  BY ConfigurationOK DEF Init, HandlerTypes, Polls, Quiet
<1>4. References
  BY ConfigurationOK DEF Init, References, Quiet, Idle
<1>5. QED BY <1>1, <1>2, <1>3, <1>4, Parts DEF Typed

LEMMA RegisteringType ==
  ASSUME Typed, NEW h \in Handlers,
         \/ \E a \in Agents : PairBegins(h, a)
         \/ \E id \in Ids : UpdateBegins(h, id) \/ DeleteBegins(h, id) \/ DeletionPolled(h, id)
         \/ \E id \in Ids, a \in Agents : RegisterBegins(h, id, a) \/ InstallBegins(h, id, a)
  PROVE  Typed'
<1>1. created \in 0 .. MaxPairings /\ 0 \in 0 .. MaxPairings
  BY ConfigurationOK DEF Typed, TypeOK
<1>2. \E kind \in Kinds \ {"installed"}, i \in Ids \cup {None}, b \in Agents : Begin(h, kind, i, b, 0)
  BY ConfigurationOK DEF Typed, TypeOK, RegisterBegins, UpdateBegins, PairBegins, InstallBegins,
     DeleteBegins, DeletionPolled, Kinds
<1>3. /\ UNCHANGED agentSide /\ UNCHANGED registry /\ UNCHANGED pairing /\ UNCHANGED directory
      /\ UNCHANGED poll
      /\ Request \/ UNCHANGED <<requests, faults>>
  BY DEF RegisterBegins, UpdateBegins, PairBegins, InstallBegins, DeleteBegins, DeletionPolled
<1>4. HandlerTypes'
  BY <1>1, <1>2, <1>3, BeginType, Parts DEF Typed
<1>5. UNCHANGED <<object, created, poll>>
  BY <1>3 DEF pairing
<1>6. References'
  BY <1>2, <1>5, HandlerReferences
<1>7. QED
  BY <1>3, <1>4, <1>6, AgentKept, RegistryKept, PairingKept, DirectoryKept, BudgetKept, Parts, PartsNext
     DEF Typed

LEMMA InstallPolledType ==
  ASSUME Typed, NEW h \in Handlers, NEW a \in Agents, InstallPolled(h, a)
  PROVE  Typed'
<1>1. created \in 0 .. MaxPairings /\ paired[a] \in 1 .. created /\ paired[a] \in 0 .. MaxPairings
  BY ConfigurationOK DEF Typed, TypeOK, InstallPolled
<1>2. HandlerTypes'
  BY <1>1, BeginType, Parts DEF Typed, InstallPolled, Kinds
<1>3. References'
  <2>1. task' = [task EXCEPT ![h] = [kind |-> "installed", id |-> None, agent |-> a,
                                     object |-> paired[a], answered |-> FALSE, seen |-> {}]]
    BY DEF InstallPolled, Begin
  <2>2. object[paired[a]].agent = a
    BY <1>1 DEF Typed, TypeOK
  <2>3. UNCHANGED <<object, created, poll>>
    BY DEF InstallPolled, pairing
  <2>4. ASSUME NEW g \in Handlers, task'[g].kind = "installed"
        PROVE  task'[g].object \in 1 .. created /\ object[task'[g].object].agent = task'[g].agent
    <3>1. CASE g = h
      BY <1>1, <2>1, <2>2, <3>1 DEF Typed, TypeOK
    <3>2. CASE g # h
      BY <2>1, <2>4, <3>2 DEF Typed, TypeOK, References
    <3>3. QED BY <3>1, <3>2
  <2>5. QED BY <2>3, <2>4 DEF Typed, References
<1>4. QED
  BY <1>2, <1>3, AgentKept, RegistryKept, PairingKept, DirectoryKept, BudgetKept, Parts, PartsNext
     DEF Typed, InstallPolled

(* The steps on the registry.                                              *)
LEMMA SaveRegistryType ==
  ASSUME NEW e \in [Ids -> Agents \cup {None}], NEW s \in SUBSET Base, SaveRegistry(e, s)
  PROVE  RegistryTypes'
BY DEF SaveRegistry, RegistryTypes

LEMMA RegistryStepType ==
  ASSUME RegistryTypes, PairingTypes, DirectoryTypes,
         NEW e \in [Ids -> Agents \cup {None}], NEW s \in SUBSET Base,
         \/ SaveRegistry(e, s) /\ Sync(e, s, Lists, before)
         \/ SaveFails(e, s) /\ UNCHANGED directory
         \/ UNCHANGED <<registry, directory>>
  PROVE  RegistryTypes' /\ DirectoryTypes'
<1>1. CASE SaveRegistry(e, s) /\ Sync(e, s, Lists, before)
  BY <1>1, SaveRegistryType, ListsType, Synced
<1>2. CASE UNCHANGED <<registry, directory>>
  BY <1>2, RegistryKept, DirectoryKept
<1>3. CASE SaveFails(e, s) /\ UNCHANGED directory
  BY <1>3, RegistryKept, DirectoryKept DEF SaveFails
<1>4. QED BY <1>1, <1>2, <1>3

(* registry.add, update and remove, with the directory they leave.         *)
LEMMA RegistrationType ==
  ASSUME Typed, NEW h \in Handlers, RegisterEnds(h)
  PROVE  RegistryTypes' /\ DirectoryTypes' /\ BudgetTypes'
<1> DEFINE t == task[h]
           e == [entries EXCEPT ![t.id] = t.agent]
<1>1. t \in Task
  BY ReadyType, Parts DEF Typed, RegisterEnds, Ready, Kinds
<1>2. e \in [Ids -> Agents \cup {None}] /\ suppressed \in SUBSET Base
  BY <1>1 DEF Typed, TypeOK, Task
<1>3. /\ \/ SaveRegistry(e, suppressed) /\ Sync(e, suppressed, Lists, before)
         \/ SaveFails(e, suppressed) /\ UNCHANGED directory
         \/ UNCHANGED <<registry, directory>>
      /\ Calm \/ Fault
  BY DEF RegisterEnds, SaveFails
<1> HIDE DEF e
<1>4. QED BY <1>2, <1>3, RegistryStepType, BudgetKept, Parts DEF Typed

LEMMA RegistryChangeType ==
  ASSUME Typed, (\E h \in Handlers : UpdateEnds(h)) \/ (\E id \in Ids : Rename(id) \/ Remove(id))
  PROVE  RegistryTypes' /\ DirectoryTypes' /\ BudgetTypes'
<1>1. suppressed \in SUBSET Base /\ entries \in [Ids -> Agents \cup {None}]
  BY DEF Typed, TypeOK
<1>2. CASE (\E h \in Handlers : UpdateEnds(h)) \/ (\E id \in Ids : Rename(id))
  <2>1. /\ \/ SaveRegistry(entries, suppressed) /\ Sync(entries, suppressed, Lists, before)
           \/ SaveFails(entries, suppressed) /\ UNCHANGED directory
           \/ UNCHANGED <<registry, directory>>
        /\ Calm \/ Fault \/ Request
    BY <1>2 DEF UpdateEnds, Rename, Updated, SaveFails
  <2>2. QED BY <1>1, <2>1, RegistryStepType, BudgetKept, Parts DEF Typed
<1>3. ASSUME NEW id \in Ids, Remove(id)
      PROVE  RegistryTypes' /\ DirectoryTypes' /\ BudgetTypes'
  <2> DEFINE e == [entries EXCEPT ![id] = None]
  <2>1. /\ \/ SaveRegistry(e, suppressed) /\ Sync(e, suppressed, Lists, before)
           \/ SaveFails(e, suppressed) /\ UNCHANGED directory
        /\ Fault \/ Request
    BY <1>3 DEF Remove, SaveFails
  <2>2. e \in [Ids -> Agents \cup {None}]
    BY <1>1
  <2> HIDE DEF e
  <2>3. QED BY <1>1, <2>1, <2>2, RegistryStepType, BudgetKept, Parts DEF Typed
<1>4. QED BY <1>2, <1>3

LEMMA RegistryActionType ==
  ASSUME Typed,
         \/ \E h \in Handlers : RegisterEnds(h) \/ UpdateEnds(h)
         \/ \E id \in Ids : Rename(id) \/ Remove(id)
  PROVE  Typed'
<1>1. RegistryTypes' /\ DirectoryTypes' /\ BudgetTypes'
  BY RegistrationType, RegistryChangeType
<1>2. /\ UNCHANGED agentSide /\ UNCHANGED pairing /\ UNCHANGED poll
      /\ (\E h \in Handlers : End(h)) \/ UNCHANGED task
  BY DEF RegisterEnds, UpdateEnds, Rename, Remove
<1>3. HandlerTypes'
  <2>1. CASE \E h \in Handlers : End(h)
    BY <1>2, <2>1, EndType, Parts DEF Typed
  <2>2. CASE UNCHANGED task
    BY <1>2, <2>2, Parts DEF Typed, HandlerTypes
  <2>3. QED BY <1>2, <2>1, <2>2
<1>4. References'
  <2>1. UNCHANGED <<object, created, poll>>
    BY <1>2 DEF pairing
  <2>2. CASE \E h \in Handlers : End(h)
    BY <2>1, <2>2, HandlerReferences
  <2>3. CASE UNCHANGED task
    BY <2>1, <2>3, ReferencesKept
  <2>4. QED BY <1>2, <2>2, <2>3
<1>5. QED BY <1>1, <1>2, <1>3, <1>4, AgentKept, PairingKept, Parts, PartsNext DEF Typed

(* sync_paired_agent: the object keeps its agent.                          *)
LEMMA TakeInventoryType ==
  ASSUME Typed, NEW o \in 1 .. created, object[o].agent \in Agents, NEW servers \in SUBSET Ids,
         NEW put \in BOOLEAN, TakeInventory(o, servers, put)
  PROVE  /\ PairingTypes' /\ DirectoryTypes' /\ BudgetTypes'
         /\ created' = created
         /\ \A p \in 1 .. MaxPairings : object'[p].agent = object[p].agent
<1> DEFINE a == object[o].agent
<1>1. o \in 1 .. MaxPairings /\ o \in 0 .. created /\ created \in 0 .. MaxPairings
  BY ConfigurationOK DEF Typed, TypeOK
<1>2. CASE Refused(a, servers)
  <2>1. UNCHANGED <<pairing, directory>> /\ Calm
    BY <1>2 DEF TakeInventory
  <2>2. QED
    BY <2>1, PairingKept, DirectoryKept, BudgetKept, Parts DEF Typed, pairing
<1>3. CASE ~Refused(a, servers)
  <2>1. /\ object' = [object EXCEPT ![o].servers = servers]
        /\ Sync(entries, suppressed, Listed(a, o, servers), before)
        /\ created' = created /\ before' = before
        /\ \/ /\ paired' = [paired EXCEPT ![a] = o]
              /\ \/ savedPairs' = OnDisk(paired', [Lists EXCEPT ![a] = servers]) /\ Calm
                 \/ Fault /\ UNCHANGED savedPairs
           \/ UNCHANGED <<paired, savedPairs>> /\ Calm
    BY <1>3 DEF TakeInventory
  <2>2. object' \in [1 .. MaxPairings -> [agent : Agents \cup {None}, servers : SUBSET Ids]]
    <3>1. object \in [1 .. MaxPairings -> [agent : Agents \cup {None}, servers : SUBSET Ids]]
      BY DEF Typed, TypeOK
    <3>2. [object[o] EXCEPT !.servers = servers] \in [agent : Agents \cup {None}, servers : SUBSET Ids]
      BY <1>1, <3>1
    <3>3. object' = [object EXCEPT ![o] = [object[o] EXCEPT !.servers = servers]]
      BY <2>1
    <3>4. QED BY <1>1, <3>1, <3>2, <3>3
  <2>3. \A p \in 1 .. MaxPairings : object'[p].agent = object[p].agent
    BY <1>1, <2>1 DEF Typed, TypeOK
  <2>4. /\ paired' \in [Agents -> 0 .. created']
        /\ \A b \in Agents : paired'[b] # 0 => object'[paired'[b]].agent = b
    <3>1. \A b \in Agents : paired[b] \in 0 .. MaxPairings
      BY <1>1, ConfigurationOK DEF Typed, TypeOK
    <3>2. CASE UNCHANGED paired
      BY <1>1, <2>1, <2>3, <3>1, <3>2 DEF Typed, TypeOK
    <3>3. CASE paired' = [paired EXCEPT ![a] = o]
      BY <1>1, <2>1, <2>3, <3>1, <3>3 DEF Typed, TypeOK
    <3>4. QED BY <2>1, <3>2, <3>3
  <2>5. Lists \in [Agents -> SUBSET Ids]
    BY ListsType, Parts DEF Typed
  <2>6. savedPairs' \in [Agents -> [paired : BOOLEAN, servers : SUBSET Ids]]
    <3>1. [Lists EXCEPT ![a] = servers] \in [Agents -> SUBSET Ids]
      BY <2>5
    <3>2. OnDisk(paired', [Lists EXCEPT ![a] = servers])
            \in [Agents -> [paired : BOOLEAN, servers : SUBSET Ids]]
      BY <3>1, OnDiskType
    <3>3. QED BY <2>1, <3>2 DEF Typed, TypeOK
  <2>7. DirectoryTypes'
    <3>1. Listed(a, o, servers) \in [Agents -> SUBSET Ids]
      BY <2>5 DEF Listed
    <3>2. entries \in [Ids -> Agents \cup {None}] /\ suppressed \in SUBSET Base
      BY DEF Typed, TypeOK
    <3>3. QED BY <2>1, <3>1, <3>2, Synced
  <2>8. BudgetTypes'
    BY <2>1, BudgetKept, Parts DEF Typed
  <2>9. before' \subseteq Agents \X Agents /\ created' \in 0 .. MaxPairings
    BY <2>1, <1>1 DEF Typed, TypeOK
  <2>10. PairingTypes'
    BY <2>2, <2>4, <2>6, <2>9 DEF PairingTypes
  <2>11. QED BY <2>1, <2>3, <2>7, <2>8, <2>10
<1>4. QED BY <1>2, <1>3

LEMMA RefreshBeginsType ==
  ASSUME Typed, NEW a \in Agents, RefreshBegins(a) \/ RefreshAnswered(a)
  PROVE  Typed'
<1>1. /\ poll \in [Agents -> Polls] /\ installed[a] \in SUBSET Ids
      /\ created \in 0 .. MaxPairings /\ paired[a] \in 0 .. created
      /\ paired[a] # 0 => object[paired[a]].agent = a
  BY DEF Typed, TypeOK
<1>2. /\ UNCHANGED agentSide /\ UNCHANGED registry /\ UNCHANGED pairing /\ UNCHANGED directory
      /\ UNCHANGED <<requests, faults>> /\ UNCHANGED task
  BY DEF RefreshBegins, RefreshAnswered
<1>3. poll' \in [Agents -> Polls]
  <2>1. paired[a] \in 0 .. MaxPairings
    BY <1>1, ConfigurationOK
  <2>2. CASE RefreshBegins(a)
    BY <1>1, <2>1, <2>2 DEF RefreshBegins, Polls
  <2>3. CASE RefreshAnswered(a)
    <3>1. [poll[a] EXCEPT !.answered = TRUE, !.seen = installed[a]] \in Polls
      BY <1>1 DEF Polls
    <3>2. poll' = [poll EXCEPT ![a] = [poll[a] EXCEPT !.answered = TRUE, !.seen = installed[a]]]
      BY <1>1, <2>3 DEF RefreshAnswered, Polls
    <3>3. QED BY <1>1, <3>1, <3>2
  <2>4. QED BY <2>2, <2>3
<1>4. References'
  <2>1. UNCHANGED <<object, created, task>>
    BY <1>2 DEF pairing
  <2>2. ASSUME NEW b \in Agents
        PROVE  /\ poll'[b].object \in 0 .. created
               /\ poll'[b].object # 0 => object[poll'[b].object].agent = b
               /\ poll'[b] # Quiet => poll'[b].object # 0
    <3>1. CASE RefreshBegins(a)
      BY <1>1, <3>1 DEF RefreshBegins, Typed, References
    <3>2. CASE RefreshAnswered(a)
      <4>1. poll[a].object # 0
        BY <3>2 DEF RefreshAnswered, Typed, References
      <4>2. QED BY <1>1, <3>2, <4>1 DEF RefreshAnswered, Typed, References
    <3>3. QED BY <3>1, <3>2
  <2>3. QED BY <2>1, <2>2 DEF Typed, References
<1>5. HandlerTypes'
  BY <1>2, <1>3 DEF Typed, TypeOK, HandlerTypes
<1>6. QED
  BY <1>2, <1>4, <1>5, AgentKept, RegistryKept, PairingKept, DirectoryKept, BudgetKept, Parts, PartsNext
     DEF Typed

LEMMA RefreshEndsType ==
  ASSUME Typed, NEW a \in Agents, RefreshEnds(a)
  PROVE  Typed'
<1> DEFINE o == poll[a].object
<1>1. o \in 1 .. created /\ object[o].agent = a /\ poll[a].seen \in SUBSET Ids
  BY ConfigurationOK DEF Typed, TypeOK, References, RefreshEnds, Polls, Quiet
<1>2. \E put \in BOOLEAN : TakeInventory(o, poll[a].seen, put)
  BY DEF RefreshEnds
<1>3. /\ PairingTypes' /\ DirectoryTypes' /\ BudgetTypes'
      /\ created' = created
      /\ \A p \in 1 .. MaxPairings : object'[p].agent = object[p].agent
  BY <1>1, <1>2, TakeInventoryType
<1>4. UNCHANGED agentSide /\ UNCHANGED registry /\ UNCHANGED task
  BY DEF RefreshEnds
<1>5. /\ poll' \in [Agents -> Polls]
      /\ \A b \in Agents : poll'[b] = poll[b] \/ poll'[b] = Quiet
  BY ConfigurationOK DEF Typed, TypeOK, RefreshEnds, Polls, Quiet
<1>6. References'
  BY <1>3, <1>4, <1>5, ReferencesKept
<1>7. HandlerTypes'
  BY <1>4, <1>5 DEF Typed, TypeOK, HandlerTypes
<1>8. QED BY <1>3, <1>4, <1>6, <1>7, AgentKept, RegistryKept, Parts, PartsNext DEF Typed

LEMMA InstallKnownType ==
  ASSUME Typed, NEW h \in Handlers, InstallKnown(h)
  PROVE  Typed'
<1> DEFINE o == task[h].object
<1>1. task[h] \in Task
  BY ReadyType, Parts DEF Typed, InstallKnown, Ready, Kinds
<1>2. o \in 1 .. created /\ object[o].agent \in Agents /\ task[h].seen \in SUBSET Ids
  BY <1>1 DEF Typed, References, InstallKnown, Ready, Task
<1>3. TakeInventory(o, task[h].seen, TRUE)
  BY DEF InstallKnown
<1>4. /\ PairingTypes' /\ DirectoryTypes' /\ BudgetTypes'
      /\ created' = created
      /\ \A p \in 1 .. MaxPairings : object'[p].agent = object[p].agent
  BY <1>2, <1>3, TakeInventoryType
<1>5. UNCHANGED agentSide /\ UNCHANGED registry /\ UNCHANGED poll /\ End(h)
  BY DEF InstallKnown
<1>6. HandlerTypes'
  BY <1>5, EndType, Parts DEF Typed
<1>7. References'
  <2>1. \A g \in Handlers : task'[g].kind = "installed" => task'[g] = task[g]
    BY <1>5 DEF Typed, TypeOK, End, Idle
  <2>2. QED BY <1>4, <1>5, <2>1, ReferencesKept
<1>8. QED BY <1>4, <1>5, <1>6, <1>7, AgentKept, RegistryKept, Parts, PartsNext DEF Typed

LEMMA PairEndsType ==
  ASSUME Typed, NEW h \in Handlers, PairEnds(h)
  PROVE  Typed'
<1> DEFINE a == task[h].agent
           o == created + 1
           new == [agent |-> a, servers |-> task[h].seen]
<1>1. task[h] \in Task
  BY ReadyType, Parts DEF Typed, PairEnds, Ready, Kinds
<1>2. a \in Agents /\ task[h].seen \in SUBSET Ids
  BY <1>1 DEF Task
<1>3. UNCHANGED agentSide /\ UNCHANGED registry /\ UNCHANGED poll /\ End(h)
  BY DEF PairEnds
<1>4. HandlerTypes'
  BY <1>3, EndType, Parts DEF Typed
<1>5. CASE UNCHANGED <<pairing, directory>> /\ Calm
  <2>1. UNCHANGED <<object, created, poll>>
    BY <1>3, <1>5 DEF pairing
  <2>2. References'
    BY <1>3, <2>1, HandlerReferences
  <2>3. PairingTypes' /\ DirectoryTypes' /\ BudgetTypes'
    BY <1>5, PairingKept, DirectoryKept, BudgetKept, Parts DEF Typed
  <2>4. QED BY <1>3, <1>4, <2>2, <2>3, AgentKept, RegistryKept, Parts, PartsNext DEF Typed
<1>6. CASE /\ created < MaxPairings
           /\ object' = [object EXCEPT ![o] = new]
           /\ created' = o
           /\ Put(a, o)
           /\ \/ /\ savedPairs' = OnDisk(paired', [Lists EXCEPT ![a] = task[h].seen]) /\ Calm
                 /\ Sync(entries, suppressed, [Lists EXCEPT ![a] = task[h].seen], before')
              \/ Fault /\ UNCHANGED savedPairs /\ Sync(entries, suppressed, Lists, before)
  <2>1. /\ created \in Nat /\ o \in 1 .. MaxPairings
        /\ \A p \in 1 .. created : p \in 1 .. MaxPairings /\ p # o
    BY <1>6, ConfigurationOK DEF Typed, TypeOK
  <2>2. object' \in [1 .. MaxPairings -> [agent : Agents \cup {None}, servers : SUBSET Ids]]
    <3>1. new \in [agent : Agents \cup {None}, servers : SUBSET Ids]
      BY <1>2
    <3>2. QED BY <1>6, <2>1, <3>1 DEF Typed, TypeOK
  <2>3. object'[o].agent = a /\ \A p \in 1 .. created : object'[p] = object[p]
    BY <1>6, <2>1 DEF Typed, TypeOK
  <2>4. paired' \in [Agents -> 0 .. created']
    BY <1>2, <1>6, <2>1 DEF Typed, TypeOK, Put
  <2>5. \A b \in Agents : paired'[b] # 0 => object'[paired'[b]].agent = b
    <3>1. ASSUME NEW b \in Agents, paired'[b] # 0
          PROVE  object'[paired'[b]].agent = b
      <4>1. CASE b = a
        BY <1>2, <1>6, <2>3, <4>1 DEF Typed, TypeOK, Put
      <4>2. CASE b # a
        <5>1. paired'[b] = paired[b] /\ paired[b] \in 1 .. created
          BY <1>2, <1>6, <2>1, <3>1, <4>2 DEF Typed, TypeOK, Put
        <5>2. QED BY <2>3, <5>1 DEF Typed, TypeOK
      <4>3. QED BY <4>1, <4>2
    <3>2. QED BY <3>1
  <2>6. before' \subseteq Agents \X Agents
    BY <1>2, <1>6 DEF Typed, TypeOK, Put
  <2>7. Lists \in [Agents -> SUBSET Ids] /\ [Lists EXCEPT ![a] = task[h].seen] \in [Agents -> SUBSET Ids]
    BY <1>2, ListsType, Parts DEF Typed
  <2>8. savedPairs' \in [Agents -> [paired : BOOLEAN, servers : SUBSET Ids]]
    <3>1. OnDisk(paired', [Lists EXCEPT ![a] = task[h].seen])
            \in [Agents -> [paired : BOOLEAN, servers : SUBSET Ids]]
      BY <2>7, OnDiskType
    <3>2. QED BY <1>6, <3>1 DEF Typed, TypeOK
  <2>9. PairingTypes'
    BY <1>6, <2>1, <2>2, <2>4, <2>5, <2>6, <2>8 DEF PairingTypes
  <2>10. DirectoryTypes'
    <3>1. entries \in [Ids -> Agents \cup {None}] /\ suppressed \in SUBSET Base
      BY DEF Typed, TypeOK
    <3>2. QED BY <1>6, <2>7, <3>1, Synced
  <2>11. BudgetTypes'
    BY <1>6, BudgetKept, Parts DEF Typed
  <2>12. References'
    <3>1. \A p \in 0 .. created : p \in 0 .. created'
      BY <1>6, <2>1
    <3>2. ASSUME NEW b \in Agents
          PROVE  /\ poll'[b].object \in 0 .. created'
                 /\ poll'[b].object # 0 => object'[poll'[b].object].agent = b
                 /\ poll'[b] # Quiet => poll'[b].object # 0
      <4>1. poll[b].object \in 0 .. created
        BY DEF Typed, References
      <4>2. poll[b].object # 0 => poll[b].object \in 1 .. created
        BY <2>1, <4>1
      <4>3. QED BY <1>3, <2>3, <3>1, <4>1, <4>2 DEF Typed, References
    <3>3. ASSUME NEW g \in Handlers, task'[g].kind = "installed"
          PROVE  task'[g].object \in 1 .. created' /\ object'[task'[g].object].agent = task'[g].agent
      <4>1. task'[g] = task[g]
        BY <1>3, <3>3 DEF Typed, TypeOK, End, Idle
      <4>2. task[g].object \in 1 .. created
        BY <3>3, <4>1 DEF Typed, References
      <4>3. task[g].object \in 1 .. created'
        BY <1>6, <2>1, <4>2
      <4>4. QED BY <2>3, <3>3, <4>1, <4>2, <4>3 DEF Typed, References
    <3>4. QED BY <3>2, <3>3 DEF References
  <2>13. QED
    BY <1>3, <1>4, <2>9, <2>10, <2>11, <2>12, AgentKept, RegistryKept, Parts, PartsNext DEF Typed
<1>7. QED BY <1>5, <1>6 DEF PairEnds

LEMMA ForgetType ==
  ASSUME Typed, NEW id \in Ids, NEW a \in Agents, Forget(id, a)
  PROVE  /\ RegistryTypes' /\ PairingTypes' /\ DirectoryTypes' /\ BudgetTypes'
         /\ created' = created
         /\ \A p \in 1 .. MaxPairings : object'[p].agent = object[p].agent
<1> DEFINE servers == Lists[a] \ {id}
           l == [Lists EXCEPT ![a] = servers]
           e == Without(id)
           s == Gone(id)
           SyncAll == Sync(e, s, l, before)
<1>1. Lists \in [Agents -> SUBSET Ids]
  BY ListsType, Parts DEF Typed
<1>2. l \in [Agents -> SUBSET Ids] /\ servers \in SUBSET Ids
  BY <1>1
<1>3. e \in [Ids -> Agents \cup {None}] /\ s \in SUBSET Base
  BY DEF Typed, TypeOK, Without, Gone
<1>4. /\ SaveRegistry(e, s)
      /\ \/ paired[a] = 0 /\ SyncAll /\ Calm /\ UNCHANGED pairing
         \/ /\ paired[a] # 0
            /\ object' = [object EXCEPT ![paired[a]].servers = servers]
            /\ UNCHANGED <<created, paired, before>>
            /\ \/ savedPairs' = OnDisk(paired, l) /\ SyncAll /\ Calm
               \/ Fault /\ UNCHANGED <<savedPairs, directory>>
  BY DEF Forget
<1>5. SyncAll => DirectoryTypes'
  BY <1>2, <1>3, Synced
<1>6. OnDisk(paired, l) \in [Agents -> [paired : BOOLEAN, servers : SUBSET Ids]]
  BY <1>2, OnDiskType
<1> HIDE DEF l, e, s, SyncAll, servers
<1>7. RegistryTypes' /\ BudgetTypes'
  BY <1>3, <1>4, SaveRegistryType, BudgetKept, Parts DEF Typed
<1>8. DirectoryTypes'
  BY <1>4, <1>5, DirectoryKept, Parts DEF Typed
<1>9. CASE paired[a] = 0
  BY <1>4, <1>7, <1>8, <1>9, PairingKept, Parts DEF Typed, pairing
<1>10. CASE paired[a] # 0
  <2>1. paired[a] \in 1 .. MaxPairings
    BY <1>10, ConfigurationOK DEF Typed, TypeOK
  <2>2. /\ object' \in [1 .. MaxPairings -> [agent : Agents \cup {None}, servers : SUBSET Ids]]
        /\ \A p \in 1 .. MaxPairings : object'[p].agent = object[p].agent
    <3>1. object \in [1 .. MaxPairings -> [agent : Agents \cup {None}, servers : SUBSET Ids]]
      BY DEF Typed, TypeOK
    <3>2. [object[paired[a]] EXCEPT !.servers = servers] \in [agent : Agents \cup {None}, servers : SUBSET Ids]
      BY <1>2, <2>1, <3>1
    <3>3. object' = [object EXCEPT ![paired[a]] = [object[paired[a]] EXCEPT !.servers = servers]]
      BY <1>4, <1>10
    <3>4. QED BY <1>2, <2>1, <3>1, <3>2, <3>3
  <2>3. created' = created /\ paired' = paired /\ before' = before
    BY <1>4, <1>10
  <2>4. savedPairs' \in [Agents -> [paired : BOOLEAN, servers : SUBSET Ids]]
    BY <1>4, <1>6, <1>10 DEF Typed, TypeOK
  <2>5. \A b \in Agents : paired[b] # 0 => paired[b] \in 1 .. MaxPairings
    BY ConfigurationOK DEF Typed, TypeOK
  <2>6. PairingTypes'
    BY <2>2, <2>3, <2>4, <2>5 DEF Typed, TypeOK, PairingTypes
  <2>7. QED BY <1>7, <1>8, <2>2, <2>3, <2>6
<1>11. QED BY <1>9, <1>10

LEMMA DeletionKnownType ==
  ASSUME Typed, Named, NEW h \in Handlers, DeletionKnown(h)
  PROVE  Typed'
<1> DEFINE id == task[h].id
           a == task[h].agent
<1>1. task[h] \in Task
  BY ReadyType, Parts DEF Typed, DeletionKnown, Ready, Kinds
<1>2. UNCHANGED agentSide /\ UNCHANGED poll /\ End(h)
  BY DEF DeletionKnown
<1>3. a \in Agents
  BY <1>1 DEF Task
<1>4. HandlerTypes'
  BY <1>2, EndType, Parts DEF Typed
<1>5. \A g \in Handlers : task'[g].kind = "installed" => task'[g] = task[g]
  BY <1>2 DEF Typed, TypeOK, End, Idle
<1>6. CASE id \in Ids /\ Forget(id, a)
  <2>1. /\ RegistryTypes' /\ PairingTypes' /\ DirectoryTypes' /\ BudgetTypes'
        /\ created' = created
        /\ \A p \in 1 .. MaxPairings : object'[p].agent = object[p].agent
    BY <1>3, <1>6, ForgetType
  <2>2. References'
    BY <1>2, <1>5, <2>1, ReferencesKept
  <2>3. QED BY <1>2, <1>4, <2>1, <2>2, AgentKept, Parts, PartsNext DEF Typed
<1>7. CASE UNCHANGED registry /\ UNCHANGED pairing /\ UNCHANGED directory /\ (Calm \/ Fault)
  <2>1. References'
    BY <1>2, <1>5, <1>7, ReferencesKept DEF pairing
  <2>2. QED
    BY <1>2, <1>4, <1>7, <2>1, AgentKept, RegistryKept, PairingKept, DirectoryKept, BudgetKept, Parts,
       PartsNext DEF Typed
<1>8. QED
  <2>1. CASE task[h].seen # {} /\ Forget(id, a)
    BY <1>6, <2>1 DEF Named, Kinds, DeletionKnown, Ready
  <2>2. CASE ~(task[h].seen # {} /\ Forget(id, a))
    BY <1>7, <2>2 DEF DeletionKnown, SaveFails, registry, pairing, directory
  <2>3. QED BY <2>1, <2>2

(* The agents' own steps and their answers.                                *)
LEMMA AskedType ==
  ASSUME Typed, NEW h \in Handlers, Asked(h)
  PROVE  Typed'
<1> DEFINE t == task[h]
           seen == IF t.kind = "deleted" THEN {t.id} \cap {id \in Ids : <<t.agent, id>> \in deleted}
                   ELSE installed[t.agent]
<1>1. t \in Task
  BY ReadyType, Parts DEF Typed, Asked, Kinds
<1>2. seen \in SUBSET Ids
  BY <1>1 DEF Typed, TypeOK, Task
<1>3. \/ task' = [task EXCEPT ![h].answered = TRUE, ![h].seen = seen]
      \/ End(h)
  BY DEF Asked
<1>4. /\ UNCHANGED agentSide /\ UNCHANGED registry /\ UNCHANGED pairing /\ UNCHANGED directory
      /\ UNCHANGED poll /\ UNCHANGED <<requests, faults>>
  BY DEF Asked
<1> HIDE DEF seen
<1>5. HandlerTypes'
  <2>1. CASE End(h)
    BY <1>4, <2>1, EndType, Parts DEF Typed
  <2>2. CASE task' = [task EXCEPT ![h].answered = TRUE, ![h].seen = seen]
    <3>1. [t EXCEPT !.answered = TRUE, !.seen = seen] \in Task
      BY <1>1, <1>2 DEF Task
    <3>2. task' = [task EXCEPT ![h] = [t EXCEPT !.answered = TRUE, !.seen = seen]]
      BY <1>1, <2>2 DEF Task
    <3>3. QED BY <1>4, <3>1, <3>2 DEF Typed, TypeOK, HandlerTypes
  <2>3. QED BY <1>3, <2>1, <2>2
<1>6. References'
  <2>1. ASSUME NEW g \in Handlers, task'[g].kind = "installed"
        PROVE  /\ task[g].kind = "installed" /\ task'[g].object = task[g].object
               /\ task'[g].agent = task[g].agent
    <3>1. CASE g # h
      BY <1>3, <2>1, <3>1 DEF Typed, TypeOK, End
    <3>2. CASE g = h
      BY <1>1, <1>3, <2>1, <3>2 DEF Typed, TypeOK, Task, End, Idle
    <3>3. QED BY <3>1, <3>2
  <2>2. QED BY <1>4, <2>1, ReferencesKept DEF pairing
<1>7. QED
  BY <1>4, <1>5, <1>6, AgentKept, RegistryKept, PairingKept, DirectoryKept, BudgetKept, Parts, PartsNext
     DEF Typed

LEMMA ServedType ==
  ASSUME Typed, Named, NEW h \in Handlers, Served(h)
  PROVE  Typed'
<1> DEFINE t == task[h]
<1>1. t \in Task
  BY ReadyType, Parts DEF Typed, Served, Kinds
<1>2. /\ UNCHANGED <<installed, ever>> /\ UNCHANGED registry /\ UNCHANGED pairing
      /\ UNCHANGED directory /\ UNCHANGED poll /\ UNCHANGED <<requests, faults>> /\ End(h)
      /\ \/ /\ working' = working \cup {[agent |-> t.agent, id |-> t.id, kind |-> t.kind]}
            /\ deleted' = deleted \ {<<t.agent, t.id>>}
         \/ UNCHANGED <<working, deleted>>
  BY DEF Served
<1>3. [agent |-> t.agent, id |-> t.id, kind |-> t.kind] \in Jobs
  BY <1>1 DEF Named, Task, Kinds, Jobs, Served
<1>4. AgentTypes'
  BY <1>2, <1>3 DEF Typed, TypeOK, AgentTypes
<1>5. HandlerTypes'
  BY <1>2, EndType, Parts DEF Typed
<1>6. References'
  BY <1>2, HandlerReferences DEF pairing
<1>7. QED
  BY <1>2, <1>4, <1>5, <1>6, RegistryKept, PairingKept, DirectoryKept, BudgetKept, Parts, PartsNext
     DEF Typed

LEMMA JobEndsType ==
  ASSUME Typed, NEW j, JobEnds(j)
  PROVE  Typed'
<1>1. j \in Jobs
  BY DEF Typed, TypeOK, JobEnds
<1>2. AgentTypes'
  <2>1. /\ j.agent \in Agents /\ j.id \in Ids /\ working' \subseteq Jobs
        /\ deleted' = deleted \/ deleted' = deleted \cup {<<j.agent, j.id>>}
    BY <1>1 DEF Typed, TypeOK, JobEnds, Jobs
  <2>2. /\ installed' \in [Agents -> SUBSET Ids]
        /\ ever' \in [Agents -> SUBSET Ids]
    <3>1. /\ \/ installed' = installed
             \/ installed' = [installed EXCEPT ![j.agent] = @ \cup {j.id}]
             \/ installed' = [installed EXCEPT ![j.agent] = @ \ {j.id}]
          /\ ever' = ever \/ ever' = [ever EXCEPT ![j.agent] = @ \cup {j.id}]
      BY DEF JobEnds
    <3>2. installed \in [Agents -> SUBSET Ids] /\ ever \in [Agents -> SUBSET Ids]
      BY DEF Typed, TypeOK
    <3>3. /\ installed[j.agent] \cup {j.id} \in SUBSET Ids
          /\ installed[j.agent] \ {j.id} \in SUBSET Ids
          /\ ever[j.agent] \cup {j.id} \in SUBSET Ids
      BY <2>1, <3>2
    <3>4. installed' \in [Agents -> SUBSET Ids]
      BY <2>1, <3>1, <3>2, <3>3
    <3>5. QED BY <2>1, <3>1, <3>2, <3>3, <3>4
  <2>3. QED BY <2>1, <2>2 DEF Typed, TypeOK, AgentTypes
<1>3. /\ UNCHANGED registry /\ UNCHANGED pairing /\ UNCHANGED directory
      /\ UNCHANGED <<requests, faults>> /\ UNCHANGED <<task, poll>>
  BY DEF JobEnds
<1>4. HandlerTypes' /\ References'
  BY <1>3, ReferencesKept DEF Typed, TypeOK, HandlerTypes, pairing
<1>5. QED
  BY <1>2, <1>3, <1>4, RegistryKept, PairingKept, DirectoryKept, BudgetKept, Parts, PartsNext DEF Typed

LEMMA RestartType ==
  ASSUME Typed, Restart
  PROVE  Typed'
<1> DEFINE p == [a \in Agents |-> IF savedPairs[a].paired THEN paired[a] ELSE 0]
           l == [a \in Agents |-> savedPairs[a].servers]
           b == {x \in before : p[x[1]] # 0 /\ p[x[2]] # 0}
<1>1. /\ entries' = saved.entries /\ suppressed' = saved.suppressed
      /\ paired' = p
      /\ before' = b
      /\ object' = [o \in 1 .. MaxPairings |->
                      IF object[o].agent # None /\ p[object[o].agent] = o
                        THEN [object[o] EXCEPT !.servers = l[object[o].agent]] ELSE object[o]]
      /\ Sync(saved.entries, saved.suppressed, l, b)
      /\ task' = [h \in Handlers |-> Idle]
      /\ poll' = [a \in Agents |-> Quiet]
      /\ Fault
      /\ UNCHANGED <<agentSide, saved, created, savedPairs>>
  BY DEF Restart
<1>2. l \in [Agents -> SUBSET Ids]
  BY DEF Typed, TypeOK
<1>3. p \in [Agents -> 0 .. created] /\ \A a \in Agents : p[a] # 0 => p[a] = paired[a]
  BY ConfigurationOK DEF Typed, TypeOK
<1>4. b \subseteq before
  OBVIOUS
<1> HIDE DEF p, l, b
<1>5. RegistryTypes'
  BY <1>1 DEF Typed, TypeOK, RegistryTypes
<1>6. DirectoryTypes'
  BY <1>1, <1>2, Synced DEF Typed, TypeOK
<1>7. \A o \in 1 .. MaxPairings :
        /\ object'[o] \in [agent : Agents \cup {None}, servers : SUBSET Ids]
        /\ object'[o].agent = object[o].agent
  <2>1. ASSUME NEW o \in 1 .. MaxPairings
        PROVE  /\ object'[o] \in [agent : Agents \cup {None}, servers : SUBSET Ids]
               /\ object'[o].agent = object[o].agent
    <3>1. object[o] \in [agent : Agents \cup {None}, servers : SUBSET Ids]
      BY DEF Typed, TypeOK
    <3>2. CASE object[o].agent # None /\ p[object[o].agent] = o
      <4>1. l[object[o].agent] \in SUBSET Ids
        BY <1>2, <3>1, <3>2
      <4>2. object'[o] = [object[o] EXCEPT !.servers = l[object[o].agent]]
        BY <1>1, <3>2
      <4>3. QED BY <3>1, <4>1, <4>2
    <3>3. CASE ~(object[o].agent # None /\ p[object[o].agent] = o)
      BY <1>1, <3>1, <3>3
    <3>4. QED BY <3>2, <3>3
  <2>2. QED BY <2>1
<1>8. PairingTypes'
  <2>1. object' \in [1 .. MaxPairings -> [agent : Agents \cup {None}, servers : SUBSET Ids]]
    BY <1>1, <1>7
  <2>2. \A a \in Agents : p[a] # 0 => p[a] \in 1 .. MaxPairings /\ object[p[a]].agent = a
    BY <1>3, ConfigurationOK DEF Typed, TypeOK
  <2>3. QED BY <1>1, <1>3, <1>4, <1>7, <2>1, <2>2 DEF Typed, TypeOK, PairingTypes
<1>9. HandlerTypes'
  BY <1>1, ConfigurationOK DEF HandlerTypes, Polls, Quiet
<1>10. References'
  BY <1>1, ConfigurationOK DEF Typed, TypeOK, References, Quiet, Idle
<1>11. QED
  BY <1>1, <1>5, <1>6, <1>8, <1>9, <1>10, AgentKept, BudgetKept, Parts, PartsNext DEF Typed

(* Every step leaves a handler as it was, ends it, has it answered, or     *)
(* begins it.                                                              *)
LEMMA NamedNext ==
  ASSUME Typed, Named, Next
  PROVE  Named'
<1>1. ASSUME NEW h \in Handlers, End(h)
      PROVE  Named'
  BY <1>1 DEF Typed, TypeOK, Named, End, Idle, Kinds
<1>2. ASSUME NEW h \in Handlers, NEW kind \in Kinds, NEW id, NEW a, NEW o, Begin(h, kind, id, a, o),
             kind \in {"pair", "installed"} \/ id \in Ids
      PROVE  Named'
  <2>1. ASSUME NEW g \in Handlers, task'[g].kind \in Kinds \ {"pair", "installed"}
        PROVE  task'[g].id \in Ids
    BY <1>2, <2>1 DEF Typed, TypeOK, Named, Begin
  <2>2. QED BY <2>1 DEF Named
<1>3. ASSUME UNCHANGED task PROVE Named'
  BY <1>3 DEF Named
<1>4. ASSUME NEW h \in Handlers, Asked(h)
      PROVE  Named'
  <2>1. task[h] \in Task
    BY <1>4, ReadyType, Parts DEF Typed, Asked, Kinds
  <2>2. CASE End(h)
    BY <1>1, <2>2
  <2>3. CASE ~End(h)
    <3>1. PICK seen : task' = [task EXCEPT ![h].answered = TRUE, ![h].seen = seen]
      BY <1>4, <2>3 DEF Asked
    <3>2. task'[h].kind = task[h].kind /\ task'[h].id = task[h].id
      BY <2>1, <3>1 DEF Typed, TypeOK, Task
    <3>3. \A g \in Handlers : g # h => task'[g] = task[g]
      BY <3>1 DEF Typed, TypeOK
    <3>4. QED BY <3>2, <3>3 DEF Named
  <2>4. QED BY <2>2, <2>3
<1>5. ASSUME NEW h \in Handlers, Handled(h)
      PROVE  Named'
  BY <1>1, <1>4, <1>5 DEF Handled, RegisterEnds, UpdateEnds, PairEnds, InstallKnown, DeletionKnown, Served
<1>6. ASSUME NEW h \in Handlers, NEW a \in Agents, PairBegins(h, a) \/ InstallPolled(h, a)
      PROVE  Named'
  BY <1>2, <1>6 DEF PairBegins, InstallPolled, Kinds
<1>7. ASSUME NEW h \in Handlers, NEW id \in Ids,
             UpdateBegins(h, id) \/ DeleteBegins(h, id) \/ DeletionPolled(h, id)
      PROVE  Named'
  BY <1>2, <1>7 DEF UpdateBegins, DeleteBegins, DeletionPolled, Kinds
<1>8. ASSUME NEW h \in Handlers, NEW id \in Ids, NEW a \in Agents,
             RegisterBegins(h, id, a) \/ InstallBegins(h, id, a)
      PROVE  Named'
  BY <1>2, <1>8 DEF RegisterBegins, InstallBegins, Kinds
<1>9. ASSUME NEW id \in Ids, Rename(id) \/ Remove(id)
      PROVE  Named'
  BY <1>3, <1>9 DEF Rename, Remove
<1>10. ASSUME NEW a \in Agents, RefreshBegins(a) \/ RefreshAnswered(a) \/ RefreshEnds(a)
       PROVE  Named'
  BY <1>3, <1>10 DEF RefreshBegins, RefreshAnswered, RefreshEnds
<1>11. ASSUME NEW j \in working, JobEnds(j)
       PROVE  Named'
  BY <1>3, <1>11 DEF JobEnds
<1>12. CASE Restart
  BY <1>12 DEF Restart, Named, Idle, Kinds
<1>13. QED BY <1>5, <1>6, <1>7, <1>8, <1>9, <1>10, <1>11, <1>12 DEF Next

LEMMA TypeNext ==
  ASSUME Typed, Named, Next
  PROVE  Typed'
<1>1. ASSUME NEW h \in Handlers,
             \/ \E a \in Agents : PairBegins(h, a)
             \/ \E id \in Ids : UpdateBegins(h, id) \/ DeleteBegins(h, id) \/ DeletionPolled(h, id)
             \/ \E id \in Ids, a \in Agents : RegisterBegins(h, id, a) \/ InstallBegins(h, id, a)
      PROVE  Typed'
  BY <1>1, RegisteringType
<1>2. ASSUME NEW h \in Handlers, NEW a \in Agents, InstallPolled(h, a)
      PROVE  Typed'
  BY <1>2, InstallPolledType
<1>3. ASSUME NEW h \in Handlers, Handled(h)
      PROVE  Typed'
  BY <1>3, RegistryActionType, PairEndsType, InstallKnownType, DeletionKnownType, AskedType, ServedType
     DEF Handled
<1>4. ASSUME NEW id \in Ids, Rename(id) \/ Remove(id)
      PROVE  Typed'
  BY <1>4, RegistryActionType
<1>5. ASSUME NEW a \in Agents, RefreshBegins(a) \/ RefreshAnswered(a)
      PROVE  Typed'
  BY <1>5, RefreshBeginsType
<1>6. ASSUME NEW a \in Agents, RefreshEnds(a)
      PROVE  Typed'
  BY <1>6, RefreshEndsType
<1>7. ASSUME NEW j \in working, JobEnds(j)
      PROVE  Typed'
  BY <1>7, JobEndsType
<1>8. CASE Restart
  BY <1>8, RestartType
<1>9. QED BY <1>1, <1>2, <1>3, <1>4, <1>5, <1>6, <1>7, <1>8 DEF Next

(* The state of the controller's directory, the registries and the agents  *)
(* is well typed, and every object is referred to under its own agent.     *)
THEOREM TypeCorrect == Spec => []TypeOK
<1>1. Init => Typed /\ Named
  BY TypeInit DEF Init, Named, Idle, Kinds
<1>2. Typed /\ Named /\ [Next]_vars => Typed' /\ Named'
  <2>1. CASE Next
    BY <2>1, TypeNext, NamedNext
  <2>2. CASE UNCHANGED vars
    BY <2>2, AgentKept, RegistryKept, PairingKept, DirectoryKept, BudgetKept, Parts, PartsNext
       DEF vars, Typed, Named, References, pairing, HandlerTypes
  <2>3. QED BY <2>1, <2>2
<1>3. QED BY <1>1, <1>2, PTL DEF Spec, Typed

-----------------------------------------------------------------------------
(* The registry and the servers it reserves.                               *)

EntriesApart == \A id \in Ids : entries[id] # None => id \notin Base

Registered == MemoryAsSaved /\ RegisteredFirst /\ EntriesApart

(* The registry is saved with what is in memory, or both are left alone;   *)
(* the directory is made from them, or keeps what it has.                  *)
RegistrySteps ==
  /\ \/ UNCHANGED registry
     \/ SaveRegistry(entries', suppressed')
  /\ \A id \in Ids : entries'[id] # None => id \notin Base
  /\ \/ \E l \in [Agents -> SUBSET Ids] : \E b : Sync(entries', suppressed', l, b)
     \/ /\ UNCHANGED directory
        /\ suppressed \subseteq suppressed'
        /\ \A id \in Ids : entries'[id] \in {entries[id], None}

LEMMA RegistryStep ==
  ASSUME TypeOK, Registered, TypeOK', RegistrySteps
  PROVE  Registered'
<1>1. MemoryAsSaved'
  BY DEF RegistrySteps, Registered, MemoryAsSaved, SaveRegistry, registry
<1>2. EntriesApart'
  BY DEF RegistrySteps, EntriesApart
<1>3. RegisteredFirst'
  <2>1. CASE \E l \in [Agents -> SUBSET Ids] : \E b : Sync(entries', suppressed', l, b)
    <3>1. PICK l \in [Agents -> SUBSET Ids] : \E b : Sync(entries', suppressed', l, b)
      BY <2>1
    <3>2. PICK b : Sync(entries', suppressed', l, b)
      BY <3>1
    <3>3. entries' \in [Ids -> Agents \cup {None}] /\ suppressed' \in SUBSET Base
      BY DEF TypeOK
    <3>4. \A id \in Ids :
            /\ id \in Active(suppressed') => route'[id] = SourceAgent[id] /\ owner'[id] = None
            /\ entries'[id] # None /\ id \notin Active(suppressed')
                 => route'[id] = entries'[id] /\ owner'[id] = None
      BY <3>2, <3>3, Synced
    <3>5. \A id \in Ids : entries'[id] # None => id \notin Active(suppressed')
      BY DEF RegistrySteps, Active
    <3>6. QED BY <3>4, <3>5 DEF RegisteredFirst, Active
  <2>2. CASE /\ UNCHANGED directory
             /\ suppressed \subseteq suppressed'
             /\ \A id \in Ids : entries'[id] \in {entries[id], None}
    <3>1. \A id \in Ids : id \in Active(suppressed)' => id \in Active(suppressed)
      BY <2>2 DEF Active
    <3>2. QED BY <2>2, <3>1 DEF Registered, RegisteredFirst, directory
  <2>3. QED BY <2>1, <2>2 DEF RegistrySteps
<1>4. QED BY <1>1, <1>2, <1>3 DEF Registered

(* What leaves registry and directory alone is such a step.                *)
LEMMA RegistryStutter ==
  ASSUME Registered, UNCHANGED registry, UNCHANGED directory
  PROVE  RegistrySteps
BY DEF RegistrySteps, Registered, EntriesApart, registry

(* So is a new directory from an unchanged registry.                       *)
LEMMA RegistryResync ==
  ASSUME Registered, UNCHANGED registry, NEW l \in [Agents -> SUBSET Ids], NEW b,
         Sync(entries, suppressed, l, b)
  PROVE  RegistrySteps
<1>1. entries' = entries /\ suppressed' = suppressed
  BY DEF registry
<1>2. Sync(entries', suppressed', l, b)
  BY <1>1
<1>3. QED BY <1>1, <1>2 DEF RegistrySteps, Registered, EntriesApart

LEMMA TakeInventoryRegistry ==
  ASSUME TypeOK, Registered, NEW o, NEW servers \in SUBSET Ids, NEW put, UNCHANGED registry,
         TakeInventory(o, servers, put)
  PROVE  RegistrySteps
<1>1. CASE Refused(object[o].agent, servers)
  BY <1>1, RegistryStutter DEF TakeInventory
<1>2. CASE ~Refused(object[o].agent, servers)
  <2>1. Lists \in [Agents -> SUBSET Ids]
    BY ListsType, Parts
  <2>2. Listed(object[o].agent, o, servers) \in [Agents -> SUBSET Ids]
    BY <2>1 DEF Listed
  <2>3. Sync(entries, suppressed, Listed(object[o].agent, o, servers), before)
    BY <1>2 DEF TakeInventory
  <2>4. QED BY <2>2, <2>3, RegistryResync
<1>3. QED BY <1>1, <1>2

(* A registry saved and a directory made from it.                          *)
LEMMA RegistrySaved ==
  ASSUME NEW e \in [Ids -> Agents \cup {None}], NEW s \in SUBSET Base,
         \A id \in Ids : e[id] # None => id \notin Base,
         NEW l \in [Agents -> SUBSET Ids], NEW b,
         SaveRegistry(e, s), Sync(e, s, l, b)
  PROVE  RegistrySteps
<1>1. entries' = e /\ suppressed' = s
  BY DEF SaveRegistry
<1>2. QED BY <1>1 DEF RegistrySteps

LEMMA RegisteredNext ==
  ASSUME Typed, Named, Registered, Next
  PROVE  RegistrySteps
<1>1. Lists \in [Agents -> SUBSET Ids]
  BY ListsType, Parts DEF Typed
<1>2. entries \in [Ids -> Agents \cup {None}] /\ suppressed \in SUBSET Base
  BY DEF Typed, TypeOK
<1>3. \A id \in Ids : entries[id] # None => id \notin Base
  BY DEF Registered, EntriesApart
<1>4. ASSUME NEW h \in Handlers, RegisterEnds(h)
      PROVE  RegistrySteps
  <2> DEFINE e == [entries EXCEPT ![task[h].id] = task[h].agent]
  <2>1. task[h] \in Task
    BY <1>4, ReadyType, Parts DEF Typed, RegisterEnds, Ready, Kinds
  <2>2. CASE task[h].id \notin Base /\ SaveRegistry(e, suppressed) /\ Sync(e, suppressed, Lists, before)
    <3>1. e \in [Ids -> Agents \cup {None}] /\ \A id \in Ids : e[id] # None => id \notin Base
      BY <1>2, <1>3, <2>1, <2>2 DEF Task
    <3> HIDE DEF e
    <3>2. QED BY <1>1, <1>2, <2>2, <3>1, RegistrySaved
  <2>3. CASE UNCHANGED registry /\ UNCHANGED directory
    BY <2>3, RegistryStutter
  <2>4. QED BY <1>4, <2>2, <2>3 DEF RegisterEnds, SaveFails, registry, directory
<1>5. ASSUME \/ \E h \in Handlers : UpdateEnds(h)
             \/ \E id \in Ids : Rename(id)
      PROVE  RegistrySteps
  <2>1. CASE SaveRegistry(entries, suppressed) /\ Sync(entries, suppressed, Lists, before)
    BY <1>1, <1>2, <1>3, <2>1, RegistrySaved
  <2>2. CASE UNCHANGED registry /\ UNCHANGED directory
    BY <2>2, RegistryStutter
  <2>3. QED BY <1>5, <2>1, <2>2 DEF UpdateEnds, Updated, Rename, SaveFails, registry, directory
<1>6. ASSUME NEW id \in Ids, Remove(id)
      PROVE  RegistrySteps
  <2> DEFINE e == [entries EXCEPT ![id] = None]
  <2>1. e \in [Ids -> Agents \cup {None}] /\ \A i \in Ids : e[i] # None => i \notin Base
    BY <1>2, <1>3
  <2>2. CASE SaveRegistry(e, suppressed) /\ Sync(e, suppressed, Lists, before)
    <3> HIDE DEF e
    <3>1. QED BY <1>1, <1>2, <2>1, <2>2, RegistrySaved
  <2>3. CASE UNCHANGED registry /\ UNCHANGED directory
    BY <2>3, RegistryStutter
  <2>4. QED BY <1>6, <2>2, <2>3 DEF Remove, SaveFails
<1>7. ASSUME NEW h \in Handlers, PairEnds(h)
      PROVE  RegistrySteps
  <2>1. task[h] \in Task
    BY <1>7, ReadyType, Parts DEF Typed, PairEnds, Ready, Kinds
  <2>2. [Lists EXCEPT ![task[h].agent] = task[h].seen] \in [Agents -> SUBSET Ids]
    BY <1>1, <2>1 DEF Task
  <2>3. UNCHANGED registry
    BY <1>7 DEF PairEnds
  <2>4. \/ Sync(entries, suppressed, [Lists EXCEPT ![task[h].agent] = task[h].seen], before')
        \/ Sync(entries, suppressed, Lists, before)
        \/ UNCHANGED directory
    BY <1>7 DEF PairEnds
  <2>5. QED BY <1>1, <2>2, <2>3, <2>4, RegistryResync, RegistryStutter
<1>8. ASSUME NEW h \in Handlers, InstallKnown(h)
      PROVE  RegistrySteps
  <2>1. task[h] \in Task
    BY <1>8, ReadyType, Parts DEF Typed, InstallKnown, Ready, Kinds
  <2>2. QED BY <1>8, <2>1, TakeInventoryRegistry DEF InstallKnown, Task, Typed
<1>9. ASSUME NEW a \in Agents, RefreshEnds(a)
      PROVE  RegistrySteps
  <2>1. poll[a].seen \in SUBSET Ids
    BY DEF Typed, TypeOK, Polls
  <2>2. QED BY <1>9, <2>1, TakeInventoryRegistry DEF RefreshEnds, Typed
<1>10. ASSUME NEW h \in Handlers, DeletionKnown(h)
       PROVE  RegistrySteps
  <2> DEFINE id == task[h].id
             a == task[h].agent
             l == [Lists EXCEPT ![a] = Lists[a] \ {id}]
             e == Without(id)
             s == Gone(id)
  <2>1. e \in [Ids -> Agents \cup {None}] /\ s \in SUBSET Base
    BY <1>2 DEF Without, Gone
  <2>2. /\ \A i \in Ids : e[i] # None => i \notin Base
        /\ \A i \in Ids : e[i] \in {entries[i], None}
        /\ suppressed \subseteq s
    BY <1>2, <1>3 DEF Without, Gone
  <2>3. l \in [Agents -> SUBSET Ids]
    BY <1>1
  <2>4. CASE Forget(id, a)
    <3>1. /\ SaveRegistry(e, s)
          /\ Sync(e, s, l, before) \/ UNCHANGED directory
      BY <2>4 DEF Forget
    <3> HIDE DEF e, s, l
    <3>2. entries' = e /\ suppressed' = s
      BY <3>1 DEF SaveRegistry
    <3>3. CASE Sync(e, s, l, before)
      BY <2>1, <2>2, <2>3, <3>1, <3>3, RegistrySaved
    <3>4. CASE UNCHANGED directory
      BY <2>2, <3>1, <3>2, <3>4 DEF RegistrySteps
    <3>5. QED BY <3>1, <3>3, <3>4
  <2>5. CASE UNCHANGED registry /\ UNCHANGED directory
    BY <2>5, RegistryStutter
  <2>6. QED BY <1>10, <2>4, <2>5 DEF DeletionKnown, SaveFails, registry, directory
<1>11. CASE Restart
  <2> DEFINE p == [a \in Agents |-> IF savedPairs[a].paired THEN paired[a] ELSE 0]
             l == [a \in Agents |-> savedPairs[a].servers]
             b == {x \in before : p[x[1]] # 0 /\ p[x[2]] # 0}
  <2>1. l \in [Agents -> SUBSET Ids]
    BY DEF Typed, TypeOK
  <2>2. Sync(saved.entries, saved.suppressed, l, b) /\ entries' = saved.entries
        /\ suppressed' = saved.suppressed /\ UNCHANGED saved
    BY <1>11 DEF Restart
  <2> HIDE DEF l, b
  <2>3. saved.entries = entries /\ saved.suppressed = suppressed
    BY DEF Registered, MemoryAsSaved
  <2>4. UNCHANGED registry
    BY <2>2, <2>3 DEF registry
  <2>5. QED BY <2>1, <2>2, <2>3, <2>4, RegistryResync
<1>12. ASSUME \/ \E h \in Handlers : Asked(h) \/ Served(h)
              \/ \E h \in Handlers, a \in Agents : PairBegins(h, a) \/ InstallPolled(h, a)
              \/ \E h \in Handlers, id \in Ids :
                   UpdateBegins(h, id) \/ DeleteBegins(h, id) \/ DeletionPolled(h, id)
              \/ \E h \in Handlers, id \in Ids, a \in Agents :
                   RegisterBegins(h, id, a) \/ InstallBegins(h, id, a)
              \/ \E a \in Agents : RefreshBegins(a) \/ RefreshAnswered(a)
              \/ \E j \in working : JobEnds(j)
       PROVE  RegistrySteps
  <2>1. UNCHANGED registry /\ UNCHANGED directory
    BY <1>12 DEF Asked, Served, PairBegins, InstallPolled, UpdateBegins, DeleteBegins, DeletionPolled,
       RegisterBegins, InstallBegins, RefreshBegins, RefreshAnswered, JobEnds
  <2>2. QED BY <2>1, RegistryStutter
<1>13. QED
  BY <1>4, <1>5, <1>6, <1>7, <1>8, <1>9, <1>10, <1>11, <1>12 DEF Next, Handled

LEMMA RegisteredInit == Init => Registered
BY ConfigurationOK DEF Init, Registered, MemoryAsSaved, RegisteredFirst, EntriesApart, Active

LEMMA RegisteredStep ==
  ASSUME Typed, Named, Registered, [Next]_vars
  PROVE  Typed' /\ Named' /\ Registered'
<1>1. CASE Next
  BY <1>1, TypeNext, NamedNext, RegisteredNext, RegistryStep DEF Typed
<1>2. CASE UNCHANGED vars
  <2>1. Typed' /\ Named'
    BY <1>2, AgentKept, RegistryKept, PairingKept, DirectoryKept, BudgetKept, Parts, PartsNext
       DEF vars, Typed, Named, References, pairing, HandlerTypes
  <2>2. Registered'
    BY <1>2, <2>1, RegistryStutter, RegistryStep DEF vars, Typed
  <2>3. QED BY <2>1, <2>2
<1>3. QED BY <1>1, <1>2

(* What the controller knows of its own servers is what a restart would    *)
(* bring back, whichever writes failed.                                    *)
THEOREM MemoryCorrect == Spec => []MemoryAsSaved
<1>1. Init => Typed /\ Named /\ Registered
  BY TypeInit, RegisteredInit DEF Init, Named, Idle, Kinds
<1>2. Typed /\ Named /\ Registered /\ [Next]_vars => Typed' /\ Named' /\ Registered'
  BY RegisteredStep
<1>3. QED BY <1>1, <1>2, PTL DEF Spec, Registered

(* No agent's inventory takes the place of a server of controller.toml or  *)
(* of one that was registered in the dashboard.                            *)
THEOREM ReservedCorrect == Spec => []RegisteredFirst
<1>1. Init => Typed /\ Named /\ Registered
  BY TypeInit, RegisteredInit DEF Init, Named, Idle, Kinds
<1>2. Typed /\ Named /\ Registered /\ [Next]_vars => Typed' /\ Named' /\ Registered'
  BY RegisteredStep
<1>3. QED BY <1>1, <1>2, PTL DEF Spec, Registered

-----------------------------------------------------------------------------
(* What the controller knows of an agent was true of it once.              *)

KnownAgents ==
  /\ \A id \in Base : id \in ever[SourceAgent[id]]
  /\ \A a \in Agents : installed[a] \subseteq ever[a]
KnownEntries == \A id \in Ids : entries[id] # None => id \in ever[entries[id]]
KnownObjects ==
  \A o \in 1 .. MaxPairings : object[o].agent # None => object[o].servers \subseteq ever[object[o].agent]
KnownPairs == \A a \in Agents : savedPairs[a].servers \subseteq ever[a]
KnownTasks ==
  \A h \in Handlers : task[h].kind \in Kinds \ {"deleted"} => task[h].seen \subseteq ever[task[h].agent]
KnownPolls == \A a \in Agents : poll[a].seen \subseteq ever[a]

Known ==
  /\ KnownAgents /\ KnownEntries /\ KnownObjects /\ KnownPairs /\ KnownTasks /\ KnownPolls
  /\ OnlyServed

(* The controller's steps leave the agents as they are.                    *)
AgentsApart == UNCHANGED <<installed, ever>>

LEMMA ListsKnown ==
  ASSUME TypeOK, KnownObjects
  PROVE  \A a \in Agents : Lists[a] \subseteq ever[a]
<1>1. ASSUME NEW a \in Agents, paired[a] # 0
      PROVE  object[paired[a]].servers \subseteq ever[a]
  <2>1. paired[a] \in 1 .. MaxPairings /\ object[paired[a]].agent = a
    BY <1>1, ConfigurationOK DEF TypeOK
  <2>2. QED BY <2>1, ConfigurationOK DEF KnownObjects
<1>2. QED BY <1>1 DEF Lists

LEMMA SyncKnown ==
  ASSUME AgentsApart, KnownAgents,
         NEW e \in [Ids -> Agents \cup {None}], NEW s \in SUBSET Base,
         NEW l \in [Agents -> SUBSET Ids], NEW b,
         \A id \in Ids : e[id] # None => id \in ever[e[id]],
         \A a \in Agents : l[a] \subseteq ever[a],
         Sync(e, s, l, b)
  PROVE  OnlyServed'
<1>0. \A id \in Ids :
        /\ id \in Active(s) => route'[id] = SourceAgent[id] /\ owner'[id] = None
        /\ e[id] # None /\ id \notin Active(s) => route'[id] = e[id] /\ owner'[id] = None
        /\ route'[id] # None =>
             \/ id \in l[route'[id]]
             \/ id \in Base /\ route'[id] = SourceAgent[id]
             \/ route'[id] = e[id]
  BY Synced
<1>1. ASSUME NEW id \in Ids, route'[id] # None
      PROVE  id \in ever[route'[id]]
  <2>1. route'[id] \in Agents
    BY <1>1, Synced DEF DirectoryTypes
  <2>2. \/ id \in l[route'[id]]
        \/ id \in Base /\ route'[id] = SourceAgent[id]
        \/ route'[id] = e[id]
    BY <1>0, <1>1
  <2>3. QED BY <1>1, <2>1, <2>2 DEF KnownAgents
<1>2. QED BY <1>1 DEF OnlyServed, AgentsApart

LEMMA TasksKnown ==
  ASSUME TypeOK, KnownTasks, UNCHANGED ever, NEW h \in Handlers,
         \/ End(h)
         \/ \E kind, id, a, o : Begin(h, kind, id, a, o)
  PROVE  KnownTasks'
<1>1. ASSUME NEW g \in Handlers, task'[g].kind \in Kinds \ {"deleted"}
      PROVE  task'[g].seen \subseteq ever[task'[g].agent]
  <2>1. CASE g # h
    BY <1>1, <2>1 DEF TypeOK, KnownTasks, End, Begin
  <2>2. CASE g = h
    <3>1. CASE End(h)
      BY <1>1, <2>2, <3>1 DEF TypeOK, End, Idle, Kinds
    <3>2. CASE \E kind, id, a, o : Begin(h, kind, id, a, o)
      <4>1. task'[h].seen = {}
        BY <3>2 DEF TypeOK, Begin
      <4>2. QED BY <2>2, <4>1
    <3>3. QED BY <3>1, <3>2
  <2>3. QED BY <2>1, <2>2
<1>2. QED BY <1>1 DEF KnownTasks

(* Handlers that begin or end change nothing else that Known is about.     *)
LEMMA HandlerKnown ==
  ASSUME TypeOK, Known, AgentsApart,
         \/ \E h \in Handlers : End(h)
         \/ \E h \in Handlers : \E kind, id, a, o : Begin(h, kind, id, a, o)
         \/ UNCHANGED task,
         KnownEntries', KnownObjects', KnownPairs', KnownPolls', OnlyServed'
  PROVE  Known'
<1>1. KnownTasks'
  BY TasksKnown DEF Known, KnownTasks, AgentsApart
<1>2. KnownAgents'
  BY DEF Known, KnownAgents, AgentsApart
<1>3. QED BY <1>1, <1>2 DEF Known

(* Parts that a step leaves alone.                                         *)
LEMMA EntriesKnown == ASSUME KnownEntries, UNCHANGED ever, UNCHANGED registry PROVE KnownEntries'
BY DEF KnownEntries, registry
LEMMA PairingKnown ==
  ASSUME KnownObjects, KnownPairs, UNCHANGED ever, UNCHANGED pairing
  PROVE  KnownObjects' /\ KnownPairs'
BY DEF KnownObjects, KnownPairs, pairing
LEMMA PollsKnown == ASSUME KnownPolls, UNCHANGED ever, UNCHANGED poll PROVE KnownPolls'
BY DEF KnownPolls
LEMMA RouteKnown == ASSUME OnlyServed, UNCHANGED ever, UNCHANGED directory PROVE OnlyServed'
BY DEF OnlyServed, directory

LEMMA RegistryKnown ==
  ASSUME TypeOK, Known, AgentsApart, UNCHANGED pairing, UNCHANGED poll,
         (\E h \in Handlers : End(h)) \/ UNCHANGED task,
         NEW e \in [Ids -> Agents \cup {None}],
         \A id \in Ids : e[id] # None => id \in ever[e[id]],
         \/ SaveRegistry(e, suppressed) /\ Sync(e, suppressed, Lists, before)
         \/ UNCHANGED registry /\ UNCHANGED directory
  PROVE  Known'
<1>1. KnownObjects' /\ KnownPairs' /\ KnownPolls'
  BY PairingKnown, PollsKnown DEF Known, AgentsApart
<1>2. CASE SaveRegistry(e, suppressed) /\ Sync(e, suppressed, Lists, before)
  <2>1. suppressed \in SUBSET Base /\ Lists \in [Agents -> SUBSET Ids]
    BY ListsType, Parts DEF TypeOK
  <2>2. \A a \in Agents : Lists[a] \subseteq ever[a]
    BY ListsKnown DEF Known
  <2>3. OnlyServed'
    BY <1>2, <2>1, <2>2, SyncKnown DEF Known
  <2>4. KnownEntries'
    BY <1>2 DEF KnownEntries, SaveRegistry, AgentsApart
  <2>5. QED BY <1>1, <2>3, <2>4, HandlerKnown
<1>3. CASE UNCHANGED registry /\ UNCHANGED directory
  BY <1>1, <1>3, EntriesKnown, RouteKnown, HandlerKnown DEF Known, AgentsApart
<1>4. QED BY <1>2, <1>3

LEMMA RegistrationKnown ==
  ASSUME Typed, Known,
         \/ \E h \in Handlers : RegisterEnds(h) \/ UpdateEnds(h)
         \/ \E id \in Ids : Rename(id) \/ Remove(id)
  PROVE  Known'
<1>1. /\ entries \in [Ids -> Agents \cup {None}] /\ TypeOK
      /\ \A id \in Ids : entries[id] # None => id \in ever[entries[id]]
  BY DEF Typed, TypeOK, Known, KnownEntries
<1>2. AgentsApart /\ UNCHANGED pairing /\ UNCHANGED poll
  BY DEF RegisterEnds, UpdateEnds, Rename, Remove, AgentsApart, agentSide
<1>3. ASSUME NEW h \in Handlers, RegisterEnds(h)
      PROVE  Known'
  <2> DEFINE t == task[h]
             e == [entries EXCEPT ![t.id] = t.agent]
  <2>1. t \in Task /\ End(h)
    BY <1>3, ReadyType, Parts DEF Typed, RegisterEnds, Ready, Kinds
  <2>2. CASE Confirmed(t) /\ SaveRegistry(e, suppressed) /\ Sync(e, suppressed, Lists, before)
    <3>1. e \in [Ids -> Agents \cup {None}]
      BY <1>1, <2>1 DEF Task
    <3>2. t.seen \subseteq ever[t.agent] /\ t.id \in t.seen
      BY <1>3, <2>2 DEF Known, KnownTasks, RegisterEnds, Ready, Kinds, Confirmed
    <3>3. \A id \in Ids : e[id] # None => id \in ever[e[id]]
      BY <1>1, <2>1, <3>2 DEF Task
    <3> HIDE DEF e
    <3>4. QED BY <1>1, <1>2, <2>1, <2>2, <3>1, <3>3, RegistryKnown
  <2>3. CASE UNCHANGED registry /\ UNCHANGED directory
    BY <1>1, <1>2, <2>1, <2>3, RegistryKnown
  <2>4. QED BY <1>3, <2>2, <2>3 DEF RegisterEnds, SaveFails, registry, directory
<1>4. ASSUME NEW h \in Handlers, UpdateEnds(h)
      PROVE  Known'
  <2>1. /\ End(h)
        /\ \/ SaveRegistry(entries, suppressed) /\ Sync(entries, suppressed, Lists, before)
           \/ UNCHANGED registry /\ UNCHANGED directory
    BY <1>4 DEF UpdateEnds, Updated, SaveFails, registry, directory
  <2>2. QED BY <1>1, <1>2, <2>1, RegistryKnown
<1>5. ASSUME NEW id \in Ids, Rename(id) \/ Remove(id)
      PROVE  Known'
  <2> DEFINE e == [entries EXCEPT ![id] = None]
  <2>1. /\ UNCHANGED task
        /\ \/ SaveRegistry(entries, suppressed) /\ Sync(entries, suppressed, Lists, before)
           \/ SaveRegistry(e, suppressed) /\ Sync(e, suppressed, Lists, before)
           \/ UNCHANGED registry /\ UNCHANGED directory
    BY <1>5 DEF Rename, Remove, SaveFails, registry, directory
  <2>2. e \in [Ids -> Agents \cup {None}] /\ \A i \in Ids : e[i] # None => i \in ever[e[i]]
    BY <1>1
  <2> HIDE DEF e
  <2>3. QED BY <1>1, <1>2, <2>1, <2>2, RegistryKnown
<1>6. QED BY <1>3, <1>4, <1>5

(* sync_paired_agent: the object gets the agent's own servers.             *)
LEMMA TakeInventoryKnown ==
  ASSUME Typed, Known, AgentsApart, NEW o \in 1 .. created, object[o].agent \in Agents,
         NEW servers \in SUBSET Ids, servers \subseteq ever[object[o].agent], NEW put \in BOOLEAN,
         TakeInventory(o, servers, put)
  PROVE  KnownObjects' /\ KnownPairs' /\ OnlyServed'
<1> DEFINE a == object[o].agent
<1>1. CASE Refused(a, servers)
  <2>1. UNCHANGED pairing /\ UNCHANGED directory
    BY <1>1 DEF TakeInventory, pairing, directory
  <2>2. QED BY <2>1, PairingKnown, RouteKnown DEF Known, AgentsApart
<1>2. CASE ~Refused(a, servers)
  <2>1. /\ object' = [object EXCEPT ![o].servers = servers]
        /\ Sync(entries, suppressed, Listed(a, o, servers), before)
        /\ savedPairs' = OnDisk(paired', [Lists EXCEPT ![a] = servers]) \/ UNCHANGED savedPairs
    BY <1>2 DEF TakeInventory
  <2>2. /\ Lists \in [Agents -> SUBSET Ids]
        /\ \A b \in Agents : Lists[b] \subseteq ever[b]
    BY ListsType, ListsKnown, Parts DEF Typed, Known
  <2>3. KnownObjects'
    <3>1. ASSUME NEW p \in 1 .. MaxPairings, object'[p].agent # None
          PROVE  object'[p].servers \subseteq ever[object'[p].agent]
      <4>1. object[p] \in [agent : Agents \cup {None}, servers : SUBSET Ids]
        BY DEF Typed, TypeOK
      <4>2. CASE p = o
        <5>1. object'[p].agent = a /\ object'[p].servers = servers
          BY <2>1, <4>1, <4>2 DEF Typed, TypeOK
        <5>2. QED BY <5>1
      <4>3. CASE p # o
        <5>1. object'[p] = object[p]
          BY <2>1, <4>3 DEF Typed, TypeOK
        <5>2. QED BY <3>1, <5>1 DEF Known, KnownObjects
      <4>4. QED BY <4>2, <4>3
    <3>2. QED BY <3>1 DEF KnownObjects, AgentsApart
  <2>4. KnownPairs'
    <3>1. \A b \in Agents : [Lists EXCEPT ![a] = servers][b] \subseteq ever[b]
      BY <2>2
    <3>2. QED BY <2>1, <3>1 DEF Known, KnownPairs, OnDisk, Unpaired, AgentsApart
  <2>5. OnlyServed'
    <3>1. /\ Listed(a, o, servers) \in [Agents -> SUBSET Ids]
          /\ \A b \in Agents : Listed(a, o, servers)[b] \subseteq ever[b]
      BY <2>2 DEF Listed
    <3>2. /\ entries \in [Ids -> Agents \cup {None}] /\ suppressed \in SUBSET Base
          /\ \A id \in Ids : entries[id] # None => id \in ever[entries[id]]
      BY DEF Typed, TypeOK, Known, KnownEntries
    <3>3. QED BY <2>1, <3>1, <3>2, SyncKnown DEF Known
  <2>6. QED BY <2>3, <2>4, <2>5
<1>3. QED BY <1>1, <1>2

LEMMA InventoryKnown ==
  ASSUME Typed, Known,
         (\E h \in Handlers : InstallKnown(h)) \/ (\E a \in Agents : RefreshEnds(a))
  PROVE  Known'
<1>1. ASSUME NEW h \in Handlers, InstallKnown(h)
      PROVE  Known'
  <2> DEFINE o == task[h].object
  <2>1. task[h] \in Task
    BY <1>1, ReadyType, Parts DEF Typed, InstallKnown, Ready, Kinds
  <2>2. /\ o \in 1 .. created /\ object[o].agent \in Agents /\ task[h].seen \in SUBSET Ids
        /\ task[h].seen \subseteq ever[object[o].agent]
    BY <1>1, <2>1 DEF Typed, References, Known, KnownTasks, InstallKnown, Ready, Task, Kinds
  <2>3. AgentsApart /\ UNCHANGED registry /\ UNCHANGED poll /\ End(h)
    BY <1>1 DEF InstallKnown, AgentsApart, agentSide
  <2>4. KnownObjects' /\ KnownPairs' /\ OnlyServed'
    BY <1>1, <2>2, <2>3, TakeInventoryKnown DEF InstallKnown
  <2>5. QED
    BY <2>3, <2>4, HandlerKnown, EntriesKnown, PollsKnown DEF Typed, Known, AgentsApart
<1>2. ASSUME NEW a \in Agents, RefreshEnds(a)
      PROVE  Known'
  <2> DEFINE o == poll[a].object
  <2>1. /\ o \in 1 .. created /\ object[o].agent = a /\ poll[a].seen \in SUBSET Ids
        /\ poll[a].seen \subseteq ever[a]
    BY <1>2, ConfigurationOK DEF Typed, TypeOK, References, RefreshEnds, Polls, Quiet, Known, KnownPolls
  <2>2. AgentsApart /\ UNCHANGED registry /\ UNCHANGED task
    BY <1>2 DEF RefreshEnds, AgentsApart, agentSide
  <2>3. \E put \in BOOLEAN : TakeInventory(o, poll[a].seen, put)
    BY <1>2 DEF RefreshEnds
  <2>4. KnownObjects' /\ KnownPairs' /\ OnlyServed'
    BY <2>1, <2>2, <2>3, TakeInventoryKnown
  <2>5. KnownPolls'
    BY <1>2, <2>2 DEF Typed, TypeOK, Known, KnownPolls, RefreshEnds, Quiet, AgentsApart
  <2>6. KnownTasks' /\ KnownAgents' /\ KnownEntries'
    BY <2>2, EntriesKnown DEF Known, KnownTasks, KnownAgents, AgentsApart
  <2>7. QED BY <2>4, <2>5, <2>6 DEF Known
<1>3. QED BY <1>1, <1>2

LEMMA PairEndsKnown ==
  ASSUME Typed, Known, NEW h \in Handlers, PairEnds(h)
  PROVE  Known'
<1> DEFINE a == task[h].agent
           o == created + 1
           new == [agent |-> a, servers |-> task[h].seen]
           l == [Lists EXCEPT ![a] = task[h].seen]
<1>1. task[h] \in Task
  BY ReadyType, Parts DEF Typed, PairEnds, Ready, Kinds
<1>2. a \in Agents /\ task[h].seen \in SUBSET Ids /\ task[h].seen \subseteq ever[a]
  BY <1>1 DEF Task, Known, KnownTasks, PairEnds, Ready, Kinds
<1>3. AgentsApart /\ UNCHANGED registry /\ UNCHANGED poll /\ End(h)
  BY DEF PairEnds, AgentsApart, agentSide
<1>4. KnownEntries' /\ KnownPolls'
  BY <1>3, EntriesKnown, PollsKnown DEF Known, AgentsApart
<1>5. CASE UNCHANGED pairing /\ UNCHANGED directory
  BY <1>3, <1>4, <1>5, PairingKnown, RouteKnown, HandlerKnown DEF Typed, Known, AgentsApart
<1>6. CASE /\ object' = [object EXCEPT ![o] = new]
           /\ savedPairs' = OnDisk(paired', l) \/ UNCHANGED savedPairs
           /\ \/ Sync(entries, suppressed, l, before')
              \/ Sync(entries, suppressed, Lists, before)
  <2>1. /\ Lists \in [Agents -> SUBSET Ids]
        /\ \A b \in Agents : Lists[b] \subseteq ever[b]
    BY ListsType, ListsKnown, Parts DEF Typed, Known
  <2>2. l \in [Agents -> SUBSET Ids] /\ \A b \in Agents : l[b] \subseteq ever[b]
    BY <1>2, <2>1
  <2>3. KnownObjects'
    <3>1. ASSUME NEW p \in 1 .. MaxPairings, object'[p].agent # None
          PROVE  object'[p].servers \subseteq ever[object'[p].agent]
      BY <1>2, <1>6, <3>1 DEF Typed, TypeOK, Known, KnownObjects
    <3>2. QED BY <1>3, <3>1 DEF KnownObjects, AgentsApart
  <2>4. KnownPairs'
    BY <1>3, <1>6, <2>2 DEF Known, KnownPairs, OnDisk, Unpaired, AgentsApart
  <2>5. /\ entries \in [Ids -> Agents \cup {None}] /\ suppressed \in SUBSET Base
        /\ \A id \in Ids : entries[id] # None => id \in ever[entries[id]]
    BY DEF Typed, TypeOK, Known, KnownEntries
  <2> HIDE DEF l
  <2>6. OnlyServed'
    <3>1. CASE Sync(entries, suppressed, l, before')
      BY <1>3, <2>2, <2>5, <3>1, SyncKnown DEF Known
    <3>2. CASE Sync(entries, suppressed, Lists, before)
      BY <1>3, <2>1, <2>5, <3>2, SyncKnown DEF Known
    <3>3. QED BY <1>6, <3>1, <3>2
  <2>7. QED BY <1>3, <1>4, <2>3, <2>4, <2>6, HandlerKnown DEF Typed
<1>7. QED BY <1>5, <1>6 DEF PairEnds, pairing, directory

LEMMA DeletionKnownKnown ==
  ASSUME Typed, Known, NEW h \in Handlers, DeletionKnown(h)
  PROVE  Known'
<1> DEFINE id == task[h].id
           a == task[h].agent
           servers == Lists[a] \ {id}
           l == [Lists EXCEPT ![a] = servers]
           e == Without(id)
           s == Gone(id)
<1>1. task[h] \in Task
  BY ReadyType, Parts DEF Typed, DeletionKnown, Ready, Kinds
<1>2. AgentsApart /\ UNCHANGED poll /\ End(h) /\ a \in Agents
  BY <1>1 DEF DeletionKnown, AgentsApart, agentSide, Task
<1>3. KnownPolls'
  BY <1>2, PollsKnown DEF Known, AgentsApart
<1>4. CASE UNCHANGED registry /\ UNCHANGED pairing /\ UNCHANGED directory
  BY <1>2, <1>3, <1>4, EntriesKnown, PairingKnown, RouteKnown, HandlerKnown DEF Typed, Known, AgentsApart
<1>5. CASE Forget(id, a)
  <2>1. /\ Lists \in [Agents -> SUBSET Ids]
        /\ \A b \in Agents : Lists[b] \subseteq ever[b]
    BY ListsType, ListsKnown, Parts DEF Typed, Known
  <2>2. l \in [Agents -> SUBSET Ids] /\ \A b \in Agents : l[b] \subseteq ever[b]
    BY <2>1
  <2>3. /\ e \in [Ids -> Agents \cup {None}] /\ s \in SUBSET Base
        /\ \A i \in Ids : e[i] # None => i \in ever[e[i]]
    BY DEF Typed, TypeOK, Known, KnownEntries, Without, Gone
  <2>4. /\ SaveRegistry(e, s)
        /\ Sync(e, s, l, before) \/ UNCHANGED directory
        /\ \/ UNCHANGED pairing
           \/ /\ paired[a] # 0
              /\ object' = [object EXCEPT ![paired[a]].servers = servers]
              /\ savedPairs' = OnDisk(paired, l) \/ UNCHANGED savedPairs
    BY <1>5 DEF Forget
  <2>5. servers \subseteq ever[a]
    BY <1>2, <2>1
  <2> HIDE DEF e, s, servers
  <2>6. KnownEntries'
    BY <1>2, <2>3, <2>4 DEF KnownEntries, SaveRegistry, AgentsApart
  <2>7. OnlyServed'
    <3>1. CASE Sync(e, s, l, before)
      <4> HIDE DEF l
      <4>1. QED BY <1>2, <2>2, <2>3, <3>1, SyncKnown DEF Known
    <3>2. CASE UNCHANGED directory
      BY <1>2, <3>2, RouteKnown DEF Known, AgentsApart
    <3>3. QED BY <2>4, <3>1, <3>2
  <2>8. KnownObjects' /\ KnownPairs'
    <3>1. CASE UNCHANGED pairing
      BY <1>2, <3>1, PairingKnown DEF Known, AgentsApart
    <3>2. CASE /\ paired[a] # 0
               /\ object' = [object EXCEPT ![paired[a]].servers = servers]
               /\ savedPairs' = OnDisk(paired, l) \/ UNCHANGED savedPairs
      <4>1. KnownPairs'
        BY <1>2, <2>2, <3>2 DEF Known, KnownPairs, OnDisk, Unpaired, AgentsApart
      <4>2. paired[a] \in 1 .. MaxPairings /\ object[paired[a]].agent = a
        BY <1>2, <3>2, ConfigurationOK DEF Typed, TypeOK
      <4>3. ASSUME NEW p \in 1 .. MaxPairings, object'[p].agent # None
            PROVE  object'[p].servers \subseteq ever[object'[p].agent]
        <5>1. object[p] \in [agent : Agents \cup {None}, servers : SUBSET Ids]
          BY DEF Typed, TypeOK
        <5>2. CASE p = paired[a]
          <6>1. object'[p].agent = a /\ object'[p].servers = servers
            BY <3>2, <4>2, <5>1, <5>2 DEF Typed, TypeOK
          <6>2. QED BY <2>5, <6>1
        <5>3. CASE p # paired[a]
          <6>1. object'[p] = object[p]
            BY <3>2, <4>2, <5>3 DEF Typed, TypeOK
          <6>2. QED BY <4>3, <6>1 DEF Known, KnownObjects
        <5>4. QED BY <5>2, <5>3
      <4>4. KnownObjects'
        BY <1>2, <4>3 DEF KnownObjects, AgentsApart
      <4>5. QED BY <4>1, <4>4
    <3>3. QED BY <2>4, <3>1, <3>2
  <2>9. QED BY <1>2, <1>3, <2>6, <2>7, <2>8, HandlerKnown DEF Typed
<1>6. QED BY <1>4, <1>5 DEF DeletionKnown, SaveFails, registry, pairing, directory

(* What an agent answers is what it has.                                   *)
LEMMA AnswersKnown ==
  ASSUME Typed, Known,
         \/ \E h \in Handlers : Asked(h)
         \/ \E a \in Agents : RefreshBegins(a) \/ RefreshAnswered(a)
  PROVE  Known'
<1>1. AgentsApart /\ UNCHANGED registry /\ UNCHANGED pairing /\ UNCHANGED directory
  BY DEF Asked, RefreshBegins, RefreshAnswered, AgentsApart, agentSide
<1>2. KnownAgents' /\ KnownEntries' /\ KnownObjects' /\ KnownPairs' /\ OnlyServed'
  BY <1>1, EntriesKnown, PairingKnown, RouteKnown DEF Known, KnownAgents, AgentsApart
<1>3. ASSUME NEW h \in Handlers, Asked(h)
      PROVE  Known'
  <2>1. task[h] \in Task /\ UNCHANGED poll
    BY <1>3, ReadyType, Parts DEF Typed, Asked, Kinds
  <2>2. CASE End(h)
    BY <1>1, <1>2, <2>1, <2>2, HandlerKnown, PollsKnown DEF Typed, Known, AgentsApart
  <2>3. CASE ~End(h)
    <3> DEFINE t == task[h]
               seen == IF t.kind = "deleted" THEN {t.id} \cap {id \in Ids : <<t.agent, id>> \in deleted}
                       ELSE installed[t.agent]
    <3>1. task' = [task EXCEPT ![h].answered = TRUE, ![h].seen = seen]
      BY <1>3, <2>3 DEF Asked
    <3>2. t.kind # "deleted" => seen \subseteq ever[t.agent]
      BY <2>1 DEF Known, KnownAgents, Task
    <3> HIDE DEF seen
    <3>3. task'[h].kind = t.kind /\ task'[h].agent = t.agent /\ task'[h].seen = seen
      BY <2>1, <3>1 DEF Typed, TypeOK, Task
    <3>4. \A g \in Handlers : g # h => task'[g] = task[g]
      BY <3>1 DEF Typed, TypeOK
    <3>5. KnownTasks'
      BY <1>1, <3>2, <3>3, <3>4 DEF Known, KnownTasks, AgentsApart
    <3>6. QED BY <1>1, <1>2, <2>1, <3>5, PollsKnown DEF Known, AgentsApart
  <2>4. QED BY <2>2, <2>3
<1>4. ASSUME NEW a \in Agents, RefreshBegins(a) \/ RefreshAnswered(a)
      PROVE  Known'
  <2>1. KnownTasks'
    BY <1>1, <1>4 DEF Known, KnownTasks, AgentsApart, RefreshBegins, RefreshAnswered
  <2>2. poll[a] \in Polls /\ installed[a] \subseteq ever[a]
    BY DEF Typed, TypeOK, Known, KnownAgents
  <2>3. poll'[a].seen \subseteq ever[a] /\ \A b \in Agents : b # a => poll'[b] = poll[b]
    BY <1>4, <2>2 DEF Typed, TypeOK, Polls, RefreshBegins, RefreshAnswered
  <2>4. KnownPolls'
    BY <1>1, <2>3 DEF Known, KnownPolls, AgentsApart
  <2>5. QED BY <1>2, <2>1, <2>4 DEF Known
<1>5. QED BY <1>3, <1>4

LEMMA RequestsKnown ==
  ASSUME Typed, Known,
         \/ \E h \in Handlers : Served(h)
         \/ \E h \in Handlers, a \in Agents : PairBegins(h, a) \/ InstallPolled(h, a)
         \/ \E h \in Handlers, id \in Ids :
              UpdateBegins(h, id) \/ DeleteBegins(h, id) \/ DeletionPolled(h, id)
         \/ \E h \in Handlers, id \in Ids, a \in Agents :
              RegisterBegins(h, id, a) \/ InstallBegins(h, id, a)
  PROVE  Known'
<1>1. /\ AgentsApart /\ UNCHANGED registry /\ UNCHANGED pairing /\ UNCHANGED directory
      /\ UNCHANGED poll
  BY DEF Served, PairBegins, InstallPolled, UpdateBegins, DeleteBegins, DeletionPolled, RegisterBegins,
     InstallBegins, AgentsApart, agentSide
<1>2. \/ \E h \in Handlers : End(h)
      \/ \E h \in Handlers : \E kind, id, a, o : Begin(h, kind, id, a, o)
  BY DEF Served, PairBegins, InstallPolled, UpdateBegins, DeleteBegins, DeletionPolled, RegisterBegins,
     InstallBegins
<1>3. QED
  BY <1>1, <1>2, EntriesKnown, PairingKnown, RouteKnown, PollsKnown, HandlerKnown
     DEF Typed, Known, AgentsApart

LEMMA JobEndsKnown ==
  ASSUME Typed, Known, NEW j, JobEnds(j)
  PROVE  Known'
<1>1. j.agent \in Agents /\ j.id \in Ids
  BY DEF Typed, TypeOK, JobEnds, Jobs
<1>2. \A a \in Agents : ever[a] \subseteq ever'[a] /\ installed'[a] \subseteq ever'[a]
  <2>1. installed \in [Agents -> SUBSET Ids] /\ ever \in [Agents -> SUBSET Ids]
    BY DEF Typed, TypeOK
  <2>2. \A a \in Agents : installed[a] \subseteq ever[a]
    BY DEF Known, KnownAgents
  <2>3. \/ /\ installed' = [installed EXCEPT ![j.agent] = @ \cup {j.id}]
           /\ ever' = [ever EXCEPT ![j.agent] = @ \cup {j.id}]
        \/ installed' = [installed EXCEPT ![j.agent] = @ \ {j.id}] /\ ever' = ever
        \/ installed' = installed /\ ever' = ever
    BY DEF JobEnds
  <2>4. QED BY <1>1, <2>1, <2>2, <2>3
<1>3. UNCHANGED <<entries, object, savedPairs, task, poll, route>>
  BY DEF JobEnds, registry, pairing, directory
<1>4. KnownAgents'
  BY <1>2, ConfigurationOK DEF Known, KnownAgents
<1>5. KnownEntries' /\ OnlyServed'
  <2>1. ASSUME NEW id \in Ids
        PROVE  /\ entries[id] # None => id \in ever'[entries[id]]
               /\ route[id] # None => id \in ever'[route[id]]
    <3>1. entries[id] \in Agents \cup {None} /\ route[id] \in Agents \cup {None}
      BY DEF Typed, TypeOK
    <3>2. QED BY <1>2, <3>1 DEF Known, KnownEntries, OnlyServed
  <2>2. QED BY <1>3, <2>1 DEF KnownEntries, OnlyServed
<1>6. KnownObjects'
  <2>1. ASSUME NEW o \in 1 .. MaxPairings, object[o].agent # None
        PROVE  object[o].servers \subseteq ever'[object[o].agent]
    <3>1. object[o].agent \in Agents
      BY <2>1 DEF Typed, TypeOK
    <3>2. QED BY <1>2, <2>1, <3>1 DEF Known, KnownObjects
  <2>2. QED BY <1>3, <2>1 DEF KnownObjects
<1>7. KnownPairs' /\ KnownPolls'
  BY <1>2, <1>3 DEF Known, KnownPairs, KnownPolls
<1>8. KnownTasks'
  <2>1. ASSUME NEW h \in Handlers, task[h].kind \in Kinds \ {"deleted"}
        PROVE  task[h].seen \subseteq ever'[task[h].agent]
    <3>1. task[h].agent \in Agents
      BY <2>1, ReadyType, Parts DEF Typed, Task
    <3>2. QED BY <1>2, <2>1, <3>1 DEF Known, KnownTasks
  <2>2. QED BY <1>3, <2>1 DEF KnownTasks
<1>9. QED BY <1>4, <1>5, <1>6, <1>7, <1>8 DEF Known

LEMMA RestartKnown ==
  ASSUME Typed, Registered, Known, Restart
  PROVE  Known'
<1> DEFINE p == [a \in Agents |-> IF savedPairs[a].paired THEN paired[a] ELSE 0]
           l == [a \in Agents |-> savedPairs[a].servers]
           b == {x \in before : p[x[1]] # 0 /\ p[x[2]] # 0}
<1>1. /\ entries' = saved.entries /\ suppressed' = saved.suppressed
      /\ object' = [o \in 1 .. MaxPairings |->
                      IF object[o].agent # None /\ p[object[o].agent] = o
                        THEN [object[o] EXCEPT !.servers = l[object[o].agent]] ELSE object[o]]
      /\ Sync(saved.entries, saved.suppressed, l, b)
      /\ task' = [h \in Handlers |-> Idle]
      /\ poll' = [a \in Agents |-> Quiet]
      /\ UNCHANGED savedPairs /\ AgentsApart
  BY DEF Restart, AgentsApart, agentSide
<1>2. saved.entries = entries /\ saved.suppressed = suppressed
  BY DEF Registered, MemoryAsSaved
<1>3. l \in [Agents -> SUBSET Ids] /\ \A a \in Agents : l[a] \subseteq ever[a]
  BY DEF Typed, TypeOK, Known, KnownPairs
<1> HIDE DEF p, l, b
<1>4. KnownEntries' /\ KnownPairs' /\ KnownAgents'
  BY <1>1, <1>2 DEF Known, KnownEntries, KnownPairs, KnownAgents, AgentsApart
<1>5. KnownTasks' /\ KnownPolls'
  BY <1>1 DEF KnownTasks, KnownPolls, Idle, Quiet, Kinds
<1>6. OnlyServed'
  <2>1. /\ entries \in [Ids -> Agents \cup {None}] /\ suppressed \in SUBSET Base
        /\ \A id \in Ids : entries[id] # None => id \in ever[entries[id]]
    BY DEF Typed, TypeOK, Known, KnownEntries
  <2>2. Sync(entries, suppressed, l, b)
    BY <1>1, <1>2
  <2>3. QED BY <1>1, <1>3, <2>1, <2>2, SyncKnown DEF Known
<1>7. KnownObjects'
  <2>1. ASSUME NEW o \in 1 .. MaxPairings, object'[o].agent # None
        PROVE  object'[o].servers \subseteq ever[object'[o].agent]
    <3>1. object[o] \in [agent : Agents \cup {None}, servers : SUBSET Ids]
      BY DEF Typed, TypeOK
    <3>2. CASE object[o].agent # None /\ p[object[o].agent] = o
      <4>1. object'[o] = [object[o] EXCEPT !.servers = l[object[o].agent]]
        BY <1>1, <3>2
      <4>2. object'[o].agent = object[o].agent /\ object'[o].servers = l[object[o].agent]
        BY <3>1, <4>1
      <4>3. object[o].agent \in Agents
        BY <3>1, <3>2
      <4>4. QED BY <1>3, <4>2, <4>3
    <3>3. CASE ~(object[o].agent # None /\ p[object[o].agent] = o)
      <4>1. object'[o] = object[o]
        BY <1>1, <3>3
      <4>2. QED BY <2>1, <4>1 DEF Known, KnownObjects
    <3>4. QED BY <3>2, <3>3
  <2>2. QED BY <1>1, <2>1 DEF KnownObjects, AgentsApart
<1>8. QED BY <1>4, <1>5, <1>6, <1>7 DEF Known

LEMMA KnownInit == Init => Known
<1> SUFFICES ASSUME Init PROVE Known
  OBVIOUS
<1>1. installed \in [Agents -> SUBSET Ids] /\ \A id \in Base : id \in installed[SourceAgent[id]]
  BY ConfigurationOK DEF Init
<1>2. KnownAgents /\ KnownEntries /\ OnlyServed
  BY <1>1, ConfigurationOK DEF Init, KnownAgents, KnownEntries, OnlyServed
<1>3. KnownObjects /\ KnownPairs /\ KnownTasks /\ KnownPolls
  BY DEF Init, KnownObjects, KnownPairs, KnownTasks, KnownPolls, Unpaired, Idle, Quiet, Kinds
<1>4. QED BY <1>2, <1>3 DEF Known

LEMMA KnownNext ==
  ASSUME Typed, Registered, Known, [Next]_vars
  PROVE  Known'
<1>1. CASE Next
  BY <1>1, RegistrationKnown, InventoryKnown, PairEndsKnown, DeletionKnownKnown, AnswersKnown,
     RequestsKnown, JobEndsKnown, RestartKnown DEF Next, Handled
<1>2. CASE UNCHANGED vars
  BY <1>2, EntriesKnown, PairingKnown, RouteKnown, PollsKnown, HandlerKnown
     DEF vars, agentSide, Typed, Known, AgentsApart
<1>3. QED BY <1>1, <1>2

(* Requests for a server go only to an agent that has it or had it,        *)
(* however late and in whatever order answers are applied.                 *)
THEOREM RoutesCorrect == Spec => []OnlyServed
<1>1. Init => Typed /\ Named /\ Registered /\ Known
  BY TypeInit, RegisteredInit, KnownInit DEF Init, Named, Idle, Kinds
<1>2. Typed /\ Named /\ Registered /\ Known /\ [Next]_vars
        => Typed' /\ Named' /\ Registered' /\ Known'
  BY RegisteredStep, KnownNext
<1>3. QED BY <1>1, <1>2, PTL DEF Spec, Known

-----------------------------------------------------------------------------
(* No server is taken over.                                                *)

(* The order of the dictionary is one of paired agents, and what is on the *)
(* disk about an agent that is not paired there is nothing.                *)
Ordered ==
  \A x, y \in Agents : <<x, y>> \in before =>
    paired[x] # 0 /\ paired[y] # 0 /\ <<y, x>> \notin before

DiskOK ==
  \A a \in Agents :
    /\ savedPairs[a].paired => paired[a] # 0
    /\ ~savedPairs[a].paired => savedPairs[a].servers = {}

(* What answers and pairings may be handled with: an object that no later  *)
(* pairing replaced.                                                       *)
Current ==
  /\ \A h \in Handlers : Ready(h, "installed") => paired[task[h].agent] = task[h].object
  /\ \A a \in Agents : poll[a].answered => paired[a] = poll[a].object

(* The write that follows a pairing or a deletion fails: the directory is   *)
(* left as it was, and the objects are not.                                *)
LostWrite == \E h \in Handlers : (PairEnds(h) \/ DeletionKnown(h)) /\ Fault

(* An inventory is taken for an agent from what it answered.               *)
Taken(o, servers, put) ==
  /\ object[o].agent \in Agents
  /\ TakeInventory(o, servers, put)
  /\ UNCHANGED registry
  /\ Current => paired[object[o].agent] = o

LEMMA InventoryTaken ==
  ASSUME Typed, (\E a \in Agents : RefreshEnds(a)) \/ (\E h \in Handlers : InstallKnown(h))
  PROVE  \E o \in 1 .. created, servers \in SUBSET Ids, put \in BOOLEAN : Taken(o, servers, put)
<1>1. ASSUME NEW a \in Agents, RefreshEnds(a)
      PROVE  \E o \in 1 .. created, servers \in SUBSET Ids, put \in BOOLEAN : Taken(o, servers, put)
  <2> DEFINE o == poll[a].object
             put == object[o].servers # poll[a].seen
  <2>1. o \in 1 .. created /\ object[o].agent = a /\ poll[a].seen \in SUBSET Ids
    BY <1>1, ConfigurationOK DEF Typed, TypeOK, References, RefreshEnds, Polls, Quiet
  <2>2. TakeInventory(o, poll[a].seen, put) /\ UNCHANGED registry
    BY <1>1 DEF RefreshEnds
  <2>3. Current => paired[a] = o
    BY <1>1 DEF Current, RefreshEnds
  <2>4. put \in BOOLEAN
    OBVIOUS
  <2> HIDE DEF o, put
  <2>5. Taken(o, poll[a].seen, put)
    BY <2>1, <2>2, <2>3 DEF Taken
  <2>6. QED BY <2>1, <2>4, <2>5
<1>2. ASSUME NEW h \in Handlers, InstallKnown(h)
      PROVE  \E o \in 1 .. created, servers \in SUBSET Ids, put \in BOOLEAN : Taken(o, servers, put)
  <2> DEFINE o == task[h].object
  <2>1. task[h] \in Task
    BY <1>2, ReadyType, Parts DEF Typed, InstallKnown, Ready, Kinds
  <2>2. o \in 1 .. created /\ object[o].agent = task[h].agent /\ task[h].agent \in Agents
        /\ task[h].seen \in SUBSET Ids
    BY <1>2, <2>1 DEF Typed, References, InstallKnown, Ready, Task
  <2>3. TakeInventory(o, task[h].seen, TRUE) /\ UNCHANGED registry
    BY <1>2 DEF InstallKnown
  <2>4. Current => paired[task[h].agent] = o
    BY <1>2 DEF Current, InstallKnown
  <2>5. Taken(o, task[h].seen, TRUE)
    BY <2>2, <2>3, <2>4 DEF Taken
  <2>6. QED BY <2>2, <2>5
<1>3. QED BY <1>1, <1>2

(* The ways the directory, the registries or the lists change.             *)
Settled == UNCHANGED registry /\ UNCHANGED pairing /\ UNCHANGED directory
Resync ==
  /\ Sync(entries', suppressed', Lists, before)
  /\ entries' \in [Ids -> Agents \cup {None}] /\ suppressed' \in SUBSET Base
  /\ UNCHANGED pairing

LEMMA SavedResync ==
  ASSUME NEW e \in [Ids -> Agents \cup {None}], NEW s \in SUBSET Base,
         SaveRegistry(e, s), Sync(e, s, Lists, before), UNCHANGED pairing
  PROVE  Resync
BY DEF SaveRegistry, Resync

LEMMA RegistryResyncs ==
  ASSUME Typed,
         \/ \E h \in Handlers : RegisterEnds(h) \/ UpdateEnds(h)
         \/ \E id \in Ids : Rename(id) \/ Remove(id)
  PROVE  Settled \/ Resync
<1>0. entries \in [Ids -> Agents \cup {None}] /\ suppressed \in SUBSET Base
  BY DEF Typed, TypeOK
<1>1. ASSUME NEW h \in Handlers, RegisterEnds(h)
      PROVE  Settled \/ Resync
  <2> DEFINE e == [entries EXCEPT ![task[h].id] = task[h].agent]
  <2>1. task[h] \in Task
    BY <1>1, ReadyType, Parts DEF Typed, RegisterEnds, Ready, Kinds
  <2>2. e \in [Ids -> Agents \cup {None}]
    BY <1>0, <2>1 DEF Task
  <2>3. /\ \/ SaveRegistry(e, suppressed) /\ Sync(e, suppressed, Lists, before)
           \/ SaveFails(e, suppressed) /\ UNCHANGED directory
           \/ UNCHANGED <<registry, directory>>
        /\ UNCHANGED pairing
    BY <1>1 DEF RegisterEnds
  <2> HIDE DEF e
  <2>4. QED BY <1>0, <2>2, <2>3, SavedResync DEF SaveFails, Settled
<1>2. CASE (\E h \in Handlers : UpdateEnds(h)) \/ (\E id \in Ids : Rename(id))
  <2>1. /\ \/ SaveRegistry(entries, suppressed) /\ Sync(entries, suppressed, Lists, before)
           \/ SaveFails(entries, suppressed) /\ UNCHANGED directory
           \/ UNCHANGED <<registry, directory>>
        /\ UNCHANGED pairing
    BY <1>2 DEF UpdateEnds, Rename, Updated
  <2>2. QED BY <1>0, <2>1, SavedResync DEF SaveFails, Settled
<1>3. ASSUME NEW id \in Ids, Remove(id)
      PROVE  Settled \/ Resync
  <2> DEFINE e == [entries EXCEPT ![id] = None]
  <2>1. /\ \/ SaveRegistry(e, suppressed) /\ Sync(e, suppressed, Lists, before)
           \/ SaveFails(e, suppressed) /\ UNCHANGED directory
        /\ UNCHANGED pairing
    BY <1>3 DEF Remove
  <2>2. e \in [Ids -> Agents \cup {None}]
    BY <1>0
  <2> HIDE DEF e
  <2>3. QED BY <1>0, <2>1, <2>2, SavedResync DEF SaveFails, Settled
<1>4. QED BY <1>1, <1>2, <1>3

LEMMA DirectorySteps ==
  ASSUME Typed, [Next]_vars
  PROVE  \/ Settled \/ Resync
         \/ \E o \in 1 .. created, servers \in SUBSET Ids, put \in BOOLEAN : Taken(o, servers, put)
         \/ \E h \in Handlers : PairEnds(h)
         \/ \E h \in Handlers : DeletionKnown(h)
         \/ Restart
<1>1. CASE UNCHANGED vars
  BY <1>1 DEF vars, registry, pairing, directory, Settled
<1>2. CASE \/ \E h \in Handlers : Asked(h) \/ Served(h)
           \/ \E h \in Handlers, a \in Agents : PairBegins(h, a) \/ InstallPolled(h, a)
           \/ \E h \in Handlers, id \in Ids :
                UpdateBegins(h, id) \/ DeleteBegins(h, id) \/ DeletionPolled(h, id)
           \/ \E h \in Handlers, id \in Ids, a \in Agents :
                RegisterBegins(h, id, a) \/ InstallBegins(h, id, a)
           \/ \E a \in Agents : RefreshBegins(a) \/ RefreshAnswered(a)
           \/ \E j \in working : JobEnds(j)
  BY <1>2 DEF Asked, Served, PairBegins, InstallPolled, UpdateBegins, DeleteBegins, DeletionPolled,
     RegisterBegins, InstallBegins, RefreshBegins, RefreshAnswered, JobEnds, Settled
<1>3. CASE \/ \E h \in Handlers : RegisterEnds(h) \/ UpdateEnds(h)
           \/ \E id \in Ids : Rename(id) \/ Remove(id)
  BY <1>3, RegistryResyncs
<1>4. CASE (\E a \in Agents : RefreshEnds(a)) \/ (\E h \in Handlers : InstallKnown(h))
  BY <1>4, InventoryTaken
<1>5. QED BY <1>1, <1>2, <1>3, <1>4 DEF Next, Handled

(* What each of these steps makes of the lists, the order and the disk.    *)
LEMMA ListIs ==
  ASSUME NEW a \in Agents
  PROVE  Lists[a] = IF paired[a] = 0 THEN {} ELSE object[paired[a]].servers
BY DEF Lists

LEMMA ListIsNext ==
  ASSUME NEW a \in Agents
  PROVE  Lists'[a] = IF paired'[a] = 0 THEN {} ELSE object'[paired'[a]].servers
BY DEF Lists

LEMMA PairedRange ==
  ASSUME Typed, NEW a \in Agents, paired[a] # 0
  PROVE  /\ paired[a] \in 1 .. created /\ paired[a] \in 1 .. MaxPairings
         /\ object[paired[a]].agent = a
BY ConfigurationOK DEF Typed, TypeOK

LEMMA ListsTaken ==
  ASSUME Typed, NEW o \in 1 .. created, NEW servers \in SUBSET Ids, NEW put \in BOOLEAN,
         Taken(o, servers, put), ~Refused(object[o].agent, servers)
  PROVE  LET c == object[o].agent IN
         /\ Sync(entries, suppressed, Listed(c, o, servers), before)
         /\ \A d \in Agents : d # c => Lists'[d] = Lists[d]
         /\ paired[c] = o => Lists'[c] = servers
         /\ \A d \in Agents : paired[d] # 0 => paired'[d] # 0
         /\ before' = before
         /\ savedPairs' = savedPairs \/ \E l : savedPairs' = OnDisk(paired', l)
<1> DEFINE c == object[o].agent
<1>1. /\ c \in Agents
      /\ o \in 1 .. MaxPairings /\ o # 0
      /\ object \in [1 .. MaxPairings -> [agent : Agents \cup {None}, servers : SUBSET Ids]]
      /\ paired \in [Agents -> 0 .. created]
  BY ConfigurationOK DEF Typed, TypeOK, Taken
<1>2. /\ object' = [object EXCEPT ![o].servers = servers]
      /\ Sync(entries, suppressed, Listed(c, o, servers), before)
      /\ before' = before
      /\ \/ paired' = [paired EXCEPT ![c] = o] /\ put
         \/ paired' = paired
      /\ savedPairs' = savedPairs \/ savedPairs' = OnDisk(paired', [Lists EXCEPT ![c] = servers])
  BY DEF Taken, TakeInventory
<1>3. object'[o].servers = servers
  BY <1>1, <1>2
<1>4. \A p \in 1 .. MaxPairings : p # o => object'[p] = object[p]
  BY <1>1, <1>2
<1>5. ASSUME NEW d \in Agents, d # c
      PROVE  Lists'[d] = Lists[d]
  <2>1. paired'[d] = paired[d]
    BY <1>1, <1>2, <1>5
  <2>2. CASE paired[d] = 0
    BY <2>1, <2>2, ListIs, ListIsNext
  <2>3. CASE paired[d] # 0
    <3>1. paired[d] \in 1 .. MaxPairings /\ object[paired[d]].agent = d
      BY <2>3, PairedRange
    <3>2. paired[d] # o
      BY <1>5, <3>1
    <3>3. object'[paired[d]] = object[paired[d]]
      BY <1>4, <3>1, <3>2
    <3>4. QED BY <2>1, <2>3, <3>3, ListIs, ListIsNext
  <2>4. QED BY <2>2, <2>3
<1>6. ASSUME paired[c] = o
      PROVE  Lists'[c] = servers
  <2>1. paired'[c] = o
    BY <1>1, <1>2, <1>6
  <2>2. QED BY <1>1, <1>3, <2>1, ListIsNext
<1>7. \A d \in Agents : paired[d] # 0 => paired'[d] # 0
  BY <1>1, <1>2
<1>8. QED BY <1>2, <1>5, <1>6, <1>7

(* pair_agent: either nothing, or the agent gets a new object.             *)
LEMMA ListsPaired ==
  ASSUME Typed, NEW h \in Handlers, PairEnds(h)
  PROVE  LET c == task[h].agent
             seen == task[h].seen
         IN
         \/ Settled
         \/ /\ c \in Agents /\ seen \in SUBSET Ids /\ ~Refused(c, seen)
            /\ UNCHANGED registry
            /\ \/ Sync(entries, suppressed, [Lists EXCEPT ![c] = seen], before')
               \/ Fault /\ Sync(entries, suppressed, Lists, before)
            /\ \A d \in Agents : d # c => Lists'[d] = Lists[d]
            /\ Lists'[c] = seen
            /\ paired'[c] # 0 /\ \A d \in Agents : paired[d] # 0 => paired'[d] # 0
            /\ before' = IF paired[c] # 0 THEN before
                         ELSE before \cup {<<b, c>> : b \in {b \in Agents : paired[b] # 0}}
            /\ savedPairs' = savedPairs \/ \E l : savedPairs' = OnDisk(paired', l)
<1> DEFINE c == task[h].agent
           seen == task[h].seen
           o == created + 1
           new == [agent |-> c, servers |-> seen]
<1>1. task[h] \in Task
  BY ReadyType, Parts DEF Typed, PairEnds, Ready, Kinds
<1>2. c \in Agents /\ seen \in SUBSET Ids
  BY <1>1 DEF Task
<1>3. UNCHANGED registry
  BY DEF PairEnds
<1>4. CASE UNCHANGED <<pairing, directory>>
  BY <1>3, <1>4 DEF Settled
<1>5. CASE /\ ~Refused(c, seen) /\ created < MaxPairings
           /\ object' = [object EXCEPT ![o] = new]
           /\ Put(c, o)
           /\ \/ /\ savedPairs' = OnDisk(paired', [Lists EXCEPT ![c] = seen])
                 /\ Sync(entries, suppressed, [Lists EXCEPT ![c] = seen], before')
              \/ Fault /\ UNCHANGED savedPairs /\ Sync(entries, suppressed, Lists, before)
  <2>1. /\ created \in Nat /\ o \in 1 .. MaxPairings /\ o # 0
        /\ \A p \in 1 .. created : p \in 1 .. MaxPairings /\ p # o
    BY <1>5, ConfigurationOK DEF Typed, TypeOK
  <2>2. /\ paired' = [paired EXCEPT ![c] = o]
        /\ before' = IF paired[c] # 0 THEN before
                     ELSE before \cup {<<b, c>> : b \in {b \in Agents : paired[b] # 0}}
    BY <1>5 DEF Put
  <2>3. paired'[c] = o /\ \A d \in Agents : d # c => paired'[d] = paired[d]
    BY <1>2, <2>2 DEF Typed, TypeOK
  <2>4. /\ object'[o] = new
        /\ \A p \in 1 .. created : object'[p] = object[p]
    BY <1>5, <2>1 DEF Typed, TypeOK
  <2>5. Lists'[c] = seen
    BY <1>2, <2>1, <2>3, <2>4, ListIsNext
  <2>6. ASSUME NEW d \in Agents, d # c
        PROVE  Lists'[d] = Lists[d]
    <3>1. CASE paired[d] = 0
      BY <2>3, <2>6, <3>1, ListIs, ListIsNext
    <3>2. CASE paired[d] # 0
      <4>1. object'[paired[d]] = object[paired[d]]
        BY <2>4, <3>2, PairedRange
      <4>2. QED BY <2>3, <2>6, <3>2, <4>1, ListIs, ListIsNext
    <3>3. QED BY <3>1, <3>2
  <2>7. \A d \in Agents : paired[d] # 0 => paired'[d] # 0
    BY <2>1, <2>3
  <2>8. savedPairs' = savedPairs \/ \E l : savedPairs' = OnDisk(paired', l)
    BY <1>5
  <2>9. \/ Sync(entries, suppressed, [Lists EXCEPT ![c] = seen], before')
        \/ Fault /\ Sync(entries, suppressed, Lists, before)
    BY <1>5
  <2>10. paired'[c] # 0
    BY <2>1, <2>3
  <2>11. ~Refused(c, seen)
    BY <1>5
  <2> HIDE DEF c, seen, o, new
  <2>12. QED BY <1>2, <1>3, <2>2, <2>5, <2>6, <2>7, <2>8, <2>9, <2>10, <2>11 DEF c, seen
<1>6. QED BY <1>4, <1>5 DEF PairEnds

(* A deletion takes the server out of the list of its agent.               *)
LEMMA ListsForgotten ==
  ASSUME Typed, Named, NEW h \in Handlers, DeletionKnown(h)
  PROVE  LET id == task[h].id
             c  == task[h].agent
             l  == [Lists EXCEPT ![c] = Lists[c] \ {id}]
         IN
         \/ Settled
         \/ /\ c \in Agents
            /\ \/ Sync(entries', suppressed', l, before)
               \/ UNCHANGED directory /\ Fault
            /\ entries' \in [Ids -> Agents \cup {None}] /\ suppressed' \in SUBSET Base
            /\ Lists' = l
            /\ paired' = paired /\ before' = before
            /\ savedPairs' = savedPairs \/ savedPairs' = OnDisk(paired, l)
<1> DEFINE id == task[h].id
           c  == task[h].agent
           servers == Lists[c] \ {id}
           l  == [Lists EXCEPT ![c] = servers]
<1>1. task[h] \in Task
  BY ReadyType, Parts DEF Typed, DeletionKnown, Ready, Kinds
<1>2. c \in Agents /\ id \in Ids
  BY <1>1 DEF Task, Named, DeletionKnown, Ready, Kinds
<1>3. CASE SaveFails(Without(id), Gone(id)) /\ UNCHANGED <<pairing, directory>>
  BY <1>3 DEF SaveFails, Settled
<1>4. CASE UNCHANGED registry /\ UNCHANGED <<pairing, directory>>
  BY <1>4 DEF Settled
<1>5. CASE Forget(id, c)
  <2>1. entries' = Without(id) /\ suppressed' = Gone(id)
    BY <1>5 DEF Forget, SaveRegistry
  <2>2. entries' \in [Ids -> Agents \cup {None}] /\ suppressed' \in SUBSET Base
    BY <1>2, <2>1 DEF Typed, TypeOK, Without, Gone
  <2>3. Lists \in [Agents -> SUBSET Ids]
    BY ListsType, Parts DEF Typed
  <2>4. CASE paired[c] = 0
    <3>1. Sync(Without(id), Gone(id), l, before) /\ UNCHANGED pairing
      BY <1>5, <2>4 DEF Forget
    <3>2. Lists[c] = {}
      BY <1>2, <2>4, ListIs
    <3>3. l = Lists /\ Lists' = Lists
      BY <2>3, <3>1, <3>2 DEF pairing, Lists
    <3>4. QED BY <1>2, <2>1, <2>2, <3>1, <3>3 DEF pairing
  <2>5. CASE paired[c] # 0
    <3>1. /\ object' = [object EXCEPT ![paired[c]].servers = servers]
          /\ paired' = paired /\ before' = before
          /\ \/ savedPairs' = OnDisk(paired, l) /\ Sync(Without(id), Gone(id), l, before)
             \/ Fault /\ UNCHANGED <<savedPairs, directory>>
      BY <1>5, <2>5 DEF Forget
    <3>2. paired[c] \in 1 .. MaxPairings /\ object[paired[c]].agent = c
      BY <1>2, <2>5, PairedRange
    <3>3. /\ object'[paired[c]].servers = servers
          /\ \A p \in 1 .. MaxPairings : p # paired[c] => object'[p] = object[p]
      BY <3>1, <3>2 DEF Typed, TypeOK
    <3>4. ASSUME NEW d \in Agents
          PROVE  Lists'[d] = l[d]
      <4>1. CASE d = c
        BY <2>3, <2>5, <3>1, <3>3, <4>1, ListIsNext
      <4>2. CASE d # c /\ paired[d] = 0
        BY <2>3, <3>1, <4>2, ListIs, ListIsNext
      <4>3. CASE d # c /\ paired[d] # 0
        <5>1. paired[d] \in 1 .. MaxPairings /\ paired[d] # paired[c]
          BY <1>2, <3>2, <4>3, PairedRange
        <5>2. QED BY <2>3, <3>1, <3>3, <4>3, <5>1, ListIs, ListIsNext
      <4>4. QED BY <4>1, <4>2, <4>3
    <3>5. l \in [Agents -> SUBSET Ids]
      BY <2>3
    <3>6. Lists' = [a \in Agents |-> Lists'[a]]
      BY DEF Lists
    <3>7. Lists' = l
      <4> HIDE DEF l
      <4>1. QED BY <3>4, <3>5, <3>6
    <3>8. QED BY <1>2, <2>1, <2>2, <3>1, <3>7
  <2>6. QED BY <2>4, <2>5
<1>6. QED BY <1>3, <1>4, <1>5 DEF DeletionKnown

(* What is read from the disk is what the lists and the order are.         *)
LEMMA ListsRestarted ==
  ASSUME Typed, Registered, Ordered, DiskOK, Restart
  PROVE  LET l == [a \in Agents |-> savedPairs[a].servers] IN
         /\ UNCHANGED <<entries, suppressed>> /\ savedPairs' = savedPairs
         /\ Sync(entries, suppressed, l, before')
         /\ l \in [Agents -> SUBSET Ids] /\ Lists' = l
         /\ before' \subseteq before
         /\ \A x, y \in Agents : <<x, y>> \in before' => paired'[x] # 0 /\ paired'[y] # 0
         /\ \A a \in Agents : savedPairs[a].paired => paired'[a] # 0
<1> DEFINE p == [a \in Agents |-> IF savedPairs[a].paired THEN paired[a] ELSE 0]
           l == [a \in Agents |-> savedPairs[a].servers]
           b == {x \in before : p[x[1]] # 0 /\ p[x[2]] # 0}
<1>1. /\ entries' = saved.entries /\ suppressed' = saved.suppressed
      /\ paired' = p
      /\ before' = b
      /\ object' = [o \in 1 .. MaxPairings |->
                      IF object[o].agent # None /\ p[object[o].agent] = o
                        THEN [object[o] EXCEPT !.servers = l[object[o].agent]] ELSE object[o]]
      /\ Sync(saved.entries, saved.suppressed, l, b)
      /\ savedPairs' = savedPairs
  BY DEF Restart
<1>2. saved.entries = entries /\ saved.suppressed = suppressed
  BY DEF Registered, MemoryAsSaved
<1>3. l \in [Agents -> SUBSET Ids]
  BY DEF Typed, TypeOK
<1>4. ASSUME NEW a \in Agents
      PROVE  Lists'[a] = l[a]
  <2>1. CASE ~savedPairs[a].paired
    BY <1>1, <2>1, ListIsNext DEF DiskOK
  <2>2. CASE savedPairs[a].paired
    <3>1. p[a] = paired[a] /\ paired[a] # 0
      BY <2>2 DEF DiskOK
    <3>2. paired[a] \in 1 .. MaxPairings /\ object[paired[a]].agent = a
      BY <3>1, PairedRange
    <3>3. a # None
      BY ConfigurationOK
    <3>4. object'[paired[a]] = [object[paired[a]] EXCEPT !.servers = l[a]]
      <4> HIDE DEF p, l
      <4>1. QED BY <1>1, <3>1, <3>2, <3>3
    <3>5. object[paired[a]] \in [agent : Agents \cup {None}, servers : SUBSET Ids]
      BY <3>2 DEF Typed, TypeOK
    <3>6. object'[paired[a]].servers = l[a]
      <4> HIDE DEF l
      <4>1. QED BY <3>4, <3>5
    <3>7. QED BY <1>1, <3>1, <3>6, ListIsNext
  <2>3. QED BY <2>1, <2>2
<1>5. Lists' = l
  <2>1. Lists' = [a \in Agents |-> Lists'[a]]
    BY DEF Lists
  <2> HIDE DEF l
  <2>2. QED BY <1>3, <1>4, <2>1
<1>6. \A x, y \in Agents : <<x, y>> \in before' => paired'[x] # 0 /\ paired'[y] # 0
  <2> HIDE DEF p
  <2>1. QED BY <1>1
<1>7. \A a \in Agents : savedPairs[a].paired => paired'[a] # 0
  BY <1>1 DEF DiskOK
<1>8. b \subseteq before
  OBVIOUS
<1> HIDE DEF p, l, b
<1>9. QED BY <1>1, <1>2, <1>3, <1>5, <1>6, <1>7, <1>8 DEF l

(* The order of the dictionary and the disk.                               *)
LEMMA OnDiskNothing ==
  ASSUME NEW q \in [Agents -> 0 .. MaxPairings], NEW l, NEW a \in Agents
  PROVE  /\ OnDisk(q, l)[a].paired <=> q[a] # 0
         /\ ~OnDisk(q, l)[a].paired => OnDisk(q, l)[a].servers = {}
BY DEF OnDisk, Unpaired

LEMMA PairedType == ASSUME Typed PROVE paired \in [Agents -> 0 .. MaxPairings]
BY ConfigurationOK DEF Typed, TypeOK

LEMMA DiskKept ==
  ASSUME DiskOK, paired' \in [Agents -> 0 .. MaxPairings],
         \A a \in Agents : paired[a] # 0 => paired'[a] # 0,
         savedPairs' = savedPairs \/ \E l : savedPairs' = OnDisk(paired', l)
  PROVE  DiskOK'
BY OnDiskNothing DEF DiskOK

LEMMA OrderKept ==
  ASSUME Ordered, before' = before, \A a \in Agents : paired[a] # 0 => paired'[a] # 0
  PROVE  Ordered'
BY DEF Ordered

LEMMA OrderStep == Typed /\ Named /\ Registered /\ Ordered /\ DiskOK /\ [Next]_vars
                     => Ordered' /\ DiskOK'
<1> SUFFICES ASSUME Typed, Named, Registered, Ordered, DiskOK, [Next]_vars
             PROVE  Ordered' /\ DiskOK'
  OBVIOUS
<1>0. paired' \in [Agents -> 0 .. MaxPairings]
  <2>1. Typed'
    BY RegisteredStep
  <2>2. created' \in 0 .. MaxPairings /\ paired' \in [Agents -> 0 .. created']
    BY <2>1 DEF Typed, TypeOK
  <2>3. QED BY <2>2, ConfigurationOK
<1>1. CASE Settled \/ Resync
  <2>1. paired' = paired /\ before' = before /\ savedPairs' = savedPairs
    BY <1>1 DEF Settled, Resync, pairing
  <2>2. QED BY <1>0, <2>1, DiskKept, OrderKept
<1>2. ASSUME NEW o \in 1 .. created, NEW servers \in SUBSET Ids, NEW put \in BOOLEAN,
             Taken(o, servers, put)
      PROVE  Ordered' /\ DiskOK'
  <2>1. CASE Refused(object[o].agent, servers)
    <3>1. paired' = paired /\ before' = before /\ savedPairs' = savedPairs
      BY <1>2, <2>1 DEF Taken, TakeInventory, pairing
    <3>2. QED BY <1>0, <3>1, DiskKept, OrderKept
  <2>2. CASE ~Refused(object[o].agent, servers)
    <3>1. /\ \A d \in Agents : paired[d] # 0 => paired'[d] # 0
          /\ before' = before
          /\ savedPairs' = savedPairs \/ \E l : savedPairs' = OnDisk(paired', l)
      BY <1>2, <2>2, ListsTaken
    <3>2. QED BY <1>0, <3>1, DiskKept, OrderKept
  <2>3. QED BY <2>1, <2>2
<1>3. ASSUME NEW h \in Handlers, PairEnds(h)
      PROVE  Ordered' /\ DiskOK'
  <2> DEFINE c == task[h].agent
  <2>1. CASE Settled
    BY <1>1, <2>1
  <2>2. CASE /\ c \in Agents
             /\ paired'[c] # 0 /\ \A d \in Agents : paired[d] # 0 => paired'[d] # 0
             /\ before' = IF paired[c] # 0 THEN before
                          ELSE before \cup {<<b, c>> : b \in {b \in Agents : paired[b] # 0}}
             /\ savedPairs' = savedPairs \/ \E l : savedPairs' = OnDisk(paired', l)
    <3>1. DiskOK'
      BY <1>0, <2>2, DiskKept
    <3> HIDE DEF c
    <3>2. ASSUME NEW x \in Agents, NEW y \in Agents, <<x, y>> \in before'
          PROVE  paired'[x] # 0 /\ paired'[y] # 0 /\ <<y, x>> \notin before'
      <4>1. CASE paired[c] # 0
        BY <2>2, <3>2, <4>1 DEF Ordered
      <4>2. CASE paired[c] = 0
        <5>1. before' = before \cup {<<b, c>> : b \in {b \in Agents : paired[b] # 0}}
          BY <2>2, <4>2
        <5>2. <<x, y>> \in before \/ (y = c /\ paired[x] # 0)
          BY <3>2, <5>1
        <5>3. <<y, x>> \in before' => <<y, x>> \in before \/ (x = c /\ paired[y] # 0)
          BY <5>1
        <5>4. QED BY <2>2, <4>2, <5>2, <5>3 DEF Ordered
      <4>3. QED BY <4>1, <4>2
    <3>3. Ordered'
      BY <3>2 DEF Ordered
    <3>4. QED BY <3>1, <3>3
  <2>3. QED BY <1>3, <2>1, <2>2, ListsPaired
<1>4. ASSUME NEW h \in Handlers, DeletionKnown(h)
      PROVE  Ordered' /\ DiskOK'
  <2>1. CASE Settled
    BY <1>1, <2>1
  <2>2. CASE ~Settled
    <3>1. /\ paired' = paired /\ before' = before
          /\ savedPairs' = savedPairs \/ \E l : savedPairs' = OnDisk(paired', l)
      BY <1>4, <2>2, ListsForgotten
    <3>2. QED BY <1>0, <3>1, DiskKept, OrderKept
  <2>3. QED BY <2>1, <2>2
<1>5. CASE Restart
  <2>1. /\ savedPairs' = savedPairs /\ before' \subseteq before
        /\ \A x, y \in Agents : <<x, y>> \in before' => paired'[x] # 0 /\ paired'[y] # 0
        /\ \A a \in Agents : savedPairs[a].paired => paired'[a] # 0
    BY <1>5, ListsRestarted
  <2>2. Ordered'
    BY <2>1 DEF Ordered
  <2>3. DiskOK'
    BY <2>1 DEF DiskOK
  <2>4. QED BY <2>2, <2>3
<1>6. QED BY <1>1, <1>2, <1>3, <1>4, <1>5, DirectorySteps

(* sync_runtime_servers leaves a directory that agrees with what it was    *)
(* made from.                                                              *)
LEMMA SyncSynchronises ==
  ASSUME NEW l, Sync(entries', suppressed', l, before'), Lists' = l
  PROVE  Synchronised'
BY DEF Sync, Synchronised

LEMMA SettledSynchronised ==
  ASSUME Synchronised, Settled
  PROVE  Synchronised'
BY DEF Synchronised, Settled, registry, pairing, directory, Lists

LEMMA ListsDomain ==
  ASSUME Typed, NEW c \in Agents, NEW servers \in SUBSET Ids,
         \A d \in Agents : d # c => Lists'[d] = Lists[d], Lists'[c] = servers
  PROVE  Lists' = [Lists EXCEPT ![c] = servers]
<1>1. Lists \in [Agents -> SUBSET Ids]
  BY ListsType, Parts DEF Typed
<1>2. Lists' = [a \in Agents |-> Lists'[a]]
  BY DEF Lists
<1>3. QED BY <1>1, <1>2

LEMMA SynchronisedStep ==
  Typed /\ Named /\ Registered /\ Ordered /\ DiskOK /\ [Next]_vars
    => (Synchronised /\ Current /\ ~LostWrite => Synchronised')
<1> SUFFICES ASSUME Typed, Named, Registered, Ordered, DiskOK, [Next]_vars,
                    Synchronised, Current, ~LostWrite
             PROVE  Synchronised'
  OBVIOUS
<1>1. CASE Settled
  BY <1>1, SettledSynchronised
<1>2. CASE Resync
  <2>1. Lists' = Lists /\ before' = before
    BY <1>2 DEF Resync, pairing, Lists
  <2>2. QED BY <1>2, <2>1, SyncSynchronises DEF Resync
<1>3. ASSUME NEW o \in 1 .. created, NEW servers \in SUBSET Ids, NEW put \in BOOLEAN,
             Taken(o, servers, put)
      PROVE  Synchronised'
  <2> DEFINE c == object[o].agent
  <2>1. c \in Agents /\ paired[c] = o /\ UNCHANGED registry
    BY <1>3 DEF Taken
  <2>2. CASE Refused(c, servers)
    <3>1. Settled
      BY <1>3, <2>1, <2>2 DEF Taken, TakeInventory, Settled
    <3>2. QED BY <1>1, <3>1
  <2>3. CASE ~Refused(c, servers)
    <3>1. /\ Sync(entries, suppressed, Listed(c, o, servers), before)
          /\ \A d \in Agents : d # c => Lists'[d] = Lists[d]
          /\ Lists'[c] = servers
          /\ before' = before
      BY <1>3, <2>1, <2>3, ListsTaken
    <3>2. Listed(c, o, servers) = [Lists EXCEPT ![c] = servers]
      BY <2>1 DEF Listed
    <3>3. Lists' = [Lists EXCEPT ![c] = servers]
      BY <2>1, <3>1, ListsDomain
    <3> HIDE DEF c
    <3>4. Sync(entries', suppressed', Lists', before')
      BY <2>1, <3>1, <3>2, <3>3 DEF registry
    <3>5. QED BY <3>4, SyncSynchronises
  <2>4. QED BY <2>2, <2>3
<1>4. ASSUME NEW h \in Handlers, PairEnds(h)
      PROVE  Synchronised'
  <2> DEFINE c == task[h].agent
             seen == task[h].seen
  <2>1. ~Fault
    BY <1>4 DEF LostWrite
  <2>2. CASE /\ c \in Agents /\ seen \in SUBSET Ids /\ UNCHANGED registry
             /\ Sync(entries, suppressed, [Lists EXCEPT ![c] = seen], before')
             /\ \A d \in Agents : d # c => Lists'[d] = Lists[d]
             /\ Lists'[c] = seen
    <3>1. Lists' = [Lists EXCEPT ![c] = seen]
      BY <2>2, ListsDomain
    <3> HIDE DEF c, seen
    <3>2. Sync(entries', suppressed', Lists', before')
      BY <2>2, <3>1 DEF registry
    <3>3. QED BY <3>2, SyncSynchronises
  <2>3. QED BY <1>1, <1>4, <2>1, <2>2, ListsPaired
<1>5. ASSUME NEW h \in Handlers, DeletionKnown(h)
      PROVE  Synchronised'
  <2> DEFINE l == [Lists EXCEPT ![task[h].agent] = Lists[task[h].agent] \ {task[h].id}]
  <2>1. ~Fault
    BY <1>5 DEF LostWrite
  <2>2. \/ Settled
        \/ Sync(entries', suppressed', l, before) /\ Lists' = l /\ before' = before
    BY <1>5, <2>1, ListsForgotten
  <2> HIDE DEF l
  <2>3. CASE Sync(entries', suppressed', l, before) /\ Lists' = l /\ before' = before
    <3>1. Sync(entries', suppressed', l, before')
      BY <2>3
    <3>2. QED BY <2>3, <3>1, SyncSynchronises
  <2>4. QED BY <1>1, <2>2, <2>3
<1>6. CASE Restart
  <2> DEFINE l == [a \in Agents |-> savedPairs[a].servers]
  <2>1. /\ UNCHANGED <<entries, suppressed>>
        /\ Sync(entries, suppressed, l, before') /\ Lists' = l
    BY <1>6, ListsRestarted
  <2> HIDE DEF l
  <2>2. Sync(entries', suppressed', l, before')
    BY <2>1
  <2>3. QED BY <2>1, <2>2, SyncSynchronises
<1>7. QED BY <1>1, <1>2, <1>3, <1>4, <1>5, <1>6, DirectorySteps

(* The first agent of the dictionary that lists a server.                  *)
LEMMA OwnerIsFirst ==
  ASSUME NEW id, NEW e, NEW s, NEW l, NEW b, Owner(id, e, s, l, b) # None
  PROVE  /\ Owner(id, e, s, l, b) \in Agents
         /\ First(id, Owner(id, e, s, l, b), l, b)
<1>1. \E a \in Agents : First(id, a, l, b)
  BY DEF Owner
<1> DEFINE a == CHOOSE a \in Agents : First(id, a, l, b)
<1>2. a \in Agents /\ First(id, a, l, b)
  BY <1>1
<1>3. Owner(id, e, s, l, b) = a
  BY DEF Owner
<1> HIDE DEF a
<1>4. QED BY <1>2, <1>3

(* Two agents cannot both come first: a server keeps its agent as long as  *)
(* that one lists it, if no other agent has come to list it.               *)
LEMMA NoMove ==
  ASSUME Ordered, Synchronised,
         NEW id \in Ids, NEW a \in Agents, NEW b \in Agents, a # b, owner[id] = a,
         NEW e, NEW s, NEW l, NEW bf, Owner(id, e, s, l, bf) = b,
         id \in l[a], id \in l[b] => id \in Lists[b],
         <<b, a>> \in bf => <<b, a>> \in before
  PROVE  FALSE
<1>1. a # None /\ b # None
  BY ConfigurationOK
<1>2. First(id, a, Lists, before)
  BY <1>1, OwnerIsFirst DEF Synchronised
<1>3. First(id, b, l, bf)
  BY <1>1, OwnerIsFirst
<1>4. id \in Lists[b] /\ <<b, a>> \in before
  BY <1>3 DEF First
<1>5. <<a, b>> \in before
  BY <1>2, <1>4 DEF First
<1>6. QED BY <1>4, <1>5 DEF Ordered

LEMMA OwnedListed ==
  ASSUME Synchronised, NEW id \in Ids, NEW a \in Agents, owner[id] = a
  PROVE  id \in Lists[a] /\ route[id] = a
<1>1. a # None
  BY ConfigurationOK
<1>2. First(id, a, Lists, before)
  BY <1>1, OwnerIsFirst DEF Synchronised
<1>3. QED BY <1>1, <1>2 DEF Synchronised, First, Route

(* An agent whose inventory is not refused does not list another's server. *)
LEMMA NotForeign ==
  ASSUME Synchronised, NEW id \in Ids, NEW a \in Agents, owner[id] = a, NEW c \in Agents, c # a,
         NEW servers, ~Refused(c, servers)
  PROVE  id \notin servers
<1>1. route[id] # None /\ owner[id] # c /\ owner[id] # None
  BY OwnedListed, ConfigurationOK
<1>2. Foreign(c, id)
  BY <1>1 DEF Foreign
<1>3. QED BY <1>2 DEF Refused

LEMMA SyncedOwner ==
  ASSUME NEW e, NEW s, NEW l, NEW bf, Sync(e, s, l, bf), NEW id \in Ids
  PROVE  owner'[id] = Owner(id, e, s, l, bf)
BY DEF Sync

LEMMA TakeoverStep ==
  Typed /\ Named /\ Registered /\ Ordered /\ DiskOK /\ [Next]_vars
    => (Synchronised =>
          \A id \in Ids, a, b \in Agents :
            owner[id] = a /\ owner'[id] = b /\ a # b
              => id \notin Lists[a]' \/ savedPairs # OnDisk(paired, Lists))
<1> SUFFICES ASSUME Typed, Named, Registered, Ordered, DiskOK, [Next]_vars, Synchronised,
                    NEW id \in Ids, NEW a \in Agents, NEW b \in Agents,
                    owner[id] = a, owner'[id] = b, a # b,
                    id \in Lists'[a], savedPairs = OnDisk(paired, Lists)
             PROVE  FALSE
  BY DEF Lists
<1>0. id \in Lists[a] /\ Lists \in [Agents -> SUBSET Ids]
  BY OwnedListed, ListsType, Parts DEF Typed
<1>1. CASE Settled
  BY <1>1 DEF Settled, directory
<1>2. CASE Resync
  <2>1. Owner(id, entries', suppressed', Lists, before) = b
    BY <1>2, SyncedOwner DEF Resync
  <2>2. QED BY <1>0, <2>1, NoMove
<1>3. ASSUME NEW o \in 1 .. created, NEW servers \in SUBSET Ids, NEW put \in BOOLEAN,
             Taken(o, servers, put)
      PROVE  FALSE
  <2> DEFINE c == object[o].agent
             l == Listed(c, o, servers)
  <2>0. c \in Agents
    BY <1>3 DEF Taken
  <2>1. CASE Refused(c, servers)
    BY <1>3, <2>1 DEF Taken, TakeInventory, directory
  <2>2. CASE ~Refused(c, servers)
    <3>1. /\ Sync(entries, suppressed, l, before)
          /\ paired[c] = o => Lists'[c] = servers
      BY <1>3, <2>2, ListsTaken
    <3>2. Owner(id, entries, suppressed, l, before) = b
      BY <3>1, SyncedOwner
    <3>3. /\ \A d \in Agents : d # c => l[d] = Lists[d]
          /\ l[c] = IF paired[c] = o THEN servers ELSE Lists[c]
      BY <1>0, <2>0 DEF Listed
    <3>4. id \in l[a]
      BY <1>0, <3>1, <3>3
    <3>5. id \in l[b] => id \in Lists[b]
      <4>1. CASE b = c
        BY <2>2, <3>3, <4>1, NotForeign
      <4>2. CASE b # c
        BY <3>3, <4>2
      <4>3. QED BY <4>1, <4>2
    <3> HIDE DEF l, c
    <3>6. QED BY <3>2, <3>4, <3>5, NoMove
  <2>3. QED BY <2>1, <2>2
<1>4. ASSUME NEW h \in Handlers, PairEnds(h)
      PROVE  FALSE
  <2> DEFINE c == task[h].agent
             seen == task[h].seen
             l == [Lists EXCEPT ![c] = seen]
  <2>1. CASE Sync(entries, suppressed, Lists, before)
    <3>1. Owner(id, entries, suppressed, Lists, before) = b
      BY <2>1, SyncedOwner
    <3>2. QED BY <1>0, <3>1, NoMove
  <2>2. CASE /\ c \in Agents /\ ~Refused(c, seen)
             /\ Sync(entries, suppressed, l, before')
             /\ Lists'[c] = seen
             /\ before' = IF paired[c] # 0 THEN before
                          ELSE before \cup {<<x, c>> : x \in {x \in Agents : paired[x] # 0}}
    <3>1. Owner(id, entries, suppressed, l, before') = b
      BY <2>2, SyncedOwner
    <3>2. l[c] = seen /\ \A d \in Agents : d # c => l[d] = Lists[d]
      BY <1>0, <2>2
    <3>3. id \in l[a]
      BY <1>0, <2>2, <3>2
    <3>4. id \in l[b] => id \in Lists[b]
      <4>1. CASE b = c
        BY <2>2, <3>2, <4>1, NotForeign
      <4>2. CASE b # c
        BY <3>2, <4>2
      <4>3. QED BY <4>1, <4>2
(* The agent of the server was paired before: what is new in the order     *)
(* puts another one after it.                                              *)
    <3>5. <<b, a>> \in before' => <<b, a>> \in before
      <4>1. paired[a] # 0
        BY <1>0, ListIs
      <4>2. CASE paired[c] # 0
        BY <2>2, <4>2
      <4>3. CASE paired[c] = 0
        <5>1. c # a
          BY <4>1, <4>3
        <5> HIDE DEF c
        <5>2. QED BY <2>2, <4>3, <5>1
      <4>4. QED BY <4>2, <4>3
    <3> HIDE DEF l, c, seen
    <3>6. QED BY <3>1, <3>3, <3>4, <3>5, NoMove
  <2>3. QED BY <1>1, <1>4, <2>1, <2>2, ListsPaired
<1>5. ASSUME NEW h \in Handlers, DeletionKnown(h)
      PROVE  FALSE
  <2> DEFINE c == task[h].agent
             l == [Lists EXCEPT ![c] = Lists[c] \ {task[h].id}]
  <2>1. CASE UNCHANGED directory
    BY <2>1 DEF directory
  <2>2. CASE /\ c \in Agents
             /\ Sync(entries', suppressed', l, before)
             /\ Lists' = l
    <3>1. Owner(id, entries', suppressed', l, before) = b
      BY <2>2, SyncedOwner
    <3>2. \A d \in Agents : l[d] \subseteq Lists[d]
      BY <1>0, <2>2
    <3> HIDE DEF l, c
    <3>3. QED BY <2>2, <3>1, <3>2, NoMove
  <2>3. QED BY <1>1, <1>5, <2>1, <2>2, ListsForgotten
<1>6. CASE Restart
  <2> DEFINE l == [d \in Agents |-> savedPairs[d].servers]
  <2>1. Sync(entries, suppressed, l, before') /\ before' \subseteq before
    BY <1>6, ListsRestarted
  <2>2. \A d \in Agents : l[d] = Lists[d]
    <3>1. ASSUME NEW d \in Agents
          PROVE  OnDisk(paired, Lists)[d].servers = Lists[d]
      BY ListIs DEF OnDisk, Unpaired
    <3>2. QED BY <3>1
  <2>3. Owner(id, entries, suppressed, l, before') = b
    BY <2>1, SyncedOwner
  <2> HIDE DEF l
  <2>4. PICK bf : bf = before'
    OBVIOUS
  <2>5. Owner(id, entries, suppressed, l, bf) = b
    BY <2>3, <2>4
  <2>6. id \in l[a] /\ (id \in l[b] => id \in Lists[b])
    BY <1>0, <2>2
  <2>7. <<b, a>> \in bf => <<b, a>> \in before
    BY <2>1, <2>4
  <2>8. QED BY <1>0, <2>5, <2>6, <2>7, NoMove
<1>7. QED BY <1>1, <1>2, <1>3, <1>4, <1>5, <1>6, DirectorySteps

LEMMA DirectoryInvariant ==
  Spec => [](Typed /\ Named /\ Registered /\ Ordered /\ DiskOK)
<1>1. Init => Typed /\ Named /\ Registered /\ Ordered /\ DiskOK
  BY TypeInit, RegisteredInit DEF Init, Named, Idle, Kinds, Ordered, DiskOK, Unpaired
<1>2. Typed /\ Named /\ Registered /\ Ordered /\ DiskOK /\ [Next]_vars
        => (Typed /\ Named /\ Registered /\ Ordered /\ DiskOK)'
  BY RegisteredStep, OrderStep
<1>3. QED BY <1>1, <1>2, PTL DEF Spec

(* No step moves a server from an agent that stays listed with it to       *)
(* another one, from a directory that agrees with the lists, but for a     *)
(* restart with lists that were out of date on the disk                    *)
(* (controller.py:174-247, 865-886, 900-921).                              *)
THEOREM TakeoverCorrect == Spec => NoTakeover
BY DirectoryInvariant, TakeoverStep, PTL DEF Spec, NoTakeover

(* The directory agrees with the registries and the lists in every state,  *)
(* whatever was lost, refused, restarted or failed, as long as no answer   *)
(* is put into an object that a later pairing replaced and no write after  *)
(* a pairing or a deletion fails.                                          *)
THEOREM DirectoryCorrect ==
  Spec /\ []Current /\ [][~LostWrite]_vars => []Synchronised
<1>1. Init => Synchronised
  <2> SUFFICES ASSUME Init, NEW id \in Ids
               PROVE  /\ owner[id] = Owner(id, entries, suppressed, Lists, before)
                      /\ route[id] = Route(id, entries, suppressed, Lists, before)
    BY DEF Synchronised
  <2>1. \A a \in Agents : Lists[a] = {}
    BY DEF Init, Lists
  <2>2. Owner(id, entries, suppressed, Lists, before) = None
    BY <2>1, OwnerIsFirst DEF First
  <2>3. suppressed = {} /\ entries[id] = None /\ owner[id] = None
        /\ route[id] = IF id \in Base THEN SourceAgent[id] ELSE None
    BY DEF Init
  <2>4. QED BY <2>2, <2>3 DEF Route, Active
<1>2. Synchronised /\ UNCHANGED vars => Synchronised'
  <2> SUFFICES ASSUME Synchronised, UNCHANGED vars PROVE Synchronised'
    OBVIOUS
  <2>1. Settled
    BY DEF vars, registry, pairing, directory, Settled
  <2>2. QED BY <2>1, SettledSynchronised
<1>3. QED BY <1>1, <1>2, DirectoryInvariant, SynchronisedStep, PTL DEF Spec
(* A server leaves an agent that stays listed with it for another one,     *)
(* though the disk has the lists that memory has.                          *)
Takeover ==
  \E id \in Ids, a, b \in Agents :
    /\ owner[id] = a /\ owner'[id] = b /\ a # b
    /\ id \in Lists[a]' /\ savedPairs = OnDisk(paired, Lists)

LEMMA NoTakeoverWhileSynchronised ==
  Typed /\ Named /\ Registered /\ Ordered /\ DiskOK /\ Synchronised /\ [Next]_vars => ~Takeover
BY TakeoverStep DEF Takeover

(* On the same two conditions no server is ever taken over, but for a      *)
(* restart with lists that were out of date (controller.py:174-247,        *)
(* 865-886).                                                               *)
THEOREM NothingTaken ==
  Spec /\ []Current /\ [][~LostWrite]_vars => [][~Takeover]_vars
BY DirectoryInvariant, DirectoryCorrect, NoTakeoverWhileSynchronised, PTL DEF Spec

=============================================================================
