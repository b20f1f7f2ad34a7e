--------------------------- MODULE ServerDirectory ---------------------------
(***************************************************************************)
(* The controller's directory of servers (mc_manager/controller.py): which *)
(* servers the panel shows and which agent each request goes to.           *)
(*                                                                         *)
(* It is put together from three places: controller.toml (Base) without    *)
(* the servers that were deleted, the servers registered in the dashboard  *)
(* (server_registry.py), and the servers the paired agents last said they  *)
(* have (agent_registry.py).  The handlers ask agents first and act on the *)
(* answer later, when the directory, the pairing or the agent may have     *)
(* changed; only some of them hold registry_lock meanwhile.                *)
(*                                                                         *)
(* A step of the controller is the code of a handler between two awaits.   *)
(* A server's credentials stand for its agent.  Administrators' requests   *)
(* come out of Requests, failed writes and restarts out of Faults; the     *)
(* polls of dashboards and of their jobs have no bound, and any answer but *)
(* a refresh's may be lost (a lost one of those leaves no trace: the next  *)
(* poll is the same poll).  The schedule a deletion disables is left out.  *)
(***************************************************************************)
EXTENDS Naturals

CONSTANTS
  Ids,          \* server ids
  Agents,       \* agents, each at one URL with one token
  None,         \* no agent
  Base,         \* the servers of controller.toml
  SourceAgent,  \* the agent of each of them
  Fleets,       \* what the agents may have in the beginning, Base included
  Handlers,     \* bound: requests that are served at a time
  MaxPairings,  \* bound: pairings in a behaviour
  Requests,     \* bound: administrators' requests in a behaviour
  Faults        \* bound: failed writes and restarts of the controller

ASSUME ConfigurationOK ==
  /\ None \notin Agents
  /\ Base \subseteq Ids
  /\ SourceAgent \in [Base -> Agents]
  /\ Fleets \subseteq {f \in [Agents -> SUBSET Ids] : \A id \in Base : id \in f[SourceAgent[id]]}
  /\ MaxPairings \in Nat /\ Requests \in Nat /\ Faults \in Nat

VARIABLES
  installed,   \* the servers each agent has
  working,     \* the installations and deletions the agents run
  deleted,     \* the deletions the agents remember to have done: <<agent, id>>
  entries,     \* registry.entries: the agent a registered server is reached through
  suppressed,  \* registry.suppressed_base_ids
  saved,       \* managed-servers.json
  object,      \* the PairedAgent objects that were created, by number
  created,     \* how many there are
  paired,      \* paired.agents: the number of each agent's object, 0 for none
  before,      \* the order of that dictionary: pairs of agents
  savedPairs,  \* the registry of paired agents on the disk
  route,       \* servers: the agent that requests for a server go to
  owner,       \* dynamic_owner: the paired agent that brought a server
  task,        \* the handlers that wait for an agent
  poll,        \* per agent, the inventory refresh that waits for it
  ever,        \* history: the servers each agent has had
  requests, faults   \* what is left of Requests and of Faults

registry == <<entries, suppressed, saved>>
pairing  == <<object, created, paired, before, savedPairs>>
directory == <<route, owner>>
agentSide == <<installed, working, deleted, ever>>
vars == <<agentSide, registry, pairing, directory, task, poll, requests, faults>>
-----------------------------------------------------------------------------
Kinds  == {"register", "update", "pair", "install", "installed", "delete", "deleted"}
Idle   == [kind |-> "idle"]
Task   == [kind : Kinds, id : Ids \cup {None}, agent : Agents, object : 0 .. MaxPairings,
           answered : BOOLEAN, seen : SUBSET Ids]
Quiet  == [object |-> 0, answered |-> FALSE, seen |-> {}]
Polls  == [object : 0 .. MaxPairings, answered : BOOLEAN, seen : SUBSET Ids]
Jobs   == [agent : Agents, id : Ids, kind : {"install", "delete"}]

\* what is on the disk about an agent that is not paired
Unpaired == [paired |-> FALSE, servers |-> {}]

Free(h)  == task[h] = Idle
Begin(h, kind, id, a, o) ==
  task' = [task EXCEPT ![h] = [kind |-> kind, id |-> id, agent |-> a, object |-> o,
                               answered |-> FALSE, seen |-> {}]]
End(h)   == task' = [task EXCEPT ![h] = Idle]
Ready(h, kind) == task[h].kind = kind /\ task[h].answered

\* registry_lock: register_server and update_registered_server hold it while they wait for
\* the agent
Locked == \E h \in Handlers : task[h].kind \in {"register", "update"}

Request == requests > 0 /\ requests' = requests - 1 /\ UNCHANGED faults
Fault   == faults > 0 /\ faults' = faults - 1 /\ UNCHANGED requests
Calm    == UNCHANGED <<requests, faults>>
-----------------------------------------------------------------------------
(* sync_runtime_servers: what the registries and the agents' lists make of  *)
(* the directory.  An earlier agent of the dictionary comes first.         *)

Active(s)      == Base \ s
Reserved(e, s) == Active(s) \cup {id \in Ids : e[id] # None}

Lists == [a \in Agents |-> IF paired[a] = 0 THEN {} ELSE object[paired[a]].servers]

First(id, a, l, b) ==
  id \in l[a] /\ \A other \in Agents \ {a} : id \in l[other] => <<a, other>> \in b

\* (mutant) an agent's server takes the place of a registered one
OwnerUnreserved(id, e, s, l, b) ==
  IF \E a \in Agents : First(id, a, l, b)
    THEN CHOOSE a \in Agents : First(id, a, l, b) ELSE None

Owner(id, e, s, l, b) ==
  IF id \notin Reserved(e, s) /\ \E a \in Agents : First(id, a, l, b)
    THEN CHOOSE a \in Agents : First(id, a, l, b) ELSE None

Route(id, e, s, l, b) ==
  IF Owner(id, e, s, l, b) # None THEN Owner(id, e, s, l, b)
  ELSE IF id \in Active(s) THEN SourceAgent[id]
  ELSE e[id]

Sync(e, s, l, b) ==
  /\ owner' = [id \in Ids |-> Owner(id, e, s, l, b)]
  /\ route' = [id \in Ids |-> Route(id, e, s, l, b)]

-----------------------------------------------------------------------------
Init ==
  /\ installed \in Fleets
  /\ working = {} /\ deleted = {}
  /\ entries = [id \in Ids |-> None]
  /\ suppressed = {}
  /\ saved = [entries |-> entries, suppressed |-> suppressed]
  /\ object = [o \in 1 .. MaxPairings |-> [agent |-> None, servers |-> {}]]
  /\ created = 0
  /\ paired = [a \in Agents |-> 0]
  /\ before = {}
  /\ savedPairs = [a \in Agents |-> Unpaired]
  /\ owner = [id \in Ids |-> None]
  /\ route = [id \in Ids |-> IF id \in Base THEN SourceAgent[id] ELSE None]
  /\ task = [h \in Handlers |-> Idle]
  /\ poll = [a \in Agents |-> Quiet]
  /\ ever = installed
  /\ requests = Requests /\ faults = Faults
-----------------------------------------------------------------------------
(* ManagedServerRegistry.                                                  *)

\* _save writes the whole registry
SaveRegistry(e, s) ==
  /\ entries' = e /\ suppressed' = s /\ saved' = [entries |-> e, suppressed |-> s]

\* (mutant) what could not be written stays in memory
SaveFailsKept(e, s) == Fault /\ entries' = e /\ suppressed' = s /\ UNCHANGED saved

\* what could not be written is undone in memory
SaveFails(e, s) == Fault /\ UNCHANGED registry
-----------------------------------------------------------------------------
(* Servers registered in the dashboard.                                    *)

RegisterBegins(h, id, a) ==
  /\ Free(h) /\ ~Locked
  /\ route[id] = None
  /\ a \in {SourceAgent[b] : b \in Base}
  /\ Request
  /\ Begin(h, "register", id, a, 0)
  /\ UNCHANGED <<agentSide, registry, pairing, directory, poll>>

\* confirm_agent_server
Confirmed(t) == t.id \in t.seen

\* registry.add: the id may have come into the directory meanwhile, but not into the
\* registry, for the lock was held
RegisterEnds(h) ==
  LET t == task[h] IN
  /\ Ready(h, "register")
  /\ End(h)
  /\ \/ /\ Confirmed(t) /\ t.id \notin Base /\ entries[t.id] = None
        /\ LET e == [entries EXCEPT ![t.id] = t.agent] IN
           \/ SaveRegistry(e, suppressed) /\ Sync(e, suppressed, Lists, before) /\ Calm
           \/ SaveFails(e, suppressed) /\ UNCHANGED directory
     \/ /\ ~Confirmed(t) \/ t.id \in Base \/ entries[t.id] # None
        /\ UNCHANGED <<registry, directory>> /\ Calm
  /\ UNCHANGED <<agentSide, pairing, poll>>

\* The name and the player tracking of a server, which the directory shows and no request
\* depends on.  The agent is asked when tracking is turned on.
UpdateBegins(h, id) ==
  /\ Free(h) /\ ~Locked
  /\ entries[id] # None
  /\ Request
  /\ Begin(h, "update", id, entries[id], 0)
  /\ UNCHANGED <<agentSide, registry, pairing, directory, poll>>

Updated ==
  \/ SaveRegistry(entries, suppressed) /\ Sync(entries, suppressed, Lists, before)
  \/ UNCHANGED <<registry, directory>>  \* the agent does not track the server's players

UpdateEnds(h) ==
  /\ Ready(h, "update")
  /\ End(h)
  /\ \/ Confirmed(task[h]) /\ Updated /\ Calm
     \/ Confirmed(task[h]) /\ SaveFails(entries, suppressed) /\ UNCHANGED directory
     \/ ~Confirmed(task[h]) /\ UNCHANGED <<registry, directory>> /\ Calm
  /\ UNCHANGED <<agentSide, pairing, poll>>

Rename(id) ==
  /\ ~Locked
  /\ entries[id] # None
  /\ \/ Request /\ SaveRegistry(entries, suppressed) /\ Sync(entries, suppressed, Lists, before)
     \/ SaveFails(entries, suppressed) /\ UNCHANGED directory
  /\ UNCHANGED <<agentSide, pairing, task, poll>>

Remove(id) ==
  /\ ~Locked
  /\ entries[id] # None
  /\ LET e == [entries EXCEPT ![id] = None] IN
     \/ Request /\ SaveRegistry(e, suppressed) /\ Sync(e, suppressed, Lists, before)
     \/ SaveFails(e, suppressed) /\ UNCHANGED directory
  /\ UNCHANGED <<agentSide, pairing, task, poll>>
-----------------------------------------------------------------------------
(* Paired agents.                                                          *)

\* sync_paired_agent refuses an inventory that has a server of somebody else; a server
\* of controller.toml may come from the agent it names
Foreign(a, id) ==
  /\ route[id] # None
  /\ owner[id] # a
  /\ ~(owner[id] = None /\ id \in Base /\ SourceAgent[id] = a)

\* (mutant) only the servers that no agent brought are looked at
RefusedRegistered(a, servers) == \E id \in servers : owner[id] = None /\ Foreign(a, id)

Refused(a, servers) == \E id \in servers : Foreign(a, id)

\* PairedAgentStore.put: memory first, then the disk.  An agent that is new to the
\* dictionary comes last in it.
Put(a, o) ==
  /\ paired' = [paired EXCEPT ![a] = o]
  /\ before' = IF paired[a] # 0 THEN before
               ELSE before \cup {<<b, a>> : b \in {b \in Agents : paired[b] # 0}}

\* save writes the lists of all the agents
OnDisk(p, l) == [a \in Agents |-> IF p[a] = 0 THEN Unpaired ELSE [paired |-> TRUE, servers |-> l[a]]]

\* the lists when object o of agent a gets the servers it said it has
Listed(a, o, servers) == [Lists EXCEPT ![a] = IF paired[a] = o THEN servers ELSE @]

\* pair_agent and adopt_configured_agent
PairBegins(h, a) ==
  /\ Free(h)
  /\ created < MaxPairings
  /\ Request
  /\ Begin(h, "pair", None, a, 0)
  /\ UNCHANGED <<agentSide, registry, pairing, directory, poll>>

PairEnds(h) ==
  LET a == task[h].agent
      o == created + 1
  IN
  /\ Ready(h, "pair")
  /\ End(h)
  /\ \/ /\ ~Refused(a, task[h].seen) /\ created < MaxPairings
        /\ object' = [object EXCEPT ![o] = [agent |-> a, servers |-> task[h].seen]]
        /\ created' = o
        /\ Put(a, o)
        /\ \/ /\ savedPairs' = OnDisk(paired', [Lists EXCEPT ![a] = task[h].seen]) /\ Calm
              /\ Sync(entries, suppressed, [Lists EXCEPT ![a] = task[h].seen], before')
           \/ Fault /\ UNCHANGED savedPairs /\ Sync(entries, suppressed, Lists, before)
     \/ /\ Refused(a, task[h].seen) \/ created = MaxPairings
        /\ UNCHANGED <<pairing, directory>> /\ Calm
  /\ UNCHANGED <<agentSide, registry, poll>>

\* sync_paired_agent(agent, info) and what its callers do after it with the object they
\* hold, which may not be the agent's any more
TakeInventory(o, servers, put) ==
  LET a == object[o].agent IN
  IF Refused(a, servers) THEN UNCHANGED <<pairing, directory>> /\ Calm
  ELSE /\ object' = [object EXCEPT ![o].servers = servers]
       /\ Sync(entries, suppressed, Listed(a, o, servers), before)
       /\ UNCHANGED <<created, before>>
       /\ IF put
            THEN /\ paired' = [paired EXCEPT ![a] = o]
                 /\ \/ savedPairs' = OnDisk(paired', [Lists EXCEPT ![a] = servers]) /\ Calm
                    \/ Fault /\ UNCHANGED savedPairs
            ELSE UNCHANGED <<paired, savedPairs>> /\ Calm

\* refresh_paired_agent_inventory, on every request for the list of servers.  The agents
\* of one refresh are handled apart: other refreshes may come between.
RefreshBegins(a) ==
  /\ paired[a] # 0
  /\ poll[a] = Quiet
  /\ poll' = [poll EXCEPT ![a] = [object |-> paired[a], answered |-> FALSE, seen |-> {}]]
  /\ UNCHANGED <<agentSide, registry, pairing, directory, task, requests, faults>>

\* (mutant) answers that failed are dropped, and the others are taken for those of other agents
RefreshAnsweredByAny(a) ==
  /\ poll[a] # Quiet /\ ~poll[a].answered
  /\ \E b \in Agents :
       poll' = [poll EXCEPT ![a].answered = TRUE, ![a].seen = installed[b]]
  /\ UNCHANGED <<agentSide, registry, pairing, directory, task, requests, faults>>

RefreshAnswered(a) ==
  /\ poll[a] # Quiet /\ ~poll[a].answered
  /\ poll' = [poll EXCEPT ![a].answered = TRUE, ![a].seen = installed[a]]
  /\ UNCHANGED <<agentSide, registry, pairing, directory, task, requests, faults>>

\* (mutant) nothing is done for a list that did not change
RefreshEndsIfChanged(a) ==
  /\ poll[a].answered
  /\ ~Locked
  /\ poll' = [poll EXCEPT ![a] = Quiet]
  /\ IF object[poll[a].object].servers # poll[a].seen
       THEN TakeInventory(poll[a].object, poll[a].seen, TRUE)
       ELSE UNCHANGED <<pairing, directory>> /\ Calm
  /\ UNCHANGED <<agentSide, registry, task>>

RefreshEnds(a) ==
  /\ poll[a].answered
  /\ ~Locked
  /\ poll' = [poll EXCEPT ![a] = Quiet]
  /\ TakeInventory(poll[a].object, poll[a].seen, object[poll[a].object].servers # poll[a].seen)
  /\ UNCHANGED <<agentSide, registry, task>>

\* provision_server: the id is checked before the agent is asked
InstallBegins(h, id, a) ==
  /\ Free(h)
  /\ route[id] = None
  /\ paired[a] # 0
  /\ Request
  /\ Begin(h, "install", id, a, 0)
  /\ UNCHANGED <<agentSide, registry, pairing, directory, poll>>

\* provisioning_job: a dashboard asks for the job of an installation; what it finds
\* succeeded makes it ask for the inventory, without registry_lock
InstallPolled(h, a) ==
  /\ Free(h)
  /\ paired[a] # 0
  /\ Begin(h, "installed", None, a, paired[a])
  /\ UNCHANGED <<agentSide, registry, pairing, directory, poll, requests, faults>>

InstallKnown(h) ==
  /\ Ready(h, "installed")
  /\ End(h)
  /\ TakeInventory(task[h].object, task[h].seen, TRUE)
  /\ UNCHANGED <<agentSide, registry, poll>>
-----------------------------------------------------------------------------
(* Deletions.                                                              *)

DeleteBegins(h, id) ==
  /\ Free(h)
  /\ route[id] # None
  /\ Request
  /\ Begin(h, "delete", id, route[id], 0)
  /\ UNCHANGED <<agentSide, registry, pairing, directory, poll>>

\* job: a dashboard asks for the job of a deletion, where the server is said to be
DeletionPolled(h, id) ==
  /\ Free(h)
  /\ <<route[id], id>> \in deleted
  /\ Begin(h, "deleted", id, route[id], 0)
  /\ UNCHANGED <<agentSide, registry, pairing, directory, poll, requests, faults>>

\* the registry forgets the server, and then the list of the agent does
Without(id) == [entries EXCEPT ![id] = IF id \in Base THEN @ ELSE None]

\* (mutant) every deleted server is written down as one of controller.toml
GoneAny(id) == suppressed \cup {id}

Gone(id)    == IF id \in Base THEN suppressed \cup {id} ELSE suppressed

Forget(id, a) ==
  LET servers == Lists[a] \ {id}
      l == [Lists EXCEPT ![a] = servers]
      SyncAll == Sync(Without(id), Gone(id), l, before)
  IN
  /\ SaveRegistry(Without(id), Gone(id))
  /\ IF paired[a] = 0
       THEN SyncAll /\ Calm /\ UNCHANGED pairing
       ELSE /\ object' = [object EXCEPT ![paired[a]].servers = servers]
            /\ UNCHANGED <<created, paired, before>>
            /\ \/ savedPairs' = OnDisk(paired, l) /\ SyncAll /\ Calm
               \/ Fault /\ UNCHANGED <<savedPairs, directory>>

DeletionKnown(h) ==
  /\ Ready(h, "deleted")
  /\ ~Locked
  /\ End(h)
  /\ \/ task[h].seen # {} /\ Forget(task[h].id, task[h].agent)
     \/ /\ task[h].seen # {}
        /\ <<Without(task[h].id), Gone(task[h].id)>> # <<entries, suppressed>>
        /\ SaveFails(Without(task[h].id), Gone(task[h].id))
        /\ UNCHANGED <<pairing, directory>>
     \/ task[h].seen = {} /\ Calm /\ UNCHANGED <<registry, pairing, directory>>
  /\ UNCHANGED <<agentSide, poll>>
-----------------------------------------------------------------------------
(* The agents, as the controller meets them.                               *)

\* statuses, info and job
Asked(h) ==
  LET t == task[h] IN
  /\ t.kind \in {"register", "update", "pair", "installed", "deleted"} /\ ~t.answered
  /\ \/ task' = [task EXCEPT ![h].answered = TRUE,
                             ![h].seen = IF t.kind = "deleted"
                                           THEN {t.id} \cap {id \in Ids : <<t.agent, id>> \in deleted}
                                           ELSE installed[t.agent]]
     \/ End(h)
  /\ UNCHANGED <<agentSide, registry, pairing, directory, poll, requests, faults>>

NoJob(a, id) == \A j \in working : ~(j.agent = a /\ j.id = id)

\* provision and delete_server: a job is accepted or refused
Served(h) ==
  LET t == task[h] IN
  /\ t.kind \in {"install", "delete"}
  /\ End(h)
  /\ IF NoJob(t.agent, t.id) /\ (t.kind = "delete" <=> t.id \in installed[t.agent])
       THEN /\ working' = working \cup {[agent |-> t.agent, id |-> t.id, kind |-> t.kind]}
            /\ deleted' = deleted \ {<<t.agent, t.id>>}
       ELSE UNCHANGED <<working, deleted>>
  /\ UNCHANGED <<installed, ever, registry, pairing, directory, poll, requests, faults>>

JobEnds(j) ==
  /\ j \in working
  /\ working' = working \ {j}
  /\ \/ /\ j.kind = "install"
        /\ installed' = [installed EXCEPT ![j.agent] = @ \cup {j.id}]
        /\ ever' = [ever EXCEPT ![j.agent] = @ \cup {j.id}]
        /\ UNCHANGED deleted
     \/ /\ j.kind = "delete"
        /\ installed' = [installed EXCEPT ![j.agent] = @ \ {j.id}]
        /\ deleted' = deleted \cup {<<j.agent, j.id>>}
        /\ UNCHANGED ever
     \/ UNCHANGED <<installed, deleted, ever>>  \* it fails
  /\ UNCHANGED <<registry, pairing, directory, task, poll, requests, faults>>
-----------------------------------------------------------------------------
\* The controller starts again with what is on the disk.
Restart ==
  LET p == [a \in Agents |-> IF savedPairs[a].paired THEN paired[a] ELSE 0]
      l == [a \in Agents |-> savedPairs[a].servers]
      b == {x \in before : p[x[1]] # 0 /\ p[x[2]] # 0}
  IN
  /\ Fault
  /\ entries' = saved.entries /\ suppressed' = saved.suppressed
  /\ paired' = p
  /\ before' = b
  /\ object' = [o \in 1 .. MaxPairings |->
                  IF object[o].agent # None /\ p[object[o].agent] = o
                    THEN [object[o] EXCEPT !.servers = l[object[o].agent]] ELSE object[o]]
  /\ Sync(saved.entries, saved.suppressed, l, b)
  /\ task' = [h \in Handlers |-> Idle]
  /\ poll' = [a \in Agents |-> Quiet]
  /\ UNCHANGED <<agentSide, saved, created, savedPairs>>

Handled(h) ==
  \/ RegisterEnds(h) \/ UpdateEnds(h) \/ PairEnds(h) \/ InstallKnown(h) \/ DeletionKnown(h)
  \/ Asked(h) \/ Served(h)

Next ==
  \/ \E h \in Handlers :
       \/ Handled(h)
       \/ \E a \in Agents : PairBegins(h, a) \/ InstallPolled(h, a)
       \/ \E id \in Ids : UpdateBegins(h, id) \/ DeleteBegins(h, id) \/ DeletionPolled(h, id)
       \/ \E id \in Ids, a \in Agents : RegisterBegins(h, id, a) \/ InstallBegins(h, id, a)
  \/ \E id \in Ids : Rename(id) \/ Remove(id)
  \/ \E a \in Agents : RefreshBegins(a) \/ RefreshAnswered(a) \/ RefreshEnds(a)
  \/ \E j \in working : JobEnds(j)
  \/ Restart

\* Dashboards go on asking for the list of servers, and requests to agents have timeouts,
\* so that registry_lock is given back.  Nothing else has to happen.
Fairness ==
  /\ \A a \in Agents : WF_vars(RefreshBegins(a) \/ RefreshAnswered(a) \/ RefreshEnds(a))
  /\ \A h \in Handlers : WF_vars(task[h].kind \in {"register", "update"}
                                /\ (Asked(h) \/ RegisterEnds(h) \/ UpdateEnds(h)))

Spec == Init /\ [][Next]_vars /\ Fairness
-----------------------------------------------------------------------------
TypeOK ==
  /\ installed \in [Agents -> SUBSET Ids] /\ ever \in [Agents -> SUBSET Ids]
  /\ working \subseteq Jobs /\ deleted \subseteq Agents \X Ids
  /\ entries \in [Ids -> Agents \cup {None}]
  /\ suppressed \subseteq Base
  /\ saved \in [entries : [Ids -> Agents \cup {None}], suppressed : SUBSET Base]
  /\ object \in [1 .. MaxPairings -> [agent : Agents \cup {None}, servers : SUBSET Ids]]
  /\ created \in 0 .. MaxPairings
  /\ paired \in [Agents -> 0 .. created]
  /\ \A a \in Agents : paired[a] # 0 => object[paired[a]].agent = a
  /\ before \subseteq Agents \X Agents
  /\ savedPairs \in [Agents -> [paired : BOOLEAN, servers : SUBSET Ids]]
  /\ owner \in [Ids -> Agents \cup {None}] /\ route \in [Ids -> Agents \cup {None}]
  /\ task \in [Handlers -> Task \cup {Idle}]
  /\ poll \in [Agents -> Polls]
  /\ requests \in 0 .. Requests /\ faults \in 0 .. Faults

\* What the controller knows of its own servers is what it would know after a restart,
\* whichever writes failed: a registration, removal or deletion that could not be saved
\* is undone in memory (ManagedServerRegistry add, remove, suppress_base).
MemoryAsSaved == saved = [entries |-> entries, suppressed |-> suppressed]

\* No agent's inventory takes the place of a server of controller.toml or of one that
\* was registered in the dashboard, in whatever order answers, registrations and deletions
\* come (the reserved ids of sync_runtime_servers).
RegisteredFirst ==
  \A id \in Ids :
    /\ id \in Active(suppressed) => route[id] = SourceAgent[id] /\ owner[id] = None
    /\ entries[id] # None => route[id] = entries[id] /\ owner[id] = None

\* Requests for a server go only to an agent that has it or had it: late answers and stale
\* lists may name a server that is gone, never one that was somewhere else all the time.
OnlyServed == \A id \in Ids : route[id] # None => id \in ever[route[id]]

\* The directory is what sync_runtime_servers would make of the registries and the lists.
Synchronised ==
  \A id \in Ids :
    /\ owner[id] = Owner(id, entries, suppressed, Lists, before)
    /\ route[id] = Route(id, entries, suppressed, Lists, before)

\* A server does not move from one agent to another as long as the first is listed with
\* it (the check of sync_paired_agent and the order of the dictionary), with two
\* exceptions: a restart brings back lists that were out of date on the disk, and a
\* directory that lags behind the lists, because a write failed or a handler put back an
\* object that a pairing had replaced, may catch up.
NoTakeover ==
  [][Synchronised =>
       \A id \in Ids, a, b \in Agents :
         owner[id] = a /\ owner'[id] = b /\ a # b
           => id \notin Lists[a]' \/ savedPairs # OnDisk(paired, Lists)]_vars

UpToDate(a) ==
  \A id \in Ids : (owner[id] = a) <=> (id \in installed[a] /\ id \notin Reserved(entries, suppressed))

\* As long as dashboards ask for the list of servers, a paired agent's servers end up in
\* the directory, and only those it has, whatever was lost or failed before, unless the
\* agent has a server that is somebody else's (refresh_paired_agent_inventory).
Converges ==
  <>[](\A a \in Agents : paired[a] # 0 /\ ~Refused(a, installed[a]) => UpToDate(a))
=============================================================================
