---------------------------- MODULE PlayerMonitor ----------------------------
(***************************************************************************)
(* The player presence monitor (mc_manager/player_monitor.py): it polls    *)
(* the agents for the players of the tracked servers and keeps one Discord *)
(* message per session, which says that a player joined, where the player  *)
(* is, and at last that the player left.                                   *)
(*                                                                         *)
(* A step is the code between two awaits, with what Discord does in        *)
(* between: a request to it may fail, fail though it was carried out, end  *)
(* the whole poll with an error, or be under way when the controller       *)
(* stops.  The state file is written after every change and read after a   *)
(* restart; both may fail.                                                 *)
(*                                                                         *)
(* Time passes in polls: missing is the age of missing_since, which grows  *)
(* by one every poll and counts to Grace.  What players, moderators and    *)
(* administrators do comes out of Moves, what fails out of Faults.         *)
(***************************************************************************)
EXTENDS Naturals, Sequences, FiniteSets

CONSTANTS
  Players, Servers,
  None,        \* nowhere, no session, no message, not missing
  Pending, Failed, Out,  \* snapshots: not answered yet, failed, not asked for
  Grace,       \* leave_grace_seconds, in polls
  MaxFailures, \* MAX_FINALIZE_FAILURES
  Moves,       \* bound: joins, transfers, leaves, deleted messages, changes of the servers
  Faults       \* bound: failed snapshots, requests and writes, and restarts, each with
               \* the state file read or not

ASSUME MonitorAssumption ==
  /\ None \notin Servers \cup Nat
  /\ Grace \in Nat /\ MaxFailures \in Nat \ {0} /\ Moves \in Nat /\ Faults \in Nat

VARIABLES
  where,     \* the server each player is on
  tracked,   \* self.servers
  messages,  \* the messages in the channel, by their ids: whose, and what they say
  phase,     \* where poll_once is
  snap,      \* the snapshot of each server in this poll
  todo,      \* the players the loop of this phase has still to handle
  sessions,  \* self.sessions
  saved,     \* the state file
  unsaved,   \* history: the last write failed, or the file could not be read
  absent,    \* history: for how long every poll was healthy and did not see the player,
             \* without the time the controller was down
  stuck,     \* history: players whose missing_since should have been cleared and was not,
             \* or comes from the state file
  moves, faults  \* what is left of Moves and Faults

world == <<where, tracked>>
vars == <<world, messages, phase, snap, todo, sessions, saved, unsaved, absent, stuck,
          moves, faults>>
-----------------------------------------------------------------------------
Session  == [server : Servers, message : Nat, missing : (0 .. Grace) \cup {None},
             failures : 0 .. MaxFailures - 1]
Sessions == [Players -> Session \cup {None}]

ASSUME NoneApart == None \notin Session

Phases   == {"sleep", "ask", "players", "leavers"}

Polled     == {s \in Servers : snap[s] # Out}
AllHealthy == Failed \notin {snap[s] : s \in Servers}
Locations(p) == {s \in Polled : snap[s] # Failed /\ p \in snap[s]}
Observed   == {p \in Players : Locations(p) # {}}

Cost(n) == faults >= n /\ faults' = faults - n
Move    == moves > 0 /\ moves' = moves - 1

\* the players whose session has a missing_since
Missing == {p \in Players : sessions[p] # None /\ sessions[p].missing # None}

\* (mutant) the clock is not looked at when the grace is over
OlderForEver(age, n) == IF age = None THEN None ELSE age + n

\* n polls later
Older(age, n) == IF age = None THEN None ELSE IF age + n < Grace THEN age + n ELSE Grace
Aged(ss, n) == [p \in Players |-> IF ss[p] = None THEN None
                                  ELSE [ss[p] EXCEPT !.missing = Older(@, n)]]

\* The state file, and what _save_state makes of it: a write that fails leaves it alone.
Now == [holds |-> saved, failed |-> unsaved, cost |-> 0]
Write(file, ss) == {[holds |-> ss, failed |-> FALSE, cost |-> file.cost],
                    [holds |-> file.holds, failed |-> TRUE, cost |-> file.cost + 1]}

\* the sessions and the file from now on, after requests that cost n faults
Keep(ss, file, n) ==
  /\ sessions' = ss
  /\ saved' = file.holds /\ unsaved' = file.failed
  /\ Cost(n + file.cost)

Save(ss, n) == \E file \in Write(Now, ss) : Keep(ss, file, n)

\* (mutant) small changes are not worth a write
WriteNothing(ss) == {Now}

WriteIfChanged(ss) == IF ss # sessions THEN Write(Now, ss) ELSE {Now}

SaveIfChanged(ss, n) == \E file \in WriteIfChanged(ss) : Keep(ss, file, n)
-----------------------------------------------------------------------------
(* The session messages of mc_manager/discord_bot.py.                      *)

\* what a message says, apart from names and times
Says     == {"online", "left"}
Messages == Seq([player : Players, says : Says \cup {"deleted"}])

\* A request's outcome: the channel after it, the id that is returned, its cost.
Outcome(channel, id, cost) == [channel |-> channel, id |-> id, cost |-> cost]

SendOutcomes(p, says) ==
  LET sent == Append(messages, [player |-> p, says |-> says]) IN
  {Outcome(sent, Len(sent), 0), Outcome(sent, None, 1), Outcome(messages, None, 1)}

\* a message that was deleted is replaced
EditOutcomes(p, m, says) ==
  LET edited == [messages EXCEPT ![m].says = says] IN
  IF messages[m].says = "deleted" THEN SendOutcomes(p, says)
  ELSE {Outcome(edited, m, 0), Outcome(edited, None, 1), Outcome(messages, None, 1)}

\* what a request that broke off may have done
Unknown(outcomes) == {o.channel : o \in {o \in outcomes : o.id = None}}
-----------------------------------------------------------------------------
Init ==
  /\ where = [p \in Players |-> None]
  /\ tracked = Servers
  /\ messages = <<>>
  /\ phase = "sleep"
  /\ snap = [s \in Servers |-> Out]
  /\ todo = {}
  /\ sessions = [p \in Players |-> None]
  /\ saved = sessions /\ unsaved = FALSE
  /\ absent = [p \in Players |-> None]
  /\ stuck = {}
  /\ moves = Moves /\ faults = Faults

PollBegins ==
  /\ phase = "sleep"
  /\ phase' = "ask"
  /\ snap' = [s \in Servers |-> IF s \in tracked THEN Pending ELSE Out]
  /\ UNCHANGED <<world, messages, todo, sessions, saved, unsaved, absent, stuck, moves, faults>>

\* query_players: who is on a server, each name once
Queried(s) == {p \in Players : where[p] = s}

\* what AgentClient.players makes of the answer
Snapshots(s) == {Queried(s), Failed}

\* list_players: the agent of a server answers who is on it, nobody when it is stopped
Answered(s) ==
  /\ phase = "ask" /\ snap[s] = Pending
  /\ \E answer \in Snapshots(s) :
       /\ snap' = [snap EXCEPT ![s] = answer]
       /\ Cost(IF answer = Failed THEN 1 ELSE 0)
  /\ UNCHANGED <<world, messages, phase, todo, sessions, saved, unsaved, absent, stuck, moves>>

\* all the answers are there, and the clock is read
AllAnswered ==
  /\ phase = "ask" /\ \A s \in Servers : snap[s] # Pending
  /\ phase' = "players"
  /\ todo' = Observed
  /\ sessions' = Aged(sessions, 1) /\ saved' = Aged(saved, 1)
  /\ absent' = [p \in Players |->
                  IF sessions[p] = None \/ p \in Observed \/ ~AllHealthy THEN None
                  ELSE IF absent[p] = None THEN 0 ELSE Older(absent[p], 1)]
  /\ UNCHANGED <<world, messages, snap, unsaved, stuck, moves, faults>>
-----------------------------------------------------------------------------
(* The players that the poll saw, and those it did not see, one after the  *)
(* other.                                                                  *)

\* (mutant) a player on another server has a new session
IsNewThere(p) ==
  sessions[p] # None => sessions[p].failures > 0 \/ sessions[p].server \notin Locations(p)

IsNew(p) == sessions[p] # None => sessions[p].failures > 0

\* now - missing_since
Age(p) == IF sessions[p].missing = None THEN 0 ELSE sessions[p].missing

\* The sessions when the request about p is sent, what was written of them before, and
\* the outcomes of the request; there is none about a player who stays or is just missed.
Asking(p) ==
  IF phase = "players" THEN IF IsNew(p) THEN [sessions EXCEPT ![p] = None] ELSE sessions
  ELSE [sessions EXCEPT ![p].missing = Age(p)]

Prepared(p) == WriteIfChanged(Asking(p))

UnderWay(p) ==
  CASE phase = "players" /\ IsNew(p) -> SendOutcomes(p, "online")
    [] phase = "players" /\ ~IsNew(p) /\ sessions[p].server \notin Locations(p) ->
         EditOutcomes(p, sessions[p].message, "online")
    [] phase = "leavers" /\ Age(p) = Grace -> EditOutcomes(p, sessions[p].message, "left")
    [] OTHER -> {}

Handle(p) == todo' = todo \ {p} /\ UNCHANGED <<world, phase, snap, absent, moves>>
-----------------------------------------------------------------------------
(* The players that were seen.                                             *)

\* A player without a session, or with one whose last edit failed, gets a new one.  The
\* old one is dropped, and the file written, before the request.
Joined(p) ==
  /\ phase = "players" /\ p \in todo
  /\ IsNew(p)
  /\ Handle(p)
  /\ stuck' = stuck \ {p}
  /\ \E s \in Locations(p), file \in Prepared(p), o \in UnderWay(p) :
       /\ messages' = o.channel
       /\ IF o.id = None
            THEN Keep(Asking(p), file, o.cost)
            ELSE LET ss == [sessions EXCEPT ![p] = [server |-> s, message |-> o.id,
                                                    missing |-> None, failures |-> 0]] IN
                 \E written \in Write(file, ss) : Keep(ss, written, o.cost)

\* a player is where the session says
Stays(p) ==
  /\ phase = "players" /\ p \in todo
  /\ sessions[p] # None /\ sessions[p].failures = 0 /\ sessions[p].server \in Locations(p)
  /\ Handle(p)
  /\ SaveIfChanged([sessions EXCEPT ![p].missing = None], 0)
  /\ stuck' = stuck \ {p}
  /\ UNCHANGED messages

\* (mutant) the message is edited, and the session forgets where the player is
TransferredForgotten(p) ==
  /\ phase = "players" /\ p \in todo
  /\ sessions[p] # None /\ sessions[p].failures = 0 /\ sessions[p].server \notin Locations(p)
  /\ Handle(p)
  /\ \E o \in UnderWay(p) :
       /\ messages' = o.channel /\ o.id # None
       /\ Save([sessions EXCEPT ![p].message = o.id, ![p].missing = None], o.cost)
  /\ stuck' = stuck \ {p}

\* A player is somewhere else.  When the message cannot be edited, the session stays as
\* it is, the age of its missing_since included.
Transferred(p) ==
  /\ phase = "players" /\ p \in todo
  /\ sessions[p] # None /\ sessions[p].failures = 0 /\ sessions[p].server \notin Locations(p)
  /\ Handle(p)
  /\ \E s \in Locations(p), o \in UnderWay(p) :
       /\ messages' = o.channel
       /\ IF o.id = None
            THEN /\ UNCHANGED <<sessions, saved, unsaved>> /\ Cost(o.cost)
                 /\ stuck' = stuck \cup ({p} \cap Missing)
            ELSE /\ Save([sessions EXCEPT ![p].server = s, ![p].message = o.id,
                                          ![p].missing = None], o.cost)
                 /\ stuck' = stuck \ {p}

\* (mutant) an edit that failed is not tried again
LeaversOnce == {p \in Players \ Observed : sessions[p] # None /\ sessions[p].failures = 0}

Leavers == {p \in Players \ Observed : sessions[p] # None}

\* (mutant) polls that failed count toward the grace, too
Recounted(ss) == ss

\* the sessions after a poll in which a server did not answer
Paused(ss) ==
  [p \in Players |-> IF ss[p] = None \/ p \in Observed THEN ss[p]
                     ELSE [ss[p] EXCEPT !.missing = None]]

AllHandled ==
  /\ phase = "players" /\ todo = {}
  /\ UNCHANGED <<world, messages, absent, moves>>
  /\ IF AllHealthy
       THEN /\ phase' = "leavers"
            /\ todo' = Leavers
            /\ UNCHANGED <<snap, sessions, saved, unsaved, stuck, faults>>
       ELSE /\ phase' = "sleep"
            /\ snap' = [s \in Servers |-> Out]
            /\ UNCHANGED todo
            /\ stuck' = stuck \cap Observed
            /\ SaveIfChanged(Paused(sessions), 0)
-----------------------------------------------------------------------------
(* The sessions of players that a healthy poll did not see.                *)

Missed(p) ==
  /\ phase = "leavers" /\ p \in todo
  /\ Handle(p)
  /\ Age(p) < Grace
  /\ SaveIfChanged([sessions EXCEPT ![p].missing = Age(p)], 0)
  /\ UNCHANGED <<messages, stuck>>

\* an edit that fails is tried again by later polls, a few times
Finished(p) ==
  /\ phase = "leavers" /\ p \in todo
  /\ Handle(p)
  /\ Age(p) = Grace
  /\ \E file \in Prepared(p), o \in UnderWay(p) :
       LET again == o.id = None /\ sessions[p].failures + 1 < MaxFailures
           ss    == IF again THEN [Asking(p) EXCEPT ![p].failures = @ + 1]
                             ELSE [sessions EXCEPT ![p] = None]
       IN  /\ messages' = o.channel
           /\ \E written \in Write(file, ss) : Keep(ss, written, o.cost)
           /\ stuck' = IF again THEN stuck ELSE stuck \ {p}

\* The network fails under a request to Discord.  The error is not one that the bot
\* catches, and the poll ends where it is: nobody that is left is handled.
PollBreaks(p) ==
  /\ p \in todo
  /\ phase' = "sleep" /\ todo' = {}
  /\ snap' = [s \in Servers |-> Out]
  /\ stuck' = IF phase = "leavers" THEN stuck
              ELSE stuck \cup
                     (Missing \cap (todo \cup IF AllHealthy THEN {} ELSE Players \ Observed))
  /\ messages' \in Unknown(UnderWay(p))
  /\ \E file \in Prepared(p) : Keep(Asking(p), file, 1)
  /\ UNCHANGED <<world, absent, moves>>

PollEnds ==
  /\ phase = "leavers" /\ todo = {}
  /\ phase' = "sleep"
  /\ snap' = [s \in Servers |-> Out]
  /\ UNCHANGED <<world, messages, todo, sessions, saved, unsaved, absent, stuck, moves, faults>>
-----------------------------------------------------------------------------
(* Everybody else.                                                         *)

\* a player joins, leaves, or is sent to another server
Goes(p) ==
  /\ Move
  /\ where' \in {[where EXCEPT ![p] = s] : s \in (Servers \cup {None}) \ {where[p]}}
  /\ UNCHANGED <<tracked, messages, phase, snap, todo, sessions, saved, unsaved, absent,
                 stuck, faults>>

\* set_servers, when the controller's directory changes
SetServers(ss) ==
  /\ Move
  /\ tracked' = ss
  /\ UNCHANGED <<where, messages, phase, snap, todo, sessions, saved, unsaved, absent,
                 stuck, faults>>

\* a moderator deletes a message
Deleted(m) ==
  /\ Move
  /\ messages[m].says # "deleted"
  /\ messages' = [messages EXCEPT ![m].says = "deleted"]
  /\ UNCHANGED <<world, phase, snap, todo, sessions, saved, unsaved, absent, stuck, faults>>

\* the channel and the file when the controller stops: nobody learns the outcome of a
\* request that is under way
AtStop ==
  {[channel |-> messages, file |-> Now]} \cup
    UNION {{[channel |-> o.channel, file |-> file] :
              o \in UnderWay(p), file \in Prepared(p)} : p \in todo}

\* The controller stops, and starts again some time later.  When the state file cannot be
\* read (_load_state), it starts without sessions.
Restart ==
  /\ \E stop \in AtStop, down \in 0 .. Grace, readable \in BOOLEAN :
       LET loaded == Aged(stop.file.holds, down) IN
       /\ messages' = stop.channel
       /\ saved' = loaded
       /\ sessions' = IF readable THEN loaded ELSE [p \in Players |-> None]
       /\ unsaved' = ~readable
       /\ Cost(1 + stop.file.cost)
  /\ stuck' = {p \in Players : sessions'[p] # None /\ sessions'[p].missing # None}
  /\ phase' = "sleep" /\ todo' = {} /\ snap' = [s \in Servers |-> Out]
  /\ UNCHANGED <<world, absent, moves>>

Monitor ==
  \/ PollBegins \/ (\E s \in Servers : Answered(s)) \/ AllAnswered
  \/ \E p \in Players : Joined(p) \/ Stays(p) \/ Transferred(p)
                      \/ Missed(p) \/ Finished(p) \/ PollBreaks(p)
  \/ AllHandled \/ PollEnds

Next ==
  \/ Monitor
  \/ \E p \in Players : Goes(p)
  \/ \E ss \in SUBSET Servers : SetServers(ss)
  \/ \E m \in DOMAIN messages : Deleted(m)
  \/ Restart

\* The poll loop goes on for ever.
Spec == Init /\ [][Next]_vars /\ WF_vars(Monitor)
-----------------------------------------------------------------------------
TypeOK ==
  /\ where \in [Players -> Servers \cup {None}] /\ tracked \subseteq Servers
  /\ messages \in Messages
  /\ phase \in Phases
  /\ snap \in [Servers -> (SUBSET Players) \cup {Pending, Failed, Out}]
  /\ todo \subseteq Players /\ stuck \subseteq Players
  /\ sessions \in Sessions /\ saved \in Sessions /\ unsaved \in BOOLEAN
  /\ absent \in [Players -> (0 .. Grace) \cup {None}]
  /\ moves \in 0 .. Moves /\ faults \in 0 .. Faults

\* messages that say a player is online, and that nobody will ever edit again
Orphans ==
  {m \in DOMAIN messages :
     /\ messages[m].says = "online"
     /\ \A p \in Players : sessions[p] = None \/ sessions[p].message # m}

\* A failed request, a failed write or a restart, with the state file lost or not, leaves
\* at most one message of each player behind that goes on saying that the player is online;
\* without any, every message is seen through.
FewOrphans ==
  \A p \in Players : Cardinality({m \in Orphans : messages[m].player = p}) <= Faults - faults

\* The state file holds the sessions that the monitor has, unless the last write of it
\* failed or it could not be read at the last start: every change is followed by a write
\* before the next await.
SavedState == unsaved \/ saved = sessions

\* in this step a message comes to say that its player left
Told(m) == messages'[m].says = "left" /\ (m \in DOMAIN messages => messages[m].says # "left")

\* A player is said to have left only when the polls of a whole grace were healthy and
\* did not see the player, whatever failed or moved in between.  Three cases are excepted,
\* LeaveConfirmed is about them: a missing_since that a failed edit of a transfer, or a
\* poll that broke off, left standing when it should have been cleared; and one that was
\* read from the state file, because the time the controller was down counts.
NoFalseLeave ==
  [][\A m \in DOMAIN messages' :
       Told(m) => LET p == messages'[m].player IN absent[p] = Grace \/ p \in stuck]_vars

\* player_monitor.py:216: "Only confirmed healthy snapshots count toward the leave grace."
LeaveConfirmed ==
  [][\A m \in DOMAIN messages' : Told(m) => absent[messages'[m].player] = Grace]_vars

\* A player who left does not keep a session for ever: its end is told, or given up.
LeavesTold ==
  \A p \in Players : where[p] = None ~> (sessions[p] = None \/ where[p] # None)

\* A player who stays on a tracked server gets a session there, a moved one included.
JoinsTold ==
  \A p \in Players, s \in Servers :
    (where[p] = s /\ s \in tracked)
      ~> (where[p] # s \/ s \notin tracked \/ (sessions[p] # None /\ sessions[p].server = s))
=============================================================================
