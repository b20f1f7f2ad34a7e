------------------------- MODULE PlayerMonitorProofs -------------------------
(***************************************************************************)
(* Theorems about PlayerMonitor, for any players and servers, any grace    *)
(* and number of retries, and any number of moves and faults.              *)
(***************************************************************************)
EXTENDS PlayerMonitor, FiniteSetTheorems, SequenceTheorems, TLAPS

(* The session of a player has a message in the channel that is about the  *)
(* player.                                                                 *)
Own(ss, channel) ==
  \A p \in Players :
    ss[p] # None => ss[p].message \in DOMAIN channel /\ channel[ss[p].message].player = p

(* Only a healthy poll handles leavers, and they have sessions.            *)
Leaving ==
  phase = "leavers" => AllHealthy /\ \A p \in todo : p \notin Observed /\ sessions[p] # None

Typed == TypeOK /\ Own(sessions, messages) /\ Own(saved, messages) /\ Leaving

(* A channel in which at most message x is new or edited, and says a thing *)
(* about player p.                                                         *)
Reaches(channel, x, p, says) ==
  /\ channel \in Messages
  /\ \A m \in DOMAIN messages : m \in DOMAIN channel /\ channel[m].player = messages[m].player
  /\ \A m \in DOMAIN channel : m # x => m \in DOMAIN messages /\ channel[m] = messages[m]
  /\ x \in DOMAIN channel =>
       \/ x \in DOMAIN messages /\ channel[x] = messages[x]
       \/ channel[x] = [player |-> p, says |-> says]

(* What a request about player p comes to.                                 *)
Fair(o, p, says) ==
  \/ /\ o.id = None /\ o.cost = 1
     /\ \E x \in Nat : Reaches(o.channel, x, p, says)
  \/ /\ o.id \in Nat /\ o.cost = 0
     /\ Reaches(o.channel, o.id, p, says)
     /\ o.id \in DOMAIN o.channel /\ o.channel[o.id] = [player |-> p, says |-> says]

(* Messages that say a player is online and that, as these sessions have   *)
(* it, no edit is sure to change again: the next session of a player whose *)
(* edit failed has a message of its own.                                   *)
Loose(ss, channel, p) ==
  {m \in DOMAIN channel :
     /\ channel[m].player = p /\ channel[m].says = "online"
     /\ ss[p] = None \/ ss[p].failures > 0 \/ ss[p].message # m}

(* The state file after the writes of a step that leaves the sessions ss,  *)
(* and that wrote the sessions asked before its request.                   *)
Filed(file, ss, asked) ==
  /\ file.cost \in Nat /\ file.failed \in BOOLEAN
  /\ \/ file.holds = ss
     \/ file.holds = asked /\ file.cost >= 1
     \/ file.holds = saved /\ (ss = sessions \/ file.cost >= 1)
  /\ SavedState => file.failed \/ file.holds = ss

Change(ss, asked, n) == \E file : Filed(file, ss, asked) /\ Keep(ss, file, n)

(* What the sessions say of the message of player p is so in the channel   *)
(* after the step.                                                         *)
Speaks(ss, p) == ss[p] # None => ss[p].message \in DOMAIN messages' /\ messages'[ss[p].message].player = p

(* All that a step which handles player p may do: to the sessions and the  *)
(* file, to the channel, and to the messages that are left behind.         *)
Handles(p, ss, asked, n, x, says) ==
  /\ ss \in Sessions /\ asked \in Sessions /\ n \in Nat /\ says \in Says
  /\ Change(ss, asked, n)
  /\ \A q \in Players : q # p => ss[q] = sessions[q] /\ asked[q] = sessions[q]
  /\ Reaches(messages', x, p, says) /\ Speaks(ss, p) /\ Speaks(asked, p)
  /\ \/ says = "online"
     \/ messages' = messages
     \/ phase = "leavers" /\ p \in todo /\ Age(p) = Grace
  /\ says = "left" \/ n >= 1 \/ ss # sessions
  /\ \/ Loose(ss, messages', p) \subseteq Loose(sessions, messages, p)
     \/ n >= 1 /\ \E m : Loose(ss, messages', p) \subseteq Loose(sessions, messages, p) \cup {m}
  /\ \E m : Loose(asked, messages', p) \subseteq Loose(sessions, messages, p) \cup {m}

Serves(p) == \E ss, asked, n, x, says : Handles(p, ss, asked, n, x, says)

-----------------------------------------------------------------------------
(* Sessions and messages.                                                  *)

LEMMA OlderType ==
  ASSUME NEW age \in (0 .. Grace) \cup {None}, NEW n \in Nat
  PROVE  Older(age, n) \in (0 .. Grace) \cup {None}
BY MonitorAssumption DEF Older

LEMMA AgedType ==
  ASSUME NEW ss \in Sessions, NEW n \in Nat
  PROVE  LET aged == Aged(ss, n) IN
         /\ aged \in Sessions
         /\ \A p \in Players :
              /\ ss[p] = None => aged[p] = None
              /\ ss[p] # None =>
                   /\ aged[p] \in Session
                   /\ aged[p].message = ss[p].message /\ aged[p].failures = ss[p].failures
                   /\ aged[p].missing = Older(ss[p].missing, n)
<1>1. ASSUME NEW p \in Players, ss[p] # None
      PROVE  [ss[p] EXCEPT !.missing = Older(@, n)] \in Session
  <2>1. ss[p] \in Session
    BY <1>1 DEF Sessions
  <2>2. Older(ss[p].missing, n) \in (0 .. Grace) \cup {None}
    BY <2>1, OlderType DEF Session
  <2>3. QED BY <2>1, <2>2 DEF Session
<1>2. None \notin Session
  BY NoneApart
<1>3. QED BY <1>1, <1>2 DEF Sessions, Session, Aged

LEMMA AppendReaches ==
  ASSUME messages \in Messages, NEW p \in Players, NEW says \in Says
  PROVE  LET sent == Append(messages, [player |-> p, says |-> says]) IN
         /\ Reaches(sent, Len(sent), p, says)
         /\ Len(sent) \in Nat /\ Len(sent) \in DOMAIN sent
         /\ sent[Len(sent)] = [player |-> p, says |-> says]
<1> DEFINE new  == [player |-> p, says |-> says]
           sent == Append(messages, new)
<1>1. new \in [player : Players, says : Says \cup {"deleted"}]
  OBVIOUS
<1>2. sent \in Messages /\ Len(messages) \in Nat /\ Len(sent) = Len(messages) + 1
  BY <1>1 DEF Messages
<1>3. \A m \in DOMAIN messages : m \in DOMAIN sent /\ sent[m] = messages[m]
  BY <1>1 DEF Messages
<1>4. DOMAIN sent = 1 .. Len(sent) /\ DOMAIN messages = 1 .. Len(messages) /\ sent[Len(sent)] = new
  BY <1>1 DEF Messages
<1> HIDE DEF sent
<1>5. QED BY <1>2, <1>3, <1>4 DEF Reaches, sent

LEMMA StillReaches ==
  ASSUME messages \in Messages, NEW x, NEW p, NEW says
  PROVE  Reaches(messages, x, p, says)
BY DEF Reaches

LEMMA EditReaches ==
  ASSUME messages \in Messages, NEW p \in Players, NEW says \in Says,
         NEW m \in DOMAIN messages, messages[m].player = p
  PROVE  LET edited == [messages EXCEPT ![m].says = says] IN
         /\ Reaches(edited, m, p, says)
         /\ m \in Nat /\ m \in DOMAIN edited
         /\ edited[m] = [player |-> p, says |-> says]
<1> DEFINE edited == [messages EXCEPT ![m].says = says]
<1>1. /\ Len(messages) \in Nat /\ DOMAIN messages = 1 .. Len(messages)
      /\ \A i \in 1 .. Len(messages) : messages[i] \in [player : Players, says : Says \cup {"deleted"}]
  BY LenProperties, ElementOfSeq DEF Messages
<1>2. edited[m] = [player |-> p, says |-> says]
  BY <1>1
<1>3. \A i \in DOMAIN messages : i # m => edited[i] = messages[i]
  BY <1>1
<1>4. DOMAIN edited = 1 .. Len(messages)
  BY <1>1
<1>5. edited \in Messages
  <2>1. \A i \in 1 .. Len(messages) : edited[i] \in [player : Players, says : Says \cup {"deleted"}]
    BY <1>1, <1>2, <1>3
  <2>2. edited = [i \in 1 .. Len(messages) |-> edited[i]]
    BY <1>1
  <2>3. \E n \in Nat : edited \in [1 .. n -> [player : Players, says : Says \cup {"deleted"}]]
    BY <1>1, <2>1, <2>2
  <2>4. QED BY <2>3 DEF Messages
<1> HIDE DEF edited
<1>6. QED BY <1>1, <1>2, <1>3, <1>4, <1>5 DEF Reaches, edited

(* What the bot's functions may do and return.                             *)
LEMMA SendFair ==
  ASSUME messages \in Messages, NEW p \in Players, NEW says \in Says, NEW o \in SendOutcomes(p, says)
  PROVE  Fair(o, p, says)
<1> DEFINE sent == Append(messages, [player |-> p, says |-> says])
<1>1. /\ Reaches(sent, Len(sent), p, says)
      /\ Len(sent) \in Nat /\ Len(sent) \in DOMAIN sent
      /\ sent[Len(sent)] = [player |-> p, says |-> says]
  BY AppendReaches
<1>2. Reaches(messages, 0, p, says)
  BY StillReaches
<1>3. o \in {Outcome(sent, Len(sent), 0), Outcome(sent, None, 1), Outcome(messages, None, 1)}
  BY DEF SendOutcomes
<1> HIDE DEF sent
<1>4. CASE o = Outcome(sent, Len(sent), 0)
  <2>1. o.channel = sent /\ o.id = Len(sent) /\ o.cost = 0
    BY <1>4 DEF Outcome
  <2>2. QED BY <1>1, <2>1 DEF Fair
<1>5. CASE o = Outcome(sent, None, 1)
  <2>1. o.channel = sent /\ o.id = None /\ o.cost = 1
    BY <1>5 DEF Outcome
  <2>2. QED BY <1>1, <2>1 DEF Fair
<1>6. CASE o = Outcome(messages, None, 1)
  <2>1. o.channel = messages /\ o.id = None /\ o.cost = 1
    BY <1>6 DEF Outcome
  <2>2. QED BY <1>2, <2>1 DEF Fair
<1>7. QED BY <1>3, <1>4, <1>5, <1>6

LEMMA EditFair ==
  ASSUME messages \in Messages, NEW p \in Players, NEW says \in Says,
         NEW m \in DOMAIN messages, messages[m].player = p, NEW o \in EditOutcomes(p, m, says)
  PROVE  /\ Fair(o, p, says)
         /\ o.id # None => o.channel[m].says \in {says, "deleted"}
<1> DEFINE edited == [messages EXCEPT ![m].says = says]
<1>1. CASE messages[m].says = "deleted"
  <2>1. o \in SendOutcomes(p, says)
    BY <1>1 DEF EditOutcomes
  <2>2. Fair(o, p, says)
    BY <2>1, SendFair
  <2>3. ASSUME o.id # None
        PROVE  o.channel[m].says \in {says, "deleted"}
    <3>1. Reaches(o.channel, o.id, p, says) /\ o.channel[o.id] = [player |-> p, says |-> says]
      BY <2>2, <2>3 DEF Fair
    <3>2. QED BY <1>1, <3>1 DEF Reaches
  <2>4. QED BY <2>2, <2>3
<1>2. CASE messages[m].says # "deleted"
  <2>1. o \in {Outcome(edited, m, 0), Outcome(edited, None, 1), Outcome(messages, None, 1)}
    BY <1>2 DEF EditOutcomes
  <2>2. /\ Reaches(edited, m, p, says)
        /\ m \in Nat /\ m \in DOMAIN edited
        /\ edited[m] = [player |-> p, says |-> says]
    BY EditReaches
  <2>3. Reaches(messages, 0, p, says)
    BY StillReaches
  <2> HIDE DEF edited
  <2>4. CASE o = Outcome(edited, m, 0)
    <3>1. o.channel = edited /\ o.id = m /\ o.cost = 0
      BY <2>4 DEF Outcome
    <3>2. QED BY <2>2, <3>1 DEF Fair
  <2>5. CASE o = Outcome(edited, None, 1)
    <3>1. o.channel = edited /\ o.id = None /\ o.cost = 1
      BY <2>5 DEF Outcome
    <3>2. QED BY <2>2, <3>1 DEF Fair
  <2>6. CASE o = Outcome(messages, None, 1)
    <3>1. o.channel = messages /\ o.id = None /\ o.cost = 1
      BY <2>6 DEF Outcome
    <3>2. QED BY <2>3, <3>1 DEF Fair
  <2>7. QED BY <2>1, <2>4, <2>5, <2>6
<1>3. QED BY <1>1, <1>2

LEMMA OwnReaches ==
  ASSUME NEW ss, Own(ss, messages), NEW channel, NEW x, NEW p, NEW says, Reaches(channel, x, p, says)
  PROVE  Own(ss, channel)
BY DEF Own, Reaches

LEMMA UnknownReaches ==
  ASSUME NEW p \in Players, NEW says \in Says, NEW outcomes, \A o \in outcomes : Fair(o, p, says),
         NEW channel \in Unknown(outcomes)
  PROVE  \E x \in Nat : Reaches(channel, x, p, says)
<1>1. PICK o \in outcomes : o.id = None /\ channel = o.channel
  BY DEF Unknown
<1>2. o.id \notin Nat
  BY <1>1, MonitorAssumption
<1>3. QED BY <1>1, <1>2 DEF Fair
-----------------------------------------------------------------------------
(* The state file.                                                         *)

LEMMA NowFiled == ASSUME TypeOK, NEW asked PROVE Filed(Now, sessions, asked)
<1>1. Now.holds = saved /\ Now.cost = 0 /\ Now.failed = unsaved
  BY DEF Now
<1>2. unsaved \in BOOLEAN
  BY DEF TypeOK
<1>3. SavedState => Now.failed \/ Now.holds = sessions
  BY <1>1, Zenon DEF SavedState
<1>4. QED BY <1>1, <1>2, <1>3 DEF Filed

(* A write after another one, which wrote the sessions asked.              *)
LEMMA WriteFiled ==
  ASSUME NEW asked, NEW file, Filed(file, asked, asked), NEW ss, NEW written \in Write(file, ss)
  PROVE  Filed(written, ss, asked)
<1>1. file.cost \in Nat
  BY DEF Filed
<1>2. CASE written = [holds |-> ss, failed |-> FALSE, cost |-> file.cost]
  <2>1. written.holds = ss /\ written.failed = FALSE /\ written.cost = file.cost
    BY <1>2
  <2>2. QED BY <1>1, <2>1 DEF Filed
<1>3. CASE written = [holds |-> file.holds, failed |-> TRUE, cost |-> file.cost + 1]
  <2>1. written.holds = file.holds /\ written.failed = TRUE /\ written.cost = file.cost + 1
    BY <1>3
  <2>2. written.cost \in Nat /\ written.cost >= 1
    BY <1>1, <2>1
  <2>3. file.holds = asked \/ file.holds = saved
    BY DEF Filed
  <2>4. QED BY <2>1, <2>2, <2>3 DEF Filed
<1>4. QED BY <1>2, <1>3 DEF Write

(* The first write of a step.                                              *)
LEMMA FirstFiled ==
  ASSUME TypeOK, NEW ss, NEW asked, NEW file \in Write(Now, ss)
  PROVE  Filed(file, ss, asked)
<1>1. CASE file = [holds |-> ss, failed |-> FALSE, cost |-> 0]
  <2>1. file.holds = ss /\ file.failed = FALSE /\ file.cost = 0
    BY <1>1
  <2>2. file.cost \in Nat
    BY <2>1
  <2>3. QED BY <2>1, <2>2 DEF Filed
<1>2. CASE file = [holds |-> saved, failed |-> TRUE, cost |-> 1]
  <2>1. file.holds = saved /\ file.failed = TRUE /\ file.cost = 1
    BY <1>2
  <2>2. file.cost \in Nat /\ file.cost >= 1
    BY <2>1
  <2>3. QED BY <2>1, <2>2 DEF Filed
<1>3. QED BY <1>1, <1>2 DEF Write, Now

LEMMA IfChangedFiled ==
  ASSUME TypeOK, NEW ss, NEW asked, NEW file \in WriteIfChanged(ss)
  PROVE  Filed(file, ss, asked)
<1>1. CASE ss = sessions
  BY <1>1, NowFiled DEF WriteIfChanged
<1>2. CASE ss # sessions
  BY <1>2, FirstFiled DEF WriteIfChanged
<1>3. QED BY <1>1, <1>2

LEMMA SaveChange ==
  ASSUME TypeOK, NEW ss, NEW asked, NEW n, Save(ss, n) \/ SaveIfChanged(ss, n)
  PROVE  Change(ss, asked, n)
BY FirstFiled, IfChangedFiled DEF Save, SaveIfChanged, Change

(* _save_state: what is in memory is on the disk, or a fault was met.      *)
LEMMA ChangeEffect ==
  ASSUME TypeOK, NEW ss, NEW asked, NEW n \in Nat, Change(ss, asked, n)
  PROVE  /\ sessions' = ss
         /\ unsaved' \in BOOLEAN /\ faults' \in 0 .. Faults
         /\ faults' <= faults /\ (n >= 1 => faults' <= faults - 1)
         /\ \/ saved' = ss
            \/ saved' = asked /\ faults' <= faults - 1
            \/ saved' = saved /\ (ss = sessions \/ faults' <= faults - 1)
         /\ SavedState => SavedState'
<1>1. faults \in 0 .. Faults /\ Faults \in Nat
  BY MonitorAssumption DEF TypeOK
<1>2. PICK file : Filed(file, ss, asked) /\ Keep(ss, file, n)
  BY DEF Change
<1>3. /\ sessions' = ss /\ saved' = file.holds /\ unsaved' = file.failed
      /\ faults >= n + file.cost /\ faults' = faults - (n + file.cost)
  BY <1>2 DEF Keep, Cost
<1>4. file.cost \in Nat /\ file.failed \in BOOLEAN
  BY <1>2 DEF Filed
<1>5. /\ faults' \in 0 .. Faults /\ faults' <= faults /\ (n >= 1 => faults' <= faults - 1)
      /\ file.cost >= 1 => faults' <= faults - 1
  BY <1>1, <1>3, <1>4
<1>6. SavedState => SavedState'
  <2>1. SavedState => file.failed \/ file.holds = ss
    BY <1>2 DEF Filed
  <2>2. QED BY <1>3, <2>1, Zenon DEF SavedState
<1>7. unsaved' \in BOOLEAN
  BY <1>3, <1>4
<1>8. QED BY <1>2, <1>3, <1>5, <1>6, <1>7 DEF Filed

(* The part of TypeOK and Leaving that only the step of a player changes.  *)
Rest ==
  /\ where \in [Players -> Servers \cup {None}] /\ tracked \subseteq Servers
  /\ phase \in Phases
  /\ snap \in [Servers -> (SUBSET Players) \cup {Pending, Failed, Out}]
  /\ todo \subseteq Players /\ stuck \subseteq Players
  /\ absent \in [Players -> (0 .. Grace) \cup {None}]
  /\ moves \in 0 .. Moves

LEMMA TypedParts ==
  ASSUME Rest', messages' \in Messages, sessions' \in Sessions, saved' \in Sessions,
         unsaved' \in BOOLEAN, faults' \in 0 .. Faults,
         Own(sessions, messages)', Own(saved, messages)', Leaving'
  PROVE  Typed'
BY DEF Typed, TypeOK, Rest

LEMMA HandleRest ==
  ASSUME Typed, NEW p \in Players, Handle(p), stuck' \subseteq Players
  PROVE  Rest'
BY DEF Typed, TypeOK, Rest, Handle, world

(* Handling a player leaves the others to be handled as they are.          *)
LEMMA HandleLeaving ==
  ASSUME Typed, NEW p \in Players, Handle(p),
         \A q \in Players : q # p => sessions'[q] = sessions[q]
  PROVE  Leaving'
<1>1. todo' = todo \ {p} /\ phase' = phase /\ snap' = snap
  BY DEF Handle
<1>2. todo \subseteq Players
  BY DEF Typed, TypeOK
<1>3. AllHealthy' = AllHealthy /\ Observed' = Observed
  BY <1>1 DEF AllHealthy, Observed, Locations, Polled
<1>4. QED BY <1>1, <1>2, <1>3 DEF Typed, Leaving
LEMMA ZeroFailures == 0 \in 0 .. MaxFailures - 1
BY MonitorAssumption

(* The sessions that the poll's steps make.                                *)
LEMMA SessionChanges ==
  ASSUME Typed, NEW p \in Players
  PROVE  /\ [sessions EXCEPT ![p] = None] \in Sessions
         /\ Own([sessions EXCEPT ![p] = None], messages)
         /\ \A s \in Servers, m \in Nat :
              [sessions EXCEPT ![p] = [server |-> s, message |-> m, missing |-> None, failures |-> 0]]
                \in Sessions
         /\ sessions[p] # None =>
              /\ sessions[p] \in Session
              /\ \A age \in (0 .. Grace) \cup {None} : [sessions EXCEPT ![p].missing = age] \in Sessions
              /\ \A s \in Servers, m \in Nat :
                   [sessions EXCEPT ![p].server = s, ![p].message = m, ![p].missing = None] \in Sessions
              /\ sessions[p].failures + 1 < MaxFailures =>
                   \A age \in 0 .. Grace :
                     [sessions EXCEPT ![p].failures = @ + 1, ![p].missing = age] \in Sessions
<1>1. sessions \in [Players -> Session \cup {None}]
  BY DEF Typed, TypeOK, Sessions
<1>2. /\ [sessions EXCEPT ![p] = None] \in Sessions
      /\ Own([sessions EXCEPT ![p] = None], messages)
  BY <1>1 DEF Typed, Own, Sessions
<1>3. ASSUME NEW s \in Servers, NEW m \in Nat
      PROVE  [sessions EXCEPT ![p] = [server |-> s, message |-> m, missing |-> None, failures |-> 0]]
               \in Sessions
  <2>1. [server |-> s, message |-> m, missing |-> None, failures |-> 0] \in Session
    BY ZeroFailures DEF Session
  <2>2. QED BY <1>1, <2>1 DEF Sessions
<1>4. CASE sessions[p] # None
  <2> DEFINE r == sessions[p]
  <2>1. r \in Session
    BY <1>1, <1>4
  <2>2. ASSUME NEW age \in (0 .. Grace) \cup {None}
        PROVE  [sessions EXCEPT ![p].missing = age] \in Sessions
    <3>1. [r EXCEPT !.missing = age] \in Session
      BY <2>1 DEF Session
    <3>2. [sessions EXCEPT ![p] = [r EXCEPT !.missing = age]] \in Sessions
      BY <1>1, <3>1 DEF Sessions
    <3>3. QED BY <3>2
  <2>3. ASSUME NEW s \in Servers, NEW m \in Nat
        PROVE  [sessions EXCEPT ![p].server = s, ![p].message = m, ![p].missing = None] \in Sessions
    <3>1. [r EXCEPT !.server = s, !.message = m, !.missing = None] \in Session
      BY <2>1 DEF Session
    <3>2. [sessions EXCEPT ![p] = [r EXCEPT !.server = s, !.message = m, !.missing = None]] \in Sessions
      BY <1>1, <3>1 DEF Sessions
    <3>3. [sessions EXCEPT ![p].server = s, ![p].message = m, ![p].missing = None]
            = [sessions EXCEPT ![p] = [r EXCEPT !.server = s, !.message = m, !.missing = None]]
      BY <1>1
    <3>4. QED BY <3>2, <3>3
  <2>4. ASSUME r.failures + 1 < MaxFailures, NEW age \in 0 .. Grace
        PROVE  [sessions EXCEPT ![p].failures = @ + 1, ![p].missing = age] \in Sessions
    <3>0. r.failures + 1 \in 0 .. MaxFailures - 1
      BY <2>1, <2>4, MonitorAssumption DEF Session
    <3>1. [r EXCEPT !.failures = @ + 1, !.missing = age] \in Session
      BY <2>1, <3>0 DEF Session
    <3>2. [sessions EXCEPT ![p] = [r EXCEPT !.failures = @ + 1, !.missing = age]] \in Sessions
      BY <1>1, <3>1 DEF Sessions
    <3>3. [sessions EXCEPT ![p].failures = @ + 1, ![p].missing = age]
            = [sessions EXCEPT ![p] = [r EXCEPT !.failures = @ + 1, !.missing = age]]
      BY <1>1
    <3>4. QED BY <3>2, <3>3
  <2>5. r.failures + 1 < MaxFailures =>
          \A age \in 0 .. Grace : [sessions EXCEPT ![p].failures = @ + 1, ![p].missing = age] \in Sessions
    BY <2>4
  <2>6. \A age \in (0 .. Grace) \cup {None} : [sessions EXCEPT ![p].missing = age] \in Sessions
    BY <2>2
  <2>7. \A s \in Servers, m \in Nat :
          [sessions EXCEPT ![p].server = s, ![p].message = m, ![p].missing = None] \in Sessions
    BY <2>3
  <2>8. QED BY <1>2, <1>3, <2>1, <2>5, <2>6, <2>7
<1>5. QED BY <1>2, <1>3, <1>4
-----------------------------------------------------------------------------
(* Requests to Discord, and the sessions and messages after them.          *)

(* A step of the leavers is about a player with a session.                 *)
LEMMA HasSession ==
  ASSUME Typed, NEW p \in todo, phase = "leavers"
  PROVE  p \in Players /\ p \notin Observed /\ sessions[p] # None /\ AllHealthy
BY DEF Typed, TypeOK, Leaving

LEMMA MissingType ==
  ASSUME Typed, NEW p \in Players, sessions[p] # None
  PROVE  /\ sessions[p] \in Session
         /\ sessions[p].missing \in (0 .. Grace) \cup {None} /\ Age(p) \in 0 .. Grace
<1>1. sessions[p] \in Session
  BY SessionChanges
<1>2. QED BY <1>1, MonitorAssumption DEF Session, Age

(* An edit of a session's message.                                         *)
LEMMA SessionEdit ==
  ASSUME Typed, NEW p \in Players, sessions[p] # None, NEW says \in Says,
         NEW o \in EditOutcomes(p, sessions[p].message, says)
  PROVE  /\ Fair(o, p, says)
         /\ o.id # None => o.channel[sessions[p].message].says \in {says, "deleted"}
<1>1. /\ messages \in Messages /\ sessions[p].message \in DOMAIN messages
      /\ messages[sessions[p].message].player = p
  BY DEF Typed, TypeOK, Own
<1>2. QED BY <1>1, EditFair

(* Which requests there are.                                               *)
LEMMA Requests ==
  ASSUME NEW p, NEW o \in UnderWay(p)
  PROVE  \/ phase = "players" /\ IsNew(p) /\ o \in SendOutcomes(p, "online")
         \/ /\ phase = "players" /\ ~IsNew(p) /\ sessions[p].server \notin Locations(p)
            /\ o \in EditOutcomes(p, sessions[p].message, "online")
         \/ /\ phase = "leavers" /\ Age(p) = Grace
            /\ o \in EditOutcomes(p, sessions[p].message, "left")
BY DEF UnderWay

LEMMA RequestFair ==
  ASSUME Typed, NEW p \in todo, NEW o \in UnderWay(p)
  PROVE  \/ phase = "players" /\ Fair(o, p, "online")
         \/ phase = "leavers" /\ Age(p) = Grace /\ Fair(o, p, "left")
<1>1. p \in Players /\ messages \in Messages
  BY DEF Typed, TypeOK
<1>2. CASE phase = "players" /\ IsNew(p) /\ o \in SendOutcomes(p, "online")
  BY <1>1, <1>2, SendFair DEF Says
<1>3. CASE /\ phase = "players" /\ ~IsNew(p)
           /\ o \in EditOutcomes(p, sessions[p].message, "online")
  <2>1. sessions[p] # None
    BY <1>3 DEF IsNew
  <2>2. QED BY <1>1, <1>3, <2>1, SessionEdit DEF Says
<1>4. CASE /\ phase = "leavers" /\ Age(p) = Grace
           /\ o \in EditOutcomes(p, sessions[p].message, "left")
  BY <1>1, <1>4, HasSession, SessionEdit DEF Says
<1>5. QED BY <1>2, <1>3, <1>4, Requests

LEMMA FairReaches ==
  ASSUME NEW o, NEW p, NEW says, Fair(o, p, says)
  PROVE  /\ \E x \in Nat : Reaches(o.channel, x, p, says)
         /\ o.id = None => o.cost = 1
         /\ o.id # None => o.id \in Nat /\ o.cost = 0
<1>1. None \notin Nat
  BY MonitorAssumption
<1>2. QED BY <1>1 DEF Fair

(* The sessions when a request is sent.                                    *)
LEMMA AskingEffect ==
  ASSUME Typed, NEW p \in Players, phase = "players" \/ (phase = "leavers" /\ sessions[p] # None)
  PROVE  /\ Asking(p) \in Sessions
         /\ \A q \in Players : q # p => Asking(p)[q] = sessions[q]
         /\ Asking(p)[p] = None => sessions[p] = None \/ sessions[p].failures > 0
         /\ Asking(p)[p] # None =>
              /\ sessions[p] # None
              /\ Asking(p)[p].message = sessions[p].message
              /\ Asking(p)[p].failures = sessions[p].failures
         /\ phase = "leavers" => Asking(p)[p] # None /\ Asking(p)[p].missing = Age(p)
<1>1. sessions \in [Players -> Session \cup {None}] /\ sessions \in Sessions
  BY DEF Typed, TypeOK, Sessions
<1>2. CASE phase = "players" /\ IsNew(p)
  <2>1. Asking(p) = [sessions EXCEPT ![p] = None]
    BY <1>2 DEF Asking
  <2>2. sessions[p] = None \/ sessions[p].failures > 0
    BY <1>2 DEF IsNew
  <2>3. Asking(p) \in Sessions
    BY <2>1, SessionChanges
  <2>4. QED BY <1>1, <1>2, <2>1, <2>2, <2>3
<1>3. CASE phase = "players" /\ ~IsNew(p)
  BY <1>1, <1>3 DEF Asking, IsNew
<1>4. CASE phase = "leavers" /\ sessions[p] # None
  <2>1. Asking(p) = [sessions EXCEPT ![p].missing = Age(p)]
    BY <1>4 DEF Asking
  <2>2. sessions[p] \in Session /\ Age(p) \in 0 .. Grace
    BY <1>4, MissingType
  <2>3. Asking(p) \in Sessions
    <3>1. Age(p) \in (0 .. Grace) \cup {None}
      BY <2>2
    <3>2. [sessions EXCEPT ![p].missing = Age(p)] \in Sessions
      BY <1>4, <3>1, SessionChanges
    <3>3. QED BY <2>1, <3>2
  <2>4. Asking(p)[p] = [sessions[p] EXCEPT !.missing = Age(p)]
    BY <1>1, <2>1
  <2>5. /\ Asking(p)[p] \in Session
        /\ Asking(p)[p].message = sessions[p].message
        /\ Asking(p)[p].failures = sessions[p].failures
        /\ Asking(p)[p].missing = Age(p)
    BY <2>2, <2>4 DEF Session
  <2>6. Asking(p)[p] # None
    BY <2>5, NoneApart
  <2>7. QED BY <1>1, <1>4, <2>1, <2>3, <2>5, <2>6
<1>5. QED BY <1>2, <1>3, <1>4

(* What a request changes about the messages that are left behind.         *)
LEMMA LooseReaches ==
  ASSUME NEW ss, NEW channel, NEW x, NEW p, NEW says, Reaches(channel, x, p, says), NEW q
  PROVE  /\ Loose(ss, channel, q) \subseteq Loose(ss, messages, q) \cup {x}
         /\ says = "left" \/ q # p => Loose(ss, channel, q) \subseteq Loose(ss, messages, q)
BY DEF Loose, Reaches

(* Sessions that say the same of the messages.                             *)
LEMMA AlikeLoose ==
  ASSUME NEW ss, NEW tt, NEW channel, NEW p,
         ss[p] = None => tt[p] = None,
         ss[p] # None => tt[p] # None /\ tt[p].message = ss[p].message /\ tt[p].failures = ss[p].failures
  PROVE  Loose(tt, channel, p) = Loose(ss, channel, p)
BY DEF Loose

(* A player without a session, and one whose last edit failed.             *)
LEMMA ForgottenLoose ==
  ASSUME NEW ss, NEW p, NEW channel, sessions[p] = None \/ sessions[p].failures > 0
  PROVE  Loose(ss, channel, p) \subseteq Loose(sessions, channel, p)
BY DEF Loose

LEMMA AskingLoose ==
  ASSUME Typed, NEW p \in Players, phase = "players" \/ (phase = "leavers" /\ sessions[p] # None),
         NEW channel, NEW x, NEW says, Reaches(channel, x, p, says)
  PROVE  /\ \A q \in Players : Loose(Asking(p), channel, q) \subseteq Loose(sessions, messages, q) \cup {x}
         /\ phase = "leavers" /\ says = "left" =>
              Loose(Asking(p), channel, p) \subseteq Loose(sessions, messages, p)
<1>1. \A q \in Players : Loose(Asking(p), channel, q) \subseteq Loose(sessions, channel, q)
  <2>1. ASSUME NEW q \in Players, q # p
        PROVE  Loose(Asking(p), channel, q) = Loose(sessions, channel, q)
    BY <2>1, AskingEffect, AlikeLoose
  <2>2. CASE Asking(p)[p] = None
    BY <2>1, <2>2, AskingEffect, ForgottenLoose
  <2>3. CASE Asking(p)[p] # None
    BY <2>1, <2>3, AskingEffect, AlikeLoose
  <2>4. QED BY <2>2, <2>3
<1>2. QED BY <1>1, LooseReaches

LEMMA OwnSpeaks ==
  ASSUME Typed, NEW p \in Players, NEW x, NEW q, NEW says, Reaches(messages', x, q, says), NEW ss,
         ss[p] # None => sessions[p] # None /\ ss[p].message = sessions[p].message
  PROVE  Speaks(ss, p)
BY DEF Typed, Own, Reaches, Speaks

-----------------------------------------------------------------------------
(* The steps of players, one by one.                                       *)

LEMMA JoinedServes == ASSUME Typed, NEW p \in Players, Joined(p) PROVE Serves(p)
<1>1. /\ sessions \in [Players -> Session \cup {None}] /\ TypeOK /\ p \in todo
      /\ phase = "players" /\ IsNew(p) /\ (sessions[p] = None \/ sessions[p].failures > 0)
  BY DEF Typed, TypeOK, Sessions, Joined, IsNew
<1>2. PICK s \in Locations(p), file \in Prepared(p), o \in UnderWay(p) :
        /\ messages' = o.channel
        /\ IF o.id = None
             THEN Keep(Asking(p), file, o.cost)
             ELSE LET ss == [sessions EXCEPT ![p] = [server |-> s, message |-> o.id,
                                                     missing |-> None, failures |-> 0]] IN
                  \E written \in Write(file, ss) : Keep(ss, written, o.cost)
  BY DEF Joined
<1>3. Fair(o, p, "online") /\ s \in Servers
  BY <1>1, RequestFair DEF Locations, Polled
<1>4. Filed(file, Asking(p), Asking(p))
  BY <1>1, IfChangedFiled DEF Prepared
<1>5. Asking(p) \in Sessions /\ Asking(p)[p] = None /\ \A q \in Players : q # p => Asking(p)[q] = sessions[q]
  BY <1>1, AskingEffect DEF Asking
<1>6. Speaks(Asking(p), p)
  BY <1>5 DEF Speaks
<1>7. CASE o.id = None
  <2>1. PICK x \in Nat : o.cost = 1 /\ Reaches(messages', x, p, "online")
    BY <1>2, <1>3, <1>7, FairReaches
  <2>2. Change(Asking(p), Asking(p), 1)
    BY <1>2, <1>4, <1>7, <2>1 DEF Change
  <2>3. Loose(Asking(p), messages', p) \subseteq Loose(sessions, messages, p) \cup {x}
    BY <1>1, <2>1, AskingLoose
  <2>4. Handles(p, Asking(p), Asking(p), 1, x, "online")
    BY <1>5, <1>6, <2>1, <2>2, <2>3 DEF Handles, Says
  <2>5. QED BY <2>4 DEF Serves
<1>8. CASE o.id # None
  <2> DEFINE new == [server |-> s, message |-> o.id, missing |-> None, failures |-> 0]
             ss  == [sessions EXCEPT ![p] = new]
  <2>1. /\ o.id \in Nat /\ o.cost = 0 /\ Reaches(messages', o.id, p, "online")
        /\ o.id \in DOMAIN messages' /\ messages'[o.id] = [player |-> p, says |-> "online"]
    BY <1>2, <1>3, <1>8 DEF Fair
  <2>2. ss \in Sessions
    BY <1>3, <2>1, SessionChanges
  <2>3. ss[p] = new /\ new # None /\ \A q \in Players : q # p => ss[q] = sessions[q]
    BY <1>1, <1>3, <2>1, ZeroFailures, NoneApart DEF Session
  <2>4. ss[p].message = o.id /\ ss[p].failures = 0
    BY <2>3
  <2>5. PICK written \in Write(file, ss) : Keep(ss, written, 0)
    BY <1>2, <1>8, <2>1
  <2> HIDE DEF ss, new
  <2>6. Change(ss, Asking(p), 0)
    BY <1>4, <2>5, WriteFiled DEF Change
  <2>7. ss # sessions
    BY <1>1, <2>3, <2>4
  <2>8. Speaks(ss, p)
    BY <2>1, <2>4 DEF Speaks
  <2>9. Loose(ss, messages', p) \subseteq Loose(sessions, messages, p)
    <3>1. \A m \in Loose(ss, messages', p) : m # o.id
      BY <2>3, <2>4 DEF Loose
    <3>2. Loose(ss, messages', p) \subseteq Loose(ss, messages, p) \cup {o.id}
      BY <2>1, LooseReaches
    <3>3. Loose(ss, messages, p) \subseteq Loose(sessions, messages, p)
      BY <1>1, ForgottenLoose
    <3>4. QED BY <3>1, <3>2, <3>3
  <2>10. \E m : Loose(Asking(p), messages', p) \subseteq Loose(sessions, messages, p) \cup {m}
    BY <1>1, <2>1, AskingLoose
  <2>11. Handles(p, ss, Asking(p), 0, o.id, "online")
    BY <1>5, <1>6, <2>1, <2>2, <2>3, <2>6, <2>7, <2>8, <2>9, <2>10 DEF Handles, Says
  <2>12. QED BY <2>11 DEF Serves
<1>9. QED BY <1>7, <1>8

(* A step that only changes the missing_since of a session.                *)
LEMMA AgeServes ==
  ASSUME Typed, NEW p \in Players, sessions[p] # None, messages' = messages,
         NEW age \in (0 .. Grace) \cup {None}, SaveIfChanged([sessions EXCEPT ![p].missing = age], 0)
  PROVE  Serves(p)
<1> DEFINE ss == [sessions EXCEPT ![p].missing = age]
<1>1. sessions \in [Players -> Session \cup {None}] /\ sessions[p] \in Session /\ TypeOK
  BY DEF Typed, TypeOK, Sessions
<1>2. ss \in Sessions
  BY SessionChanges
<1>3. ss[p] = [sessions[p] EXCEPT !.missing = age] /\ \A q \in Players : q # p => ss[q] = sessions[q]
  BY <1>1
<1>4. ss[p] \in Session /\ ss[p].message = sessions[p].message /\ ss[p].failures = sessions[p].failures
  BY <1>1, <1>3 DEF Session
<1>5. Change(ss, ss, 0)
  BY <1>1, SaveChange
<1> HIDE DEF ss
<1>6. ss[p] # None
  BY <1>4, NoneApart
<1>7. Reaches(messages', 0, p, "left")
  BY StillReaches DEF Typed, TypeOK
<1>8. Speaks(ss, p)
  BY <1>4, <1>7, OwnSpeaks
<1>9. Loose(ss, messages', p) = Loose(sessions, messages, p)
  BY <1>4, <1>6, AlikeLoose
<1>10. Handles(p, ss, ss, 0, 0, "left")
  BY <1>2, <1>3, <1>5, <1>7, <1>8, <1>9 DEF Handles, Says
<1>11. QED BY <1>10 DEF Serves

LEMMA StaysServes == ASSUME Typed, NEW p \in Players, Stays(p) \/ Missed(p) PROVE Serves(p)
<1>1. CASE Stays(p)
  BY <1>1, AgeServes DEF Stays
<1>2. CASE Missed(p)
  <2>1. sessions[p] # None /\ messages' = messages
        /\ SaveIfChanged([sessions EXCEPT ![p].missing = Age(p)], 0)
    BY <1>2, HasSession DEF Missed
  <2>2. Age(p) \in (0 .. Grace) \cup {None}
    BY <2>1, MissingType
  <2>3. QED BY <2>1, <2>2, AgeServes
<1>3. QED BY <1>1, <1>2

(* An edit that is carried out is the message's, or the message was gone.  *)
LEMMA EditDone ==
  ASSUME NEW p, NEW m \in DOMAIN messages, NEW says \in Says, NEW o \in EditOutcomes(p, m, says),
         o.id # None
  PROVE  o.id = m \/ messages[m].says = "deleted"
<1>1. CASE messages[m].says = "deleted"
  BY <1>1
<1>2. CASE messages[m].says # "deleted"
  <2> DEFINE edited == [messages EXCEPT ![m].says = says]
  <2>1. o \in {Outcome(edited, m, 0), Outcome(edited, None, 1), Outcome(messages, None, 1)}
    BY <1>2 DEF EditOutcomes
  <2>2. o.id \in {m, None}
    BY <2>1 DEF Outcome
  <2>3. QED BY <2>2
<1>3. QED BY <1>1, <1>2

LEMMA TransferredServes == ASSUME Typed, NEW p \in Players, Transferred(p) PROVE Serves(p)
<1>1. /\ sessions \in [Players -> Session \cup {None}] /\ sessions[p] # None /\ sessions[p] \in Session
      /\ sessions[p].failures = 0 /\ sessions[p].server \notin Locations(p)
      /\ TypeOK /\ sessions \in Sessions /\ p \in todo /\ phase = "players" /\ ~IsNew(p)
  BY DEF Typed, TypeOK, Sessions, Transferred, IsNew
<1>2. PICK s \in Locations(p), o \in UnderWay(p) :
        /\ messages' = o.channel
        /\ IF o.id = None
             THEN UNCHANGED <<sessions, saved, unsaved>> /\ Cost(o.cost)
             ELSE Save([sessions EXCEPT ![p].server = s, ![p].message = o.id,
                                        ![p].missing = None], o.cost)
  BY DEF Transferred
<1>3. Fair(o, p, "online") /\ s \in Servers /\ o \in EditOutcomes(p, sessions[p].message, "online")
  BY <1>1, RequestFair, Requests DEF Locations, Polled
<1>4. CASE o.id = None
  <2>1. PICK x \in Nat : o.cost = 1 /\ Reaches(messages', x, p, "online")
    BY <1>2, <1>3, <1>4, FairReaches
  <2>2. Change(sessions, sessions, 1)
    <3>1. UNCHANGED <<sessions, saved, unsaved>> /\ Cost(1)
      BY <1>2, <1>4, <2>1
    <3>2. Now.holds = saved /\ Now.failed = unsaved /\ 1 + Now.cost = 1
      BY DEF Now
    <3>3. Keep(sessions, Now, 1)
      BY <3>1, <3>2, Zenon DEF Keep
    <3>4. QED BY <1>1, <3>3, NowFiled DEF Change
  <2>3. Speaks(sessions, p)
    BY <2>1, OwnSpeaks
  <2>4. Loose(sessions, messages', p) \subseteq Loose(sessions, messages, p) \cup {x}
    BY <2>1, LooseReaches
  <2>5. Handles(p, sessions, sessions, 1, x, "online")
    BY <1>1, <2>1, <2>2, <2>3, <2>4 DEF Handles, Says
  <2>6. QED BY <2>5 DEF Serves
<1>5. CASE o.id # None
  <2> DEFINE ss == [sessions EXCEPT ![p].server = s, ![p].message = o.id, ![p].missing = None]
             y  == sessions[p].message
  <2>1. /\ o.id \in Nat /\ o.cost = 0 /\ Reaches(messages', o.id, p, "online")
        /\ o.id \in DOMAIN messages' /\ messages'[o.id] = [player |-> p, says |-> "online"]
    BY <1>2, <1>3, <1>5 DEF Fair
  <2>2. ss \in Sessions /\ Save(ss, 0)
    BY <1>1, <1>2, <1>3, <1>5, <2>1, SessionChanges
  <2>3. /\ ss[p].message = o.id /\ ss[p].failures = 0 /\ ss[p].server = s
        /\ \A q \in Players : q # p => ss[q] = sessions[q]
    BY <1>1 DEF Session
  <2>4. ss # sessions
    BY <1>1, <1>2, <2>3
  <2>5. ss[p] # None
    <3>1. ss[p] \in Session
      BY <1>1, <1>3, <2>1 DEF Session
    <3>2. QED BY <3>1, NoneApart
  <2>6. o.id = y \/ messages[y].says = "deleted"
    BY <1>1, <1>3, <1>5, EditDone DEF Typed, Own, Says
  <2> HIDE DEF ss
  <2>7. Change(ss, ss, 0)
    BY <1>1, <2>2, SaveChange
  <2>8. Speaks(ss, p)
    BY <2>1, <2>3 DEF Speaks
  <2>9. Loose(ss, messages', p) \subseteq Loose(sessions, messages, p)
    <3>1. \A m \in Loose(ss, messages', p) : m # o.id
      BY <2>3, <2>5 DEF Loose
    <3>2. Loose(ss, messages', p) \subseteq Loose(ss, messages, p) \cup {o.id}
      BY <2>1, LooseReaches
    <3>3. \A m \in Loose(ss, messages, p) : m # o.id => m # y
      BY <2>6 DEF Loose
    <3>4. \A m \in Loose(ss, messages, p) : m # y => m \in Loose(sessions, messages, p)
      BY DEF Loose
    <3>5. QED BY <3>1, <3>2, <3>3, <3>4
  <2>10. Handles(p, ss, ss, 0, o.id, "online")
    BY <2>1, <2>2, <2>3, <2>4, <2>7, <2>8, <2>9 DEF Handles, Says
  <2>11. QED BY <2>10 DEF Serves
<1>6. QED BY <1>4, <1>5

LEMMA FinishedServes == ASSUME Typed, NEW p \in Players, Finished(p) PROVE Serves(p)
<1>1. p \in todo /\ phase = "leavers" /\ Age(p) = Grace /\ TypeOK
  BY DEF Typed, Finished
<1>2. /\ sessions \in [Players -> Session \cup {None}] /\ sessions[p] # None /\ sessions[p] \in Session
  BY <1>1, HasSession DEF Typed, TypeOK, Sessions
<1>3. PICK file \in Prepared(p), o \in UnderWay(p) :
        LET again == o.id = None /\ sessions[p].failures + 1 < MaxFailures
            ss    == IF again THEN [Asking(p) EXCEPT ![p].failures = @ + 1]
                              ELSE [sessions EXCEPT ![p] = None]
        IN  /\ messages' = o.channel
            /\ \E written \in Write(file, ss) : Keep(ss, written, o.cost)
  BY DEF Finished
<1> DEFINE again == o.id = None /\ sessions[p].failures + 1 < MaxFailures
           y     == sessions[p].message
<1>4. o \in EditOutcomes(p, y, "left") /\ Fair(o, p, "left")
  BY <1>1, RequestFair, Requests
<1>5. o.id # None => o.channel[y].says \in {"left", "deleted"}
  BY <1>2, <1>4, SessionEdit DEF Says
<1>6. PICK x \in Nat : Reaches(messages', x, p, "left")
  BY <1>3, <1>4, FairReaches
<1>7. o.cost \in Nat /\ (o.id = None => o.cost = 1)
  BY <1>4, FairReaches
<1>8. Filed(file, Asking(p), Asking(p))
  BY <1>1, IfChangedFiled DEF Prepared
<1>9. /\ Asking(p) \in Sessions /\ Speaks(Asking(p), p)
      /\ \A q \in Players : q # p => Asking(p)[q] = sessions[q]
  BY <1>1, <1>2, <1>6, AskingEffect, OwnSpeaks
<1>10. \E m : Loose(Asking(p), messages', p) \subseteq Loose(sessions, messages, p) \cup {m}
  BY <1>1, <1>2, <1>6, AskingLoose
<1>11. ASSUME NEW ss \in Sessions, NEW written \in Write(file, ss), Keep(ss, written, o.cost),
              Speaks(ss, p), \A q \in Players : q # p => ss[q] = sessions[q],
              o.id # None => ss[p] = None
       PROVE  Serves(p)
  <2>1. Change(ss, Asking(p), o.cost)
    BY <1>8, <1>11, WriteFiled DEF Change
  <2>2. Loose(ss, messages', p) \subseteq Loose(sessions, messages, p) \cup {y}
    <3>1. Loose(ss, messages', p) \subseteq Loose(ss, messages, p)
      BY <1>6, LooseReaches
    <3>2. \A m \in Loose(ss, messages, p) : m # y => m \in Loose(sessions, messages, p)
      BY DEF Loose
    <3>3. QED BY <3>1, <3>2
  <2>3. o.id # None => y \notin Loose(ss, messages', p)
    BY <1>3, <1>5 DEF Loose
  <2>4. \/ Loose(ss, messages', p) \subseteq Loose(sessions, messages, p)
        \/ o.cost >= 1 /\ \E m : Loose(ss, messages', p) \subseteq Loose(sessions, messages, p) \cup {m}
    <3>1. CASE o.id # None
      BY <2>2, <2>3, <3>1
    <3>2. CASE o.id = None
      BY <1>7, <2>2, <3>2
    <3>3. QED BY <3>1, <3>2
  <2>5. Handles(p, ss, Asking(p), o.cost, x, "left")
    BY <1>1, <1>6, <1>7, <1>9, <1>10, <1>11, <2>1, <2>4 DEF Handles, Says
  <2>6. QED BY <2>5 DEF Serves
<1>12. CASE again
  <2> DEFINE ss == [Asking(p) EXCEPT ![p].failures = @ + 1]
  <2>1. Asking(p) = [sessions EXCEPT ![p].missing = Age(p)]
    BY <1>1 DEF Asking
  <2>2. Age(p) \in 0 .. Grace
    BY <1>2, MissingType
  <2>3. ss = [sessions EXCEPT ![p].failures = @ + 1, ![p].missing = Age(p)]
    BY <1>2, <2>1 DEF Session
  <2>4. ss \in Sessions
    BY <1>2, <1>12, <2>2, <2>3, SessionChanges
  <2>5. PICK written \in Write(file, ss) : Keep(ss, written, o.cost)
    BY <1>3, <1>12
  <2> HIDE DEF ss
  <2>6. ss[p].message = y /\ \A q \in Players : q # p => ss[q] = sessions[q]
    BY <1>2, <2>3
  <2>7. Speaks(ss, p)
    BY <1>2, <1>6, <2>6, OwnSpeaks
  <2>8. QED BY <1>11, <1>12, <2>4, <2>5, <2>6, <2>7
<1>13. CASE ~again
  <2> DEFINE ss == [sessions EXCEPT ![p] = None]
  <2>1. ss \in Sessions /\ ss[p] = None /\ \A q \in Players : q # p => ss[q] = sessions[q]
    BY <1>2, SessionChanges
  <2>2. PICK written \in Write(file, ss) : Keep(ss, written, o.cost)
    BY <1>3, <1>13
  <2> HIDE DEF ss
  <2>3. Speaks(ss, p)
    BY <2>1 DEF Speaks
  <2>4. QED BY <1>11, <2>1, <2>2, <2>3
<1>14. QED BY <1>12, <1>13

LEMMA PollBreaksServes == ASSUME Typed, NEW p \in Players, PollBreaks(p) PROVE Serves(p)
<1>1. PICK o \in UnderWay(p), file \in Prepared(p) :
        p \in todo /\ o.id = None /\ messages' = o.channel /\ Keep(Asking(p), file, 1)
  BY DEF PollBreaks, Unknown
<1>2. Change(Asking(p), Asking(p), 1)
  BY <1>1, IfChangedFiled DEF Prepared, Change, Typed
<1>3. ASSUME NEW says \in Says, Fair(o, p, says), phase = "players" \/ (phase = "leavers" /\ sessions[p] # None),
             says = "online" \/ (phase = "leavers" /\ Age(p) = Grace)
      PROVE  Serves(p)
  <2>1. PICK x \in Nat : Reaches(messages', x, p, says)
    BY <1>1, <1>3, FairReaches
  <2>2. /\ Asking(p) \in Sessions /\ Speaks(Asking(p), p)
        /\ \A q \in Players : q # p => Asking(p)[q] = sessions[q]
    BY <1>3, <2>1, AskingEffect, OwnSpeaks
  <2>3. Loose(Asking(p), messages', p) \subseteq Loose(sessions, messages, p) \cup {x}
    BY <1>3, <2>1, AskingLoose
  <2>4. Handles(p, Asking(p), Asking(p), 1, x, says)
    BY <1>1, <1>2, <1>3, <2>1, <2>2, <2>3 DEF Handles
  <2>5. QED BY <2>4 DEF Serves
<1>4. CASE phase = "players" /\ Fair(o, p, "online")
  BY <1>3, <1>4 DEF Says
<1>5. CASE phase = "leavers" /\ Age(p) = Grace /\ Fair(o, p, "left")
  BY <1>1, <1>3, <1>5, HasSession DEF Says
<1>6. QED BY <1>1, <1>4, <1>5, RequestFair

-----------------------------------------------------------------------------
(* Type correctness, step by step.                                         *)

LEMMA ServedType ==
  ASSUME Typed, NEW p \in Players, Serves(p)
  PROVE  /\ messages' \in Messages /\ sessions' \in Sessions /\ saved' \in Sessions
         /\ unsaved' \in BOOLEAN /\ faults' \in 0 .. Faults
         /\ Own(sessions, messages)' /\ Own(saved, messages)'
         /\ \A q \in Players : q # p => sessions'[q] = sessions[q]
<1>1. PICK ss, asked, n, x, says : Handles(p, ss, asked, n, x, says)
  BY DEF Serves
<1>2. /\ ss \in Sessions /\ asked \in Sessions /\ n \in Nat /\ Change(ss, asked, n)
      /\ \A q \in Players : q # p => ss[q] = sessions[q] /\ asked[q] = sessions[q]
      /\ Reaches(messages', x, p, says) /\ Speaks(ss, p) /\ Speaks(asked, p)
  BY <1>1 DEF Handles
<1>3. /\ sessions' = ss /\ unsaved' \in BOOLEAN /\ faults' \in 0 .. Faults
      /\ saved' = ss \/ saved' = asked \/ saved' = saved
  BY <1>2, ChangeEffect DEF Typed
<1>4. Own(sessions, messages') /\ Own(saved, messages') /\ messages' \in Messages
  BY <1>2, OwnReaches DEF Typed, Reaches
<1>5. Own(ss, messages') /\ Own(asked, messages')
  BY <1>2, <1>4 DEF Own, Speaks
<1>6. saved \in Sessions
  BY DEF Typed, TypeOK
<1>7. Own(sessions', messages') /\ Own(saved', messages')
  BY <1>3, <1>4, <1>5
<1>8. QED BY <1>2, <1>3, <1>4, <1>6, <1>7

LEMMA HandledType ==
  ASSUME Typed, NEW p \in Players, Joined(p) \/ Stays(p) \/ Transferred(p) \/ Missed(p) \/ Finished(p)
  PROVE  Typed'
<1>1. Handle(p)
  BY DEF Joined, Stays, Transferred, Missed, Finished
<1>2. stuck' \subseteq Players
  BY DEF Joined, Stays, Transferred, Missed, Finished, Typed, TypeOK
<1>3. Serves(p)
  BY JoinedServes, StaysServes, TransferredServes, FinishedServes
<1>4. Leaving'
  BY <1>1, <1>3, ServedType, HandleLeaving
<1>5. QED BY <1>1, <1>2, <1>3, <1>4, ServedType, HandleRest, TypedParts

(* A step after which no poll is under way, or one that has only begun.    *)
LEMMA IdleRest ==
  ASSUME Typed, phase' \in {"sleep", "ask"}, todo' \subseteq Players, stuck' \subseteq Players,
         tracked' \subseteq Servers, where' \in [Players -> Servers \cup {None}],
         absent' \in [Players -> (0 .. Grace) \cup {None}], moves' \in 0 .. Moves,
         snap' \in [Servers -> (SUBSET Players) \cup {Pending, Failed, Out}]
  PROVE  Rest' /\ Leaving'
<1>1. Leaving'
  BY DEF Leaving
<1>2. Rest'
  BY DEF Rest, Phases
<1>3. QED BY <1>1, <1>2

LEMMA IdleSnap ==
  /\ [s \in Servers |-> Out] \in [Servers -> (SUBSET Players) \cup {Pending, Failed, Out}]
  /\ [s \in Servers |-> IF s \in tracked THEN Pending ELSE Out]
       \in [Servers -> (SUBSET Players) \cup {Pending, Failed, Out}]
<1> DEFINE Answers == (SUBSET Players) \cup {Pending, Failed, Out}
<1>1. Out \in Answers /\ Pending \in Answers
  BY Zenon
<1> HIDE DEF Answers
<1>2. [s \in Servers |-> Out] \in [Servers -> Answers]
  BY <1>1
<1>3. [s \in Servers |-> IF s \in tracked THEN Pending ELSE Out] \in [Servers -> Answers]
  BY <1>1
<1>4. QED BY <1>2, <1>3 DEF Answers

LEMMA PollBreaksType ==
  ASSUME Typed, NEW p \in Players, PollBreaks(p)
  PROVE  Typed'
<1>1. /\ phase' = "sleep" /\ todo' = {}
      /\ snap' = [s \in Servers |-> Out]
      /\ UNCHANGED <<world, absent, moves>>
      /\ stuck' \subseteq Players
  BY DEF PollBreaks, Typed, TypeOK, Missing
<1>2. Rest' /\ Leaving'
  BY <1>1, IdleRest, IdleSnap DEF world, Typed, TypeOK
<1>3. QED BY <1>2, PollBreaksServes, ServedType, TypedParts

LEMMA PausedSessions ==
  ASSUME Typed
  PROVE  /\ Paused(sessions) \in Sessions
         /\ \A p \in Players :
              /\ sessions[p] = None => Paused(sessions)[p] = None
              /\ sessions[p] # None =>
                   /\ Paused(sessions)[p] \in Session
                   /\ Paused(sessions)[p].message = sessions[p].message
                   /\ Paused(sessions)[p].failures = sessions[p].failures
                   /\ Paused(sessions)[p].missing =
                        IF p \in Observed THEN sessions[p].missing ELSE None
<1>1. sessions \in [Players -> Session \cup {None}]
  BY DEF Typed, TypeOK, Sessions
<1>2. ASSUME NEW p \in Players, sessions[p] # None
      PROVE  LET r == [sessions[p] EXCEPT !.missing = None] IN
             r \in Session /\ r.message = sessions[p].message /\ r.failures = sessions[p].failures
             /\ r.missing = None
  <2>1. sessions[p] \in Session
    BY <1>1, <1>2
  <2>2. QED BY <2>1 DEF Session
<1>3. QED BY <1>1, <1>2 DEF Sessions, Paused

LEMMA AllHandledType ==
  ASSUME Typed, AllHandled
  PROVE  Typed'
<1>1. messages' = messages /\ UNCHANGED <<world, absent, moves>> /\ todo = {} /\ messages \in Messages
  BY DEF AllHandled, Typed, TypeOK
<1>2. CASE AllHealthy
  <2>1. /\ phase' = "leavers" /\ todo' = Leavers
        /\ UNCHANGED <<snap, sessions, saved, unsaved, stuck, faults>>
    BY <1>2 DEF AllHandled
  <2>2. Leaving'
    BY <1>2, <2>1 DEF Leaving, Leavers, AllHealthy, Observed, Locations, Polled
  <2>3. Rest'
    BY <1>1, <2>1 DEF Rest, world, Typed, TypeOK, Leavers, Phases
  <2>4. QED BY <1>1, <2>1, <2>2, <2>3, TypedParts DEF Typed, TypeOK
<1>3. CASE ~AllHealthy
  <2>1. /\ phase' = "sleep" /\ snap' = [s \in Servers |-> Out] /\ UNCHANGED todo
        /\ stuck' \subseteq Players /\ SaveIfChanged(Paused(sessions), 0)
    BY <1>3 DEF AllHandled, Typed, TypeOK
  <2>2. Rest' /\ Leaving'
    BY <1>1, <2>1, IdleRest, IdleSnap DEF world, Typed, TypeOK
  <2>3. Paused(sessions) \in Sessions
    BY PausedSessions
  <2>4. Own(Paused(sessions), messages)
    BY PausedSessions DEF Typed, Own
  <2>5. /\ sessions' \in Sessions /\ saved' \in Sessions
        /\ unsaved' \in BOOLEAN /\ faults' \in 0 .. Faults
        /\ Own(sessions, messages)' /\ Own(saved, messages)'
    <3>1. /\ sessions' = Paused(sessions) /\ saved' \in {saved, Paused(sessions)}
          /\ unsaved' \in BOOLEAN /\ faults' \in 0 .. Faults
      BY <2>1, SaveChange, ChangeEffect DEF Typed
    <3>2. Own(sessions', messages') /\ Own(saved', messages')
      BY <1>1, <2>4, <3>1 DEF Typed
    <3>3. saved \in Sessions
      BY DEF Typed, TypeOK
    <3>4. QED BY <2>3, <3>1, <3>2, <3>3
  <2>6. QED BY <1>1, <2>2, <2>5, TypedParts
<1>4. QED BY <1>2, <1>3

LEMMA OwnAged ==
  ASSUME NEW ss \in Sessions, NEW channel, Own(ss, channel), NEW n \in Nat
  PROVE  Own(Aged(ss, n), channel)
BY AgedType DEF Own

LEMMA AnswersType ==
  ASSUME Typed, PollBegins \/ (\E s \in Servers : Answered(s)) \/ AllAnswered \/ PollEnds
  PROVE  Typed'
<1>1. /\ sessions \in Sessions /\ saved \in Sessions /\ messages' = messages /\ messages \in Messages
      /\ unsaved' = unsaved /\ unsaved \in BOOLEAN
  BY DEF Typed, TypeOK, PollBegins, Answered, AllAnswered, PollEnds
<1>2. CASE PollBegins
  <2>1. Rest' /\ Leaving'
    BY <1>2, IdleRest, IdleSnap DEF PollBegins, world, Typed, TypeOK
  <2>2. UNCHANGED <<sessions, saved, faults>>
    BY <1>2 DEF PollBegins
  <2>3. QED BY <1>1, <2>1, <2>2, TypedParts DEF Typed, TypeOK
<1>3. ASSUME NEW s \in Servers, Answered(s)
      PROVE  Typed'
  <2>1. PICK answer \in Snapshots(s) :
          snap' = [snap EXCEPT ![s] = answer] /\ Cost(IF answer = Failed THEN 1 ELSE 0)
    BY <1>3 DEF Answered
  <2>2. Queried(s) \in SUBSET Players
    BY DEF Queried
  <2>3. Rest' /\ Leaving'
    <3>1. answer \in (SUBSET Players) \cup {Pending, Failed, Out}
      <4>1. answer = Queried(s) \/ answer = Failed
        BY <2>1 DEF Snapshots
      <4>2. CASE answer = Failed
        BY <4>2, Zenon
      <4>3. CASE answer = Queried(s)
        <5>1. answer \in SUBSET Players
          BY <2>2, <4>3
        <5>2. QED BY <5>1, Zenon
      <4>4. QED BY <4>1, <4>2, <4>3
    <3>2. phase' = "ask" /\ UNCHANGED <<world, todo, stuck, absent, moves>>
      BY <1>3 DEF Answered
    <3>3. snap' \in [Servers -> (SUBSET Players) \cup {Pending, Failed, Out}]
      BY <2>1, <3>1 DEF Typed, TypeOK
    <3>4. QED BY <3>2, <3>3, IdleRest DEF world, Typed, TypeOK
  <2>4. faults' \in 0 .. Faults
    BY <2>1, MonitorAssumption DEF Cost, Typed, TypeOK
  <2>5. UNCHANGED <<sessions, saved>>
    BY <1>3 DEF Answered
  <2>6. QED BY <1>1, <2>3, <2>4, <2>5, TypedParts DEF Typed, TypeOK
<1>4. CASE AllAnswered
  <2>1. /\ phase' = "players" /\ todo' = Observed /\ sessions' = Aged(sessions, 1) /\ saved' = Aged(saved, 1)
        /\ UNCHANGED <<world, snap, stuck, moves, faults>>
    BY <1>4 DEF AllAnswered
  <2>2. absent' \in [Players -> (0 .. Grace) \cup {None}]
    <3>1. \A p \in Players : absent[p] \in (0 .. Grace) \cup {None}
                             /\ Older(absent[p], 1) \in (0 .. Grace) \cup {None}
      BY OlderType DEF Typed, TypeOK
    <3>2. 0 \in 0 .. Grace
      BY MonitorAssumption
    <3>3. QED BY <1>4, <3>1, <3>2 DEF AllAnswered
  <2>3. Rest' /\ Leaving'
    BY <2>1, <2>2 DEF Rest, Leaving, world, Typed, TypeOK, Observed, Phases
  <2>4. sessions' \in Sessions /\ saved' \in Sessions
    BY <1>1, <2>1, AgedType
  <2>5. Own(sessions', messages') /\ Own(saved', messages')
    BY <1>1, <2>1, OwnAged DEF Typed
  <2>6. QED BY <1>1, <2>1, <2>3, <2>4, <2>5, TypedParts DEF Typed, TypeOK
<1>5. CASE PollEnds
  <2>1. Rest' /\ Leaving'
    BY <1>5, IdleRest, IdleSnap DEF PollEnds, world, Typed, TypeOK
  <2>2. UNCHANGED <<sessions, saved, faults>>
    BY <1>5 DEF PollEnds
  <2>3. QED BY <1>1, <2>1, <2>2, TypedParts DEF Typed, TypeOK
<1>6. QED BY <1>2, <1>3, <1>4, <1>5

(* What others do.                                                         *)
LEMMA WorldType ==
  ASSUME Typed, (\E p \in Players : Goes(p)) \/ (\E ss \in SUBSET Servers : SetServers(ss))
  PROVE  Typed'
<1>1. /\ where' \in [Players -> Servers \cup {None}] /\ tracked' \subseteq Servers
      /\ moves' \in 0 .. Moves
  BY MonitorAssumption DEF Goes, SetServers, Move, Typed, TypeOK
<1>2. UNCHANGED <<messages, phase, snap, todo, sessions, saved, unsaved, absent, stuck, faults>>
  BY DEF Goes, SetServers
<1>3. Leaving'
  BY <1>2 DEF Typed, Leaving, AllHealthy, Observed, Locations, Polled
<1>4. Rest'
  BY <1>1, <1>2 DEF Rest, Typed, TypeOK
<1>5. QED BY <1>2, <1>3, <1>4, TypedParts DEF Typed, TypeOK

LEMMA DeletedType ==
  ASSUME Typed, NEW m \in DOMAIN messages, Deleted(m)
  PROVE  Typed'
<1>1. UNCHANGED <<world, phase, snap, todo, sessions, saved, unsaved, absent, stuck, faults>>
  BY DEF Deleted
<1>2. moves' \in 0 .. Moves
  BY MonitorAssumption DEF Deleted, Move, Typed, TypeOK
<1>3. Leaving'
  BY <1>1 DEF Typed, Leaving, AllHealthy, Observed, Locations, Polled
<1>4. Rest'
  BY <1>1, <1>2 DEF Rest, Typed, TypeOK, world
<1>5. messages' \in Messages /\ \A i \in DOMAIN messages : i \in DOMAIN messages' /\ messages'[i].player = messages[i].player
  <2>1. /\ Len(messages) \in Nat /\ DOMAIN messages = 1 .. Len(messages)
        /\ \A i \in 1 .. Len(messages) : messages[i] \in [player : Players, says : Says \cup {"deleted"}]
    BY LenProperties, ElementOfSeq DEF Messages, Typed, TypeOK
  <2>2. messages' = [messages EXCEPT ![m].says = "deleted"]
    BY DEF Deleted
  <2>3. messages' \in [1 .. Len(messages) -> [player : Players, says : Says \cup {"deleted"}]]
    <3>1. \A i \in 1 .. Len(messages) : messages'[i] \in [player : Players, says : Says \cup {"deleted"}]
      BY <2>1, <2>2
    <3>2. messages' = [i \in 1 .. Len(messages) |-> messages'[i]]
      BY <2>1, <2>2
    <3>3. QED BY <3>1, <3>2
  <2>4. \A i \in DOMAIN messages : messages'[i].player = messages[i].player
    BY <2>1, <2>2
  <2>5. \E n \in Nat : messages' \in [1 .. n -> [player : Players, says : Says \cup {"deleted"}]]
    BY <2>1, <2>3
  <2>6. messages' \in Messages
    <3> DEFINE M == [player : Players, says : Says \cup {"deleted"}]
    <3>1. \E n \in Nat : messages' \in [1 .. n -> M]
      BY <2>5
    <3> HIDE DEF M
    <3>2. messages' \in Seq(M)
      BY <3>1
    <3>3. QED BY <3>2 DEF M, Messages
  <2>7. DOMAIN messages' = DOMAIN messages
    BY <2>1, <2>3
  <2>8. QED BY <2>4, <2>6, <2>7
<1>6. Own(sessions, messages') /\ Own(saved, messages')
  BY <1>5 DEF Typed, Own
<1>7. QED BY <1>1, <1>3, <1>4, <1>5, <1>6, TypedParts DEF Typed, TypeOK

LEMMA StutterType ==
  ASSUME Typed, UNCHANGED vars
  PROVE  Typed'
<1>1. UNCHANGED <<where, tracked, messages, phase, snap, todo, sessions, saved, unsaved, absent,
                  stuck, moves, faults>>
  BY DEF vars, world
<1>2. Leaving'
  BY <1>1 DEF Typed, Leaving, AllHealthy, Observed, Locations, Polled
<1>3. Rest'
  BY <1>1 DEF Rest, Typed, TypeOK
<1>4. QED BY <1>1, <1>2, <1>3, TypedParts DEF Typed, TypeOK

LEMMA InitType == ASSUME Init PROVE Typed
<1>1. Leaving
  BY DEF Init, Leaving
<1>2. Own(sessions, messages) /\ Own(saved, messages)
  BY DEF Init, Own
<1>3. snap \in [Servers -> (SUBSET Players) \cup {Pending, Failed, Out}]
  BY IdleSnap DEF Init
<1>4. sessions \in Sessions /\ saved \in Sessions
  BY DEF Init, Sessions
<1>5. messages \in Messages
  BY DEF Init, Messages
<1>6. moves \in 0 .. Moves /\ faults \in 0 .. Faults
  BY MonitorAssumption DEF Init
<1>7. QED BY <1>1, <1>2, <1>3, <1>4, <1>5, <1>6 DEF Init, Typed, TypeOK, Phases

(* What a stop may leave of the channel and the file, and that it leaves   *)
(* no more than one message of a player behind.                            *)
Nobody == [p \in Players |-> None]

StopLeaves(channel, holds) ==
  /\ holds \in Sessions /\ channel \in Messages /\ Own(holds, channel)
  /\ \A p \in Players :
       /\ \E m : Loose(Nobody, channel, p) \subseteq Loose(sessions, messages, p) \cup {m}
       /\ \E m : \/ Loose(holds, channel, p) \subseteq Loose(saved, messages, p) \cup {m}
                 \/ Loose(holds, channel, p) \subseteq Loose(sessions, messages, p) \cup {m}
  /\ \/ channel = messages
     \/ \E p \in todo, x \in Nat :
          \/ Reaches(channel, x, p, "online")
          \/ phase = "leavers" /\ Age(p) = Grace /\ Reaches(channel, x, p, "left")

(* Without sessions, the message of one session more is left behind.       *)
LEMMA NobodyLoose ==
  ASSUME NEW p \in Players
  PROVE  /\ Loose(Nobody, messages, p) \subseteq Loose(sessions, messages, p) \cup {sessions[p].message}
         /\ sessions[p] = None \/ sessions[p].failures > 0 =>
              Loose(Nobody, messages, p) \subseteq Loose(sessions, messages, p)
BY DEF Loose

LEMMA RequestLoose ==
  ASSUME Typed, NEW p \in todo, NEW o \in UnderWay(p)
  PROVE  \E m : Loose(Nobody, o.channel, p) \subseteq Loose(sessions, messages, p) \cup {m}
<1>1. p \in Players /\ messages \in Messages
  BY DEF Typed, TypeOK
<1> DEFINE y == sessions[p].message
<1>2. CASE phase = "players" /\ IsNew(p) /\ o \in SendOutcomes(p, "online")
  <2>1. PICK x \in Nat : Reaches(o.channel, x, p, "online")
    BY <1>1, <1>2, SendFair, FairReaches DEF Says
  <2>2. Loose(Nobody, o.channel, p) \subseteq Loose(Nobody, messages, p) \cup {x}
    BY <2>1, LooseReaches
  <2>3. Loose(Nobody, messages, p) \subseteq Loose(sessions, messages, p)
    BY <1>1, <1>2, NobodyLoose DEF IsNew
  <2>4. QED BY <2>2, <2>3
<1>3. CASE phase = "players" /\ ~IsNew(p) /\ o \in EditOutcomes(p, y, "online")
  <2>1. sessions[p] # None
    BY <1>3 DEF IsNew
  <2>2. y \in DOMAIN messages /\ messages[y].player = p
    BY <1>1, <2>1 DEF Typed, Own
  <2>3. PICK x \in Nat : Reaches(o.channel, x, p, "online")
    BY <1>1, <1>3, <2>1, SessionEdit, FairReaches DEF Says
  <2>4. CASE messages[y].says = "deleted"
    <3>1. Loose(Nobody, o.channel, p) \subseteq Loose(Nobody, messages, p) \cup {x}
      BY <2>3, LooseReaches
    <3>2. y \notin Loose(Nobody, messages, p)
      BY <2>4 DEF Loose
    <3>3. QED BY <1>1, <3>1, <3>2, NobodyLoose
  <2>5. CASE messages[y].says # "deleted"
    <3>1. o.channel = messages \/ o.channel = [messages EXCEPT ![y].says = "online"]
      BY <1>3, <2>5 DEF EditOutcomes, Outcome
    <3>2. Reaches([messages EXCEPT ![y].says = "online"], y, p, "online")
      BY <1>1, <2>2, EditReaches DEF Says
    <3>3. Reaches(o.channel, y, p, "online")
      BY <1>1, <3>1, <3>2, StillReaches
    <3>4. Loose(Nobody, o.channel, p) \subseteq Loose(Nobody, messages, p) \cup {y}
      BY <3>3, LooseReaches
    <3>5. QED BY <1>1, <3>4, NobodyLoose
  <2>6. QED BY <2>4, <2>5
<1>4. CASE phase = "leavers" /\ o \in EditOutcomes(p, y, "left")
  <2>1. PICK x \in Nat : Reaches(o.channel, x, p, "left")
    BY <1>1, <1>4, HasSession, SessionEdit, FairReaches DEF Says
  <2>2. Loose(Nobody, o.channel, p) \subseteq Loose(Nobody, messages, p)
    BY <2>1, LooseReaches
  <2>3. QED BY <1>1, <2>2, NobodyLoose
<1>5. QED BY <1>2, <1>3, <1>4, Requests

LEMMA StopEffect ==
  ASSUME Typed, NEW stop \in AtStop
  PROVE  StopLeaves(stop.channel, stop.file.holds) /\ stop.file.cost \in Nat
<1>1. /\ TypeOK /\ saved \in Sessions /\ messages \in Messages
      /\ Own(sessions, messages) /\ Own(saved, messages)
  BY DEF Typed, TypeOK
<1>2. CASE stop = [channel |-> messages, file |-> Now]
  <2>1. stop.channel = messages /\ stop.file = Now /\ Now.holds = saved /\ Now.cost = 0
    BY <1>2 DEF Now
  <2>2. QED BY <1>1, <2>1, NobodyLoose DEF StopLeaves
<1>3. ASSUME NEW p \in todo, NEW o \in UnderWay(p), NEW file \in Prepared(p),
             stop = [channel |-> o.channel, file |-> file]
      PROVE  StopLeaves(stop.channel, stop.file.holds) /\ stop.file.cost \in Nat
  <2>1. p \in Players /\ stop.channel = o.channel /\ stop.file = file
    BY <1>1, <1>3 DEF TypeOK
  <2>2. Filed(file, Asking(p), Asking(p))
    BY <1>1, IfChangedFiled DEF Prepared
  <2>3. file.cost \in Nat /\ (file.holds = Asking(p) \/ file.holds = saved)
    BY <2>2 DEF Filed
  <2>4. ASSUME NEW says, Fair(o, p, says), phase = "players" \/ (phase = "leavers" /\ sessions[p] # None),
               says = "online" \/ (phase = "leavers" /\ Age(p) = Grace /\ says = "left")
        PROVE  StopLeaves(o.channel, file.holds)
    <3>1. PICK x \in Nat : Reaches(o.channel, x, p, says)
      BY <2>4, FairReaches
    <3>2. Asking(p) \in Sessions /\ Own(Asking(p), messages)
      BY <1>1, <2>1, <2>4, AskingEffect DEF Own
    <3>3. file.holds \in Sessions /\ o.channel \in Messages /\ Own(file.holds, o.channel)
      BY <1>1, <2>3, <3>1, <3>2, OwnReaches DEF Reaches
    <3>4. ASSUME NEW q \in Players
          PROVE  \E m : Loose(Nobody, o.channel, q) \subseteq Loose(sessions, messages, q) \cup {m}
      <4>1. CASE q = p
        BY <4>1, RequestLoose
      <4>2. CASE q # p
        <5>1. Loose(Nobody, o.channel, q) \subseteq Loose(Nobody, messages, q)
          BY <3>1, <4>2, LooseReaches
        <5>2. QED BY <5>1, NobodyLoose
      <4>3. QED BY <4>1, <4>2
    <3>5. ASSUME NEW q \in Players
          PROVE  \/ Loose(file.holds, o.channel, q) \subseteq Loose(saved, messages, q) \cup {x}
                 \/ Loose(file.holds, o.channel, q) \subseteq Loose(sessions, messages, q) \cup {x}
      <4>1. CASE file.holds = saved
        BY <3>1, <4>1, LooseReaches
      <4>2. CASE file.holds = Asking(p)
        BY <2>1, <2>4, <3>1, <4>2, AskingLoose
      <4>3. QED BY <2>3, <4>1, <4>2
    <3>6. QED BY <2>4, <3>1, <3>3, <3>4, <3>5 DEF StopLeaves
  <2>5. CASE phase = "players" /\ Fair(o, p, "online")
    BY <2>1, <2>3, <2>4, <2>5
  <2>6. CASE phase = "leavers" /\ Age(p) = Grace /\ Fair(o, p, "left")
    BY <2>1, <2>3, <2>4, <2>6, HasSession
  <2>7. QED BY <2>5, <2>6, RequestFair
<1>4. QED BY <1>2, <1>3 DEF AtStop

(* A restart, with the file that it finds.                                 *)
Starts(holds, down, readable) ==
  /\ down \in Nat /\ readable \in BOOLEAN
  /\ StopLeaves(messages', holds)
  /\ saved' = Aged(holds, down)
  /\ sessions' = IF readable THEN saved' ELSE Nobody
  /\ unsaved' = ~readable
  /\ faults' \in 0 .. Faults /\ faults' <= faults - 1

LEMMA RestartEffect ==
  ASSUME Typed, Restart
  PROVE  \E holds, down, readable : Starts(holds, down, readable)
<1>1. PICK stop \in AtStop, down \in 0 .. Grace, readable \in BOOLEAN :
        LET loaded == Aged(stop.file.holds, down) IN
        /\ messages' = stop.channel
        /\ saved' = loaded
        /\ sessions' = IF readable THEN loaded ELSE [p \in Players |-> None]
        /\ unsaved' = ~readable
        /\ Cost(1 + stop.file.cost)
  BY DEF Restart
<1>2. StopLeaves(stop.channel, stop.file.holds) /\ stop.file.cost \in Nat
  BY StopEffect
<1>3. faults' \in 0 .. Faults /\ faults' <= faults - 1
  BY <1>1, <1>2, MonitorAssumption DEF Cost, Typed, TypeOK
<1>4. down \in Nat
  BY MonitorAssumption
<1>5. sessions' = IF readable THEN saved' ELSE Nobody
  BY <1>1 DEF Nobody
<1>6. /\ StopLeaves(messages', stop.file.holds)
      /\ saved' = Aged(stop.file.holds, down) /\ unsaved' = ~readable
  BY <1>1, <1>2
<1>7. Starts(stop.file.holds, down, readable)
  BY <1>3, <1>4, <1>5, <1>6 DEF Starts
<1>8. QED BY <1>7

LEMMA NobodyType == Nobody \in Sessions /\ \A channel : Own(Nobody, channel)
BY DEF Nobody, Sessions, Own

LEMMA RestartType == ASSUME Typed, Restart PROVE Typed'
<1>1. /\ phase' = "sleep" /\ todo' = {} /\ snap' = [s \in Servers |-> Out] /\ stuck' \subseteq Players
      /\ UNCHANGED <<world, absent, moves>>
  BY DEF Restart
<1>2. PICK holds, down, readable : Starts(holds, down, readable)
  BY RestartEffect
<1>3. holds \in Sessions /\ messages' \in Messages /\ Own(holds, messages')
  BY <1>2 DEF Starts, StopLeaves
<1>4. saved' \in Sessions /\ Own(saved', messages')
  BY <1>2, <1>3, AgedType, OwnAged DEF Starts
<1>5. sessions' \in Sessions /\ Own(sessions', messages')
  BY <1>2, <1>4, NobodyType DEF Starts
<1>6. Rest' /\ Leaving'
  BY <1>1, IdleRest, IdleSnap DEF world, Typed, TypeOK
<1>7. unsaved' \in BOOLEAN /\ faults' \in 0 .. Faults
  BY <1>2 DEF Starts
<1>8. QED BY <1>3, <1>4, <1>5, <1>6, <1>7, TypedParts

LEMMA NextType == ASSUME Typed, [Next]_vars PROVE Typed'
<1>1. CASE Monitor
  BY <1>1, AnswersType, HandledType, PollBreaksType, AllHandledType DEF Monitor
<1>2. CASE Restart
  BY <1>2, RestartType
<1>3. CASE (\E p \in Players : Goes(p)) \/ (\E ss \in SUBSET Servers : SetServers(ss))
  BY <1>3, WorldType
<1>4. CASE \E m \in DOMAIN messages : Deleted(m)
  BY <1>4, DeletedType
<1>5. CASE UNCHANGED vars
  BY <1>5, StutterType
<1>6. QED BY <1>1, <1>2, <1>3, <1>4, <1>5 DEF Next

(* The monitor keeps to its types: each session, in memory and in the      *)
(* file, has a message in the channel that is about its player.            *)
THEOREM TypeCorrect == Spec => []TypeOK
<1>1. Init => Typed
  BY InitType
<1>2. Typed /\ [Next]_vars => Typed'
  BY NextType
<1>3. Typed => TypeOK
  BY DEF Typed
<1>4. QED BY <1>1, <1>2, <1>3, PTL DEF Spec

-----------------------------------------------------------------------------
(* What is in the state file.                                              *)

LEMMA SavedNext ==
  ASSUME Typed, SavedState, [Next]_vars
  PROVE  SavedState'
<1>1. TypeOK
  BY DEF Typed
<1>2. CASE UNCHANGED <<sessions, saved, unsaved>>
  BY <1>2 DEF SavedState
<1>3. CASE AllAnswered
  BY <1>3 DEF AllAnswered, SavedState
<1>4. CASE AllHandled
  <2>1. UNCHANGED <<sessions, saved, unsaved>> \/ SaveIfChanged(Paused(sessions), 0)
    BY <1>4 DEF AllHandled
  <2>2. QED BY <1>1, <1>2, <2>1, SaveChange, ChangeEffect
<1>5. ASSUME NEW p \in Players, Serves(p)
      PROVE  SavedState'
  <2>1. PICK ss, asked, n, x, says : Handles(p, ss, asked, n, x, says)
    BY <1>5 DEF Serves
  <2>2. n \in Nat /\ Change(ss, asked, n)
    BY <2>1 DEF Handles
  <2>3. QED BY <1>1, <2>2, ChangeEffect
<1>6. CASE \E p \in Players : \/ Joined(p) \/ Stays(p) \/ Transferred(p)
                              \/ Missed(p) \/ Finished(p) \/ PollBreaks(p)
  BY <1>5, <1>6, JoinedServes, StaysServes, TransferredServes, FinishedServes, PollBreaksServes
<1>7. CASE Restart
  <2>1. PICK readable \in BOOLEAN :
          (sessions' = IF readable THEN saved' ELSE Nobody) /\ unsaved' = ~readable
    BY <1>7, RestartEffect DEF Starts
  <2>2. QED BY <2>1, Zenon DEF SavedState
<1>8. CASE PollBegins \/ (\E s \in Servers : Answered(s)) \/ PollEnds
  BY <1>2, <1>8 DEF PollBegins, Answered, PollEnds
<1>9. CASE (\E p \in Players : Goes(p)) \/ (\E ss \in SUBSET Servers : SetServers(ss))
           \/ (\E m \in DOMAIN messages : Deleted(m))
  BY <1>2, <1>9 DEF Goes, SetServers, Deleted
<1>10. CASE UNCHANGED vars
  BY <1>2, <1>10 DEF vars
<1>11. QED BY <1>3, <1>4, <1>6, <1>7, <1>8, <1>9, <1>10 DEF Next, Monitor

(* The state file holds the sessions that the monitor has, through any     *)
(* faults and restarts, unless the last write of it failed or it could not *)
(* be read at the last start.                                              *)
THEOREM SavedCorrect == Spec => []SavedState
<1>1. Init => Typed /\ SavedState
  BY InitType DEF Init, SavedState
<1>2. Typed /\ SavedState /\ [Next]_vars => (Typed /\ SavedState)'
  BY NextType, SavedNext
<1>3. QED BY <1>1, <1>2, PTL DEF Spec

-----------------------------------------------------------------------------
(* When a player is said to have left.                                     *)

(* A player whose missing_since this poll may still have to clear.         *)
Due(p) == phase = "players" /\ (p \in todo \/ (p \notin Observed /\ ~AllHealthy))

(* A session counts no more than the healthy polls that missed the player. *)
Counts(p) ==
  \/ sessions[p] = None \/ p \in stuck \/ Due(p)
  \/ sessions[p].missing = None
  \/ absent[p] # None /\ absent[p] >= sessions[p].missing

(* A healthy poll that has its answers has counted itself.                 *)
Counted(p) ==
  phase \in {"players", "leavers"} /\ AllHealthy /\ p \notin Observed /\ sessions[p] # None
    => absent[p] # None

Clock == \A p \in Players : Counts(p) /\ Counted(p)

LEMMA AbsentType == ASSUME Typed, NEW p \in Players PROVE absent[p] \in (0 .. Grace) \cup {None}
BY DEF Typed, TypeOK

(* When the grace is over, the polls of a whole grace missed the player.   *)
LEMMA GraceOver ==
  ASSUME Typed, Clock, NEW p \in todo, phase = "leavers", Age(p) = Grace
  PROVE  absent[p] = Grace \/ p \in stuck
<1>1. p \in Players /\ p \notin Observed /\ sessions[p] # None /\ AllHealthy
  BY HasSession
<1>2. absent[p] \in 0 .. Grace
  BY <1>1, AbsentType DEF Clock, Counted
<1>3. sessions[p].missing \in (0 .. Grace) \cup {None}
  BY <1>1, MissingType
<1>4. p \in stuck \/ sessions[p].missing = None \/ absent[p] >= sessions[p].missing
  BY <1>1 DEF Clock, Counts, Due
<1>5. QED BY <1>2, <1>3, <1>4, MonitorAssumption DEF Age

(* Handling one player leaves the count of the others.                     *)
LEMMA HandleCounts ==
  ASSUME Typed, Clock, NEW p \in Players, Handle(p), Counts(p)', stuck \ {p} \subseteq stuck',
         sessions'[p] = None \/ sessions[p] # None \/ p \in Observed,
         \A q \in Players : q # p => sessions'[q] = sessions[q]
  PROVE  Clock'
<1>1. todo' = todo \ {p} /\ phase' = phase /\ snap' = snap /\ absent' = absent
  BY DEF Handle
<1>2. AllHealthy' = AllHealthy /\ Observed' = Observed
  BY <1>1 DEF AllHealthy, Observed, Locations, Polled
<1>3. ASSUME NEW q \in Players
      PROVE  Counted(q)'
  BY <1>1, <1>2, <1>3 DEF Clock, Counted
<1>4. ASSUME NEW q \in Players, q # p
      PROVE  Counts(q)'
  <2>1. Counts(q) /\ sessions'[q] = sessions[q] /\ (q \in stuck => q \in stuck') /\ (q \in todo => q \in todo')
    BY <1>1, <1>4 DEF Clock
  <2>2. QED BY <1>1, <1>2, <2>1 DEF Counts, Due
<1>5. QED BY <1>3, <1>4 DEF Clock

(* The sessions after a step that handles a player.                        *)
LEMMA Others ==
  ASSUME Typed, NEW p \in Players, Serves(p)
  PROVE  \A q \in Players : q # p => sessions'[q] = sessions[q]
BY ServedType

LEMMA SavedSessions ==
  ASSUME NEW ss, NEW n, Save(ss, n) \/ SaveIfChanged(ss, n)
  PROVE  sessions' = ss
BY DEF Save, SaveIfChanged, Keep

LEMMA HandledClock ==
  ASSUME Typed, Clock, NEW p \in Players, Joined(p) \/ Stays(p) \/ Transferred(p)
  PROVE  Clock'
<1>1. sessions \in [Players -> Session \cup {None}] /\ Handle(p)
  BY DEF Typed, TypeOK, Sessions, Joined, Stays, Transferred
<1>2. \A q \in Players : q # p => sessions'[q] = sessions[q]
  BY JoinedServes, StaysServes, TransferredServes, Others
<1>3. ASSUME sessions'[p] = None \/ sessions'[p].missing = None, stuck' = stuck \ {p},
             sessions[p] # None \/ p \in Observed
      PROVE  Clock'
  <2>1. Counts(p)'
    BY <1>3 DEF Counts
  <2>2. QED BY <1>1, <1>2, <1>3, <2>1, HandleCounts
<1>4. CASE Joined(p)
  <2>1. PICK s \in Locations(p), file \in Prepared(p), o \in UnderWay(p) :
          IF o.id = None
            THEN Keep(Asking(p), file, o.cost)
            ELSE LET ss == [sessions EXCEPT ![p] = [server |-> s, message |-> o.id,
                                                    missing |-> None, failures |-> 0]] IN
                 \E written \in Write(file, ss) : Keep(ss, written, o.cost)
    BY <1>4 DEF Joined
  <2>2. p \in Observed /\ stuck' = stuck \ {p} /\ phase = "players" /\ IsNew(p)
    BY <1>4, <2>1 DEF Joined, Observed
  <2>3. CASE o.id = None
    <3>1. sessions' = [sessions EXCEPT ![p] = None]
      BY <2>1, <2>2, <2>3 DEF Keep, Asking
    <3>2. QED BY <1>1, <1>3, <2>2, <3>1
  <2>4. CASE o.id # None
    <3>1. sessions' = [sessions EXCEPT ![p] = [server |-> s, message |-> o.id,
                                               missing |-> None, failures |-> 0]]
      BY <2>1, <2>4 DEF Keep
    <3>2. QED BY <1>1, <1>3, <2>2, <3>1
  <2>5. QED BY <2>3, <2>4
<1>5. CASE Stays(p)
  <2>1. sessions[p] # None /\ sessions' = [sessions EXCEPT ![p].missing = None] /\ stuck' = stuck \ {p}
    BY <1>5, SavedSessions DEF Stays
  <2>2. sessions'[p].missing = None
    BY <1>1, <2>1 DEF Session
  <2>3. QED BY <1>3, <2>1, <2>2
<1>6. CASE Transferred(p)
  <2>1. sessions[p] # None
    BY <1>6 DEF Transferred
  <2>2. PICK s \in Locations(p), o \in UnderWay(p) :
          IF o.id = None
            THEN UNCHANGED sessions /\ stuck' = stuck \cup ({p} \cap Missing)
            ELSE /\ Save([sessions EXCEPT ![p].server = s, ![p].message = o.id,
                                          ![p].missing = None], o.cost)
                 /\ stuck' = stuck \ {p}
    BY <1>6 DEF Transferred
  <2>3. CASE o.id = None
    <3>1. Counts(p)'
      BY <2>2, <2>3 DEF Counts, Missing
    <3>2. QED BY <1>1, <2>1, <2>2, <2>3, <3>1, HandleCounts
  <2>4. CASE o.id # None
    <3>1. sessions' = [sessions EXCEPT ![p].server = s, ![p].message = o.id, ![p].missing = None]
      BY <2>2, <2>4, SavedSessions
    <3>2. sessions'[p].missing = None
      BY <1>1, <2>1, <3>1 DEF Session
    <3>3. QED BY <1>3, <2>1, <2>2, <2>4, <3>2
  <2>5. QED BY <2>3, <2>4
<1>7. QED BY <1>4, <1>5, <1>6

LEMMA LeaversClock ==
  ASSUME Typed, Clock, NEW p \in Players, Missed(p) \/ Finished(p)
  PROVE  Clock'
<1>1. /\ sessions \in [Players -> Session \cup {None}]
      /\ Handle(p) /\ p \in todo /\ phase = "leavers"
  BY DEF Typed, TypeOK, Sessions, Missed, Finished
<1>2. p \notin Observed /\ sessions[p] # None /\ AllHealthy
  BY <1>1, HasSession
<1>3. absent[p] \in 0 .. Grace
  BY <1>1, <1>2, AbsentType DEF Clock, Counted
<1>4. Age(p) \in 0 .. Grace /\ sessions[p] \in Session /\ sessions[p].missing \in (0 .. Grace) \cup {None}
  BY <1>2, MissingType
<1>5. p \in stuck \/ absent[p] >= Age(p)
  <2>1. p \in stuck \/ sessions[p].missing = None \/ absent[p] >= sessions[p].missing
    BY <1>1, <1>2 DEF Clock, Counts, Due
  <2>2. QED BY <1>3, <1>4, <2>1 DEF Age
<1>6. absent' = absent
  BY <1>1 DEF Handle
<1>7. \A q \in Players : q # p => sessions'[q] = sessions[q]
  BY StaysServes, FinishedServes, Others
<1>8. ASSUME stuck' = stuck, sessions'[p].missing = Age(p)
      PROVE  Clock'
  <2>1. absent'[p] # None
    BY <1>3, <1>6, MonitorAssumption
  <2>2. p \in stuck' \/ absent'[p] >= sessions'[p].missing
    BY <1>5, <1>6, <1>8
  <2>3. Counts(p)'
    BY <2>1, <2>2 DEF Counts
  <2>4. QED BY <1>1, <1>2, <1>7, <1>8, <2>3, HandleCounts
<1>9. CASE Missed(p)
  <2>1. sessions' = [sessions EXCEPT ![p].missing = Age(p)] /\ stuck' = stuck
    BY <1>9, SavedSessions DEF Missed
  <2>2. sessions'[p].missing = Age(p)
    BY <1>1, <1>4, <2>1 DEF Session
  <2>3. QED BY <1>8, <2>1, <2>2
<1>10. CASE Finished(p)
  <2>1. PICK file \in Prepared(p), o \in UnderWay(p) :
          LET again == o.id = None /\ sessions[p].failures + 1 < MaxFailures
              ss    == IF again THEN [Asking(p) EXCEPT ![p].failures = @ + 1]
                                ELSE [sessions EXCEPT ![p] = None]
          IN  /\ \E written \in Write(file, ss) : Keep(ss, written, o.cost)
              /\ stuck' = IF again THEN stuck ELSE stuck \ {p}
    BY <1>10 DEF Finished
  <2> DEFINE again == o.id = None /\ sessions[p].failures + 1 < MaxFailures
  <2>2. CASE again
    <3>1. sessions' = [Asking(p) EXCEPT ![p].failures = @ + 1] /\ stuck' = stuck
      BY <2>1, <2>2 DEF Keep
    <3>2. /\ Asking(p) \in [Players -> Session \cup {None}] /\ Asking(p)[p] # None
          /\ Asking(p)[p].missing = Age(p)
      BY <1>1, <1>2, AskingEffect DEF Sessions
    <3>3. sessions'[p].missing = Age(p)
      BY <3>1, <3>2 DEF Session
    <3>4. QED BY <1>8, <3>1, <3>3
  <2>3. CASE ~again
    <3>1. sessions' = [sessions EXCEPT ![p] = None] /\ stuck' = stuck \ {p}
      BY <2>1, <2>3 DEF Keep
    <3>2. sessions'[p] = None
      BY <1>1, <3>1
    <3>3. Counts(p)'
      BY <3>2 DEF Counts
    <3>4. QED BY <1>1, <1>2, <1>7, <3>1, <3>3, HandleCounts
  <2>4. QED BY <2>2, <2>3
<1>11. QED BY <1>9, <1>10

LEMMA BrokenClock ==
  ASSUME Typed, Clock, NEW p \in Players, PollBreaks(p)
  PROVE  Clock'
<1>1. /\ phase' = "sleep" /\ absent' = absent /\ p \in todo
      /\ stuck' = IF phase = "leavers" THEN stuck
                  ELSE stuck \cup (Missing \cap (todo \cup IF AllHealthy THEN {} ELSE Players \ Observed))
  BY DEF PollBreaks
<1>2. \A q \in Players : Counted(q)'
  BY <1>1 DEF Counted
<1>3. stuck \subseteq stuck'
  BY <1>1
<1>4. ASSUME NEW q \in Players, sessions'[q] = sessions[q]
      PROVE  Counts(q)'
  <2>1. CASE sessions[q] = None \/ q \in stuck \/ sessions[q].missing = None
             \/ (absent[q] # None /\ absent[q] >= sessions[q].missing)
    BY <1>1, <1>3, <1>4, <2>1 DEF Counts
  <2>2. CASE Due(q) /\ sessions[q] # None /\ sessions[q].missing # None
    <3>1. q \in stuck'
      BY <1>1, <2>2 DEF Due, Missing
    <3>2. QED BY <3>1 DEF Counts
  <2>3. Counts(q)
    BY DEF Clock
  <2>4. QED BY <2>1, <2>2, <2>3 DEF Counts
<1>5. \A q \in Players : q # p => sessions'[q] = sessions[q]
  BY PollBreaksServes, Others
<1>6. sessions' = Asking(p) /\ \E o \in UnderWay(p) : TRUE
  BY DEF PollBreaks, Keep, Unknown
<1>7. Counts(p)'
  <2>1. CASE phase = "players" /\ IsNew(p)
    <3>1. sessions' = [sessions EXCEPT ![p] = None]
      BY <1>6, <2>1 DEF Asking
    <3>2. sessions'[p] = None
      BY <3>1 DEF Typed, TypeOK, Sessions
    <3>3. QED BY <3>2 DEF Counts
  <2>2. CASE phase = "players" /\ ~IsNew(p)
    BY <1>4, <1>6, <2>2 DEF Asking
  <2>3. CASE phase = "leavers" /\ Age(p) = Grace
    <3>1. sessions[p] # None
      BY <1>1, <2>3, HasSession
    <3>2. sessions'[p].missing = Grace /\ Grace \in Nat
      BY <1>6, <2>3, <3>1, AskingEffect, MonitorAssumption
    <3>3. absent[p] = Grace \/ p \in stuck
      BY <1>1, <2>3, GraceOver
    <3>4. QED BY <1>1, <1>3, <3>2, <3>3, MonitorAssumption DEF Counts
  <2>4. QED BY <1>6, <2>1, <2>2, <2>3, Requests
<1>8. QED BY <1>2, <1>4, <1>5, <1>7 DEF Clock

LEMMA AgeOrder ==
  ASSUME NEW a \in 0 .. Grace, NEW b \in 0 .. Grace, a >= b
  PROVE  Older(a, 1) \in 0 .. Grace /\ Older(a, 1) >= Older(b, 1)
BY MonitorAssumption DEF Older

LEMMA AnswersClock ==
  ASSUME Typed, Clock, PollBegins \/ (\E s \in Servers : Answered(s)) \/ AllAnswered \/ PollEnds
  PROVE  Clock'
<1>1. CASE PollBegins \/ (\E s \in Servers : Answered(s)) \/ PollEnds
  <2>1. /\ phase' \in {"sleep", "ask"} /\ UNCHANGED <<sessions, absent, stuck>>
        /\ ~(phase = "players")
    BY <1>1 DEF PollBegins, Answered, PollEnds
  <2>2. \A p \in Players : Counted(p)'
    BY <2>1 DEF Counted
  <2>3. \A p \in Players : Counts(p)'
    BY <2>1 DEF Clock, Counts, Due
  <2>4. QED BY <2>2, <2>3 DEF Clock
<1>2. CASE AllAnswered
  <2>1. /\ phase = "ask" /\ phase' = "players" /\ todo' = Observed /\ sessions' = Aged(sessions, 1)
        /\ UNCHANGED <<snap, stuck>> /\ sessions \in Sessions
        /\ absent' = [p \in Players |->
                       IF sessions[p] = None \/ p \in Observed \/ ~AllHealthy THEN None
                       ELSE IF absent[p] = None THEN 0 ELSE Older(absent[p], 1)]
    BY <1>2 DEF AllAnswered, Typed, TypeOK
  <2>2. AllHealthy' = AllHealthy /\ Observed' = Observed
    BY <2>1 DEF AllHealthy, Observed, Locations, Polled
  <2>3. ASSUME AllHealthy, NEW p \in Players \ Observed, sessions[p] # None
        PROVE  absent'[p] \in 0 .. Grace /\ (absent[p] # None => absent'[p] = Older(absent[p], 1))
    <3>1. absent[p] \in (0 .. Grace) \cup {None}
      BY AbsentType
    <3>2. absent[p] # None => Older(absent[p], 1) \in 0 .. Grace
      BY <3>1, MonitorAssumption DEF Older
    <3>3. QED BY <2>1, <2>3, <3>1, <3>2, MonitorAssumption
  <2>4. \A p \in Players : Counted(p)'
    <3>1. ASSUME NEW p \in Players, sessions'[p] # None
          PROVE  sessions[p] # None
      BY <2>1, <3>1, AgedType
    <3>2. QED BY <2>2, <2>3, <3>1, MonitorAssumption DEF Counted
  <2>5. ASSUME NEW p \in Players
        PROVE  Counts(p)'
    <3>1. CASE p \in Observed \/ ~AllHealthy \/ p \in stuck
      BY <2>1, <2>2, <3>1 DEF Counts, Due
    <3>2. CASE sessions[p] = None
      BY <2>1, <3>2, AgedType DEF Counts
    <3>3. CASE p \notin Observed /\ AllHealthy /\ p \notin stuck /\ sessions[p] # None
      <4>1. sessions'[p].missing = Older(sessions[p].missing, 1)
        BY <2>1, <3>3, AgedType
      <4>2. CASE sessions[p].missing = None
        BY <4>1, <4>2 DEF Older, Counts
      <4>3. CASE sessions[p].missing # None
        <5>1. sessions[p].missing \in 0 .. Grace
          BY <3>3, <4>3, MissingType
        <5>2. absent[p] # None /\ absent[p] >= sessions[p].missing
          BY <2>1, <3>3, <4>3 DEF Clock, Counts, Due
        <5>3. absent[p] \in 0 .. Grace
          BY <5>2, AbsentType
        <5>4. Older(absent[p], 1) >= Older(sessions[p].missing, 1)
          BY <5>1, <5>2, <5>3, AgeOrder
        <5>5. absent'[p] = Older(absent[p], 1) /\ absent'[p] # None
          BY <2>3, <3>3, <5>2, MonitorAssumption
        <5>6. QED BY <4>1, <5>4, <5>5 DEF Counts
      <4>4. QED BY <4>2, <4>3
    <3>4. QED BY <3>1, <3>2, <3>3
  <2>6. QED BY <2>4, <2>5 DEF Clock
<1>3. QED BY <1>1, <1>2

LEMMA AllHandledClock ==
  ASSUME Typed, Clock, AllHandled
  PROVE  Clock'
<1>1. phase = "players" /\ todo = {} /\ absent' = absent /\ TypeOK
  BY DEF AllHandled, Typed
<1>2. CASE AllHealthy
  <2>1. phase' = "leavers" /\ UNCHANGED <<snap, sessions, stuck>>
    BY <1>2 DEF AllHandled
  <2>2. AllHealthy' = AllHealthy /\ Observed' = Observed
    BY <2>1 DEF AllHealthy, Observed, Locations, Polled
  <2>3. \A p \in Players : Counted(p)'
    BY <1>1, <2>1, <2>2 DEF Clock, Counted
  <2>4. \A p \in Players : Counts(p)'
    BY <1>1, <1>2, <2>1 DEF Clock, Counts, Due
  <2>5. QED BY <2>3, <2>4 DEF Clock
<1>3. CASE ~AllHealthy
  <2>1. phase' = "sleep" /\ stuck' = stuck \cap Observed /\ SaveIfChanged(Paused(sessions), 0)
    BY <1>3 DEF AllHandled
  <2>2. sessions' = Paused(sessions)
    BY <2>1, SavedSessions
  <2>3. \A p \in Players : Counted(p)'
    BY <2>1 DEF Counted
  <2>4. ASSUME NEW p \in Players
        PROVE  Counts(p)'
    <3>1. CASE sessions[p] = None
      BY <2>2, <3>1, PausedSessions DEF Counts
    <3>2. CASE sessions[p] # None /\ p \notin Observed
      BY <2>2, <3>2, PausedSessions DEF Counts
    <3>3. CASE sessions[p] # None /\ p \in Observed
      <4>1. sessions'[p].missing = sessions[p].missing
        BY <2>2, <3>3, PausedSessions
      <4>2. p \in stuck => p \in stuck'
        BY <2>1, <3>3
      <4>3. QED BY <1>1, <3>3, <4>1, <4>2 DEF Clock, Counts, Due
    <3>4. QED BY <3>1, <3>2, <3>3
  <2>5. QED BY <2>3, <2>4 DEF Clock
<1>4. QED BY <1>2, <1>3

LEMMA OthersClock ==
  ASSUME Typed, Clock,
         \/ \E p \in Players : Goes(p)
         \/ \E ss \in SUBSET Servers : SetServers(ss)
         \/ \E m \in DOMAIN messages : Deleted(m)
         \/ UNCHANGED vars
  PROVE  Clock'
<1>1. UNCHANGED <<phase, snap, todo, sessions, absent, stuck>>
  BY DEF Goes, SetServers, Deleted, vars
<1>2. AllHealthy' = AllHealthy /\ Observed' = Observed
  BY <1>1 DEF AllHealthy, Observed, Locations, Polled
<1>3. QED BY <1>1, <1>2 DEF Clock, Counted, Counts, Due

LEMMA RestartClock == ASSUME Typed, Restart PROVE Clock'
<1>1. /\ phase' = "sleep"
      /\ stuck' = {p \in Players : sessions'[p] # None /\ sessions'[p].missing # None}
  BY DEF Restart
<1>2. QED BY <1>1 DEF Clock, Counts, Counted

LEMMA NextClock == ASSUME Typed, Clock, [Next]_vars PROVE Clock'
<1>1. CASE Monitor
  BY <1>1, AnswersClock, HandledClock, LeaversClock, BrokenClock, AllHandledClock DEF Monitor
<1>2. CASE Restart
  BY <1>2, RestartClock
<1>3. CASE \/ \E p \in Players : Goes(p)
           \/ \E ss \in SUBSET Servers : SetServers(ss)
           \/ \E m \in DOMAIN messages : Deleted(m)
           \/ UNCHANGED vars
  BY <1>3, OthersClock
<1>4. QED BY <1>1, <1>2, <1>3 DEF Next

(* Which messages may come to say that their player left.                  *)
TrueLeaves ==
  \A m \in DOMAIN messages' :
    Told(m) => LET p == messages'[m].player IN absent[p] = Grace \/ p \in stuck

LEMMA OnlineTells ==
  ASSUME NEW x, NEW p, Reaches(messages', x, p, "online")
  PROVE  TrueLeaves
<1>1. ASSUME NEW m \in DOMAIN messages'
      PROVE  ~Told(m)
  BY <1>1 DEF Told, Reaches
<1>2. QED BY <1>1 DEF TrueLeaves

LEMMA LeftTells ==
  ASSUME NEW x, NEW p, Reaches(messages', x, p, "left"), absent[p] = Grace \/ p \in stuck
  PROVE  TrueLeaves
<1>1. ASSUME NEW m \in DOMAIN messages', Told(m)
      PROVE  messages'[m].player = p
  BY <1>1 DEF Told, Reaches
<1>2. QED BY <1>1 DEF TrueLeaves

LEMMA NextLeaves ==
  ASSUME Typed, Clock, [Next]_vars
  PROVE  TrueLeaves
<1>1. CASE messages' = messages
  BY <1>1 DEF TrueLeaves, Told
<1>2. ASSUME NEW p \in Players, Serves(p)
      PROVE  TrueLeaves
  <2>1. PICK ss, asked, n, x, says : Handles(p, ss, asked, n, x, says)
    BY <1>2 DEF Serves
  <2>2. /\ Reaches(messages', x, p, says) /\ says \in Says
        /\ \/ says = "online"
           \/ messages' = messages
           \/ phase = "leavers" /\ p \in todo /\ Age(p) = Grace
    BY <2>1 DEF Handles
  <2>3. CASE says = "online"
    BY <2>2, <2>3, OnlineTells
  <2>4. CASE says = "left" /\ phase = "leavers" /\ p \in todo /\ Age(p) = Grace
    <3>1. absent[p] = Grace \/ p \in stuck
      BY <2>4, GraceOver
    <3>2. QED BY <2>2, <2>4, <3>1, LeftTells
  <2>5. QED BY <1>1, <2>2, <2>3, <2>4 DEF Says
<1>3. CASE \E p \in Players : \/ Joined(p) \/ Stays(p) \/ Transferred(p)
                              \/ Missed(p) \/ Finished(p) \/ PollBreaks(p)
  BY <1>2, <1>3, JoinedServes, StaysServes, TransferredServes, FinishedServes, PollBreaksServes
<1>4. CASE Restart
  <2>1. ASSUME NEW p \in todo, NEW x \in Nat, phase = "leavers", Age(p) = Grace,
               Reaches(messages', x, p, "left")
        PROVE  TrueLeaves
    <3>1. absent[p] = Grace \/ p \in stuck
      BY <2>1, GraceOver
    <3>2. QED BY <2>1, <3>1, LeftTells
  <2>2. QED BY <1>1, <1>4, <2>1, RestartEffect, OnlineTells DEF Starts, StopLeaves
<1>5. ASSUME NEW m \in DOMAIN messages, Deleted(m)
      PROVE  TrueLeaves
  <2>1. messages \in Messages /\ messages' = [messages EXCEPT ![m].says = "deleted"]
    BY <1>5 DEF Deleted, Typed, TypeOK
  <2>2. /\ DOMAIN messages = 1 .. Len(messages)
        /\ \A i \in 1 .. Len(messages) : messages[i] \in [player : Players, says : Says \cup {"deleted"}]
    BY <2>1, LenProperties, ElementOfSeq DEF Messages
  <2>3. \A i \in DOMAIN messages' : i \in DOMAIN messages /\ (messages'[i].says = "left" => messages[i].says = "left")
    BY <2>1, <2>2
  <2>4. QED BY <2>3 DEF TrueLeaves, Told
<1>6. CASE \/ PollBegins \/ (\E s \in Servers : Answered(s)) \/ AllAnswered \/ AllHandled \/ PollEnds
           \/ (\E p \in Players : Goes(p)) \/ (\E ss \in SUBSET Servers : SetServers(ss))
           \/ UNCHANGED vars
  BY <1>1, <1>6 DEF PollBegins, Answered, AllAnswered, AllHandled, PollEnds, Goes, SetServers, vars
<1>7. QED BY <1>3, <1>4, <1>5, <1>6 DEF Next, Monitor

(* A player is said to have left only when the polls of a whole grace were *)
(* healthy and did not see the player, whatever failed or moved in         *)
(* between, with three exceptions: a missing_since that a failed transfer  *)
(* or a broken poll left standing, or that a restart read from the file.   *)
THEOREM LeaveCorrect == Spec => NoFalseLeave
<1>1. Init => Typed /\ Clock
  BY InitType DEF Init, Clock, Counted, Counts
<1>2. Typed /\ Clock /\ [Next]_vars => (Typed /\ Clock)'
  BY NextType, NextClock
<1>3. Typed /\ Clock /\ [Next]_vars => TrueLeaves
  BY NextLeaves
<1>4. Spec => [][TrueLeaves]_vars
  BY <1>1, <1>2, <1>3, PTL DEF Spec
<1>5. QED BY <1>4 DEF NoFalseLeave, TrueLeaves

-----------------------------------------------------------------------------
(* Messages that are left behind.                                          *)

(* A step leaves nothing more behind, or one message and a fault is met.   *)
Grows(before, after) ==
  \/ after \subseteq before
  \/ faults' <= faults - 1 /\ \E m : after \subseteq before \cup {m}

Budget ==
  \A p \in Players :
    /\ Cardinality(Loose(sessions, messages, p)) <= Faults - faults
    /\ Cardinality(Loose(saved, messages, p)) <= Faults - faults

(* What sessions after the step leave behind, against those before it.     *)
Follows(ss, p) ==
  \/ Grows(Loose(sessions, messages, p), Loose(ss, messages', p))
  \/ Grows(Loose(saved, messages, p), Loose(ss, messages', p))

BudgetStep == faults' <= faults /\ \A p \in Players : Follows(sessions', p) /\ Follows(saved', p)

LEMMA LooseFinite ==
  ASSUME messages \in Messages, NEW ss, NEW p
  PROVE  IsFiniteSet(Loose(ss, messages, p)) /\ Cardinality(Loose(ss, messages, p)) \in Nat
<1>1. DOMAIN messages = 1 .. Len(messages) /\ Len(messages) \in Nat
  BY LenProperties DEF Messages
<1>2. IsFiniteSet(DOMAIN messages)
  BY <1>1, FS_Interval
<1>3. Loose(ss, messages, p) \subseteq DOMAIN messages
  BY DEF Loose
<1>4. QED BY <1>2, <1>3, FS_Subset, FS_CardinalityType

LEMMA GrowsCard ==
  ASSUME NEW S, NEW T, IsFiniteSet(S), Grows(S, T), Cardinality(S) <= Faults - faults,
         faults \in 0 .. Faults, faults' \in 0 .. Faults, faults' <= faults
  PROVE  Cardinality(T) <= Faults - faults'
<1>1. Cardinality(S) \in Nat /\ Faults \in Nat
  BY FS_CardinalityType, MonitorAssumption
<1>2. CASE T \subseteq S
  <2>1. Cardinality(T) <= Cardinality(S) /\ Cardinality(T) \in Nat
    BY <1>2, FS_Subset, FS_CardinalityType
  <2>2. QED BY <1>1, <2>1
<1>3. ASSUME faults' <= faults - 1, NEW m, T \subseteq S \cup {m}
      PROVE  Cardinality(T) <= Faults - faults'
  <2>1. IsFiniteSet(S \cup {m}) /\ Cardinality(S \cup {m}) <= Cardinality(S) + 1
        /\ Cardinality(S \cup {m}) \in Nat
    <3>1. /\ IsFiniteSet(S \cup {m})
          /\ Cardinality(S \cup {m}) = IF m \in S THEN Cardinality(S) ELSE Cardinality(S) + 1
      BY FS_AddElement
    <3>2. QED BY <1>1, <3>1
  <2>2. Cardinality(T) <= Cardinality(S \cup {m}) /\ Cardinality(T) \in Nat
    BY <1>3, <2>1, FS_Subset, FS_CardinalityType
  <2>3. QED BY <1>1, <1>3, <2>1, <2>2
<1>4. QED BY <1>2, <1>3 DEF Grows

LEMMA BudgetKept ==
  ASSUME Typed, Budget, BudgetStep, Typed'
  PROVE  Budget'
<1>1. messages \in Messages /\ faults \in 0 .. Faults /\ faults' \in 0 .. Faults /\ faults' <= faults
  BY DEF Typed, TypeOK, BudgetStep
<1>2. ASSUME NEW p \in Players, NEW ss, Follows(ss, p)
      PROVE  Cardinality(Loose(ss, messages', p)) <= Faults - faults'
  <2>1. /\ IsFiniteSet(Loose(sessions, messages, p)) /\ IsFiniteSet(Loose(saved, messages, p))
        /\ Cardinality(Loose(sessions, messages, p)) <= Faults - faults
        /\ Cardinality(Loose(saved, messages, p)) <= Faults - faults
    BY <1>1, LooseFinite DEF Budget
  <2>2. QED BY <1>1, <1>2, <2>1, GrowsCard DEF Follows
<1>3. QED BY <1>2 DEF Budget, BudgetStep

(* A step that leaves the channel, and what the sessions say of messages.  *)
LEMMA QuietBudget ==
  ASSUME messages' = messages, faults' <= faults,
         \A p \in Players : Loose(sessions', messages, p) = Loose(sessions, messages, p),
         \/ saved' = sessions' \/ saved' = saved
         \/ \A p \in Players : Loose(saved', messages, p) = Loose(saved, messages, p)
  PROVE  BudgetStep
BY DEF BudgetStep, Follows, Grows

LEMMA AgedLoose ==
  ASSUME NEW ss \in Sessions, NEW n \in Nat, NEW channel, NEW p \in Players
  PROVE  Loose(Aged(ss, n), channel, p) = Loose(ss, channel, p)
<1>1. Aged(ss, n)[p] \in Session => Aged(ss, n)[p] # None
  BY NoneApart
<1>2. QED BY <1>1, AgedType, AlikeLoose

LEMMA PausedLoose ==
  ASSUME Typed, NEW channel, NEW p \in Players
  PROVE  Loose(Paused(sessions), channel, p) = Loose(sessions, channel, p)
<1>1. Paused(sessions)[p] \in Session => Paused(sessions)[p] # None
  BY NoneApart
<1>2. QED BY <1>1, PausedSessions, AlikeLoose

LEMMA ServedBudget == ASSUME Typed, NEW p \in Players, Serves(p) PROVE BudgetStep
<1>1. PICK ss, asked, n, x, says : Handles(p, ss, asked, n, x, says)
  BY DEF Serves
<1>2. /\ n \in Nat /\ Change(ss, asked, n) /\ Reaches(messages', x, p, says)
      /\ \A q \in Players : q # p => ss[q] = sessions[q] /\ asked[q] = sessions[q]
      /\ says = "left" \/ n >= 1 \/ ss # sessions
      /\ \/ Loose(ss, messages', p) \subseteq Loose(sessions, messages, p)
         \/ n >= 1 /\ \E m : Loose(ss, messages', p) \subseteq Loose(sessions, messages, p) \cup {m}
      /\ \E m : Loose(asked, messages', p) \subseteq Loose(sessions, messages, p) \cup {m}
  BY <1>1 DEF Handles
<1>3. /\ sessions' = ss /\ faults' <= faults /\ (n >= 1 => faults' <= faults - 1)
      /\ \/ saved' = ss
         \/ saved' = asked /\ faults' <= faults - 1
         \/ saved' = saved /\ (ss = sessions \/ faults' <= faults - 1)
  BY <1>2, ChangeEffect DEF Typed
<1>4. Follows(ss, p)
  BY <1>2, <1>3 DEF Follows, Grows
<1>5. ASSUME NEW q \in Players, q # p, NEW tt, tt[q] = sessions[q]
      PROVE  Follows(tt, q)
  <2>1. Loose(tt, messages', q) \subseteq Loose(tt, messages, q)
    BY <1>2, <1>5, LooseReaches
  <2>2. Loose(tt, messages, q) = Loose(sessions, messages, q)
    BY <1>5, AlikeLoose
  <2>3. QED BY <2>1, <2>2 DEF Follows, Grows
<1>6. \A q \in Players : Follows(sessions', q)
  BY <1>2, <1>3, <1>4, <1>5
<1>7. CASE saved' = ss
  BY <1>3, <1>6, <1>7 DEF BudgetStep
<1>8. CASE saved' = asked /\ faults' <= faults - 1
  <2>1. Follows(asked, p)
    BY <1>2, <1>8 DEF Follows, Grows
  <2>2. \A q \in Players : Follows(saved', q)
    BY <1>2, <1>5, <1>8, <2>1
  <2>3. QED BY <1>3, <1>6, <2>2 DEF BudgetStep
<1>9. CASE saved' = saved /\ (ss = sessions \/ faults' <= faults - 1)
  <2>1. ASSUME NEW q \in Players
        PROVE  Follows(saved, q)
    <3>1. /\ Loose(saved, messages', q) \subseteq Loose(saved, messages, q) \cup {x}
          /\ says = "left" => Loose(saved, messages', q) \subseteq Loose(saved, messages, q)
      BY <1>2, LooseReaches
    <3>2. says = "left" \/ faults' <= faults - 1
      BY <1>2, <1>3, <1>9
    <3>3. QED BY <3>1, <3>2 DEF Follows, Grows
  <2>2. QED BY <1>3, <1>6, <1>9, <2>1 DEF BudgetStep
<1>10. QED BY <1>3, <1>7, <1>8, <1>9

LEMMA RestartBudget == ASSUME Typed, Restart PROVE BudgetStep
<1>1. PICK holds, down, readable : Starts(holds, down, readable)
  BY RestartEffect
<1>2. /\ down \in Nat /\ saved' = Aged(holds, down) /\ (sessions' = saved' \/ sessions' = Nobody)
      /\ StopLeaves(messages', holds) /\ faults' \in 0 .. Faults /\ faults' <= faults - 1
  BY <1>1 DEF Starts
<1>3. faults' <= faults
  BY <1>2, MonitorAssumption DEF Typed, TypeOK
<1>4. ASSUME NEW p \in Players
      PROVE  Follows(saved', p) /\ Follows(Nobody, p)
  <2>1. /\ holds \in Sessions
        /\ \E m : Loose(Nobody, messages', p) \subseteq Loose(sessions, messages, p) \cup {m}
        /\ \E m : \/ Loose(holds, messages', p) \subseteq Loose(saved, messages, p) \cup {m}
                  \/ Loose(holds, messages', p) \subseteq Loose(sessions, messages, p) \cup {m}
    BY <1>2 DEF StopLeaves
  <2>2. Loose(saved', messages', p) = Loose(holds, messages', p)
    BY <1>2, <2>1, AgedLoose
  <2>3. Follows(saved', p)
    BY <1>2, <2>1, <2>2 DEF Follows, Grows
  <2>4. Follows(Nobody, p)
    BY <1>2, <2>1 DEF Follows, Grows
  <2>5. QED BY <2>3, <2>4
<1>5. QED BY <1>2, <1>3, <1>4 DEF BudgetStep

LEMMA NextBudget ==
  ASSUME Typed, [Next]_vars
  PROVE  BudgetStep
<1>1. sessions \in Sessions /\ saved \in Sessions /\ faults \in 0 .. Faults /\ faults <= faults /\ TypeOK
  BY MonitorAssumption DEF Typed, TypeOK
<1>2. CASE AllAnswered
  <2>1. messages' = messages /\ sessions' = Aged(sessions, 1) /\ saved' = Aged(saved, 1) /\ faults' = faults
    BY <1>2 DEF AllAnswered
  <2>2. \A p \in Players : /\ Loose(sessions', messages, p) = Loose(sessions, messages, p)
                           /\ Loose(saved', messages, p) = Loose(saved, messages, p)
    BY <1>1, <2>1, AgedLoose
  <2>3. QED BY <1>1, <2>1, <2>2, QuietBudget
<1>3. CASE AllHandled
  <2>1. messages' = messages
    BY <1>3 DEF AllHandled
  <2>2. CASE UNCHANGED <<sessions, saved, faults>>
    BY <1>1, <2>1, <2>2, QuietBudget
  <2>3. CASE SaveIfChanged(Paused(sessions), 0)
    <3>1. /\ sessions' = Paused(sessions) /\ faults' <= faults
          /\ saved' = sessions' \/ saved' = saved
      BY <1>1, <2>3, SaveChange, ChangeEffect
    <3>2. \A p \in Players : Loose(sessions', messages, p) = Loose(sessions, messages, p)
      BY <3>1, PausedLoose
    <3>3. QED BY <2>1, <3>1, <3>2, QuietBudget
  <2>4. QED BY <1>3, <2>2, <2>3 DEF AllHandled
<1>4. CASE \E p \in Players : \/ Joined(p) \/ Stays(p) \/ Transferred(p)
                              \/ Missed(p) \/ Finished(p) \/ PollBreaks(p)
  BY <1>4, ServedBudget, JoinedServes, StaysServes, TransferredServes, FinishedServes, PollBreaksServes
<1>5. ASSUME NEW m \in DOMAIN messages, Deleted(m)
      PROVE  BudgetStep
  <2>1. UNCHANGED <<sessions, saved, faults>> /\ messages \in Messages
        /\ messages' = [messages EXCEPT ![m].says = "deleted"]
    BY <1>1, <1>5 DEF Deleted, TypeOK
  <2>2. /\ DOMAIN messages = 1 .. Len(messages)
        /\ \A i \in 1 .. Len(messages) : messages[i] \in [player : Players, says : Says \cup {"deleted"}]
    BY <2>1, LenProperties, ElementOfSeq DEF Messages
  <2>3. \A i \in DOMAIN messages' :
          /\ i \in DOMAIN messages /\ messages'[i].player = messages[i].player
          /\ messages'[i].says = "online" => messages[i].says = "online"
    BY <2>1, <2>2
  <2>4. \A ss, p : Loose(ss, messages', p) \subseteq Loose(ss, messages, p)
    BY <2>3 DEF Loose
  <2>5. QED BY <1>1, <2>1, <2>4 DEF BudgetStep, Follows, Grows
<1>6. CASE Restart
  BY <1>6, RestartBudget
<1>7. CASE PollBegins \/ PollEnds \/ (\E p \in Players : Goes(p))
           \/ (\E ss \in SUBSET Servers : SetServers(ss)) \/ UNCHANGED vars
  <2>1. UNCHANGED <<messages, sessions, saved, faults>>
    BY <1>7 DEF PollBegins, PollEnds, Goes, SetServers, vars
  <2>2. QED BY <1>1, <2>1, QuietBudget
<1>8. ASSUME NEW s \in Servers, Answered(s)
      PROVE  BudgetStep
  <2>1. UNCHANGED <<messages, sessions, saved>>
    BY <1>8 DEF Answered
  <2>2. PICK answer \in Snapshots(s) : Cost(IF answer = Failed THEN 1 ELSE 0)
    BY <1>8 DEF Answered
  <2>3. faults' <= faults
    BY <1>1, <2>2, MonitorAssumption DEF Cost
  <2>4. QED BY <2>1, <2>3, QuietBudget
<1>9. QED BY <1>2, <1>3, <1>4, <1>5, <1>6, <1>7, <1>8 DEF Next, Monitor

(* A failed request, a failed write or a restart, with the state file lost *)
(* or not, leaves at most one message of each player behind that goes on   *)
(* saying that the player is online.                                       *)
THEOREM OrphansCorrect == Spec => []FewOrphans
<1>1. Init => Typed /\ Budget
  <2>1. ASSUME Init
        PROVE  Budget
    <3>1. messages = <<>> /\ faults = Faults
      BY <2>1 DEF Init
    <3>2. \A ss, p : Loose(ss, messages, p) = {}
      BY <3>1 DEF Loose
    <3>3. \A ss, p : Cardinality(Loose(ss, messages, p)) = 0
      BY <3>2, FS_EmptySet
    <3>4. Faults - faults = 0
      BY <3>1, MonitorAssumption
    <3>5. QED BY <3>3, <3>4 DEF Budget
  <2>2. QED BY <2>1, InitType
<1>2. Typed /\ Budget /\ [Next]_vars => (Typed /\ Budget)'
  BY NextType, NextBudget, BudgetKept
<1>3. Typed /\ Budget => FewOrphans
  <2>1. SUFFICES ASSUME Typed, Budget, NEW p \in Players
                 PROVE  Cardinality({m \in Orphans : messages[m].player = p}) <= Faults - faults
    BY DEF FewOrphans
  <2> DEFINE own == {m \in Orphans : messages[m].player = p}
  <2>2. own \in SUBSET Loose(sessions, messages, p)
    BY DEF Orphans, Loose
  <2>3. messages \in Messages /\ faults \in 0 .. Faults
    BY <2>1 DEF Typed, TypeOK
  <2>4. IsFiniteSet(Loose(sessions, messages, p)) /\ Cardinality(Loose(sessions, messages, p)) \in Nat
    BY <2>3, LooseFinite
  <2> HIDE DEF own
  <2>5. IsFiniteSet(own) /\ Cardinality(own) <= Cardinality(Loose(sessions, messages, p))
    BY <2>2, <2>4, FS_Subset
  <2>6. Cardinality(own) \in Nat
    BY <2>5, FS_CardinalityType
  <2>7. Cardinality(own) <= Faults - faults
    BY <2>1, <2>3, <2>4, <2>5, <2>6, MonitorAssumption DEF Budget
  <2>8. QED BY <2>7 DEF own
<1>4. QED BY <1>1, <1>2, <1>3, PTL DEF Spec
=============================================================================
