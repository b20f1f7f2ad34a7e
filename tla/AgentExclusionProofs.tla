------------------------ MODULE AgentExclusionProofs ------------------------
(***************************************************************************)
(* Why at most one job works on a server, why no task is left behind on    *)
(* the lock of a deleted server, and why no root tool undoes another's     *)
(* change of the registry: theorems about AgentJobs, for any number of     *)
(* servers, tasks, Lock objects and job table entries.                     *)
(*                                                                         *)
(* The argument is about order.  A deletion drops its server's Lock        *)
(* object, so it must be the last to work on that server: whoever was      *)
(* accepted before it comes before it in every queue, and nobody is        *)
(* accepted after it.                                                      *)
(***************************************************************************)
EXTENDS AgentJobsProofs

USE ConstantsOK

-----------------------------------------------------------------------------
(* Queues                                                                  *)

\* q lists the members of S, each of them once
QueueOf(q, S) ==
  /\ \A i \in DOMAIN q : q[i] \in S
  /\ \A t \in S : \E i \in DOMAIN q : q[i] = t
  /\ \A i, j \in DOMAIN q : q[i] = q[j] => i = j

\* u comes after d in q
Behind(u, d, q) == \E i, j \in DOMAIN q : i < j /\ q[i] = d /\ q[j] = u

LEMMA QueueAppend ==
  ASSUME NEW T, NEW S, NEW q \in Seq(T), QueueOf(q, S), NEW t \in T, t \notin S
  PROVE  QueueOf(Append(q, t), S \cup {t})
<1>1. Len(q) \in Nat /\ DOMAIN q = 1 .. Len(q)
  BY LenProperties
<1>2. /\ DOMAIN Append(q, t) = 1 .. Len(q) + 1
      /\ \A i \in 1 .. Len(q) : Append(q, t)[i] = q[i]
      /\ Append(q, t)[Len(q) + 1] = t
  BY <1>1, AppendProperties, LenProperties
<1>3. QED BY <1>1, <1>2 DEF QueueOf

LEMMA QueueTail ==
  ASSUME NEW T, NEW S, NEW q \in Seq(T), QueueOf(q, S), q # <<>>
  PROVE  Head(q) \in S /\ QueueOf(Tail(q), S \ {Head(q)})
<1>1. Len(q) \in Nat \ {0} /\ DOMAIN q = 1 .. Len(q) /\ Head(q) = q[1]
  BY LenProperties, EmptySeq
<1>2. /\ DOMAIN Tail(q) = 1 .. Len(q) - 1
      /\ \A i \in 1 .. Len(q) - 1 : Tail(q)[i] = q[i + 1]
  BY <1>1, HeadTailProperties, LenProperties
<1>3. Head(q) \in S
  BY <1>1 DEF QueueOf
<1>4. \A i \in DOMAIN Tail(q) : i + 1 \in DOMAIN q /\ i + 1 # 1 /\ Tail(q)[i] = q[i + 1]
  BY <1>1, <1>2
<1>5. \A i \in DOMAIN Tail(q) : Tail(q)[i] \in S \ {Head(q)}
  <2> SUFFICES ASSUME NEW i \in DOMAIN Tail(q) PROVE Tail(q)[i] \in S \ {Head(q)}
    OBVIOUS
  <2>1. i + 1 \in DOMAIN q /\ i + 1 # 1 /\ Tail(q)[i] = q[i + 1] /\ 1 \in DOMAIN q
    BY <1>1, <1>4
  <2>2. q[i + 1] \in S /\ q[i + 1] # q[1]
    BY <2>1 DEF QueueOf
  <2>3. QED BY <1>1, <2>1, <2>2
<1>6. \A t \in S \ {Head(q)} : \E i \in DOMAIN Tail(q) : Tail(q)[i] = t
  <2> SUFFICES ASSUME NEW t \in S \ {Head(q)} PROVE \E i \in DOMAIN Tail(q) : Tail(q)[i] = t
    OBVIOUS
  <2>1. PICK k \in DOMAIN q : q[k] = t
    BY DEF QueueOf
  <2>2. k # 1 /\ k - 1 \in 1 .. Len(q) - 1 /\ (k - 1) + 1 = k
    BY <1>1, <2>1
  <2>3. QED BY <1>2, <2>1, <2>2
<1>7. \A i, j \in DOMAIN Tail(q) : Tail(q)[i] = Tail(q)[j] => i = j
  <2>1. \A i, j \in DOMAIN Tail(q) : Tail(q)[i] = Tail(q)[j] => i + 1 = j + 1
    BY <1>4 DEF QueueOf
  <2>2. QED BY <1>2, <2>1
<1>8. QED BY <1>3, <1>5, <1>6, <1>7 DEF QueueOf

LEMMA BehindAppend ==
  ASSUME NEW T, NEW S, NEW q \in Seq(T), QueueOf(q, S), NEW t \in T, t \notin S,
         NEW u, NEW d, Behind(u, d, Append(q, t))
  PROVE  d # t /\ (u # t => Behind(u, d, q))
<1>1. Len(q) \in Nat /\ DOMAIN q = 1 .. Len(q)
  BY LenProperties
<1>2. /\ DOMAIN Append(q, t) = 1 .. Len(q) + 1
      /\ \A i \in 1 .. Len(q) : Append(q, t)[i] = q[i]
      /\ Append(q, t)[Len(q) + 1] = t
  BY <1>1, AppendProperties, LenProperties
<1>3. PICK i, j \in 1 .. Len(q) + 1 : i < j /\ Append(q, t)[i] = d /\ Append(q, t)[j] = u
  BY <1>2 DEF Behind
<1>4. i \in 1 .. Len(q) /\ q[i] = d /\ d \in S
  BY <1>1, <1>2, <1>3 DEF QueueOf
<1>5. ASSUME u # t PROVE Behind(u, d, q)
  <2>1. j \in 1 .. Len(q) /\ q[j] = u
    BY <1>1, <1>2, <1>3, <1>5
  <2>2. QED BY <1>1, <1>3, <1>4, <2>1 DEF Behind
<1>6. QED BY <1>4, <1>5

LEMMA BehindTail ==
  ASSUME NEW T, NEW q \in Seq(T), q # <<>>, NEW u, NEW d, Behind(u, d, Tail(q))
  PROVE  Behind(u, d, q)
<1>1. Len(q) \in Nat \ {0} /\ DOMAIN q = 1 .. Len(q)
  BY LenProperties, EmptySeq
<1>2. /\ DOMAIN Tail(q) = 1 .. Len(q) - 1
      /\ \A i \in 1 .. Len(q) - 1 : Tail(q)[i] = q[i + 1]
  BY <1>1, HeadTailProperties, LenProperties
<1>3. PICK i, j \in 1 .. Len(q) - 1 : i < j /\ Tail(q)[i] = d /\ Tail(q)[j] = u
  BY <1>2 DEF Behind
<1>4. i + 1 \in DOMAIN q /\ j + 1 \in DOMAIN q /\ i + 1 < j + 1 /\ q[i + 1] = d /\ q[j + 1] = u
  BY <1>1, <1>2, <1>3
<1>5. QED BY <1>4 DEF Behind

\* everyone else in a queue is behind its head
LEMMA BehindHead ==
  ASSUME NEW T, NEW S, NEW q \in Seq(T), QueueOf(q, S), q # <<>>, NEW u \in S, u # Head(q)
  PROVE  Behind(u, Head(q), q)
<1>1. Len(q) \in Nat \ {0} /\ DOMAIN q = 1 .. Len(q) /\ Head(q) = q[1]
  BY LenProperties, EmptySeq
<1>2. PICK k \in DOMAIN q : q[k] = u
  BY DEF QueueOf
<1>3. 1 \in DOMAIN q /\ 1 < k
  BY <1>1, <1>2
<1>4. QED BY <1>1, <1>2, <1>3 DEF Behind

-----------------------------------------------------------------------------
(* The inductive invariant                                                 *)

InPhase(p) == {t \in Tasks : task[t].phase = p}
Waiting(l) == {t \in Tasks : IF l = Prov THEN task[t].phase = "prov"
                                         ELSE task[t].phase = "lock" /\ task[t].lock = l}

\* Each queue lists the tasks whose phase says that they are in it.
Queues ==
  /\ QueueOf(ready, InPhase("ready"))
  /\ \A l \in Locks : QueueOf(waiters[l], Waiting(l))

\* Who has which lock: a change or deletion has both while it runs.
HasProv(t)     == task[t].kind \in Tools /\ task[t].phase \in {"lock", "run", "commit"}
HasServer(t, l) == task[t].lock = l /\ task[t].phase \in {"run", "commit"}

Holders ==
  /\ \A t \in Tasks : holder[Prov] = t <=> HasProv(t)
  /\ \A l \in Locks \ {Prov} : \A t \in Tasks : holder[l] = t <=> HasServer(t, l)

\* Work on a served server uses the server's present Lock object.
OnServer(t) ==
  /\ task[t].phase # "lost"
  /\ task[t].phase \in {"prov", "commit"} => task[t].kind \in Tools
  /\ task[t].kind = "provision" /\ task[t].phase \in Pending =>
       task[t].phase # "lock" /\ task[t].lock = Prov
  /\ task[t].kind # "provision" /\ task[t].phase \in Pending => task[t].server \in servers
  /\ task[t].kind # "provision" /\ task[t].phase \in {"lock", "run", "commit"} =>
       task[t].lock = Lock(task[t].server)

\* u is at an earlier stage than d, or behind d at the same one
After(u, d) ==
  \/ task[d].phase = "ready" /\ Behind(u, d, ready)
  \/ /\ task[d].phase = "prov"
     /\ task[u].phase = "ready" \/ Behind(u, d, waiters[Prov])
  \/ /\ task[d].phase = "lock"
     /\ task[u].phase \in {"ready", "prov"} \/ Behind(u, d, waiters[task[d].lock])
  \/ task[d].phase \in {"run", "commit"} /\ task[u].phase \in Pending

\* A change or deletion is the last of its server's tasks.
Closes(d) ==
  task[d].kind \in Maint =>
    \A u \in Tasks \ {d} : After(u, d) => task[u].server # task[d].server

\* What a root tool knows of the registry, and what it has made of it.
ToolOK(t) ==
  /\ task[t].kind \in Tools /\ task[t].phase = "run" => task[t].base = disk
  /\ task[t].phase = "commit" =>
       /\ task[t].kind = "change" => task[t].base = disk /\ task[t].server \in disk.managed
       /\ task[t].kind = "provision" => task[t].server \in disk.managed \ servers
       /\ task[t].kind \in {"delete", "deleteLegacy"} => task[t].server \notin Loaded(disk)
  /\ task[t].kind = "provision" /\ task[t].phase \in Pending /\ task[t].server \in servers =>
       task[t].server \in Loaded(disk)

\* The agent serves what the registry lists, but for the server a tool has
\* just added or dropped; an id listed twice is not served.
Registry ==
  /\ disk.managed \cap disk.tombs = {}
  /\ Legacy \cap disk.managed \cap servers = {}
  /\ Loadable(disk) => \A s \in Servers :
       \/ s \in servers /\ s \in Loaded(disk)
       \/ s \notin servers /\ s \notin Loaded(disk)
       \/ \E t \in Tasks : task[t].phase = "commit" /\ task[t].server = s

Ordered ==
  /\ Queues /\ Holders /\ Registry
  /\ \A t \in Tasks : OnServer(t) /\ Closes(t) /\ ToolOK(t)

Exclusion == EverStray \/ Ordered

-----------------------------------------------------------------------------
(* A step changes one task t.  Closes is kept for another task d when      *)
(* nobody comes to be after d but a task of another server.                *)
LEMMA ClosesKept ==
  ASSUME NEW t \in Tasks, OneTask(t), NEW d \in Tasks \ {t}, Closes(d),
         \A u \in Tasks \ {d} : After(u, d)' =>
           \/ After(u, d) /\ task'[u].server = task[u].server
           \/ task'[u].server # task[d].server
  PROVE  Closes(d)'
<1>1. task'[d] = task[d]
  BY DEF OneTask
<1>2. SUFFICES ASSUME task[d].kind \in Maint, NEW u \in Tasks \ {d}, After(u, d)'
               PROVE  task'[u].server # task[d].server
  BY <1>1 DEF Closes
<1>3. QED BY <1>2 DEF Closes

(* A request is accepted: its task is the last in ready.                   *)
LEMMA StartKeeps ==
  ASSUME TypeOK, MaintenanceExact, Ordered, NEW k \in Kinds \ {"file"}, NEW s \in Servers,
         StartTask(k, s),
         \/ k = "provision" /\ s \notin servers
         \/ k # "provision" /\ s \in servers /\ s \notin maintenance
  PROVE  Ordered'
<1>1. PICK f \in Tasks : f = FreshTask /\ task[f].phase = "free"
  BY FreshIsFree DEF StartTask, NewTask
<1>2. /\ task'[f] = [kind |-> k, server |-> s, phase |-> "ready", lock |-> Prov, base |-> Blank]
      /\ OneTask(f)
  BY <1>1, StartTaskType DEF OneTask, TypeOK
<1>3. /\ task'[f].kind = k /\ task'[f].server = s /\ task'[f].phase = "ready"
      /\ task'[f].lock = Prov
  BY <1>2
<1>4. ready' = Append(ready, f) /\ UNCHANGED <<up, servers, gen, holder, waiters, disk>>
  BY <1>1 DEF StartTask
<1>5. ready \in Seq(Tasks) /\ f \notin InPhase("ready") /\ QueueOf(ready, InPhase("ready"))
  BY <1>1 DEF TypeOK, InPhase, Ordered, Queues
<1>6. Queues'
  <2>1. InPhase("ready")' = InPhase("ready") \cup {f}
    BY <1>2, <1>3 DEF InPhase, OneTask
  <2>2. QueueOf(ready, InPhase("ready"))'
    BY <1>4, <1>5, <2>1, QueueAppend
  <2>3. \A l \in Locks : Waiting(l)' = Waiting(l)
    BY <1>1, <1>2, <1>3 DEF Waiting, OneTask
  <2>4. QED BY <1>4, <2>2, <2>3 DEF Queues, Ordered
<1>7. Holders'
  <2>1. \A t \in Tasks : HasProv(t)' <=> HasProv(t)
    BY <1>1, <1>2, <1>3 DEF HasProv, OneTask
  <2>2. \A t \in Tasks, l \in Locks : HasServer(t, l)' <=> HasServer(t, l)
    BY <1>1, <1>2, <1>3 DEF HasServer, OneTask
  <2>3. QED BY <1>4, <2>1, <2>2 DEF Holders, Ordered
<1>8. Registry'
  <2>1. \A t \in Tasks : task[t].phase = "commit" => task'[t] = task[t]
    BY <1>1, <1>2 DEF OneTask
  <2>2. QED BY <1>4, <2>1 DEF Registry, Ordered
<1>9. ASSUME NEW t \in Tasks \ {f} PROVE OnServer(t)' /\ ToolOK(t)' /\ Closes(t)'
  <2>1. task'[t] = task[t]
    BY <1>2 DEF OneTask
  <2>2. OnServer(t)'
    BY <1>4, <2>1 DEF OnServer, Lock, Ordered
  <2>3. ToolOK(t)'
    BY <1>4, <2>1 DEF ToolOK, Ordered
  <2>4. Closes(t)'
    <3>1. CASE task[t].kind \notin Maint
      BY <2>1, <3>1 DEF Closes
    <3>2. CASE task[t].kind \in Maint /\ task[t].phase \notin Pending
      BY <2>1, <3>2 DEF Closes, After, Pending
    <3>3. CASE task[t].kind \in Maint /\ task[t].phase \in Pending
      <4>1. task[t].server # s
        <5>1. task[t].kind # "provision" /\ task[t].server \in Servers
          BY <3>3 DEF Maint, TypeOK, TaskRecords
        <5>2. task[t].server \in servers
          BY <3>3, <5>1 DEF Ordered, OnServer
        <5>3. task[t].server \in maintenance
          BY <3>3, <5>1 DEF MaintenanceExact, Maintains
        <5>4. QED BY <5>2, <5>3
      <4>2. ASSUME NEW u \in Tasks \ {t}, After(u, t)', u # f
            PROVE  After(u, t) /\ task'[u].server = task[u].server
        <5>1. task'[u] = task[u]
          BY <1>2, <4>2 DEF OneTask
        <5>2. Behind(u, t, ready') => Behind(u, t, ready)
          BY <1>4, <1>5, <4>2, BehindAppend
        <5>3. QED BY <1>4, <2>1, <4>2, <5>1, <5>2 DEF After
      <4>3. Closes(t)
        BY DEF Ordered
      <4>4. QED BY <1>2, <1>3, <4>1, <4>2, <4>3, ClosesKept
    <3>4. QED BY <3>1, <3>2, <3>3
  <2>5. QED BY <2>2, <2>3, <2>4
<1>10. OnServer(f)'
  BY <1>3, <1>4 DEF OnServer
<1>11. ToolOK(f)'
  BY <1>3, <1>4 DEF ToolOK
<1>12. Closes(f)'
  <2>1. ASSUME NEW u \in Tasks \ {f} PROVE ~After(u, f)'
    <3>1. ~Behind(u, f, ready')
      BY <1>4, <1>5, BehindAppend
    <3>2. QED BY <1>3, <3>1 DEF After
  <2>2. QED BY <2>1 DEF Closes
<1>13. \A t \in Tasks : (OnServer(t) /\ Closes(t) /\ ToolOK(t))'
  BY <1>9, <1>10, <1>11, <1>12
<1>14. QED BY <1>6, <1>7, <1>8, <1>13 DEF Ordered

(* A file operation waits in the gap after a release: its task is the last *)
(* to wait for the server's lock.                                          *)
LEMMA FileOpKeeps ==
  ASSUME TypeOK, MaintenanceExact, Ordered, NEW s \in Servers, QueueFileOp(s)
  PROVE  Ordered'
<1>0. PICK l \in Locks : l = Lock(s) /\ l # Prov
  BY LockIsLock DEF TypeOK
<1>1. PICK f \in Tasks : f = FreshTask /\ task[f].phase = "free"
  BY FreshIsFree DEF QueueFileOp, NewTask
<1>2. /\ task'[f] = [kind |-> "file", server |-> s, phase |-> "lock", lock |-> l, base |-> Blank]
      /\ OneTask(f)
  BY <1>0, <1>1 DEF OneTask, TypeOK, QueueFileOp, NewTask
<1>3. /\ task'[f].kind = "file" /\ task'[f].server = s /\ task'[f].phase = "lock"
      /\ task'[f].lock = l
  BY <1>2
<1>5. /\ waiters' = [waiters EXCEPT ![l] = Append(@, f)]
      /\ UNCHANGED <<up, servers, gen, holder, maintenance, ready, disk>>
      /\ s \in servers /\ s \notin maintenance
  BY <1>0, <1>1 DEF QueueFileOp, Busy
<1>6. "file" \notin Tools /\ "file" \notin Maint /\ "file" # "provision"
  BY DEF Tools, Maint
<1>7. waiters[l] \in Seq(Tasks) /\ f \notin Waiting(l) /\ QueueOf(waiters[l], Waiting(l))
  BY <1>1, <1>0 DEF TypeOK, Waiting, Ordered, Queues
<1>8. waiters'[l] = Append(waiters[l], f) /\ \A m \in Locks \ {l} : waiters'[m] = waiters[m]
  BY <1>0, <1>5 DEF TypeOK
<1>9. Queues'
  <2>1. Waiting(l)' = Waiting(l) \cup {f}
    BY <1>0, <1>1, <1>2, <1>3 DEF Waiting, OneTask
  <2>2. QueueOf(waiters[l], Waiting(l))'
    BY <1>7, <1>8, <2>1, QueueAppend
  <2>3. \A m \in Locks \ {l} : Waiting(m)' = Waiting(m)
    BY <1>1, <1>2, <1>3 DEF Waiting, OneTask
  <2>4. InPhase("ready")' = InPhase("ready")
    BY <1>1, <1>2, <1>3 DEF InPhase, OneTask
  <2>5. \A m \in Locks : QueueOf(waiters[m], Waiting(m))'
    BY <1>8, <2>2, <2>3 DEF Queues, Ordered
  <2>6. QED BY <1>5, <2>4, <2>5 DEF Queues, Ordered
<1>10. Holders'
  <2>1. \A t \in Tasks : HasProv(t)' <=> HasProv(t)
    BY <1>1, <1>2, <1>3, <1>6 DEF HasProv, OneTask
  <2>2. \A t \in Tasks, m \in Locks : HasServer(t, m)' <=> HasServer(t, m)
    BY <1>1, <1>2, <1>3 DEF HasServer, OneTask
  <2>3. QED BY <1>5, <2>1, <2>2 DEF Holders, Ordered
<1>11. Registry'
  <2>1. \A t \in Tasks : task[t].phase = "commit" => task'[t] = task[t]
    BY <1>1, <1>2 DEF OneTask
  <2>2. QED BY <1>5, <2>1 DEF Registry, Ordered
<1>12. ASSUME NEW t \in Tasks \ {f} PROVE OnServer(t)' /\ ToolOK(t)' /\ Closes(t)'
  <2>1. task'[t] = task[t]
    BY <1>2 DEF OneTask
  <2>2. OnServer(t)'
    BY <1>5, <2>1 DEF OnServer, Lock, Ordered
  <2>3. ToolOK(t)'
    BY <1>5, <2>1 DEF ToolOK, Ordered
  <2>4. Closes(t)'
    <3>1. CASE task[t].kind \notin Maint
      BY <2>1, <3>1 DEF Closes
    <3>2. CASE task[t].kind \in Maint /\ task[t].phase \notin Pending
      BY <2>1, <3>2 DEF Closes, After, Pending
    <3>3. CASE task[t].kind \in Maint /\ task[t].phase \in Pending
      <4>1. task[t].server # s
        BY <1>5, <3>3 DEF MaintenanceExact, Maintains, TypeOK, TaskRecords
      <4>2. ASSUME NEW u \in Tasks \ {t}, After(u, t)', u # f
            PROVE  After(u, t) /\ task'[u].server = task[u].server
        <5>1. task'[u] = task[u]
          BY <1>2, <4>2 DEF OneTask
        <5>2. \A m \in Locks : Behind(u, t, waiters'[m]) => Behind(u, t, waiters[m])
          <6>1. Behind(u, t, waiters'[l]) => Behind(u, t, waiters[l])
            BY <1>7, <1>8, <4>2, BehindAppend
          <6>2. QED BY <1>8, <6>1
        <5>3. task[t].lock \in Locks /\ Prov \in Locks
          BY DEF TypeOK, TaskRecords, Locks
        <5>4. QED BY <1>5, <2>1, <4>2, <5>1, <5>2, <5>3 DEF After
      <4>3. Closes(t)
        BY DEF Ordered
      <4>4. QED BY <1>2, <1>3, <4>1, <4>2, <4>3, ClosesKept
    <3>4. QED BY <3>1, <3>2, <3>3
  <2>5. QED BY <2>2, <2>3, <2>4
<1>13. OnServer(f)'
  BY <1>0, <1>3, <1>5 DEF OnServer, Lock
<1>14. ToolOK(f)' /\ Closes(f)'
  BY <1>3, <1>6 DEF ToolOK, Closes
<1>15. \A t \in Tasks : (OnServer(t) /\ Closes(t) /\ ToolOK(t))'
  BY <1>12, <1>13, <1>14
<1>16. QED BY <1>9, <1>10, <1>11, <1>15 DEF Ordered

-----------------------------------------------------------------------------
(* A task moves on.  It leaves the queue it was in, which gives a queue r  *)
(* of tasks to start, waiters w and, when it was given the provisioning    *)
(* lock, holders h; then it goes on to the next lock, or to its work.      *)

Left(t, r, w) ==
  /\ r \in Seq(Tasks) /\ QueueOf(r, InPhase("ready") \ {t})
  /\ \A u, d \in Tasks : Behind(u, d, r) => Behind(u, d, ready)
  /\ w \in [Locks -> Seq(Tasks)]
  /\ \A l \in Locks : /\ QueueOf(w[l], Waiting(l) \ {t})
                      /\ \A u, d \in Tasks : Behind(u, d, w[l]) => Behind(u, d, waiters[l])

Granted(t, h) ==
  /\ h \in [Locks -> Tasks \cup {NoTask}]
  /\ h[Prov] = t <=> task[t].kind \in Tools
  /\ \A u \in Tasks \ {t} : h[Prov] = u <=> HasProv(u)
  /\ \A l \in Locks \ {Prov} : h[l] = holder[l]

\* no task of t's server is at an earlier stage than the lock of the server
LastOne(t) ==
  task[t].kind \in Maint =>
    \A u \in Tasks \ {t} : task[u].server = task[t].server => task[u].phase \notin {"ready", "prov"}

LEMMA OthersKept ==
  ASSUME NEW t \in Tasks, OneTask(t), NEW d \in Tasks \ {t}, UNCHANGED <<servers, gen, disk>>,
         OnServer(d), ToolOK(d)
  PROVE  OnServer(d)' /\ ToolOK(d)'
<1>1. task'[d] = task[d]
  BY DEF OneTask
<1>2. OnServer(d)'
  BY <1>1 DEF OnServer, Lock
<1>3. ToolOK(d)'
  BY <1>1 DEF ToolOK
<1>4. QED BY <1>2, <1>3

(* Nobody comes to be after d because t moves on.                          *)
LEMMA MoveKeepsCloses ==
  ASSUME TypeOK, NEW t \in Tasks, OneTask(t), task'[t].server = task[t].server,
         \/ task[t].phase = "ready" /\ task'[t].phase # "ready"
         \/ task[t].phase \in {"prov", "lock"} /\ task'[t].phase \notin {"ready", "prov"},
         NEW d \in Tasks \ {t}, OnServer(d), Closes(d),
         \A u \in Tasks : Behind(u, d, ready') => Behind(u, d, ready),
         \A u \in Tasks, l \in Locks : Behind(u, d, waiters'[l]) =>
           \/ Behind(u, d, waiters[l])
           \/ u = t /\ task[t].phase = "ready"
           \/ u = t /\ task[t].phase = "prov" /\ l # Prov
  PROVE  Closes(d)'
<1>1. task'[d] = task[d]
  BY DEF OneTask
<1>2. task[d].lock \in Locks /\ Prov \in Locks
  BY DEF TypeOK, TaskRecords, Locks
<1>3. task[d].kind \in Maint /\ task[d].phase = "lock" => task[d].lock # Prov
  BY LockIsLock DEF OnServer, Maint, TypeOK, TaskRecords
<1>4. ASSUME NEW u \in Tasks \ {d}, After(u, d)', task[d].kind \in Maint
      PROVE  After(u, d) /\ task'[u].server = task[u].server
  <2>1. CASE u # t
    <3>1. task'[u] = task[u]
      BY <2>1 DEF OneTask
    <3>2. QED BY <1>1, <1>2, <1>4, <2>1, <3>1 DEF After
  <2>2. CASE u = t
    BY <1>1, <1>2, <1>3, <1>4, <2>2 DEF After, Pending
  <2>3. QED BY <2>1, <2>2
<1>5. CASE task[d].kind \in Maint
  BY <1>4, <1>5, ClosesKept
<1>6. CASE task[d].kind \notin Maint
  BY <1>1, <1>6 DEF Closes
<1>7. QED BY <1>5, <1>6

(* t goes on to its server's lock, and takes it or waits.                  *)
LEMMA EnterServerLockKeeps ==
  ASSUME TypeOK, Ordered, NEW t \in Tasks, task[t].kind \in Maint \cup {"action"},
         task[t].phase \in {"ready", "prov"},
         NEW h, NEW w, Left(t, ready', w), Granted(t, h), LastOne(t),
         EnterServerLock(t, h, w), UNCHANGED <<servers, gen, disk>>
  PROVE  Ordered'
<1>1. /\ task \in [Tasks -> TaskRecords] /\ task[t] \in TaskRecords
      /\ task[t].server \in Servers /\ task[t].kind # "provision"
  BY DEF TypeOK, TaskRecords, Maint
<1>2. PICK l \in Locks : l = Lock(task[t].server) /\ l # Prov
  BY <1>1, LockIsLock DEF TypeOK
<1>3. OnServer(t) /\ task[t].server \in servers
  BY <1>1 DEF Ordered, OnServer, Pending
<1>4. OneTask(t) /\ task'[t].kind = task[t].kind /\ task'[t].server = task[t].server
  BY EnterServerLockAdvances DEF Advances, Pending
<1>5. \/ /\ h[l] = NoTask /\ w[l] = <<>>
         /\ holder' = [h EXCEPT ![l] = t]
         /\ waiters' = w
         /\ task' = [task EXCEPT ![t].phase = "run", ![t].lock = l, ![t].base = disk]
      \/ /\ holder' = h
         /\ waiters' = [w EXCEPT ![l] = Append(@, t)]
         /\ task' = [task EXCEPT ![t].phase = "lock", ![t].lock = l]
  BY <1>2, <1>3 DEF EnterServerLock
<1>6. /\ task'[t].phase \in {"run", "lock"} /\ task'[t].lock = l
      /\ task'[t].phase = "run" => task'[t].base = disk
  BY <1>1, <1>5 DEF TaskRecords
<1>7. ASSUME NEW d \in Tasks \ {t} PROVE OnServer(d)' /\ ToolOK(d)' /\ OnServer(d)
  BY <1>4, OthersKept DEF Ordered
<1>8. InPhase("ready")' = InPhase("ready") \ {t}
  BY <1>4, <1>6 DEF InPhase, OneTask
<1>9. Registry'
  <2>1. \A u \in Tasks : task[u].phase = "commit" => task'[u] = task[u]
    BY <1>4 DEF OneTask
  <2>2. QED BY <2>1 DEF Registry, Ordered
<1>10. OnServer(t)' /\ ToolOK(t)'
  <2>1. OnServer(t)'
    BY <1>1, <1>2, <1>3, <1>4, <1>6 DEF OnServer, Lock
  <2>2. ToolOK(t)'
    BY <1>1, <1>4, <1>6 DEF ToolOK
  <2>3. QED BY <2>1, <2>2
<1>11. \A u \in Tasks : u # t =>
         /\ HasProv(u)' <=> HasProv(u)
         /\ \A m \in Locks : HasServer(u, m)' <=> HasServer(u, m)
  BY <1>4 DEF HasProv, HasServer, OneTask
<1>12. \A m \in Locks \ {Prov} : ~HasServer(t, m) /\ \A u \in Tasks : holder[m] = u <=> HasServer(u, m)
  BY DEF HasServer, Ordered, Holders
<1>13. HasProv(t)' <=> task[t].kind \in Tools
  BY <1>4, <1>6 DEF HasProv
<1>14. CASE /\ h[l] = NoTask /\ w[l] = <<>>
            /\ holder' = [h EXCEPT ![l] = t]
            /\ waiters' = w
            /\ task' = [task EXCEPT ![t].phase = "run", ![t].lock = l, ![t].base = disk]
  <2>1. task'[t].phase = "run"
    BY <1>1, <1>14 DEF TaskRecords
  <2>2. \A m \in Locks : Waiting(m)' = Waiting(m) \ {t}
    BY <1>4, <2>1 DEF Waiting, OneTask
  <2>3. Queues'
    BY <1>8, <1>14, <2>2 DEF Queues, Left
  <2>4. /\ holder'[Prov] = h[Prov] /\ holder'[l] = t
        /\ \A m \in Locks \ {Prov, l} : holder'[m] = holder[m]
        /\ holder[l] = NoTask
    BY <1>2, <1>14 DEF Granted, Locks
  <2>5. \A u \in Tasks : (holder[Prov] = u)' <=> HasProv(u)'
    BY <1>11, <1>13, <2>4 DEF Granted
  <2>6. ASSUME NEW m \in Locks \ {Prov}, NEW u \in Tasks
        PROVE  (holder[m] = u)' <=> HasServer(u, m)'
    <3>1. CASE u # t
      BY <1>11, <1>12, <2>4, <2>6, <3>1
    <3>2. CASE u = t
      BY <1>6, <1>12, <2>1, <2>4, <2>6, <3>2 DEF HasServer
    <3>3. QED BY <3>1, <3>2
  <2>7. Holders'
    BY <2>5, <2>6 DEF Holders
  <2>8. Closes(t)'
    <3>1. SUFFICES ASSUME task[t].kind \in Maint, NEW u \in Tasks \ {t},
                          task'[u].phase \in Pending, task'[u].server = task[t].server
                   PROVE  FALSE
      BY <1>4, <2>1 DEF Closes, After
    <3>2. task'[u] = task[u]
      BY <1>4, <3>1 DEF OneTask
    <3>3. task[u].phase \in {"lock", "run", "commit"}
      BY <3>1, <3>2 DEF LastOne, Pending, Ordered, OnServer
    <3>4. ~HasProv(u)
      BY <3>1 DEF Granted, Maint, Tools
    <3>5. task[u].kind # "provision" /\ task[u].lock = l
      BY <1>2, <3>1, <3>2, <3>3, <3>4 DEF HasProv, Tools, Ordered, OnServer
    <3>6. task[u].phase # "lock"
      BY <1>2, <1>14, <3>1, <3>5 DEF Left, QueueOf, Waiting
    <3>7. holder[l] = u
      BY <1>2, <1>12, <3>1, <3>3, <3>5, <3>6 DEF HasServer
    <3>8. QED BY <2>4, <3>1, <3>7
  <2>9. ASSUME NEW d \in Tasks \ {t} PROVE Closes(d)'
    <3>1. \A u \in Tasks : Behind(u, d, ready') => Behind(u, d, ready)
      BY DEF Left
    <3>2. \A u \in Tasks, m \in Locks : Behind(u, d, waiters'[m]) => Behind(u, d, waiters[m])
      BY <1>14 DEF Left
    <3>3. OnServer(d) /\ Closes(d)
      BY DEF Ordered
    <3>4. QED BY <1>4, <2>1, <3>1, <3>2, <3>3, MoveKeepsCloses
  <2>10. \A d \in Tasks : (OnServer(d) /\ Closes(d) /\ ToolOK(d))'
    BY <1>7, <1>10, <2>8, <2>9
  <2>11. QED BY <1>9, <2>3, <2>7, <2>10 DEF Ordered
<1>15. CASE /\ holder' = h
            /\ waiters' = [w EXCEPT ![l] = Append(@, t)]
            /\ task' = [task EXCEPT ![t].phase = "lock", ![t].lock = l]
  <2>1. task'[t].phase = "lock"
    BY <1>1, <1>15 DEF TaskRecords
  <2>2. /\ \A m \in Locks \ {l} : waiters'[m] = w[m] /\ Waiting(m)' = Waiting(m) \ {t}
        /\ waiters'[l] = Append(w[l], t) /\ Waiting(l)' = (Waiting(l) \ {t}) \cup {t}
    <3>1. \A m \in Locks \ {l} : waiters'[m] = w[m]
      BY <1>15 DEF Left
    <3>2. waiters'[l] = Append(w[l], t)
      BY <1>15 DEF Left
    <3>3. \A m \in Locks \ {l} : Waiting(m)' = Waiting(m) \ {t}
      BY <1>4, <1>6, <2>1 DEF Waiting, OneTask
    <3>4. Waiting(l)' = (Waiting(l) \ {t}) \cup {t}
      BY <1>2, <1>4, <1>6, <2>1 DEF Waiting, OneTask
    <3>5. QED BY <3>1, <3>2, <3>3, <3>4
  <2>3. w[l] \in Seq(Tasks) /\ QueueOf(w[l], Waiting(l) \ {t}) /\ t \notin Waiting(l) \ {t}
    BY DEF Left
  <2>4. Queues'
    <3>1. QueueOf(waiters[l], Waiting(l))'
      BY <2>2, <2>3, QueueAppend
    <3>2. \A m \in Locks : QueueOf(waiters[m], Waiting(m))'
      BY <2>2, <3>1 DEF Left
    <3>3. QED BY <1>8, <3>2 DEF Queues, Left
  <2>5. \A u \in Tasks : (holder[Prov] = u)' <=> HasProv(u)'
    BY <1>11, <1>13, <1>15 DEF Granted
  <2>6. ASSUME NEW m \in Locks \ {Prov}, NEW u \in Tasks
        PROVE  (holder[m] = u)' <=> HasServer(u, m)'
    <3>1. holder'[m] = holder[m]
      BY <1>15 DEF Granted
    <3>2. ~HasServer(t, m)'
      BY <2>1 DEF HasServer
    <3>3. QED BY <1>11, <1>12, <2>6, <3>1, <3>2
  <2>7. Holders'
    BY <2>5, <2>6 DEF Holders
  <2>8. Closes(t)'
    <3>1. SUFFICES ASSUME task[t].kind \in Maint, NEW u \in Tasks \ {t},
                          After(u, t)', task'[u].server = task[t].server
                   PROVE  FALSE
      BY <1>4 DEF Closes
    <3>2. task'[u].phase \notin {"ready", "prov"}
      BY <1>4, <3>1 DEF LastOne, OneTask
    <3>3. Behind(u, t, waiters'[l])
      BY <1>6, <2>1, <3>1, <3>2 DEF After
    <3>4. QED BY <2>2, <2>3, <3>3, BehindAppend
  <2>9. ASSUME NEW d \in Tasks \ {t} PROVE Closes(d)'
    <3>1. \A u \in Tasks : Behind(u, d, ready') => Behind(u, d, ready)
      BY DEF Left
    <3>2. \A u \in Tasks, m \in Locks \ {l} : Behind(u, d, waiters'[m]) => Behind(u, d, waiters[m])
      BY <2>2 DEF Left
    <3>3. \A u \in Tasks : Behind(u, d, waiters'[l]) => u = t \/ Behind(u, d, waiters[l])
      <4>1. \A u \in Tasks : Behind(u, d, waiters'[l]) => u = t \/ Behind(u, d, w[l])
        BY <2>2, <2>3, BehindAppend
      <4>2. QED BY <4>1 DEF Left
    <3>4. OnServer(d) /\ Closes(d)
      BY DEF Ordered
    <3>5. \A u \in Tasks, m \in Locks : Behind(u, d, waiters'[m]) =>
            \/ Behind(u, d, waiters[m])
            \/ u = t /\ task[t].phase = "ready"
            \/ u = t /\ task[t].phase = "prov" /\ m # Prov
      BY <1>2, <3>2, <3>3
    <3>6. QED BY <1>4, <2>1, <3>1, <3>4, <3>5, MoveKeepsCloses
  <2>10. \A d \in Tasks : (OnServer(d) /\ Closes(d) /\ ToolOK(d))'
    BY <1>7, <1>10, <2>8, <2>9
  <2>11. QED BY <1>9, <2>4, <2>7, <2>10 DEF Ordered
<1>16. QED BY <1>5, <1>14, <1>15

(* t is given the provisioning lock: a provision job runs its tool.        *)
LEMMA EnterProvisioningKeeps ==
  ASSUME TypeOK, Ordered, NEW t \in Tasks, task[t].kind \in Tools,
         task[t].phase \in {"ready", "prov"}, holder[Prov] = NoTask,
         NEW w, Left(t, ready', w), LastOne(t),
         EnterProvisioning(t, w), UNCHANGED <<servers, gen, disk>>
  PROVE  Ordered'
<1> DEFINE h == [holder EXCEPT ![Prov] = t]
<1>1. /\ task \in [Tasks -> TaskRecords] /\ task[t] \in TaskRecords
      /\ holder \in [Locks -> Tasks \cup {NoTask}] /\ Prov \in Locks
  BY DEF TypeOK, Locks
<1>2. h \in [Locks -> Tasks \cup {NoTask}] /\ h[Prov] = t /\ \A l \in Locks \ {Prov} : h[l] = holder[l]
  BY <1>1
<1>3. \A u \in Tasks : ~HasProv(u)
  BY DEF Ordered, Holders, ConstantsOK
<1> HIDE DEF h
<1>4. Granted(t, h)
  BY <1>2, <1>3 DEF Granted
<1>5. CASE task[t].kind # "provision"
  <2>1. EnterServerLock(t, h, w) /\ task[t].kind \in Maint \cup {"action"}
    BY <1>5 DEF EnterProvisioning, h, Tools, Maint
  <2>2. QED BY <1>4, <2>1, EnterServerLockKeeps
<1>6. CASE task[t].kind = "provision"
  <2>1. holder' = h /\ waiters' = w /\ task' = [task EXCEPT ![t].phase = "run", ![t].base = disk]
    BY <1>6 DEF EnterProvisioning, h
  <2>2. /\ OneTask(t) /\ task'[t].kind = "provision" /\ task'[t].server = task[t].server
        /\ task'[t].phase = "run" /\ task'[t].base = disk /\ task'[t].lock = task[t].lock
    BY <1>1, <1>6, <2>1 DEF OneTask, TaskRecords
  <2>3. OnServer(t) /\ task[t].lock = Prov
    BY <1>6 DEF Ordered, OnServer, Pending
  <2>4. ASSUME NEW d \in Tasks \ {t} PROVE OnServer(d)' /\ ToolOK(d)' /\ OnServer(d)
    BY <2>2, OthersKept DEF Ordered
  <2>5. Queues'
    <3>1. InPhase("ready")' = InPhase("ready") \ {t}
      BY <2>2 DEF InPhase, OneTask
    <3>2. \A m \in Locks : Waiting(m)' = Waiting(m) \ {t}
      BY <2>2 DEF Waiting, OneTask
    <3>3. QED BY <2>1, <3>1, <3>2 DEF Queues, Left
  <2>6. Registry'
    <3>1. \A u \in Tasks : task[u].phase = "commit" => task'[u] = task[u]
      BY <2>2 DEF OneTask
    <3>2. QED BY <3>1 DEF Registry, Ordered
  <2>7. Holders'
    <3>1. \A u \in Tasks \ {t} : /\ HasProv(u)' <=> HasProv(u)
                                 /\ \A m \in Locks : HasServer(u, m)' <=> HasServer(u, m)
      BY <2>2 DEF HasProv, HasServer, OneTask
    <3>2. HasProv(t)' /\ \A m \in Locks \ {Prov} : ~HasServer(t, m) /\ ~HasServer(t, m)'
      BY <2>2, <2>3 DEF HasProv, HasServer, Tools
    <3>3. \A u \in Tasks : (holder[Prov] = u)' <=> HasProv(u)'
      BY <1>2, <1>3, <2>1, <3>1, <3>2
    <3>4. ASSUME NEW m \in Locks \ {Prov}, NEW u \in Tasks
          PROVE  (holder[m] = u)' <=> HasServer(u, m)'
      <4>1. holder'[m] = holder[m] /\ (holder[m] = u <=> HasServer(u, m))
        BY <1>2, <2>1 DEF Ordered, Holders
      <4>2. QED BY <3>1, <3>2, <4>1
    <3>5. QED BY <3>3, <3>4 DEF Holders
  <2>8. OnServer(t)' /\ ToolOK(t)' /\ Closes(t)'
    <3>1. OnServer(t)'
      BY <2>2, <2>3 DEF OnServer
    <3>2. ToolOK(t)'
      <4>1. ToolOK(t) /\ task[t].phase \in Pending
        BY DEF Ordered, Pending
      <4>2. QED BY <1>6, <2>2, <4>1 DEF ToolOK
    <3>3. Closes(t)'
      BY <2>2 DEF Closes, Maint
    <3>4. QED BY <3>1, <3>2, <3>3
  <2>9. ASSUME NEW d \in Tasks \ {t} PROVE Closes(d)'
    <3>1. \A u \in Tasks : Behind(u, d, ready') => Behind(u, d, ready)
      BY DEF Left
    <3>2. \A u \in Tasks, m \in Locks : Behind(u, d, waiters'[m]) => Behind(u, d, waiters[m])
      BY <2>1 DEF Left
    <3>3. OnServer(d) /\ Closes(d)
      BY DEF Ordered
    <3>4. QED BY <2>2, <3>1, <3>2, <3>3, MoveKeepsCloses
  <2>10. \A d \in Tasks : (OnServer(d) /\ Closes(d) /\ ToolOK(d))'
    BY <2>4, <2>8, <2>9
  <2>11. QED BY <2>5, <2>6, <2>7, <2>10 DEF Ordered
<1>7. QED BY <1>5, <1>6

(* A job starts: it takes its first lock or waits for it.                  *)
LEMMA BeginKeeps ==
  ASSUME TypeOK, ReadyOK, Ordered, NEW t \in Tasks, Begin(t)
  PROVE  Ordered'
<1>1. ready \in Seq(Tasks) /\ ready # <<>> /\ t = Head(ready) /\ ready' = Tail(ready)
  BY DEF Begin, TypeOK
<1>2. QueueOf(ready, InPhase("ready")) /\ \A l \in Locks : QueueOf(waiters[l], Waiting(l))
  BY DEF Ordered, Queues
<1>3. /\ QueueOf(ready', InPhase("ready") \ {t}) /\ task[t].phase = "ready"
      /\ ready' \in Seq(Tasks)
  BY <1>1, <1>2, QueueTail, HeadTailProperties DEF InPhase
<1>4. \A u, d \in Tasks : Behind(u, d, ready') => Behind(u, d, ready)
  BY <1>1, BehindTail
<1>5. \A u \in Tasks \ {t} : task[u].phase = "ready" => Behind(u, t, ready)
  <2>1. \A u \in InPhase("ready") : u # t => Behind(u, t, ready)
    BY <1>1, <1>2, BehindHead
  <2>2. QED BY <2>1 DEF InPhase
<1>6. \A l \in Locks : Waiting(l) \ {t} = Waiting(l) /\ t \notin Waiting(l)
  BY <1>3 DEF Waiting
<1>7. Left(t, ready', waiters)
  BY <1>2, <1>3, <1>4, <1>6 DEF Left, TypeOK
<1>8. UNCHANGED <<up, servers, gen, maintenance, jobs, disk>>
  BY DEF Begin
<1>9. task[t].kind \in Maint => \A u \in Tasks \ {t} :
        task[u].server = task[t].server => task[u].phase # "ready"
  BY <1>3, <1>5 DEF Ordered, Closes, After
<1>10. CASE task[t].kind = "action" /\ EnterServerLock(t, holder, waiters)
  <2>1. "action" \notin Tools /\ "action" \notin Maint
    BY DEF Tools, Maint
  <2>2. Granted(t, holder)
    BY <1>10, <2>1 DEF Granted, Ordered, Holders, HasProv, TypeOK
  <2>3. LastOne(t)
    BY <1>10, <2>1 DEF LastOne
  <2>4. QED BY <1>3, <1>7, <1>8, <1>10, <2>2, <2>3, EnterServerLockKeeps
<1>11. CASE task[t].kind \in Tools /\ FreeLock(Prov) /\ EnterProvisioning(t, waiters)
  <2>1. holder[Prov] = NoTask /\ waiters[Prov] = <<>> /\ Prov \in Locks
    BY <1>11 DEF FreeLock, Locks
  <2>2. \A u \in Tasks : task[u].phase # "prov"
    BY <1>2, <2>1 DEF QueueOf, Waiting
  <2>3. LastOne(t)
    BY <1>9, <2>2 DEF LastOne
  <2>4. QED BY <1>3, <1>7, <1>8, <1>11, <2>1, <2>3, EnterProvisioningKeeps
<1>12. CASE /\ task[t].kind \in Tools
            /\ waiters' = [waiters EXCEPT ![Prov] = Append(@, t)]
            /\ task' = [task EXCEPT ![t].phase = "prov"]
            /\ UNCHANGED holder
  <2>1. /\ OneTask(t) /\ task'[t].kind = task[t].kind /\ task'[t].server = task[t].server
        /\ task'[t].phase = "prov" /\ task'[t].lock = task[t].lock
    BY <1>12 DEF OneTask, TypeOK, TaskRecords
  <2>2. /\ waiters'[Prov] = Append(waiters[Prov], t) /\ waiters[Prov] \in Seq(Tasks)
        /\ \A m \in Locks \ {Prov} : waiters'[m] = waiters[m]
        /\ Prov \in Locks
    BY <1>12 DEF TypeOK, Locks
  <2>3. QueueOf(waiters[Prov], Waiting(Prov)) /\ t \notin Waiting(Prov)
    BY <1>2, <1>6, <2>2
  <2>4. Queues'
    <3>1. InPhase("ready")' = InPhase("ready") \ {t}
      BY <2>1 DEF InPhase, OneTask
    <3>2. Waiting(Prov)' = Waiting(Prov) \cup {t}
      BY <2>1 DEF Waiting, OneTask
    <3>3. \A m \in Locks \ {Prov} : Waiting(m)' = Waiting(m)
      BY <1>3, <2>1 DEF Waiting, OneTask
    <3>4. QueueOf(waiters[Prov], Waiting(Prov))'
      BY <2>2, <2>3, <3>2, QueueAppend
    <3>5. \A m \in Locks : QueueOf(waiters[m], Waiting(m))'
      BY <1>2, <2>2, <3>3, <3>4
    <3>6. QED BY <1>3, <3>1, <3>5 DEF Queues
  <2>5. Registry'
    <3>1. \A u \in Tasks : task[u].phase = "commit" => task'[u] = task[u]
      BY <1>3, <2>1 DEF OneTask
    <3>2. QED BY <1>8, <3>1 DEF Registry, Ordered
  <2>6. Holders'
    <3>1. \A u \in Tasks : /\ HasProv(u)' <=> HasProv(u)
                           /\ \A m \in Locks : HasServer(u, m)' <=> HasServer(u, m)
      BY <1>3, <2>1 DEF HasProv, HasServer, OneTask
    <3>2. QED BY <1>12, <3>1 DEF Holders, Ordered
  <2>7. OnServer(t)' /\ ToolOK(t)'
    <3>1. OnServer(t) /\ ToolOK(t)
      BY DEF Ordered
    <3>2. OnServer(t)'
      BY <1>3, <1>8, <1>12, <2>1, <3>1 DEF OnServer, Pending
    <3>3. ToolOK(t)'
      BY <1>3, <1>8, <2>1, <3>1 DEF ToolOK, Pending
    <3>4. QED BY <3>2, <3>3
  <2>8. Closes(t)'
    <3>1. SUFFICES ASSUME task[t].kind \in Maint, NEW u \in Tasks \ {t},
                          After(u, t)', task'[u].server = task[t].server
                   PROVE  FALSE
      BY <2>1 DEF Closes
    <3>2. task'[u].phase # "ready"
      BY <1>9, <2>1, <3>1 DEF OneTask
    <3>3. Behind(u, t, waiters'[Prov])
      BY <2>1, <3>1, <3>2 DEF After
    <3>4. QED BY <2>2, <2>3, <3>3, BehindAppend
  <2>9. ASSUME NEW d \in Tasks \ {t} PROVE (OnServer(d) /\ Closes(d) /\ ToolOK(d))'
    <3>1. OnServer(d) /\ Closes(d) /\ ToolOK(d)
      BY DEF Ordered
    <3>2. \A u \in Tasks : Behind(u, d, waiters'[Prov]) => u = t \/ Behind(u, d, waiters[Prov])
      BY <2>2, <2>3, BehindAppend
    <3>3. \A u \in Tasks, m \in Locks : Behind(u, d, waiters'[m]) =>
            \/ Behind(u, d, waiters[m])
            \/ u = t /\ task[t].phase = "ready"
      BY <1>3, <2>2, <3>2
    <3>4. Closes(d)'
      BY <1>3, <1>4, <2>1, <3>1, <3>3, MoveKeepsCloses
    <3>5. QED BY <1>8, <2>1, <3>1, <3>4, OthersKept
  <2>10. \A d \in Tasks : (OnServer(d) /\ Closes(d) /\ ToolOK(d))'
    BY <2>7, <2>8, <2>9
  <2>11. QED BY <2>4, <2>5, <2>6, <2>10 DEF Ordered
<1>13. QED BY <1>10, <1>11, <1>12 DEF Begin

(* The first waiter of a lock leaves its queue.                            *)
LEMMA LeavesLock ==
  ASSUME TypeOK, Ordered, NEW l \in Locks, waiters[l] # <<>>, NEW t \in Tasks,
         t = Head(waiters[l])
  PROVE  /\ t \in Waiting(l)
         /\ Left(t, ready, [waiters EXCEPT ![l] = Tail(@)])
         /\ \A u \in Waiting(l) \ {t} : Behind(u, t, waiters[l])
<1> DEFINE w == [waiters EXCEPT ![l] = Tail(@)]
<1>1. /\ waiters \in [Locks -> Seq(Tasks)] /\ waiters[l] \in Seq(Tasks)
      /\ QueueOf(waiters[l], Waiting(l))
  BY DEF TypeOK, Ordered, Queues
<1>2. /\ t \in Waiting(l) /\ QueueOf(Tail(waiters[l]), Waiting(l) \ {t})
      /\ Tail(waiters[l]) \in Seq(Tasks)
  BY <1>1, QueueTail, HeadTailProperties
<1>3. /\ w \in [Locks -> Seq(Tasks)] /\ w[l] = Tail(waiters[l])
      /\ \A m \in Locks \ {l} : w[m] = waiters[m]
  BY <1>1, <1>2
<1> HIDE DEF w
<1>4. /\ ready \in Seq(Tasks) /\ QueueOf(ready, InPhase("ready"))
      /\ InPhase("ready") \ {t} = InPhase("ready")
  BY <1>2 DEF TypeOK, Ordered, Queues, InPhase, Waiting
<1>5. \A m \in Locks \ {l} : Waiting(m) \ {t} = Waiting(m)
  BY <1>2 DEF Waiting
<1>6. \A m \in Locks : QueueOf(w[m], Waiting(m) \ {t})
  BY <1>2, <1>3, <1>5 DEF Ordered, Queues
<1>7. \A u, d \in Tasks : Behind(u, d, w[l]) => Behind(u, d, waiters[l])
  BY <1>1, <1>3, BehindTail
<1>8. \A m \in Locks : \A u, d \in Tasks : Behind(u, d, w[m]) => Behind(u, d, waiters[m])
  BY <1>3, <1>7
<1>9. Left(t, ready, w)
  BY <1>3, <1>4, <1>6, <1>8 DEF Left
<1>10. \A u \in Waiting(l) : u # t => Behind(u, t, waiters[l])
  BY <1>1, BehindHead
<1>11. QED BY <1>2, <1>9, <1>10 DEF w

LEMMA ProvTurnKeeps ==
  ASSUME TypeOK, Ordered, NEW t \in Tasks, ProvTurn(t)
  PROVE  Ordered'
<1> DEFINE w == [waiters EXCEPT ![Prov] = Tail(@)]
<1>1. /\ Prov \in Locks /\ waiters[Prov] # <<>> /\ t = Head(waiters[Prov])
      /\ holder[Prov] = NoTask /\ task[t].phase = "prov"
      /\ EnterProvisioning(t, w)
      /\ UNCHANGED <<up, servers, gen, maintenance, jobs, ready, disk>>
      /\ task[t].kind \in Tools
  BY DEF ProvTurn, IsNext, Locks, Ordered, OnServer
<1>2. Left(t, ready, w) /\ \A u \in Waiting(Prov) \ {t} : Behind(u, t, waiters[Prov])
  BY <1>1, LeavesLock
<1> HIDE DEF w
<1>3. ready' = ready
  BY <1>1
<1>4. Left(t, ready', w)
  BY <1>2, <1>3
<1>5. LastOne(t)
  <2>1. SUFFICES ASSUME task[t].kind \in Maint, NEW u \in Tasks \ {t},
                        task[u].phase \in {"ready", "prov"}
                 PROVE  task[u].server # task[t].server
    BY DEF LastOne
  <2>2. After(u, t)
    BY <1>1, <1>2, <2>1 DEF After, Waiting
  <2>3. QED BY <2>1, <2>2 DEF Ordered, Closes
<1>6. QED BY <1>1, <1>4, <1>5, EnterProvisioningKeeps

(* The lock of its server is handed to t.                                  *)
LEMMA LockTurnKeeps ==
  ASSUME TypeOK, Ordered, NEW t \in Tasks, LockTurn(t)
  PROVE  Ordered'
<1>1. PICK l \in Locks : l = task[t].lock
  BY DEF TypeOK, TaskRecords
<1> DEFINE w == [waiters EXCEPT ![l] = Tail(@)]
<1>2. /\ waiters[l] # <<>> /\ t = Head(waiters[l]) /\ holder[l] = NoTask
      /\ task[t].phase = "lock" /\ waiters' = w
      /\ UNCHANGED <<up, servers, gen, maintenance, jobs, ready, disk>>
  BY <1>1 DEF LockTurn, IsNext
<1>3. Left(t, ready, w) /\ \A u \in Waiting(l) \ {t} : Behind(u, t, waiters[l])
  BY <1>2, LeavesLock
<1> HIDE DEF w
<1>4. /\ task \in [Tasks -> TaskRecords] /\ task[t] \in TaskRecords
      /\ task[t].server \in Servers
  BY DEF TypeOK, TaskRecords
<1>5. /\ task[t].kind # "provision" /\ task[t].server \in servers
      /\ l = Lock(task[t].server) /\ l # Prov
  BY <1>1, <1>2, <1>4, LockIsLock DEF Ordered, OnServer, Pending, TypeOK
<1>6. /\ \A u, d \in Tasks : Behind(u, d, ready') => Behind(u, d, ready)
      /\ \A u, d \in Tasks, m \in Locks : Behind(u, d, waiters'[m]) => Behind(u, d, waiters[m])
  BY <1>2, <1>3 DEF Left
<1>7. ASSUME OneTask(t), task'[t].phase \notin {"ready", "prov", "lock", "commit"}
      PROVE  Queues' /\ Registry'
  <2>1. InPhase("ready")' = InPhase("ready") \ {t}
    BY <1>7 DEF InPhase, OneTask
  <2>2. \A m \in Locks : Waiting(m)' = Waiting(m) \ {t}
    BY <1>7 DEF Waiting, OneTask
  <2>3. Queues'
    BY <1>2, <1>3, <2>1, <2>2 DEF Queues, Left
  <2>4. \A u \in Tasks : task[u].phase = "commit" => task'[u] = task[u]
    BY <1>2, <1>7 DEF OneTask
  <2>5. Registry'
    BY <1>2, <2>4 DEF Registry, Ordered
  <2>6. QED BY <2>3, <2>5
<1>8. CASE task[t].kind = "file"
  <2>1. task' = [task EXCEPT ![t] = Idle("succeeded")] /\ UNCHANGED holder
    BY <1>8 DEF LockTurn
  <2>2. OneTask(t) /\ task'[t].phase = "succeeded" /\ task'[t].kind = "action"
    BY <1>4, <2>1 DEF OneTask, Idle
  <2>3. \A u \in Tasks : /\ HasProv(u)' <=> HasProv(u)
                         /\ \A m \in Locks : HasServer(u, m)' <=> HasServer(u, m)
    BY <1>2, <1>8, <2>2 DEF HasProv, HasServer, OneTask, Tools
  <2>4. Holders'
    BY <2>1, <2>3 DEF Holders, Ordered
  <2>5. OnServer(t)' /\ ToolOK(t)' /\ Closes(t)'
    BY <2>2 DEF OnServer, ToolOK, Closes, Tools, Maint, Pending
  <2>6. ASSUME NEW d \in Tasks \ {t} PROVE (OnServer(d) /\ Closes(d) /\ ToolOK(d))'
    <3>1. OnServer(d) /\ Closes(d) /\ ToolOK(d) /\ task'[d] = task[d]
      BY <2>2 DEF Ordered, OneTask
    <3>2. ASSUME NEW u \in Tasks \ {d}, After(u, d)', task[d].kind \in Maint
          PROVE  After(u, d) /\ task'[u].server = task[u].server
      <4>1. task[d].lock \in Locks /\ Prov \in Locks
        BY DEF TypeOK, TaskRecords, Locks
      <4>2. CASE u # t
        <5>1. task'[u] = task[u]
          BY <2>2, <4>2 DEF OneTask
        <5>2. QED BY <1>6, <3>1, <3>2, <4>1, <5>1 DEF After
      <4>3. CASE u = t
        <5>1. \A m \in Locks : ~Behind(t, d, waiters'[m])
          BY <1>2, <1>3 DEF Left, Behind, QueueOf
        <5>2. ~Behind(t, d, ready')
          BY <1>2, <1>3 DEF Left, Behind, QueueOf
        <5>3. QED BY <2>2, <3>1, <3>2, <4>1, <4>3, <5>1, <5>2 DEF After, Pending
      <4>4. QED BY <4>2, <4>3
    <3>3. Closes(d)'
      BY <3>1, <3>2 DEF Closes
    <3>4. QED BY <1>2, <2>2, <3>1, <3>3, OthersKept
  <2>7. \A d \in Tasks : (OnServer(d) /\ Closes(d) /\ ToolOK(d))'
    BY <2>5, <2>6
  <2>8. QED BY <1>7, <2>2, <2>4, <2>7 DEF Ordered
<1>9. CASE task[t].kind # "file"
  <2>1. /\ task' = [task EXCEPT ![t].phase = "run", ![t].base = disk]
        /\ holder' = [holder EXCEPT ![l] = t]
    BY <1>1, <1>9 DEF LockTurn
  <2>2. /\ OneTask(t) /\ task'[t].kind = task[t].kind /\ task'[t].server = task[t].server
        /\ task'[t].phase = "run" /\ task'[t].base = disk /\ task'[t].lock = task[t].lock
    BY <1>4, <2>1 DEF OneTask, TaskRecords
  <2>3. Holders'
    <3>1. /\ \A u \in Tasks : HasProv(u)' <=> HasProv(u)
          /\ \A u \in Tasks \ {t} : \A m \in Locks : HasServer(u, m)' <=> HasServer(u, m)
      BY <1>2, <2>2 DEF HasProv, HasServer, OneTask
    <3>2. \A m \in Locks : (HasServer(t, m)' <=> m = l) /\ ~HasServer(t, m)
      BY <1>1, <1>2, <2>2 DEF HasServer
    <3>3. holder'[l] = t /\ \A m \in Locks \ {l} : holder'[m] = holder[m]
      BY <2>1 DEF TypeOK
    <3>4. Prov \in Locks
      BY DEF Locks
    <3>5. \A u \in Tasks : (holder[Prov] = u)' <=> HasProv(u)'
      BY <1>5, <3>1, <3>3, <3>4 DEF Ordered, Holders
    <3>6. ASSUME NEW m \in Locks \ {Prov}, NEW u \in Tasks
          PROVE  (holder[m] = u)' <=> HasServer(u, m)'
      <4>1. holder[m] = u <=> HasServer(u, m)
        BY DEF Ordered, Holders
      <4>2. CASE u = t
        BY <3>2, <3>3, <3>6, <4>1, <4>2
      <4>3. CASE u # t
        BY <1>2, <3>1, <3>3, <3>6, <4>1, <4>3 DEF ConstantsOK
      <4>4. QED BY <4>2, <4>3
    <3>7. QED BY <3>5, <3>6 DEF Holders
  <2>4. OnServer(t)' /\ ToolOK(t)'
    BY <1>1, <1>2, <1>5, <2>2 DEF OnServer, ToolOK, Lock
  <2>5. Closes(t)'
    <3>1. SUFFICES ASSUME task[t].kind \in Maint, NEW u \in Tasks \ {t},
                          task'[u].phase \in Pending, task'[u].server = task[t].server
                   PROVE  FALSE
      BY <2>2 DEF Closes, After
    <3>2. task'[u] = task[u]
      BY <2>2, <3>1 DEF OneTask
    <3>3. ~After(u, t)
      BY <3>1, <3>2 DEF Ordered, Closes
    <3>4. task[u].phase \in {"lock", "run", "commit"}
      BY <1>2, <3>1, <3>2, <3>3 DEF After, Pending, Ordered, OnServer
    <3>5. ~HasProv(u)
      <4>1. HasProv(t)
        BY <1>2, <3>1 DEF HasProv, Maint, Tools
      <4>2. QED BY <3>1, <4>1 DEF Ordered, Holders
    <3>6. task[u].kind # "provision" /\ task[u].lock = l
      BY <1>5, <3>1, <3>2, <3>4, <3>5 DEF HasProv, Tools, Ordered, OnServer
    <3>7. task[u].phase # "lock"
      BY <1>1, <1>2, <1>3, <1>5, <3>1, <3>3, <3>6 DEF After, Waiting
    <3>8. holder[l] = u
      BY <1>5, <3>1, <3>4, <3>6, <3>7 DEF HasServer, Ordered, Holders
    <3>9. QED BY <1>2, <3>1, <3>8 DEF ConstantsOK
  <2>6. ASSUME NEW d \in Tasks \ {t} PROVE (OnServer(d) /\ Closes(d) /\ ToolOK(d))'
    <3>1. OnServer(d) /\ Closes(d) /\ ToolOK(d)
      BY DEF Ordered
    <3>2. Closes(d)'
      BY <1>2, <1>6, <2>2, <3>1, MoveKeepsCloses
    <3>3. QED BY <1>2, <2>2, <3>1, <3>2, OthersKept
  <2>7. \A d \in Tasks : (OnServer(d) /\ Closes(d) /\ ToolOK(d))'
    BY <2>4, <2>5, <2>6
  <2>8. QED BY <1>7, <2>2, <2>3, <2>7 DEF Ordered
<1>10. QED BY <1>8, <1>9

-----------------------------------------------------------------------------
(* A job ends, and its tool before it.                                     *)

LEMMA EndJobKeeps ==
  ASSUME TypeOK, Ordered, NEW t \in Tasks, task[t].phase \in {"run", "commit"},
         NEW p \in {"succeeded", "failed"}, EndJob(t, p)
  PROVE  /\ OneTask(t) /\ task'[t].phase = p /\ task'[t].kind = "action"
         /\ Queues' /\ Holders' /\ OnServer(t)' /\ ToolOK(t)'
         /\ \A d \in Tasks : Closes(d)'
<1>1. /\ task \in [Tasks -> TaskRecords] /\ task' = [task EXCEPT ![t] = Idle(p)]
      /\ holder' = [l \in Locks |-> IF holder[l] = t THEN NoTask ELSE holder[l]]
      /\ UNCHANGED <<waiters, ready>>
  BY DEF EndJob, TypeOK, Abandoned
<1>2. OneTask(t) /\ task'[t].phase = p /\ task'[t].kind = "action" /\ task'[t].lock = Prov
  BY <1>1 DEF OneTask, Idle
<1>3. "action" \notin Tools /\ "action" \notin Maint /\ p \notin Pending /\ Prov \in Locks
  BY DEF Tools, Maint, Pending, Locks
<1>4. Queues'
  <2>1. InPhase("ready")' = InPhase("ready")
    BY <1>2 DEF InPhase, OneTask
  <2>2. \A m \in Locks : Waiting(m)' = Waiting(m)
    BY <1>2 DEF Waiting, OneTask
  <2>3. QED BY <1>1, <2>1, <2>2 DEF Queues, Ordered
<1>5. Holders'
  <2>1. ~HasProv(t)' /\ \A m \in Locks : ~HasServer(t, m)'
    BY <1>2 DEF HasProv, HasServer
  <2>2. \A u \in Tasks \ {t} : /\ HasProv(u)' <=> HasProv(u)
                               /\ \A m \in Locks : HasServer(u, m)' <=> HasServer(u, m)
    BY <1>2 DEF HasProv, HasServer, OneTask
  <2>3. /\ \A m \in Locks : holder'[m] # t
        /\ \A u \in Tasks \ {t}, m \in Locks : holder'[m] = u <=> holder[m] = u
    BY <1>1 DEF ConstantsOK
  <2>4. \A u \in Tasks : (holder[Prov] = u)' <=> HasProv(u)'
    BY <1>3, <2>1, <2>2, <2>3 DEF Ordered, Holders
  <2>5. ASSUME NEW m \in Locks \ {Prov}, NEW u \in Tasks
        PROVE  (holder[m] = u)' <=> HasServer(u, m)'
    <3>1. CASE u = t
      BY <2>1, <2>3, <2>5, <3>1
    <3>2. CASE u # t
      <4>1. holder[m] = u <=> HasServer(u, m)
        BY DEF Ordered, Holders
      <4>2. QED BY <2>2, <2>3, <2>5, <3>2, <4>1
    <3>3. QED BY <3>1, <3>2
  <2>6. QED BY <2>4, <2>5 DEF Holders
<1>6. OnServer(t)' /\ ToolOK(t)' /\ Closes(t)'
  BY <1>2, <1>3 DEF OnServer, ToolOK, Closes
<1>7. ASSUME NEW d \in Tasks \ {t} PROVE Closes(d)'
  <2>1. Closes(d) /\ task'[d] = task[d]
    BY <1>2 DEF Ordered, OneTask
  <2>2. ASSUME NEW u \in Tasks \ {d}, After(u, d)'
        PROVE  After(u, d) /\ task'[u].server = task[u].server
    <3>1. task[d].lock \in Locks
      BY DEF TypeOK, TaskRecords
    <3>2. u # t
      <4>1. ~Behind(t, d, ready) /\ \A m \in Locks : ~Behind(t, d, waiters[m])
        BY DEF Ordered, Queues, QueueOf, Behind, InPhase, Waiting
      <4>2. ~After(t, d)'
        BY <1>1, <1>2, <1>3, <2>1, <3>1, <4>1 DEF After
      <4>3. QED BY <2>2, <4>2
    <3>3. task'[u] = task[u]
      BY <1>2, <3>2 DEF OneTask
    <3>4. QED BY <1>1, <2>1, <2>2, <3>3 DEF After
  <2>3. QED BY <1>2, <2>1, <2>2, ClosesKept
<1>8. QED BY <1>2, <1>4, <1>5, <1>6, <1>7

LEMMA EndActionKeeps ==
  ASSUME TypeOK, Ordered, NEW t \in Tasks, EndAction(t)
  PROVE  Ordered'
<1>1. task[t].phase = "run" /\ UNCHANGED <<servers, gen, disk>>
  BY DEF EndAction
<1>2. PICK p \in {"succeeded", "failed"} : EndJob(t, p)
  BY DEF EndAction
<1>3. /\ OneTask(t) /\ Queues' /\ Holders' /\ OnServer(t)' /\ ToolOK(t)'
      /\ \A d \in Tasks : Closes(d)'
  BY <1>1, <1>2, EndJobKeeps
<1>4. Registry'
  <2>1. \A u \in Tasks : task[u].phase = "commit" => task'[u] = task[u]
    BY <1>1, <1>3 DEF OneTask
  <2>2. QED BY <1>1, <2>1 DEF Registry, Ordered
<1>5. \A d \in Tasks \ {t} : OnServer(d)' /\ ToolOK(d)'
  BY <1>1, <1>3, OthersKept DEF Ordered
<1>6. \A d \in Tasks : (OnServer(d) /\ Closes(d) /\ ToolOK(d))'
  BY <1>3, <1>5
<1>7. QED BY <1>3, <1>4, <1>6 DEF Ordered

(* At most one tool is at work.                                            *)
LEMMA OneTool ==
  ASSUME Ordered, NEW t \in Tasks, NEW u \in Tasks, task[t].kind \in Tools,
         task[t].phase \in {"lock", "run", "commit"},
         \/ task[u].phase = "commit"
         \/ task[u].kind \in Tools /\ task[u].phase \in {"lock", "run"}
  PROVE  u = t
<1>1. HasProv(t) /\ HasProv(u)
  BY DEF HasProv, Ordered, OnServer
<1>2. QED BY <1>1 DEF Ordered, Holders

LEMMA ToolFailsKeeps ==
  ASSUME TypeOK, Ordered, NEW t \in Tasks, ToolFails(t)
  PROVE  Ordered'
<1>1. /\ EndJob(t, "failed") /\ UNCHANGED <<servers, gen>>
      /\ \/ task[t].phase = "run"
         \/ /\ task[t].phase = "commit" /\ task[t].kind = "change"
            /\ task[t].server \in disk.managed
      /\ disk' = disk
  BY DEF ToolFails, Ordered, ToolOK
<1>2. /\ OneTask(t) /\ Queues' /\ Holders' /\ OnServer(t)' /\ ToolOK(t)'
      /\ \A d \in Tasks : Closes(d)'
  BY <1>1, EndJobKeeps
<1>3. Registry'
  <2>1. task[t].phase = "commit" =>
          task[t].server \in servers /\ task[t].server \in Loaded(disk)
    BY <1>1 DEF Ordered, OnServer, Registry, Loaded, Pending
  <2>2. \A u \in Tasks : u # t /\ task[u].phase = "commit" =>
          task'[u].phase = "commit" /\ task'[u].server = task[u].server
    BY <1>2 DEF OneTask
  <2>3. QED BY <1>1, <2>1, <2>2 DEF Registry, Ordered
<1>4. \A d \in Tasks \ {t} : OnServer(d)' /\ ToolOK(d)'
  BY <1>1, <1>2, OthersKept DEF Ordered
<1>5. \A d \in Tasks : (OnServer(d) /\ Closes(d) /\ ToolOK(d))'
  BY <1>2, <1>4
<1>6. QED BY <1>2, <1>3, <1>5 DEF Ordered

(* The agent reloads its configuration: nobody works on a server that      *)
(* leaves it, and the others keep their Lock objects.                      *)
LEMMA ToolExitsKeeps ==
  ASSUME TypeOK, Ordered, NEW t \in Tasks, ToolExits(t)
  PROVE  Ordered'
<1>1. /\ task[t].kind \in Tools /\ task[t].phase = "commit" /\ disk' = disk
      /\ \E p \in {"succeeded", "failed"} : EndJob(t, p)
  BY DEF ToolExits
<1>2. /\ OneTask(t) /\ Queues' /\ Holders' /\ OnServer(t)' /\ ToolOK(t)'
      /\ \A d \in Tasks : Closes(d)'
  BY <1>1, EndJobKeeps
<1>3. CASE ~Loadable(disk)
  <2>1. UNCHANGED <<servers, gen>>
    BY <1>3 DEF ToolExits
  <2>2. Registry'
    BY <1>1, <1>3, <2>1 DEF Registry, Ordered
  <2>3. \A d \in Tasks \ {t} : OnServer(d)' /\ ToolOK(d)'
    BY <1>1, <1>2, <2>1, OthersKept DEF Ordered
  <2>4. \A d \in Tasks : (OnServer(d) /\ Closes(d) /\ ToolOK(d))'
    BY <1>2, <2>3
  <2>5. QED BY <1>2, <2>2, <2>4 DEF Ordered
<1>4. CASE Loadable(disk)
  <2>1. /\ servers' = Loaded(disk)
        /\ gen' = [s \in Servers |-> IF s \in servers \/ s \notin Loaded(disk) THEN gen[s]
                                                                             ELSE FreshGen(s)]
    BY <1>4 DEF ToolExits, ReplaceConfig
  <2>2. Registry'
    <3>1. disk.managed \cap disk.tombs = {} /\ (Legacy \cap disk.managed) \ disk.tombs = {}
      BY <1>4 DEF Ordered, Registry, Loadable
    <3>2. Legacy \cap disk.managed = {}
      BY <3>1
    <3>3. QED BY <1>1, <2>1, <3>1, <3>2 DEF Registry
  <2>3. ASSUME NEW u \in Tasks \ {t} PROVE OnServer(u)' /\ ToolOK(u)'
    <3>1. task'[u] = task[u] /\ OnServer(u) /\ ToolOK(u) /\ task[u].server \in Servers
      BY <1>2 DEF OneTask, Ordered, TypeOK, TaskRecords
    <3>2. task[u].kind # "provision" /\ task[u].phase \in Pending =>
            task[u].server \in servers /\ task[u].server \in Loaded(disk)
      <4>1. SUFFICES ASSUME task[u].kind # "provision", task[u].phase \in Pending,
                            task[u].server \notin Loaded(disk)
                     PROVE  FALSE
        BY <3>1 DEF OnServer
      <4>2. task[u].server \in servers
        BY <3>1, <4>1 DEF OnServer
      <4>3. PICK v \in Tasks : task[v].phase = "commit" /\ task[v].server = task[u].server
        BY <1>4, <3>1, <4>1, <4>2 DEF Ordered, Registry
      <4>4. v = t
        BY <1>1, <4>3, OneTool
      <4>5. CASE task[t].kind = "provision"
        BY <1>1, <4>2, <4>3, <4>4, <4>5 DEF Ordered, ToolOK
      <4>6. CASE task[t].kind # "provision"
        <5>1. task[t].kind \in Maint /\ After(u, t)
          BY <1>1, <4>1, <4>6 DEF Maint, Tools, After
        <5>2. QED BY <4>3, <4>4, <5>1 DEF Ordered, Closes
      <4>7. QED BY <4>5, <4>6
    <3>3. OnServer(u)'
      <4>1. task[u].server \in servers => gen'[task[u].server] = gen[task[u].server]
        BY <2>1, <3>1
      <4>2. {"lock", "run", "commit"} \subseteq Pending
        BY DEF Pending
      <4>3. QED BY <2>1, <3>1, <3>2, <4>1, <4>2 DEF OnServer, Lock
    <3>4. ToolOK(u)'
      <4>1. task[u].phase # "commit"
        BY <1>1, OneTool
      <4>2. QED BY <1>1, <2>1, <3>1, <4>1 DEF ToolOK
    <3>5. QED BY <3>3, <3>4
  <2>4. \A d \in Tasks : (OnServer(d) /\ Closes(d) /\ ToolOK(d))'
    BY <1>2, <2>3
  <2>5. QED BY <1>2, <2>2, <2>4 DEF Ordered
<1>5. QED BY <1>3, <1>4

(* A tool changes the registry for its own server only.                    *)
LEMMA RewrittenElsewhere ==
  ASSUME NEW t \in Tasks, task[t].base \in Registries, NEW s, s # task[t].server
  PROVE  s \in Loaded(Rewritten(t)) <=> s \in Loaded(task[t].base)
BY DEF Rewritten, Installed, Deleted, Loaded, Registries

LEMMA ToolCommitKeeps ==
  ASSUME TypeOK, Ordered, NEW t \in Tasks, ToolCommit(t)
  PROVE  Ordered'
<1> DEFINE s == task[t].server
<1>1. /\ task[t].kind \in Tools /\ task[t].phase = "run" /\ Accepts(t)
      /\ disk' = Rewritten(t) /\ task' = [task EXCEPT ![t].phase = "commit"]
      /\ UNCHANGED <<up, servers, gen, holder, waiters, maintenance, jobs, ready>>
  BY DEF ToolCommit
<1>2. /\ task \in [Tasks -> TaskRecords] /\ task[t] \in TaskRecords /\ s \in Servers
      /\ disk \in Registries /\ task[t].base = disk
  BY <1>1 DEF TypeOK, TaskRecords, Ordered, ToolOK
<1>3. /\ OneTask(t) /\ task'[t].phase = "commit" /\ task'[t].kind = task[t].kind
      /\ task'[t].server = s /\ task'[t].lock = task[t].lock /\ task'[t].base = disk
  BY <1>1, <1>2 DEF OneTask, TaskRecords
<1>4. /\ OnServer(t) /\ ToolOK(t) /\ Closes(t)
      /\ disk.managed \cap disk.tombs = {} /\ Legacy \cap disk.managed \cap servers = {}
  BY DEF Ordered, Registry
<1>5. Queues'
  <2>1. InPhase("ready")' = InPhase("ready")
    BY <1>1, <1>3 DEF InPhase, OneTask
  <2>2. \A m \in Locks : Waiting(m)' = Waiting(m)
    BY <1>1, <1>3 DEF Waiting, OneTask
  <2>3. QED BY <1>1, <2>1, <2>2 DEF Queues, Ordered
<1>6. Holders'
  <2>1. \A u \in Tasks : /\ HasProv(u)' <=> HasProv(u)
                         /\ \A m \in Locks : HasServer(u, m)' <=> HasServer(u, m)
    BY <1>1, <1>3 DEF HasProv, HasServer, OneTask
  <2>2. QED BY <1>1, <2>1 DEF Holders, Ordered
<1>7. \/ /\ task[t].kind = "provision" /\ s \notin Loaded(disk) /\ s \notin servers
         /\ disk' = Installed(s, disk)
      \/ /\ task[t].kind = "change" /\ s \in servers /\ s \in disk.managed /\ disk' = disk
      \/ /\ task[t].kind \in {"delete", "deleteLegacy"} /\ s \in servers
         /\ disk' = Deleted(s, disk)
  <2>1. CASE task[t].kind = "provision"
    <3>1. s \notin Loaded(disk) /\ disk' = Installed(s, disk)
      BY <1>1, <1>2, <2>1 DEF Accepts, InstallAccepts, Rewritten, Loaded
    <3>2. QED BY <1>1, <1>4, <2>1, <3>1 DEF ToolOK, Pending
  <2>2. CASE task[t].kind = "change"
    BY <1>1, <1>2, <1>4, <2>2 DEF Accepts, ChangeAccepts, Rewritten, OnServer, Pending
  <2>3. CASE task[t].kind \in {"delete", "deleteLegacy"}
    BY <1>1, <1>2, <1>4, <2>3 DEF Rewritten, OnServer, Pending
  <2>4. QED BY <1>1, <2>1, <2>2, <2>3 DEF Tools
<1>8. /\ disk'.managed \cap disk'.tombs = {} /\ Legacy \cap disk'.managed \cap servers = {}
      /\ task[t].kind = "provision" => s \in disk'.managed /\ s \notin servers
      /\ task[t].kind \in {"delete", "deleteLegacy"} => s \notin Loaded(disk')
      /\ Loadable(disk') => Loadable(disk)
  <2>1. CASE task[t].kind = "provision" /\ disk' = Installed(s, disk) /\ s \notin servers
    <3>1. disk'.managed = disk.managed \cup {s} /\ disk'.tombs = disk.tombs \ {s}
      BY <2>1 DEF Installed
    <3>2. QED BY <1>4, <2>1, <3>1 DEF Loadable
  <2>2. CASE task[t].kind = "change" /\ disk' = disk
    BY <1>4, <2>2
  <2>3. CASE /\ task[t].kind \in {"delete", "deleteLegacy"} /\ s \in servers
             /\ disk' = Deleted(s, disk)
    <3>1. CASE s \in disk.managed
      <4>1. disk'.managed = disk.managed \ {s} /\ disk'.tombs = disk.tombs
        BY <1>2, <2>3, <3>1 DEF Deleted, Registries
      <4>2. QED BY <1>4, <2>3, <3>1, <4>1 DEF Loadable, Loaded
    <3>2. CASE s \notin disk.managed
      <4>1. disk'.managed = disk.managed /\ disk'.tombs = disk.tombs \cup {s}
        BY <1>2, <2>3, <3>2 DEF Deleted, Registries
      <4>2. QED BY <1>4, <2>3, <3>2, <4>1 DEF Loadable, Loaded
    <3>3. QED BY <3>1, <3>2
  <2>4. QED BY <1>7, <2>1, <2>2, <2>3
<1>9. \A r \in Servers : r # s => (r \in Loaded(disk') <=> r \in Loaded(disk))
  BY <1>1, <1>2, RewrittenElsewhere
<1>10. Registry'
  <2>1. ASSUME Loadable(disk'), NEW r \in Servers, r # s
        PROVE  r \in servers <=> r \in Loaded(disk')
    <3>1. \A v \in Tasks : ~(task[v].phase = "commit" /\ task[v].server = r)
      BY <1>1, <2>1, OneTool
    <3>2. QED BY <1>8, <1>9, <2>1, <3>1 DEF Ordered, Registry
  <2>2. QED BY <1>1, <1>3, <1>8, <2>1 DEF Registry
<1>11. OnServer(t)' /\ ToolOK(t)'
  <2>1. OnServer(t)'
    BY <1>1, <1>3, <1>4 DEF OnServer, Lock, Pending
  <2>2. ToolOK(t)'
    BY <1>1, <1>3, <1>7, <1>8 DEF ToolOK
  <2>3. QED BY <2>1, <2>2
<1>12. ASSUME NEW u \in Tasks \ {t} PROVE OnServer(u)' /\ ToolOK(u)'
  <2>1. task'[u] = task[u] /\ OnServer(u) /\ ToolOK(u) /\ task[u].server \in Servers
    BY <1>3 DEF OneTask, Ordered, TypeOK, TaskRecords
  <2>2. OnServer(u)'
    BY <1>1, <2>1 DEF OnServer, Lock
  <2>3. ~(task[u].kind \in Tools /\ task[u].phase = "run") /\ task[u].phase # "commit"
    BY <1>1, OneTool
  <2>4. ASSUME task[u].kind = "provision", task[u].phase \in Pending, task[u].server \in servers
        PROVE  task[u].server \in Loaded(disk')
    <3>1. task[u].server \in Loaded(disk)
      BY <2>1, <2>4 DEF ToolOK
    <3>2. CASE task[u].server # s
      BY <1>9, <2>1, <3>1, <3>2
    <3>3. CASE task[u].server = s
      <4>1. task[t].kind \notin Maint
        BY <1>1, <1>4, <2>4, <3>3 DEF Closes, After
      <4>2. QED BY <1>7, <2>4, <3>3, <4>1 DEF Maint
    <3>4. QED BY <3>2, <3>3
  <2>5. ToolOK(u)'
    BY <1>1, <2>1, <2>3, <2>4 DEF ToolOK
  <2>6. QED BY <2>2, <2>5
<1>13. ASSUME NEW d \in Tasks PROVE Closes(d)'
  <2>1. \A u \in Tasks : task'[u].server = task[u].server /\ task'[u].kind = task[u].kind
    BY <1>3 DEF OneTask
  <2>2. \A u \in Tasks : After(u, d)' => After(u, d)
    <3>1. \A u \in Tasks : /\ task'[u].phase \in {"ready", "prov", "lock"} => task'[u] = task[u]
                           /\ task'[u].phase \in {"run", "commit"} => task[u].phase \in {"run", "commit"}
                           /\ task'[u].phase \in Pending => task[u].phase \in Pending
      BY <1>1, <1>3 DEF OneTask, Pending
    <3>2. QED BY <1>1, <3>1 DEF After
  <2>3. Closes(d)
    BY DEF Ordered
  <2>4. QED BY <2>1, <2>2, <2>3 DEF Closes
<1>14. \A d \in Tasks : (OnServer(d) /\ Closes(d) /\ ToolOK(d))'
  BY <1>11, <1>12, <1>13
<1>15. QED BY <1>5, <1>6, <1>10, <1>14 DEF Ordered

-----------------------------------------------------------------------------
(* The invariant holds at first, after a restart, and after every step.    *)

\* no task has begun, or every one was killed
AtRest ==
  /\ \A t \in Tasks : task[t].phase \in {"free", "killed"}
  /\ ready = <<>> /\ \A l \in Locks : waiters[l] = <<>> /\ holder[l] = NoTask
  /\ disk.managed \cap disk.tombs = {}
  /\ \/ servers = {} /\ ~Loadable(disk)
     \/ servers = Loaded(disk) /\ Loadable(disk)

LEMMA OrderedAtRest == AtRest => Ordered
<1> SUFFICES ASSUME AtRest PROVE Ordered
  OBVIOUS
<1> USE DEF AtRest
<1>1. Queues
  BY DEF Queues, QueueOf, InPhase, Waiting
<1>2. Holders
  BY DEF Holders, HasProv, HasServer, Locks, ConstantsOK
<1>3. Registry
  <2>1. Legacy \cap disk.managed \cap servers = {}
    BY DEF Loadable
  <2>2. QED BY <2>1 DEF Registry
<1>4. \A t \in Tasks : OnServer(t) /\ Closes(t) /\ ToolOK(t)
  BY DEF OnServer, Closes, After, ToolOK, Pending
<1>5. QED BY <1>1, <1>2, <1>3, <1>4 DEF Ordered

\* the two lists of a registry have no id in common
Apart(r) == r.managed \cap r.tombs = {}

RegistriesApart == Apart(disk) /\ \A t \in Tasks : Apart(task[t].base)

LEMMA RewrittenApart ==
  ASSUME NEW t \in Tasks, task[t].base \in Registries, Apart(task[t].base)
  PROVE  Apart(Rewritten(t))
BY DEF Rewritten, Installed, Deleted, Apart, Registries

LEMMA ApartKept ==
  ASSUME TypeOK, RegistriesApart,
         \/ disk' = disk
         \/ \E t \in Tasks : disk' = task[t].base \/ disk' = Rewritten(t),
         \A t \in Tasks : \/ task'[t].base = task[t].base
                          \/ task'[t].base = disk
                          \/ task'[t].base = Blank
  PROVE  RegistriesApart'
<1>1. \A t \in Tasks : task[t].base \in Registries
  BY DEF TypeOK, TaskRecords
<1>2. Apart(Blank)
  BY DEF Apart, Blank
<1>3. Apart(disk')
  BY <1>1, RewrittenApart DEF RegistriesApart
<1>4. QED BY <1>2, <1>3 DEF RegistriesApart

\* What a step does to a registry, on the disk or read by a tool, and to the servers
\* that are to be provisioned.
SameBases  == \A u \in Tasks : \/ task'[u].base = task[u].base
                               \/ task'[u].base = disk
                               \/ task'[u].base = Blank
SameOrders == \A u \in Tasks : task'[u].kind = "provision" =>
                \/ task[u].kind = "provision" /\ task'[u].server = task[u].server
                \/ AcceptProvision(task'[u].server)
DiskMade   == \/ disk' = disk
              \/ \E t \in Tasks : disk' = task[t].base \/ disk' = Rewritten(t)

LEMMA RegistryStep == TypeOK /\ [Next]_vars => SameBases /\ SameOrders /\ DiskMade
<1> DEFINE Same == SameBases /\ SameOrders
<1> SUFFICES ASSUME TypeOK, [Next]_vars PROVE Same /\ DiskMade
  OBVIOUS
<1>1. /\ task \in [Tasks -> TaskRecords]
      /\ \A p \in Phases : Idle(p).base = Blank /\ Idle(p).kind # "provision"
  BY DEF TypeOK, Idle
<1>2. ASSUME NEW t \in Tasks, NEW h, NEW w, EnterServerLock(t, h, w)
      PROVE  Same
  <2>1. \/ task' = [task EXCEPT ![t].phase = "lost"]
        \/ task' = [task EXCEPT ![t].phase = "run", ![t].lock = Lock(task[t].server), ![t].base = disk]
        \/ task' = [task EXCEPT ![t].phase = "lock", ![t].lock = Lock(task[t].server)]
    BY <1>2 DEF EnterServerLock
  <2>2. \A u \in Tasks : /\ task'[u].base = task[u].base \/ task'[u].base = disk
                         /\ task'[u].kind = task[u].kind /\ task'[u].server = task[u].server
    BY <1>1, <2>1 DEF TaskRecords
  <2>3. QED BY <2>2 DEF SameBases, SameOrders
<1>3. ASSUME NEW t \in Tasks, NEW w, EnterProvisioning(t, w)
      PROVE  Same
  <2>1. CASE task' = [task EXCEPT ![t].phase = "run", ![t].base = disk]
    <3>1. \A u \in Tasks : /\ task'[u].base = task[u].base \/ task'[u].base = disk
                           /\ task'[u].kind = task[u].kind /\ task'[u].server = task[u].server
      BY <1>1, <2>1 DEF TaskRecords
    <3>2. QED BY <3>1 DEF SameBases, SameOrders
  <2>2. QED BY <1>2, <1>3, <2>1 DEF EnterProvisioning
<1>4. ASSUME NEW t \in Tasks, NEW p \in Phases, EndJob(t, p)
      PROVE  Same
  <2>1. \A u \in Tasks :
          \/ task'[u] = task[u]
          \/ /\ task'[u].base = task[u].base
             /\ task'[u].kind = task[u].kind /\ task'[u].server = task[u].server
          \/ task'[u] = Idle(p)
    BY <1>1, <1>4 DEF EndJob, TaskRecords
  <2>2. QED BY <1>1, <2>1 DEF SameBases, SameOrders
<1>5. ASSUME NEW k \in Kinds, NEW s \in Servers, NEW p \in Phases, NEW l \in Locks,
             NewTask(k, s, p, l), k = "provision" => AcceptProvision(s)
      PROVE  Same
  <2>1. \A u \in Tasks : \/ task'[u] = task[u]
                         \/ task'[u] = [kind |-> k, server |-> s, phase |-> p,
                                        lock |-> l, base |-> Blank]
    BY <1>1, <1>5 DEF NewTask
  <2>2. QED BY <1>5, <2>1 DEF SameBases, SameOrders
<1>6. /\ {"succeeded", "failed", "strayed", "ready", "lock"} \cup Abandoned \subseteq Phases
      /\ Prov \in Locks /\ {"action", "provision", "file"} \subseteq Kinds
      /\ Maint \subseteq Kinds \ {"provision"}
  BY DEF Phases, Abandoned, Pending, Locks, Kinds, Tools, Maint
<1>7. ASSUME NEW s \in Servers, NEW k \in Kinds, StartTask(k, s),
             k = "provision" => AcceptProvision(s)
      PROVE  Same /\ DiskMade
  BY <1>5, <1>6, <1>7 DEF StartTask, DiskMade
<1>8. ASSUME NEW s \in Servers, QueueFileOp(s) PROVE Same /\ DiskMade
  <2>1. Lock(s) \in Locks
    BY LockIsLock DEF TypeOK
  <2>2. QED BY <1>5, <1>6, <1>8, <2>1 DEF QueueFileOp, DiskMade
<1>9. ASSUME NEW t \in Tasks, Begin(t) PROVE Same /\ DiskMade
  <2>1. CASE task' = [task EXCEPT ![t].phase = "prov"]
    <3>1. \A u \in Tasks : /\ task'[u].base = task[u].base
                           /\ task'[u].kind = task[u].kind /\ task'[u].server = task[u].server
      BY <1>1, <2>1 DEF TaskRecords
    <3>2. QED BY <1>9, <3>1 DEF Begin, SameBases, SameOrders, DiskMade
  <2>2. CASE EnterServerLock(t, holder, waiters) \/ EnterProvisioning(t, waiters)
    BY <1>2, <1>3, <1>9, <2>2 DEF Begin, DiskMade
  <2>3. QED BY <1>9, <2>1, <2>2 DEF Begin
<1>10. ASSUME NEW t \in Tasks, ProvTurn(t) PROVE Same /\ DiskMade
  BY <1>3, <1>10 DEF ProvTurn, DiskMade
<1>11. ASSUME NEW t \in Tasks, LockTurn(t) PROVE Same /\ DiskMade
  <2>1. \/ task' = [task EXCEPT ![t] = Idle("succeeded")]
        \/ task' = [task EXCEPT ![t].phase = "run", ![t].base = disk]
    BY <1>11 DEF LockTurn
  <2>2. \A u \in Tasks :
          \/ task'[u] = Idle("succeeded")
          \/ /\ task'[u].base = task[u].base \/ task'[u].base = disk
             /\ task'[u].kind = task[u].kind /\ task'[u].server = task[u].server
    BY <1>1, <2>1 DEF TaskRecords
  <2>3. QED BY <1>1, <1>6, <1>11, <2>2 DEF LockTurn, SameBases, SameOrders, DiskMade
<1>12. ASSUME NEW t \in Tasks,
              EndAction(t) \/ ToolFails(t) \/ ToolExits(t) \/ JobTimeout(t)
       PROVE  Same /\ DiskMade
  <2>1. \E p \in Phases : EndJob(t, p)
    BY <1>6, <1>12 DEF EndAction, ToolFails, ToolExits, JobTimeout, Past, Abandoned
  <2>2. disk' = disk \/ disk' = task[t].base
    BY <1>12 DEF EndAction, ToolFails, ToolExits, JobTimeout
  <2>3. QED BY <1>4, <2>1, <2>2 DEF DiskMade
<1>13. ASSUME NEW t \in Tasks, ToolCommit(t) PROVE Same /\ DiskMade
  <2>1. \A u \in Tasks : /\ task'[u].base = task[u].base
                         /\ task'[u].kind = task[u].kind /\ task'[u].server = task[u].server
    BY <1>1, <1>13 DEF ToolCommit, TaskRecords
  <2>2. QED BY <1>13, <2>1 DEF ToolCommit, SameBases, SameOrders, DiskMade
<1>14. ASSUME NEW t \in Tasks, StrayCommits(t) \/ StrayEnds(t) PROVE Same /\ DiskMade
  <2>1. \A u \in Tasks :
          \/ /\ task'[u].base = task[u].base
             /\ task'[u].kind = task[u].kind /\ task'[u].server = task[u].server
          \/ task'[u] = Idle("strayed")
    BY <1>1, <1>14 DEF StrayCommits, StrayEnds, TaskRecords
  <2>2. SameBases /\ SameOrders
    BY <1>1, <1>6, <2>1 DEF SameBases, SameOrders
  <2>3. DiskMade
    BY <1>14 DEF StrayCommits, StrayEnds, DiskMade
  <2>4. QED BY <2>2, <2>3
<1>15. CASE Restart
  <2>1. "killed" \in Phases
    BY DEF Phases
  <2>2. \A u \in Tasks : task'[u] = task[u] \/ task'[u] = Idle("killed")
    BY <1>15 DEF Restart
  <2>3. QED BY <1>1, <1>15, <2>1, <2>2 DEF Restart, SameBases, SameOrders, DiskMade
<1>16. CASE UNCHANGED vars
  BY <1>16 DEF vars, SameBases, SameOrders, DiskMade
<1>17. ASSUME NEW s \in Servers, AcceptProvision(s) PROVE Same /\ DiskMade
  BY <1>6, <1>7, <1>17 DEF AcceptProvision
<1>18. QED
  BY <1>6, <1>7, <1>8, <1>9, <1>10, <1>11, <1>12, <1>13, <1>14, <1>15, <1>16, <1>17
     DEF Next, TaskStep, AcceptAction, AcceptMaintenance

LEMMA ApartStep == TypeOK /\ RegistriesApart /\ [Next]_vars => RegistriesApart'
BY RegistryStep, ApartKept DEF SameBases, DiskMade

\* no step but a restart forgets that a tool was abandoned
LEMMA StrayForNow ==
  ASSUME TypeOK, ReadyOK, EverStray, [Next]_vars, ~Restart
  PROVE  EverStray'
<1>1. PICK t \in Tasks : task[t].phase \in Abandoned \cup {"strayed"}
  BY DEF EverStray
<1>2. /\ task \in [Tasks -> TaskRecords]
      /\ \A p \in Phases : Idle(p).phase = p
      /\ (Abandoned \cup {"strayed"}) \cap Pending = {}
      /\ (Abandoned \cup {"strayed"}) \cap {"free", "lock", "run", "commit"} = {}
  BY DEF TypeOK, Idle, Pending, Abandoned
<1>3. ASSUME NEW u \in Tasks, OneTask(u), task[u].phase \notin Abandoned \cup {"strayed"}
      PROVE  EverStray'
  BY <1>1, <1>3 DEF OneTask, EverStray
<1>4. ASSUME NEW k, NEW s, NEW p, NEW l, NewTask(k, s, p, l) PROVE EverStray'
  <2>1. FreshTask \in Tasks /\ task[FreshTask].phase = "free"
    BY <1>4, FreshIsFree DEF NewTask
  <2>2. OneTask(FreshTask)
    BY <1>2, <1>4, <2>1 DEF NewTask, OneTask
  <2>3. QED BY <1>2, <1>3, <2>1, <2>2
<1>5. ASSUME NEW s \in Servers,
             \/ AcceptAction(s) \/ AcceptProvision(s) \/ QueueFileOp(s)
             \/ \E k \in Maint : AcceptMaintenance(k, s)
      PROVE  EverStray'
  BY <1>4, <1>5 DEF AcceptAction, AcceptProvision, QueueFileOp, AcceptMaintenance, StartTask
<1>6. ASSUME NEW u \in Tasks, Begin(u) PROVE EverStray'
  BY <1>2, <1>3, <1>6, ReadyBegin DEF Advances
<1>7. ASSUME NEW u \in Tasks, ProvTurn(u) PROVE EverStray'
  <2>1. task[u].phase \in Pending
    BY <1>7 DEF ProvTurn, Pending
  <2>2. QED BY <1>2, <1>3, <1>7, <2>1, EnterProvisioningAdvances DEF ProvTurn, Advances
<1>8. ASSUME NEW u \in Tasks, LockTurn(u) \/ ToolCommit(u) PROVE EverStray'
  <2>1. OneTask(u) /\ task[u].phase \in {"lock", "run"}
    BY <1>2, <1>8 DEF LockTurn, ToolCommit, OneTask
  <2>2. QED BY <1>2, <1>3, <2>1
<1>9. ASSUME NEW u \in Tasks,
             EndAction(u) \/ ToolFails(u) \/ ToolExits(u) \/ JobTimeout(u)
      PROVE  EverStray'
  <2>1. /\ task[u].phase \in {"run", "commit"}
        /\ \E p \in {"succeeded", "failed", "strayed"} \cup Abandoned : EndJob(u, p)
    BY <1>9 DEF EndAction, ToolFails, ToolExits, JobTimeout, Past, Abandoned
  <2>2. QED BY <1>2, <1>3, <2>1, EndJobEnds
<1>10. ASSUME NEW u \in Tasks, StrayCommits(u) \/ StrayEnds(u) PROVE EverStray'
  <2>1. task'[u].phase \in {"adrift", "strayed"}
    BY <1>2, <1>10 DEF StrayCommits, StrayEnds, Idle, TaskRecords
  <2>2. QED BY <2>1 DEF EverStray, Abandoned
<1>11. CASE UNCHANGED vars
  BY <1>11 DEF vars, EverStray
<1>12. QED
  BY <1>5, <1>6, <1>7, <1>8, <1>9, <1>10, <1>11 DEF Next, TaskStep

-----------------------------------------------------------------------------
(* The inductive invariant, and what it implies.                           *)

ExclusionInv == Inductive /\ RegistriesApart /\ Exclusion

LEMMA ExclusionInit == Init => ExclusionInv
<1> SUFFICES ASSUME Init PROVE ExclusionInv
  OBVIOUS
<1>1. Inductive
  BY TypeInit, ExactInit DEF Inductive
<1>2. \A t \in Tasks : task[t].phase = "free" /\ task[t].kind = "action" /\ task[t].base = Blank
  BY DEF Init, Idle
<1>3. disk.managed = Managed /\ disk.tombs = {}
  BY DEF Init
<1>4. RegistriesApart
  BY <1>2, <1>3 DEF RegistriesApart, Apart, Blank
<1>5. servers = Loaded(disk) /\ Loadable(disk)
  BY <1>3 DEF Init, Loaded, Loadable, ConstantsOK
<1>6. Ordered
  BY <1>2, <1>3, <1>5, OrderedAtRest DEF Init, AtRest
<1>7. QED BY <1>1, <1>4, <1>6 DEF ExclusionInv, Exclusion

LEMMA RestartKeeps ==
  ASSUME TypeOK, RegistriesApart, Restart
  PROVE  Ordered'
<1>1. \A t \in Tasks : task'[t].phase \in {"free", "killed"}
  BY DEF Restart, Idle
<1>2. /\ ready' = <<>> /\ \A l \in Locks : waiters'[l] = <<>> /\ holder'[l] = NoTask
      /\ disk' = disk
      /\ servers' = IF Loadable(disk) THEN Loaded(disk) ELSE {}
  BY DEF Restart
<1>3. AtRest'
  BY <1>1, <1>2 DEF AtRest, RegistriesApart, Apart
<1>4. AtRest' => Ordered'
  BY OrderedAtRest, PTL
<1>5. QED BY <1>3, <1>4

LEMMA OrderedStep ==
  ASSUME TypeOK, ReadyOK, MaintenanceExact, Ordered, [Next]_vars, ~Restart
  PROVE  Ordered' \/ EverStray \/ EverStray'
<1>1. ASSUME NEW s \in Servers, AcceptAction(s) PROVE Ordered'
  <2>1. "action" \in Kinds \ {"file"} /\ s \in servers /\ s \notin maintenance
    BY <1>1 DEF AcceptAction, Busy, Kinds
  <2>2. QED BY <1>1, <2>1, StartKeeps DEF AcceptAction
<1>2. ASSUME NEW s \in Servers, AcceptProvision(s) PROVE Ordered'
  <2>1. "provision" \in Kinds \ {"file"} /\ s \notin servers
    BY <1>2 DEF AcceptProvision, Kinds, Tools
  <2>2. QED BY <1>2, <2>1, StartKeeps DEF AcceptProvision
<1>3. ASSUME NEW s \in Servers, NEW k \in Maint, AcceptMaintenance(k, s) PROVE Ordered'
  <2>1. k \in Kinds \ {"file"} /\ k # "provision" /\ s \in servers /\ s \notin maintenance
    BY <1>3 DEF AcceptMaintenance, MaintenanceGuard, Busy, Kinds, Tools, Maint
  <2>2. QED BY <1>3, <2>1, StartKeeps DEF AcceptMaintenance
<1>4. ASSUME NEW t \in Tasks, JobTimeout(t) PROVE EverStray'
  <2>1. PICK p \in Abandoned \cup {"strayed"} : EndJob(t, p)
    BY <1>4 DEF JobTimeout, Past, Abandoned
  <2>2. task'[t].phase = p
    BY <2>1 DEF EndJob, TypeOK, TaskRecords, Idle
  <2>3. QED BY <2>2 DEF EverStray
<1>5. ASSUME NEW t \in Tasks, StrayCommits(t) \/ StrayEnds(t) PROVE EverStray
  BY <1>5 DEF StrayCommits, StrayEnds, EverStray, Abandoned
<1>6. CASE UNCHANGED vars
  <2>1. \A t \in Tasks : /\ OnServer(t)' <=> OnServer(t)
                         /\ Closes(t)' <=> Closes(t)
                         /\ ToolOK(t)' <=> ToolOK(t)
    BY <1>6 DEF vars, OnServer, Lock, Closes, After, ToolOK
  <2>2. Queues'
    BY <1>6 DEF vars, Ordered, Queues, InPhase, Waiting
  <2>3. Holders'
    BY <1>6 DEF vars, Ordered, Holders, HasProv, HasServer
  <2>4. Registry'
    BY <1>6 DEF vars, Ordered, Registry
  <2>5. QED BY <2>1, <2>2, <2>3, <2>4 DEF Ordered
<1>7. QED
  BY <1>1, <1>2, <1>3, <1>4, <1>5, <1>6, FileOpKeeps, BeginKeeps, ProvTurnKeeps, LockTurnKeeps,
     EndActionKeeps, ToolCommitKeeps, ToolFailsKeeps, ToolExitsKeeps DEF Next, TaskStep

LEMMA ExclusionStep == ExclusionInv /\ [Next]_vars => ExclusionInv'
<1> SUFFICES ASSUME TypeOK, ReadyOK, MaintenanceExact, RegistriesApart, Exclusion, [Next]_vars
             PROVE  ExclusionInv'
  BY DEF ExclusionInv, Inductive
<1>1. Inductive' /\ RegistriesApart'
  BY TypeStep, ExactStep, ApartStep DEF Inductive
<1>2. Exclusion'
  <2>1. CASE Restart
    BY <2>1, RestartKeeps DEF Exclusion
  <2>2. CASE ~Restart /\ EverStray
    BY <2>2, StrayForNow DEF Exclusion
  <2>3. CASE ~Restart /\ ~EverStray
    BY <2>3, OrderedStep DEF Exclusion
  <2>4. QED BY <2>1, <2>2, <2>3
<1>3. QED BY <1>1, <1>2 DEF ExclusionInv

LEMMA ExclusionHolds == Spec => []ExclusionInv
BY ExclusionInit, ExclusionStep, PTL DEF Spec

(* Unless a tool was abandoned at its timeout, nobody is left behind on    *)
(* the Lock object of a deleted server, and no task dies of a missing one. *)
THEOREM OrphansNever == Spec => []NoOrphans
<1>1. ExclusionInv => NoOrphans
  <2>1. {"lock", "run", "commit"} \subseteq Pending
    BY DEF Pending
  <2>2. QED BY <2>1 DEF ExclusionInv, Exclusion, Ordered, OnServer, NoOrphans
<1>2. QED BY <1>1, ExclusionHolds, PTL

(* Unless a tool was abandoned at its timeout, at most one job's command   *)
(* or root tool works on a server, across deletions and reinstallations    *)
(* that give its id a new Lock object.                                     *)
THEOREM WorkExclusive == Spec => []ServerExclusive
<1>1. ExclusionInv => ServerExclusive
  <2> SUFFICES ASSUME TypeOK, Ordered, ~EverStray, NEW s \in Servers,
                      NEW t \in Tasks, NEW u \in Tasks, Touches(t, s), Touches(u, s)
               PROVE  t = u
    BY DEF ExclusionInv, Inductive, Exclusion, ServerExclusive
  <2>1. \A v \in Tasks : Touches(v, s) =>
          task[v].phase \in {"run", "commit"} /\ task[v].server = s
    BY DEF Touches, EverStray
  <2>2. ASSUME NEW v \in Tasks, Touches(v, s), task[v].kind # "provision"
        PROVE  s \in servers /\ Lock(s) \in Locks \ {Prov} /\ holder[Lock(s)] = v
    <3>1. OnServer(v) /\ task[v].phase \in Pending
      BY <2>1, <2>2 DEF Ordered, Pending
    <3>2. s \in servers /\ task[v].lock = Lock(s)
      BY <2>1, <2>2, <3>1 DEF OnServer
    <3>3. Lock(s) \in Locks \ {Prov}
      BY LockIsLock DEF TypeOK
    <3>4. QED BY <2>1, <2>2, <3>2, <3>3 DEF Ordered, Holders, HasServer
  <2>3. ASSUME NEW v \in Tasks, Touches(v, s), task[v].kind = "provision"
        PROVE  s \notin servers /\ holder[Prov] = v
    <3>1. holder[Prov] = v
      BY <2>1, <2>3 DEF Ordered, Holders, HasProv, Tools
    <3>2. CASE task[v].phase = "commit"
      BY <2>1, <2>3, <3>1, <3>2 DEF Ordered, ToolOK
    <3>3. CASE task[v].phase = "run"
      <4>1. s \notin Loaded(disk)
        BY <2>1, <2>3, <3>3 DEF Touches, Tools, Accepts, InstallAccepts, Loaded, Ordered, ToolOK
      <4>2. QED BY <2>1, <2>3, <3>1, <3>3, <4>1 DEF Ordered, ToolOK, Pending
    <3>4. QED BY <2>1, <2>3, <3>2, <3>3
  <2>4. QED BY <2>2, <2>3
<1>2. QED BY <1>1, ExclusionHolds, PTL

-----------------------------------------------------------------------------
(* The action properties                                                   *)

(* What a step can do to one task: a job succeeds after its tool's commit  *)
(* only in ToolExits, and the registry changes only by a tool's hand.      *)
LEMMA WhoSteps ==
  ASSUME TypeOK, ReadyOK, [Next]_vars
  PROVE  /\ \A t \in Tasks : task[t].phase = "commit" /\ task'[t].phase = "succeeded" =>
              ToolExits(t)
         /\ disk' # disk => \/ \E t \in Tasks : ToolCommit(t) \/ StrayCommits(t) \/ StrayEnds(t)
                            \/ \E t \in Tasks : /\ task[t].phase = "commit" /\ task[t].kind = "change"
                                                /\ disk' = task[t].base
<1> DEFINE Claim ==
      /\ \A t \in Tasks : task[t].phase = "commit" /\ task'[t].phase = "succeeded" => ToolExits(t)
      /\ disk' # disk => \/ \E t \in Tasks : ToolCommit(t) \/ StrayCommits(t) \/ StrayEnds(t)
                         \/ \E t \in Tasks : /\ task[t].phase = "commit" /\ task[t].kind = "change"
                                             /\ disk' = task[t].base
<1>1. task \in [Tasks -> TaskRecords] /\ \A p \in Phases : Idle(p).phase = p
  BY DEF TypeOK, Idle
<1>2. ASSUME NEW u \in Tasks, OneTask(u), task[u].phase # "commit" \/ task'[u].phase # "succeeded",
             disk' = disk
      PROVE  Claim
  BY <1>2 DEF OneTask
<1>3. ASSUME NEW k, NEW s, NEW p, NEW l, NewTask(k, s, p, l), disk' = disk PROVE Claim
  <2>1. FreshTask \in Tasks /\ task[FreshTask].phase = "free"
    BY <1>3, FreshIsFree DEF NewTask
  <2>2. OneTask(FreshTask)
    BY <1>1, <1>3, <2>1 DEF NewTask, OneTask
  <2>3. QED BY <1>2, <1>3, <2>1, <2>2
<1>4. ASSUME NEW s \in Servers,
             \/ AcceptAction(s) \/ AcceptProvision(s) \/ QueueFileOp(s)
             \/ \E k \in Maint : AcceptMaintenance(k, s)
      PROVE  Claim
  BY <1>3, <1>4 DEF AcceptAction, AcceptProvision, QueueFileOp, AcceptMaintenance, StartTask
<1>5. ASSUME NEW u \in Tasks, Begin(u) PROVE Claim
  BY <1>2, <1>5, ReadyBegin DEF Advances, Begin
<1>6. ASSUME NEW u \in Tasks, ProvTurn(u) PROVE Claim
  <2>1. task[u].phase = "prov" /\ task[u].phase \in Pending
    BY <1>6 DEF ProvTurn, Pending
  <2>2. QED BY <1>2, <1>6, <2>1, EnterProvisioningAdvances DEF ProvTurn, Advances
<1>7. ASSUME NEW u \in Tasks, LockTurn(u) PROVE Claim
  <2>1. OneTask(u) /\ task[u].phase = "lock" /\ disk' = disk
    BY <1>1, <1>7 DEF LockTurn, OneTask
  <2>2. QED BY <1>2, <2>1
<1>8. ASSUME NEW u \in Tasks, ToolCommit(u) PROVE Claim
  BY <1>1, <1>8 DEF ToolCommit, TaskRecords
<1>9. ASSUME NEW u \in Tasks, NEW p \in {"succeeded", "failed", "strayed"} \cup Abandoned, EndJob(u, p)
      PROVE  OneTask(u) /\ task'[u].phase = p
  BY <1>1, <1>9 DEF EndJob, OneTask, TaskRecords, Phases, Abandoned
<1>10. ASSUME NEW u \in Tasks, EndAction(u) PROVE Claim
  <2>1. OneTask(u) /\ task[u].phase = "run" /\ disk' = disk
    BY <1>9, <1>10 DEF EndAction
  <2>2. QED BY <1>2, <2>1
<1>11. ASSUME NEW u \in Tasks, ToolFails(u) PROVE Claim
  <2>1. OneTask(u) /\ task'[u].phase = "failed"
    BY <1>9, <1>11 DEF ToolFails
  <2>2. QED BY <1>11, <2>1 DEF ToolFails, OneTask
<1>12. ASSUME NEW u \in Tasks, ToolExits(u) PROVE Claim
  <2>1. OneTask(u) /\ disk' = disk
    BY <1>9, <1>12 DEF ToolExits
  <2>2. QED BY <1>12, <2>1 DEF OneTask
<1>13. ASSUME NEW u \in Tasks, JobTimeout(u) PROVE Claim
  <2>1. OneTask(u) /\ task'[u].phase \in {"stray", "adrift", "strayed"} /\ disk' = disk
    BY <1>9, <1>13 DEF JobTimeout, Past, Abandoned
  <2>2. QED BY <1>2, <2>1
<1>14. ASSUME NEW u \in Tasks, StrayCommits(u) \/ StrayEnds(u) PROVE Claim
  <2>1. OneTask(u) /\ task[u].phase \in {"stray", "adrift"}
    BY <1>1, <1>14 DEF StrayCommits, StrayEnds, OneTask
  <2>2. QED BY <1>14, <2>1 DEF OneTask
<1>15. CASE Restart
  BY <1>15 DEF Restart, Idle
<1>16. CASE UNCHANGED vars
  BY <1>16 DEF vars
<1>17. QED
  BY <1>4, <1>5, <1>6, <1>7, <1>8, <1>10, <1>11, <1>12, <1>13, <1>14, <1>15, <1>16
     DEF Next, TaskStep

(* A job that reports success has done what it says: a provisioned or      *)
(* changed server is served, a deleted one is not (unless a tool was       *)
(* abandoned).                                                             *)
THEOREM SuccessServes == Spec => SuccessMeansServed
<1>1. ASSUME ExclusionInv, [Next]_vars, NEW t \in Tasks, task[t].phase = "commit",
             task'[t].phase = "succeeded", ~EverStray
      PROVE  task[t].server \in servers' <=> task[t].kind \in {"provision", "change"}
  <2>1. TypeOK /\ ReadyOK /\ Ordered
    BY <1>1 DEF ExclusionInv, Inductive, Exclusion
  <2>2. OnServer(t) /\ ToolOK(t) /\ task[t].kind \in Tools
    BY <1>1, <2>1 DEF Ordered, OnServer
  <2>3. ToolExits(t)
    BY <1>1, <2>1, WhoSteps
  <2>4. ~EndJob(t, "failed")
    BY <1>1, <2>1 DEF EndJob, Idle, TypeOK, Abandoned
  <2>5. servers' = Loaded(disk)
    BY <2>3, <2>4 DEF ToolExits, ReplaceConfig
  <2>6. disk.managed \cap disk.tombs = {}
    BY <2>1 DEF Ordered, Registry
  <2>7. CASE task[t].kind \in {"provision", "change"}
    BY <1>1, <2>2, <2>5, <2>6, <2>7 DEF ToolOK, Loaded
  <2>8. CASE task[t].kind \in {"delete", "deleteLegacy"}
    BY <1>1, <2>2, <2>5, <2>8 DEF ToolOK
  <2>9. QED BY <2>2, <2>7, <2>8 DEF Tools
<1>2. ExclusionInv /\ [Next]_vars =>
        [\A t \in Tasks :
           task[t].phase = "commit" /\ task'[t].phase = "succeeded" /\ ~EverStray =>
             (task[t].server \in servers' <=> task[t].kind \in {"provision", "change"})]_vars
  BY <1>1
<1>3. QED BY <1>2, ExclusionHolds, PTL DEF Spec, SuccessMeansServed

(* While no tool has been abandoned, no tool undoes another's change: a    *)
(* server enters the registry only by being provisioned and leaves it only *)
(* by being deleted.                                                       *)
THEOREM RegistryKeepsUpdates == Spec => NoLostRegistryUpdate
<1>1. ASSUME ExclusionInv, [Next]_vars, NEW s \in Servers, ~EverStray,
             (s \in Loaded(disk)) # (s \in Loaded(disk)')
      PROVE  \E t \in Tasks : /\ task[t].phase = "run" /\ task'[t].phase = "commit"
                              /\ task[t].server = s /\ task[t].kind # "change"
  <2>1. TypeOK /\ ReadyOK /\ Ordered
    BY <1>1 DEF ExclusionInv, Inductive, Exclusion
  <2>2. ~(s \in Loaded(disk) <=> s \in Loaded(disk'))
    BY <1>1 DEF Loaded
  <2>3. disk' # disk
    BY <2>2
  <2>4. ~\E t \in Tasks : StrayCommits(t) \/ StrayEnds(t)
    BY <1>1 DEF StrayCommits, StrayEnds, EverStray, Abandoned
  <2>5. PICK t \in Tasks : ToolCommit(t)
    BY <1>1, <2>1, <2>3, <2>4, WhoSteps DEF Ordered, ToolOK
  <2>6. /\ task[t].kind \in Tools /\ task[t].phase = "run" /\ disk' = Rewritten(t)
        /\ task[t].base = disk /\ disk \in Registries
    BY <2>1, <2>5 DEF ToolCommit, Ordered, ToolOK, TypeOK
  <2>7. task'[t].phase = "commit"
    BY <2>1, <2>5 DEF ToolCommit, TypeOK, TaskRecords
  <2>8. task[t].server = s
    BY <2>2, <2>6, RewrittenElsewhere
  <2>9. task[t].kind # "change"
    BY <2>3, <2>6 DEF Rewritten
  <2>10. QED BY <2>6, <2>7, <2>8, <2>9
<1>2. ExclusionInv /\ [Next]_vars =>
        [\A s \in Servers : ~EverStray /\ (s \in Loaded(disk)) # (s \in Loaded(disk)') =>
           \E t \in Tasks : /\ task[t].phase = "run" /\ task'[t].phase = "commit"
                            /\ task[t].server = s /\ task[t].kind # "change"]_vars
  BY <1>1
<1>3. QED BY <1>2, ExclusionHolds, PTL DEF Spec, NoLostRegistryUpdate
-----------------------------------------------------------------------------
(* What the two violations of the registry rest on                         *)

\* s comes back to the registry only by being provisioned
Returned ==
  \A s \in Servers : s \notin Loaded(disk) /\ s \in Loaded(disk)' =>
    \E t \in Tasks : /\ task[t].kind = "provision" /\ task[t].server = s
                     /\ task[t].phase # task'[t].phase

LEMMA ReturnStep == ExclusionInv /\ [Next]_vars /\ ~EverStray => Returned
<1> SUFFICES ASSUME ExclusionInv, [Next]_vars, ~EverStray,
                    NEW s \in Servers, s \notin Loaded(disk), s \in Loaded(disk')
             PROVE  \E t \in Tasks : /\ task[t].kind = "provision" /\ task[t].server = s
                                     /\ task[t].phase # task'[t].phase
  BY DEF Returned, Loaded
<1>1. TypeOK /\ ReadyOK /\ Ordered
  BY DEF ExclusionInv, Inductive, Exclusion
<1>2. ~\E t \in Tasks : StrayCommits(t) \/ StrayEnds(t)
  BY DEF StrayCommits, StrayEnds, EverStray, Abandoned
<1>3. PICK t \in Tasks : ToolCommit(t)
  BY <1>1, <1>2, WhoSteps DEF Ordered, ToolOK
<1>4. /\ task[t].kind \in Tools /\ task[t].phase = "run" /\ disk' = Rewritten(t)
      /\ task[t].base = disk /\ disk \in Registries
  BY <1>1, <1>3 DEF ToolCommit, Ordered, ToolOK, TypeOK
<1>5. task'[t].phase = "commit"
  BY <1>1, <1>3 DEF ToolCommit, TypeOK, TaskRecords
<1>6. task[t].server = s
  BY <1>4, RewrittenElsewhere
<1>7. task[t].kind \notin {"delete", "deleteLegacy"}
  <2>1. ASSUME disk' = Deleted(s, disk) PROVE FALSE
    BY <1>4, <2>1 DEF Deleted, Loaded, Registries
  <2>2. QED BY <1>4, <1>6, <2>1 DEF Rewritten
<1>8. task[t].kind # "change"
  BY <1>4 DEF Rewritten
<1>9. QED BY <1>4, <1>5, <1>6, <1>7, <1>8 DEF Tools

(* A deletion is remembered (README.md:509) as long as no tool is          *)
(* abandoned at its job's timeout (agent.py:424): what the run             *)
(* agent_lost_update finds is the only way to lose one.                    *)
THEOREM DeletionKept == Spec /\ []~EverStray => DeletionRemembered
<1>1. ExclusionInv /\ [Next]_vars /\ ~EverStray =>
        [\A s \in Servers : s \notin Loaded(disk) /\ s \in Loaded(disk)' =>
           \E t \in Tasks : /\ task[t].kind = "provision" /\ task[t].server = s
                            /\ task[t].phase # task'[t].phase]_vars
  BY ReturnStep DEF Returned
<1>2. QED BY <1>1, ExclusionHolds, PTL DEF Spec, DeletionRemembered

\* nobody provisions an id that agent.toml lists
LegacyLeft == \A s \in Legacy : ~AcceptProvision(s)

\* no registry on the disk or in a tool's hands lists such an id
LegacyFree(r) == r.managed \cap Legacy = {}
LegacyApart ==
  /\ LegacyFree(disk)
  /\ \A t \in Tasks : /\ LegacyFree(task[t].base)
                      /\ task[t].kind = "provision" => task[t].server \notin Legacy

LEMMA LegacyStep == TypeOK /\ LegacyApart /\ [Next]_vars /\ LegacyLeft => LegacyApart'
<1> SUFFICES ASSUME TypeOK, LegacyApart, [Next]_vars, LegacyLeft PROVE LegacyApart'
  OBVIOUS
<1>1. SameBases /\ SameOrders /\ DiskMade
  BY RegistryStep
<1>2. ASSUME NEW t \in Tasks PROVE LegacyFree(Rewritten(t))
  <2>1. task[t].base \in Registries /\ LegacyFree(task[t].base)
        /\ (task[t].kind = "provision" => task[t].server \notin Legacy)
    BY DEF TypeOK, TaskRecords, LegacyApart
  <2>2. QED BY <2>1 DEF Rewritten, Installed, Deleted, LegacyFree, Registries
<1>3. LegacyFree(disk')
  BY <1>1, <1>2 DEF DiskMade, LegacyApart
<1>4. LegacyFree(Blank)
  BY DEF LegacyFree, Blank
<1>5. \A t \in Tasks : LegacyFree(task'[t].base)
  BY <1>1, <1>4 DEF SameBases, LegacyApart
<1>6. \A t \in Tasks : task'[t].kind = "provision" => task'[t].server \notin Legacy
  BY <1>1 DEF SameOrders, LegacyApart, LegacyLeft
<1>7. QED BY <1>3, <1>5, <1>6 DEF LegacyApart

(* The registry can always be loaded as long as no id that agent.toml      *)
(* lists is provisioned: whatever times out, is abandoned or interrupted,  *)
(* only the second half of README.md:508-510 makes the agent unable to     *)
(* start (server_installer.py:521).                                        *)
THEOREM LoadableUnlessReprovisioned ==
  Spec /\ [][LegacyLeft]_vars => []AlwaysLoadable
<1>1. Init => LegacyApart
  <2> SUFFICES ASSUME Init PROVE LegacyApart
    OBVIOUS
  <2>1. LegacyFree(disk) /\ LegacyFree(Blank)
    BY DEF Init, LegacyFree, Blank
  <2>2. \A t \in Tasks : task[t].base = Blank /\ task[t].kind = "action"
    BY DEF Init, Idle
  <2>3. QED BY <2>1, <2>2 DEF LegacyApart
<1>2. LegacyApart => AlwaysLoadable
  BY DEF LegacyApart, LegacyFree, AlwaysLoadable, Loadable
<1>3. LegacyApart /\ UNCHANGED vars => LegacyApart'
  BY DEF LegacyApart, LegacyFree, vars
<1>4. TypeOK /\ LegacyApart /\ [Next]_vars /\ [LegacyLeft]_vars => LegacyApart'
  BY <1>3, LegacyStep
<1>5. QED BY <1>1, <1>2, <1>4, TypeCorrect, PTL DEF Spec

=============================================================================
