------------------------- MODULE PlaneAndPoolProofs -------------------------
(***************************************************************************)
(* Proofs about the two pieces of state that a worker's tasks share: the   *)
(* snapshots of ConfigPlane, for any number of changes, queue size and     *)
(* faults, and the breaker of EndpointPool, for any number of endpoints    *)
(* and callers.  The two parts do not use each other.                      *)
(***************************************************************************)
EXTENDS ConfigPlane, EndpointPool, TLAPS

(* The configuration plane. *)

(* A snapshot, and how far a load is. *)
Snaps == [version : Nat \cup {NoVersion}, rows : SUBSET Changes]
LoadStates == {"idle", "version", "rows", "loaded", "putting"}
TaskRecord == [state : LoadStates, snap : Snaps]
RequestRecord == [state : {"new", "bumped", "committed", "done"}, read : Nat]

(* Types. A snapshot may claim any number until the order of bumps bounds it. *)
PlaneTypes ==
  /\ rows \subseteq Changes /\ version \in Nat
  /\ request \in [Changes -> RequestRecord]
  /\ task \in [Tasks -> TaskRecord]
  /\ queue \in Seq(Snaps) /\ applied \in Snaps /\ putters \in Seq(Tasks)
  /\ commits \in [Versions -> SUBSET Changes]

(* Changes bump in the order of their numbers, so the version never        *)
(* exceeds the number of changes begun.                                    *)
OrderInv ==
  /\ \A c, d \in Changes : c < d /\ request[d].state # "new" => request[c].state # "new"
  /\ \A c \in Changes : request[c].state # "new" => request[c].read < c
  /\ version > 0 => version \in Changes /\ request[version].state # "new"

(* A task waits in put at most once. *)
PutInv ==
  /\ \A i \in 1..Len(putters) : task[putters[i]].state = "putting"
  /\ \A i, j \in 1..Len(putters) : putters[i] = putters[j] => i = j

(* What a snapshot of the past claims stays true: only the next version is *)
(* still to be written.                                                    *)
Covers(s) ==
  /\ s.version <= version
  /\ s.version # NoVersion => commits[s.version] \subseteq s.rows

(* What a task holds: between the two reads of a load, only a version.     *)
Holds(k) == IF k.state = "rows" THEN k.snap.version <= version ELSE Covers(k.snap)

(* As long as no bump was lost, a handler that has read the version will   *)
(* write the next one.                                                     *)
VersionInv ==
  /\ \A c \in Changes : request[c].state = "bumped" => request[c].read = version
  /\ \A v \in Versions : commits[v] \subseteq rows
  /\ Covers(applied)
  /\ \A i \in 1..Len(queue) : Covers(queue[i])
  /\ \A t \in Tasks : Holds(task[t])

(* The inductive invariant of the configuration plane. *)
PlaneInv == PlaneTypes /\ OrderInv /\ PutInv /\ (~LostBump => VersionInv)

(* The steps of the watcher and of the worker. *)
WatcherStep ==
  \/ Subscribe \/ RedisMessage \/ SubscriberFails \/ PollTick
  \/ \E t \in Tasks : Load(t) \/ LoadFails(t)
  \/ MainLoop

(* The steps of the web handlers. *)
HandlerStep == \E c \in Changes : Handler(c) \/ PublishFails(c)

(* The snapshot of a task that has loaded nothing. *)
LEMMA NoSnapshotFields == NoSnapshot \in Snaps /\ NoSnapshot.version = NoVersion /\ NoSnapshot.rows = {}
BY DEF NoSnapshot, Snaps, NoVersion

(* Before the first load nothing is claimed. *)
LEMMA InitPlane == Init => PlaneInv
<1> SUFFICES ASSUME Init PROVE PlaneInv
  OBVIOUS
<1>0. NumChanges \in Nat
  BY ConfigAssumption
<1>1. /\ request \in [Changes -> RequestRecord] /\ task \in [Tasks -> TaskRecord]
      /\ commits \in [Versions -> SUBSET Changes] /\ applied \in Snaps
      /\ rows = {} /\ version = 0
  BY NoSnapshotFields DEF Init, RequestRecord, TaskRecord, LoadStates
<1>2. queue = <<>> /\ putters = <<>> /\ queue \in Seq(Snaps) /\ putters \in Seq(Tasks) /\ Len(queue) = 0 /\ Len(putters) = 0
  BY DEF Init
<1>3. PlaneTypes
  BY <1>1, <1>2 DEF PlaneTypes
<1>4. OrderInv /\ PutInv
  BY <1>1, <1>2 DEF OrderInv, PutInv, Init
<1>5. Covers(NoSnapshot)
  BY <1>1, NoSnapshotFields DEF Covers, NoVersion
<1>6. \A t \in Tasks : Holds(task[t])
  BY <1>5 DEF Holds, Init
<1>7. VersionInv
  BY <1>2, <1>5, <1>6 DEF VersionInv, Init
<1> QED BY <1>3, <1>4, <1>7 DEF PlaneInv

(* Once two handlers read one version, the bump stays lost. *)
LEMMA BumpStaysLost ==
  ASSUME PlaneTypes, HandlerStep
  PROVE  ~LostBump' => ~LostBump
<1>1. \A c \in Changes : request[c].state # "new" => request'[c].state # "new" /\ request'[c].read = request[c].read
  BY DEF HandlerStep, Handler, Bump, Commit, Publish, PublishFails, PlaneTypes, RequestRecord
<1> QED BY <1>1 DEF LostBump

(* The handlers' steps, by what they do to requests, rows and versions. *)
LEMMA HandlerNext ==
  ASSUME PlaneInv, HandlerStep
  PROVE  PlaneInv'
<1>0. /\ NumChanges \in Nat /\ version \in Versions
      /\ \A c \in Changes : request[c] \in RequestRecord /\ request[c].read \in Nat /\ c \in Nat
  BY ConfigAssumption DEF PlaneInv, PlaneTypes, OrderInv, Versions, Changes, RequestRecord
<1>1. UNCHANGED <<task, queue, putters, applied>>
  BY DEF HandlerStep, Handler, Bump, Commit, Publish, PublishFails
<1>2. PutInv'
  BY <1>1 DEF PlaneInv, PutInv
<1>3. ASSUME NEW c \in Changes, Bump(c) PROVE PlaneInv'
  <2> DEFINE q == [state |-> "bumped", read |-> version]
  <2>1. /\ UNCHANGED <<rows, version, commits>> /\ request[c].state = "new"
        /\ \A d \in 1..(c - 1) : request[d].state # "new"
        /\ request' = [request EXCEPT ![c] = q]
    BY <1>3 DEF Bump
  <2>2. q \in RequestRecord /\ q.state = "bumped" /\ q.read = version
    BY DEF RequestRecord, PlaneInv, PlaneTypes
  <2> HIDE DEF q
  <2>3. request' \in [Changes -> RequestRecord] /\ request'[c] = q
        /\ \A d \in Changes \ {c} : request'[d] = request[d]
    BY <2>1, <2>2 DEF PlaneInv, PlaneTypes
  <2>4. PlaneTypes'
    BY <1>1, <2>1, <2>3 DEF PlaneInv, PlaneTypes
  <2>5. version < c
    BY <1>0, <2>1 DEF PlaneInv, OrderInv, Changes, Versions
  <2>6. OrderInv'
    <3>1. ASSUME NEW a \in Changes, NEW d \in Changes, a < d, request'[d].state # "new"
          PROVE  request'[a].state # "new"
      <4>1. CASE a = c
        BY <2>2, <2>3, <4>1
      <4>2. CASE a # c /\ d = c
        <5>1. a \in 1..(c - 1)
          BY <3>1, <4>2 DEF Changes
        <5> QED BY <2>1, <2>3, <4>2, <5>1
      <4>3. CASE a # c /\ d # c
        BY <2>3, <3>1, <4>3 DEF PlaneInv, OrderInv
      <4> QED BY <4>1, <4>2, <4>3
    <3>2. ASSUME NEW d \in Changes, request'[d].state # "new" PROVE request'[d].read < d
      BY <2>2, <2>3, <2>5, <3>2 DEF PlaneInv, OrderInv
    <3>3. ASSUME version' > 0 PROVE version' \in Changes /\ request'[version'].state # "new"
      BY <2>1, <2>2, <2>3, <3>3 DEF PlaneInv, OrderInv
    <3> QED BY <3>1, <3>2, <3>3 DEF OrderInv
  <2>7. ASSUME ~LostBump' PROVE VersionInv'
    <3>1. VersionInv
      BY <2>7, BumpStaysLost DEF PlaneInv
    <3>2. \A d \in Changes : request'[d].state = "bumped" => request'[d].read = version'
      BY <2>1, <2>2, <2>3, <3>1 DEF VersionInv
    <3> QED BY <1>1, <2>1, <3>1, <3>2 DEF VersionInv, Covers, Holds
  <2> QED BY <1>2, <2>4, <2>6, <2>7 DEF PlaneInv
<1>4. ASSUME NEW c \in Changes, Commit(c) PROVE PlaneInv'
  <2> DEFINE q == [request[c] EXCEPT !.state = "committed"]
             n == request[c].read + 1
  <2>1. /\ request[c].state = "bumped" /\ rows' = rows \cup {c} /\ version' = n
        /\ commits' = [commits EXCEPT ![n] = rows'] /\ request' = [request EXCEPT ![c] = q]
    BY <1>4 DEF Commit
  <2>2. q \in RequestRecord /\ q.state = "committed" /\ q.read = request[c].read
    BY <1>0 DEF RequestRecord
  <2>3. request[c].read < c /\ n \in Nat /\ n <= c /\ n > 0 /\ n \in Changes /\ n \in Versions
    BY <1>0, <2>1 DEF PlaneInv, OrderInv, Changes, Versions
  <2>a. n = request[c].read + 1
    OBVIOUS
  <2> HIDE DEF q, n
  <2>4. request' \in [Changes -> RequestRecord] /\ request'[c] = q
        /\ \A d \in Changes \ {c} : request'[d] = request[d]
    BY <2>1, <2>2 DEF PlaneInv, PlaneTypes
  <2>5. /\ commits' \in [Versions -> SUBSET Changes] /\ commits'[n] = rows'
        /\ \A v \in Versions \ {n} : commits'[v] = commits[v]
    BY <2>1, <2>3 DEF PlaneInv, PlaneTypes
  <2>6. PlaneTypes'
    BY <1>1, <2>1, <2>3, <2>4, <2>5 DEF PlaneInv, PlaneTypes
  <2>7. OrderInv'
    <3>1. \A d \in Changes : request'[d].state # "new" <=> request[d].state # "new"
      BY <2>1, <2>2, <2>4
    <3>2. \A d \in Changes : request'[d].read = request[d].read
      BY <2>2, <2>4
    <3>3. request[n].state # "new"
      <4>1. CASE n = c
        BY <2>1, <4>1
      <4>2. CASE n # c
        BY <1>0, <2>1, <2>3, <4>2 DEF PlaneInv, OrderInv
      <4> QED BY <4>1, <4>2
    <3>4. OrderInv
      BY DEF PlaneInv
    <3> QED BY <2>1, <2>3, <3>1, <3>2, <3>3, <3>4 DEF OrderInv
  <2>8. ASSUME ~LostBump' PROVE VersionInv'
    <3>1. VersionInv
      BY <2>8, BumpStaysLost DEF PlaneInv
    <3>2. n = version + 1 /\ version \in Nat
      BY <2>1, <2>a, <3>1 DEF VersionInv, PlaneInv, PlaneTypes
    <3>3. ASSUME NEW d \in Changes, request'[d].state = "bumped" PROVE FALSE
      <4>1. d # c /\ request'[d] = request[d]
        BY <2>2, <2>4, <3>3
      <4>2. request[d].read = version /\ request[c].read = version
        BY <2>1, <3>1, <3>3, <4>1 DEF VersionInv
      <4>3. request'[d].read = request'[c].read /\ request'[c].state # "new" /\ request'[d].state # "new"
        BY <2>2, <2>4, <3>3, <4>1, <4>2
      <4> QED BY <2>8, <4>1, <4>3 DEF LostBump
    <3>4. \A v \in Versions : commits'[v] \subseteq rows'
      BY <2>1, <2>5, <3>1 DEF VersionInv
    <3>5. ASSUME NEW s \in Snaps, s.version <= version
          PROVE  s.version <= version' /\ (Covers(s) => (s.version # NoVersion => commits'[s.version] \subseteq s.rows))
      <4>1. s.version \in Nat \cup {NoVersion} /\ NoVersion = -1
        BY DEF Snaps, NoVersion
      <4>2. s.version <= version'
        BY <2>1, <3>2, <3>5, <4>1
      <4>3. ASSUME s.version # NoVersion PROVE commits'[s.version] = commits[s.version]
        <5>1. s.version \in Versions \ {n}
          BY <1>0, <3>2, <3>5, <4>1, <4>3 DEF Versions
        <5> QED BY <2>5, <5>1
      <4> QED BY <4>2, <4>3 DEF Covers
    <3>6. ASSUME NEW s \in Snaps, Covers(s) PROVE Covers(s)'
      <4>1. s.version <= version
        BY <3>6 DEF Covers
      <4> QED BY <3>5, <3>6, <4>1 DEF Covers
    <3>7. applied \in Snaps /\ \A i \in 1..Len(queue) : queue[i] \in Snaps
      BY DEF PlaneInv, PlaneTypes
    <3>8. \A t \in Tasks : task[t].snap \in Snaps
      BY DEF PlaneInv, PlaneTypes, TaskRecord
    <3>9. Covers(applied)' /\ \A i \in 1..Len(queue) : Covers(queue[i])'
      <4>1. Covers(applied) /\ \A i \in 1..Len(queue) : Covers(queue[i])
        BY <3>1 DEF VersionInv
      <4> QED BY <1>1, <3>6, <3>7, <4>1 DEF Covers
    <3>10. ASSUME NEW t \in Tasks PROVE Holds(task[t])'
      <4>1. Holds(task[t]) /\ task[t].snap \in Snaps
        BY <3>1, <3>8 DEF VersionInv
      <4>2. CASE task[t].state = "rows"
        BY <1>1, <3>5, <4>1, <4>2 DEF Holds
      <4>3. CASE task[t].state # "rows"
        BY <1>1, <3>6, <4>1, <4>3 DEF Holds, Covers
      <4> QED BY <4>2, <4>3
    <3> QED BY <1>1, <3>3, <3>4, <3>9, <3>10 DEF VersionInv
  <2> QED BY <1>2, <2>6, <2>7, <2>8 DEF PlaneInv
<1>5. ASSUME NEW c \in Changes, Publish(c) \/ PublishFails(c) PROVE PlaneInv'
  <2> DEFINE q == [request[c] EXCEPT !.state = "done"]
  <2>1. /\ request[c].state = "committed" /\ UNCHANGED <<rows, version, commits>>
        /\ request' = [request EXCEPT ![c] = q]
    BY <1>5 DEF Publish, PublishFails
  <2>2. q \in RequestRecord /\ q.state = "done" /\ q.read = request[c].read
    BY <1>0 DEF RequestRecord
  <2> HIDE DEF q
  <2>3. request' \in [Changes -> RequestRecord] /\ request'[c] = q
        /\ \A d \in Changes \ {c} : request'[d] = request[d]
    BY <2>1, <2>2 DEF PlaneInv, PlaneTypes
  <2>4. PlaneTypes'
    BY <1>1, <2>1, <2>3 DEF PlaneInv, PlaneTypes
  <2>5. /\ \A d \in Changes : request'[d].state # "new" <=> request[d].state # "new"
        /\ \A d \in Changes : request'[d].read = request[d].read
        /\ \A d \in Changes : request'[d].state = "bumped" => request[d].state = "bumped"
    BY <2>1, <2>2, <2>3
  <2>6. OrderInv'
    <3>1. OrderInv
      BY DEF PlaneInv
    <3> QED BY <2>1, <2>5, <3>1 DEF OrderInv
  <2>7. ASSUME ~LostBump' PROVE VersionInv'
    <3>1. VersionInv
      BY <2>7, BumpStaysLost DEF PlaneInv
    <3> QED BY <1>1, <2>1, <2>5, <3>1 DEF VersionInv, Covers, Holds
  <2> QED BY <1>2, <2>4, <2>6, <2>7 DEF PlaneInv
<1> QED BY <1>3, <1>4, <1>5 DEF HandlerStep, Handler

(* What one step of the watcher or the worker does to what a task holds. *)
Moved(t) ==
  \/ task'[t] = task[t]
  \/ task'[t].state \in {"idle", "version"} /\ task'[t].snap = NoSnapshot
  \/ task'[t].state = "rows" /\ task'[t].snap.version = version
  \/ /\ task[t].state = "rows" /\ task'[t].state = "loaded"
     /\ task'[t].snap.version = task[t].snap.version /\ task'[t].snap.rows = rows
  \/ task[t].state = "loaded" /\ task'[t].state = "putting" /\ task'[t].snap = task[t].snap

(* A snapshot handed on: it was queued, or a task had finished loading it. *)
HandedOn(s) ==
  \/ \E i \in 1..Len(queue) : s = queue[i]
  \/ \E t \in Tasks : task[t].state \in {"loaded", "putting"} /\ s = task[t].snap

(* A task's record with new contents. *)
LEMMA TaskUpdates ==
  ASSUME task \in [Tasks -> TaskRecord], NEW t \in Tasks
  PROVE  /\ \A k \in TaskRecord :
              /\ [task EXCEPT ![t] = k] \in [Tasks -> TaskRecord] /\ [task EXCEPT ![t] = k][t] = k
              /\ \A u \in Tasks \ {t} : [task EXCEPT ![t] = k][u] = task[u]
         /\ \A x \in LoadStates : [state |-> x, snap |-> NoSnapshot] \in TaskRecord
<1>1. ASSUME NEW k \in TaskRecord
      PROVE  /\ [task EXCEPT ![t] = k] \in [Tasks -> TaskRecord] /\ [task EXCEPT ![t] = k][t] = k
             /\ \A u \in Tasks \ {t} : [task EXCEPT ![t] = k][u] = task[u]
  OBVIOUS
<1>2. \A x \in LoadStates : [state |-> x, snap |-> NoSnapshot] \in TaskRecord
  BY NoSnapshotFields DEF TaskRecord
<1> QED BY <1>1, <1>2

(* What the steps of a load write into a task's record. *)
LEMMA TaskFields ==
  ASSUME NEW k \in TaskRecord, version \in Nat, rows \in SUBSET Changes
  PROVE  /\ k.state \in LoadStates /\ k.snap \in Snaps
         /\ \A x \in LoadStates : LET m == [k EXCEPT !.state = x]
                                  IN  m \in TaskRecord /\ m.state = x /\ m.snap = k.snap
         /\ LET m == [k EXCEPT !.state = "rows", !.snap.version = version]
            IN  m \in TaskRecord /\ m.state = "rows" /\ m.snap.version = version
         /\ LET m == [k EXCEPT !.state = "loaded", !.snap.rows = rows]
            IN  /\ m \in TaskRecord /\ m.state = "loaded" /\ m.snap.rows = rows
                /\ m.snap.version = k.snap.version
BY DEF TaskRecord, Snaps, LoadStates

(* Loads, puts and the main loop leave the database alone and only move   *)
(* snapshots from task to queue to worker.                                 *)
LEMMA WatcherMoves ==
  ASSUME PlaneTypes, PutInv, WatcherStep
  PROVE  /\ UNCHANGED <<rows, version, request, commits>>
         /\ task' \in [Tasks -> TaskRecord] /\ queue' \in Seq(Snaps) /\ putters' \in Seq(Tasks)
         /\ applied' = applied \/ HandedOn(applied')
         /\ \A i \in 1..Len(queue') : HandedOn(queue'[i])
         /\ \A t \in Tasks : Moved(t)
         /\ PutInv'
<1>0. /\ task \in [Tasks -> TaskRecord] /\ queue \in Seq(Snaps) /\ putters \in Seq(Tasks)
      /\ version \in Nat /\ rows \in SUBSET Changes /\ \A t \in Tasks : task[t] \in TaskRecord
      /\ Len(queue) \in Nat /\ Len(putters) \in Nat
  BY DEF PlaneTypes
<1>1. /\ \A i \in 1..Len(queue) : HandedOn(queue[i])
      /\ \A t \in Tasks : task'[t] = task[t] => Moved(t)
  BY DEF HandedOn, Moved
<1>2. {"redis", "poll", "initial"} \subseteq Tasks /\ LoadStates = {"idle", "version", "rows", "loaded", "putting"}
  BY DEF Tasks, LoadStates
<1>3. ASSUME NEW t \in Tasks, NEW k \in TaskRecord, task' = [task EXCEPT ![t] = k]
      PROVE  /\ task' \in [Tasks -> TaskRecord] /\ task'[t] = k
             /\ \A u \in Tasks \ {t} : task'[u] = task[u] /\ Moved(u)
  BY <1>0, <1>1, <1>3, TaskUpdates
(* A task that does not wait in put may change as it likes. *)
<1>4. ASSUME NEW t \in Tasks, task[t].state # "putting", putters' = putters,
             \A u \in Tasks \ {t} : task'[u] = task[u]
      PROVE  PutInv'
  <2>1. \A i \in 1..Len(putters) : putters[i] \in Tasks /\ putters[i] # t
    BY <1>0, <1>4 DEF PutInv
  <2> QED BY <1>4, <2>1 DEF PutInv
<1>5. CASE RedisMessage \/ PollTick
  <2>1. PICK t \in Tasks : task[t].state = "idle" /\ BeginLoad(t)
    BY <1>2, <1>5 DEF RedisMessage, PollTick
  <2>2. UNCHANGED <<rows, version, request, commits, queue, putters, applied>>
    BY <1>5 DEF RedisMessage, PollTick
  <2> DEFINE k == [state |-> "version", snap |-> NoSnapshot]
  <2>3. k \in TaskRecord /\ k.state = "version" /\ k.snap = NoSnapshot
    BY <1>0, <1>2, TaskUpdates
  <2>4. task' = [task EXCEPT ![t] = k]
    BY <2>1 DEF BeginLoad
  <2> HIDE DEF k
  <2>5. task' \in [Tasks -> TaskRecord] /\ task'[t] = k /\ \A u \in Tasks \ {t} : task'[u] = task[u] /\ Moved(u)
    BY <1>3, <2>3, <2>4
  <2>6. Moved(t)
    BY <2>3, <2>5 DEF Moved
  <2>7. PutInv'
    BY <1>4, <2>1, <2>2, <2>5
  <2> QED BY <1>0, <1>1, <2>2, <2>5, <2>6, <2>7
<1>6. CASE Subscribe \/ SubscriberFails \/ Reconciled
  <2>1. UNCHANGED <<rows, version, request, commits, queue, putters, applied, task>>
    BY <1>6 DEF Subscribe, SubscriberFails, Reconciled
  <2> QED BY <1>0, <1>1, <2>1 DEF PutInv
<1>7. CASE Dequeue
  <2>1. /\ queue # <<>> /\ applied' = Head(queue) /\ queue' = Tail(queue)
        /\ UNCHANGED <<rows, version, request, commits, putters, task>>
    BY <1>7 DEF Dequeue
  <2>2. /\ Tail(queue) \in Seq(Snaps) /\ Head(queue) = queue[1] /\ 1 \in 1..Len(queue)
        /\ \A i \in 1..Len(Tail(queue)) : i + 1 \in 1..Len(queue) /\ Tail(queue)[i] = queue[i + 1]
    BY <1>0, <2>1
  <2>3. HandedOn(applied') /\ \A i \in 1..Len(queue') : HandedOn(queue'[i])
    BY <1>1, <2>1, <2>2
  <2> QED BY <1>0, <1>1, <2>1, <2>2, <2>3 DEF PutInv
<1>8. ASSUME NEW t \in Tasks, ReadVersion(t) \/ ReadRows(t) \/ SkipUnchanged(t) \/ LoadFails(t)
      PROVE  /\ UNCHANGED <<rows, version, request, commits, queue, putters, applied>>
             /\ task' \in [Tasks -> TaskRecord] /\ (\A u \in Tasks : Moved(u)) /\ PutInv'
  <2>1. UNCHANGED <<rows, version, request, commits, queue, putters, applied>>
    BY <1>8 DEF ReadVersion, ReadRows, SkipUnchanged, LoadFails
  <2>2. task[t].state # "putting"
    BY <1>8 DEF ReadVersion, ReadRows, SkipUnchanged, LoadFails
  <2>3. PICK k \in TaskRecord : task' = [task EXCEPT ![t] = k] /\
           \/ k.state = "idle" /\ k.snap = NoSnapshot
           \/ k.state = "rows" /\ k.snap.version = version
           \/ task[t].state = "rows" /\ k.state = "loaded" /\ k.snap.version = task[t].snap.version /\ k.snap.rows = rows
    <3>1. CASE ReadVersion(t)
      <4> DEFINE m == [task[t] EXCEPT !.state = "rows", !.snap.version = version]
      <4>1. m \in TaskRecord /\ m.state = "rows" /\ m.snap.version = version
        BY <1>0, TaskFields
      <4>2. task' = [task EXCEPT ![t] = m]
        BY <1>0, <3>1 DEF ReadVersion
      <4> QED BY <4>1, <4>2
    <3>2. CASE ReadRows(t)
      <4> DEFINE m == [task[t] EXCEPT !.state = "loaded", !.snap.rows = rows]
      <4>1. m \in TaskRecord /\ m.state = "loaded" /\ m.snap.rows = rows /\ m.snap.version = task[t].snap.version
        BY <1>0, TaskFields
      <4>2. task' = [task EXCEPT ![t] = m] /\ task[t].state = "rows"
        BY <1>0, <3>2 DEF ReadRows
      <4> QED BY <4>1, <4>2
    <3>3. CASE SkipUnchanged(t) \/ LoadFails(t)
      <4> DEFINE m == [state |-> "idle", snap |-> NoSnapshot]
      <4>1. m \in TaskRecord /\ m.state = "idle" /\ m.snap = NoSnapshot
        BY <1>0, <1>2, TaskUpdates
      <4>2. task' = [task EXCEPT ![t] = m]
        BY <3>3 DEF SkipUnchanged, LoadFails, Idle
      <4> QED BY <4>1, <4>2
    <3> QED BY <1>8, <3>1, <3>2, <3>3
  <2>4. task' \in [Tasks -> TaskRecord] /\ task'[t] = k /\ \A u \in Tasks \ {t} : task'[u] = task[u] /\ Moved(u)
    BY <1>3, <2>3
  <2>5. Moved(t)
    BY <2>3, <2>4 DEF Moved
  <2>6. PutInv'
    BY <1>4, <2>1, <2>2, <2>4
  <2> QED BY <2>1, <2>4, <2>5, <2>6
<1>9. ASSUME NEW t \in Tasks, task[t].state \in {"loaded", "putting"}
      PROVE  /\ Append(queue, task[t].snap) \in Seq(Snaps)
             /\ \A i \in 1..Len(Append(queue, task[t].snap)) : HandedOn(Append(queue, task[t].snap)[i])
  <2> DEFINE s == task[t].snap
  <2>1. s \in Snaps /\ HandedOn(s)
    BY <1>0, <1>9, TaskFields DEF HandedOn
  <2> HIDE DEF s
  <2>2. /\ Append(queue, s) \in Seq(Snaps) /\ Len(Append(queue, s)) = Len(queue) + 1
        /\ \A i \in 1..Len(queue) + 1 : Append(queue, s)[i] = IF i <= Len(queue) THEN queue[i] ELSE s
    BY ONLY <1>0, <2>1
  <2>3. \A i \in 1..Len(queue) + 1 : i <= Len(queue) => i \in 1..Len(queue)
    BY ONLY <1>0
  <2>4. \A i \in 1..Len(Append(queue, s)) : HandedOn(Append(queue, s)[i])
    BY ONLY <1>1, <2>1, <2>2, <2>3
  <2> QED BY <2>2, <2>4 DEF s
<1>10. ASSUME NEW t \in Tasks, Emit(t), Len(queue) < QueueSize
       PROVE  /\ UNCHANGED <<rows, version, request, commits, putters, applied>>
              /\ task' \in [Tasks -> TaskRecord] /\ queue' \in Seq(Snaps)
              /\ (\A i \in 1..Len(queue') : HandedOn(queue'[i]))
              /\ (\A u \in Tasks : Moved(u)) /\ PutInv'
  <2>1. /\ UNCHANGED <<rows, version, request, commits, putters, applied>>
        /\ task[t].state = "loaded" /\ queue' = Append(queue, task[t].snap) /\ Idle(t)
    BY <1>10 DEF Emit
  <2> DEFINE m == [state |-> "idle", snap |-> NoSnapshot]
  <2>2. m \in TaskRecord /\ m.state = "idle" /\ m.snap = NoSnapshot
    BY <1>0, <1>2, TaskUpdates
  <2>3. task' = [task EXCEPT ![t] = m]
    BY <2>1 DEF Idle
  <2> HIDE DEF m
  <2>4. task' \in [Tasks -> TaskRecord] /\ task'[t] = m /\ \A u \in Tasks \ {t} : task'[u] = task[u] /\ Moved(u)
    BY <1>3, <2>2, <2>3
  <2>5. Moved(t)
    BY <2>2, <2>4 DEF Moved
  <2>6. PutInv'
    BY <1>4, <2>1, <2>4
  <2> QED BY <1>9, <2>1, <2>4, <2>5, <2>6
<1>11. ASSUME NEW t \in Tasks, Emit(t), ~(Len(queue) < QueueSize)
       PROVE  /\ UNCHANGED <<rows, version, request, commits, queue, applied>>
              /\ task' \in [Tasks -> TaskRecord] /\ putters' \in Seq(Tasks)
              /\ (\A u \in Tasks : Moved(u)) /\ PutInv'
  <2>1. /\ UNCHANGED <<rows, version, request, commits, queue, applied>>
        /\ task[t].state = "loaded" /\ putters' = Append(putters, t)
        /\ task' = [task EXCEPT ![t].state = "putting"]
    BY <1>11 DEF Emit
  <2> DEFINE m == [task[t] EXCEPT !.state = "putting"]
  <2>2. m \in TaskRecord /\ m.state = "putting" /\ m.snap = task[t].snap
    BY <1>0, <1>2, TaskFields
  <2>3. task' = [task EXCEPT ![t] = m]
    BY <2>1
  <2> HIDE DEF m
  <2>4. task' \in [Tasks -> TaskRecord] /\ task'[t] = m /\ \A u \in Tasks \ {t} : task'[u] = task[u] /\ Moved(u)
    BY <1>3, <2>2, <2>3
  <2>5. Moved(t)
    BY <2>1, <2>2, <2>4 DEF Moved
  <2>6. /\ putters' \in Seq(Tasks) /\ Len(putters') = Len(putters) + 1
        /\ \A i \in 1..Len(putters') : putters'[i] = IF i <= Len(putters) THEN putters[i] ELSE t
    BY <1>0, <2>1
  <2>7. \A i \in 1..Len(putters) : putters[i] \in Tasks /\ task[putters[i]].state = "putting" /\ putters[i] # t
    BY <1>0, <2>1 DEF PutInv
  <2>8. ASSUME NEW i \in 1..Len(putters') PROVE task'[putters'[i]].state = "putting"
    <3>1. CASE i \in 1..Len(putters)
      BY <2>4, <2>6, <2>7, <3>1
    <3>2. CASE i \notin 1..Len(putters)
      <4>1. putters'[i] = t
        BY <1>0, <2>6, <3>2
      <4> QED BY <2>2, <2>4, <4>1
    <3> QED BY <3>1, <3>2
  <2>9. ASSUME NEW i \in 1..Len(putters'), NEW j \in 1..Len(putters'), putters'[i] = putters'[j] PROVE i = j
    <3>1. CASE i \in 1..Len(putters) /\ j \in 1..Len(putters)
      BY <2>6, <2>9, <3>1 DEF PutInv
    <3>2. CASE i \notin 1..Len(putters) /\ j \notin 1..Len(putters)
      BY <1>0, <2>6, <3>2
    <3>3. CASE i \in 1..Len(putters) /\ j \notin 1..Len(putters)
      BY <1>0, <2>6, <2>7, <2>9, <3>3
    <3>4. CASE i \notin 1..Len(putters) /\ j \in 1..Len(putters)
      BY <1>0, <2>6, <2>7, <2>9, <3>4
    <3> QED BY <3>1, <3>2, <3>3, <3>4
  <2> QED BY <2>1, <2>4, <2>5, <2>6, <2>8, <2>9 DEF PutInv
<1>12. ASSUME NEW t \in Tasks, PutResumes(t)
       PROVE  /\ UNCHANGED <<rows, version, request, commits, applied>>
              /\ task' \in [Tasks -> TaskRecord] /\ queue' \in Seq(Snaps) /\ putters' \in Seq(Tasks)
              /\ (\A i \in 1..Len(queue') : HandedOn(queue'[i]))
              /\ (\A u \in Tasks : Moved(u)) /\ PutInv'
  <2>1. /\ UNCHANGED <<rows, version, request, commits, applied>>
        /\ putters # <<>> /\ Head(putters) = t /\ putters' = Tail(putters)
        /\ queue' = Append(queue, task[t].snap) /\ Idle(t)
    BY <1>12 DEF PutResumes
  <2> DEFINE m == [state |-> "idle", snap |-> NoSnapshot]
  <2>2. m \in TaskRecord /\ m.state = "idle" /\ m.snap = NoSnapshot
    BY <1>0, <1>2, TaskUpdates
  <2>3. task' = [task EXCEPT ![t] = m]
    BY <2>1 DEF Idle
  <2> HIDE DEF m
  <2>4. task' \in [Tasks -> TaskRecord] /\ task'[t] = m /\ \A u \in Tasks \ {t} : task'[u] = task[u] /\ Moved(u)
    BY <1>3, <2>2, <2>3
  <2>5. Moved(t)
    BY <2>2, <2>4 DEF Moved
  <2>6. /\ putters' \in Seq(Tasks) /\ Len(putters') = Len(putters) - 1 /\ putters[1] = t /\ 1 \in 1..Len(putters)
        /\ \A i \in 1..Len(putters') : i + 1 \in 1..Len(putters) /\ i \in Nat /\ putters'[i] = putters[i + 1]
    BY <1>0, <2>1
  <2>7. task[t].state = "putting"
    BY <2>6 DEF PutInv
  <2>8. ASSUME NEW i \in 1..Len(putters') PROVE task'[putters'[i]].state = "putting"
    <3>1. i + 1 \in 1..Len(putters) /\ putters'[i] = putters[i + 1] /\ putters[i + 1] \in Tasks /\ i + 1 # 1
      BY <1>0, <2>6
    <3>2. task[putters[i + 1]].state = "putting" /\ putters[i + 1] # t
      BY <2>6, <3>1 DEF PutInv
    <3> QED BY <2>4, <3>1, <3>2
  <2>9. ASSUME NEW i \in 1..Len(putters'), NEW j \in 1..Len(putters'), putters'[i] = putters'[j] PROVE i = j
    <3>1. /\ i + 1 \in 1..Len(putters) /\ j + 1 \in 1..Len(putters) /\ i \in Nat /\ j \in Nat
          /\ putters[i + 1] = putters[j + 1]
      BY <2>6, <2>9
    <3>2. i + 1 = j + 1
      BY <3>1 DEF PutInv
    <3> QED BY ONLY <3>1, <3>2
  <2> QED BY <1>9, <2>1, <2>4, <2>5, <2>6, <2>7, <2>8, <2>9 DEF PutInv
<1>13. ASSUME NEW t \in Tasks, Load(t) \/ LoadFails(t)
       PROVE  ReadVersion(t) \/ ReadRows(t) \/ SkipUnchanged(t) \/ LoadFails(t) \/ Emit(t) \/ PutResumes(t)
  BY <1>13 DEF Load
<1>14. CASE \E t \in Tasks : Load(t) \/ LoadFails(t)
  <2>1. PICK t \in Tasks : Load(t) \/ LoadFails(t)
    BY <1>14
  <2>2. CASE ReadVersion(t) \/ ReadRows(t) \/ SkipUnchanged(t) \/ LoadFails(t)
    BY <1>0, <1>1, <1>8, <2>2
  <2>3. CASE Emit(t)
    BY <1>0, <1>1, <1>10, <1>11, <2>3
  <2>4. CASE PutResumes(t)
    BY <1>12, <2>4
  <2> QED BY <1>13, <2>1, <2>2, <2>3, <2>4
<1> QED BY <1>5, <1>6, <1>7, <1>14 DEF WatcherStep, MainLoop

(* The watcher and the worker only pass on what the snapshots cover. *)
LEMMA WatcherNext ==
  ASSUME PlaneInv, WatcherStep
  PROVE  PlaneInv'
<1>0. PlaneTypes /\ PutInv /\ OrderInv
  BY DEF PlaneInv
<1>1. /\ UNCHANGED <<rows, version, request, commits>>
      /\ task' \in [Tasks -> TaskRecord] /\ queue' \in Seq(Snaps) /\ putters' \in Seq(Tasks)
      /\ applied' = applied \/ HandedOn(applied')
      /\ \A i \in 1..Len(queue') : HandedOn(queue'[i])
      /\ \A t \in Tasks : Moved(t)
      /\ PutInv'
  BY <1>0, WatcherMoves
<1>2. \A s : HandedOn(s) => s \in Snaps
  BY <1>0 DEF HandedOn, PlaneTypes, TaskRecord
<1>3. PlaneTypes'
  BY <1>0, <1>1, <1>2 DEF PlaneTypes
<1>4. OrderInv'
  BY <1>0, <1>1 DEF OrderInv
<1>5. ASSUME ~LostBump' PROVE VersionInv'
  <2>1. VersionInv
    BY <1>1, <1>5 DEF LostBump, PlaneInv
  <2>2. \A s : HandedOn(s) => Covers(s)
    BY <2>1 DEF HandedOn, VersionInv, Holds
  <2>3. \A s : Covers(s) => Covers(s)'
    BY <1>1 DEF Covers
  <2>4. Covers(applied)' /\ \A i \in 1..Len(queue') : Covers(queue[i])'
    <3>1. (applied'.version <= version /\ (applied'.version # NoVersion => commits[applied'.version] \subseteq applied'.rows))
      BY <1>1, <2>1, <2>2 DEF VersionInv, Covers
    <3>2. \A i \in 1..Len(queue') : /\ queue'[i].version <= version
                                    /\ queue'[i].version # NoVersion => commits[queue'[i].version] \subseteq queue'[i].rows
      BY <1>1, <2>2 DEF Covers
    <3> QED BY <1>1, <3>1, <3>2 DEF Covers
  <2>5. ASSUME NEW t \in Tasks PROVE Holds(task[t])'
    <3>0. version \in Nat /\ version \in Versions /\ task[t].snap \in Snaps /\ NumChanges \in Nat
      BY <1>0, ConfigAssumption DEF PlaneTypes, OrderInv, TaskRecord, Versions, Changes
    <3>1. CASE task'[t] = task[t]
      BY <1>1, <2>1, <3>1 DEF VersionInv, Holds, Covers
    <3>2. CASE task'[t].state \in {"idle", "version"} /\ task'[t].snap = NoSnapshot
      BY <1>1, <3>0, <3>2, NoSnapshotFields DEF Holds, Covers, NoVersion
    <3>3. CASE task'[t].state = "rows" /\ task'[t].snap.version = version
      BY <1>1, <3>0, <3>3 DEF Holds
    <3>4. CASE /\ task[t].state = "rows" /\ task'[t].state = "loaded"
               /\ task'[t].snap.version = task[t].snap.version /\ task'[t].snap.rows = rows
      <4>1. task[t].snap.version <= version /\ task[t].snap.version \in Nat \cup {NoVersion}
        BY <2>1, <3>0, <3>4 DEF VersionInv, Holds, Snaps
      <4>2. task[t].snap.version # NoVersion => task[t].snap.version \in Versions
        BY <3>0, <4>1 DEF Versions
      <4>3. task[t].snap.version # NoVersion => commits[task[t].snap.version] \subseteq rows
        BY <2>1, <4>2 DEF VersionInv
      <4> QED BY <1>1, <3>4, <4>1, <4>3 DEF Holds, Covers
    <3>5. CASE task[t].state = "loaded" /\ task'[t].state = "putting" /\ task'[t].snap = task[t].snap
      BY <1>1, <2>1, <3>5 DEF VersionInv, Holds, Covers
    <3> QED BY <1>1, <3>1, <3>2, <3>3, <3>4, <3>5 DEF Moved
  <2> QED BY <1>1, <2>1, <2>4, <2>5 DEF VersionInv
<1> QED BY <1>1, <1>3, <1>4, <1>5 DEF PlaneInv

(* The invariant gives the property. *)
LEMMA PlaneCovers == PlaneInv => SnapshotCoversVersion
<1> SUFFICES ASSUME PlaneInv, ~LostBump, NEW s \in InUse, s.version # NoVersion
             PROVE  commits[s.version] \subseteq s.rows
  BY DEF SnapshotCoversVersion
<1>1. VersionInv /\ queue \in Seq(Snaps)
  BY DEF PlaneInv, PlaneTypes
<1>2. DOMAIN queue = 1..Len(queue)
  BY <1>1
<1>3. Covers(s)
  BY <1>1, <1>2 DEF InUse, VersionInv, Holds
<1> QED BY <1>3 DEF Covers

(* A snapshot that claims a version contains what was committed with it,   *)
(* unless two concurrent handlers made one version; for any number of      *)
(* changes, any queue size and any faults.                                 *)
THEOREM PlaneCorrect == Spec => []SnapshotCoversVersion
<1>1. PlaneInv /\ [Next]_vars => PlaneInv'
  <2>1. ASSUME PlaneInv, UNCHANGED vars PROVE PlaneInv'
    <3>1. LostBump' <=> LostBump
      BY <2>1 DEF vars, LostBump
    <3> QED BY <2>1, <3>1 DEF vars, PlaneInv, PlaneTypes, OrderInv, PutInv, VersionInv, Covers, Holds
  <2> QED BY <2>1, HandlerNext, WatcherNext DEF Next, HandlerStep, WatcherStep
<1> QED BY <1>1, InitPlane, PlaneCovers, PTL DEF Spec
-----------------------------------------------------------------------------
(* The endpoint pool. *)

(* Counters, cooldowns and metrics keep their types and stay consistent. *)
PoolInv == PoolTypeOK /\ BreakerConsistent

(* The fresh pool satisfies the invariant. *)
LEMMA InitPool == PoolInit => PoolInv
BY PoolAssumption DEF PoolInit, PoolInv, PoolTypeOK, BreakerConsistent, Endpoints

(* _mark_success leaves every endpoint consistent. *)
LEMMA MarkSuccessKeeps ==
  ASSUME PoolInv, NEW e \in Endpoints, MarkSuccess(e)
  PROVE  /\ failures' \in [Endpoints -> 0..Threshold]
         /\ cooling' \in [Endpoints -> 0..Cooldown]
         /\ gauge' \in [Endpoints -> {0, 1}]
         /\ BreakerConsistent'
BY PoolAssumption DEF PoolInv, PoolTypeOK, BreakerConsistent, MarkSuccess

(* _mark_failure trips the breaker exactly when the counter reaches the threshold. *)
LEMMA MarkFailureKeeps ==
  ASSUME PoolInv, NEW e \in Endpoints, MarkFailure(e)
  PROVE  /\ failures' \in [Endpoints -> 0..Threshold]
         /\ cooling' \in [Endpoints -> 0..Cooldown]
         /\ gauge' \in [Endpoints -> {0, 1}]
         /\ BreakerConsistent'
BY PoolAssumption DEF PoolInv, PoolTypeOK, BreakerConsistent, MarkFailure, Tripped

(* Every step of a caller, of time or of an endpoint preserves the invariant. *)
LEMMA NextPool == PoolInv /\ [PoolNext]_poolVars => PoolInv'
<1> SUFFICES ASSUME PoolInv, [PoolNext]_poolVars PROVE PoolInv'
  OBVIOUS
<1>1. ASSUME NEW c \in Callers, Call(c) PROVE PoolInv'
  BY <1>1 DEF PoolInv, PoolTypeOK, BreakerConsistent, Call, Candidates, Healthy, Endpoints
<1>2. ASSUME NEW c \in Callers, AttemptOk(c) PROVE PoolInv'
  <2>1. PICK e \in alive : MarkSuccess(e)
    BY <1>2 DEF AttemptOk
  <2>2. e \in Endpoints
    BY DEF PoolInv, PoolTypeOK
  <2>3. /\ failures' \in [Endpoints -> 0..Threshold]
        /\ cooling' \in [Endpoints -> 0..Cooldown]
        /\ gauge' \in [Endpoints -> {0, 1}]
        /\ BreakerConsistent'
    BY <2>1, <2>2, MarkSuccessKeeps
  <2> QED BY <1>2, <2>3 DEF PoolInv, PoolTypeOK, AttemptOk
<1>3. ASSUME NEW c \in Callers, AttemptFails(c) PROVE PoolInv'
  <2>1. PICK e \in Endpoints :
          /\ MarkFailure(e)
          /\ left' = [left EXCEPT ![c] = @ \ {e}]
    BY <1>3 DEF AttemptFails
  <2>2. /\ failures' \in [Endpoints -> 0..Threshold]
        /\ cooling' \in [Endpoints -> 0..Cooldown]
        /\ gauge' \in [Endpoints -> {0, 1}]
        /\ BreakerConsistent'
    BY <2>1, MarkFailureKeeps
  <2>3. left' \in [Callers -> SUBSET Endpoints]
    BY <2>1 DEF PoolInv, PoolTypeOK
  <2> QED BY <1>3, <2>2, <2>3 DEF PoolInv, PoolTypeOK, AttemptFails
<1>4. ASSUME Tick PROVE PoolInv'
  BY <1>4, PoolAssumption DEF PoolInv, PoolTypeOK, BreakerConsistent, Tick
<1>5. ASSUME NEW e \in Endpoints, Flip(e) PROVE PoolInv'
  BY <1>5 DEF PoolInv, PoolTypeOK, BreakerConsistent, Flip
<1>6. ASSUME UNCHANGED poolVars PROVE PoolInv'
  BY <1>6 DEF PoolInv, PoolTypeOK, BreakerConsistent, poolVars
<1> QED BY <1>1, <1>2, <1>3, <1>4, <1>5, <1>6 DEF PoolNext, Attempt

(* The invariant holds whatever the callers, the clock and the endpoints do. *)
THEOREM PoolInvariant == PoolSpec => []PoolInv
BY InitPool, NextPool, PTL DEF PoolSpec

(* The breaker's counter, cooldown and metric agree in every reachable     *)
(* state, for any number of endpoints, callers, threshold and cooldown.    *)
THEOREM BreakerAlwaysConsistent == PoolSpec => []BreakerConsistent
<1>1. PoolInv => BreakerConsistent
  BY DEF PoolInv
<1> QED BY <1>1, PoolInvariant, PTL
=============================================================================
