----------------------------- MODULE ConfigPlane -----------------------------
(***************************************************************************)
(* How a configuration change reaches the worker: the web handlers' bump,  *)
(* commit and publish (apps/web/routers/_common.py), the config_version    *)
(* row, load_snapshot, the two tasks of ConfigWatcher, its bounded queue   *)
(* and the worker's main loop.                                             *)
(*                                                                         *)
(* The configuration is the set of changes committed so far.  The database *)
(* gives read-committed isolation: a statement sees what was committed     *)
(* when it ran, also inside one session.                                   *)
(***************************************************************************)
EXTENDS Integers, Sequences

CONSTANTS
  NumChanges,   \* bound: configuration writes, numbered in the order of their bump()
  QueueSize,    \* maxsize of the worker's snapshot queue
  MaxFaults     \* bound: loads that fail, messages lost

ASSUME ConfigAssumption ==
  /\ NumChanges \in Nat
  /\ QueueSize \in Nat \ {0}
  /\ MaxFaults \in Nat

VARIABLES
  rows,        \* committed configuration
  version,     \* config_version.version
  request,     \* per change: how far its web handler is, and the version it read
  messages,    \* config_changed messages the subscriber has not read
  subscriber,  \* the subscriber task: "starting" until Redis knows it, then "listening", "ended"
  task,        \* per watcher task: state and the snapshot it is loading
  last,        \* ConfigWatcher._last_version (NoVersion for None)
  queue,       \* the snapshot queue
  putters,     \* tasks waiting in put, in order
  applied,     \* the snapshot the runners work with
  working,     \* the main loop is inside _reconcile
  faults,
  commits      \* history: per version, the rows when it was committed

vars == <<rows, version, request, messages, subscriber, task, last, queue, putters, applied,
          working, faults, commits>>

Changes == 1..NumChanges
NoVersion == -1
Versions == 0..NumChanges
Tasks == {"initial", "redis", "poll"}
Snapshots == [version : Versions \cup {NoVersion}, rows : SUBSET Changes]
NoSnapshot == [version |-> NoVersion, rows |-> {}]

TypeOK ==
  /\ rows \in SUBSET Changes
  /\ version \in Versions
  /\ request \in [Changes -> [state : {"new", "bumped", "committed", "done"}, read : Versions]]
  /\ messages \in 0..NumChanges
  /\ subscriber \in {"starting", "listening", "ended"}
  /\ task \in [Tasks -> [state : {"idle", "version", "rows", "loaded", "putting"},
                         snap : Snapshots]]
  /\ last \in Versions \cup {NoVersion}
  /\ queue \in Seq(Snapshots) /\ Len(queue) <= QueueSize
  /\ putters \in Seq(Tasks)
  /\ applied \in Snapshots
  /\ working \in BOOLEAN
  /\ faults \in 0..MaxFaults
  /\ commits \in [Versions -> SUBSET Changes]
-----------------------------------------------------------------------------
(* Web handlers. *)

(* The handler flushed its write and read the version row in bump(). *)
Bump(c) ==
  /\ request[c].state = "new"
  /\ \A d \in 1..(c - 1) : request[d].state # "new"
  /\ request' = [request EXCEPT ![c] = [state |-> "bumped", read |-> version]]
  /\ UNCHANGED <<rows, version, messages, subscriber, task, last, queue, putters, applied,
                 working, faults, commits>>

(* row.version += 1 writes the value read before plus one. *)
Commit(c) ==
  /\ request[c].state = "bumped"
  /\ rows' = rows \cup {c}
  /\ version' = request[c].read + 1
  /\ commits' = [commits EXCEPT ![version'] = rows']
  /\ request' = [request EXCEPT ![c].state = "committed"]
  /\ UNCHANGED <<messages, subscriber, task, last, queue, putters, applied, working, faults>>

(* Nobody is notified before the subscription is made or when it is gone:  *)
(* Redis keeps no message.                                                 *)
Publish(c) ==
  /\ request[c].state = "committed"
  /\ messages' = IF subscriber = "listening" THEN messages + 1 ELSE messages
  /\ request' = [request EXCEPT ![c].state = "done"]
  /\ UNCHANGED <<rows, version, subscriber, task, last, queue, putters, applied, working, faults,
                 commits>>

(* The publish fails and is only logged. *)
PublishFails(c) ==
  /\ request[c].state = "committed"
  /\ faults < MaxFaults
  /\ faults' = faults + 1
  /\ request' = [request EXCEPT ![c].state = "done"]
  /\ UNCHANGED <<rows, version, messages, subscriber, task, last, queue, putters, applied, working,
                 commits>>
-----------------------------------------------------------------------------
(* ConfigWatcher. *)

BeginLoad(t) ==
  task' = [task EXCEPT ![t] = [state |-> "version", snap |-> NoSnapshot]]

(* start() has returned: its own load is over. *)
Started == task["initial"].state = "idle"

(* The task made by start() has subscribed. *)
Subscribe ==
  /\ Started /\ subscriber = "starting"
  /\ subscriber' = "listening"
  /\ UNCHANGED <<rows, version, request, messages, task, last, queue, putters, applied, working,
                 faults, commits>>

RedisMessage ==
  /\ subscriber = "listening"
  /\ messages > 0
  /\ task["redis"].state = "idle"
  /\ messages' = messages - 1
  /\ BeginLoad("redis")
  /\ UNCHANGED <<rows, version, request, subscriber, last, queue, putters, applied, working, faults,
                 commits>>

(* The subscription breaks or cannot be made: the task logs it and ends. *)
SubscriberFails ==
  /\ Started /\ subscriber # "ended"
  /\ task["redis"].state = "idle"
  /\ faults < MaxFaults
  /\ faults' = faults + 1
  /\ subscriber' = "ended"
  /\ messages' = 0
  /\ UNCHANGED <<rows, version, request, task, last, queue, putters, applied, working, commits>>

MutantPollTick ==
  /\ Started
  /\ task["poll"].state = "idle"
  /\ subscriber # "ended"
  /\ BeginLoad("poll")
  /\ UNCHANGED <<rows, version, request, messages, subscriber, last, queue, putters, applied,
                 working, faults, commits>>

PollTick ==
  /\ Started
  /\ task["poll"].state = "idle"
  /\ BeginLoad("poll")
  /\ UNCHANGED <<rows, version, request, messages, subscriber, last, queue, putters, applied,
                 working, faults, commits>>

(* load_snapshot reads the version first ... *)
ReadVersion(t) ==
  /\ task[t].state = "version"
  /\ task' = [task EXCEPT ![t].state = "rows", ![t].snap.version = version]
  /\ UNCHANGED <<rows, version, request, messages, subscriber, last, queue, putters, applied,
                 working, faults, commits>>

MutantReadRows(t) ==
  /\ task[t].state = "rows"
  /\ \E old \in {commits[v] : v \in 0..version} \cup {rows} :
       task' = [task EXCEPT ![t].state = "loaded", ![t].snap.rows = old]
  /\ UNCHANGED <<rows, version, request, messages, subscriber, last, queue, putters, applied,
                 working, faults, commits>>

(* ... and the tables afterwards. *)
ReadRows(t) ==
  /\ task[t].state = "rows"
  /\ task' = [task EXCEPT ![t].state = "loaded", ![t].snap.rows = rows]
  /\ UNCHANGED <<rows, version, request, messages, subscriber, last, queue, putters, applied,
                 working, faults, commits>>

LoadFails(t) ==
  /\ task[t].state \in {"version", "rows"}
  /\ faults < MaxFaults
  /\ faults' = faults + 1
  /\ task' = [task EXCEPT ![t] = [state |-> "idle", snap |-> NoSnapshot]]
  /\ UNCHANGED <<rows, version, request, messages, subscriber, last, queue, putters, applied,
                 working, commits>>

Idle(t) == task' = [task EXCEPT ![t] = [state |-> "idle", snap |-> NoSnapshot]]

(* The version equals the last emitted one: nothing to do. *)
SkipUnchanged(t) ==
  /\ task[t].state = "loaded"
  /\ task[t].snap.version = last
  /\ Idle(t)
  /\ UNCHANGED <<rows, version, request, messages, subscriber, last, queue, putters, applied,
                 working, faults, commits>>

(* Otherwise remember it and put the snapshot; put waits while the queue   *)
(* is full.  A put that finds room does not look at the waiting ones.      *)
Emit(t) ==
  /\ task[t].state = "loaded"
  /\ task[t].snap.version # last
  /\ last' = task[t].snap.version
  /\ IF Len(queue) < QueueSize
     THEN queue' = Append(queue, task[t].snap) /\ Idle(t) /\ UNCHANGED putters
     ELSE /\ task' = [task EXCEPT ![t].state = "putting"]
          /\ putters' = Append(putters, t)
          /\ UNCHANGED queue
  /\ UNCHANGED <<rows, version, request, messages, subscriber, applied, working, faults, commits>>

PutResumes(t) ==
  /\ putters # <<>> /\ Head(putters) = t
  /\ Len(queue) < QueueSize
  /\ queue' = Append(queue, task[t].snap)
  /\ putters' = Tail(putters)
  /\ Idle(t)
  /\ UNCHANGED <<rows, version, request, messages, subscriber, last, applied, working, faults,
                 commits>>
-----------------------------------------------------------------------------
(* The worker's main loop: one snapshot at a time, in queue order. *)
Dequeue ==
  /\ ~working
  /\ queue # <<>>
  /\ applied' = Head(queue)
  /\ queue' = Tail(queue)
  /\ working' = TRUE
  /\ UNCHANGED <<rows, version, request, messages, subscriber, task, last, putters, faults, commits>>

Reconciled ==
  /\ working
  /\ working' = FALSE
  /\ UNCHANGED <<rows, version, request, messages, subscriber, task, last, queue, putters, applied,
                 faults, commits>>

Init ==
  /\ rows = {} /\ version = 0
  /\ request = [c \in Changes |-> [state |-> "new", read |-> 0]]
  /\ messages = 0
  /\ subscriber = "starting"
  /\ task = [t \in Tasks |-> [state |-> IF t = "initial" THEN "version" ELSE "idle",
                              snap |-> NoSnapshot]]
  /\ last = NoVersion
  /\ queue = <<>>
  /\ putters = <<>>
  /\ applied = NoSnapshot
  /\ working = FALSE
  /\ faults = 0
  /\ commits = [v \in Versions |-> {}]

Handler(c) == Bump(c) \/ Commit(c) \/ Publish(c)

Load(t) == ReadVersion(t) \/ ReadRows(t) \/ SkipUnchanged(t) \/ Emit(t) \/ PutResumes(t)

MainLoop == Dequeue \/ Reconciled

Next ==
  \/ \E c \in Changes : Handler(c) \/ PublishFails(c)
  \/ Subscribe \/ RedisMessage \/ SubscriberFails \/ PollTick
  \/ \E t \in Tasks : Load(t) \/ LoadFails(t)
  \/ MainLoop

(* The event loop runs every ready task; the 5-second poll never stops.    *)
(* A commit that was begun is finished; nobody has to make a change.       *)
Fairness ==
  /\ WF_vars(PollTick)
  /\ WF_vars(MainLoop)
  /\ \A t \in Tasks : WF_vars(Load(t))

Spec == Init /\ [][Next]_vars /\ Fairness
-----------------------------------------------------------------------------
InUse == {applied} \cup {queue[i] : i \in DOMAIN queue}
           \cup {task[t].snap : t \in {u \in Tasks : task[u].state \in {"loaded", "putting"}}}

(* Two handlers read the same version in bump() and write the same next one. *)
LostBump ==
  \E c, d \in Changes : /\ c # d
                        /\ request[c].state # "new" /\ request[d].state # "new"
                        /\ request[c].read = request[d].read

(* A snapshot holds at least what was committed with its version, although *)
(* load_snapshot reads the tables in several statements while handlers     *)
(* commit: a snapshot that claims a version can be trusted to contain it,  *)
(* unless two concurrent handlers made that version.                       *)
SnapshotCoversVersion ==
  LostBump \/ \A s \in InUse : s.version # NoVersion => commits[s.version] \subseteq s.rows

(* Once no more changes are made, the worker ends up with the committed    *)
(* configuration and keeps it: through lost or unsent messages, a broken   *)
(* subscription, failed loads and a stale snapshot emitted after a fresh   *)
(* one.  Two exceptions: concurrent handlers that wrote one version (the   *)
(* poll cannot tell their changes apart), and a queue that was full (a put *)
(* that waits is overtaken, and the older snapshot is applied last).       *)
ConfigConverges ==
  [](putters = <<>>) =>
    <>[](\/ \E c \in Changes : request[c].state # "done"
         \/ LostBump
         \/ applied.rows = rows)
=============================================================================
