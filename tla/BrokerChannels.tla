---------------------------- MODULE BrokerChannels ----------------------------
(***************************************************************************)
(* The channels that hand payloads to a broker: Kafka (kafka.py), RabbitMQ *)
(* (rabbitmq.py) and Redis Streams (redis_streams.py), each behind the     *)
(* notifier of a runner that processes one block after the other: capture  *)
(* the notifier, dispatch, send under retry_with_backoff, the delivery's   *)
(* record, the checkpoint.  The process can crash and then starts again    *)
(* behind its checkpoint; apply_snapshot stops the channel and replaces    *)
(* the notifier at any time.                                               *)
(*                                                                         *)
(* RabbitMQ and Redis answer a publication, while the Kafka producer only  *)
(* queues it: its own thread sends later, and poll(0) serves no delivery   *)
(* report.  A block has one payload, named after the block.                *)
(***************************************************************************)
EXTENDS Integers, Sequences, SequencesExt

CONSTANTS
  NumBlocks,    \* bound: blocks with a payload
  MaxAttempts,  \* retry.max_attempts
  LocalSize,    \* queue.buffering.max.messages of the Kafka producer
  MaxFaults,    \* bound: failing calls and records, rejected messages, flush timeouts
  MaxCrashes,   \* bound: crashes
  MaxReloads,   \* bound: snapshots applied
  None

Types == {"kafka", "rabbitmq", "mq", "mq_own"}  \* "mq_own" is mq with a redis_url

ASSUME BrokerAssumption ==
  /\ NumBlocks \in Nat /\ MaxFaults \in Nat /\ MaxCrashes \in Nat /\ MaxReloads \in Nat
  /\ MaxAttempts \in Nat \ {0} /\ LocalSize \in Nat \ {0}

VARIABLES
  type,        \* of the channel
  handle,      \* the channel of self._notifier: "none" before the runner starts, "open",
               \* "closed", or "absent" from the table of a notifier that is starting
  block,       \* the block in hand, None between blocks
  stage,       \* how far it is
  fresh,       \* the notifier captured for it is still self._notifier
  attempt,     \* the attempt under way or last made
  checkpoint,  \* the last block saved
  record,      \* block -> None, "success" or "failed", as last recorded
  local,       \* Kafka: payloads in the producer's queue
  broker,      \* payloads the broker has
  misplaced,   \* payloads sent to the bus's Redis instead of the channel's own
  torn,        \* history: blocks last processed while a reload was under way
  skipped,     \* history: blocks last dispatched without the channel
  unrecorded,  \* history: blocks whose last record could not be written
  faults,      \* bound
  crashes,     \* bound
  reloads      \* bound

vars == <<type, handle, block, stage, fresh, attempt, checkpoint, record, local, broker, misplaced,
          torn, skipped, unrecorded, faults, crashes, reloads>>

histories == <<torn, skipped, unrecorded>>
bounds == <<faults, crashes, reloads>>
processing == <<block, stage, fresh, attempt>>
-----------------------------------------------------------------------------
(* Notifier.start: the channel's client, producer or connection is made,   *)
(* and then the channel is in the table.                                   *)
Start ==
  /\ handle \in {"none", "absent"}
  /\ handle' = "open"
  /\ UNCHANGED <<type, processing, checkpoint, record, local, broker, misplaced, histories, bounds>>

(* The next block and the notifier of the moment, without _snap_lock. *)
Capture ==
  /\ handle # "none" /\ stage = "idle" /\ checkpoint < NumBlocks
  /\ block' = checkpoint + 1 /\ stage' = "captured" /\ fresh' = TRUE /\ attempt' = 0
  /\ torn' = IF handle = "open" THEN torn \ {block'} ELSE torn \cup {block'}
  /\ skipped' = skipped \ {block'} /\ unrecorded' = unrecorded \ {block'}
  /\ UNCHANGED <<type, handle, checkpoint, record, local, broker, misplaced, bounds>>

(* dispatch: a task for the channel, if the captured notifier has it. *)
Dispatch ==
  /\ stage = "captured"
  /\ IF fresh /\ handle # "absent" THEN stage' = "queued" /\ UNCHANGED skipped
     ELSE stage' = "done" /\ skipped' = skipped \cup {block}
  /\ UNCHANGED <<type, handle, block, fresh, attempt, checkpoint, record, local, broker, misplaced,
                 torn, unrecorded, bounds>>

(* The channel of the send under way has its client, producer, channel. *)
Connected == fresh /\ handle = "open"

(* mq on the bus's client has nothing to stop and goes on. *)
Usable == Connected \/ type = "mq"

(* Kafka and RabbitMQ assert that they are started, outside the retries. *)
BeginSend ==
  /\ stage = "queued"
  /\ stage' = IF type \in {"kafka", "rabbitmq"} /\ ~Connected THEN "failed" ELSE "trying"
  /\ attempt' = 1
  /\ UNCHANGED <<type, handle, block, fresh, checkpoint, record, local, broker, misplaced,
                 histories, bounds>>

(* _produce: the message is queued; that is all that send waits for. *)
ProduceKafka ==
  /\ type = "kafka" /\ Connected /\ stage = "trying"
  /\ Len(local) < LocalSize
  /\ local' = Append(local, block)
  /\ stage' = "sent"
  /\ UNCHANGED <<type, handle, block, fresh, attempt, checkpoint, record, broker, misplaced,
                 histories, bounds>>

(* The broker has the message; without its own client mq falls back on the *)
(* bus's: another server.                                                  *)
Taken ==
  \/ Usable /\ broker' = Append(broker, block) /\ UNCHANGED misplaced
  \/ type = "mq_own" /\ ~Usable /\ misplaced' = misplaced \cup {block} /\ UNCHANGED broker

(* _publish and _xadd_once: the message is taken and answered. *)
Publish ==
  /\ type # "kafka" /\ stage = "trying"
  /\ Taken
  /\ stage' = "sent"
  /\ UNCHANGED <<type, handle, block, fresh, attempt, checkpoint, record, local, histories, bounds>>

(* retry_with_backoff: another attempt, or RetryExhausted. *)
AfterError ==
  IF attempt < MaxAttempts THEN attempt' = attempt + 1 /\ UNCHANGED stage
  ELSE stage' = "failed" /\ UNCHANGED attempt

(* The call fails, with the message taken (only the answer is lost) or not. *)
PublishFails ==
  /\ type # "kafka" /\ stage = "trying"
  /\ Usable \/ type = "mq_own"
  /\ faults < MaxFaults
  /\ faults' = faults + 1
  /\ Taken \/ UNCHANGED <<broker, misplaced>>
  /\ AfterError
  /\ UNCHANGED <<type, handle, block, fresh, checkpoint, record, local, histories, crashes, reloads>>

(* BufferError: the producer's queue is full. *)
LocalFull ==
  /\ type = "kafka" /\ Connected /\ stage = "trying"
  /\ Len(local) = LocalSize
  /\ AfterError
  /\ UNCHANGED <<type, handle, block, fresh, checkpoint, record, local, broker, misplaced,
                 histories, bounds>>

(* An attempt on a channel that was stopped after the send began. *)
NotStarted ==
  /\ type \in {"kafka", "rabbitmq"} /\ ~Connected /\ stage = "trying"
  /\ AfterError
  /\ UNCHANGED <<type, handle, block, fresh, checkpoint, record, local, broker, misplaced,
                 histories, bounds>>

(* on_success or on_failure writes one row ... *)
WriteRecord ==
  /\ stage \in {"sent", "failed"}
  /\ record' = [record EXCEPT ![block] = IF stage = "sent" THEN "success" ELSE "failed"]
  /\ stage' = "done"
  /\ UNCHANGED <<type, handle, block, fresh, attempt, checkpoint, local, broker, misplaced,
                 histories, bounds>>

(* ... or fails, which is logged. *)
WriteRecordFails ==
  /\ stage \in {"sent", "failed"} /\ faults < MaxFaults
  /\ faults' = faults + 1
  /\ unrecorded' = unrecorded \cup {block}
  /\ stage' = "done"
  /\ UNCHANGED <<type, handle, block, fresh, attempt, checkpoint, record, local, broker, misplaced,
                 torn, skipped, crashes, reloads>>

Save(from) ==
  /\ stage \in from
  /\ checkpoint' = block
  /\ block' = None /\ stage' = "idle" /\ fresh' = FALSE /\ attempt' = 0
  /\ UNCHANGED <<type, handle, record, local, broker, misplaced, histories, bounds>>

MutantSaveCheckpoint == Save({"trying", "done"})

(* dispatch has gathered its sends, failed or not. *)
SaveCheckpoint == Save({"done"})
-----------------------------------------------------------------------------
(* The producer's thread. *)
BrokerTakes ==
  /\ local # <<>>
  /\ broker' = Append(broker, Head(local))
  /\ local' = Tail(local)
  /\ UNCHANGED <<type, handle, processing, checkpoint, record, misplaced, histories, bounds>>

(* Rejected, or timed out in the queue: no delivery callback, nobody knows. *)
BrokerRejects ==
  /\ local # <<>> /\ faults < MaxFaults
  /\ faults' = faults + 1
  /\ local' = Tail(local)
  /\ UNCHANGED <<type, handle, processing, checkpoint, record, broker, misplaced, histories, crashes,
                 reloads>>

(* apply_snapshot stops the channel: the flush blocks the process until    *)
(* the queue is empty, or for five seconds, and then what is left is lost  *)
(* with the producer.                                                      *)
Stop ==
  /\ handle = "open" /\ reloads < MaxReloads
  /\ reloads' = reloads + 1
  /\ handle' = "closed"
  /\ torn' = IF stage = "idle" THEN torn ELSE torn \cup {block}
  /\ \/ broker' = broker \o local /\ UNCHANGED faults
     \/ /\ local # <<>> /\ faults < MaxFaults
        /\ faults' = faults + 1 /\ UNCHANGED broker
  /\ local' = <<>>
  /\ UNCHANGED <<type, processing, checkpoint, record, misplaced, skipped, unrecorded, crashes>>

(* All channels are stopped: a new notifier, which starts its channels. *)
Replace ==
  /\ handle = "closed"
  /\ handle' = "absent" /\ fresh' = FALSE
  /\ UNCHANGED <<type, block, stage, attempt, checkpoint, record, local, broker, misplaced,
                 histories, bounds>>

Crash ==
  /\ crashes < MaxCrashes
  /\ crashes' = crashes + 1
  /\ handle' = "none" /\ local' = <<>>
  /\ block' = None /\ stage' = "idle" /\ fresh' = FALSE /\ attempt' = 0
  /\ UNCHANGED <<type, checkpoint, record, broker, misplaced, histories, faults, reloads>>

InitOf(t) ==
  /\ type = t
  /\ handle = "none" /\ block = None /\ stage = "idle" /\ fresh = FALSE /\ attempt = 0
  /\ checkpoint = 0
  /\ record = [b \in 1..NumBlocks |-> None]
  /\ local = <<>> /\ broker = <<>> /\ misplaced = {}
  /\ torn = {} /\ skipped = {} /\ unrecorded = {}
  /\ faults = 0 /\ crashes = 0 /\ reloads = 0

Init == \E t \in Types : InitOf(t)

Next ==
  \/ Start \/ Capture \/ Dispatch \/ BeginSend \/ ProduceKafka \/ Publish
  \/ PublishFails \/ LocalFull \/ NotStarted \/ WriteRecord \/ WriteRecordFails \/ SaveCheckpoint
  \/ BrokerTakes \/ BrokerRejects \/ Stop \/ Replace \/ Crash

Spec == Init /\ [][Next]_vars
-----------------------------------------------------------------------------
TypeOK ==
  /\ type \in Types
  /\ handle \in {"none", "open", "closed", "absent"}
  /\ block \in 1..NumBlocks \cup {None}
  /\ stage \in {"idle", "captured", "queued", "trying", "sent", "failed", "done"}
  /\ block = None <=> stage = "idle"
  /\ fresh \in BOOLEAN
  /\ attempt \in 0..MaxAttempts
  /\ checkpoint \in 0..NumBlocks
  /\ record \in [1..NumBlocks -> {None, "success", "failed"}]
  /\ Len(local) <= LocalSize
  /\ misplaced \cup torn \cup skipped \cup unrecorded \subseteq 1..NumBlocks
  /\ type # "kafka" => local = <<>>
  /\ faults \in 0..MaxFaults /\ crashes \in 0..MaxCrashes /\ reloads \in 0..MaxReloads

Kept(b) == b \in ToSet(broker) \cup ToSet(local)

(* At least once: a block that the checkpoint has passed is kept by the    *)
(* broker or its delivery is recorded as failed, whatever call fails and   *)
(* whenever the process crashes, for RabbitMQ and the shared Redis client. *)
(* Two exceptions: the row could not be written (unrecorded), and a reload *)
(* was under way between capture and dispatch, so that the notifier found  *)
(* no channel (skipped, which happens to torn blocks only).  The Kafka     *)
(* producer has only queued a message when send returns, and a channel     *)
(* with a client of its own falls back on the worker's Redis (misplaced)   *)
(* once it is stopped; beyond those exceptions they lose nothing without a *)
(* trace unless there is a crash, a rejection or a flush that runs out of  *)
(* time.                                                                   *)
CheckpointedIsKept ==
  /\ skipped \subseteq torn
  /\ \A b \in 1..checkpoint :
       \/ Kept(b) \/ record[b] = "failed" \/ b \in skipped \cup unrecorded
       \/ type \notin {"rabbitmq", "mq"} /\ (crashes > 0 \/ faults > 0 \/ b \in misplaced)
=============================================================================
