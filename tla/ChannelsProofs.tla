---------------------------- MODULE ChannelsProofs ----------------------------
(***************************************************************************)
(* What the notification channels promise, for every number of blocks,     *)
(* clients, channels, attempts, faults, crashes and reloads.               *)
(***************************************************************************)
EXTENDS Channels, TLAPS

-----------------------------------------------------------------------------
(* Sequences. *)

(* What sequences hold as sets: the empty one, *)
LEMMA EmptySet == ToSet(<<>>) = {}
  BY DEF ToSet

(* one with an element more, *)
LEMMA AppendSet ==
  ASSUME NEW S, NEW s \in Seq(S), NEW x \in S
  PROVE  Append(s, x) \in Seq(S) /\ ToSet(Append(s, x)) = ToSet(s) \cup {x}
<1>1. /\ Append(s, x) \in Seq(S) /\ Len(s) \in Nat /\ Len(Append(s, x)) = Len(s) + 1
      /\ \A i \in 1..Len(s) : Append(s, x)[i] = s[i]
      /\ Append(s, x)[Len(s) + 1] = x
      /\ DOMAIN s = 1..Len(s) /\ DOMAIN Append(s, x) = 1..(Len(s) + 1)
  OBVIOUS
<1>2. 1..(Len(s) + 1) = 1..Len(s) \cup {Len(s) + 1}
  BY <1>1
<1> QED BY <1>1, <1>2 DEF ToSet

(* one with its head taken off, *)
LEMMA TailSet ==
  ASSUME NEW S, NEW s \in Seq(S), s # <<>>
  PROVE  /\ Tail(s) \in Seq(S) /\ Head(s) \in S /\ ToSet(s) = {Head(s)} \cup ToSet(Tail(s))
<1>1. /\ Tail(s) \in Seq(S) /\ Len(s) \in Nat \ {0} /\ Len(Tail(s)) = Len(s) - 1
      /\ \A i \in 1..(Len(s) - 1) : Tail(s)[i] = s[i + 1]
      /\ Head(s) = s[1] /\ s[1] \in S
      /\ DOMAIN s = 1..Len(s) /\ DOMAIN Tail(s) = 1..(Len(s) - 1)
  OBVIOUS
<1>2. ASSUME NEW i \in 1..Len(s) PROVE s[i] \in {Head(s)} \cup ToSet(Tail(s))
  <2>1. CASE i = 1
    BY <1>1, <2>1
  <2>2. CASE i # 1
    <3>1. i - 1 \in 1..(Len(s) - 1) /\ (i - 1) + 1 = i
      BY <1>1, <2>2
    <3>2. Tail(s)[i - 1] = s[i]
      BY <1>1, <3>1
    <3> QED BY <1>1, <3>1, <3>2 DEF ToSet
  <2> QED BY <2>1, <2>2
<1>3. ASSUME NEW i \in 1..(Len(s) - 1) PROVE Tail(s)[i] \in ToSet(s)
  <2>1. i + 1 \in 1..Len(s) /\ Tail(s)[i] = s[i + 1]
    BY <1>1
  <2> QED BY <1>1, <2>1 DEF ToSet
<1>4. Head(s) \in ToSet(s)
  <2>1. 1 \in 1..Len(s)
    BY <1>1
  <2> QED BY <1>1, <2>1 DEF ToSet
<1>5. ToSet(s) \subseteq {Head(s)} \cup ToSet(Tail(s))
  BY <1>1, <1>2 DEF ToSet
<1>6. ToSet(Tail(s)) \subseteq ToSet(s)
  BY <1>1, <1>3 DEF ToSet
<1> QED BY <1>1, <1>4, <1>5, <1>6

(* and two, one after the other. *)
LEMMA ConcatSet ==
  ASSUME NEW S, NEW s \in Seq(S), NEW t \in Seq(S)
  PROVE  s \o t \in Seq(S) /\ ToSet(s \o t) = ToSet(s) \cup ToSet(t)
<1>1. /\ s \o t \in Seq(S) /\ Len(s) \in Nat /\ Len(t) \in Nat /\ Len(s \o t) = Len(s) + Len(t)
      /\ \A i \in 1..(Len(s) + Len(t)) : (s \o t)[i] = IF i <= Len(s) THEN s[i] ELSE t[i - Len(s)]
      /\ DOMAIN s = 1..Len(s) /\ DOMAIN t = 1..Len(t) /\ DOMAIN (s \o t) = 1..(Len(s) + Len(t))
  OBVIOUS
<1>2. ASSUME NEW i \in 1..(Len(s) + Len(t)) PROVE (s \o t)[i] \in ToSet(s) \cup ToSet(t)
  <2>1. CASE i <= Len(s)
    BY <1>1, <2>1 DEF ToSet
  <2>2. CASE ~(i <= Len(s))
    <3>1. i - Len(s) \in 1..Len(t) /\ (s \o t)[i] = t[i - Len(s)]
      BY <1>1, <2>2
    <3> QED BY <1>1, <3>1 DEF ToSet
  <2> QED BY <2>1, <2>2
<1>3. ASSUME NEW i \in 1..Len(s) PROVE s[i] \in ToSet(s \o t)
  <2>1. i \in 1..(Len(s) + Len(t)) /\ (s \o t)[i] = s[i]
    BY <1>1
  <2> QED BY <1>1, <2>1 DEF ToSet
<1>4. ASSUME NEW i \in 1..Len(t) PROVE t[i] \in ToSet(s \o t)
  <2>1. Len(s) + i \in 1..(Len(s) + Len(t)) /\ ~(Len(s) + i <= Len(s)) /\ (Len(s) + i) - Len(s) = i
    BY <1>1
  <2>2. (s \o t)[Len(s) + i] = t[i]
    BY <1>1, <2>1
  <2> QED BY <1>1, <2>1, <2>2 DEF ToSet
<1>5. ToSet(s \o t) \subseteq ToSet(s) \cup ToSet(t)
  BY <1>1, <1>2 DEF ToSet
<1>6. ToSet(s) \subseteq ToSet(s \o t)
  BY <1>1, <1>3 DEF ToSet
<1>7. ToSet(t) \subseteq ToSet(s \o t)
  BY <1>1, <1>4 DEF ToSet
<1> QED BY <1>1, <1>5, <1>6, <1>7
-----------------------------------------------------------------------------
(* BrokerChannels. *)

(* What CheckpointedIsKept says of one block: its send did what it can, or *)
(* it left a trace, or is excepted.                                        *)
Sent(b) ==
  \/ Kept(b)
  \/ type \notin {"rabbitmq", "mq"} /\ (crashes > 0 \/ faults > 0 \/ b \in misplaced)
Traced(b) == record[b] = "failed" \/ b \in skipped \cup unrecorded
Safe(b) == Sent(b) \/ Traced(b)

Stages == {"idle", "captured", "queued", "trying", "sent", "failed", "done"}

(* The block in hand is the one after the checkpoint; one no reload was    *)
(* under way for has captured a notifier that is open; and once its send   *)
(* has returned, or is done, it is as safe as those behind it.             *)
BrokerInv ==
  /\ checkpoint \in 0..NumBlocks /\ attempt \in Nat /\ stage \in Stages
  /\ stage # "idle" => block = checkpoint + 1 /\ block <= NumBlocks
  /\ record \in [1..NumBlocks -> {None, "success", "failed"}]
  /\ broker \in Seq(Nat) /\ local \in Seq(Nat) /\ (type # "kafka" => local = <<>>)
  /\ faults \in Nat /\ crashes \in Nat
  /\ skipped \subseteq torn
  /\ (stage # "idle" /\ block \notin torn) => fresh /\ handle = "open"
  /\ \A b \in 1..checkpoint : Safe(b)
  /\ stage = "sent" => Sent(block)
  /\ stage = "done" => Safe(block)

(* A message leaves the producer's queue for the broker, or is lost to a   *)
(* fault or a crash.                                                       *)
LEMMA KeptSteps ==
  ASSUME BrokerInv, Next
  PROVE  /\ broker' \in Seq(Nat) /\ local' \in Seq(Nat) /\ type' = type
         /\ type # "kafka" => local' = <<>>
         /\ faults' \in Nat /\ crashes' \in Nat
         /\ \A b : Sent(b) => Sent(b)'
<1>0. /\ stage # "idle" => block \in Nat
      /\ local \in Seq(Nat) /\ broker \in Seq(Nat) /\ (type # "kafka" => local = <<>>)
      /\ faults \in Nat /\ crashes \in Nat
  BY DEF BrokerInv
<1>a. ASSUME broker' \in Seq(Nat), local' \in Seq(Nat), type' = type,
             type # "kafka" => local' = <<>>,
             faults' \in {faults, faults + 1}, crashes' \in {crashes, crashes + 1},
             misplaced \subseteq misplaced',
             \A b : Kept(b) => Kept(b)' \/ (type = "kafka" /\ (faults' > 0 \/ crashes' > 0))
      PROVE  /\ broker' \in Seq(Nat) /\ local' \in Seq(Nat) /\ type' = type
             /\ type # "kafka" => local' = <<>>
             /\ faults' \in Nat /\ crashes' \in Nat
             /\ \A b : Sent(b) => Sent(b)'
  <2>1. faults' \in Nat /\ crashes' \in Nat /\ (faults > 0 => faults' > 0)
        /\ (crashes > 0 => crashes' > 0)
    BY <1>0, <1>a
  <2> QED BY <1>a, <2>1 DEF Sent
<1>1. CASE \/ Start \/ Capture \/ Dispatch \/ BeginSend \/ LocalFull \/ NotStarted
           \/ WriteRecord \/ WriteRecordFails \/ SaveCheckpoint \/ Replace
  <2>1. /\ UNCHANGED <<type, broker, local, misplaced, crashes>>
        /\ faults' \in {faults, faults + 1}
    BY <1>1 DEF Start, Capture, Dispatch, BeginSend, LocalFull, NotStarted, WriteRecord,
       WriteRecordFails, SaveCheckpoint, Save, Replace, processing, histories, bounds
  <2> QED BY <1>0, <1>a, <2>1 DEF Kept
<1>2. CASE ProduceKafka
  <2>1. /\ local' = Append(local, block) /\ block \in Nat /\ type = "kafka"
        /\ UNCHANGED <<type, broker, faults, crashes, misplaced>>
    BY <1>0, <1>2 DEF ProduceKafka, bounds
  <2>2. local' \in Seq(Nat) /\ ToSet(local') = ToSet(local) \cup {block}
    BY <1>0, <2>1, AppendSet
  <2>3. \A b : Kept(b) => Kept(b)'
    BY <2>1, <2>2 DEF Kept
  <2> QED BY <1>0, <1>a, <2>1, <2>2, <2>3
<1>3. CASE Publish \/ PublishFails
  <2>1. /\ broker' = broker \/ broker' = Append(broker, block)
        /\ block \in Nat /\ UNCHANGED <<type, local, crashes>>
        /\ misplaced \subseteq misplaced'
        /\ faults' = faults \/ faults' = faults + 1
    BY <1>0, <1>3 DEF Publish, PublishFails, Taken, bounds
  <2>2. broker' \in Seq(Nat) /\ ToSet(broker) \subseteq ToSet(broker')
    <3>1. /\ Append(broker, block) \in Seq(Nat)
          /\ ToSet(Append(broker, block)) = ToSet(broker) \cup {block}
      BY <1>0, <2>1, AppendSet
    <3> QED BY <1>0, <2>1, <3>1
  <2>3. \A b : Kept(b) => Kept(b)'
    BY <2>1, <2>2 DEF Kept
  <2> QED BY <1>0, <1>a, <2>1, <2>2, <2>3
<1>5. CASE BrokerTakes
  <2>1. /\ local # <<>> /\ broker' = Append(broker, Head(local)) /\ local' = Tail(local)
        /\ UNCHANGED <<type, faults, crashes, misplaced>>
    BY <1>5 DEF BrokerTakes, bounds
  <2>2. local' \in Seq(Nat) /\ Head(local) \in Nat /\ ToSet(local) = {Head(local)} \cup ToSet(local')
    BY <1>0, <2>1, TailSet
  <2>3. broker' \in Seq(Nat) /\ ToSet(broker') = ToSet(broker) \cup {Head(local)}
    BY <1>0, <2>1, <2>2, AppendSet
  <2>4. \A b : Kept(b) => Kept(b)'
    BY <2>2, <2>3 DEF Kept
  <2> QED BY <1>0, <1>a, <2>1, <2>2, <2>3, <2>4
<1>6. CASE BrokerRejects
  <2>1. /\ local # <<>> /\ local' = Tail(local) /\ faults' = faults + 1
        /\ UNCHANGED <<type, broker, crashes, misplaced>>
    BY <1>6 DEF BrokerRejects
  <2>2. local' \in Seq(Nat) /\ faults' > 0 /\ type = "kafka"
    BY <1>0, <2>1, TailSet
  <2> QED BY <1>0, <1>a, <2>1, <2>2
<1>7. CASE Stop
  <2>1. /\ \/ broker' = broker \o local /\ faults' = faults
           \/ local # <<>> /\ faults' = faults + 1 /\ broker' = broker
        /\ local' = <<>> /\ UNCHANGED <<type, crashes, misplaced>>
    BY <1>7 DEF Stop
  <2>2. broker \o local \in Seq(Nat) /\ ToSet(broker \o local) = ToSet(broker) \cup ToSet(local)
    BY <1>0, ConcatSet
  <2>3. broker' \in Seq(Nat) /\ local' \in Seq(Nat)
    <3>1. <<>> \in Seq(Nat)
      OBVIOUS
    <3>2. broker' = broker \o local \/ broker' = broker
      BY <2>1
    <3>3. broker' \in Seq(Nat)
      BY <1>0, <2>2, <3>2
    <3> QED BY <1>0, <2>1, <3>1, <3>3
  <2>4. \A b : Kept(b) => Kept(b)' \/ (type = "kafka" /\ faults' > 0)
    <3>1. CASE broker' = broker \o local
      BY <2>2, <3>1 DEF Kept
    <3>2. CASE local # <<>> /\ faults' = faults + 1
      BY <1>0, <3>2
    <3> QED BY <2>1, <3>1, <3>2
  <2> QED BY <1>0, <1>a, <2>1, <2>3, <2>4
<1>8. CASE Crash
  <2>1. crashes' = crashes + 1 /\ local' = <<>> /\ UNCHANGED <<type, broker, faults, misplaced>>
    BY <1>8 DEF Crash
  <2>2. local' \in Seq(Nat) /\ crashes' > 0
    BY <1>0, <2>1
  <2>3. \A b : Kept(b) => Kept(b)' \/ type = "kafka"
    BY <1>0, <2>1 DEF Kept
  <2> QED BY <1>0, <1>a, <2>1, <2>2, <2>3
<1> QED BY <1>1, <1>2, <1>3, <1>5, <1>6, <1>7, <1>8 DEF Next

(* BrokerInv is inductive. *)
LEMMA BrokerNext ==
  ASSUME BrokerInv, Next
  PROVE  BrokerInv'
<1>0. NumBlocks \in Nat /\ MaxAttempts \in Nat
  BY BrokerAssumption
<1>1. /\ broker' \in Seq(Nat) /\ local' \in Seq(Nat) /\ (type' # "kafka" => local' = <<>>)
      /\ faults' \in Nat /\ crashes' \in Nat
      /\ \A b : Sent(b) => Sent(b)'
  BY KeptSteps
<1> DEFINE Frame == /\ attempt' \in Nat /\ skipped' \subseteq torn'
                    /\ record' \in [1..NumBlocks -> {None, "success", "failed"}]
                    /\ (stage' # "idle" /\ block' \notin torn') => fresh' /\ handle' = "open"
<1>2. ASSUME Frame, checkpoint' = checkpoint, stage' \in Stages,
             stage' # "idle" => block' = checkpoint + 1 /\ checkpoint < NumBlocks,
             \A b \in 1..checkpoint : Traced(b) => Traced(b)',
             stage' = "sent" => Sent(block)', stage' = "done" => Safe(block)'
      PROVE  BrokerInv'
  <2>1. \A b \in 1..checkpoint' : Safe(b)'
    BY <1>1, <1>2 DEF BrokerInv, Safe
  <2>2. stage' # "idle" => block' = checkpoint' + 1 /\ block' <= NumBlocks
    BY <1>0, <1>2 DEF BrokerInv
  <2> QED BY <1>1, <1>2, <2>1, <2>2 DEF BrokerInv
<1>a. UNCHANGED <<record, skipped, unrecorded>> =>
        /\ \A b : Traced(b) => Traced(b)'
        /\ block' = block => (Traced(block) => Traced(block)')
  BY DEF Traced
<1>c. ASSUME block' = block
      PROVE  /\ stage = "sent" => Sent(block)'
             /\ (stage = "done" /\ (Traced(block) => Traced(block)')) => Safe(block)'
  <2>1. Sent(block) => Sent(block)'
    <3>1. PICK b : b = block
      OBVIOUS
    <3>2. Sent(b) => Sent(b)'
      BY <1>1
    <3> QED BY <1>c, <3>1, <3>2 DEF Sent, Kept
  <2> QED BY <2>1 DEF BrokerInv, Safe
<1>3. CASE Start \/ Replace \/ Stop \/ BrokerTakes \/ BrokerRejects
  <2>1. /\ UNCHANGED <<checkpoint, record, skipped, unrecorded, block, stage, attempt>>
        /\ torn \subseteq torn'
    BY <1>3 DEF Start, Replace, Stop, BrokerTakes, BrokerRejects, processing, histories
  <2>2. (stage # "idle" /\ block \notin torn') => fresh' /\ handle' = "open"
    BY <1>3 DEF Start, Replace, Stop, BrokerTakes, BrokerRejects, processing, histories, BrokerInv
  <2>3. stage = "sent" => Sent(block)'
    BY <1>c, <2>1
  <2>4. stage = "done" => Safe(block)'
    BY <1>c, <1>a, <2>1
  <2>5. stage # "idle" => checkpoint < NumBlocks
    BY <1>0 DEF BrokerInv
  <2>6. Frame
    BY <2>1, <2>2 DEF BrokerInv
  <2>7. stage' # "idle" => block' = checkpoint + 1 /\ checkpoint < NumBlocks
    BY <2>1, <2>5 DEF BrokerInv
  <2> QED BY <1>2, <1>a, <2>1, <2>3, <2>4, <2>6, <2>7 DEF BrokerInv
<1>4. CASE Capture
  <2>1. /\ block' = checkpoint + 1 /\ stage' = "captured" /\ fresh' /\ attempt' = 0
        /\ torn' = IF handle = "open" THEN torn \ {block'} ELSE torn \cup {block'}
        /\ skipped' = skipped \ {block'} /\ unrecorded' = unrecorded \ {block'}
        /\ checkpoint < NumBlocks /\ UNCHANGED <<checkpoint, record, handle>>
    BY <1>4 DEF Capture
  <2>2. \A b \in 1..checkpoint : b # block'
    BY <2>1 DEF BrokerInv
  <2>3. \A b \in 1..checkpoint : Traced(b) => Traced(b)'
    BY <2>1, <2>2 DEF Traced
  <2>4. Frame
    BY <2>1 DEF BrokerInv
  <2> QED BY <1>2, <2>1, <2>3, <2>4 DEF Stages
<1>b. ASSUME stage # "idle", UNCHANGED <<block, checkpoint, fresh, handle, torn>>
      PROVE  /\ block' = checkpoint + 1 /\ checkpoint < NumBlocks /\ block \in 1..NumBlocks
             /\ (stage' # "idle" /\ block' \notin torn') => fresh' /\ handle' = "open"
             /\ \A b \in 1..checkpoint : b # block
  BY <1>0, <1>b DEF BrokerInv
<1>5. CASE Dispatch
  <2>1. /\ stage = "captured" /\ UNCHANGED <<block, checkpoint, fresh, handle, torn, record, attempt, unrecorded>>
        /\ \/ stage' = "queued" /\ skipped' = skipped
           \/ /\ ~(fresh /\ handle # "absent")
              /\ stage' = "done" /\ skipped' = skipped \cup {block}
    BY <1>5 DEF Dispatch
  <2>2. skipped' \subseteq torn'
    BY <2>1 DEF BrokerInv
  <2>3. \A b \in 1..checkpoint : Traced(b) => Traced(b)'
    BY <2>1 DEF Traced
  <2>4. stage' = "done" => Safe(block)'
    BY <2>1 DEF Safe, Traced
  <2>5. Frame
    BY <1>b, <2>1, <2>2 DEF BrokerInv
  <2> QED BY <1>2, <1>b, <2>1, <2>3, <2>4, <2>5 DEF Stages
<1>6. CASE BeginSend \/ PublishFails \/ LocalFull \/ NotStarted
  <2>1. /\ stage \in {"queued", "trying"} /\ stage' \in {"trying", "failed"}
        /\ UNCHANGED <<block, checkpoint, fresh, handle, torn, record, skipped, unrecorded>>
        /\ attempt' \in {1, attempt, attempt + 1}
    BY <1>6 DEF BeginSend, PublishFails, LocalFull, NotStarted, AfterError, histories
  <2>2. Frame
    BY <1>b, <2>1 DEF BrokerInv
  <2> QED BY <1>2, <1>a, <1>b, <2>1, <2>2 DEF Stages
<1>7. CASE ProduceKafka \/ Publish
  <2>1. /\ stage = "trying" /\ stage' = "sent"
        /\ UNCHANGED <<block, checkpoint, fresh, handle, torn, record, skipped, unrecorded, attempt>>
    BY <1>7 DEF ProduceKafka, Publish, histories
  <2>2. block \in Nat /\ Frame
    BY <1>b, <2>1 DEF BrokerInv
  <2>3. Sent(block)'
    <3>1. CASE ProduceKafka
      <4>1. ToSet(local') = ToSet(local) \cup {block}
        <5>1. local' = Append(local, block) /\ local \in Seq(Nat)
          BY <3>1 DEF ProduceKafka, BrokerInv
        <5> QED BY <2>2, <5>1, AppendSet
      <4> QED BY <2>1, <4>1 DEF Sent, Kept
    <3>2. CASE Publish /\ broker' = Append(broker, block)
      <4>1. ToSet(broker') = ToSet(broker) \cup {block}
        <5>1. broker \in Seq(Nat)
          BY DEF BrokerInv
        <5>2. ToSet(Append(broker, block)) = ToSet(broker) \cup {block}
          BY <2>2, <5>1, AppendSet
        <5> QED BY <3>2, <5>2
      <4> QED BY <2>1, <4>1 DEF Sent, Kept
    <3>3. CASE Publish /\ type = "mq_own" /\ misplaced' = misplaced \cup {block}
      <4>1. type' = "mq_own" /\ block' \in misplaced'
        BY <2>1, <3>3 DEF Publish
      <4> QED BY <4>1 DEF Sent
    <3> QED BY <1>7, <3>1, <3>2, <3>3 DEF Publish, Taken
  <2> QED BY <1>2, <1>a, <1>b, <2>1, <2>2, <2>3 DEF Stages
<1>8. CASE WriteRecord
  <2> DEFINE result == IF stage = "sent" THEN "success" ELSE "failed"
  <2>1. /\ stage \in {"sent", "failed"} /\ stage' = "done"
        /\ record' = [record EXCEPT ![block] = result]
        /\ UNCHANGED <<block, checkpoint, fresh, handle, torn, skipped, unrecorded, attempt>>
    BY <1>8 DEF WriteRecord, histories
  <2>2. block \in 1..NumBlocks /\ \A b \in 1..checkpoint : b # block /\ b \in 1..NumBlocks
    BY <1>0, <1>b, <2>1 DEF BrokerInv
  <2>3. /\ record' \in [1..NumBlocks -> {None, "success", "failed"}] /\ record'[block] = result
        /\ \A b \in 1..checkpoint : record'[b] = record[b]
    BY <2>1, <2>2 DEF BrokerInv
  <2>4. \A b \in 1..checkpoint : Traced(b) => Traced(b)'
    BY <2>1, <2>3 DEF Traced
  <2>5. Safe(block)'
    <3>1. CASE stage = "sent"
      BY <1>c, <2>1, <3>1 DEF Safe
    <3>2. CASE stage = "failed"
      BY <2>1, <2>3, <3>2 DEF Safe, Traced
    <3> QED BY <2>1, <3>1, <3>2
  <2>6. Frame
    BY <1>b, <2>1, <2>3 DEF BrokerInv
  <2> QED BY <1>2, <1>b, <2>1, <2>4, <2>5, <2>6 DEF Stages
<1>9. CASE WriteRecordFails
  <2>1. /\ stage \in {"sent", "failed"} /\ stage' = "done" /\ unrecorded' = unrecorded \cup {block}
        /\ UNCHANGED <<block, checkpoint, fresh, handle, torn, skipped, record, attempt>>
    BY <1>9 DEF WriteRecordFails
  <2>2. (\A b \in 1..checkpoint : Traced(b) => Traced(b)') /\ Safe(block)'
    BY <2>1 DEF Traced, Safe
  <2>3. Frame
    BY <1>b, <2>1 DEF BrokerInv
  <2> QED BY <1>2, <1>b, <2>1, <2>2, <2>3 DEF Stages
<1>10. CASE SaveCheckpoint
  <2>1. /\ stage = "done" /\ checkpoint' = block /\ stage' = "idle" /\ attempt' = 0
        /\ UNCHANGED <<record, torn, skipped, unrecorded>>
    BY <1>10 DEF SaveCheckpoint, Save, histories
  <2>2. checkpoint' \in 0..NumBlocks /\ 1..checkpoint' = 1..checkpoint \cup {block}
    BY <1>0, <2>1 DEF BrokerInv
  <2>3. \A b \in 1..checkpoint' : Safe(b)
    BY <2>1, <2>2 DEF BrokerInv
  <2>4. \A b \in 1..checkpoint' : Safe(b)'
    BY <1>1, <1>a, <2>1, <2>3 DEF Safe
  <2> QED BY <1>1, <2>1, <2>2, <2>4 DEF BrokerInv, Stages
<1>11. CASE Crash
  <2>1. /\ stage' = "idle" /\ attempt' = 0
        /\ UNCHANGED <<checkpoint, record, torn, skipped, unrecorded>>
    BY <1>11 DEF Crash, histories
  <2> QED BY <1>2, <1>a, <2>1 DEF BrokerInv, Stages
<1> QED BY <1>3, <1>4, <1>5, <1>6, <1>7, <1>8, <1>9, <1>10, <1>11 DEF Next

(* At least once, for RabbitMQ and the shared Redis client: a block behind *)
(* the checkpoint is kept by the broker or recorded as failed, unless the  *)
(* row could not be written or a reload made the notifier skip the block.  *)
(* The Kafka producer and a Redis client of its own lose nothing more      *)
(* without a crash, a fault, or a reload under a send.                     *)
THEOREM KeptCorrect == ChannelsSpec => []CheckpointedIsKept
<1>1. ChannelsInit => BrokerInv
  <2> SUFFICES ASSUME ChannelsInit PROVE BrokerInv
    OBVIOUS
  <2>1. /\ stage = "idle" /\ attempt = 0 /\ checkpoint = 0 /\ record = [b \in 1..NumBlocks |-> None]
        /\ local = <<>> /\ broker = <<>> /\ faults = 0 /\ crashes = 0 /\ skipped = {}
    BY DEF ChannelsInit, InitOf
  <2> QED BY <2>1, BrokerAssumption DEF BrokerInv, Stages
<1>2. BrokerInv /\ [ChannelsNext]_channels => BrokerInv'
  <2> SUFFICES ASSUME BrokerInv, [ChannelsNext]_channels PROVE BrokerInv'
    OBVIOUS
  <2>1. CASE Next
    BY <2>1, BrokerNext
  <2>2. CASE UNCHANGED vars
    BY <2>2 DEF vars, BrokerInv, Safe, Sent, Traced, Kept
  <2> QED BY <2>1, <2>2 DEF ChannelsNext, BrokerStep, WsStep, HttpStep, channels
<1>3. BrokerInv => CheckpointedIsKept
  BY DEF BrokerInv, CheckpointedIsKept, Safe, Sent, Traced
<1> QED BY <1>1, <1>2, <1>3, PTL DEF ChannelsSpec
-----------------------------------------------------------------------------
(* Delivery: the notifier and its http channels. *)

ReloadRecord == [state : {"idle", "stopping", "starting"}, next : Nat]
BlockRecord == [number : 0..HttpBlocks, state : {"none", "captured", "dispatched"}, notifier : 0..MaxReloads]
SendStates == {"none", "skipped", "queued", "trying", "backoff", "sent", "failed", "aborted", "done"}
RowRecord == [status : {"none", "success", "failed"}, attempts : Nat]

(* Between reloads every channel of the current notifier is open, and a    *)
(* block no reload was under way for has captured that notifier.           *)
ReloadInv ==
  /\ notifier \in 0..MaxReloads
  /\ table \in [0..MaxReloads -> [HttpChannels -> {"absent", "open", "closed"}]]
  /\ reload \in ReloadRecord /\ httpBlock \in BlockRecord
  /\ reload.state = "stopping" => notifier < MaxReloads
  /\ reload.state = "idle" => \A c \in HttpChannels : table[notifier][c] = "open"
  /\ reload.state = "starting" => \A c \in HttpChannels : c < reload.next => table[notifier][c] = "open"
  /\ (httpBlock.state # "none" /\ httpBlock.number \notin httpTorn) =>
       reload.state = "idle" /\ httpBlock.notifier = notifier

(* The sends of the block in hand: one is skipped only when a reload was   *)
(* under way, and one that is done has left its row, unless it could not   *)
(* be written.                                                             *)
SendInv ==
  /\ httpSaved \in 0..HttpBlocks /\ httpFaults \in Nat
  /\ httpSend \in [HttpChannels -> SendStates]
  /\ httpRecord \in [(1..HttpBlocks) \X HttpChannels -> RowRecord]
  /\ httpBlock.state # "none" => httpBlock.number = httpSaved + 1 /\ httpBlock.number \in 1..HttpBlocks
  /\ httpBlock.state # "dispatched" => \A c \in HttpChannels : httpSend[c] = "none"
  /\ \A c \in HttpChannels :
       /\ httpSend[c] = "skipped" => httpBlock.number \in httpTorn
       /\ httpSend[c] = "sent" => <<httpBlock.number, c>> \in accepted
       /\ httpSend[c] = "done" /\ httpFaults = 0 => Http!Accounted(httpBlock.number, c)
  /\ CheckpointedIsAccounted

(* The assumptions on the constants of the HTTP channels. *)
LEMMA HttpConstants ==
  /\ HttpBlocks \in Nat /\ MaxReloads \in Nat /\ MaxAttempts \in Nat
  /\ Http!LastChannel \in Nat /\ HttpChannels = 1..Http!LastChannel
  BY HttpAssumption DEF Http!DeliveryAssumption, Http!LastChannel

(* Steps that leave the reload, and the block in hand, alone. *)
LEMMA HttpSteps ==
  ASSUME Http!Next
  PROVE  \/ Http!ReloadBegin \/ Http!StopChannel \/ Http!ReplaceNotifier \/ Http!StartChannel
         \/ Http!Capture \/ Http!Dispatch \/ Http!SaveCheckpoint
         \/ \E c \in HttpChannels :
              /\ \/ Http!BeginSend(c) \/ Http!AttemptSucceeds(c) \/ Http!AttemptFails(c)
                 \/ Http!AttemptAborts(c) \/ Http!Retry(c) \/ Http!WriteRecord(c)
                 \/ Http!WriteRecordFails(c)
              /\ UNCHANGED <<notifier, table, reload, httpBlock, httpTorn, httpSaved>>
<1>1. ASSUME NEW c \in HttpChannels,
             \/ Http!BeginSend(c) \/ Http!AttemptSucceeds(c) \/ Http!AttemptFails(c)
             \/ Http!AttemptAborts(c) \/ Http!Retry(c) \/ Http!WriteRecord(c)
             \/ Http!WriteRecordFails(c)
      PROVE  UNCHANGED <<notifier, table, reload, httpBlock, httpTorn, httpSaved>>
  BY <1>1 DEF Http!BeginSend, Http!AttemptSucceeds, Http!AttemptFails, Http!AttemptAborts, Http!Retry,
              Http!WriteRecord, Http!WriteRecordFails
<1> QED BY <1>1 DEF Http!Next, Http!Progress, Http!Reload, Http!BlockStep, Http!Sending

(* ReloadInv is inductive: an untorn block holds the open notifier. *)
LEMMA ReloadNext ==
  ASSUME ReloadInv, SendInv, Http!Next
  PROVE  ReloadInv'
<1>0. /\ notifier \in 0..MaxReloads /\ MaxReloads \in Nat /\ HttpBlocks \in Nat
      /\ table \in [0..MaxReloads -> [HttpChannels -> {"absent", "open", "closed"}]]
      /\ reload \in ReloadRecord /\ httpBlock \in BlockRecord /\ httpSaved \in 0..HttpBlocks
      /\ reload.next \in Nat /\ reload.state \in {"idle", "stopping", "starting"}
      /\ HttpChannels = 1..Http!LastChannel /\ Http!LastChannel \in Nat
  BY HttpConstants DEF ReloadInv, SendInv, ReloadRecord
<1>1. CASE Http!ReloadBegin
  <2>1. /\ reload.state = "idle" /\ notifier < MaxReloads /\ reload' = [state |-> "stopping", next |-> 1]
        /\ httpTorn' = httpTorn \cup Http!InHand /\ UNCHANGED <<notifier, table, httpBlock>>
    BY <1>1 DEF Http!ReloadBegin
  <2>2. reload'.state = "stopping" /\ reload' \in ReloadRecord
    BY <2>1 DEF ReloadRecord
  <2>3. httpBlock.state # "none" => httpBlock.number \in httpTorn'
    BY <2>1 DEF Http!InHand
  <2> QED BY <1>0, <2>1, <2>2, <2>3 DEF ReloadInv
<1>2. CASE Http!StopChannel
  <2> DEFINE n == IF reload.next < Http!LastChannel THEN reload.next + 1 ELSE reload.next
  <2>0. n \in Nat
    BY <1>0
  <2>1. /\ reload.state = "stopping" /\ table' = [table EXCEPT ![notifier][reload.next] = "closed"]
        /\ UNCHANGED <<notifier, httpBlock, httpTorn>>
        /\ reload' = [reload EXCEPT !.next = n]
    BY <1>2 DEF Http!StopChannel
  <2> HIDE DEF n
  <2>2. reload' \in ReloadRecord /\ reload'.state = reload.state
    BY <1>0, <2>0, <2>1 DEF ReloadRecord
  <2>3. table' \in [0..MaxReloads -> [HttpChannels -> {"absent", "open", "closed"}]]
    BY <1>0, <2>1
  <2> QED BY <1>0, <2>1, <2>2, <2>3 DEF ReloadInv
<1>3. CASE Http!ReplaceNotifier
  <2>1. /\ reload.state = "stopping" /\ notifier' = notifier + 1
        /\ table' = [table EXCEPT ![notifier] = [c \in HttpChannels |-> "absent"]]
        /\ reload' = [state |-> "starting", next |-> 1] /\ UNCHANGED <<httpBlock, httpTorn>>
    BY <1>3 DEF Http!ReplaceNotifier
  <2>2. reload' \in ReloadRecord /\ reload'.state = "starting" /\ reload'.next = 1
    BY <2>1 DEF ReloadRecord
  <2>3. table' \in [0..MaxReloads -> [HttpChannels -> {"absent", "open", "closed"}]]
    BY <1>0, <2>1
  <2>4. notifier' \in 0..MaxReloads
    BY <1>0, <2>1 DEF ReloadInv
  <2>5. \A c \in HttpChannels : ~(c < 1)
    BY <1>0
  <2> QED BY <1>0, <2>1, <2>2, <2>3, <2>4, <2>5 DEF ReloadInv
<1>4. CASE Http!StartChannel
  <2>1. /\ reload.state = "starting" /\ table' = [table EXCEPT ![notifier][reload.next] = "open"]
        /\ UNCHANGED <<notifier, httpBlock, httpTorn>>
        /\ reload' = IF reload.next < Http!LastChannel THEN [reload EXCEPT !.next = @ + 1]
                     ELSE [state |-> "idle", next |-> 1]
    BY <1>4 DEF Http!StartChannel
  <2>2. table' \in [0..MaxReloads -> [HttpChannels -> {"absent", "open", "closed"}]]
    BY <1>0, <2>1
  <2>3. \A c \in HttpChannels : c <= reload.next => table'[notifier][c] = "open"
    <3> SUFFICES ASSUME NEW c \in HttpChannels, c <= reload.next PROVE table'[notifier][c] = "open"
      OBVIOUS
    <3>1. c < reload.next => table[notifier][c] = "open"
      BY <2>1 DEF ReloadInv
    <3>2. c = reload.next \/ c < reload.next
      BY <1>0
    <3> QED BY <1>0, <2>1, <3>1, <3>2
  <2>4. CASE reload.next < Http!LastChannel
    <3>1. reload' \in ReloadRecord /\ reload'.state = "starting" /\ reload'.next = reload.next + 1
      BY <1>0, <2>1, <2>4 DEF ReloadRecord
    <3>2. \A c \in HttpChannels : c < reload.next + 1 => c <= reload.next
      BY <1>0
    <3> QED BY <1>0, <2>1, <2>2, <2>3, <3>1, <3>2 DEF ReloadInv
  <2>5. CASE ~(reload.next < Http!LastChannel)
    <3>1. reload' \in ReloadRecord /\ reload'.state = "idle"
      BY <2>1, <2>5 DEF ReloadRecord
    <3>2. \A c \in HttpChannels : c <= reload.next
      BY <1>0, <2>5
    <3>3. httpBlock.state # "none" => httpBlock.number \in httpTorn
      BY <2>1 DEF ReloadInv
    <3> QED BY <1>0, <2>1, <2>2, <2>3, <3>1, <3>2, <3>3 DEF ReloadInv
  <2> QED BY <2>4, <2>5
<1>5. CASE Http!Capture
  <2>1. /\ httpSaved < HttpBlocks
        /\ httpBlock' = [number |-> httpSaved + 1, state |-> "captured", notifier |-> notifier]
        /\ httpTorn' = (IF reload.state = "idle" THEN httpTorn ELSE httpTorn \cup {httpSaved + 1})
        /\ UNCHANGED <<notifier, table, reload>>
    BY <1>5 DEF Http!Capture
  <2>2. /\ httpBlock' \in BlockRecord /\ httpBlock'.number = httpSaved + 1
        /\ httpBlock'.notifier = notifier
    BY <1>0, <2>1 DEF BlockRecord
  <2> QED BY <1>0, <2>1, <2>2 DEF ReloadInv
<1>6. CASE Http!Dispatch \/ Http!SaveCheckpoint
  <2>1. /\ httpBlock.state # "none" /\ UNCHANGED <<notifier, table, reload, httpTorn>>
        /\ \E s \in {"none", "dispatched"} : httpBlock' = [httpBlock EXCEPT !.state = s]
    BY <1>6 DEF Http!Dispatch, Http!SaveCheckpoint
  <2>2. /\ httpBlock' \in BlockRecord /\ httpBlock'.number = httpBlock.number
        /\ httpBlock'.notifier = httpBlock.notifier
    BY <1>0, <2>1 DEF BlockRecord
  <2> QED BY <2>1, <2>2 DEF ReloadInv
<1>7. CASE UNCHANGED <<notifier, table, reload, httpBlock, httpTorn>>
  BY <1>7 DEF ReloadInv
<1> QED BY <1>1, <1>2, <1>3, <1>4, <1>5, <1>6, <1>7, HttpSteps

(* What was accounted for stays so, as long as its row is not rewritten. *)
LEMMA AccountedStays ==
  ASSUME NEW b, NEW c, Http!Accounted(b, c), accepted \subseteq accepted',
         httpRecord'[<<b, c>>] = httpRecord[<<b, c>>]
  PROVE  Http!Accounted(b, c)'
  BY DEF Http!Accounted, Http!Row

(* SendInv is inductive: a send that is done has left its row. *)
LEMMA SendNext ==
  ASSUME ReloadInv, SendInv, Http!Next
  PROVE  SendInv'
<1>0. /\ HttpBlocks \in Nat /\ httpSaved \in 0..HttpBlocks /\ httpFaults \in Nat
      /\ httpSend \in [HttpChannels -> SendStates]
      /\ httpRecord \in [(1..HttpBlocks) \X HttpChannels -> RowRecord]
      /\ httpBlock \in BlockRecord /\ httpBlock.state \in {"none", "captured", "dispatched"}
  BY HttpConstants DEF ReloadInv, SendInv, BlockRecord
<1>k. CheckpointedIsAccounted
  BY DEF SendInv
<1> USE DEF CheckpointedIsAccounted, Http!CheckpointedIsAccounted
<1>a. ASSUME httpRecord' = httpRecord, accepted \subseteq accepted', httpTorn \subseteq httpTorn',
             httpSaved' = httpSaved, httpFaults' = httpFaults
      PROVE  CheckpointedIsAccounted'
  <2>1. \A b \in 1..HttpBlocks, c \in HttpChannels :
          Http!Row(b, c)'.status = "success" => <<b, c>> \in accepted'
    BY <1>a, <1>k DEF Http!Row, Http!Blocks
  <2>2. httpFaults = 0 => \A b \in (1..httpSaved') \ httpTorn', c \in HttpChannels : Http!Accounted(b, c)'
    BY <1>a, <1>k, AccountedStays
  <2> QED BY <1>a, <2>1, <2>2 DEF Http!Blocks
<1>1. CASE Http!ReloadBegin \/ Http!StopChannel \/ Http!ReplaceNotifier \/ Http!StartChannel
  <2>1. /\ httpTorn \subseteq httpTorn'
        /\ UNCHANGED <<httpBlock, httpSend, httpSaved, accepted, httpRecord, httpFaults>>
    BY <1>1 DEF Http!ReloadBegin, Http!StopChannel, Http!ReplaceNotifier, Http!StartChannel
  <2>2. CheckpointedIsAccounted'
    BY <1>a, <2>1
  <2>3. \A c \in HttpChannels : Http!Accounted(httpBlock.number, c) => Http!Accounted(httpBlock.number, c)'
    BY <2>1 DEF Http!Accounted, Http!Row
  <2> QED BY <2>1, <2>2, <2>3 DEF SendInv
<1>2. CASE Http!Capture
  <2>1. /\ httpBlock.state = "none" /\ httpSaved < HttpBlocks
        /\ httpBlock' = [number |-> httpSaved + 1, state |-> "captured", notifier |-> notifier]
        /\ httpTorn \subseteq httpTorn' /\ UNCHANGED <<httpSend, httpSaved, accepted, httpRecord, httpFaults>>
    BY <1>2 DEF Http!Capture
  <2>2. /\ httpBlock'.number = httpSaved + 1 /\ httpBlock'.state = "captured"
        /\ httpSaved + 1 \in 1..HttpBlocks
    BY <1>0, <2>1
  <2>3. \A c \in HttpChannels : httpSend'[c] = "none"
    BY <2>1 DEF SendInv
  <2>4. CheckpointedIsAccounted'
    BY <1>a, <2>1
  <2> QED BY <1>0, <2>1, <2>2, <2>3, <2>4 DEF SendInv
<1>3. CASE Http!Dispatch
  <2>1. /\ httpBlock.state = "captured" /\ httpBlock' = [httpBlock EXCEPT !.state = "dispatched"]
        /\ httpSend' = [c \in HttpChannels |-> IF table[httpBlock.notifier][c] = "absent"
                                               THEN "skipped" ELSE "queued"]
        /\ UNCHANGED <<table, httpTorn, httpSaved, accepted, httpRecord, httpFaults>>
    BY <1>3 DEF Http!Dispatch
  <2>2. httpBlock'.number = httpBlock.number /\ httpBlock'.state = "dispatched"
    BY <1>0, <2>1 DEF BlockRecord
  <2>3. httpSend' \in [HttpChannels -> SendStates]
    BY <2>1 DEF SendStates
  <2>4. \A c \in HttpChannels : httpSend'[c] = "skipped" => httpBlock.number \in httpTorn
    BY <2>1 DEF ReloadInv
  <2>5. \A c \in HttpChannels : httpSend'[c] \in {"skipped", "queued"}
    BY <2>1
  <2>6. CheckpointedIsAccounted'
    BY <1>a, <2>1
  <2> QED BY <1>0, <2>1, <2>2, <2>3, <2>4, <2>5, <2>6 DEF SendInv
<1>4. CASE Http!SaveCheckpoint
  <2>1. /\ httpBlock.state = "dispatched" /\ Http!Finished /\ httpSaved' = httpBlock.number
        /\ httpBlock' = [httpBlock EXCEPT !.state = "none"] /\ httpSend' = [c \in HttpChannels |-> "none"]
        /\ UNCHANGED <<httpTorn, accepted, httpRecord, httpFaults>>
    BY <1>4 DEF Http!SaveCheckpoint, Http!NoSend
  <2>2. httpBlock'.state = "none"
    BY <1>0, <2>1 DEF BlockRecord
  <2>3. /\ httpSend' \in [HttpChannels -> SendStates] /\ \A c \in HttpChannels : httpSend'[c] = "none"
    BY <2>1 DEF SendStates
  <2>4. httpBlock.number = httpSaved + 1 /\ httpBlock.number \in 1..HttpBlocks
    BY <2>1 DEF SendInv
  <2>5. httpSaved' \in 0..HttpBlocks /\ 1..httpSaved' = 1..httpSaved \cup {httpBlock.number}
    BY <1>0, <2>1, <2>4
  <2>6. ASSUME httpFaults = 0, NEW b \in (1..httpSaved') \ httpTorn, NEW c \in HttpChannels
        PROVE  Http!Accounted(b, c)
    <3>1. CASE b \in 1..httpSaved
      BY <1>k, <2>6, <3>1
    <3>2. CASE b = httpBlock.number
      <4>1. httpSend[c] \in {"skipped", "done"}
        BY <2>1 DEF Http!Finished
      <4>2. httpSend[c] = "done"
        BY <2>6, <3>2, <4>1 DEF SendInv
      <4> QED BY <2>6, <3>2, <4>2 DEF SendInv
    <3> QED BY <2>5, <2>6, <3>1, <3>2
  <2>7. CheckpointedIsAccounted'
    <3>1. \A b \in 1..HttpBlocks, c \in HttpChannels :
            Http!Row(b, c)'.status = "success" => <<b, c>> \in accepted'
      BY <1>k, <2>1 DEF Http!Row, Http!Blocks
    <3>2. httpFaults = 0 => \A b \in (1..httpSaved') \ httpTorn', c \in HttpChannels : Http!Accounted(b, c)'
      BY <2>1, <2>6, AccountedStays
    <3> QED BY <2>1, <3>1, <3>2 DEF Http!Blocks
  <2> QED BY <1>0, <2>1, <2>2, <2>3, <2>5, <2>7 DEF SendInv
<1>5. ASSUME NEW c \in HttpChannels, NEW s \in SendStates \ {"none", "skipped"},
             httpSend' = [httpSend EXCEPT ![c] = s], httpSend[c] # "none",
             UNCHANGED <<httpBlock, httpTorn, httpSaved>>
      PROVE  /\ httpSend' \in [HttpChannels -> SendStates] /\ httpSend'[c] = s
             /\ \A d \in HttpChannels : d # c => httpSend'[d] = httpSend[d]
             /\ httpBlock.state = "dispatched" /\ httpBlock'.state = "dispatched"
             /\ httpBlock.number = httpSaved + 1 /\ httpBlock.number \in 1..HttpBlocks
             /\ \A d \in HttpChannels : httpSend'[d] = "skipped" => httpBlock.number \in httpTorn
  <2>1. /\ httpSend' \in [HttpChannels -> SendStates] /\ httpSend'[c] = s
        /\ \A d \in HttpChannels : d # c => httpSend'[d] = httpSend[d]
    BY <1>0, <1>5
  <2>2. httpBlock.state = "dispatched"
    BY <1>5 DEF SendInv
  <2> QED BY <1>5, <2>1, <2>2 DEF SendInv
<1>6. ASSUME NEW c \in HttpChannels, NEW s \in SendStates \ {"none", "skipped", "done"},
             httpSend' = [httpSend EXCEPT ![c] = s], httpSend[c] # "none",
             s = "sent" => <<httpBlock.number, c>> \in accepted',
             accepted \subseteq accepted', UNCHANGED <<httpBlock, httpTorn, httpSaved, httpRecord, httpFaults>>
      PROVE  SendInv'
  <2>1. /\ httpSend' \in [HttpChannels -> SendStates] /\ httpSend'[c] = s
        /\ \A d \in HttpChannels : d # c => httpSend'[d] = httpSend[d]
        /\ httpBlock'.state = "dispatched"
        /\ \A d \in HttpChannels : httpSend'[d] = "skipped" => httpBlock.number \in httpTorn
    BY <1>5, <1>6
  <2>2. CheckpointedIsAccounted'
    BY <1>6, <1>a
  <2>3. \A d \in HttpChannels : httpSend'[d] = "sent" => <<httpBlock.number, d>> \in accepted'
    BY <1>6, <2>1 DEF SendInv
  <2>4. \A d \in HttpChannels :
          httpSend'[d] = "done" /\ httpFaults = 0 => Http!Accounted(httpBlock.number, d)'
    <3> SUFFICES ASSUME NEW d \in HttpChannels, httpSend'[d] = "done", httpFaults = 0
                 PROVE  Http!Accounted(httpBlock.number, d)'
      OBVIOUS
    <3>1. httpSend[d] = "done"
      BY <1>6, <2>1
    <3>2. Http!Accounted(httpBlock.number, d)
      BY <3>1 DEF SendInv
    <3> QED BY <1>6, <3>2 DEF Http!Accounted, Http!Row
  <2> QED BY <1>0, <1>6, <2>1, <2>2, <2>3, <2>4 DEF SendInv
<1>7. ASSUME NEW c \in HttpChannels, UNCHANGED <<httpBlock, httpTorn, httpSaved>>,
             \/ Http!BeginSend(c) \/ Http!AttemptSucceeds(c) \/ Http!AttemptFails(c)
             \/ Http!AttemptAborts(c) \/ Http!Retry(c)
      PROVE  SendInv'
  <2>1. CASE Http!AttemptSucceeds(c)
    <3>1. /\ httpSend' = [httpSend EXCEPT ![c] = "sent"] /\ httpSend[c] # "none"
          /\ accepted' = accepted \cup {<<httpBlock.number, c>>} /\ UNCHANGED <<httpRecord, httpFaults>>
      BY <2>1 DEF Http!AttemptSucceeds, Http!Receive
    <3> QED BY <1>6, <1>7, <3>1 DEF SendStates
  <2>2. CASE Http!BeginSend(c) \/ Http!AttemptFails(c) \/ Http!AttemptAborts(c) \/ Http!Retry(c)
    <3>1. /\ \E s \in {"trying", "aborted", "backoff", "failed"} : httpSend' = [httpSend EXCEPT ![c] = s]
          /\ httpSend[c] # "none" /\ accepted \subseteq accepted' /\ UNCHANGED <<httpRecord, httpFaults>>
      BY <2>2 DEF Http!BeginSend, Http!AttemptFails, Http!AttemptAborts, Http!Retry, Http!Receive,
                  Http!AfterError
    <3> QED BY <1>6, <1>7, <3>1 DEF SendStates
  <2> QED BY <1>7, <2>1, <2>2
<1>8. ASSUME NEW c \in HttpChannels, Http!WriteRecord(c), UNCHANGED <<httpBlock, httpTorn, httpSaved>>
      PROVE  SendInv'
  <2> DEFINE p == <<httpBlock.number, c>>
             o == Http!Outcome(c)
  <2>1. /\ httpRecord' = [httpRecord EXCEPT ![p] = o] /\ httpSend' = [httpSend EXCEPT ![c] = "done"]
        /\ httpSend[c] \in {"sent", "failed", "aborted"} /\ UNCHANGED <<accepted, httpFaults>>
    BY <1>8 DEF Http!WriteRecord, Http!Ended
  <2>2. /\ httpSend' \in [HttpChannels -> SendStates] /\ httpSend'[c] = "done"
        /\ \A d \in HttpChannels : d # c => httpSend'[d] = httpSend[d]
        /\ httpBlock.state = "dispatched" /\ httpBlock'.state = "dispatched"
        /\ httpBlock.number = httpSaved + 1 /\ httpBlock.number \in 1..HttpBlocks
        /\ \A d \in HttpChannels : httpSend'[d] = "skipped" => httpBlock.number \in httpTorn
    BY <1>5, <1>8, <2>1 DEF SendStates
  <2>3. /\ o \in RowRecord /\ (o.status = "success" => p \in accepted)
        /\ o.status \in {"success", "failed"}
    <3>1. o = [status |-> IF httpSend[c] = "sent" THEN "success" ELSE "failed",
               attempts |-> IF httpSend[c] = "failed" THEN MaxAttempts ELSE 1]
      BY DEF Http!Outcome
    <3>2. httpSend[c] = "sent" => p \in accepted
      BY DEF SendInv
    <3> QED BY <3>1, <3>2, HttpConstants DEF RowRecord
  <2>4. p \in (1..HttpBlocks) \X HttpChannels
    BY <2>2
  <2> HIDE DEF o
  <2>5. /\ httpRecord' \in [(1..HttpBlocks) \X HttpChannels -> RowRecord] /\ httpRecord'[p] = o
        /\ \A q \in (1..HttpBlocks) \X HttpChannels : q # p => httpRecord'[q] = httpRecord[q]
    <3> HIDE DEF p
    <3> QED BY <1>0, <2>1, <2>3, <2>4
  <2>6. \A b \in 1..HttpBlocks, d \in HttpChannels :
          (b # httpBlock.number \/ d # c) => httpRecord'[<<b, d>>] = httpRecord[<<b, d>>]
    BY <2>5
  <2>7. Http!Accounted(httpBlock.number, c)'
    BY <1>8, <2>1, <2>3, <2>5 DEF Http!Accounted, Http!Row
  <2>8. \A d \in HttpChannels :
          httpSend'[d] = "done" /\ httpFaults = 0 => Http!Accounted(httpBlock.number, d)'
    <3> SUFFICES ASSUME NEW d \in HttpChannels, d # c, httpSend'[d] = "done", httpFaults = 0
                 PROVE  Http!Accounted(httpBlock.number, d)'
      BY <2>7
    <3>1. Http!Accounted(httpBlock.number, d)
      BY <2>2 DEF SendInv
    <3>2. httpRecord'[<<httpBlock.number, d>>] = httpRecord[<<httpBlock.number, d>>]
      BY <2>2, <2>6
    <3> QED BY <1>8, <2>1, <3>1, <3>2 DEF Http!Accounted, Http!Row
  <2>9. CheckpointedIsAccounted'
    <3>1. ASSUME NEW b \in 1..HttpBlocks, NEW d \in HttpChannels, httpRecord'[<<b, d>>].status = "success"
          PROVE  <<b, d>> \in accepted'
      <4>1. CASE b = httpBlock.number /\ d = c
        BY <2>1, <2>3, <2>5, <3>1, <4>1
      <4>2. CASE b # httpBlock.number \/ d # c
        BY <1>k, <2>1, <2>6, <3>1, <4>2 DEF Http!Row, Http!Blocks
      <4> QED BY <4>1, <4>2
    <3>2. ASSUME httpFaults = 0, NEW b \in (1..httpSaved) \ httpTorn, NEW d \in HttpChannels
          PROVE  Http!Accounted(b, d)'
      <4>1. b \in 1..HttpBlocks /\ b # httpBlock.number
        BY <1>0, <2>2
      <4>2. Http!Accounted(b, d)
        BY <1>k, <3>2
      <4> QED BY <2>1, <2>6, <4>1, <4>2, AccountedStays
    <3> QED BY <1>8, <2>1, <3>1, <3>2 DEF Http!Blocks, Http!Row
  <2>10. \A d \in HttpChannels : httpSend'[d] = "sent" => <<httpBlock.number, d>> \in accepted'
    BY <2>1, <2>2 DEF SendInv
  <2> QED BY <1>0, <1>8, <2>1, <2>2, <2>5, <2>8, <2>9, <2>10 DEF SendInv
<1>9. ASSUME NEW c \in HttpChannels, Http!WriteRecordFails(c), UNCHANGED <<httpBlock, httpTorn, httpSaved>>
      PROVE  SendInv'
  <2>1. /\ httpFaults' = httpFaults + 1 /\ httpSend' = [httpSend EXCEPT ![c] = "done"]
        /\ httpSend[c] # "none" /\ UNCHANGED <<accepted, httpRecord>>
    BY <1>9 DEF Http!WriteRecordFails, Http!Ended
  <2>2. httpFaults' \in Nat /\ httpFaults' # 0
    BY <1>0, <2>1
  <2>3. /\ httpSend' \in [HttpChannels -> SendStates] /\ httpSend'[c] = "done"
        /\ \A d \in HttpChannels : d # c => httpSend'[d] = httpSend[d]
        /\ httpBlock'.state = "dispatched"
        /\ \A d \in HttpChannels : httpSend'[d] = "skipped" => httpBlock.number \in httpTorn
    BY <1>5, <1>9, <2>1 DEF SendStates
  <2>4. CheckpointedIsAccounted'
    BY <1>k, <2>1, <2>2 DEF Http!Row, Http!Blocks
  <2>5. \A d \in HttpChannels : httpSend'[d] = "sent" => <<httpBlock.number, d>> \in accepted'
    BY <2>1, <2>3 DEF SendInv
  <2> QED BY <1>0, <1>9, <2>1, <2>2, <2>3, <2>4, <2>5 DEF SendInv
<1> QED BY <1>1, <1>2, <1>3, <1>4, <1>7, <1>8, <1>9, HttpSteps

(* The checkpoint passes a block only when each of its http notifications  *)
(* was accepted or left a failed record, except where a row could not be   *)
(* written or a reload was under way; and no delivery is shown as          *)
(* successful that its receiver did not accept.                            *)
THEOREM AccountedCorrect == ChannelsSpec => []CheckpointedIsAccounted
<1>1. ChannelsInit => ReloadInv /\ SendInv
  <2> SUFFICES ASSUME ChannelsInit PROVE ReloadInv /\ SendInv
    OBVIOUS
  <2>1. Http!Init
    BY DEF ChannelsInit
  <2>2. MaxReloads \in Nat /\ HttpBlocks \in Nat
    BY HttpConstants
  <2>3. /\ notifier = 0 /\ reload = [state |-> "idle", next |-> 1]
        /\ table = [n \in 0..MaxReloads |-> [c \in HttpChannels |-> IF n = 0 THEN "open" ELSE "absent"]]
        /\ httpBlock = [number |-> 0, state |-> "none", notifier |-> 0]
        /\ httpSend = [c \in HttpChannels |-> "none"] /\ httpSaved = 0 /\ accepted = {} /\ httpTorn = {}
        /\ httpRecord = [p \in (1..HttpBlocks) \X HttpChannels |-> [status |-> "none", attempts |-> 0]]
        /\ httpFaults = 0
    BY <2>1 DEF Http!Init, Http!Notifiers, Http!NoSend, Http!Blocks, Http!NoRecord
  <2>4. ReloadInv
    BY <2>2, <2>3 DEF ReloadInv, ReloadRecord, BlockRecord
  <2>5. [status |-> "none", attempts |-> 0] \in RowRecord
    BY DEF RowRecord
  <2>6. CheckpointedIsAccounted
    BY <2>3 DEF CheckpointedIsAccounted, Http!CheckpointedIsAccounted, Http!Row, Http!Blocks
  <2> QED BY <2>2, <2>3, <2>4, <2>5, <2>6 DEF SendInv, SendStates
<1>2. ReloadInv /\ SendInv /\ [ChannelsNext]_channels => ReloadInv' /\ SendInv'
  <2> SUFFICES ASSUME ReloadInv, SendInv, [ChannelsNext]_channels PROVE ReloadInv' /\ SendInv'
    OBVIOUS
  <2>1. CASE Http!Next
    BY <2>1, ReloadNext, SendNext
  <2>2. CASE UNCHANGED httpVars
    BY <2>2 DEF httpVars, ReloadInv, SendInv, CheckpointedIsAccounted, Http!CheckpointedIsAccounted,
                Http!Accounted, Http!Row
  <2> QED BY <2>1, <2>2 DEF ChannelsNext, BrokerStep, WsStep, HttpStep, channels
<1>3. SendInv => CheckpointedIsAccounted
  BY DEF SendInv
<1> QED BY <1>1, <1>2, <1>3, PTL DEF ChannelsSpec
-----------------------------------------------------------------------------
(* WsFanout: from Redis to the sockets. *)

(* Publications in the order of their numbers. *)
Rising(s) == \A i, j \in 1..Len(s) : i < j => s[i] < s[j]
Before(s, t) == \A x \in ToSet(s), y \in ToSet(t) : x < y

(* Rising sequences: the empty one, *)
LEMMA RisingEmpty == <<>> \in Seq(Nat) /\ Rising(<<>>) /\ \A t : Before(<<>>, t) /\ Before(t, <<>>)
<1>1. Len(<<>>) = 0 /\ <<>> \in Seq(Nat)
  OBVIOUS
<1> QED BY <1>1, EmptySet DEF Rising, Before

(* one before another, *)
LEMMA RisingConcat ==
  ASSUME NEW s \in Seq(Nat), NEW t \in Seq(Nat), Rising(s), Rising(t), Before(s, t)
  PROVE  Rising(s \o t)
<1> DEFINE r == s \o t
<1>1. /\ Len(s) \in Nat /\ Len(t) \in Nat /\ Len(r) = Len(s) + Len(t)
      /\ \A i \in 1..Len(r) : r[i] = IF i <= Len(s) THEN s[i] ELSE t[i - Len(s)]
      /\ DOMAIN s = 1..Len(s) /\ DOMAIN t = 1..Len(t)
  OBVIOUS
<1> SUFFICES ASSUME NEW i \in 1..Len(r), NEW j \in 1..Len(r), i < j PROVE r[i] < r[j]
  BY DEF Rising
<1> HIDE DEF r
<1>2. CASE j <= Len(s)
  <2>1. i \in 1..Len(s) /\ j \in 1..Len(s) /\ r[i] = s[i] /\ r[j] = s[j]
    BY <1>1, <1>2
  <2> QED BY <2>1 DEF Rising
<1>3. CASE i <= Len(s) /\ ~(j <= Len(s))
  <2>1. i \in 1..Len(s) /\ j - Len(s) \in 1..Len(t) /\ r[i] = s[i] /\ r[j] = t[j - Len(s)]
    BY <1>1, <1>3
  <2>2. r[i] \in ToSet(s) /\ r[j] \in ToSet(t)
    BY <1>1, <2>1 DEF ToSet
  <2> QED BY <2>2 DEF Before
<1>4. CASE ~(i <= Len(s)) /\ ~(j <= Len(s))
  <2>1. /\ i - Len(s) \in 1..Len(t) /\ j - Len(s) \in 1..Len(t) /\ i - Len(s) < j - Len(s)
        /\ r[i] = t[i - Len(s)] /\ r[j] = t[j - Len(s)]
    BY <1>1, <1>4
  <2> QED BY <2>1 DEF Rising
<1> QED BY <1>1, <1>2, <1>3, <1>4

(* one number, *)
LEMMA RisingOne == ASSUME NEW x \in Nat PROVE <<x>> \in Seq(Nat) /\ Rising(<<x>>) /\ ToSet(<<x>>) = {x}
<1>1. Len(<<x>>) = 1 /\ <<x>> \in Seq(Nat) /\ DOMAIN <<x>> = {1} /\ <<x>>[1] = x
  OBVIOUS
<1> QED BY <1>1 DEF Rising, ToSet

(* one with a larger number after it, *)
LEMMA RisingAppend ==
  ASSUME NEW s \in Seq(Nat), NEW x \in Nat, Rising(s), \A y \in ToSet(s) : y < x
  PROVE  Rising(Append(s, x))
<1>1. <<x>> \in Seq(Nat) /\ Rising(<<x>>) /\ Before(s, <<x>>)
  BY RisingOne DEF Before
<1>2. Append(s, x) = s \o <<x>>
  OBVIOUS
<1> QED BY <1>1, <1>2, RisingConcat

(* and one with its first number taken off. *)
LEMMA RisingTail ==
  ASSUME NEW s \in Seq(Nat), s # <<>>, Rising(s)
  PROVE  Rising(Tail(s)) /\ \A y \in ToSet(Tail(s)) : Head(s) < y
<1>1. /\ Len(s) \in Nat \ {0} /\ Len(Tail(s)) = Len(s) - 1 /\ Head(s) = s[1]
      /\ \A i \in 1..(Len(s) - 1) : Tail(s)[i] = s[i + 1]
      /\ DOMAIN Tail(s) = 1..(Len(s) - 1)
  OBVIOUS
<1>2. Rising(Tail(s))
  <2> SUFFICES ASSUME NEW i \in 1..(Len(s) - 1), NEW j \in 1..(Len(s) - 1), i < j
               PROVE  Tail(s)[i] < Tail(s)[j]
    BY <1>1 DEF Rising
  <2>1. i + 1 \in 1..Len(s) /\ j + 1 \in 1..Len(s) /\ i + 1 < j + 1
    BY <1>1
  <2> QED BY <1>1, <2>1 DEF Rising
<1>3. ASSUME NEW i \in 1..(Len(s) - 1) PROVE Head(s) < Tail(s)[i]
  <2>1. 1 \in 1..Len(s) /\ i + 1 \in 1..Len(s) /\ 1 < i + 1
    BY <1>1
  <2> QED BY <1>1, <2>1 DEF Rising
<1> QED BY <1>1, <1>2, <1>3 DEF ToSet

(* What a client has got (R), what is being sent to it (I), its queue (Q)  *)
(* and what was read for it (P) follow each other, and together are what   *)
(* it was due (D) of n publications and did not lose at a full queue (X).  *)
Flow(R, I, Q, P, D, X, n) ==
  /\ R \in Seq(Nat) /\ Rising(R) /\ I \in Seq(Nat) /\ Rising(I)
  /\ Q \in Seq(Nat) /\ Rising(Q) /\ P \in Seq(Nat) /\ Rising(P)
  /\ n \in Nat /\ D \in Seq(Nat) /\ X \in SUBSET Nat /\ \A x \in ToSet(D) \cup X : x <= n
  /\ Before(R, I) /\ Before(R, Q) /\ Before(R, P) /\ Before(I, Q) /\ Before(I, P) /\ Before(Q, P)
  /\ ToSet(R) \cup ToSet(I) \cup ToSet(Q) \cup ToSet(P) = ToSet(D) \ X

(* AppendSet for numbers. *)
LEMMA AppendNat ==
  ASSUME NEW s \in Seq(Nat), NEW x \in Nat
  PROVE  Append(s, x) \in Seq(Nat) /\ ToSet(Append(s, x)) = ToSet(s) \cup {x}
  BY AppendSet

(* The elements of a sequence of numbers are numbers. *)
LEMMA ToSetNat == ASSUME NEW s \in Seq(Nat) PROVE ToSet(s) \in SUBSET Nat
  BY DEF ToSet

(* Redis hands over the next publication; others are not subscribed. *)
LEMMA FlowPublish ==
  ASSUME NEW R, NEW I, NEW Q, NEW P, NEW D, NEW X, NEW n, Flow(R, I, Q, P, D, X, n)
  PROVE  /\ Flow(R, I, Q, Append(P, n + 1), Append(D, n + 1), X, n + 1)
         /\ Flow(R, I, Q, P, D, X, n + 1)
<1> USE DEF Flow
<1>0. n \in Nat /\ \A x \in ToSet(D) \cup X : x \in Nat /\ x <= n
  BY ToSetNat
<1>1. n + 1 \in Nat /\ \A x \in ToSet(D) \cup X : x < n + 1 /\ x <= n + 1
  BY ONLY <1>0
<1>2. /\ Append(P, n + 1) \in Seq(Nat) /\ ToSet(Append(P, n + 1)) = ToSet(P) \cup {n + 1}
      /\ Append(D, n + 1) \in Seq(Nat) /\ ToSet(Append(D, n + 1)) = ToSet(D) \cup {n + 1}
  <2>1. P \in Seq(Nat) /\ D \in Seq(Nat)
    OBVIOUS
  <2> QED BY ONLY <1>1, <2>1, AppendNat
<1>3. \A x \in ToSet(R) \cup ToSet(I) \cup ToSet(Q) \cup ToSet(P) : x < n + 1
  BY <1>1
<1>4. Rising(Append(P, n + 1))
  BY <1>1, <1>3, RisingAppend
<1>5. n + 1 \notin X
  BY <1>1
<1> HIDE DEF Flow
<1>6. Flow(R, I, Q, P, D, X, n + 1)
  BY <1>1 DEF Flow
<1>7. /\ Before(R, Append(P, n + 1)) /\ Before(I, Append(P, n + 1)) /\ Before(Q, Append(P, n + 1))
  BY <1>2, <1>3 DEF Before, Flow
<1>8. ToSet(R) \cup ToSet(I) \cup ToSet(Q) \cup ToSet(Append(P, n + 1)) = ToSet(Append(D, n + 1)) \ X
  BY <1>2, <1>5 DEF Flow
<1>9. \A x \in ToSet(Append(D, n + 1)) \cup X : x <= n + 1
  BY <1>1, <1>2
<1> QED BY <1>1, <1>2, <1>4, <1>6, <1>7, <1>8, <1>9 DEF Flow

(* The producer takes the next one, or drops it at a full queue. *)
LEMMA FlowProduce ==
  ASSUME NEW R, NEW I, NEW Q, NEW P, NEW D, NEW X, NEW n, Flow(R, I, Q, P, D, X, n), P # <<>>
  PROVE  /\ Flow(R, I, Append(Q, Head(P)), Tail(P), D, X, n)
         /\ Flow(R, I, Q, Tail(P), D, X \cup {Head(P)}, n)
<1> DEFINE h == Head(P)
           T == Tail(P)
           A == Append(Q, h)
<1>0. /\ R \in Seq(Nat) /\ I \in Seq(Nat) /\ Q \in Seq(Nat) /\ P \in Seq(Nat) /\ Rising(P) /\ Rising(Q)
  BY DEF Flow
<1>1. T \in Seq(Nat) /\ h \in Nat /\ ToSet(P) = {h} \cup ToSet(T)
  BY <1>0, TailSet
<1>2. Rising(T) /\ \A y \in ToSet(T) : h < y
  BY <1>0, RisingTail
<1>3. /\ \A x \in ToSet(R) : x < h
      /\ \A x \in ToSet(I) : x < h
      /\ \A x \in ToSet(Q) : x < h
  BY <1>1 DEF Flow, Before
<1>4. Before(R, T) /\ Before(I, T) /\ Before(Q, T)
  BY <1>1 DEF Flow, Before
<1> HIDE DEF h, T
<1>5. A \in Seq(Nat) /\ ToSet(A) = ToSet(Q) \cup {h}
  <2>1. \A x \in Nat : Append(Q, x) \in Seq(Nat) /\ ToSet(Append(Q, x)) = ToSet(Q) \cup {x}
    BY <1>0, AppendSet
  <2> QED BY <1>1, <2>1
<1>6. Rising(A)
  BY <1>0, <1>1, <1>3, RisingAppend
<1> HIDE DEF A
<1>7. Before(R, A) /\ Before(I, A) /\ Before(A, T)
  BY <1>2, <1>3, <1>4, <1>5 DEF Before, Flow
<1>8. ToSet(R) \cup ToSet(I) \cup ToSet(A) \cup ToSet(T) = ToSet(D) \ X
  BY <1>1, <1>5 DEF Flow
<1>9. Flow(R, I, A, T, D, X, n)
  BY <1>1, <1>2, <1>4, <1>5, <1>6, <1>7, <1>8 DEF Flow
<1>10. h \notin ToSet(R) /\ h \notin ToSet(I) /\ h \notin ToSet(Q) /\ h \notin ToSet(T)
  BY <1>1, <1>2, <1>3
<1>11. ToSet(R) \cup ToSet(I) \cup ToSet(Q) \cup ToSet(T) = ToSet(D) \ (X \cup {h})
  BY <1>1, <1>10 DEF Flow
<1>12. h \in ToSet(D)
  BY <1>1 DEF Flow
<1>13. X \cup {h} \in SUBSET Nat /\ \A x \in ToSet(D) \cup (X \cup {h}) : x <= n
  BY <1>1, <1>12 DEF Flow
<1>14. Flow(R, I, Q, T, D, X \cup {h}, n)
  BY <1>1, <1>2, <1>4, <1>11, <1>13 DEF Flow
<1> QED BY <1>9, <1>14 DEF h, T, A

(* The consumer takes the oldest of the queue ... *)
LEMMA FlowConsume ==
  ASSUME NEW R, NEW Q, NEW P, NEW D, NEW X, NEW n, Flow(R, <<>>, Q, P, D, X, n), Q # <<>>
  PROVE  Flow(R, <<Head(Q)>>, Tail(Q), P, D, X, n)
<1> DEFINE h == Head(Q)
           T == Tail(Q)
           I == <<h>>
<1>0. /\ R \in Seq(Nat) /\ Q \in Seq(Nat) /\ Rising(Q)
  BY DEF Flow
<1>1. T \in Seq(Nat) /\ h \in Nat /\ ToSet(Q) = {h} \cup ToSet(T)
  BY <1>0, TailSet
<1>2. Rising(T) /\ \A y \in ToSet(T) : h < y
  BY <1>0, RisingTail
<1>3. I \in Seq(Nat) /\ Rising(I) /\ ToSet(I) = {h}
  BY <1>1, RisingOne
<1>4. ToSet(<<>>) = {}
  BY EmptySet
<1> HIDE DEF h, T, I
<1>5. Before(R, I) /\ Before(R, T) /\ Before(I, T) /\ Before(I, P) /\ Before(T, P)
  BY <1>1, <1>2, <1>3 DEF Before, Flow
<1>6. ToSet(R) \cup ToSet(I) \cup ToSet(T) \cup ToSet(P) = ToSet(D) \ X
  BY <1>1, <1>3, <1>4 DEF Flow
<1>7. Flow(R, I, T, P, D, X, n)
  BY <1>1, <1>2, <1>3, <1>5, <1>6 DEF Flow
<1> QED BY <1>7 DEF h, T, I

(* ... and the client receives it. *)
LEMMA FlowSend ==
  ASSUME NEW R, NEW I, NEW Q, NEW P, NEW D, NEW X, NEW n, Flow(R, I, Q, P, D, X, n)
  PROVE  Flow(R \o I, <<>>, Q, P, D, X, n)
<1> DEFINE S == R \o I
<1>1. S \in Seq(Nat) /\ ToSet(S) = ToSet(R) \cup ToSet(I)
  BY ConcatSet DEF Flow
<1>2. Rising(S)
  BY RisingConcat DEF Flow
<1> HIDE DEF S
<1>3. Before(S, Q) /\ Before(S, P)
  BY <1>1 DEF Before, Flow
<1>4. ToSet(S) \cup ToSet(<<>>) \cup ToSet(Q) \cup ToSet(P) = ToSet(D) \ X
  BY <1>1, EmptySet DEF Flow
<1>5. Flow(S, <<>>, Q, P, D, X, n)
  BY <1>1, <1>2, <1>3, <1>4, RisingEmpty DEF Flow
<1> QED BY <1>5 DEF S

(* In one piece. *)
LEMMA FlowHeld ==
  ASSUME NEW R, NEW I, NEW Q, NEW P, NEW D, NEW X, NEW n, Flow(R, I, Q, P, D, X, n)
  PROVE  /\ R \o I \o Q \o P \in Seq(Nat) /\ Rising(R \o I \o Q \o P)
         /\ ToSet(R \o I \o Q \o P) = ToSet(D) \ X
<1> DEFINE S == R \o I
           T == S \o Q
           U == T \o P
<1>1. S \in Seq(Nat) /\ ToSet(S) = ToSet(R) \cup ToSet(I) /\ Rising(S)
  BY ConcatSet, RisingConcat DEF Flow
<1> HIDE DEF S
<1>2. Before(S, Q) /\ Before(S, P)
  BY <1>1 DEF Before, Flow
<1>3. T \in Seq(Nat) /\ ToSet(T) = ToSet(S) \cup ToSet(Q) /\ Rising(T)
  BY <1>1, <1>2, ConcatSet, RisingConcat DEF Flow
<1> HIDE DEF T
<1>4. Before(T, P)
  BY <1>2, <1>3 DEF Before, Flow
<1>5. U \in Seq(Nat) /\ ToSet(U) = ToSet(T) \cup ToSet(P) /\ Rising(U)
  BY <1>3, <1>4, ConcatSet, RisingConcat DEF Flow
<1>6. ToSet(U) = ToSet(D) \ X
  BY <1>1, <1>3, <1>5 DEF Flow
<1> QED BY <1>5, <1>6 DEF S, T, U

FlowInv ==
  /\ published \in Seq(Int) /\ message \in Int
  /\ DOMAIN received = Clients /\ DOMAIN inHand = Clients /\ DOMAIN queue = Clients
  /\ DOMAIN pending = Clients /\ DOMAIN due = Clients /\ DOMAIN dropped = Clients
  /\ \A c \in Clients : Flow(received[c], inHand[c], queue[c], pending[c], due[c], dropped[c],
                             Len(published))

(* FlowInv is inductive: a message only moves to the next place or is *)
(* dropped.                                                           *)
LEMMA FlowNext ==
  ASSUME FlowInv, Ws!Next
  PROVE  FlowInv'
<1>0. /\ published \in Seq(Int) /\ message \in Int
      /\ DOMAIN received = Clients /\ DOMAIN inHand = Clients /\ DOMAIN queue = Clients
      /\ DOMAIN pending = Clients /\ DOMAIN due = Clients /\ DOMAIN dropped = Clients
  BY DEF FlowInv
<1> DEFINE n == Len(published)
           F(c) == Flow(received[c], inHand[c], queue[c], pending[c], due[c], dropped[c], n)
<1>a. \A c \in Clients : F(c)
  BY DEF FlowInv
<1>1. CASE UNCHANGED <<published, received, inHand, queue, pending, due, dropped>> /\ message' \in Int
  BY <1>1 DEF FlowInv
<1>2. CASE Ws!Send \/ \E c \in Clients :
             Ws!Accept(c) \/ Ws!Leave(c) \/ Ws!Subscribe(c) \/ Ws!SendFails(c) \/ Ws!ProducerFails(c)
  <2>1. UNCHANGED <<published, received, inHand, queue, pending, due, dropped>>
    BY <1>2 DEF Ws!Send, Ws!Accept, Ws!Leave, Ws!Subscribe, Ws!SendFails, Ws!ProducerFails, Ws!End,
                Ws!flow, Ws!worker
  <2>2. message' \in Int
    BY <1>0, <1>2 DEF Ws!Send, Ws!Accept, Ws!Leave, Ws!Subscribe, Ws!SendFails, Ws!ProducerFails, Ws!End,
                      Ws!worker
  <2> QED BY <1>1, <2>1, <2>2
<1>3. CASE Ws!PublishOk \/ Ws!PublishFails
  <2>1. UNCHANGED <<message, received, inHand, queue, dropped>>
    BY <1>3 DEF Ws!PublishOk, Ws!PublishFails
  <2>2. CASE UNCHANGED <<published, due, pending>>
    BY <1>0, <1>1, <2>1, <2>2
  <2>3. CASE Ws!FanOut
    <3>1. /\ published' = Append(published, message)
          /\ due' = [c \in Clients |-> IF session[c] = "open" THEN Append(due[c], n + 1) ELSE due[c]]
          /\ pending' = [c \in Clients |-> IF session[c] = "open" THEN Append(pending[c], n + 1)
                                           ELSE pending[c]]
      BY <2>3 DEF Ws!FanOut
    <3>2. published' \in Seq(Int) /\ Len(published') = n + 1
      BY <1>0, <3>1
    <3> HIDE DEF n
    <3>3. ASSUME NEW c \in Clients
          PROVE  Flow(received[c], inHand[c], queue[c], pending'[c], due'[c], dropped[c], n + 1)
      <4>1. CASE session[c] = "open"
        BY <1>a, <3>1, <4>1, FlowPublish
      <4>2. CASE session[c] # "open"
        BY <1>a, <3>1, <4>2, FlowPublish
      <4> QED BY <4>1, <4>2
    <3>4. DOMAIN due' = Clients /\ DOMAIN pending' = Clients
      BY <3>1
    <3> QED BY <1>0, <2>1, <3>2, <3>3, <3>4 DEF FlowInv
  <2> QED BY <1>3, <2>2, <2>3 DEF Ws!PublishOk, Ws!PublishFails
<1>4. ASSUME NEW c \in Clients, Ws!Produce(c) PROVE FlowInv'
  <2>1. /\ pending[c] # <<>> /\ pending' = [pending EXCEPT ![c] = Tail(pending[c])] /\ Ws!Produced(c)
        /\ UNCHANGED <<published, message, due, inHand, received>>
    BY <1>4 DEF Ws!Produce, Ws!worker
  <2>2. \/ queue' = [queue EXCEPT ![c] = Append(queue[c], Head(pending[c]))] /\ dropped' = dropped
        \/ dropped' = [dropped EXCEPT ![c] = dropped[c] \cup {Head(pending[c])}] /\ queue' = queue
    BY <2>1 DEF Ws!Produced
  <2>3. /\ Flow(received[c], inHand[c], Append(queue[c], Head(pending[c])), Tail(pending[c]), due[c],
                dropped[c], n)
        /\ Flow(received[c], inHand[c], queue[c], Tail(pending[c]), due[c],
                dropped[c] \cup {Head(pending[c])}, n)
    <3> HIDE DEF n
    <3> QED BY <1>a, <2>1, FlowProduce
  <2> DEFINE t == Tail(pending[c])
             q == Append(queue[c], Head(pending[c]))
             x == dropped[c] \cup {Head(pending[c])}
  <2>4. /\ pending' = [pending EXCEPT ![c] = t]
        /\ \/ queue' = [queue EXCEPT ![c] = q] /\ dropped' = dropped
           \/ dropped' = [dropped EXCEPT ![c] = x] /\ queue' = queue
    BY <2>1, <2>2
  <2>5. /\ Flow(received[c], inHand[c], q, t, due[c], dropped[c], n)
        /\ Flow(received[c], inHand[c], queue[c], t, due[c], x, n)
    BY <2>3
  <2> HIDE DEF t, q, x, n
  <2>6. \A d \in Clients :
          Flow(received[d], inHand[d], queue'[d], pending'[d], due[d], dropped'[d], n)
    BY <1>0, <1>a, <2>4, <2>5
  <2>7. DOMAIN pending' = Clients /\ DOMAIN queue' = Clients /\ DOMAIN dropped' = Clients
    BY <1>0, <2>4
  <2> QED BY <1>0, <2>1, <2>6, <2>7 DEF FlowInv, n
<1>5. ASSUME NEW c \in Clients, Ws!Consume(c) PROVE FlowInv'
  <2> DEFINE h == <<Head(queue[c])>>
             t == Tail(queue[c])
  <2>1. /\ queue[c] # <<>> /\ inHand[c] = <<>>
        /\ inHand' = [inHand EXCEPT ![c] = h] /\ queue' = [queue EXCEPT ![c] = t]
        /\ UNCHANGED <<published, message, due, pending, received, dropped>>
    BY <1>5 DEF Ws!Consume, Ws!worker
  <2>2. Flow(received[c], h, t, pending[c], due[c], dropped[c], n)
    <3>1. Flow(received[c], <<>>, queue[c], pending[c], due[c], dropped[c], n)
      BY <1>a, <2>1
    <3> HIDE DEF n
    <3> QED BY <2>1, <3>1, FlowConsume
  <2> HIDE DEF h, t, n
  <2>3. \A d \in Clients :
          Flow(received[d], inHand'[d], queue'[d], pending[d], due[d], dropped[d], n)
    BY <1>0, <1>a, <2>1, <2>2
  <2>4. DOMAIN inHand' = Clients /\ DOMAIN queue' = Clients
    BY <1>0, <2>1
  <2> QED BY <1>0, <2>1, <2>3, <2>4 DEF FlowInv, n
<1>6. ASSUME NEW c \in Clients, Ws!SendText(c) PROVE FlowInv'
  <2> DEFINE r == received[c] \o inHand[c]
             e == <<>>
  <2>1. /\ received' = [received EXCEPT ![c] = r] /\ inHand' = [inHand EXCEPT ![c] = e]
        /\ UNCHANGED <<published, message, due, pending, queue, dropped>>
    BY <1>6 DEF Ws!SendText, Ws!worker
  <2>2. Flow(r, e, queue[c], pending[c], due[c], dropped[c], n)
    <3> HIDE DEF n
    <3> QED BY <1>a, FlowSend
  <2> HIDE DEF r, e, n
  <2>3. \A d \in Clients :
          Flow(received'[d], inHand'[d], queue[d], pending[d], due[d], dropped[d], n)
    BY <1>0, <1>a, <2>1, <2>2
  <2>4. DOMAIN inHand' = Clients /\ DOMAIN received' = Clients
    BY <1>0, <2>1
  <2> QED BY <1>0, <2>1, <2>3, <2>4 DEF FlowInv, n
<1> QED BY <1>2, <1>3, <1>4, <1>5, <1>6 DEF Ws!Next, Ws!Tasks

(* For every number of clients and every length of the queue: what was     *)
(* published since a client subscribed is, in order and once, received, in *)
(* the hands of its session or pending, except what met a full queue.      *)
THEOREM NothingLostCorrect == ChannelsSpec => []NothingLostInside
<1>1. ChannelsInit => FlowInv
  <2> SUFFICES ASSUME ChannelsInit PROVE FlowInv
    OBVIOUS
  <2>1. /\ message = 0 /\ published = <<>>
        /\ due = [c \in Clients |-> <<>>] /\ pending = [c \in Clients |-> <<>>]
        /\ queue = [c \in Clients |-> <<>>] /\ inHand = [c \in Clients |-> <<>>]
        /\ received = [c \in Clients |-> <<>>] /\ dropped = [c \in Clients |-> {}]
    BY DEF ChannelsInit, Ws!Init
  <2>2. Len(<<>>) = 0 /\ <<>> \in Seq(Int)
    OBVIOUS
  <2>3. Flow(<<>>, <<>>, <<>>, <<>>, <<>>, {}, 0)
    BY RisingEmpty, EmptySet DEF Flow
  <2> QED BY <2>1, <2>2, <2>3 DEF FlowInv
<1>2. FlowInv /\ [ChannelsNext]_channels => FlowInv'
  <2> SUFFICES ASSUME FlowInv, [ChannelsNext]_channels PROVE FlowInv'
    OBVIOUS
  <2>1. CASE Ws!Next
    BY <2>1, FlowNext
  <2>2. CASE UNCHANGED wsVars
    BY <2>2 DEF wsVars, FlowInv
  <2> QED BY <2>1, <2>2 DEF ChannelsNext, BrokerStep, WsStep, HttpStep, channels
<1>3. FlowInv => NothingLostInside
  <2> SUFFICES ASSUME FlowInv, NEW c \in Clients
               PROVE  /\ ToSet(Ws!Held(c)) = ToSet(due[c]) \ dropped[c]
                      /\ \A i, j \in DOMAIN Ws!Held(c) : i < j => Ws!Held(c)[i] < Ws!Held(c)[j]
    BY DEF NothingLostInside, Ws!NothingLostInside, Ws!ToSet, ToSet
  <2> DEFINE H == received[c] \o inHand[c] \o queue[c] \o pending[c]
  <2>1. Ws!Held(c) = H
    BY DEF Ws!Held
  <2>2. Flow(received[c], inHand[c], queue[c], pending[c], due[c], dropped[c], Len(published))
    BY DEF FlowInv
  <2>3. H \in Seq(Nat) /\ Rising(H) /\ ToSet(H) = ToSet(due[c]) \ dropped[c]
    BY <2>2, FlowHeld
  <2> HIDE DEF H
  <2>4. DOMAIN H = 1..Len(H)
    BY <2>3
  <2> QED BY <2>1, <2>3, <2>4 DEF Rising
<1> QED BY <1>1, <1>2, <1>3, PTL DEF ChannelsSpec
=============================================================================
