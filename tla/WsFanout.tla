------------------------------- MODULE WsFanout -------------------------------
(***************************************************************************)
(* From the worker's WebSocketChannel (core/notifier/websocket.py) through *)
(* a Redis pub/sub channel to the clients of the web server's /ws endpoint *)
(* (apps/web/routers/ws.py).  A session is two tasks around a bounded      *)
(* queue: the producer reads the subscription, the consumer writes to the  *)
(* socket.                                                                 *)
(*                                                                         *)
(* Every publication has a number of its own, so that a message published  *)
(* twice by the retries (the reply to a PUBLISH may be lost) is told apart. *)
(***************************************************************************)
EXTENDS Integers, Sequences, SequencesExt

CONSTANTS
  Clients,      \* WebSocket clients
  NumMessages,  \* bound: payloads the worker sends, one after the other
  MaxAttempts,  \* retry.max_attempts
  QueueSize,    \* _QUEUE_SIZE
  MaxFaults     \* bound: Redis calls and connections that fail

FanoutAssumption ==
  /\ NumMessages \in Nat /\ MaxFaults \in Nat
  /\ MaxAttempts \in Nat \ {0} /\ QueueSize \in Nat \ {0}

VARIABLES
  message,    \* the payload being sent
  attempt,    \* the attempt under way, 0 between sends
  published,  \* publication -> payload
  session,    \* client -> "away", "accepted", "open", "ended"
  gone,       \* clients that closed their end
  due,        \* history: publications since the client's subscription
  pending,    \* read from Redis for the client and not taken yet
  queue,      \* the session's asyncio.Queue
  inHand,     \* what the consumer is sending, at most one
  received,   \* what the client got
  dropped,    \* history: publications that met a full queue
  faults      \* bound

worker == <<message, attempt, published>>
flow == <<due, pending, queue, inHand, received, dropped>>
vars == <<worker, session, gone, flow, faults>>
-----------------------------------------------------------------------------
(* WebSocketChannel.send under retry_with_backoff. *)
Send ==
  /\ attempt = 0 /\ message < NumMessages
  /\ message' = message + 1
  /\ attempt' = 1
  /\ UNCHANGED <<published, session, gone, flow, faults>>

(* Redis hands the message to everyone who is subscribed at that moment. *)
FanOut ==
  LET k == Len(published) + 1 IN
  /\ published' = Append(published, message)
  /\ due' = [c \in Clients |-> IF session[c] = "open" THEN Append(due[c], k) ELSE due[c]]
  /\ pending' = [c \in Clients |-> IF session[c] = "open" THEN Append(pending[c], k) ELSE pending[c]]

PublishOk ==
  /\ attempt > 0
  /\ FanOut
  /\ attempt' = 0
  /\ UNCHANGED <<message, session, gone, queue, inHand, received, dropped, faults>>

AfterError == IF attempt < MaxAttempts THEN attempt + 1 ELSE 0

(* The call fails, before Redis has seen it or with only the reply lost. *)
PublishFails ==
  /\ attempt > 0 /\ faults < MaxFaults
  /\ faults' = faults + 1
  /\ attempt' = AfterError
  /\ \/ FanOut
     \/ UNCHANGED <<published, due, pending>>
  /\ UNCHANGED <<message, session, gone, queue, inHand, received, dropped>>
-----------------------------------------------------------------------------
(* ws_endpoint accepts the socket; the producer's subscription comes later. *)
Accept(c) ==
  /\ session[c] = "away"
  /\ session' = [session EXCEPT ![c] = "accepted"]
  /\ UNCHANGED <<worker, gone, flow, faults>>

Subscribe(c) ==
  /\ session[c] = "accepted"
  /\ session' = [session EXCEPT ![c] = "open"]
  /\ UNCHANGED <<worker, gone, flow, faults>>

MutantProduced(c) ==
  IF Len(queue[c]) < QueueSize
  THEN queue' = [queue EXCEPT ![c] = Append(@, Head(pending[c]))] /\ UNCHANGED dropped
  ELSE /\ queue' = [queue EXCEPT ![c] = Append(Tail(@), Head(pending[c]))]
       /\ dropped' = [dropped EXCEPT ![c] = @ \cup {Head(pending[c])}]

(* put_nowait: what meets a full queue is dropped, for this client only. *)
Produced(c) ==
  IF Len(queue[c]) < QueueSize
  THEN queue' = [queue EXCEPT ![c] = Append(@, Head(pending[c]))] /\ UNCHANGED dropped
  ELSE dropped' = [dropped EXCEPT ![c] = @ \cup {Head(pending[c])}] /\ UNCHANGED queue

Produce(c) ==
  /\ session[c] = "open" /\ pending[c] # <<>>
  /\ Produced(c)
  /\ pending' = [pending EXCEPT ![c] = Tail(@)]
  /\ UNCHANGED <<worker, session, gone, due, inHand, received, faults>>

Consume(c) ==
  /\ session[c] = "open" /\ queue[c] # <<>> /\ inHand[c] = <<>>
  /\ inHand' = [inHand EXCEPT ![c] = <<Head(queue[c])>>]
  /\ queue' = [queue EXCEPT ![c] = Tail(@)]
  /\ UNCHANGED <<worker, session, gone, due, pending, received, dropped, faults>>

SendText(c) ==
  /\ session[c] = "open" /\ inHand[c] # <<>> /\ c \notin gone
  /\ received' = [received EXCEPT ![c] = @ \o inHand[c]]
  /\ inHand' = [inHand EXCEPT ![c] = <<>>]
  /\ UNCHANGED <<worker, session, gone, due, pending, queue, dropped, faults>>

(* One task ends, the other is cancelled and the socket closed. *)
End(c) ==
  /\ session' = [session EXCEPT ![c] = "ended"]
  /\ UNCHANGED <<worker, gone, flow>>

MutantSendFails(c) ==
  /\ session[c] = "open" /\ inHand[c] # <<>> /\ c \in gone
  /\ inHand' = [inHand EXCEPT ![c] = <<>>]
  /\ UNCHANGED <<worker, session, gone, due, pending, queue, received, dropped, faults>>

(* send_text to a client that is gone raises. *)
SendFails(c) ==
  /\ session[c] = "open" /\ inHand[c] # <<>> /\ c \in gone
  /\ End(c) /\ UNCHANGED faults

(* The subscription breaks: the producer raises. *)
ProducerFails(c) ==
  /\ session[c] \in {"accepted", "open"} /\ faults < MaxFaults
  /\ faults' = faults + 1
  /\ End(c)

(* The client closes; nothing reads the socket, so nobody notices yet. *)
Leave(c) ==
  /\ session[c] \in {"accepted", "open"} /\ c \notin gone
  /\ gone' = gone \cup {c}
  /\ UNCHANGED <<worker, session, flow, faults>>

Init ==
  /\ message = 0 /\ attempt = 0 /\ published = <<>>
  /\ session = [c \in Clients |-> "away"]
  /\ gone = {}
  /\ due = [c \in Clients |-> <<>>]
  /\ pending = [c \in Clients |-> <<>>]
  /\ queue = [c \in Clients |-> <<>>]
  /\ inHand = [c \in Clients |-> <<>>]
  /\ received = [c \in Clients |-> <<>>]
  /\ dropped = [c \in Clients |-> {}]
  /\ faults = 0

Tasks(c) == Produce(c) \/ Consume(c) \/ SendText(c) \/ SendFails(c)

Next ==
  \/ Send \/ PublishOk \/ PublishFails
  \/ \E c \in Clients : Accept(c) \/ Leave(c) \/ Subscribe(c) \/ Tasks(c) \/ ProducerFails(c)

(* The event loop runs the tasks of a session; one that is ready runs. *)
Fairness == \A c \in Clients : WF_vars(Tasks(c))

Spec == Init /\ [][Next]_vars /\ Fairness
-----------------------------------------------------------------------------
TypeOK ==
  /\ message \in 0..NumMessages /\ attempt \in 0..MaxAttempts
  /\ published \in Seq(1..NumMessages)
  /\ session \in [Clients -> {"away", "accepted", "open", "ended"}]
  /\ gone \subseteq Clients
  /\ \A c \in Clients :
       /\ Len(queue[c]) <= QueueSize /\ Len(inHand[c]) <= 1
       /\ dropped[c] \subseteq 1..Len(published)
  /\ faults \in 0..MaxFaults

(* What the client got and what is on its way to it. *)
Held(c) == received[c] \o inHand[c] \o queue[c] \o pending[c]

(* Everything published since a client subscribed is, in order, received   *)
(* by it, in its session's hands, or was dropped: nothing is lost between  *)
(* the producer and the consumer, duplicated or overtaken.                 *)
NothingLostInside ==
  \A c \in Clients :
    /\ ToSet(Held(c)) = ToSet(due[c]) \ dropped[c]
    /\ \A i, j \in DOMAIN Held(c) : i < j => Held(c)[i] < Held(c)[j]

(* The session of a client that is gone ends once there is something *)
(* to send to it, and its subscription with it.                            *)
GoneClientIsClosed ==
  \A c \in Clients :
    c \in gone /\ session[c] = "open" /\ pending[c] # <<>> ~> session[c] = "ended"
=============================================================================
