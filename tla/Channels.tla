------------------------------- MODULE Channels -------------------------------
(***************************************************************************)
(* A notification channel is of one type of CHANNEL_REGISTRY, fixed when   *)
(* its row is created: the brokers of BrokerChannels; http, which Delivery *)
(* follows through the notifier, several channels at once; or websocket,   *)
(* whose publications go on to the sessions of WsFanout.                   *)
(***************************************************************************)
EXTENDS BrokerChannels

CONSTANTS
  Clients,      \* WebSocket clients
  NumMessages,  \* bound: payloads a websocket channel sends
  MaxWsFaults,  \* bound: Redis calls and connections of a websocket channel that fail
  QueueSize,    \* _QUEUE_SIZE of a session
  HttpChannels, \* http channels bound to the subscription, 1..n
  MaxConcurrency, \* the notifier's semaphore
  HttpBlocks,   \* bound: blocks processed
  MaxHttpFaults \* bound: delivery records that cannot be written

VARIABLES
  notifier, table, reload, httpBlock, httpSend, httpAttempt, httpSaved, accepted, httpRecord, httpTorn,
  httpFaults,
  message, wsAttempt, published, session, gone, due, pending, queue, inHand, received, dropped,
  wsFaults

Ws == INSTANCE WsFanout WITH
        attempt <- wsAttempt, faults <- wsFaults, MaxFaults <- MaxWsFaults

Http == INSTANCE Delivery WITH
          Channels <- HttpChannels, MaxBlocks <- HttpBlocks, MaxFaults <- MaxHttpFaults,
          current <- notifier, block <- httpBlock, send <- httpSend, attempt <- httpAttempt,
          cp <- httpSaved, received <- accepted, record <- httpRecord, torn <- httpTorn,
          faults <- httpFaults

ASSUME HttpAssumption == Http!DeliveryAssumption
ASSUME WsAssumption == Ws!FanoutAssumption

wsVars == <<message, wsAttempt, published, session, gone, due, pending, queue, inHand, received,
            dropped, wsFaults>>
httpVars == <<notifier, table, reload, httpBlock, httpSend, httpAttempt, httpSaved, accepted,
              httpRecord, httpTorn, httpFaults>>
channels == <<vars, wsVars, httpVars>>

ChannelTypes == Types \cup {"websocket", "http"}

ChannelsInit == (\E t \in ChannelTypes : InitOf(t)) /\ Ws!Init /\ Http!Init

BrokerStep == type \in Types /\ Next /\ UNCHANGED <<wsVars, httpVars>>

WsStep == type = "websocket" /\ Ws!Next /\ UNCHANGED <<vars, httpVars>>

HttpStep == type = "http" /\ Http!Next /\ UNCHANGED <<vars, wsVars>>

ChannelsNext == BrokerStep \/ WsStep \/ HttpStep

(* The event loop runs both tasks of a session, and every task of a block  *)
(* that is ready; an attempt ends, because the HTTP client has a timeout.  *)
ChannelsSpec ==
  /\ ChannelsInit /\ [][ChannelsNext]_channels
  /\ \A c \in Clients :
       WF_channels(type = "websocket" /\ Ws!Tasks(c) /\ UNCHANGED <<vars, httpVars>>)
  /\ WF_channels(type = "http" /\ Http!Progress /\ UNCHANGED <<vars, wsVars>>)
-----------------------------------------------------------------------------
ChannelsTypeOK ==
  type \in ChannelTypes /\ (type \in Types => TypeOK) /\ Ws!TypeOK /\ Http!TypeOK

(* Delivery: the checkpoint passes only what was accepted or left a failed *)
(* record, and no delivery is shown as successful that was not accepted.   *)
CheckpointedIsAccounted == Http!CheckpointedIsAccounted

(* Delivery: no receiver and no reload holds up the chain.                 *)
BlocksComplete == type = "http" => Http!BlocksComplete

(* WsFanout: everything published since a client subscribed is, in order,  *)
(* received by it, in its session's hands, or was dropped at a full queue. *)
NothingLostInside == Ws!NothingLostInside

(* WsFanout: the session of a client that is gone ends once there is       *)
(* something to send to it.                                                *)
GoneClientIsClosed == Ws!GoneClientIsClosed
=============================================================================
