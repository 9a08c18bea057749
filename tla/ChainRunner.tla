----------------------------- MODULE ChainRunner -----------------------------
(***************************************************************************)
(* ChainRunner.run: the runner of a chain follows it the EVM way           *)
(* (EvmRunner) or the Solana way (SolanaRunner), by the kind of the chain, *)
(* which never changes.                                                    *)
(***************************************************************************)
EXTENDS EvmRunner

CONSTANTS
  MaxSlot,           \* bound: the last slot of the Solana node
  Skipped,           \* slots without a block
  FirstSlot,         \* the Solana node's slot when the model starts
  FirstSlotSaved,    \* the checkpoint row of a Solana chain at that time
  RangeSlots         \* slot_query_range_blocks

VARIABLES
  kind,  \* ChainConfig.kind
  slots, slotSaved, slotPhase, slotScan, slotJob, slotFeed, slotStopping, attempted,
  slotsDelivered, ws, slotFaults, slotCrashes, slotStops

Solana == INSTANCE SolanaRunner WITH
            FirstTip <- FirstSlot, FirstCheckpoint <- FirstSlotSaved,
            node <- slots, cp <- slotSaved, phase <- slotPhase, scan <- slotScan, job <- slotJob,
            feed <- slotFeed, stopping <- slotStopping, delivered <- slotsDelivered,
            faults <- slotFaults, crashes <- slotCrashes, stops <- slotStops

ASSUME SlotsAssumption == Solana!SolanaAssumption

solanaVars == <<slots, slotSaved, slotPhase, slotScan, slotJob, slotFeed, slotStopping, attempted,
                slotsDelivered, ws, slotFaults, slotCrashes, slotStops>>
runnerVars == <<kind, vars, solanaVars>>

(* One of the two is at work; the other one stays as it is. *)
RunInit == kind \in {"evm", "solana"} /\ Init /\ Solana!Init /\ (kind = "evm" => ws) /\ (kind = "solana" => ~feed.ws)

RunEvm == kind = "evm" /\ Next /\ UNCHANGED <<kind, solanaVars>>

RunSolana == kind = "solana" /\ Solana!Next /\ UNCHANGED <<kind, vars>>

Run == RunEvm \/ RunSolana

(* The event loop runs the task, and the node answers. *)
RunSpec ==
  /\ RunInit /\ [][Run]_runnerVars
  /\ WF_runnerVars(kind = "evm" /\ Progress /\ UNCHANGED <<kind, solanaVars>>)
  /\ WF_runnerVars(kind = "solana" /\ Solana!Progress /\ UNCHANGED <<kind, vars>>)
-----------------------------------------------------------------------------
RunTypeOK == kind \in {"evm", "solana"} /\ TypeOK /\ Solana!TypeOK

(* An EVM chain's runner ends up with the node's head (FollowsTip).        *)
TipIsFollowed == kind = "evm" => FollowsTip

(* A Solana chain's catch-up asks for every block that was final when it   *)
(* began, before the live loop takes over.                                 *)
CatchupAttemptsAll == Solana!CatchupAttemptsAll

(* Every block a Solana node has is delivered in the end, unless the task  *)
(* died or an rpc_ws has announced nothing since it was connected.         *)
AllSlotsServed == kind = "solana" => Solana!AllSlotsServed
=============================================================================
