---------------------------- MODULE BlockParsing ----------------------------
(***************************************************************************)
(* _build_pipeline: the parsers of a chain are those of EvmMatching or     *)
(* those of SolanaParsing, by its kind, which never changes.               *)
(***************************************************************************)
EXTENDS EvmMatching

CONSTANTS
  SystemProgram, TokenPrograms, Programs, Instructions, EventData, Loaded, MintOf, Idls, Types,
  MaxTypeDepth, MaxSafe, MaxInvokeDepth, MaxLines

VARIABLES
  kind,  \* ChainConfig.kind
  status, calls, executed, emitted, closed, lines, stack, found, events, confused

Solana == INSTANCE SolanaParsing

ASSUME SolanaAssumption == Solana!ParsingAssumption

solanaVars == <<status, calls, executed, emitted, closed, lines, stack, found, events, confused>>
parsingVars == <<kind, vars, solanaVars>>

ParsingInit ==
  /\ kind \in {"evm", "solana"} /\ Solana!Init
  /\ Init /\ (kind = "solana" => target = CHOOSE s \in Snapshots : TRUE)

ParseEvm == kind = "evm" /\ Next /\ UNCHANGED <<kind, solanaVars>>

ParseSolana == kind = "solana" /\ Solana!Next /\ UNCHANGED <<kind, vars>>

ParsingNext == ParseEvm \/ ParseSolana

ParsingSpec == ParsingInit /\ [][ParsingNext]_parsingVars
-----------------------------------------------------------------------------
ParsingTypeOK == kind \in {"evm", "solana"} /\ TypeOK /\ Solana!TypeOK

(* SolanaParsing: the Anchor events reported are the events emitted, each  *)
(* under its program, unless a program's text reads like a line of the     *)
(* runtime.                                                                *)
AnchorEventsExact == Solana!AnchorEventsExact

(* SolanaParsing: top-level transfers and token operations are reported    *)
(* once and with their accounts, mint and amount, and nothing else is.     *)
TransfersExact == Solana!TransfersExact
=============================================================================
