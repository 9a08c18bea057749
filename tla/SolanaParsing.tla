---------------------------- MODULE SolanaParsing ----------------------------
(***************************************************************************)
(* What the Solana parsers make of a transaction: SolanaAdapter's          *)
(* _parse_block, the parsers sol_native.py, spl_transfer.py, spl_ops.py,   *)
(* anchor_event.py and anchor_call.py with their pipeline, the Anchor      *)
(* indices of core/abi/registry.py and the IDL types of                    *)
(* core/abi/decoder.py.                                                    *)
(*                                                                         *)
(* The runtime executes one transaction, program by program, and writes    *)
(* its log.  AnchorIdlEventParser reads the log from its first line to its *)
(* last and keeps its stack of programs to itself, so the model lets it    *)
(* read every line when it is written; the other parsers run when the      *)
(* block is there.                                                         *)
(*                                                                         *)
(* An instruction is [program, op, roles, value, fits]: op stands for its  *)
(* discriminator, roles names the accounts it is about, fits says whether  *)
(* its data decodes.  Accounts are numbers.  A line of event data is [name,*)
(* value, fits].                                                           *)
(***************************************************************************)
EXTENDS Integers, Sequences, FiniteSets

CONSTANTS
  None,
  SystemProgram,
  TokenPrograms,  \* SPL Token and Token-2022
  Programs,       \* programs that call others and write to the log
  Instructions,   \* instructions a transaction or a program can issue
  EventData,      \* what emit! can write
  Loaded,         \* accounts named through a lookup table
  MintOf,         \* function: token account -> its mint
  Idls,           \* sequence of [program, events, calls]: sequences of [name, types]
  Types,          \* types of the IDLs: id -> [kind, name, of], names of two IDLs being two
  MaxTypeDepth,   \* _MAX_TYPE_DEPTH
  MaxSafe,        \* 2^53: greater integers are given as decimal strings
  MaxInvokeDepth, \* bound: the runtime's limit of nested programs
  MaxLines        \* bound: lines of the log after which programs only end

Names == {Types[t].name : t \in DOMAIN Types} \ {None}
Entries(i) == {Idls[i].events, Idls[i].calls}

(* Order of the accounts of an instruction (System and SPL Token programs). *)
Wire ==
  [transfer        |-> <<"source", "dest", "authority">>,
   transferChecked |-> <<"source", "mint", "dest", "authority">>,
   transferFee     |-> <<"source", "mint", "dest", "authority">>,
   approve         |-> <<"source", "delegate", "authority">>,
   revoke          |-> <<"source", "authority">>,
   mintTo          |-> <<"mint", "dest", "authority">>,
   burn            |-> <<"source", "mint", "authority">>,
   closeAccount    |-> <<"source", "dest", "authority">>,
   transferLamports |-> <<"from", "to">>]

(* The accounts of an instruction have its roles, and the source of a     *)
(* token instruction is a token account.                                   *)
RolesAssumption ==
  \A ix \in Instructions : ix.op \in DOMAIN Wire =>
    LET named == {Wire[ix.op][i] : i \in DOMAIN Wire[ix.op]} IN
      /\ named \subseteq DOMAIN ix.roles /\ ("mint" \in DOMAIN ix.roles => "mint" \in named)
      /\ \A r \in named : ix.roles[r] # None
      /\ ix.program \in TokenPrograms /\ "source" \in named =>
           ix.roles.source \in DOMAIN MintOf /\ MintOf[ix.roles.source] # None

ParsingAssumption ==
  /\ SystemProgram \notin Programs \cup TokenPrograms
  /\ Programs \cap TokenPrograms = {}
  /\ None \notin Nat \cup {"source"}  \* neither a place nor the name of an argument
  /\ RolesAssumption
  /\ MaxTypeDepth \in Nat /\ MaxSafe \in Nat /\ MaxInvokeDepth \in Nat /\ MaxLines \in Nat
  /\ \A i \in DOMAIN Idls : \A l \in Entries(i) : \A j \in DOMAIN l : l[j].types \subseteq DOMAIN Types
  /\ \A t \in DOMAIN Types :
       /\ Types[t].of \subseteq DOMAIN Types /\ (Types[t].kind = "scalar" => Types[t].of = {})
       /\ Types[t].kind = "struct" =>
            /\ Types[t].name # None
            /\ \A u \in DOMAIN Types : Types[u].name = Types[t].name => u = t

VARIABLES
  status,    \* of the transaction: "running", "succeeded", "failed", "parsed"
  calls,     \* the runtime's stack of programs
  executed,  \* instructions: <<line, instruction, whether it is a top-level one>>
  emitted,   \* event data: <<line, the program that wrote it, data>>
  closed,    \* token accounts closed by the transaction
  lines,     \* number of lines of the log
  stack,     \* program_stack of AnchorIdlEventParser
  found,     \* what it made of the data lines: events
  events,    \* what the pipeline yields for the block
  confused   \* history: a program wrote a text that reads like a line of the runtime

vars == <<status, calls, executed, emitted, closed, lines, stack, found, events, confused>>

Event(by, line, kind, contract, name, args) ==
  [by |-> by, line |-> line, kind |-> kind, contract |-> contract, name |-> name, args |-> args]

NoArgs == [f \in {} |-> None]
-----------------------------------------------------------------------------
(* IDL types.  A type is of kind "scalar", "unknown", "struct" or "enum"   *)
(* (both defined by name) or "wrapper" (vec, option, array), and of is the *)
(* set of types of its fields or of its element.                           *)

(* _resolve_type: whether type t has a decoder, after the names seen, when *)
(* deeper says so of the level below.                                      *)
Resolves(t, seen, deeper) ==
  \/ t.kind = "scalar"
  \/ /\ t.kind = "struct" /\ t.name \notin seen
     /\ \A f \in t.of : <<f, seen \cup {t.name}>> \in deeper
  \/ t.kind = "wrapper" /\ \A f \in t.of : <<f, seen>> \in deeper

(* left is MaxTypeDepth - depth. *)
ResolveType[left \in 0..MaxTypeDepth] ==
  IF left = 0 THEN {}
  ELSE {x \in (DOMAIN Types) \X (SUBSET Names) : Resolves(Types[x[1]], x[2], ResolveType[left - 1])}

(* build_anchor_event_struct. *)
HasStruct(entry) == \A t \in entry.types : <<t, {}>> \in ResolveType[MaxTypeDepth]

(* _anchor_index and _anchor_call_index: keyed by program and              *)
(* discriminator.  An entry without struct leaves its key to a later one.  *)
Known(program, name, list) ==
  \E i \in DOMAIN Idls : \E j \in DOMAIN Idls[i][list] :
    /\ Idls[i].program = program /\ Idls[i][list][j].name = name
    /\ HasStruct(Idls[i][list][j])

(* _normalize_borsh_value. *)
Number(v) == [k |-> IF v > MaxSafe THEN "dec" ELSE "int", v |-> v]
Decimal(v) == [k |-> "dec", v |-> v]
Address(a) == [k |-> "str", v |-> a]
-----------------------------------------------------------------------------
(* AnchorIdlEventParser.  A line is [kind, program, data]: "invoke" when   *)
(* the parser's pattern takes it for one, "success" when it starts with    *)
(* "Program " and ends with " success", "data" or "other".                 *)
Line(kind, program, data) == [kind |-> kind, program |-> program, data |-> data]

MutantRead(s, line) ==
  CASE line.kind = "invoke" -> Append(s, line.program)
    [] line.kind = "success" -> <<>>
    [] OTHER -> s

Read(s, line) ==
  CASE line.kind = "invoke" -> Append(s, line.program)
    [] line.kind = "success" /\ s # <<>> -> SubSeq(s, 1, Len(s) - 1)
    [] OTHER -> s

(* The data belongs to the program on top of the stack. *)
Decoded(s, n, line) ==
  LET p == s[Len(s)]
  IN  IF line.kind # "data" \/ s = <<>> THEN {}
      ELSE IF ~Known(p, line.data.name, "events") THEN {}
      ELSE {IF line.data.fits
            THEN Event("anchor_event", n, "event", p, line.data.name,
                       [f \in {"value"} |-> Number(line.data.value)])
            ELSE Event("anchor_event", n, "event", p, None, NoArgs)}

(* A line is written, and read. *)
Write(line) ==
  /\ status = "running"
  /\ lines' = lines + 1
  /\ stack' = Read(stack, line)
  /\ found' = found \cup Decoded(stack, lines + 1, line)
-----------------------------------------------------------------------------
(* Accounts and layouts of the instructions. *)

Accounts(ix) ==
  IF ix.op \in DOMAIN Wire THEN [i \in DOMAIN Wire[ix.op] |-> ix.roles[Wire[ix.op][i]]] ELSE <<>>

(* _parse_block: indices that point behind accountKeys (those of lookup    *)
(* tables) are left out, and later accounts move up.                       *)
AccountsOf(ix) ==
  LET all == Accounts(ix)
      kept == {i \in DOMAIN all : all[i] \notin Loaded}
      Place(i) == Cardinality({j \in kept : j <= i})
  IN  [n \in 1..Cardinality(kept) |-> all[CHOOSE i \in kept : Place(i) = n]]

(* What the parsers read: the number of accounts they insist on, where the *)
(* mint is (0: in the balances after the transaction), where each argument *)
(* is (0: the mint), and the argument that gives the amount.               *)
Row(kind, name, min, mint, args, amount) ==
  [kind |-> kind, name |-> name, min |-> min, mint |-> mint, args |-> args, amount |-> amount]
Transfer(min, mint, to) ==
  Row("token_transfer", "Transfer", min, mint, [from |-> 1, to |-> to, mint |-> mint], "value")

Layout ==
  [transfer        |-> Transfer(3, 0, 2),
   transferChecked |-> Transfer(4, 2, 3),
   transferFee     |-> Transfer(4, 2, 3),
   approve         |-> Row("call", "approve", 3, 0, [source |-> 1, delegate |-> 2], "amount"),
   revoke          |-> Row("call", "revoke", 2, 0, [source |-> 1], None),
   mintTo          |-> Row("call", "mint_to", 3, 1, [mint |-> 1, dest |-> 2], "amount"),
   burn            |-> Row("call", "burn", 3, 2, [source |-> 1, mint |-> 2], "amount")]
NativeLayout == Row("native_transfer", None, 2, None, [from |-> 1, to |-> 2], "value")

(* _resolve_mint: an account the transaction closed has no balance after it. *)
ResolveMint(a) == IF a \in DOMAIN MintOf \ closed THEN MintOf[a] ELSE None

(* The event of an instruction that is at line n of the log. *)
Laid(by, row, ix, n) ==
  LET accounts == AccountsOf(ix)
      mint == IF row.mint = None THEN None
              ELSE IF row.mint = 0 THEN ResolveMint(accounts[1]) ELSE accounts[row.mint]
      at == [f \in DOMAIN row.args |->
               Address(IF row.args[f] = 0 THEN mint ELSE accounts[row.args[f]])]
      all == DOMAIN row.args \cup ({row.amount} \ {None})
  IN  IF ~ix.fits \/ Len(accounts) < row.min THEN {}
      ELSE IF row.mint # None /\ mint = None THEN {}
      ELSE {Event(by, n, row.kind, mint, row.name,
                  [f \in all |-> IF f = row.amount THEN Decimal(ix.value) ELSE at[f]])}

SolNativeTransferParser(ix, n) ==
  IF ix.program = SystemProgram /\ ix.op = "transferLamports"
  THEN Laid("sol_native", NativeLayout, ix, n) ELSE {}

(* SplTransferParser and SplOpsParser. *)
SplParsers(ix, n) ==
  IF ix.program \in TokenPrograms /\ ix.op \in DOMAIN Layout
  THEN Laid("spl", Layout[ix.op], ix, n) ELSE {}

AnchorIdlCallParser(ix, n) ==
  IF Known(ix.program, ix.op, "calls") /\ ix.fits
  THEN {Event("anchor_call", n, "call", ix.program, ix.op, [f \in {"value"} |-> Number(ix.value)])}
  ELSE {}

MutantTopLevel == executed

(* stack_depth is 1. *)
TopLevel == {x \in executed : x[3]}

InstructionEvents ==
  UNION {SolNativeTransferParser(x[2], x[1]) \cup SplParsers(x[2], x[1])
           \cup AnchorIdlCallParser(x[2], x[1]) : x \in TopLevel}
-----------------------------------------------------------------------------
(* The runtime. *)

Caller == calls # <<>> /\ calls[Len(calls)] \in Programs

(* A top-level instruction or one of the program that runs. *)
Invoke(ix) ==
  /\ calls = <<>> \/ Caller
  /\ Len(calls) < MaxInvokeDepth /\ lines < MaxLines
  /\ Write(Line("invoke", ix.program, None))
  /\ calls' = Append(calls, ix.program)
  /\ executed' = executed \cup {<<lines + 1, ix, calls = <<>> >>}
  /\ closed' = IF ix.op = "closeAccount" THEN closed \cup {ix.roles.source} ELSE closed
  /\ UNCHANGED <<status, emitted, events, confused>>

(* emit! *)
Emit(data) ==
  /\ Caller /\ lines < MaxLines
  /\ Write(Line("data", None, data))
  /\ emitted' = emitted \cup {<<lines + 1, calls[Len(calls)], data>>}
  /\ UNCHANGED <<status, calls, executed, closed, events, confused>>

(* msg!: "Program log: " and any text.  "Program log: invoke [1]" passes   *)
(* for an invocation of the program "log:", and "Program log: deposit      *)
(* success" for the end of one.                                            *)
LogText(looksLike) ==
  /\ Caller /\ lines < MaxLines
  /\ Write(Line(looksLike, "log:", None))
  /\ confused' = (confused \/ looksLike # "other")
  /\ UNCHANGED <<status, calls, executed, emitted, closed, events>>

Return ==
  /\ calls # <<>>
  /\ Write(Line("success", calls[Len(calls)], None))
  /\ calls' = SubSeq(calls, 1, Len(calls) - 1)
  /\ UNCHANGED <<status, executed, emitted, closed, events, confused>>

(* A program that fails fails the transaction; its log is kept. *)
Fail ==
  /\ calls # <<>>
  /\ Write(Line("other", calls[Len(calls)], None))
  /\ status' = "failed"
  /\ UNCHANGED <<calls, executed, emitted, closed, events, confused>>

Finish ==
  /\ status = "running" /\ calls = <<>> /\ executed # {}
  /\ status' = "succeeded"
  /\ UNCHANGED <<calls, executed, emitted, closed, lines, stack, found, events, confused>>

(* The pipeline on the block with this transaction; failed ones are        *)
(* skipped by every parser.                                                *)
RunPipeline ==
  /\ status \in {"succeeded", "failed"}
  /\ events' = IF status = "failed" THEN {} ELSE InstructionEvents \cup found
  /\ status' = "parsed"
  /\ UNCHANGED <<calls, executed, emitted, closed, lines, stack, found, confused>>

Init ==
  /\ status = "running" /\ calls = <<>> /\ executed = {} /\ emitted = {} /\ closed = {}
  /\ lines = 0 /\ stack = <<>> /\ found = {} /\ events = {} /\ confused = FALSE

NextTransaction ==
  /\ status = "parsed"
  /\ status' = "running" /\ calls' = <<>> /\ executed' = {} /\ emitted' = {} /\ closed' = {}
  /\ lines' = 0 /\ stack' = <<>> /\ found' = {} /\ events' = {} /\ confused' = FALSE

Next ==
  \/ \E ix \in Instructions : Invoke(ix)
  \/ \E d \in EventData : Emit(d)
  \/ \E like \in {"invoke", "success", "other"} : LogText(like)
  \/ Return \/ Fail \/ Finish \/ RunPipeline \/ NextTransaction

Spec == Init /\ [][Next]_vars
-----------------------------------------------------------------------------
TypeOK ==
  /\ status \in {"running", "succeeded", "failed", "parsed"}
  /\ calls \in Seq({ix.program : ix \in Instructions}) /\ Len(calls) <= MaxInvokeDepth
  /\ executed \subseteq ((1..MaxLines) \X Instructions \X BOOLEAN)
  /\ emitted \subseteq ((1..MaxLines) \X Programs \X EventData)
  /\ closed \subseteq DOMAIN MintOf
  /\ lines \in 0..(MaxLines + MaxInvokeDepth)
  /\ stack \in Seq({ix.program : ix \in Instructions} \cup {"log:"}) /\ Len(stack) <= lines
  /\ confused \in BOOLEAN

(* A type can be decoded when it is built from scalars in fewer than       *)
(* MaxTypeDepth levels, whatever refers to it.                             *)
Built[n \in 0..MaxTypeDepth] ==
  IF n = 0 THEN {}
  ELSE {t \in DOMAIN Types : Types[t].kind \in {"scalar", "struct", "wrapper"}
                               /\ Types[t].of \subseteq Built[n - 1]}

Declared(program, name, list) ==
  \E i \in DOMAIN Idls : \E j \in DOMAIN Idls[i][list] :
    /\ Idls[i].program = program /\ Idls[i][list][j].name = name
    /\ Idls[i][list][j].types \subseteq Built[MaxTypeDepth]

(* A failed transaction ends with programs on the runtime's stack. *)
Succeeded == calls = <<>>

By(parsers) == {e \in events : e.by \in parsers}

(* Unless a program writes a text that reads like a line of the runtime,   *)
(* the events reported for a transaction are the events its programs       *)
(* emitted, each under the program that emitted it, at whatever depth and  *)
(* after whatever calls have returned; of a failed transaction there are   *)
(* none.  An event is left out only when its program's IDL does not        *)
(* declare it with types that can be decoded.                              *)
AnchorEventsExact ==
  status = "parsed" /\ ~confused =>
    By({"anchor_event"}) =
      (IF ~Succeeded THEN {}
       ELSE {Event("anchor_event", m[1], "event", m[2], IF m[3].fits THEN m[3].name ELSE None,
                   IF m[3].fits THEN [f \in {"value"} |-> Number(m[3].value)] ELSE NoArgs) :
               m \in {x \in emitted : Declared(x[2], x[3].name, "events")}})

(* What an instruction did, by the roles of its accounts. *)
Role ==
  [from |-> "source", to |-> "dest", source |-> "source", dest |-> "dest", mint |-> "mint",
   delegate |-> "delegate"]
Did(ix, f) ==
  IF f \in {"value", "amount"} THEN Decimal(ix.value)
  ELSE Address(IF ix.program = SystemProgram THEN ix.roles[f]
               ELSE IF f = "mint" /\ "mint" \notin DOMAIN ix.roles THEN MintOf[ix.roles.source]
               ELSE ix.roles[Role[f]])

Reported(ix) ==
  \/ ix.program = SystemProgram /\ ix.op = "transferLamports"
  \/ ix.program \in TokenPrograms /\ ix.op \in DOMAIN Layout

(* The node does not name an account the parser needs: it comes from a     *)
(* lookup table, or the mint of the source is not in the instruction and   *)
(* the source is closed by the end of the transaction.                     *)
Hidden(ix) ==
  \/ \E i \in DOMAIN Accounts(ix) : Accounts(ix)[i] \in Loaded
  \/ ix.op \in {"transfer", "approve", "revoke"} /\ ix.roles.source \in closed

(* A transfer or token operation at the top level of a transaction that    *)
(* succeeded is reported once, with the accounts that played its roles,    *)
(* its mint and its amount; nothing else is reported, whatever other       *)
(* instructions the transaction runs before, after or inside of it.        *)
TransfersExact ==
  status = "parsed" =>
    LET due == IF ~Succeeded THEN {}
               ELSE {x \in executed : x[3] /\ x[2].fits /\ Reported(x[2])}
        got == By({"sol_native", "spl"})
    IN  /\ \A x \in due : ~Hidden(x[2]) =>
             \E e \in got : e.line = x[1] /\ \A f \in DOMAIN e.args : e.args[f] = Did(x[2], f)
        /\ \A e \in got : \E x \in due : e.line = x[1]
        /\ \A d, e \in got : d.line = e.line => d = e
=============================================================================
