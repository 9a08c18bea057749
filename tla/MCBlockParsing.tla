--------------------------- MODULE MCBlockParsing ---------------------------
(* Two ABIs that share the Transfer event, one of them also in a second     *)
(* version, one with an overloaded event, and one that indexes Transfer     *)
(* otherwise and has an event named like one of the other.  The second      *)
(* version keeps the id and changes the body, which is what refresh         *)
(* compares body hashes for.                                                *)
EXTENDS BlockParsing, TLC

CONSTANTS a1, a2, tTransfer, tSwap, tSwap2, tMint, tOther, sSwap, sMint, sys, tok, tok22, p1, p2

EventEntry(n, t, k) == [type |-> "event", name |-> n, key |-> t, indexed |-> k]
FunctionEntry(n, s) == [type |-> "function", name |-> n, key |-> s, indexed |-> 0]
Abi(id, entries) == [id |-> id, entries |-> entries]
Dex == Abi("dex", <<EventEntry("Transfer", tTransfer, 2), EventEntry("Swap", tSwap, 1),
                    FunctionEntry("swap", sSwap)>>)
DexChanged == Abi("dex", <<EventEntry("Swap", tSwap, 2), EventEntry("Transfer", tTransfer, 2),
                           FunctionEntry("swapExact", sSwap)>>)
Token == Abi("token", <<EventEntry("Transfer", tTransfer, 2), EventEntry("Mint", tMint, 0),
                        FunctionEntry("mint", sMint)>>)
Nft == Abi("token", <<EventEntry("Transfer", tTransfer, 3), EventEntry("Mint", tMint, 0),
                      EventEntry("Swap", tSwap2, 1)>>)
Overloaded == Abi("dex", <<EventEntry("Swap", tSwap, 1), EventEntry("Swap", tSwap2, 1)>>)

Dec(n) == [k |-> "dec", v |-> n, upper |-> FALSE]
Num(n) == [k |-> "int", v |-> n, upper |-> FALSE]
Hex(n, up) == [k |-> "hex", v |-> n, upper |-> up]
Args(n, to) == (<<"value">> :> Dec(n)) @@ (<<"to">> :> Hex(to, FALSE))
Filter(field, op, list, values) == [field |-> field, op |-> op, list |-> list, values |-> values]

Sub(k, address, abi, name, start, filters) ==
  [kind |-> k, address |-> address, abi |-> abi, name |-> name, start |-> start, filters |-> filters]
Plain(k, address, abi, name) == Sub(k, address, abi, name, None, {})
SwapAtA1 == Plain("event", a1, "dex", "Swap")
LargeTransfers == Sub("event", None, "token", "Transfer", None, {Filter(<<"value">>, "gte", FALSE, {Dec(5)})})
MintAtA2 == Plain("event", a2, "token", "Mint")
TokensAtA2 == Sub("token_transfer", a2, None, None, 3,
                  {Filter(<<"to">>, "in", TRUE, {Hex(1, TRUE), Hex(2, FALSE)})})
LateTokens == Sub("token_transfer", None, None, None, 9, {})
AnythingAtA1 == Plain("event", a1, None, None)
SwapCalls == Plain("call", a1, "dex", "swap")
AnyCall == Plain("call", None, None, None)
Payments == Sub("native_transfer", None, None, None, None,
                {Filter(<<"value">>, "lte", FALSE, {Num(7)}), Filter(<<"to">>, "eq", FALSE, {Hex(1, TRUE)})})
\* Written as a number, and with a field that ends like an operator.
Unclear == Sub("token_transfer", None, None, None, None, {Filter(<<"value">>, "eq", FALSE, {Num(5)})})
Misread == Sub("token_transfer", None, None, None, None, {Filter(<<"value", "in">>, "eq", FALSE, {Dec(5)})})

Config(subs, abis) == [subs |-> subs, abis |-> abis]
MCSnapshots ==
  {Config({SwapAtA1, AnyCall, TokensAtA2, Payments, Unclear}, <<Dex, Token>>),
   Config({AnythingAtA1, MintAtA2, LateTokens, SwapCalls, LargeTransfers, Misread}, <<Dex, Token>>),
   Config({LargeTransfers, TokensAtA2, SwapCalls, MintAtA2}, <<Token, DexChanged>>),
   Config({SwapAtA1, MintAtA2, Payments}, <<Overloaded, Token>>),
   Config({LargeTransfers, SwapAtA1, SwapCalls}, <<Nft, Dex>>)}

Log(a, t, n, bad, args) == [address |-> a, topic0 |-> t, topics |-> n, bad |-> bad, args |-> args]
MCLogs ==
  <<Log(a1, tTransfer, 3, "no", Args(5, 1)), Log(a2, tTransfer, 3, "no", Args(4, 2)),
    Log(a1, tTransfer, 4, "no", Args(9, 1)), Log(a1, tSwap, 2, "no", Args(1, 3)),
    Log(a1, tSwap, 3, "data", Args(1, 3)), Log(a2, tMint, 1, "no", Args(2, 2)),
    Log(a1, tOther, 1, "no", Args(2, 2)), Log(a1, None, 0, "no", Args(2, 2)),
    Log(a1, tSwap2, 2, "no", Args(1, 3)), Log(a2, tSwap, 2, "topic", Args(1, 3)),
    Log(a2, tTransfer, 3, "no", Args(5, 1)), Log(a2, tMint, 1, "no", Args(3, 2))>>

Frame(parent, create, to, selector, value, failed, bad) ==
  [parent |-> parent, create |-> create, to |-> to, selector |-> selector, value |-> value,
   failed |-> failed, bad |-> bad,
   args |-> IF create THEN <<"value">> :> Dec(value) ELSE Args(value, 1)]
\* A swap that mints inside and creates a contract deeper, and a payment
\* that reverted.
MCFrames ==
  <<Frame(None, FALSE, a1, sSwap, 3, FALSE, FALSE), Frame(1, FALSE, a2, sMint, 0, FALSE, FALSE),
    Frame(1, TRUE, a2, None, 0, FALSE, FALSE), Frame(1, FALSE, a1, sSwap, 0, TRUE, FALSE),
    Frame(4, FALSE, a2, sMint, 0, FALSE, FALSE), Frame(2, FALSE, a1, sSwap, 0, FALSE, FALSE),
    Frame(6, FALSE, a2, sMint, 0, FALSE, FALSE), Frame(1, FALSE, a1, sSwap, 0, FALSE, TRUE),
    Frame(None, FALSE, a1, sSwap, 8, TRUE, FALSE), Frame(9, FALSE, a2, sMint, 1, FALSE, FALSE)>>
-----------------------------------------------------------------------------
\* Account 4 comes from a lookup table, 5 is the mint, 9 signs.
Roles(s, m, d) == [source |-> s, mint |-> m, dest |-> d, delegate |-> d, authority |-> 9]
Pair(s, d) == [source |-> s, dest |-> d, delegate |-> d, authority |-> 9]
Issue(program, op, roles, value, fits) ==
  [program |-> program, op |-> op, roles |-> roles, value |-> value, fits |-> fits]
MCInstructions ==
  {Issue(p1, "swap", <<>>, 5, TRUE), Issue(p2, "swap", <<>>, 9, TRUE),
   Issue(sys, "transferLamports", [from |-> 1, to |-> 2], 3, TRUE),
   Issue(tok, "transfer", Pair(1, 2), 4, TRUE), Issue(tok22, "transferFee", Roles(1, 5, 2), 4, TRUE),
   Issue(tok, "transferChecked", Roles(1, 5, 4), 4, TRUE),
   Issue(tok, "approve", Pair(2, 1), 4, TRUE), Issue(tok, "revoke", Pair(1, 2), 0, TRUE),
   Issue(tok, "closeAccount", Pair(1, 2), 0, TRUE), Issue(tok, "mintTo", Roles(2, 5, 1), 2, FALSE),
   Issue(tok, "mintTo", Roles(2, 5, 1), 2, TRUE), Issue(tok, "burn", Roles(2, 5, 1), 2, TRUE)}
MCEventData == [name : {"Sold", "Deep"}, value : {9}, fits : {TRUE}]
                 \cup {[name |-> "Sold", value |-> 1, fits |-> FALSE]}
Type(k, name, of) == [kind |-> k, name |-> name, of |-> of]
MCTypes ==
  [u64 |-> Type("scalar", None, {}), pair |-> Type("struct", "Pair", {"u64", "list"}),
   list |-> Type("wrapper", None, {"u64"}), deep |-> Type("wrapper", None, {"pair"}),
   loop |-> Type("struct", "Loop", {"loops"}), loops |-> Type("wrapper", None, {"loop"}),
   mode |-> Type("enum", "Mode", {})]
Entry(n, types) == [name |-> n, types |-> types]
MCIdls ==
  <<[program |-> p1, events |-> <<Entry("Sold", {"loop"}), Entry("Sold", {"pair"}), Entry("Deep", {"deep"})>>,
     calls |-> <<Entry("swap", {"u64", "pair"})>>],
    [program |-> p2, events |-> <<Entry("Deep", {"list"})>>, calls |-> <<Entry("swap", {"mode"})>>]>>
MCMintOf == [a \in {1, 2, 4} |-> 5]
=============================================================================
