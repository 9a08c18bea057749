---------------------------- MODULE FinalityFeed ----------------------------
(***************************************************************************)
(* What a confirmation buffer promises to the runner, without its window   *)
(* and its walk: it believes in one chain of headers, of which a growing   *)
(* prefix is final.  A head may replace what is not final; final headers   *)
(* are only given up by starting again.                                    *)
(***************************************************************************)
EXTENDS Integers, Sequences

CONSTANTS Headers, Number, Parent, Confirmations

VARIABLES
  chain,  \* the headers believed in since the feed was started or restarted
  final   \* how many of them have been handed out

vars == <<chain, final>>

IsLinked(s) == \A i \in 1..(Len(s) - 1) : Parent[s[i + 1]] = s[i]

Buried(s, i) == Number[s[Len(s)]] - Number[s[i]] >= Confirmations

(* A head is adopted: up to the k-th header the old chain is kept, with    *)
(* all that is final and at least one header, and what follows leads to    *)
(* the head.  Exactly the headers that are buried deep enough are handed   *)
(* out, each at once.                                                      *)
Adopt ==
  /\ chain' \in Seq(Headers) /\ IsLinked(chain')
  /\ \E k \in 1..Len(chain) :
       /\ final <= k /\ k < Len(chain')
       /\ \A i \in 1..k : chain'[i] = chain[i]
  /\ final' \in final..Len(chain')
  /\ \A i \in 1..Len(chain') : final < i => (i <= final' <=> Buried(chain', i))

(* The feed starts again at a head that does not extend its chain. *)
Restart(h) ==
  /\ chain # <<>> /\ Confirmations > 0 => Parent[h] # chain[Len(chain)]
  /\ chain' = <<h>>
  /\ final' = IF Confirmations = 0 THEN 1 ELSE 0

Init == chain = <<>> /\ final = 0

Next == Adopt \/ \E h \in Headers : Restart(h)

Spec == Init /\ [][Next]_vars
=============================================================================
