------------------------------- MODULE Matching -------------------------------
(***************************************************************************)
(* core/matcher/matcher.py and core/matcher/filters.py: when an event      *)
(* matches a subscription.                                                 *)
(*                                                                         *)
(* A key of arg_filters is the sequence of the words between its           *)
(* underscores.  An argument, or a value in a filter, is [k, v, upper]: a  *)
(* JSON number ("int"), a decimal string ("dec"), a 0x string ("hex",      *)
(* upper when it is not in lower case) or another string ("str"); v is a   *)
(* number that stands for its content.  A filter is [field, op, list,      *)
(* values]: what its author meant by the key, and the values given, one or *)
(* a list.                                                                 *)
(***************************************************************************)
EXTENDS Integers, Sequences, SequencesExt

CONSTANT None
-----------------------------------------------------------------------------
OperatorSuffixes == {"in", "gte", "lte"}

(* A value of a filter or of an event's arguments. *)
IsValue(x) ==
  x \in [k : {"int", "dec", "hex", "str"}, v : Int, upper : BOOLEAN] /\ (x.upper => x.k = "hex")

(* The key as it is written. *)
Key(f) == IF f.op = "eq" THEN f.field ELSE Append(f.field, f.op)

(* _split: any key that ends like an operator is one. *)
Split(key) ==
  IF Len(key) > 1 /\ Last(key) \in OperatorSuffixes
  THEN [field |-> Front(key), op |-> Last(key)]
  ELSE [field |-> key, op |-> "eq"]

(* validate: keys that look like a mistyped operator are refused when a     *)
(* subscription is written.                                                *)
MistypedSuffixes == {"eq", "ne", "gt", "lt", "ge", "le", "neq", "like"}

Validate(key) == ~(Len(key) > 1 /\ Last(key) \in MistypedSuffixes)

(* _norm: 0x strings are compared in lower case, base58 as it is. *)
Norm(x) == IF x.k = "hex" THEN [x EXCEPT !.upper = FALSE] ELSE x

(* int() reads numbers and decimal strings and raises for the others. *)
IsNumber(x) == x.k \in {"int", "dec"}

(* One entry of the filters.  Where the code raises, Matcher.match logs    *)
(* and the subscription gets no hit, as if the comparison had failed.      *)
Compare(op, actual, f) ==
  CASE op = "eq" -> ~f.list /\ Norm(actual) \in {Norm(x) : x \in f.values}
    [] op = "in" -> f.list /\ Norm(actual) \in {Norm(x) : x \in f.values}
    [] op = "gte" -> ~f.list /\ \A x \in f.values : IsNumber(actual) /\ IsNumber(x) /\ actual.v >= x.v
    [] op = "lte" -> ~f.list /\ \A x \in f.values : IsNumber(actual) /\ IsNumber(x) /\ actual.v <= x.v

(* evaluate: all entries hold; a field that is missing fails. *)
Evaluate(filters, args) ==
  \A f \in filters :
    LET read == Split(Key(f))
    IN  read.field \in DOMAIN args /\ Compare(read.op, args[read.field], f)

(* _matches.  An event is [kind, contract, name, args]. *)
Matches(s, e, number) ==
  /\ s.kind = e.kind
  /\ s.start # None => number >= s.start
  /\ s.address # None => s.address = e.contract
  /\ s.name # None => s.name = e.name
  /\ Evaluate(s.filters, e.args)
-----------------------------------------------------------------------------
(* What the author of a filter means: numbers are compared as numbers, 0x  *)
(* strings without regard to case.                                         *)
SameValue(x, y) == x.v = y.v /\ (x.k = y.k \/ (IsNumber(x) /\ IsNumber(y)))

Means(f, args) ==
  f.field \in DOMAIN args /\ LET actual == args[f.field] IN
    CASE f.op \in {"eq", "in"} -> \E x \in f.values : SameValue(actual, x)
      [] f.op = "gte" -> \A x \in f.values : IsNumber(actual) /\ actual.v >= x.v
      [] f.op = "lte" -> \A x \in f.values : IsNumber(actual) /\ actual.v <= x.v

(* A filter that says it in the way the code reads it: its field does not  *)
(* end like an operator, its bounds are numbers, and it writes numbers the *)
(* way the event does (args hold decimal strings, or JSON numbers where    *)
(* Anchor decodes one below 2^53).                                         *)
Clear(f, args) ==
  /\ f.list = (f.op = "in")
  /\ Split(Key(f)) = [field |-> f.field, op |-> f.op]
  /\ f.op \in {"gte", "lte"} => \A x \in f.values : IsNumber(x)
  /\ f.field \in DOMAIN args /\ f.op \in {"eq", "in"} =>
       \A x \in f.values : IsNumber(x) /\ IsNumber(args[f.field]) => x.k = args[f.field].k
=============================================================================
