---------------------------- MODULE Expressions ----------------------------
(***************************************************************************)
(* Value expressions: what sema/sema.go accepts (checkValue and the static *)
(* reports), what expr/expr.go evaluates, the structural keys of           *)
(* value/value.go and syntax/ast.go, and the operators of the Host profile *)
(* host/primitives.go.  A behaviour is one unit with one function leaf and *)
(* one reference to it: it is validated, the reference is deduced (the     *)
(* argument evaluated, the parameters bound), and the leaf's body is then  *)
(* evaluated one expression at a time, calling Anchors through the         *)
(* gateway.                                                                *)
(*                                                                         *)
(* The operators recurse over expressions, so this module is TLC's only.   *)
(* A unit's values may not refer to themselves: see CycleCheck.tla.        *)
(***************************************************************************)
EXTENDS Integers, Sequences, SequencesExt, FiniteSetsExt

CONSTANTS
  Units,        \* the top-level values: functions from names to expressions
  Leaves,       \* function leaves [destructures, names, body]
  References,   \* argument lists (sequences of expressions)
  Anchors,      \* Anchor names a body calls
  Answers       \* what a called Anchor answers: [fails, value] as of Eval

VARIABLES
  unit, leaf, reference,
  phase,        \* "source", "valid", "rejected", "committed", "failed", "done"
  reports,      \* kinds of what validation reports
  scope,        \* parameter -> value
  at,           \* statements of the body evaluated
  calls,        \* [anchor, fails] of the nested calls, in order
  outcome       \* how the last evaluation ended

vars == <<unit, leaf, reference, phase, reports, scope, at, calls, outcome>>
-----------------------------------------------------------------------------
(* Numbers.  A text is [neg, whole, frac], a number <<numerator, positive  *)
(* denominator>> in lowest terms.                                          *)

Abs(i) == IF i < 0 THEN -i ELSE i
Ten(d) == 10 ^ d

Lowest(p, q) ==
  LET g == Max({d \in 1..q : q % d = 0 /\ Abs(p) % d = 0}) IN
  <<IF p < 0 THEN -(Abs(p) \div g) ELSE p \div g, q \div g>>

Rational(t) ==
  LET scaled == FoldLeft(LAMBDA n, d : 10 * n + d, t.whole, t.frac) IN
  Lowest(IF t.neg THEN -scaled ELSE scaled, Ten(Len(t.frac)))

WithoutZeros(ds) ==
  LET kept == {i \in 0..Len(ds) : \A j \in (i + 1)..Len(ds) : ds[j] = 0} IN
  SubSeq(ds, 1, Min(kept))

\* Mutant: the zeros a literal is written with stay in its key.
NormalizeKeepsZeros(t) == [n |-> [t EXCEPT !.neg = @ /\ t.whole # 0]]

\* The key of a number as the source writes it, without evaluating it.
NormalizeNumberText(t) ==
  LET frac == WithoutZeros(t.frac) IN
  [n |-> [neg |-> t.neg /\ ~(t.whole = 0 /\ frac = <<>>), whole |-> t.whole, frac |-> frac]]

RECURSIVE Times(_, _)
\* How often f divides d.
Times(f, d) == IF d % f = 0 THEN 1 + Times(f, d \div f) ELSE 0

\* The key of a computed number: a decimal when it terminates.
RatKey(r) ==
  LET two == Times(2, r[2])
      five == Times(5, r[2])
      digits == Max({two, five})
      scaled == (Abs(r[1]) * Ten(digits)) \div r[2]
  IN IF r[2] # 2 ^ two * 5 ^ five THEN [q |-> r]
     ELSE [n |-> [neg |-> r[1] < 0, whole |-> scaled \div Ten(digits),
                  frac |-> WithoutZeros([i \in 1..digits |-> (scaled \div Ten(digits - i)) % 10])]]
-----------------------------------------------------------------------------
(* Values and keys.                                                        *)

Bool(b) == [kind |-> "Boolean", b |-> b]
Number(r) == [kind |-> "Number", n |-> r]
String(s) == [kind |-> "String", s |-> s]
MapValue(m) == [kind |-> "Map", m |-> m]

StringKey(s) == [s |-> s]
BoolKey(b) == [b |-> b]
Wildcard == [w |-> "_"]

\* Maps cannot be keys: the caller asks for the kind first.
KeyOf(v) ==
  CASE v.kind = "String" -> StringKey(v.s)
    [] v.kind = "Boolean" -> BoolKey(v.b)
    [] v.kind = "Number" -> RatKey(v.n)

\* A key in the source is [s |-> ..], [b |-> ..], [text |-> ..] or Wildcard.
StaticKey(k) == IF "text" \in DOMAIN k THEN NormalizeNumberText(k.text) ELSE k

With(m, k, v) == [j \in DOMAIN m \cup {k} |-> IF j = k THEN v ELSE m[j]]

RECURSIVE Canonical(_)
Canonical(v) ==
  CASE v.kind = "Number" -> [v EXCEPT !.n = RatKey(v.n)]
    [] v.kind = "Map" -> [v EXCEPT !.m = [k \in DOMAIN v.m |-> Canonical(v.m[k])]]
    [] OTHER -> v
-----------------------------------------------------------------------------
(* Evaluation.  A result is [fails, value, calls]: the kind of the error,  *)
(* "" for none, and the Anchor calls made on the way.  NotCallable is two  *)
(* failures in the code, with two texts: of a call, and of a lookup in     *)
(* what is no map, which is NotAMap here.                                  *)

Nothing == Bool(FALSE)
Good(v) == [fails |-> "", value |-> v, calls |-> <<>>]
Fail(k) == [fails |-> k, value |-> Nothing, calls |-> <<>>]

\* Go on with F unless r failed.
After(r, F(_)) ==
  IF r.fails # "" THEN r
  ELSE LET s == F(r.value) IN [s EXCEPT !.calls = r.calls \o @]

\* host/primitives.go: an operator's result, or PrimitiveError.
PrimUnary(v) == IF v.kind = "Number" THEN Good(Number(<<-v.n[1], v.n[2]>>)) ELSE Fail("PrimitiveError")

\* Subtraction, remainder and ordering, which refuse other kinds alike, are
\* left out.
PrimOps == {"==", "!=", "+", "*", "/"}

PrimBinary(op, l, r) ==
  LET numbers == l.kind = "Number" /\ r.kind = "Number"
      over == (IF r.n[1] < 0 THEN -1 ELSE 1) * l.n[1] * r.n[2]
  IN CASE op = "==" -> Good(Bool(Canonical(l) = Canonical(r)))
       [] op = "!=" -> Good(Bool(Canonical(l) # Canonical(r)))
       [] op = "+" /\ l.kind = "String" /\ r.kind = "String" -> Good(String(l.s \o r.s))
       [] op = "+" /\ numbers -> Good(Number(Lowest(l.n[1] * r.n[2] + r.n[1] * l.n[2], l.n[2] * r.n[2])))
       [] op = "*" /\ numbers -> Good(Number(Lowest(l.n[1] * r.n[1], l.n[2] * r.n[2])))
       [] op = "/" /\ numbers /\ r.n[1] # 0 -> Good(Number(Lowest(over, l.n[2] * Abs(r.n[1]))))
       [] OTHER -> Fail("PrimitiveError")

Negate(op, v) ==
  IF op # "!" THEN PrimUnary(v)
  ELSE IF v.kind = "Boolean" THEN Good(Bool(~v.b)) ELSE Fail("PrimitiveError")

MustBeBool(v) == IF v.kind = "Boolean" THEN Good(v) ELSE Fail("PrimitiveError")

RECURSIVE Unwrap(_)
Unwrap(x) == IF x.op = "group" THEN Unwrap(x.x) ELSE x

\* The entry of a map literal that a key selects: its own, else the wildcard's;
\* 0 for none.
Selected(entries, k) ==
  LET own == {i \in DOMAIN entries : entries[i].key # Wildcard /\ StaticKey(entries[i].key) = k}
      wild == {i \in DOMAIN entries : entries[i].key = Wildcard}
  IN IF own # {} THEN Min(own) ELSE IF wild # {} THEN Max(wild) ELSE 0

Get(m, k) ==
  CASE k \in DOMAIN m -> Good(m[k])
    [] k \notin DOMAIN m /\ Wildcard \in DOMAIN m -> Good(m[Wildcard])
    [] OTHER -> Fail("KeyNotFound")

\* env is [scope, gateway, answer]: the parameters, whether Anchors may be
\* called, and what each answers.  A top-level value is evaluated on use, in
\* the unit's environment and not in its user's.
AtTop(env) == [env EXCEPT !.scope = <<>>]

RECURSIVE Eval(_, _), EvalAll(_, _), Resolve(_, _), LookupEntry(_, _, _)

Eval(x, env) ==
  CASE x.op = "group" -> Eval(x.x, env)
    [] x.op = "number" -> Good(Number(Rational(x.text)))
    [] x.op = "string" -> Good(String(x.s))
    [] x.op = "badEscape" -> Fail("InvalidUnicodeEscape")
    [] x.op = "bool" -> Good(Bool(x.b))
    [] x.op \in {"!", "-"} -> After(Eval(x.x, env), LAMBDA v : Negate(x.op, v))
    [] x.op \in {"&&", "||"} ->
         After(After(Eval(x.l, env), MustBeBool),
               LAMBDA v : IF v.b = (x.op = "||") THEN Good(v)
                          ELSE After(Eval(x.r, env), MustBeBool))
    [] x.op \in PrimOps ->
         After(Eval(x.l, env), LAMBDA l : After(Eval(x.r, env), LAMBDA r : PrimBinary(x.op, l, r)))
    [] x.op = "map" ->
         FoldLeft(LAMBDA m, en : After(m, LAMBDA sofar : After(Eval(en.value, env),
                    LAMBDA v : Good(MapValue(With(sofar.m, StaticKey(en.key), v))))),
                  Good(MapValue(<<>>)), x.entries)
    [] x.op = "name" -> Resolve(x.ident, env)
    [] x.op = "lookup" -> After(Eval(x.key, env), LAMBDA k : LookupEntry(x.ident, k, env))
    [] x.op = "call" -> Fail(IF x.upper THEN "InvalidStructuralContext" ELSE "NotCallable")
    [] x.op = "anchor" ->
         IF ~env.gateway THEN Fail("InvalidStructuralContext")
         ELSE After(EvalAll(x.args, env),
                    LAMBDA vs : [env.answer[x.ident] EXCEPT
                                   !.calls = <<[anchor |-> x.ident, fails |-> env.answer[x.ident].fails]>>])
    [] x.op = "goal" -> Fail("InvalidStructuralContext")

\* The values of a list, left to right, as the value of the result.
EvalAll(xs, env) ==
  FoldLeft(LAMBDA vs, x : After(vs, LAMBDA sofar : After(Eval(x, env), LAMBDA v : Good(Append(sofar, v)))),
           Good(<<>>), xs)

Resolve(name, env) ==
  CASE name \in DOMAIN env.scope -> Good(env.scope[name])
    [] name \notin DOMAIN env.scope /\ name \in DOMAIN unit -> Eval(unit[name], AtTop(env))
    [] OTHER -> Fail("UnboundName")

\* Only the selected entry of a top-level map is evaluated.
LookupEntry(name, key, env) ==
  IF key.kind = "Map" THEN Fail("KeyNotFound")
  ELSE IF name \notin DOMAIN env.scope /\ name \in DOMAIN unit /\ Unwrap(unit[name]).op = "map"
  THEN LET entries == Unwrap(unit[name]).entries
           i == Selected(entries, KeyOf(key))
       IN IF i = 0 THEN Fail("KeyNotFound") ELSE Eval(entries[i].value, AtTop(env))
  ELSE After(Resolve(name, env),
             LAMBDA m : IF m.kind = "Map" THEN Get(m.m, KeyOf(key)) ELSE Fail("NotAMap"))

Arity(l) == IF l.destructures THEN 1 ELSE Len(l.names)

\* Destructuring takes the parameters from the keys of one map.
BindParams(l, args) ==
  CASE Len(args) # Arity(l) -> Fail("ArityMismatch")
    [] Len(args) = Arity(l) /\ ~l.destructures
       -> Good([n \in Range(l.names) |-> args[CHOOSE i \in DOMAIN args : l.names[i] = n]])
    [] /\ Len(args) = Arity(l) /\ l.destructures /\ args[1].kind = "Map"
       /\ \A n \in Range(l.names) : StringKey(<<n>>) \in DOMAIN args[1].m
       -> Good([n \in Range(l.names) |-> args[1].m[StringKey(<<n>>)]])
    [] OTHER -> Fail("DestructureMismatch")
-----------------------------------------------------------------------------
(* Validation: the kinds of diagnostics.                                   *)

Report(condition, kind) == IF condition THEN {kind} ELSE {}

\* The key an expression is, when it is a literal; Wildcard when it is not.
LiteralKey(x) ==
  CASE x.op = "string" -> StringKey(x.s)
    [] x.op = "number" -> NormalizeNumberText(x.text)
    [] x.op = "bool" -> BoolKey(x.b)
    [] OTHER -> Wildcard

\* Mutant: a wildcard entry is not counted as one for this key.
StaticLookupIgnoresWildcard(x) ==
  Report(/\ unit[x.ident].op = "map" /\ LiteralKey(x.key) # Wildcard
         /\ \A en \in Range(unit[x.ident].entries) : StaticKey(en.key) # LiteralKey(x.key), "KeyNotFound")

StaticLookup(x) ==
  Report(/\ unit[x.ident].op = "map" /\ LiteralKey(x.key) # Wildcard
         /\ \A en \in Range(unit[x.ident].entries) : StaticKey(en.key) \notin {LiteralKey(x.key), Wildcard},
         "KeyNotFound")

\* The wildcard's key is one like any other here.
CheckMapKeys(m) ==
  Report(\E i, j \in DOMAIN m.entries : i # j /\ StaticKey(m.entries[i].key) = StaticKey(m.entries[j].key),
         "DuplicateMapKey")

\* Mutant: only a name on its own is looked for.
NoUnboundMaps(x, locals) == IF x.ident \in DOMAIN unit \ locals THEN StaticLookup(x) ELSE {}

CheckLookup(x, locals) ==
  IF x.ident \in locals THEN {}
  ELSE IF x.ident \in DOMAIN unit THEN StaticLookup(x) ELSE {"UnboundName"}

\* Mutant: only a Goal's name is refused with the suffix of a call.
CheckCallOfGoal(x) == Report(x.upper, "InvalidStructuralContext")

\* A value expression calls neither a Goal nor anything else by its name.
CheckCall(x) == Report(x.upper, "InvalidStructuralContext") \cup Report(~x.upper, "NotCallable")

\* "goal" is any other form that is no value: a deferred Goal, a composition,
\* an arrow, a lookup with other than one key.
RECURSIVE CheckValue(_, _, _)
CheckValue(x, locals, inLeaf) ==
  LET All(xs) == UNION {CheckValue(xs[i], locals, inLeaf) : i \in DOMAIN xs} IN
  CASE x.op \in {"number", "string", "bool"} -> {}
    [] x.op = "badEscape" -> {"InvalidUnicodeEscape"}
    [] x.op \in {"group", "!", "-"} -> CheckValue(x.x, locals, inLeaf)
    [] x.op \in {"&&", "||"} \cup PrimOps -> All(<<x.l, x.r>>)
    [] x.op = "map" -> CheckMapKeys(x) \cup All([i \in DOMAIN x.entries |-> x.entries[i].value])
    [] x.op = "anchor" -> All(x.args) \cup Report(~inLeaf, "InvalidStructuralContext")
    [] x.op = "name" -> Report(x.ident \notin locals \cup DOMAIN unit, "UnboundName")
    [] x.op = "call" -> All(x.args) \cup CheckCall(x)
    [] x.op = "goal" -> {"InvalidStructuralContext"}
    [] x.op = "lookup" -> CheckValue(x.key, locals, inLeaf) \cup CheckLookup(x, locals)

\* Only as an entry of a top-level map may structure stand beside values.
Structural(x) == x.op \in {"goal", "anchor"} \/ (x.op = "call" /\ x.upper)

\* The arguments of structure are values all the same.
CheckEntry(x) ==
  IF ~Structural(x) THEN CheckValue(x, {}, FALSE)
  ELSE IF x.op = "goal" THEN {} ELSE UNION {CheckValue(a, {}, FALSE) : a \in Range(x.args)}

CheckUnit ==
  UNION {LET x == unit[n] IN
         IF x.op # "map" THEN CheckValue(x, {}, FALSE)
         ELSE CheckMapKeys(x) \cup UNION {CheckEntry(en.value) : en \in Range(x.entries)} :
         n \in DOMAIN unit}

\* A destructuring leaf whose argument is known before it is evaluated.
StaticDestructure ==
  IF Len(reference) # 1 \/ Arity(leaf) # 1 \/ ~leaf.destructures THEN {}
  ELSE LET arg == IF reference[1].op = "name" /\ reference[1].ident \in DOMAIN unit
                  THEN unit[reference[1].ident] ELSE reference[1]
           keys == {StaticKey(en.key) : en \in Range(arg.entries)}
       IN Report(\/ arg.op \in {"number", "string", "badEscape", "bool"}
                 \/ arg.op = "map" /\ \E n \in Range(leaf.names) : StringKey(<<n>>) \notin keys,
                 "DestructureMismatch")

CheckLeaf ==
  UNION {CheckValue(leaf.body[i], Range(leaf.names), TRUE) : i \in DOMAIN leaf.body}
  \cup Report(~IsInjective(leaf.names), "DuplicateParameter")

CheckReference ==
  UNION {CheckValue(reference[i], {}, FALSE) : i \in DOMAIN reference}
  \cup Report(Len(reference) # Arity(leaf), "ArityMismatch")
-----------------------------------------------------------------------------
(* The behaviour.                                                          *)

Init ==
  /\ unit \in Units /\ leaf \in Leaves /\ reference \in References
  /\ phase = "source" /\ reports = {}
  /\ scope = <<>> /\ at = 0 /\ calls = <<>>
  /\ outcome = Good(Nothing)

Validate ==
  /\ phase = "source"
  /\ reports' = CheckUnit \cup CheckLeaf \cup CheckReference \cup StaticDestructure
  /\ phase' = IF reports' = {} THEN "valid" ELSE "rejected"
  /\ UNCHANGED <<unit, leaf, reference, scope, at, calls, outcome>>

Deducing == [scope |-> <<>>, gateway |-> FALSE, answer |-> <<>>]
Bound == After(EvalAll(reference, Deducing), LAMBDA args : BindParams(leaf, args))

\* The reference is deduced: no Anchor is called.
Deduce ==
  /\ phase = "valid"
  /\ outcome' = Bound
  /\ IF Bound.fails = "" THEN phase' = "committed" /\ scope' = Bound.value
                         ELSE phase' = "failed" /\ UNCHANGED scope
  /\ UNCHANGED <<unit, leaf, reference, reports, at, calls>>

\* The next expression of the body; the last one's value is the output.
EvaluateFunction ==
  /\ phase = "committed" /\ at < Len(leaf.body)
  /\ \E answer \in [Anchors -> Answers] :
       outcome' = Eval(leaf.body[at + 1], [scope |-> scope, gateway |-> TRUE, answer |-> answer])
  /\ at' = at + 1
  /\ calls' = calls \o outcome'.calls
  /\ phase' = CASE outcome'.fails # "" -> "failed"
                [] outcome'.fails = "" /\ at' = Len(leaf.body) -> "done"
                [] OTHER -> "committed"
  /\ UNCHANGED <<unit, leaf, reference, reports, scope>>

Next == Validate \/ Deduce \/ EvaluateFunction

Spec == Init /\ [][Next]_vars
-----------------------------------------------------------------------------
(* Properties.                                                             *)

\* Structure in a top-level map is accepted where it is defined, and fails
\* where a value is taken from it.
HoldsStructure ==
  \E n \in DOMAIN unit : unit[n].op = "map" /\ \E en \in Range(unit[n].entries) : Structural(en.value)

\* What validation accepts fails only for what the values turn out to be (an
\* operand of another kind, a missing key, no map where one is looked into or
\* taken apart) or for what an Anchor answers, and what fails is over: every
\* name is bound, no string is malformed, nothing is called but Anchors, and no
\* Anchor is called once another has failed.
AcceptedFailsOnValues ==
  phase \notin {"source", "rejected"} =>
    /\ outcome.fails \in {"", "PrimitiveError", "KeyNotFound", "NotAMap", "DestructureMismatch",
                          "NoOutputAsValue", "AnchorFailed"}
       \/ (outcome.fails = "InvalidStructuralContext" /\ HoldsStructure)
    /\ \A i \in DOMAIN calls : calls[i].fails # "" => i = Len(calls) /\ phase = "failed"

\* The values of a map's keys, compared as values: what a lookup means.
Fits(key, v) ==
  CASE "text" \in DOMAIN key -> v = Number(Rational(key.text))
    [] "s" \in DOMAIN key -> v = String(key.s)
    [] "b" \in DOMAIN key -> v = Bool(key.b)
    [] OTHER -> FALSE

Meant(entries, v) ==
  LET own == {i \in DOMAIN entries : Fits(entries[i].key, v)} IN
  IF own # {} THEN own ELSE {i \in DOMAIN entries : entries[i].key = Wildcard}

\* A lookup finds the entry whose key equals the key as a value (numbers as
\* rationals, however they are written or computed), else the wildcard's, and
\* finds the same whether it evaluates that entry alone or the whole map.
LookupsAgree ==
  phase \notin {"source", "rejected"} =>
    \A x \in {y \in Range(reference) : y.op = "lookup" /\ Unwrap(unit[y.ident]).op = "map"} :
      LET key == Eval(x.key, Deducing)
          m == Unwrap(unit[x.ident])
          whole == Eval(m, Deducing)
          found == Eval(x, Deducing)
      IN key.fails = "" /\ key.value.kind # "Map" =>
           /\ Meant(m.entries, key.value) = {} <=> Selected(m.entries, KeyOf(key.value)) = 0
           /\ \A i \in Meant(m.entries, key.value) : found = Eval(m.entries[i].value, Deducing)
           /\ whole.fails = "" => found = Get(whole.value.m, KeyOf(key.value))

RECURSIVE Within(_), Reached(_)
Parts(x) ==
  CASE x.op \in {"group", "!", "-"} -> {x.x}
    [] x.op \in {"&&", "||"} \cup PrimOps -> {x.l, x.r}
    [] x.op = "map" -> {en.value : en \in Range(x.entries)}
    [] x.op \in {"anchor", "call"} -> Range(x.args)
    [] x.op = "lookup" -> {x.key}
    [] OTHER -> {}

\* The expressions written in x, and those whose evaluation that of x takes in
\* whatever the values are: not what && and || select.
Within(x) == {x} \cup UNION {Within(y) : y \in Parts(x)}
Reached(x) == {x} \cup UNION {Reached(y) : y \in IF x.op \in {"&&", "||"} THEN {x.l} ELSE Parts(x)}

MissingKeys(xs, locals) ==
  {x \in UNION xs : x.op = "lookup" /\ CheckLookup(x, locals) = {"KeyNotFound"}}

\* What a parameter may hold: no map, and a map that has every key.
Held == {Nothing, MapValue([k \in {Wildcard} |-> Nothing])}

\* What validation reports as a missing key or a mismatched argument is one.  A
\* lookup it reports, in whatever operand or scope it is written, finds no key
\* whenever it is evaluated; so a reference fails that has one where evaluation
\* gets to.  (One in an operand that && or || does not select is reported too,
\* and that program is refused although it might have run.)  An argument it
\* reports fails by itself, or else is one that the parameters do not fit.
ReportsAreReal ==
  phase = "rejected" =>
    /\ \A x \in MissingKeys({Within(reference[i]) : i \in DOMAIN reference}
                              \cup {Within(unit[n]) : n \in DOMAIN unit}, {}) :
         Eval(x, Deducing).fails = "KeyNotFound"
    /\ \A x \in MissingKeys({Within(leaf.body[i]) : i \in DOMAIN leaf.body}, Range(leaf.names)) :
         \A v \in Held :
           LET env == [Deducing EXCEPT !.scope = [n \in Range(leaf.names) |-> v]] IN
           Eval(x, env).fails = "KeyNotFound"
    /\ MissingKeys({Reached(reference[i]) : i \in DOMAIN reference}, {}) # {} => Bound.fails # ""
    /\ StaticDestructure # {} =>
         EvalAll(reference, Deducing).fails # "" \/ Bound.fails = "DestructureMismatch"
=============================================================================
