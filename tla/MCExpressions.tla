--------------------------- MODULE MCExpressions ---------------------------
(* Expressions.tla on every combination of a few units, leaves and          *)
(* references: keys that are written and computed in several ways, with and *)
(* without a wildcard, a local name that may hide a top-level one, Anchors  *)
(* and missing keys in operands that may not be selected.                   *)
EXTENDS Expressions

Num(neg, whole, frac) == [op |-> "number", text |-> [neg |-> neg, whole |-> whole, frac |-> frac]]
Lit(whole, frac) == Num(FALSE, whole, frac)
Str(s) == [op |-> "string", s |-> <<s>>]
Name(n) == [op |-> "name", ident |-> n]
Lookup(n, k) == [op |-> "lookup", ident |-> n, key |-> k]
Two(o, a, b) == [op |-> o, l |-> a, r |-> b]
Call(a, args) == [op |-> "anchor", ident |-> a, args |-> args]
Yes == [op |-> "bool", b |-> TRUE]
No == [op |-> "bool", b |-> FALSE]
Entry(k, x) == [key |-> k, value |-> x]
Text(neg, whole, frac) == [text |-> [neg |-> neg, whole |-> whole, frac |-> frac]]
Map(es) == [op |-> "map", entries |-> es]

\* Entries of the map m: one key of each pair is absent, in every way.
Written == {<<Text(FALSE, 1, <<5>>)>>, <<Text(FALSE, 1, <<5, 0>>)>>, <<Text(TRUE, 1, <<5>>), Text(FALSE, 10, <<>>)>>,
            <<Text(TRUE, 0, <<0>>)>>, <<Text(FALSE, 0, <<>>), Text(FALSE, 0, <<0, 5>>)>>,
            <<Text(FALSE, 0, <<>>), Text(TRUE, 0, <<0>>)>>,
            <<[s |-> <<"x">>], [b |-> TRUE]>>, <<[s |-> <<"_">>]>>}
Fallback == {<<>>, <<Entry(Wildcard, Name("c"))>>, <<Entry(Wildcard, Call("A", <<Name("c")>>))>>,
             <<Entry(Wildcard, Call("A", <<Name("z")>>))>>}
Maps == {Map([i \in DOMAIN w |-> Entry(w[i], Lit(i, <<>>))] \o l) : w \in Written, l \in Fallback}

\* The value c is a number, a Boolean or an operation that fails.
MCUnits ==
  {[m |-> m, c |-> c] : m \in Maps \cup {[op |-> "group", x |-> Map(<<Entry(Text(FALSE, 2, <<0>>), Yes)>>)]},
                        c \in {Lit(3, <<0>>), Yes, Two("/", Yes, Lit(0, <<>>))}}

Computed == {Lit(1, <<5, 0>>), Two("/", Lit(3, <<>>), Lit(2, <<>>)), Two("/", Lit(1, <<>>), Lit(3, <<>>)),
             Two("/", Lit(1, <<>>), Lit(20, <<>>)), Two("+", Lit(7, <<5>>), Lit(2, <<5>>)),
             Two("*", Num(TRUE, 0, <<5>>), Lit(3, <<>>)), Two("!=", Str("x"), Lit(1, <<>>)),
             [op |-> "-", x |-> Lit(0, <<0>>)], [op |-> "-", x |-> Lit(1, <<5>>)],
             [op |-> "group", x |-> Lit(0, <<>>)], Two("==", Lit(1, <<0>>), Lit(1, <<>>)),
             Str("x"), Str("_"), Yes, Name("m"), Lit(2, <<>>)}

MCReferences ==
  {<<Lookup("m", k)>> : k \in Computed}
  \cup {<<Name("c")>>, <<Name("m")>>, <<>>, <<Lookup("c", Yes)>>, <<Str("x")>>, <<Name("z")>>,
        <<Lookup("z", Yes)>>, <<[op |-> "badEscape"]>>, <<Call("A", <<>>)>>,
        <<Map(<<Entry([s |-> <<"m">>], Name("c")), Entry([s |-> <<"d">>], Lit(1, <<>>))>>)>>,
        <<Map(<<Entry([s |-> <<"d">>], Lookup("m", Lit(7, <<>>)))>>)>>}
  \cup {<<Two(o, b, Lookup("m", Lit(7, <<>>)))>> : o \in {"&&", "||"}, b \in {Yes, No}}

\* A body of a leaf: Anchors beside operators that may not select them.
Bodies ==
  {<<Two("&&", Name("m"), Two("==", Call("A", <<>>), Call("B", <<>>))), Call("B", <<Name("m")>>)>>,
   <<Two("||", Two("==", Name("m"), Name("c")), Call("A", <<>>)), [op |-> "!", x |-> Name("m")]>>,
   <<Lookup("m", Call("A", <<Call("B", <<>>)>>))>>,
   <<[op |-> "goal"]>>}
  \cup {<<[op |-> "call", upper |-> u, ident |-> "m", args |-> <<>>]>> : u \in BOOLEAN}

\* The parameter m hides the map, k does not.
MCLeaves ==
  {[destructures |-> d, names |-> <<"m">>, body |-> b] : d \in BOOLEAN, b \in Bodies}
  \cup {[destructures |-> FALSE, names |-> <<n>>, body |-> <<Two("==", Lookup("m", Lit(7, <<>>)), Call("A", <<>>))>>] :
          n \in {"m", "k"}}

MCAnswers == {Good(Bool(TRUE)), Good(Number(<<3, 2>>)), Fail("NoOutputAsValue"), Fail("AnchorFailed")}
=============================================================================
