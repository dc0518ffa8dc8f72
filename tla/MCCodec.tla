------------------------------- MODULE MCCodec -------------------------------
(***************************************************************************)
(* Codec for TLC: every form of a Value and of a predicate over every leaf *)
(* and over some composed operands, in a request step; and the forms of    *)
(* events_at and of decode.                                                *)
(***************************************************************************)
EXTENDS Codec

MCDotted == ("a.b" :> <<"a", "b">>) @@ ("1.5" :> <<"1", "5">>)
MCSegments ==
  ("{p}" :> [path |-> <<"state", "x">>, default |-> << >>]) @@
  ("{p|}" :> [path |-> <<"state", "x">>, default |-> <<[str |-> << >>]>>]) @@
  ("{p|1}" :> [path |-> <<"state", "x">>, default |-> <<[int |-> 1]>>]) @@
  ("{p|null}" :> [path |-> <<"state", "x">>, default |-> <<Null>>]) @@
  ("{}" :> [path |-> << >>, default |-> << >>]) @@
  ("{cursor}" :> [path |-> <<"cursor", "x">>, default |-> << >>])

Str(s) == [str |-> s]
Word == Str(<<"x">>)
Items(s) == [seq |-> s]
M(m) == [map |-> m]
K(key, n) == M(key :> n)
Parts(s) == K("parts", Items(s))
Seg(w) == Str(<<w>>)
PathText == [dotted |-> <<"state", "x">>]

(* Scalars of another type than a string. *)
Others == {[int |-> 7], [bool |-> TRUE], [float |-> "1.5"]}
PathTexts ==
  {Null, [dotted |-> << >>], PathText, [dotted |-> <<"state", "", "x">>], [dotted |-> <<"body", "x">>], [dotted |-> <<"alias">>],
   [dotted |-> <<"9x">>], Parts(<<Seg("steps"), Seg("a.b"), Seg("body")>>), Parts(<<Seg("a.b")>>), Parts(<< >>),
   Parts(<<Seg("state"), Str(<< >>)>>), M([parts |-> Items(<<Seg("state"), Seg("x")>>), note |-> Word]), Items(<< >>), K("parts", Null)}
  \cup Others \cup {Parts(<<n>>) : n \in Others \cup {Null}} \cup {Parts(<<Seg("state"), n>>) : n \in Others \cup {Null}}

Strings == {Str(s) : s \in {<< >>, <<"x">>, <<"x", "$">>, <<"$", "{p}">>, <<"x", "$", "{p|}">>, <<"$", "{p|1}", "$", "{p}">>,
                            <<"$", "{p|null}">>, <<"\\", "$", "{p}">>, <<"x", "\\", "$">>, <<"$", "{">>, <<"$", "{}">>,
                            <<"$", "{cursor}">>, <<"{p}">>}}
Scalars == {Null} \cup Others \cup Strings
RefText == K("ref", PathText)
Refs == {K("ref", p) : p \in PathTexts} \cup {M([ref |-> PathText, default |-> d]) : d \in Scalars}
Leaves == Scalars \cup Refs \cup
  {Items(<<Word>>), M(Empty), K("literal_string", Str(<<"$", "{p}">>)), K("literal_string", Word), K("literal_string", Null),
   K("now", [bool |-> TRUE]), K("now", [bool |-> FALSE]), K("now", Null), K("now", Seg("yes")), K("now", Word), K("note", Word),
   M([ref |-> PathText, defualt |-> Word]), M([ref |-> PathText, list |-> Items(<< >>)])}

When == K("literal_bool", [bool |-> TRUE])
Unary(v) ==
  {K(f, v) : f \in Reducers \cup {"base64"}} \cup {K(f, Items(<<v, Word>>)) : f \in {"concat", "list", "add", "max"}}
  \cup {K(f, Items(<<v>>)) : f \in {"concat", "list", "subtract", "first"}}
  \cup {K(f, Items(<<v, Null, Word>>)) : f \in {"concat", "add"}}
  \cup {K("object", M([a |-> v, ref |-> Word])), M([format |-> Word, value |-> v]),
        K("select", M([branches |-> Items(<<M([when |-> When, value |-> v])>>), default |-> Word])),
        K("select", M([branches |-> Items(<< >>), default |-> v])),
        K("regex", M([pattern |-> Word, from |-> v])),
        K("regex", M([pattern |-> Word, from |-> RefText, capture |-> [int |-> 1], default |-> v]))}
  \cup (IF Is(v, "map") THEN {K("slice", M(v.map @@ (k :> [int |-> 1]))) : k \in {"from", "to"}} \cup {K("slice", v)} ELSE {})

Odd ==
  {K("literal_string", n) : n \in Others} \cup {M([format |-> n, value |-> RefText]) : n \in Others}
  \cup {K("regex", M([pattern |-> n, from |-> RefText])) : n \in Others \cup {Null}} \cup
  {K(f, Null) : f \in {"concat", "list", "object", "add", "base64", "max", "select", "slice", "regex"}} \cup
  {M([format |-> Word]), K("slice", K("from", [int |-> 1])), K("slice", M([ref |-> PathText, from |-> Null])),
   K("slice", M([ref |-> PathText, form |-> [int |-> 1]])), K("regex", M([pattern |-> Str(<< >>), from |-> Word])),
   K("select", M([branches |-> Items(<<Null, M([value |-> Word]), M([when |-> Null, value |-> Word])>>), default |-> Word])),
   K("select", M([branches |-> Items(<<M([when |-> When])>>)])), K("object", Word), K("list", Word)}

Composed == UNION {Unary(v) : v \in {RefText, K("literal_string", Str(<<"$", "{p}">>)), Str(<<"x", "$", "{p}">>)}}
Values == Leaves \cup Odd \cup UNION {Unary(v) : v \in Leaves \cup Composed}

Tests == {K(f, M([path |-> PathText, value |-> v])) : f \in {"eq", "gte"}, v \in Leaves}
  \cup {K(f, M([path |-> p])) : f \in {"lt"}, p \in PathTexts} \cup {K("present", p) : p \in PathTexts}
  \cup {When, Null, Word, K("eq", Null), K("eq", Word), K("literal_bool", Null), K("literal_bool", Seg("off")), K("literal_bool", Word), M([present |-> PathText, eq |-> Null]), M(Empty)}
Predicates == Tests \cup {K(f, Items(s)) : f \in {"and", "or"}, s \in {<< >>} \cup {<<When, t>> : t \in Tests}}
  \cup {K("not", t) : t \in Tests} \cup {K("and", Null)}

Stage(k) == K(k, M(Empty))
Chains == {Null, [name |-> "json"], [name |-> "ndjson"], [name |-> "csv"], Items(<< >>), Items(<<Stage("gzip"), Stage("json")>>),
           Items(<<K("zip", M([glob |-> Word])), K("csv", M([header |-> Word]))>>), Items(<<K("json", Null)>>), Items(<<Null>>),
           Items(<<M([gzip |-> M(Empty), json |-> M(Empty)])>>), M(Empty)}

MCTexts ==
  {M([url |-> v]) : v \in Values} \cup {M([url |-> Word] @@ ("if" :> p)) : p \in Predicates}
  \cup {M([url |-> RefText, events_at |-> p, decode |-> c]) : p \in PathTexts, c \in Chains} \cup {M(Empty)}
=============================================================================
