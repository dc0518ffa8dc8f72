-------------------------------- MODULE Codec --------------------------------
(***************************************************************************)
(* The codec of documents: how a request step, its Values, predicates,     *)
(* paths and decode chain are read from YAML and from JSON and written     *)
(* again (schema/value.go, predicate.go, path.go, decode.go, read.go).     *)
(*                                                                         *)
(* A text is a tree that both syntaxes can spell, its keys distinct and in *)
(* the case the code has them: a record of one field, whose name says what *)
(* it is.  A string is a sequence of tokens: words, "$", a backslash, "{", *)
(* and what ${...} may hold (Segments).  A dotted path is given as its     *)
(* segments, a segment of {parts: ...} as a string.                        *)
(*                                                                         *)
(* What is read is a node [form, info, args]: a variant, its own data and  *)
(* the Values and predicates below it.                                     *)
(***************************************************************************)
EXTENDS Integers, Sequences, FiniteSets, Functions, SequencesExt

CONSTANTS
  Texts,     \* the texts of a request step
  Segments,  \* what may stand in ${...}: token -> [path, default: none or one scalar text]
  Dotted     \* segments with a dot in them -> the words between the dots

ASSUME CodecAssumption == \A t \in Texts : DOMAIN t = {"map"}

VARIABLES
  text,    \* the document as written by its author
  syntax,  \* of the text last read: "yaml" or "json"
  phase,   \* "text", "parsed", "refused", "written", "unwritable", "reread"
  first,   \* what was read from it
  written, \* how that was written
  again    \* what was read from that

vars == <<text, syntax, phase, first, written, again>>
Syntaxes == {"yaml", "json"}

Null == [null |-> TRUE]
IsNull(n) == n = Null
Is(n, kind) == kind \in DOMAIN n
Empty == [k \in {} |-> Null]

Node(f, info, args) == [form |-> f, info |-> info, args |-> args]
NoInfo == [none |-> 0]

(* Value{}, IsZero, Predicate{}, and an error of the codec. *)
Absent == Node("absent", NoInfo, << >>)
Zero == Node("zero", NoInfo, << >>)
NoPredicate == Node("none", NoInfo, << >>)
Failed == Node("failed", NoInfo, << >>)
Literal(s) == Node("literal_string", [str |-> s], << >>)

(* An error anywhere below is an error. *)
Sound(v) == IF \E i \in DOMAIN v.args : v.args[i].form = "failed" THEN Failed ELSE v
-----------------------------------------------------------------------------
(* What a Go string, a bool and a list take from a text.  yaml.v3 puts     *)
(* every scalar into a string, and the words of YAML 1.1 into a bool; it   *)
(* drops a null from a list.  encoding/json does none of this.             *)
NoText == <<"!">>
Yes == {"y", "yes", "on"}
No == {"n", "no", "off"}

Printed(n) ==
  CASE Is(n, "int") -> <<ToString(n.int)>>
    [] Is(n, "bool") -> <<IF n.bool THEN "true" ELSE "false">>
    [] Is(n, "float") -> <<n.float>>

IsScalar(n) == Is(n, "int") \/ Is(n, "bool") \/ Is(n, "float")
StringOf(lang, n) ==
  CASE IsNull(n) -> << >>
    [] Is(n, "str") -> n.str
    [] IsScalar(n) /\ lang = "yaml" -> Printed(n)
    [] OTHER -> NoText

(* The bool, or nothing when it is refused. *)
BoolOf(lang, n) ==
  CASE IsNull(n) -> <<FALSE>>
    [] Is(n, "bool") -> <<n.bool>>
    [] Is(n, "str") /\ lang = "yaml" /\ Len(n.str) = 1 /\ n.str[1] \in Yes \cup No -> <<n.str[1] \in Yes>>
    [] OTHER -> << >>

Kept(lang, s) == IF lang = "yaml" THEN SelectSeq(s, LAMBDA n : ~IsNull(n)) ELSE s
-----------------------------------------------------------------------------
(* Paths. *)
BadPath == <<"!">>
RemovedRoots == {"cursor", "body", "item"}
Malformed == {"9x", "a-b", "7"}

ParsePath(parts) ==
  IF parts # << >> /\ (Contains(parts, "") \/ parts[1] \in RemovedRoots \cup Malformed \cup DOMAIN Dotted)
  THEN BadPath ELSE parts

(* {parts: [...]}, whose segments may hold dots. *)
PartsOf(lang, n) ==
  LET kept == IF Is(n, "seq") THEN Kept(lang, n.seq) ELSE << >>
      segment == [i \in DOMAIN kept |-> StringOf(lang, kept[i])]
  IN IF kept = << >> \/ \E i \in DOMAIN kept : segment[i] \in {<< >>, NoText} THEN BadPath
     ELSE ParsePath([i \in DOMAIN kept |-> segment[i][1]])

(* null, the dotted string or {parts: ...}.  YAML reads any scalar as a    *)
(* dotted string: a bool is an alias, and a number no root.                *)
PathOf(lang, n) ==
  CASE IsNull(n) -> << >>
    [] Is(n, "dotted") -> ParsePath(n.dotted)
    [] Is(n, "bool") /\ lang = "yaml" -> ParsePath(Printed(n))
    [] Is(n, "map") /\ "parts" \in DOMAIN n.map -> PartsOf(lang, n.map.parts)
    [] OTHER -> BadPath

(* Mutant: segments that hold a dot are joined like the others. *)
NeverEscaped(p) ==
  [dotted |-> FoldLeft(LAMBDA s, seg : s \o (IF seg \in DOMAIN Dotted THEN Dotted[seg] ELSE <<seg>>), << >>, p)]

MarshalPath(p) ==
  IF \E i \in DOMAIN p : p[i] \in DOMAIN Dotted THEN [map |-> [parts |-> [seq |-> [i \in DOMAIN p |-> [str |-> <<p[i]>>]]]]]
  ELSE [dotted |-> p]
-----------------------------------------------------------------------------
(* Strings: ${...} becomes a reference, \$ a dollar. *)
Scalar(n) ==
  CASE IsNull(n) -> Zero
    [] Is(n, "int") -> Node("literal_int", [int |-> n.int], << >>)
    [] Is(n, "bool") -> Node("literal_bool", [bool |-> n.bool], << >>)
    [] Is(n, "float") -> Literal(<<n.float>>)
    [] OTHER -> Literal(n.str)

ParseInterpSegment(token) ==
  LET seg == Segments[token]
      p == ParsePath(seg.path)
  IN IF p = BadPath \/ p = << >> THEN Failed
     ELSE Node("ref", [path |-> p], [i \in DOMAIN seg.default |-> Scalar(seg.default[i])])

RECURSIVE Scan(_, _, _)
Scan(s, lit, segs) ==
  LET flushed == IF lit = << >> THEN segs ELSE Append(segs, Literal(lit))
      Starts(t) == Len(s) > 1 /\ s[1] = t
  IN CASE s = << >> -> flushed
       [] Starts("\\") /\ s[2] = "$" -> Scan(SubSeq(s, 3, Len(s)), Append(lit, "$"), segs)
       [] Starts("$") /\ s[2] \in DOMAIN Segments ->
            Scan(SubSeq(s, 3, Len(s)), << >>, Append(flushed, ParseInterpSegment(s[2])))
       [] Starts("$") /\ s[2] = "{" -> <<Failed>>
       [] OTHER -> Scan(Tail(s), Append(lit, s[1]), segs)

DesugarInterpolation(s) ==
  LET segs == Scan(s, << >>, << >>) IN
  CASE ~Contains(s, "$") -> Literal(s)
    [] segs = << >> -> Literal(<< >>)
    [] Len(segs) = 1 -> segs[1]
    [] OTHER -> Sound(Node("concat", NoInfo, segs))
-----------------------------------------------------------------------------
(* Reading.  yaml.v3 does not call the codec of a null: a field that is    *)
(* not a pointer stays as it was, and a list has one element less.         *)
(* encoding/json does call it.                                             *)
RECURSIVE DecodeForm(_, _, _), DecodePredicate(_, _)

ValueKeys == {"literal_string", "ref", "now", "concat", "select", "format", "base64", "list", "object",
              "add", "subtract", "max", "min", "first", "last", "count", "slice", "regex"}
Allowed(f) == {f} \cup (IF f = "ref" THEN {"default"} ELSE IF f = "format" THEN {"value"} ELSE {})
Reducers == {"max", "min", "first", "last", "count"}

(* Mutant: keys beside the discriminator are ignored. *)
DecodeMapLax(lang, m) ==
  LET picked == DOMAIN m \cap ValueKeys IN
  IF Cardinality(picked) # 1 \/ (lang = "json" /\ ~(DOMAIN m \subseteq Allowed(CHOOSE f \in picked : TRUE)))
  THEN Failed ELSE Sound(DecodeForm(lang, CHOOSE f \in picked : TRUE, m))

(* Exactly one discriminator, and no key beside it that it does not know. *)
DecodeMap(lang, m) ==
  LET picked == DOMAIN m \cap ValueKeys IN
  IF Cardinality(picked) # 1 \/ ~(DOMAIN m \subseteq Allowed(CHOOSE f \in picked : TRUE))
  THEN Failed ELSE Sound(DecodeForm(lang, CHOOSE f \in picked : TRUE, m))

Decode(lang, n) ==
  CASE Is(n, "map") -> DecodeMap(lang, n.map)
    [] Is(n, "seq") \/ (Is(n, "float") /\ lang = "json") -> Failed
    [] Is(n, "str") -> DesugarInterpolation(n.str)
    [] OTHER -> Scalar(n)

Element(lang, n) == IF IsNull(n) THEN IF lang = "yaml" THEN Absent ELSE Zero ELSE Decode(lang, n)
Elements(lang, n) ==
  IF ~Is(n, "seq") THEN <<Failed>>
  ELSE LET kept == Kept(lang, n.seq) IN [i \in DOMAIN kept |-> Element(lang, kept[i])]
Field(lang, m, k) == IF k \in DOMAIN m THEN Element(lang, m[k]) ELSE Absent
Optional(lang, m, k) == IF k \in DOMAIN m /\ ~IsNull(m[k]) THEN <<Decode(lang, m[k])>> ELSE << >>

(* A struct: a null leaves it empty, and keys it does not know are ignored. *)
Struct(n) == IF Is(n, "map") THEN n.map ELSE Empty
IsStruct(n) == IsNull(n) \/ Is(n, "map")

WithPath(lang, f, n, args) ==
  LET path == PathOf(lang, n) IN IF path = BadPath THEN Failed ELSE Node(f, [path |-> path], args)
WithText(s, node) == IF s = NoText THEN Failed ELSE node
PathField(m, k) == IF k \in DOMAIN m THEN m[k] ELSE Null

SelectOf(lang, m) ==
  LET branches == IF "branches" \in DOMAIN m /\ ~IsNull(m.branches) THEN Kept(lang, m.branches.seq) ELSE << >>
      When(b) == IF "when" \in DOMAIN b /\ (lang = "json" \/ ~IsNull(b.when)) THEN DecodePredicate(lang, b.when)
                 ELSE NoPredicate
      Branch(b) == Sound(Node("branch", NoInfo, <<When(b), Field(lang, b, "value")>>))
  IN Node("select", NoInfo, Append([i \in DOMAIN branches |-> Branch(Struct(branches[i]))], Field(lang, m, "default")))

Bound(m, k) == IF k \notin DOMAIN m THEN << >> ELSE IF IsNull(m[k]) THEN <<0>> ELSE <<m[k].int>>
SliceOf(lang, m) ==
  LET operand == DOMAIN m \ {"from", "to"} IN
  IF operand = {} THEN Failed
  ELSE Node("slice", [from |-> Bound(m, "from"), to |-> Bound(m, "to")], <<DecodeMap(lang, Restrict(m, operand))>>)

RegexOf(lang, m) ==
  LET pattern == IF "pattern" \in DOMAIN m THEN StringOf(lang, m.pattern) ELSE << >> IN
  IF pattern \in {<< >>, NoText} THEN Failed
  ELSE Node("regex", [pattern |-> pattern, capture |-> IF "capture" \in DOMAIN m THEN m.capture.int ELSE 0],
            <<Field(lang, m, "from")>> \o Optional(lang, m, "default"))

ReducerOperand(lang, n) == IF Is(n, "seq") THEN Sound(Node("list", NoInfo, Elements(lang, n))) ELSE Element(lang, n)

ObjectOf(lang, m) ==
  LET keys == SetToSeq(DOMAIN m) IN Node("object", [keys |-> keys], [i \in DOMAIN keys |-> Element(lang, m[keys[i]])])

DecodeForm(lang, f, m) ==
  LET n == m[f]
      elements == Elements(lang, n)
  IN
  CASE f = "literal_string" -> WithText(StringOf(lang, n), Literal(StringOf(lang, n)))
    [] f = "ref" -> WithPath(lang, "ref", n, Optional(lang, m, "default"))
    [] f = "now" -> IF BoolOf(lang, n) = <<TRUE>> THEN Node("now", NoInfo, << >>) ELSE Failed
    [] f = "concat" -> IF Len(elements) < 2 THEN Failed ELSE Node(f, NoInfo, elements)
    [] f \in {"add", "subtract"} -> IF Len(elements) # 2 THEN Failed ELSE Node(f, NoInfo, elements)
    [] f = "list" -> Node(f, NoInfo, IF IsNull(n) THEN << >> ELSE elements)
    [] f = "object" -> IF IsStruct(n) THEN ObjectOf(lang, Struct(n)) ELSE Failed
    [] f = "base64" -> Node(f, NoInfo, <<Element(lang, n)>>)
    [] f \in Reducers -> Node(f, NoInfo, <<ReducerOperand(lang, n)>>)
    [] f = "format" -> WithText(StringOf(lang, n), Node(f, [verb |-> StringOf(lang, n)], <<Field(lang, m, "value")>>))
    [] f = "select" -> IF IsStruct(n) THEN SelectOf(lang, Struct(n)) ELSE Failed
    [] f = "slice" -> IF Is(n, "map") THEN SliceOf(lang, n.map) ELSE Failed
    [] f = "regex" -> IF IsStruct(n) THEN RegexOf(lang, Struct(n)) ELSE Failed

Comparisons == {"eq", "gt", "lt", "gte", "lte"}
PredicateKeys == Comparisons \cup {"present", "and", "or", "not", "literal_bool"}
Operand(lang, n) == IF IsNull(n) /\ lang = "yaml" THEN NoPredicate ELSE DecodePredicate(lang, n)

DecodePredicate(lang, n) ==
  LET m == Struct(n)
      picked == DOMAIN m \cap PredicateKeys
      f == CHOOSE k \in picked : TRUE
      x == m[f]
  IN IF Cardinality(picked) # 1 \/ DOMAIN m # picked THEN Failed ELSE
     Sound(
       CASE f \in Comparisons -> IF IsStruct(x) THEN WithPath(lang, f, PathField(Struct(x), "path"), <<Field(lang, Struct(x), "value")>>)
                                ELSE Failed
         [] f = "present" -> WithPath(lang, f, x, << >>)
         [] f \in {"and", "or"} -> LET kept == IF Is(x, "seq") THEN Kept(lang, x.seq) ELSE << >> IN
                                   IF kept = << >> THEN Failed
                                   ELSE Node(f, NoInfo, [i \in DOMAIN kept |-> DecodePredicate(lang, kept[i])])
         [] f = "not" -> Node(f, NoInfo, <<Operand(lang, x)>>)
         [] f = "literal_bool" -> IF BoolOf(lang, x) = << >> THEN Failed
                                  ELSE Node("always", [bool |-> BoolOf(lang, x)[1]], << >>))

(* The decode chain: left out (none), or a list of stages, each the set of *)
(* the variants it has.  A scalar names one terminal.                      *)
StageKeys == {"gzip", "zip", "csv", "json", "ndjson"}
BadChain == <<{"!"}>>
StageOf(n) == {k \in DOMAIN Struct(n) \cap StageKeys : ~IsNull(Struct(n)[k])}

ChainOf(lang, n) ==
  CASE IsNull(n) -> IF lang = "yaml" THEN << >> ELSE <<BadChain>>
    [] Is(n, "name") -> IF n.name \in {"json", "ndjson"} THEN <<<<{n.name}>>>> ELSE <<BadChain>>
    [] Is(n, "seq") -> LET kept == Kept(lang, n.seq) IN <<[i \in DOMAIN kept |-> StageOf(kept[i])]>>
    [] OTHER -> <<BadChain>>

(* The part of a request step that the codecs above meet in. *)
DecodeRequest(lang, n) ==
  LET m == n.map
      at == IF "events_at" \in DOMAIN m /\ ~IsNull(m.events_at) THEN <<PathOf(lang, m.events_at)>> ELSE << >>
      chain == IF "decode" \in DOMAIN m THEN ChainOf(lang, m.decode) ELSE << >>
      gate == IF "if" \in DOMAIN m /\ ~IsNull(m["if"]) THEN <<DecodePredicate(lang, m["if"])>> ELSE << >>
  IN IF at = <<BadPath>> \/ chain = <<BadChain>> THEN Failed
     ELSE Sound(Node("request", [events_at |-> at, decode |-> chain], <<Field(lang, m, "url")>> \o gate))
-----------------------------------------------------------------------------
(* Writing, the same tree for both syntaxes. *)
Broken == [broken |-> TRUE]
RECURSIVE Marshal(_)
One(key, n) == IF n = Broken THEN Broken ELSE [map |-> key :> n]
Listed(args) ==
  LET out == [i \in DOMAIN args |-> Marshal(args[i])] IN IF Contains(out, Broken) THEN Broken ELSE [seq |-> out]

(* A mapping of fields, some of them left out. *)
Fields(m) == IF \E k \in DOMAIN m : m[k] = Broken THEN Broken ELSE [map |-> m]
If(cond, key, n) == IF cond THEN key :> n ELSE Empty

MarshalSlice(v) ==
  LET operand == Marshal(v.args[1]) IN
  IF ~Is(operand, "map") THEN Broken
  ELSE One("slice", Fields(operand.map @@ If(v.info.from # << >>, "from", [int |-> v.info.from[1]])
                                       @@ If(v.info.to # << >>, "to", [int |-> v.info.to[1]])))

MarshalForm(v) ==
  CASE v.form = "ref" -> Fields(("ref" :> MarshalPath(v.info.path)) @@ If(v.args # << >>, "default", Marshal(v.args[1])))
    [] v.form = "now" -> One("now", [bool |-> TRUE])
    [] v.form \in {"concat", "list", "add", "subtract"} -> One(v.form, Listed(v.args))
    [] v.form = "object" ->
         One("object", Fields([k \in Range(v.info.keys) |-> Marshal(v.args[CHOOSE i \in DOMAIN v.args : v.info.keys[i] = k])]))
    [] v.form \in Reducers \cup {"base64"} -> One(v.form, Marshal(v.args[1]))
    [] v.form = "format" -> Fields([format |-> [str |-> v.info.verb], value |-> Marshal(v.args[1])])
    [] v.form = "select" -> One("select", Fields([branches |-> Listed(Front(v.args)), default |-> Marshal(Last(v.args))]))
    [] v.form = "branch" -> Fields([when |-> Marshal(v.args[1]), value |-> Marshal(v.args[2])])
    [] v.form = "slice" -> MarshalSlice(v)
    [] v.form = "regex" ->
         One("regex", Fields([pattern |-> [str |-> v.info.pattern], from |-> Marshal(v.args[1])]
                             @@ If(v.info.capture # 0, "capture", [int |-> v.info.capture])
                             @@ If(Len(v.args) = 2, "default", Marshal(v.args[Len(v.args)]))))

MarshalPredicate(v) ==
  CASE v.form \in Comparisons -> One(v.form, Fields([path |-> MarshalPath(v.info.path), value |-> Marshal(v.args[1])]))
    [] v.form = "present" -> One("present", MarshalPath(v.info.path))
    [] v.form \in {"and", "or"} -> One(v.form, Listed(v.args))
    [] v.form = "not" -> One("not", Marshal(v.args[1]))
    [] v.form = "always" -> One("literal_bool", [bool |-> v.info.bool])

Marshal(v) ==
  CASE v.form = "zero" -> Null
    [] v.form \in {"absent", "none"} -> Broken
    [] v.form = "literal_int" -> [int |-> v.info.int]
    [] v.form = "literal_bool" -> [bool |-> v.info.bool]
    [] v.form = "literal_string" -> [str |-> v.info.str]
    [] v.form \in PredicateKeys \cup {"always"} -> MarshalPredicate(v)
    [] OTHER -> MarshalForm(v)

MarshalStage(names) == [map |-> [k \in names |-> [map |-> Empty]]]
MarshalRequest(v) ==
  LET chain == v.info.decode IN
  Fields([url |-> Marshal(v.args[1])]
         @@ If(Len(v.args) = 2, "if", Marshal(v.args[Len(v.args)]))
         @@ If(v.info.events_at # << >>, "events_at", MarshalPath(v.info.events_at[1]))
         @@ If(chain # << >> /\ chain # <<<< >>>>, "decode", [seq |-> [i \in DOMAIN chain[1] |-> MarshalStage(chain[1][i])]]))
-----------------------------------------------------------------------------
Init ==
  /\ text \in Texts /\ syntax \in Syntaxes /\ phase = "text"
  /\ first = Absent /\ written = Null /\ again = Absent

Parse ==
  /\ phase = "text" /\ first' = DecodeRequest(syntax, text)
  /\ phase' = IF first'.form = "failed" THEN "refused" ELSE "parsed"
  /\ UNCHANGED <<text, syntax, written, again>>

Write ==
  /\ phase = "parsed" /\ written' = MarshalRequest(first)
  /\ phase' = IF written' = Broken THEN "unwritable" ELSE "written"
  /\ UNCHANGED <<text, syntax, first, again>>

Reread(lang) ==
  /\ phase = "written" /\ phase' = "reread" /\ again' = DecodeRequest(lang, written) /\ syntax' = lang
  /\ UNCHANGED <<text, first, written>>

Next == Parse \/ Write \/ \E lang \in Syntaxes : Reread(lang)
Spec == Init /\ [][Next]_vars
-----------------------------------------------------------------------------
(* Properties. *)
RECURSIVE HoldsNull(_), Loose(_), LeftOut(_), Loses(_, _)

HoldsNull(n) ==
  \/ IsNull(n)
  \/ Is(n, "seq") /\ \E i \in DOMAIN n.seq : HoldsNull(n.seq[i])
  \/ Is(n, "map") /\ \E k \in DOMAIN n.map : HoldsNull(n.map[k])

(* A scalar of another type than the key wants: a number or a bool for a   *)
(* string or a path, a word for a bool.                                    *)
Mistyped(key, n) ==
  \/ key \in {"literal_string", "format", "pattern", "ref", "present", "path", "events_at"} /\ IsScalar(n)
  \/ key = "parts" /\ Is(n, "seq") /\ \E i \in DOMAIN n.seq : IsScalar(n.seq[i])
  \/ key \in {"now", "literal_bool"} /\ Is(n, "str")

(* A float, or a scalar of the wrong type, somewhere. *)
Loose(n) ==
  \/ Is(n, "float")
  \/ Is(n, "seq") /\ \E i \in DOMAIN n.seq : Loose(n.seq[i])
  \/ Is(n, "map") /\ \E k \in DOMAIN n.map : Loose(n.map[k]) \/ Mistyped(k, n.map[k])

(* "with the same rules as YAML" (value.go, path.go, decode.go), of every  *)
(* document without a null: what JSON reads YAML reads as the same, and    *)
(* what JSON refuses YAML refuses too, but for the floats and the scalars  *)
(* of the wrong type that yaml.v3 makes a string or a bool of.  Of a null  *)
(* the two make different things (a list in YAML loses it).                *)
SameRules ==
  syntax = "json" /\ ~HoldsNull(text) =>
    /\ phase = "parsed" => DecodeRequest("yaml", text) = first
    /\ phase = "refused" /\ ~Loose(text) => DecodeRequest("yaml", text) = Failed

(* A Value or a predicate that must be there is not, or the operand of a   *)
(* slice is a literal, which is written as a scalar.                       *)
LeftOut(v) ==
  \/ v.form \in {"absent", "none"}
  \/ v.form = "slice" /\ v.args[1].form = "literal_string"
  \/ \E i \in DOMAIN v.args : LeftOut(v.args[i])

(* What the written form does not keep.  A literal is written bare, so one *)
(* that holds a "${" or an escape is read as what it spells.  A null that  *)
(* is a default is read as no default; any other null YAML does not keep.  *)
(* decode: [] is written as no decode.                                     *)
Loses(lang, v) ==
  \/ v.form = "literal_string" /\ DesugarInterpolation(v.info.str) # v
  \/ v.form = "zero" /\ lang = "yaml"
  \/ v.form = "ref" /\ v.args = <<Zero>>
  \/ v.form = "request" /\ v.info.decode = <<<< >>>>
  \/ \E i \in DOMAIN v.args : Loses(lang, v.args[i])

(* The canonical form is one (schema/fixtures_test.go round-trips every    *)
(* fixture): what was read can be written unless it lacks something, and   *)
(* what is then read from it, in either syntax, is what it was, but for    *)
(* what Loses lists.  The producer mark of an empty events_at, segments    *)
(* that hold dots and, in JSON, the nulls of lists and fields are kept.    *)
RoundTrips ==
  /\ phase = "unwritable" => LeftOut(first)
  /\ phase = "reread" => again = first \/ Loses(syntax, first)
=============================================================================
