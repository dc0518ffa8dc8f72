-------------------------------- MODULE Terms --------------------------------
(***************************************************************************)
(* The expressions of a document and how the client evaluates them: Values *)
(* and predicates (client/value.go, client/predicate.go), namespace        *)
(* references (client/state.go), body paths and the events list            *)
(* (client/bodypath.go), extracts (client/extract.go) and the fan-out list *)
(* (client/fanout.go).                                                     *)
(*                                                                         *)
(* An expression is a node: its form f, a path p, a name x, two numbers n  *)
(* and m, and its operands kids.  A path is the sequence of its segments.  *)
(* A scope is the record of what a reference can read.  What is computed   *)
(* of an expression is a recursive function over the nodes of bounded      *)
(* depth.                                                                   *)
(*                                                                         *)
(* An evaluation is Ok(v), Error or Ill(why), as in module Values.          *)
(***************************************************************************)
EXTENDS Values

CONSTANT MaxDepth  \* bound: how deep expressions and values nest

ASSUME DepthAssumption == MaxDepth \in Nat

Node(f, p, x, n, m, kids) == [f |-> f, p |-> p, x |-> x, n |-> n, m |-> m, kids |-> kids]
Op(f, kids) == Node(f, << >>, "", 0, 0, kids)

(* The forms of a Value; Blank has none, as a key left out of the file.  An *)
(* object's operands are fields, a select's are the when and the value of   *)
(* each branch in turn, and the default.                                    *)
Blank == Op("blank", << >>)
Null == Op("zero", << >>)
Str(k, n) == Node("str", << >>, k, n, 0, << >>)
IntLit(n) == Node("int", << >>, "", n, 0, << >>)
BoolLit(b) == Node("bool", << >>, "", IF b THEN 1 ELSE 0, 0, << >>)
NowLit == Op("now", << >>)
Ref(p) == Node("ref", p, "", 0, 0, << >>)
RefOr(p, default) == Node("ref", p, "", 0, 0, <<default>>)
Format(verb, v) == Node("format", << >>, verb, 0, 0, <<v>>)
Slice(v, from, to) == Node("slice", << >>, "", from, to, <<v>>)
Regex(pattern, capture, kids) == Node("regex", << >>, pattern, capture, 0, kids)
Field(key, v) == Node("field", << >>, key, 0, 0, <<v>>)

(* The forms of a predicate; NoPredicate has none. *)
NoPredicate == Op("none", << >>)
Cmp(verb, p, v) == Node(verb, p, "", 0, 0, <<v>>)
Present(p) == Node("present", p, "", 0, 0, << >>)
Always(b) == Node("literal", << >>, "", IF b THEN 1 ELSE 0, 0, << >>)

Then(r, f(_)) == IF r.ok THEN f(r.v) ELSE r
Comparisons == {"eq", "gt", "lt", "gte", "lte"}
Reducers == {"max", "min", "first", "last", "count"}

(* What the codec makes of a document: every form with as many operands as *)
(* it has (schema/value.go and predicate.go UnmarshalYAML; see Codec).      *)
ValueForms ==
  {"blank", "zero", "str", "int", "bool", "now", "ref", "concat", "select", "format", "base64", "list", "object",
   "field", "add", "subtract", "slice", "regex"} \cup Reducers
PredicateForms == {"none", "literal", "present", "and", "or", "not"} \cup Comparisons
Unary == {"format", "base64", "field", "slice", "not"} \cup Reducers \cup Comparisons

Formed(w) ==
  /\ w.f \in ValueForms \cup PredicateForms
  /\ w.f \in {"blank", "none"} => w = Op(w.f, << >>)
  /\ w.f \in Unary => Len(w.kids) = 1
  /\ w.f \in {"add", "subtract"} => Len(w.kids) = 2
  /\ w.f = "ref" => Len(w.kids) <= 1
  /\ w.f = "regex" => Len(w.kids) \in {1, 2}
  /\ w.f = "select" => Len(w.kids) % 2 = 1

Over(operands) ==
  {w \in [f : STRING, p : Seq(STRING), x : STRING, n : Int, m : Int, kids : Seq(operands)] : Formed(w)}
NodesTo[d \in 0 .. MaxDepth] == IF d = 0 THEN {} ELSE Over(NodesTo[d - 1])
Nodes == NodesTo[MaxDepth]

(* A node and all that is below it. *)
Subterms(v) ==
  LET below[w \in Nodes] == {w} \cup UNION {below[w.kids[i]] : i \in DOMAIN w.kids} IN below[v]

(* What is bound to names, and those bindings with one more, or another. *)
NothingBound == [x \in {} |-> Nil]
With(f, name, v) == [x \in DOMAIN f \cup {name} |-> IF x = name THEN v ELSE f[x]]

(* Through the snapshot file and back, with all elements. *)
ValuesTo[d \in 0 .. MaxDepth] ==
  IF d = 0 THEN {} ELSE [t : STRING, k : STRING, n : Int, e : Seq(ValuesTo[d - 1])]
ThroughJSON(v) ==
  LET through[w \in ValuesTo[MaxDepth]] ==
        IF w.t \in {"list", "map", "pair"} THEN [w EXCEPT !.e = [i \in DOMAIN @ |-> through[@[i]]]]
        ELSE ScalarThroughJSON(w)
  IN through[v]
-----------------------------------------------------------------------------
(* Paths into values.  A leaf that is missing and one that is null read    *)
(* the same.                                                                *)
Member(v, seg) ==
  LET at == {i \in DOMAIN v.e : v.e[i].t = "pair" /\ v.e[i].k = seg}
  IN IF v.t = "map" /\ at # {} THEN v.e[Min(at)].e[1] ELSE Nil

(* strconv.Atoi, of the numerals that occur. *)
Numerals == [seg \in {"0", "1", "+1", "-1"} |-> CASE seg = "0" -> 0 [] seg = "-1" -> -1 [] OTHER -> 1]
Element(list, seg) ==
  IF seg \in DOMAIN Numerals /\ Numerals[seg] + 1 \in DOMAIN list THEN list[Numerals[seg] + 1] ELSE Nil

Walk(v, rest) == FoldLeft(Member, v, rest)
LookupBodyPath(v, rest) ==
  FoldLeft(LAMBDA w, seg : IF w.t = "list" THEN Element(w.e, seg) ELSE Member(w, seg), v, rest)

(* The ok of lookupBodyPath, which tells a null from a field that is missing. *)
Resolves(v, rest) ==
  rest = << >> \/
    LET at == LookupBodyPath(v, Front(rest)) IN
    IF at.t = "list" THEN Last(rest) \in DOMAIN Numerals /\ Numerals[Last(rest)] + 1 \in DOMAIN at.e
    ELSE at.t = "map" /\ \E i \in DOMAIN at.e : at.e[i].t = "pair" /\ at.e[i].k = Last(rest)

HeaderLookup(headers, name) == IF name \in DOMAIN headers THEN headers[name] ELSE Nil
-----------------------------------------------------------------------------
(* References. *)
ProjectEvents(list, rest) == List([i \in DOMAIN list |-> Walk(list[i], rest)])

ResolveEvents(events, rest) ==
  IF rest = << >> THEN Ok(events)
  ELSE IF events.t # "list" THEN Ok(IF rest = <<"count">> THEN Int64(0) ELSE Nil)
  ELSE LET list == events.e IN
       CASE rest[1] = "count" -> IF Len(rest) = 1 THEN Ok(Int64(Len(list))) ELSE Ill("shape")
         [] rest[1] = "first" -> Ok(Walk(Element(list, "0"), Tail(rest)))
         [] rest[1] = "last"  -> Ok(IF list = << >> THEN Nil ELSE Walk(list[Len(list)], Tail(rest)))
         [] rest[1] = "*"     -> Ok(ProjectEvents(list, Tail(rest)))
         [] OTHER             -> Ok(Walk(Element(list, rest[1]), Tail(rest)))

Named(space, rest) ==
  IF rest = << >> THEN Ill("shape")
  ELSE Ok(IF rest[1] \in DOMAIN space THEN Walk(space[rest[1]], Tail(rest)) ELSE Nil)

ResolveSteps(s, rest) ==
  IF Len(rest) < 2 THEN Ill("shape")
  ELSE IF rest[2] = "body" THEN Named(s.steps, <<rest[1]>> \o SubSeq(rest, 3, Len(rest)))
  ELSE IF rest[2] = "header" /\ Len(rest) >= 3
  THEN Ok(IF rest[1] \in DOMAIN s.stepHeaders THEN HeaderLookup(s.stepHeaders[rest[1]], rest[3]) ELSE Nil)
  ELSE Ill("shape")

ResolveResponse(s, rest) ==
  IF rest = << >> THEN Ill("shape")
  ELSE IF rest[1] = "body" THEN Ok(LookupBodyPath(s.body, Tail(rest)))
  ELSE IF rest[1] = "header" /\ Len(rest) >= 2 THEN Ok(HeaderLookup(s.headers, rest[2]))
  ELSE Ill("shape")

ResolveNamespaceRef(s, p) ==
  IF p = << >> THEN Ill("shape")
  ELSE IF s.binding # "" /\ p[1] = s.binding THEN Ok(Walk(s.item, Tail(p)))
  ELSE CASE p[1] = "state"    -> Named(s.state, Tail(p))
         [] p[1] = "cache"    -> Named(s.cache, Tail(p))
         [] p[1] = "events"   -> ResolveEvents(s.events, Tail(p))
         [] p[1] = "extract"  -> Named(s.extract, Tail(p))
         [] p[1] = "steps"    -> ResolveSteps(s, Tail(p))
         [] p[1] = "response" -> ResolveResponse(s, Tail(p))
         [] OTHER             -> Ill("root")
-----------------------------------------------------------------------------
(* Regular expressions, by what they do: "all" matches any text, "number"  *)
(* and "(number)" match a numeral, the second with one group, "(" does not *)
(* compile.                                                                 *)
Matches(pattern, text) == pattern = "all" \/ text.k = "digits"
Groups(pattern) == IF pattern = "(number)" THEN 1 ELSE 0

(* The match, when the caller's default for no match is the value otherwise. *)
ApplyRegex(pattern, text, capture, otherwise) ==
  IF capture < 0 THEN Ill("capture")
  ELSE IF pattern = "(" THEN Ill("pattern")
  ELSE IF ~Matches(pattern, text) THEN otherwise
  ELSE IF capture > Groups(pattern) THEN Ill("group")
  ELSE Ok(text)

(* The regex and coerce of an extract, a progress or an advance entry: an  *)
(* absent value passes through both.                                        *)
Transformed(r, regex, coerce) ==
  LET Matched(v) == IF regex = "" \/ v = Nil THEN Ok(v) ELSE ApplyRegex(regex, ToText(v), 0, Ok(Nil))
      Coerced(v) == IF coerce = "" \/ v = Nil THEN Ok(v) ELSE ApplyFormat(coerce, v)
  IN Then(Then(r, LAMBDA v : Matched(v)), LAMBDA v : Coerced(v))

(* What texts end to end make: the only one, or a word nothing parses. *)
JoinedTexts(texts) ==
  CASE texts = << >>  -> Empty
    [] Len(texts) = 1 -> texts[1]
    [] OTHER          -> Value("string", "word", Len(texts), << >>)
Joined(parts) == JoinedTexts(SelectSeq([i \in DOMAIN parts |-> ToText(parts[i])], LAMBDA t : t # Empty))
-----------------------------------------------------------------------------
(* The results in order, or the first that is an error. *)
InOrder(r) ==
  LET bad == {i \in DOMAIN r : ~r[i].ok} IN
  IF bad # {} THEN r[Min(bad)] ELSE Ok(List([i \in DOMAIN r |-> r[i].v]))

(* A list, an absent one being empty: what over and a reducer work on. *)
CoerceFanOutList(v) == IF v = Nil THEN Ok(List(<< >>)) ELSE IF v.t = "list" THEN Ok(v) ELSE Error

Reduce(verb, list) ==
  CASE verb = "max"   -> ReduceExtreme(list, TRUE)
    [] verb = "min"   -> ReduceExtreme(list, FALSE)
    [] verb = "first" -> FirstNonNil(list)
    [] verb = "last"  -> LastNonNil(list)
    [] verb = "count" -> Int64(Len(list))

(* The arm of the first answer that is true, or the error before it. *)
FirstTaken(answers, arm(_), otherwise) ==
  LET taken == {i \in DOMAIN answers : ~answers[i].ok \/ answers[i].v.n = 1} IN
  IF taken = {} THEN otherwise ELSE Then(answers[Min(taken)], LAMBDA v : arm(Min(taken)))

EvalSelect(r) ==
  FirstTaken([i \in 1 .. Len(r) \div 2 |-> r[2 * i - 1]], LAMBDA i : r[2 * i], r[Len(r)])

(* evalValue: the value of node v, whose operands evaluate to r.  An       *)
(* operand that the code never gets to is one whose result is not used.    *)
EvalNode(s, v, r) ==
  CASE v.f = "zero"   -> Ok(Nil)
    [] v.f = "str"    -> Ok(Text(v.x, v.n))
    [] v.f = "int"    -> Ok(Int64(v.n))
    [] v.f = "bool"   -> Ok(Bool(v.n = 1))
    [] v.f = "now"    -> Ok(Time(s.now))
    [] v.f = "ref"    -> Then(ResolveNamespaceRef(s, v.p), LAMBDA w :
                            IF ~IsZeroRuntime(w) THEN Ok(w) ELSE IF r = << >> THEN Ok(Nil) ELSE r[1])
    [] v.f = "concat" -> Then(InOrder(r), LAMBDA parts : Ok(Joined(parts.e)))
    [] v.f = "select" -> EvalSelect(r)
    [] v.f = "format" -> Then(r[1], LAMBDA w : ApplyFormat(v.x, w))
    [] v.f = "base64" -> Then(r[1], LAMBDA w : Ok(IF ToText(w) = Empty THEN Empty ELSE Text("word", 64)))
    [] v.f = "list"   -> InOrder(r)
    [] v.f = "field"  -> r[1]
    [] v.f = "object" -> Then(InOrder(r), LAMBDA w :
                            Ok(Map([i \in DOMAIN w.e |-> Value("pair", v.kids[i].x, 0, <<w.e[i]>>)])))
    [] v.f \in {"add", "subtract"} ->
                         IF Len(r) # 2 THEN Ill("operands")
                         ELSE Then(InOrder(r), LAMBDA w : EvalArith(v.f, w.e[1], w.e[2]))
    [] v.f \in Reducers -> Then(Then(r[1], CoerceFanOutList), LAMBDA w : Ok(Reduce(v.f, w.e)))
    [] v.f = "slice"  -> Then(Then(r[1], CoerceFanOutList), LAMBDA w : Ok(List(SliceList(w.e, v.n, v.m))))
    [] v.f = "regex"  -> Then(r[1], LAMBDA w :
                            ApplyRegex(v.x, ToText(w), v.n, IF Len(r) = 1 THEN Ok(Nil) ELSE r[2]))
    [] OTHER          -> Ill("variant")

Compared(c) == IF c.ok THEN Ok(Bool(c.b)) ELSE Error

(* and, or: they stop at the first answer that decides, or fails. *)
FirstDecisive(answers, decisive, otherwise) ==
  LET decides == {i \in DOMAIN answers : ~answers[i].ok \/ answers[i].v = decisive} IN
  IF decides = {} THEN Ok(otherwise) ELSE answers[Min(decides)]

(* evalPredicate; the answer is a boolean value. *)
HoldsNode(s, p, r) ==
  CASE p.f = "literal" -> Ok(Bool(p.n = 1))
    [] p.f = "present" -> Then(ResolveNamespaceRef(s, p.p), LAMBDA v : Ok(Bool(~IsZeroRuntime(v))))
    [] p.f \in Comparisons ->
         Then(InOrder(<<ResolveNamespaceRef(s, p.p), r[1]>>),
              LAMBDA sides : Compared(Compare(p.f, sides.e[1], sides.e[2])))
    [] p.f \in {"and", "or"} -> FirstDecisive(r, Bool(p.f = "or"), Bool(p.f = "and"))
    [] p.f = "not"     -> Then(r[1], LAMBDA b : Ok(Bool(b.n = 0)))
    [] OTHER           -> Ill("variant")

Answer(s, w, r) == IF w.f \in PredicateForms THEN HoldsNode(s, w, r) ELSE EvalNode(s, w, r)
Eval(s, v) ==
  LET eval[w \in Nodes] == Answer(s, w, [i \in DOMAIN w.kids |-> eval[w.kids[i]]]) IN eval[v]
Holds(s, p) == Eval(s, p)
EvalAll(s, kids) == InOrder([i \in DOMAIN kids |-> Eval(s, kids[i])])
-----------------------------------------------------------------------------
(* Extracts.  An entry is a record of its paths to and from, its regex and *)
(* its coerce verb; the walk of the response's own body indexes lists.     *)
ResolveExtractFrom(s, body, headers, p) ==
  CASE p = << >>            -> Ill("shape")
    [] p[1] = "response"    -> ResolveResponse([s EXCEPT !.body = body, !.headers = headers], Tail(p))
    [] p[1] = "steps"       ->
         IF Len(p) >= 3 /\ p[3] = "body"
         THEN Ok(IF p[2] \in DOMAIN s.steps THEN LookupBodyPath(s.steps[p[2]], SubSeq(p, 4, Len(p))) ELSE Nil)
         ELSE ResolveSteps(s, Tail(p))
    [] OTHER                -> Ill("root")

ExtractDest(to) == Len(to) = 2 /\ to[1] \in {"state", "extract"}

(* Entries are applied one after the other, each seeing the one before. *)
RunExtract(acc, body, headers, ev) ==
  LET r == IF ~ExtractDest(ev.to) THEN Ill("destination")
           ELSE Transformed(ResolveExtractFrom(acc.s, body, headers, ev.from), ev.regex, ev.coerce)
  IN IF ~acc.r.ok THEN acc
     ELSE IF ~r.ok THEN [acc EXCEPT !.r = r]
     ELSE IF ev.to[1] = "state" THEN [acc EXCEPT !.s.state = With(@, ev.to[2], r.v)]
     ELSE [acc EXCEPT !.s.extract = With(@, ev.to[2], r.v)]

RunExtracts(s, body, headers, vars) ==
  LET after[k \in 0 .. Len(vars)] ==
        IF k = 0 THEN [r |-> Ok(Nil), s |-> s] ELSE RunExtract(after[k - 1], body, headers, vars[k])
  IN after[Len(vars)]
-----------------------------------------------------------------------------
(* The events of a page. *)
StripBodyRoot(p) ==
  CASE p = << >> -> [ok |-> TRUE, step |-> "", rest |-> << >>]
    [] Len(p) >= 2 /\ p[1] = "response" /\ p[2] = "body" ->
         [ok |-> TRUE, step |-> "", rest |-> SubSeq(p, 3, Len(p))]
    [] Len(p) >= 3 /\ p[1] = "steps" /\ p[3] = "body" ->
         [ok |-> TRUE, step |-> p[2], rest |-> SubSeq(p, 4, Len(p))]
    [] OTHER -> [ok |-> FALSE, step |-> "", rest |-> << >>]

(* A row without the field is passed over, one with a null there is not. *)
LocateRows(rows, at) ==
  LET having == SelectSeq(rows, LAMBDA row : Resolves(row, at))
      got == [i \in DOMAIN having |-> LookupBodyPath(having[i], at)]
  IN IF at = << >> THEN Ok(List(rows))
     ELSE IF \E i \in DOMAIN got : got[i].t # "list" THEN Error
     ELSE Ok(List(FlattenSeq([i \in DOMAIN got |-> got[i].e])))

LocateEvents(body, at, rowOriented) ==
  LET got == LookupBodyPath(body, at) IN
  IF rowOriented THEN IF body.t = "list" THEN LocateRows(body.e, at) ELSE Error
  ELSE IF got = Nil \/ got.t = "list" THEN Ok(got)
  ELSE IF at = << >> THEN Ok(List(<<body>>))
  ELSE Error

(* locateProducerEvents: the producer's own body, or an earlier step's. *)
LocateProducerEvents(s, p, body, rowOriented) ==
  LET from == StripBodyRoot(p) IN
  IF ~from.ok THEN Ill("root")
  ELSE IF from.step = "" THEN LocateEvents(body, from.rest, rowOriented)
  ELSE IF from.step \notin DOMAIN s.steps THEN Error
  ELSE LocateEvents(s.steps[from.step], from.rest, rowOriented)
-----------------------------------------------------------------------------
(* Fan-out. *)
MergeFanOutBodies(mode, bodies) ==
  CASE mode = "wrap" -> Ok(List(bodies))
    [] mode \in {"", "flatten"} ->
         IF \E i \in DOMAIN bodies : bodies[i].t # "list" THEN Error
         ELSE Ok(List(FlattenSeq([i \in DOMAIN bodies |-> bodies[i].e])))
    [] OTHER -> Ill("merge")
=============================================================================
