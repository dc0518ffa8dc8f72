------------------------------- MODULE Values -------------------------------
(***************************************************************************)
(* Runtime values and what the value layer does with them                  *)
(* (client/value.go, client/predicate.go): coercion, arithmetic,           *)
(* reducers, slices, comparison, format verbs, and what a trip through the *)
(* snapshot file makes of a value.                                         *)
(*                                                                         *)
(* A value is a record: its Go type t, the number n it stands for, the     *)
(* elements e of a list or of a map, and for a string the kind k of text   *)
(* that it is, since all that the code asks of a string is what parses it: *)
(*   "empty", "word" (nothing parses it), "digits" (a decimal numeral),    *)
(*   "expo" (a number written with an exponent), "frac" (with a fraction), *)
(*   "stamp" (RFC 3339), "span" (a Go duration), "truth" (true or false),  *)
(*   "escaped" (url_encode changed it), "printed" (fmt.Sprint of a list).  *)
(* Times and durations count nanoseconds, floats count halves.             *)
(***************************************************************************)
EXTENDS Integers, Sequences, SequencesExt

CONSTANTS
  NanosPerSecond,  \* stands for 10^9
  MillisPerSecond, \* stands for 1000
  ExponentFrom     \* stands for 10^6: a float from there on prints with an exponent

ASSUME UnitsAssumption ==
  /\ NanosPerSecond \in Nat \ {0} /\ NanosPerSecond % 2 = 0
  /\ MillisPerSecond \in Nat \ {0} /\ NanosPerSecond % MillisPerSecond = 0
  /\ ExponentFrom \in Nat \ {0}

Value(t, k, n, e) == [t |-> t, k |-> k, n |-> n, e |-> e]
Nil == Value("nil", "", 0, << >>)
Text(k, n) == Value("string", k, n, << >>)
Empty == Text("empty", 0)
Int64(n) == Value("int", "", n, << >>)
Float(halves) == Value("float", "", halves, << >>)
Bool(b) == Value("bool", "", IF b THEN 1 ELSE 0, << >>)
Time(n) == Value("time", "", n, << >>)
Dur(n) == Value("duration", "", n, << >>)
List(e) == Value("list", "", 0, e)
Map(e) == Value("map", "", 0, e)

(* What a call returns: a value; an error, when a value at hand does not    *)
(* fit (a coercion, a comparison, something that is not a list), be it the  *)
(* server's or a literal; or that the document itself is wrong there.       *)
Ok(v) == [ok |-> TRUE, v |-> v]
Error == [ok |-> FALSE, v |-> Nil]
Ill(why) == [ok |-> FALSE, v |-> Text(why, 0)]

(* Go's conversion of a float to an integer drops the fraction. *)
Trunc(halves) == IF halves >= 0 THEN halves \div 2 ELSE -((-halves) \div 2)
-----------------------------------------------------------------------------
(* isZeroRuntime: absent for a ref with a default and for present; numbers *)
(* and booleans never are.                                                  *)
IsZeroRuntime(v) ==
  \/ v = Nil \/ v = Empty
  \/ (v.t \in {"list", "map"} /\ v.e = << >>)

PrintElement(v) ==
  CASE v.t = "nil"      -> Text("word", -1)
    [] v.t = "int"      -> Text("digits", v.n)
    [] v.t = "string"   -> v
    [] v.t = "bool"     -> Text("truth", v.n)
    [] OTHER            -> Value("string", "printed", v.n, <<Text(v.t, 0)>>)

ToText(v) ==
  CASE v.t = "nil"      -> Empty
    [] v.t = "string"   -> v
    [] v.t = "bool"     -> Text("truth", v.n)
    [] v.t = "int"      -> Text("digits", v.n)
    [] v.t = "float"    -> IF v.n % 2 = 1 THEN Text("frac", v.n)
                           ELSE IF v.n \in -2 * ExponentFrom + 1 .. 2 * ExponentFrom - 1
                           THEN Text("digits", v.n \div 2)
                           ELSE Text("expo", v.n \div 2)
    [] v.t = "time"     -> Text("stamp", v.n)
    [] v.t = "duration" -> Text("span", v.n)
    [] OTHER            -> Value("string", "printed", 0, [i \in DOMAIN v.e |-> PrintElement(v.e[i])])

(* time.ParseDuration wants a unit, except after a zero. *)
ToDuration(v) ==
  CASE v.t = "duration" -> Ok(v)
    [] v.t = "string" /\ (v.k = "span" \/ v = Text("digits", 0)) -> Ok(Dur(v.n))
    [] v.t = "int"      -> Ok(Dur(v.n))
    [] v.t = "float"    -> Ok(Dur(Trunc(v.n)))
    [] OTHER            -> Error

ToInt(v) ==
  CASE v.t = "int"      -> Ok(v)
    [] v.t = "float"    -> Ok(Int64(Trunc(v.n)))
    [] v.t = "string" /\ v.k = "digits" -> Ok(Int64(v.n))
    [] v.t = "bool"     -> Ok(Int64(v.n))
    [] OTHER            -> Error

ToBool(v) ==
  CASE v.t = "bool"     -> Ok(v)
    [] v.t = "string" /\ v.k \in {"truth", "digits"} /\ v.n \in {0, 1} -> Ok(Bool(v.n = 1))
    [] v.t \in {"int", "float"} -> Ok(Bool(v.n # 0))
    [] OTHER            -> Error

ToTime(v) ==
  CASE v.t = "time"     -> Ok(v)
    [] v.t = "string" /\ v.k = "stamp" -> Ok(Time(v.n))
    [] v.t = "int"      -> Ok(Time(v.n * NanosPerSecond))
    [] v.t = "float"    -> Ok(Time(v.n * (NanosPerSecond \div 2)))
    [] OTHER            -> Error

(* asTime, asInt64: the coercions that pick how two values are compared. *)
IsTime(v) == v.t = "time" \/ (v.t = "string" /\ v.k = "stamp")
AsInt64(v) == IF v.t = "float" THEN Trunc(v.n) ELSE v.n
IsInt64(v) == v.t \in {"int", "float"}

Verbs == {"string", "int", "bool", "rfc3339", "rfc3339nano", "unix_seconds", "unix_millis",
          "duration", "url_encode", "parse_duration"}

Escaped(s) == IF s.k \in {"stamp", "expo", "printed"} THEN Value("string", "escaped", s.n, <<s>>) ELSE s

(* The closed verb set.  Any other verb is refused when it is evaluated,   *)
(* whatever the value: it is not tried as a time layout (validate.go 52-55). *)
ApplyFormat(verb, v) ==
  LET Of(r, f(_)) == IF r.ok THEN Ok(f(r.v)) ELSE Error
      Whole(n, unit) == n - (n % unit)
  IN CASE verb = "string"         -> Ok(ToText(v))
       [] verb = "int"            -> ToInt(v)
       [] verb = "bool"           -> ToBool(v)
       [] verb = "rfc3339"        -> Of(ToTime(v), LAMBDA x : Text("stamp", Whole(x.n, NanosPerSecond)))
       [] verb = "rfc3339nano"    -> Of(ToTime(v), LAMBDA x : Text("stamp", x.n))
       [] verb = "unix_seconds"   -> Of(ToTime(v), LAMBDA x : Int64(x.n \div NanosPerSecond))
       [] verb = "unix_millis"    -> Of(ToTime(v), LAMBDA x : Int64(x.n \div (NanosPerSecond \div MillisPerSecond)))
       [] verb = "duration"       -> Of(ToDuration(v), LAMBDA x : Text("span", x.n))
       [] verb = "url_encode"     -> Ok(Escaped(ToText(v)))
       [] verb = "parse_duration" -> Of(ToDuration(v), LAMBDA x : Int64(x.n))
       [] OTHER                   -> Ill("verb")
-----------------------------------------------------------------------------
(* Arithmetic. *)

(* da and db are the operands as durations, or the error of that coercion. *)
ArithAdd(a, b, da, db) ==
  IF IsTime(a) THEN IF db.ok THEN Ok(Time(a.n + db.v.n)) ELSE Error
  ELSE IF IsTime(b) THEN IF da.ok THEN Ok(Time(b.n + da.v.n)) ELSE Error
  ELSE IF IsInt64(a) /\ IsInt64(b) THEN Ok(Int64(AsInt64(a) + AsInt64(b)))
  ELSE IF da.ok /\ db.ok THEN Ok(Dur(da.v.n + db.v.n))
  ELSE Error

ArithSubtract(a, b, da, db) ==
  IF IsTime(a) /\ IsTime(b) THEN Ok(Dur(a.n - b.n))
  ELSE IF IsTime(a) THEN IF db.ok THEN Ok(Time(a.n - db.v.n)) ELSE Error
  ELSE IF IsTime(b) THEN Error
  ELSE IF IsInt64(a) /\ IsInt64(b) THEN Ok(Int64(AsInt64(a) - AsInt64(b)))
  ELSE IF da.ok /\ db.ok THEN Ok(Dur(da.v.n - db.v.n))
  ELSE Error

(* An absent operand makes the result absent. *)
EvalArith(verb, a, b) ==
  IF Nil \in {a, b} THEN Ok(Nil)
  ELSE IF verb = "add" THEN ArithAdd(a, b, ToDuration(a), ToDuration(b))
  ELSE ArithSubtract(a, b, ToDuration(a), ToDuration(b))
-----------------------------------------------------------------------------
(* Comparison. *)
Equal(a, b) ==
  IF Nil \in {a, b} THEN a = b
  ELSE a = b \/ ToText(a) = ToText(b)

Sign(x, y) == IF x < y THEN -1 ELSE IF x > y THEN 1 ELSE 0

(* The characters of a text, as far as its order depends on them. *)
Digits(n) == IF n < 0 THEN <<0, n>> ELSE IF n < 10 THEN <<10 + n>> ELSE <<10 + (n \div 10), 10 + (n % 10)>>
Characters(s) ==
  CASE s.k = "empty"  -> << >>
    [] s.k = "digits" -> Digits(s.n)
    [] s.k = "expo"   -> Digits(s.n) \o <<40>>
    [] s.k = "frac"   -> Digits(s.n \div 2) \o <<5>>
    [] s.k = "span"   -> Digits(s.n) \o <<50>>
    [] s.k = "stamp"  -> <<12, 10, s.n>>
    [] s.k = "truth"  -> <<60 + s.n>>
    [] OTHER          -> <<70 + s.n>>

Lexical(x, y) ==
  LET diff == {i \in DOMAIN x \cap DOMAIN y : x[i] # y[i]}
      first == CHOOSE i \in diff : \A j \in diff : i <= j
  IN IF diff = {} THEN Sign(Len(x), Len(y)) ELSE Sign(x[first], y[first])

(* orderedCompare: the first operand picks how. *)
Comparable(a, b) ==
  IF IsTime(a) THEN IsTime(b)
  ELSE IF IsInt64(a) THEN IsInt64(b)
  ELSE a.t = "string" /\ b.t = "string"

OrderedCompare(a, b) ==
  IF IsTime(a) THEN Sign(a.n, b.n)
  ELSE IF IsInt64(a) THEN Sign(AsInt64(a), AsInt64(b))
  ELSE Lexical(Characters(a), Characters(b))

Ordered(verb, c) ==
  CASE verb = "gt"  -> c > 0
    [] verb = "lt"  -> c < 0
    [] verb = "gte" -> c >= 0
    [] verb = "lte" -> c <= 0

(* compare, of the two resolved sides. *)
Compare(verb, lhs, rhs) ==
  IF verb = "eq" THEN [ok |-> TRUE, b |-> Equal(lhs, rhs)]
  ELSE IF Nil \in {lhs, rhs} THEN [ok |-> TRUE, b |-> FALSE]
  ELSE IF ~Comparable(lhs, rhs) THEN [ok |-> FALSE, b |-> FALSE]
  ELSE [ok |-> TRUE, b |-> Ordered(verb, OrderedCompare(lhs, rhs))]
-----------------------------------------------------------------------------
(* Reducers and slices, of a list's elements. *)

(* An element that cannot be compared with the pick so far is passed over. *)
Better(el, pick, greatest) ==
  IF el = Nil THEN pick
  ELSE IF pick = Nil THEN el
  ELSE IF ~Comparable(el, pick) THEN pick
  ELSE IF OrderedCompare(el, pick) = (IF greatest THEN 1 ELSE -1) THEN el ELSE pick

ReduceExtreme(list, greatest) ==
  LET best[i \in 0 .. Len(list)] == IF i = 0 THEN Nil ELSE Better(list[i], best[i - 1], greatest)
  IN best[Len(list)]

NonNil(list) == SelectSeq(list, LAMBDA el : el # Nil)
FirstNonNil(list) == IF NonNil(list) = << >> THEN Nil ELSE Head(NonNil(list))
LastNonNil(list) == IF NonNil(list) = << >> THEN Nil ELSE NonNil(list)[Len(NonNil(list))]

Clamp(i, low, high) == IF i < low THEN low ELSE IF i > high THEN high ELSE i

(* Bounds are clamped, an inverted pair gives the empty list. *)
SliceList(list, from, to) ==
  LET lo == Clamp(from, 0, Len(list))
      hi == Clamp(to, lo, Len(list))
  IN SubSeq(list, lo + 1, hi)
-----------------------------------------------------------------------------
(* FileStore.Save and Load: encoding/json writes a value and reads it back *)
(* into an any.  A list or a map goes through with its elements, see Terms. *)
ScalarThroughJSON(v) ==
  CASE v.t \in {"int", "duration"} -> Float(2 * v.n)
    [] v.t = "time"                -> Text("stamp", v.n)
    [] OTHER                       -> v
=============================================================================
