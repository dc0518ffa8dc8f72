-------------------------- MODULE CheckpointProofs --------------------------
(***************************************************************************)
(* Proofs about the progress recipes, for any source, clock, lag, page     *)
(* size and number of faults.                                              *)
(***************************************************************************)
EXTENDS Checkpoint, WellFoundedInduction, TLAPS

Earlier == {p \in Nat \X Nat : p[1] < p[2]}

(* Induction, over a set of numbers instead of a predicate, so that the    *)
(* provers can use it: what holds of 0, and of n + 1 whenever it holds of   *)
(* n, holds of every number.                                                *)
LEMMA SetInduction ==
  ASSUME NEW S, 0 \in S, \A n \in Nat : n \in S => n + 1 \in S
  PROVE  Nat \subseteq S
<1> DEFINE T == Nat \ S
<1> SUFFICES ASSUME T # {} PROVE FALSE
  OBVIOUS
<1>1. PICK n \in T : \A m \in T : ~(<<m, n>> \in Earlier)
  <2>1. IsWellFoundedOn(Earlier, Nat)
    BY NatLessThanWellFounded DEF Earlier, OpToRel
  <2>2. T \subseteq Nat
    OBVIOUS
  <2> HIDE DEF T
  <2> QED
    BY <2>1, <2>2, WFMin
<1>2. n - 1 \in Nat /\ n - 1 < n /\ (n - 1) + 1 = n
  OBVIOUS
<1>3. n - 1 \in S
  BY <1>1, <1>2 DEF Earlier
<1> QED
  BY <1>2, <1>3

(* A product is divided by its factor without a rest. *)
LEMMA ProductDivides ==
  ASSUME NEW k \in Int, NEW d \in Nat \ {0}
  PROVE  (k * d) \div d = k /\ (k * d) % d = 0
<1> DEFINE q == (k * d) \div d
           r == (k * d) % d
<1>1. q \in Int /\ r \in 0 .. d - 1 /\ k * d = d * q + r
  OBVIOUS
<1> HIDE DEF q, r
<1>2. CASE k > q
  BY <1>1, <1>2
<1>3. CASE k < q
  BY <1>1, <1>3
<1>4. q = k /\ r = 0
  BY <1>1, <1>2, <1>3
<1> QED
  BY <1>4 DEF q, r

Slots == {"last", "start", "end"}
States == {"idle", "request", "answer", "flush", "save"}

(* What a field of the state holds: a time, as it was written or as the    *)
(* snapshot gives it back, or a number that the source or the clock had.   *)
IsStamp(v) ==
  v.n \in Int /\ v \in {At(v.n \div NanosPerSecond), Text("stamp", (v.n \div NanosPerSecond) * NanosPerSecond)}
IsFloat(v) == v.n \in Int /\ v.n \div 2 \in FirstPos .. MaxClock /\ v = Float(2 * (v.n \div 2))
IsInt(v) == v.n \in FirstPos .. MaxClock /\ v = Int64(v.n)
IsMark(v) == v = Nil \/ IsStamp(v) \/ IsFloat(v) \/ IsInt(v)

(* What the recipe writes into last; start and end are of a window. *)
LastMark(r, v) ==
  CASE r.progress = "high_water" -> v = Nil \/ (IF r.field = "stamp" THEN IsStamp(v) ELSE IsFloat(v))
    [] r.progress = "clock"      -> v = Nil \/ IsStamp(v)
    [] r.progress = "clock_unix" -> IsMark(v)
    [] r.progress = "window"     -> v = Nil \/ IsStamp(v)
EndMark(r, v) == v = Nil \/ (r.progress = "window" /\ IsStamp(v))
Marks(r, state) ==
  /\ state = [f \in Slots |-> state[f]]
  /\ LastMark(r, state.last) /\ EndMark(r, state.start) /\ EndMark(r, state.end)

(* What a state asks for, as From and Mark have it for one recipe. *)
Asks(r, state) == IF r.progress = "window" THEN Read(state.start, FirstPos) ELSE Read(state.last, FirstPos)
Begin(pos) == IF pos < FirstPos THEN FirstPos ELSE pos

(* A mark read off the clock stays its distance behind it; a window ends   *)
(* by now and starts before it ends.                                        *)
Distance(r) == IF r.progress = "clock" THEN r.look ELSE 0
Behind(r, state, now) ==
  /\ r.progress \in {"clock", "clock_unix"} => Asks(r, state) <= Begin(now - Distance(r))
  /\ r.progress = "window" =>
       IF state.end = Nil THEN state.start = Nil
       ELSE state.start # Nil /\ Asks(r, state) <= Read(state.end, 0) /\ Read(state.end, 0) <= now

Kinds ==
  /\ recipe \in Recipes
  /\ clock \in FirstPos .. MaxClock /\ pub \in FirstPos - 1 .. clock /\ clock - pub <= recipe.delay
  /\ Marks(recipe, mem) /\ Marks(recipe, file)
  /\ pc \in States /\ waited \in 0 .. Flight /\ faults \in 0 .. MaxFaults
  /\ emitted \subseteq FirstPos .. pub /\ durable \subseteq FirstPos .. pub
  /\ answer.from \in Nat /\ answer.upto \in Nat /\ answer.to \in Int
  /\ FirstPos <= answer.from /\ answer.from <= answer.upto
  /\ answer.upto = answer.from \/ answer.upto <= pub + 1
  /\ cursor.n \in Nat /\ cursor.to \in Int

MarksBehind == Behind(recipe, mem, clock) /\ Behind(recipe, file, clock)

(* The mark of the drain is no older than the saved one. *)
Forward == pc # "idle" => Begin(Asks(recipe, mem)) >= Begin(Asks(recipe, file))

(* Every event before a second is in a set. *)
Has(set, pos) == \A e \in FirstPos .. pos - 1 : e \in set
Accepted == durable \cup emitted

Coverage ==
  Safe(recipe) =>
    /\ Has(durable, Asks(recipe, file))
    /\ pc # "idle" => Has(Accepted, Asks(recipe, mem))
    /\ pc = "save" => emitted = {}
    /\ IF cursor.on THEN recipe.pages = "cursor" /\ Has(Accepted, cursor.n) ELSE cursor = NoCursor
    /\ pc = "answer" =>
         /\ Has(Accepted, answer.from)
         /\ recipe.progress \in {"clock", "clock_unix"} => answer.upto > clock - waited - recipe.delay
         /\ recipe.progress = "window" /\ mem.end # Nil => answer.upto >= Read(mem.end, 0)

IInv == Kinds /\ MarksBehind /\ Forward /\ Coverage
-----------------------------------------------------------------------------
(* Values: what a mark reads as, before and after the snapshot.            *)

(* A time, written or loaded, reads as its second. *)
LEMMA ReadStamp ==
  ASSUME NEW p \in Int, NEW absent, NEW v \in {At(p), Text("stamp", p * NanosPerSecond)}
  PROVE  /\ Read(v, absent) = p /\ v # Nil /\ v # Empty /\ v.t \in {"time", "string"} /\ v.n = p * NanosPerSecond
         /\ IsTime(v) /\ Legible(v) /\ IsStamp(v)
         /\ ScalarThroughJSON(v) = Text("stamp", p * NanosPerSecond)
<1>1. (p * NanosPerSecond) \div NanosPerSecond = p /\ p * NanosPerSecond \in Int
  BY ProductDivides, UnitsAssumption
<1>2. /\ v.n = p * NanosPerSecond /\ ToText(v) = Text("stamp", p * NanosPerSecond)
      /\ v # Nil /\ v # Empty /\ IsTime(v) /\ v.t \in {"time", "string"}
      /\ ScalarThroughJSON(v) = Text("stamp", p * NanosPerSecond)
  <2>1. CASE v = At(p)
    <3>1. v.t = "time" /\ v.n = p * NanosPerSecond
      BY <2>1 DEF At, Time, Value
    <3>2. v # Nil /\ v # Empty
      <4>1. Nil.t = "nil" /\ Empty.t = "string" /\ Empty.k = "empty"
        BY DEF Nil, Empty, Text, Value
      <4> QED
        BY <3>1, <4>1
    <3> QED
      BY <3>1, <3>2 DEF ToText, IsTime, ScalarThroughJSON
  <2>2. CASE v = Text("stamp", p * NanosPerSecond)
    <3>1. v.t = "string" /\ v.k = "stamp" /\ v.n = p * NanosPerSecond
      BY <2>2 DEF Text, Value
    <3>2. v # Nil /\ v # Empty
      <4>1. Nil.t = "nil" /\ Empty.t = "string" /\ Empty.k = "empty"
        BY DEF Nil, Empty, Text, Value
      <4> QED
        BY <3>1, <4>1
    <3> QED
      BY <2>2, <3>1, <3>2 DEF ToText, IsTime, ScalarThroughJSON
  <2> QED
    BY <2>1, <2>2
<1>3. Text("stamp", p * NanosPerSecond).k = "stamp" /\ Text("stamp", p * NanosPerSecond).n = p * NanosPerSecond
  BY DEF Text, Value
<1> QED
  BY <1>1, <1>2, <1>3 DEF Read, Legible, IsStamp

(* A number, written or loaded, reads as itself. *)
LEMMA ReadNumber ==
  ASSUME NEW p \in FirstPos .. MaxClock, NEW absent, NEW v \in {Float(2 * p), Int64(p)}
  PROVE  /\ Read(v, absent) = p /\ v # Nil /\ v.t \in {"int", "float"}
         /\ MaxClock < ExponentFrom => Legible(v)
         /\ ScalarThroughJSON(v) = Float(2 * p) /\ IsFloat(Float(2 * p))
<1>1. p \in Nat /\ (2 * p) % 2 = 0 /\ (2 * p) \div 2 = p
  BY SourceAssumption
<1>2. CASE v = Float(2 * p)
  <2>1. v.t = "float" /\ v.n = 2 * p /\ v # Nil
    BY <1>2 DEF Float, Value, Nil
  <2>2. ToText(v) = IF 2 * p \in -2 * ExponentFrom + 1 .. 2 * ExponentFrom - 1
                    THEN Text("digits", p) ELSE Text("expo", p)
    BY <1>1, <2>1 DEF ToText
  <2>3. ToText(v).n = p /\ ToText(v).k \in {"digits", "expo"}
    BY <2>2 DEF Text, Value
  <2>4. MaxClock < ExponentFrom => ToText(v).k = "digits"
    BY <1>1, <2>2, UnitsAssumption, SourceAssumption DEF Text, Value
  <2>5. ScalarThroughJSON(v) = v
    BY <2>1 DEF ScalarThroughJSON
  <2> QED
    BY <1>1, <1>2, <2>1, <2>3, <2>4, <2>5 DEF Read, Legible, IsFloat
<1>3. CASE v = Int64(p)
  <2>1. v.t = "int" /\ v.n = p /\ v # Nil
    BY <1>3 DEF Int64, Value, Nil
  <2>2. ToText(v) = Text("digits", p) /\ ScalarThroughJSON(v) = Float(2 * p)
    BY <2>1 DEF ToText, ScalarThroughJSON
  <2>3. ToText(v).n = p /\ ToText(v).k = "digits"
    BY <2>2 DEF Text, Value
  <2>4. IsFloat(Float(2 * p))
    <3>1. Float(2 * p).n = 2 * p
      BY DEF Float, Value
    <3> QED
      BY <1>1, <3>1 DEF IsFloat
  <2> QED
    BY <2>1, <2>2, <2>3, <2>4 DEF Read, Legible
<1> QED
  BY <1>2, <1>3

(* Now, less a number of seconds. *)
LEMMA SecondsBack ==
  ASSUME NEW now \in Int, NEW seconds \in Int
  PROVE  EvalArith("subtract", At(now), Text("span", seconds * NanosPerSecond)).v = At(now - seconds)
<1> DEFINE a == At(now)
           b == Text("span", seconds * NanosPerSecond)
<1>1. /\ Nil \notin {a, b} /\ IsTime(a) /\ ~IsTime(b) /\ a.n = now * NanosPerSecond
      /\ ToDuration(b) = Ok(Dur(seconds * NanosPerSecond))
  BY DEF At, Time, Text, Value, Nil, IsTime, ToDuration
<1>2. Ok(Dur(seconds * NanosPerSecond)).ok = TRUE
  BY DEF Ok
<1>3. Ok(Dur(seconds * NanosPerSecond)).v.n = seconds * NanosPerSecond
  BY DEF Ok, Dur, Value
<1> HIDE DEF a, b
<1>4. EvalArith("subtract", a, b) = Ok(Time(now * NanosPerSecond - seconds * NanosPerSecond))
  BY <1>1, <1>2, <1>3 DEF EvalArith, ArithSubtract
<1>5. now * NanosPerSecond - seconds * NanosPerSecond = (now - seconds) * NanosPerSecond
  BY UnitsAssumption
<1>6. Ok(Time((now - seconds) * NanosPerSecond)).v = Time((now - seconds) * NanosPerSecond)
  BY DEF Ok
<1> QED
  BY <1>4, <1>5, <1>6 DEF At, a, b

(* Now, as unix seconds. *)
LEMMA UnixSeconds ==
  ASSUME NEW now \in Int
  PROVE  ApplyFormat("unix_seconds", At(now)).v = Int64(now)
<1>1. ToTime(At(now)) = Ok(At(now)) /\ At(now).n = now * NanosPerSecond
  BY DEF ToTime, At, Time, Value
<1>2. Ok(At(now)).ok = TRUE /\ Ok(At(now)).v = At(now)
  BY DEF Ok
<1>3. ApplyFormat("unix_seconds", At(now)) = Ok(Int64((now * NanosPerSecond) \div NanosPerSecond))
  BY <1>1, <1>2 DEF ApplyFormat
<1>4. (now * NanosPerSecond) \div NanosPerSecond = now
  BY ProductDivides, UnitsAssumption
<1> QED
  BY <1>3, <1>4 DEF Ok

(* ReduceExtreme is defined: the recursion over the list has a solution. *)
LEMMA ReduceDefined ==
  ASSUME NEW list, Len(list) \in Nat, NEW greatest
  PROVE  \E best :
           /\ best = [i \in 0 .. Len(list) |-> IF i = 0 THEN Nil ELSE Better(list[i], best[i - 1], greatest)]
           /\ ReduceExtreme(list, greatest) = best[Len(list)]
<1> DEFINE Solves(g, n) == g = [i \in 0 .. n |-> IF i = 0 THEN Nil ELSE Better(list[i], g[i - 1], greatest)]
           S == {n \in Nat : \E g : Solves(g, n)}
<1>1. 0 \in S
  <2>1. Solves([i \in 0 .. 0 |-> Nil], 0)
    OBVIOUS
  <2> QED
    BY <2>1
<1>2. ASSUME NEW n \in Nat, n \in S PROVE n + 1 \in S
  <2>1. PICK g : Solves(g, n)
    BY <1>2
  <2> DEFINE h == [i \in 0 .. n + 1 |-> IF i <= n THEN g[i] ELSE Better(list[n + 1], g[n], greatest)]
  <2>2. ASSUME NEW i \in 0 .. n + 1
        PROVE  h[i] = IF i = 0 THEN Nil ELSE Better(list[i], h[i - 1], greatest)
    <3>1. CASE i = 0
      BY <2>1, <3>1
    <3>2. CASE i \in 1 .. n
      BY <2>1, <3>2
    <3>3. CASE i = n + 1
      BY <3>3
    <3> QED
      BY <3>1, <3>2, <3>3
  <2>3. Solves(h, n + 1)
    BY <2>2
  <2> HIDE DEF Solves, h
  <2>4. \E k : Solves(k, n + 1)
    BY <2>3
  <2> QED
    BY <2>4
<1> HIDE DEF S
<1>3. Nat \subseteq S
  BY <1>1, <1>2, SetInduction
<1>4. \E g : Solves(g, Len(list))
  BY <1>3 DEF S
<1> DEFINE best == CHOOSE g : Solves(g, Len(list))
<1>5. Solves(best, Len(list))
  BY <1>4
<1>6. ReduceExtreme(list, greatest) = best[Len(list)]
  BY DEF ReduceExtreme
<1> QED
  BY <1>5, <1>6

(* max and min pick an element of the list, or nothing. *)
LEMMA ReducePicks ==
  ASSUME NEW list, Len(list) \in Nat, NEW greatest
  PROVE  ReduceExtreme(list, greatest) = Nil \/ \E i \in 1 .. Len(list) : ReduceExtreme(list, greatest) = list[i]
<1>1. PICK best :
        /\ best = [i \in 0 .. Len(list) |-> IF i = 0 THEN Nil ELSE Better(list[i], best[i - 1], greatest)]
        /\ ReduceExtreme(list, greatest) = best[Len(list)]
  BY ReduceDefined
<1> DEFINE S == {n \in Nat : n <= Len(list) => best[n] = Nil \/ \E i \in 1 .. n : best[n] = list[i]}
<1>2. 0 \in S
  BY <1>1
<1>3. ASSUME NEW n \in Nat, n \in S PROVE n + 1 \in S
  <2> SUFFICES ASSUME n + 1 <= Len(list)
               PROVE  best[n + 1] = Nil \/ \E i \in 1 .. n + 1 : best[n + 1] = list[i]
    OBVIOUS
  <2>1. best[n] = Nil \/ \E i \in 1 .. n : best[n] = list[i]
    BY <1>3
  <2>2. best[n + 1] = Better(list[n + 1], best[n], greatest)
    BY <1>1
  <2>3. best[n + 1] = best[n] \/ best[n + 1] = list[n + 1]
    BY <2>2 DEF Better
  <2> QED
    BY <2>1, <2>3
<1> HIDE DEF S
<1>4. Len(list) \in S
  BY <1>2, <1>3, SetInduction
<1> QED
  BY <1>1, <1>4 DEF S

(* The extreme of two. *)
LEMMA ReduceTwo ==
  ASSUME NEW a, NEW b
  PROVE  ReduceExtreme(<<a, b>>, TRUE) = Better(b, a, TRUE)
<1> DEFINE list == <<a, b>>
<1>1. Len(list) = 2 /\ list[1] = a /\ list[2] = b
  OBVIOUS
<1> HIDE DEF list
<1>2. PICK best :
        /\ best = [i \in 0 .. Len(list) |-> IF i = 0 THEN Nil ELSE Better(list[i], best[i - 1], TRUE)]
        /\ ReduceExtreme(list, TRUE) = best[Len(list)]
  BY <1>1, ReduceDefined
<1>3. best[0] = Nil /\ best[1] = Better(a, best[0], TRUE) /\ best[2] = Better(b, best[1], TRUE)
  <2>1. \A i \in 0 .. 2 : best[i] = IF i = 0 THEN Nil ELSE Better(list[i], best[i - 1], TRUE)
    BY <1>1, <1>2
  <2>2. 0 \in 0 .. 2 /\ 1 \in 0 .. 2 /\ 2 \in 0 .. 2 /\ 1 - 1 = 0 /\ 2 - 1 = 1 /\ 1 # 0 /\ 2 # 0
    OBVIOUS
  <2>3. best[0] = Nil
    BY <2>1, <2>2
  <2>4. best[1] = Better(list[1], best[1 - 1], TRUE)
    BY <2>1, <2>2
  <2>5. best[2] = Better(list[2], best[2 - 1], TRUE)
    BY <2>1, <2>2
  <2> QED
    BY <1>1, <2>2, <2>3, <2>4, <2>5
<1>4. Better(a, Nil, TRUE) = a
  BY DEF Better
<1> QED
  BY <1>1, <1>2, <1>3, <1>4 DEF list
-----------------------------------------------------------------------------
(* Marks: what the recipes write.                                          *)

(* A mark is nothing, the time of a second, or the number of one. *)
LEMMA MarkShape ==
  ASSUME NEW v, IsMark(v), v # Nil
  PROVE  \E p \in Int : \/ v \in {At(p), Text("stamp", p * NanosPerSecond)}
                        \/ p \in FirstPos .. MaxClock /\ v \in {Float(2 * p), Int64(p)}
<1>1. CASE IsStamp(v)
  <2>1. v.n \div NanosPerSecond \in Int
    BY <1>1, UnitsAssumption DEF IsStamp
  <2> QED
    BY <1>1, <2>1 DEF IsStamp
<1>2. CASE IsFloat(v)
  BY <1>2, SourceAssumption DEF IsFloat
<1>3. CASE IsInt(v)
  BY <1>3, SourceAssumption DEF IsInt
<1> QED
  BY <1>1, <1>2, <1>3 DEF IsMark

(* A mark reads as an integer, and the same after the snapshot. *)
LEMMA ReadMark ==
  ASSUME NEW v, IsMark(v), v # Nil, NEW a, NEW b
  PROVE  /\ Read(v, a) \in Int /\ Read(v, b) = Read(v, a)
         /\ ScalarThroughJSON(v) # Nil /\ IsMark(ScalarThroughJSON(v))
         /\ Read(ScalarThroughJSON(v), b) = Read(v, a)
         /\ IsStamp(v) => IsStamp(ScalarThroughJSON(v))
         /\ IsFloat(v) => IsFloat(ScalarThroughJSON(v))
         /\ ~IsZeroRuntime(v)
         /\ IsStamp(v) \/ MaxClock < ExponentFrom => Legible(v)
<1>1. PICK p \in Int : \/ v \in {At(p), Text("stamp", p * NanosPerSecond)}
                       \/ p \in FirstPos .. MaxClock /\ v \in {Float(2 * p), Int64(p)}
  BY MarkShape
<1>2. CASE v \in {At(p), Text("stamp", p * NanosPerSecond)}
  <2>1. /\ Read(v, a) = p /\ Read(v, b) = p /\ v # Empty /\ v.t \in {"time", "string"} /\ IsStamp(v) /\ Legible(v)
        /\ ScalarThroughJSON(v) = Text("stamp", p * NanosPerSecond)
    BY <1>2, ReadStamp
  <2> DEFINE w == Text("stamp", p * NanosPerSecond)
  <2> HIDE DEF w
  <2>2. Read(w, b) = p /\ w # Nil /\ IsStamp(w)
    BY ReadStamp DEF w
  <2>3. ~IsFloat(v)
    <3>1. \A n : Float(n).t = "float"
      BY DEF Float, Value
    <3> QED
      BY <2>1, <3>1 DEF IsFloat
  <2>4. ~IsZeroRuntime(v)
    BY <2>1 DEF IsZeroRuntime
  <2> QED
    BY <2>1, <2>2, <2>3, <2>4 DEF w, IsMark
<1>3. CASE p \in FirstPos .. MaxClock /\ v \in {Float(2 * p), Int64(p)}
  <2>1. /\ Read(v, a) = p /\ Read(v, b) = p /\ v.t \in {"int", "float"} /\ (MaxClock < ExponentFrom => Legible(v))
        /\ ScalarThroughJSON(v) = Float(2 * p) /\ IsFloat(Float(2 * p))
    BY <1>3, ReadNumber
  <2> DEFINE w == Float(2 * p)
  <2> HIDE DEF w
  <2>2. Read(w, b) = p /\ w # Nil /\ IsFloat(w)
    BY <1>3, ReadNumber DEF w
  <2>3. ~IsStamp(v)
    <3>1. \A n : At(n).t = "time" /\ Text("stamp", n).t = "string"
      BY DEF At, Time, Text, Value
    <3> QED
      BY <2>1, <3>1 DEF IsStamp
  <2>4. ~IsZeroRuntime(v)
    <3>1. Empty.t = "string"
      BY DEF Empty, Text, Value
    <3> QED
      BY <2>1, <3>1 DEF IsZeroRuntime
  <2> QED
    BY <2>1, <2>2, <2>3, <2>4 DEF w, IsMark
<1> QED
  BY <1>1, <1>2, <1>3

(* What a recipe writes is a mark, and what the snapshot makes of it is    *)
(* one that the recipe could have written.                                  *)
LEMMA MarkKind ==
  ASSUME NEW r \in Recipes, NEW v
  PROVE  /\ LastMark(r, v) => IsMark(v)
         /\ EndMark(r, v) => IsMark(v)
         /\ LastMark(r, v) /\ v # Nil => LastMark(r, ScalarThroughJSON(v))
         /\ EndMark(r, v) /\ v # Nil => EndMark(r, ScalarThroughJSON(v))
<1>1. r.progress \in {"high_water", "clock", "clock_unix", "window"}
  BY RecipesAssumption DEF RecipeSpace
<1>2. /\ LastMark(r, v) => IsMark(v)
      /\ EndMark(r, v) => IsMark(v)
  BY <1>1 DEF LastMark, EndMark, IsMark
<1>3. ASSUME IsMark(v), v # Nil
      PROVE  /\ IsStamp(v) => IsStamp(ScalarThroughJSON(v))
             /\ IsFloat(v) => IsFloat(ScalarThroughJSON(v))
             /\ IsMark(ScalarThroughJSON(v))
  BY <1>3, ReadMark
<1> QED
  BY <1>1, <1>2, <1>3 DEF LastMark, EndMark

(* The default of a state: the look-back reaches to before the source. *)
LEMMA DefaultMark ==
  ASSUME recipe \in Recipes, clock \in FirstPos .. MaxClock
  PROVE  /\ Defaults.start = Nil /\ Defaults.end = Nil /\ LastMark(recipe, Defaults.last)
         /\ Read(Defaults.last, FirstPos) <= FirstPos /\ Read(Defaults.last, FirstPos) \in Int
<1>1. recipe.progress \in {"high_water", "clock", "clock_unix", "window"} /\ recipe.field \in {"stamp", "number"}
  BY RecipesAssumption DEF RecipeSpace
<1>2. Unset.last = Nil /\ Unset.start = Nil /\ Unset.end = Nil
  BY DEF Unset
<1>3. CASE recipe.progress = "window" \/ recipe.field = "number"
  <2>1. Defaults = Unset
    BY <1>3 DEF Defaults
  <2>2. LastMark(recipe, Nil)
    BY <1>1 DEF LastMark, IsMark
  <2>3. Read(Nil, FirstPos) = FirstPos /\ FirstPos \in Int
    BY SourceAssumption DEF Read
  <2> QED
    BY <1>2, <2>1, <2>2, <2>3
<1>4. CASE recipe.progress # "window" /\ recipe.field = "stamp"
  <2>1. PICK p \in Int : p = clock - Lookback /\ p <= FirstPos
    BY SourceAssumption
  <2>2. Defaults = [Unset EXCEPT !.last = At(p)]
    <3>1. clock \in Int /\ Lookback \in Int
      BY SourceAssumption
    <3>2. EvalArith("subtract", At(clock), Text("span", Lookback * NanosPerSecond)).v = At(p)
      BY <2>1, <3>1, SecondsBack
    <3>3. Defaults = [Unset EXCEPT !.last = EvalArith("subtract", At(clock), Text("span", Lookback * NanosPerSecond)).v]
      BY <1>4 DEF Defaults
    <3> QED
      BY <3>2, <3>3
  <2>3. Defaults.last = At(p) /\ Defaults.start = Nil /\ Defaults.end = Nil
    BY <1>2, <2>2 DEF Unset
  <2>4. Read(At(p), FirstPos) = p /\ IsStamp(At(p))
    BY ReadStamp
  <2> QED
    BY <1>1, <1>4, <2>1, <2>3, <2>4 DEF LastMark, IsMark
<1> QED
  BY <1>1, <1>3, <1>4

(* A drain begins with what the last one saved: the same mark, of the same *)
(* kind, as far behind.                                                     *)
LEMMA LoadedMark ==
  ASSUME Kinds, MarksBehind
  PROVE  /\ Marks(recipe, Loaded) /\ Behind(recipe, Loaded, clock)
         /\ Asks(recipe, Loaded) \in Int /\ Asks(recipe, file) \in Int
         /\ Begin(Asks(recipe, Loaded)) = Begin(Asks(recipe, file))
<1>1. /\ recipe \in Recipes /\ clock \in FirstPos .. MaxClock /\ Marks(recipe, file) /\ FirstPos \in Nat
      /\ Behind(recipe, file, clock)
  BY SourceAssumption DEF Kinds, MarksBehind
<1>2. recipe.progress \in {"high_water", "clock", "clock_unix", "window"}
  BY <1>1, RecipesAssumption DEF RecipeSpace
<1>3. /\ Loaded = [f \in Slots |-> Loaded[f]]
      /\ Loaded.last = IF file.last = Nil THEN Defaults.last ELSE ScalarThroughJSON(file.last)
      /\ Loaded.start = IF file.start = Nil THEN Defaults.start ELSE ScalarThroughJSON(file.start)
      /\ Loaded.end = IF file.end = Nil THEN Defaults.end ELSE ScalarThroughJSON(file.end)
  <2>1. DOMAIN Unset = Slots
    BY DEF Unset, Slots
  <2>2. Loaded = [f \in Slots |-> IF file[f] = Nil THEN Defaults[f] ELSE ScalarThroughJSON(file[f])]
    BY <2>1 DEF Loaded
  <2> QED
    BY <2>2 DEF Slots
<1>4. /\ Defaults.start = Nil /\ Defaults.end = Nil /\ LastMark(recipe, Defaults.last)
      /\ Read(Defaults.last, FirstPos) <= FirstPos /\ Read(Defaults.last, FirstPos) \in Int
  BY <1>1, DefaultMark
<1>5. LastMark(recipe, file.last) /\ EndMark(recipe, file.start) /\ EndMark(recipe, file.end)
  BY <1>1 DEF Marks
<1>6. LastMark(recipe, Loaded.last) /\ EndMark(recipe, Loaded.start) /\ EndMark(recipe, Loaded.end)
  BY <1>1, <1>3, <1>4, <1>5, MarkKind DEF EndMark
<1>7. /\ file.last = Nil => /\ Read(file.last, FirstPos) = FirstPos
                            /\ Read(Loaded.last, FirstPos) <= FirstPos /\ Read(Loaded.last, FirstPos) \in Int
      /\ file.last # Nil => /\ Read(Loaded.last, FirstPos) = Read(file.last, FirstPos)
                            /\ Read(file.last, FirstPos) \in Int
  <2>1. file.last # Nil => IsMark(file.last)
    BY <1>1, <1>5, MarkKind
  <2> QED
    BY <1>3, <1>4, <2>1, ReadMark DEF Read
<1>8. /\ file.start = Nil => Loaded.start = Nil /\ Read(file.start, FirstPos) = FirstPos
      /\ file.start # Nil => /\ Read(Loaded.start, FirstPos) = Read(file.start, FirstPos)
                             /\ Read(file.start, FirstPos) \in Int
                             /\ Loaded.start # Nil
  <2>1. file.start # Nil => IsMark(file.start)
    BY <1>1, <1>5, MarkKind
  <2> QED
    BY <1>3, <1>4, <2>1, ReadMark DEF Read
<1>9. /\ file.end = Nil => Loaded.end = Nil
      /\ file.end # Nil => Read(Loaded.end, 0) = Read(file.end, 0) /\ Loaded.end # Nil
  <2>1. file.end # Nil => IsMark(file.end)
    BY <1>1, <1>5, MarkKind
  <2> QED
    BY <1>3, <1>4, <2>1, ReadMark
<1>10. Begin(Asks(recipe, Loaded)) = Begin(Asks(recipe, file))
       /\ Asks(recipe, Loaded) \in Int /\ Asks(recipe, file) \in Int
  BY <1>1, <1>7, <1>8 DEF Asks, Begin, Read
<1>11. Behind(recipe, Loaded, clock)
  <2>1. CASE recipe.progress \in {"clock", "clock_unix"}
    <3>1. clock - Distance(recipe) \in Int
      BY <1>1, RecipesAssumption DEF Distance, RecipeSpace
    <3>2. Asks(recipe, file) <= Begin(clock - Distance(recipe))
      BY <1>1, <2>1 DEF Behind
    <3>3. Asks(recipe, Loaded) <= Begin(clock - Distance(recipe))
      BY <1>1, <1>7, <2>1, <3>1, <3>2 DEF Asks, Begin
    <3> QED
      BY <2>1, <3>3 DEF Behind
  <2>2. CASE recipe.progress = "window"
    BY <1>1, <1>8, <1>9, <2>2 DEF Behind, Asks
  <2>3. CASE recipe.progress = "high_water"
    BY <2>3 DEF Behind
  <2> QED
    BY <1>2, <2>1, <2>2, <2>3
<1>12. Marks(recipe, Loaded)
  BY <1>3, <1>6 DEF Marks
<1> QED
  BY <1>10, <1>11, <1>12

(* A field of an event is a mark of its second. *)
LEMMA FieldMark ==
  ASSUME recipe \in Recipes, NEW p \in FirstPos .. MaxClock, NEW a
  PROVE  /\ Field(p) # Nil /\ Read(Field(p), a) = p
         /\ IF recipe.field = "stamp" THEN IsStamp(Field(p)) ELSE IsFloat(Field(p))
<1>1. p \in Int
  OBVIOUS
<1>2. CASE recipe.field = "stamp"
  <2> DEFINE v == Text("stamp", p * NanosPerSecond)
  <2>1. Field(p) = v
    BY <1>2 DEF Field
  <2> HIDE DEF v
  <2>2. v # Nil /\ Read(v, a) = p /\ IsStamp(v)
    BY <1>1, ReadStamp DEF v
  <2> QED
    BY <1>2, <2>1, <2>2
<1>3. CASE recipe.field # "stamp"
  <2> DEFINE v == Float(2 * p)
  <2>1. Field(p) = v
    BY <1>3 DEF Field
  <2> HIDE DEF v
  <2>2. v # Nil /\ Read(v, a) = p /\ IsFloat(v)
    BY ReadNumber DEF v
  <2> QED
    BY <1>3, <2>1, <2>2
<1> QED
  BY <1>2, <1>3

(* The greater of a mark and a field is the field only if that is later. *)
LEMMA BetterMark ==
  ASSUME recipe \in Recipes, recipe.progress = "high_water", NEW p \in FirstPos .. MaxClock,
         NEW v, LastMark(recipe, v)
  PROVE  \/ Better(Field(p), v, TRUE) = v
         \/ Better(Field(p), v, TRUE) = Field(p) /\ (v = Nil \/ Read(v, FirstPos) < p)
<1>1. Field(p) # Nil /\ p \in Int
  BY FieldMark
<1>2. CASE v = Nil
  BY <1>1, <1>2 DEF Better
<1>3. CASE v # Nil /\ recipe.field = "stamp"
  <2>1. IsStamp(v)
    BY <1>3 DEF LastMark
  <2>2. PICK q \in Int : v \in {At(q), Text("stamp", q * NanosPerSecond)}
    BY <2>1, UnitsAssumption DEF IsStamp
  <2>3. v.n = q * NanosPerSecond /\ IsTime(v) /\ Read(v, FirstPos) = q
    BY <2>2, ReadStamp
  <2>4. Field(p).n = p * NanosPerSecond /\ IsTime(Field(p))
    BY <1>3 DEF Field, IsTime, Text, Value
  <2>5. Better(Field(p), v, TRUE) = IF Sign(p * NanosPerSecond, q * NanosPerSecond) = 1 THEN Field(p) ELSE v
    BY <1>1, <1>3, <2>3, <2>4 DEF Better, Comparable, OrderedCompare
  <2>6. Sign(p * NanosPerSecond, q * NanosPerSecond) = 1 => q < p
    BY <1>1, UnitsAssumption DEF Sign
  <2> QED
    BY <2>3, <2>5, <2>6
<1>4. CASE v # Nil /\ recipe.field # "stamp"
  <2>1. IsFloat(v)
    BY <1>4 DEF LastMark
  <2>2. PICK q \in FirstPos .. MaxClock : v = Float(2 * q)
    BY <2>1 DEF IsFloat
  <2>3. Read(v, FirstPos) = q
    BY <2>2, ReadNumber
  <2>4. v.t = "float" /\ v.n = 2 * q /\ Field(p).t = "float" /\ Field(p).n = 2 * p
    BY <1>4, <2>2 DEF Field, Float, Value
  <2>5. AsInt64(v) = q /\ AsInt64(Field(p)) = p
    BY <2>4, SourceAssumption DEF AsInt64, Trunc
  <2>6. ~IsTime(Field(p)) /\ IsInt64(Field(p)) /\ IsInt64(v)
    BY <2>4 DEF IsTime, IsInt64
  <2>7. Better(Field(p), v, TRUE) = IF Sign(p, q) = 1 THEN Field(p) ELSE v
    BY <1>1, <1>4, <2>5, <2>6 DEF Better, Comparable, OrderedCompare
  <2>8. Sign(p, q) = 1 => q < p
    BY DEF Sign
  <2> QED
    BY <2>3, <2>7, <2>8
<1> QED
  BY <1>2, <1>3, <1>4

(* The high-water mark stays where it is, or moves up to an event of the   *)
(* page.                                                                    *)
LEMMA HighMark ==
  ASSUME Kinds, recipe.progress = "high_water"
  PROVE  \/ HighWater(answer) = mem.last
         \/ \E p \in FirstPos .. MaxClock :
              /\ p \in Events(answer) /\ HighWater(answer) = Field(p)
              /\ mem.last = Nil \/ Read(mem.last, FirstPos) < p
<1>1. /\ recipe \in Recipes /\ LastMark(recipe, mem.last)
      /\ answer.from \in Nat /\ answer.upto \in Nat /\ FirstPos <= answer.from /\ answer.from <= answer.upto
      /\ answer.upto = answer.from \/ answer.upto <= pub + 1
      /\ pub \in FirstPos - 1 .. clock /\ clock \in FirstPos .. MaxClock
  BY DEF Kinds, Marks
<1> DEFINE n == answer.upto - answer.from
           list == Fields(answer)
           inner == ReduceExtreme(list, TRUE)
<1>2. n \in Nat /\ list = [i \in 1 .. n |-> Field(answer.from + i - 1)]
  BY <1>1 DEF Fields
<1> HIDE DEF n, list
<1>3. Len(list) = n /\ \A i \in 1 .. n : list[i] = Field(answer.from + i - 1)
  BY <1>2
<1>4. inner = Nil \/ \E i \in 1 .. n : inner = list[i]
  BY <1>2, <1>3, ReducePicks
<1>5. inner = Nil \/ \E p \in FirstPos .. MaxClock : p \in Events(answer) /\ inner = Field(p)
  <2> SUFFICES ASSUME NEW i \in 1 .. n, inner = list[i]
               PROVE  \E p \in FirstPos .. MaxClock : p \in Events(answer) /\ inner = Field(p)
    BY <1>4
  <2>1. answer.from + i - 1 \in FirstPos .. MaxClock /\ answer.from + i - 1 \in Events(answer)
    BY <1>1, <1>2, SourceAssumption DEF Events, n
  <2> QED
    BY <1>3, <2>1
<1>6. HighWater(answer) = Better(inner, mem.last, TRUE)
  BY ReduceTwo DEF HighWater, list
<1> HIDE DEF inner
<1>7. CASE inner = Nil
  BY <1>6, <1>7 DEF Better
<1>8. ASSUME NEW p \in FirstPos .. MaxClock, p \in Events(answer), inner = Field(p)
      PROVE  \/ HighWater(answer) = mem.last
             \/ /\ p \in Events(answer) /\ HighWater(answer) = Field(p)
                /\ mem.last = Nil \/ Read(mem.last, FirstPos) < p
  BY <1>1, <1>6, <1>8, BetterMark
<1> QED
  BY <1>5, <1>7, <1>8

(* What an accepted page makes of the marks: they are of the same kind,    *)
(* stay behind the clock, never move back, and how far they move.          *)
LEMMA AppliedMark ==
  ASSUME Kinds, MarksBehind, pc = "answer"
  PROVE  LET m == ApplyProgress(answer) IN
         /\ Marks(recipe, m) /\ Behind(recipe, m, clock)
         /\ Asks(recipe, m) \in Int /\ Asks(recipe, mem) \in Int
         /\ Begin(Asks(recipe, m)) >= Begin(Asks(recipe, mem))
         /\ recipe.progress = "high_water" =>
              Asks(recipe, m) = Asks(recipe, mem) \/ Asks(recipe, m) < answer.upto
         /\ recipe.progress \in {"clock", "clock_unix"} => Asks(recipe, m) = clock - Distance(recipe)
         /\ recipe.progress = "window" =>
              IF mem.end = Nil THEN Asks(recipe, m) <= FirstPos ELSE Asks(recipe, m) = Read(mem.end, 0)
<1> DEFINE m == ApplyProgress(answer)
<1>1. /\ recipe \in Recipes /\ clock \in FirstPos .. MaxClock /\ Marks(recipe, mem) /\ FirstPos \in Nat
      /\ Behind(recipe, mem, clock) /\ answer.upto \in Nat /\ answer.from \in Nat /\ clock \in Int
      /\ MaxClock \in Nat /\ Lookback \in Nat /\ MaxClock - FirstPos <= Lookback
  BY SourceAssumption DEF Kinds, MarksBehind
<1>2. recipe.progress \in {"high_water", "clock", "clock_unix", "window"} /\ recipe.look \in Nat
  BY <1>1, RecipesAssumption DEF RecipeSpace
<1>3. /\ mem = [f \in Slots |-> mem[f]]
      /\ LastMark(recipe, mem.last) /\ EndMark(recipe, mem.start) /\ EndMark(recipe, mem.end)
  BY <1>1 DEF Marks
<1>4. Asks(recipe, mem) \in Int
  <2>1. IsMark(mem.last) /\ IsMark(mem.start)
    BY <1>1, <1>3, MarkKind
  <2>2. Read(mem.last, FirstPos) \in Int /\ Read(mem.start, FirstPos) \in Int
    BY <1>1, <2>1, ReadMark DEF Read
  <2> QED
    BY <2>2 DEF Asks
<1>5. ASSUME NEW v, recipe.progress # "window", m = [mem EXCEPT !.last = v], LastMark(recipe, v)
      PROVE  /\ Marks(recipe, m) /\ Asks(recipe, m) = Read(v, FirstPos)
             /\ Asks(recipe, mem) = Read(mem.last, FirstPos)
  <2>1. m.last = v /\ m.start = mem.start /\ m.end = mem.end /\ m = [f \in Slots |-> m[f]]
    BY <1>3, <1>5 DEF Slots
  <2> HIDE DEF m
  <2> QED
    BY <1>3, <1>5, <2>1 DEF Marks, Asks
<1>6. CASE recipe.progress = "high_water"
  <2>1. m = [mem EXCEPT !.last = HighWater(answer)]
    BY <1>6 DEF ApplyProgress
  <2>2. Behind(recipe, m, clock)
    BY <1>6 DEF Behind
  <2>3. CASE HighWater(answer) = mem.last
    <3>1. Marks(recipe, m) /\ Asks(recipe, m) = Asks(recipe, mem)
      BY <1>3, <1>5, <1>6, <2>1, <2>3
    <3> QED
      BY <1>1, <1>4, <1>6, <2>2, <3>1 DEF Begin
  <2>4. ASSUME NEW p \in FirstPos .. MaxClock, p \in Events(answer), HighWater(answer) = Field(p),
               mem.last = Nil \/ Read(mem.last, FirstPos) < p
        PROVE  /\ Marks(recipe, m) /\ Asks(recipe, m) = p
               /\ Asks(recipe, mem) <= p /\ p < answer.upto
    <3>1. Read(Field(p), FirstPos) = p /\ LastMark(recipe, Field(p))
      BY <1>1, <1>6, FieldMark DEF LastMark
    <3>2. Marks(recipe, m) /\ Asks(recipe, m) = p /\ Asks(recipe, mem) = Read(mem.last, FirstPos)
      BY <1>5, <1>6, <2>1, <2>4, <3>1
    <3>3. Read(mem.last, FirstPos) <= p
      BY <1>1, <1>4, <2>4, <3>2 DEF Read
    <3> QED
      BY <1>1, <2>4, <3>2, <3>3 DEF Events
  <2>5. HighWater(answer) = mem.last
        \/ \E p \in FirstPos .. MaxClock :
              /\ p \in Events(answer) /\ HighWater(answer) = Field(p)
              /\ mem.last = Nil \/ Read(mem.last, FirstPos) < p
    BY <1>6, HighMark
  <2> HIDE DEF m
  <2> QED
    BY <1>1, <1>4, <1>6, <2>2, <2>3, <2>4, <2>5 DEF Begin, m
<1>7. ASSUME NEW v, recipe.progress \in {"clock", "clock_unix"}, m = [mem EXCEPT !.last = v], LastMark(recipe, v),
             Read(v, FirstPos) = clock - Distance(recipe)
      PROVE  /\ Marks(recipe, m) /\ Behind(recipe, m, clock) /\ Asks(recipe, m) \in Int
             /\ Begin(Asks(recipe, m)) >= Begin(Asks(recipe, mem))
             /\ Asks(recipe, m) = clock - Distance(recipe)
  <2>1. Distance(recipe) \in Nat
    BY <1>2 DEF Distance
  <2>2. Marks(recipe, m) /\ Asks(recipe, m) = clock - Distance(recipe)
    BY <1>5, <1>7
  <2>3. Asks(recipe, mem) <= Begin(clock - Distance(recipe))
    BY <1>1, <1>7 DEF Behind
  <2> HIDE DEF m
  <2> QED
    BY <1>1, <1>4, <1>7, <2>1, <2>2, <2>3 DEF Behind, Begin
<1>8. CASE recipe.progress = "clock"
  <2>1. PICK p \in Int : p = clock - recipe.look
    BY <1>1, <1>2
  <2>2. m = [mem EXCEPT !.last = At(p)]
    <3>1. EvalArith("subtract", At(clock), Text("span", recipe.look * NanosPerSecond)).v = At(p)
      <4>1. PICK look \in Int : look = recipe.look
        BY <1>2
      <4>2. EvalArith("subtract", At(clock), Text("span", look * NanosPerSecond)).v = At(clock - look)
        BY <1>1, SecondsBack
      <4> QED
        BY <2>1, <4>1, <4>2
    <3>2. recipe.look = 0 => At(clock) = At(p)
      BY <1>1, <2>1
    <3> QED
      BY <1>8, <3>1, <3>2 DEF ApplyProgress
  <2>3. Read(At(p), FirstPos) = p /\ IsStamp(At(p))
    BY ReadStamp
  <2>4. LastMark(recipe, At(p)) /\ p = clock - Distance(recipe)
    BY <1>8, <2>1, <2>3 DEF LastMark, Distance
  <2> QED
    BY <1>4, <1>7, <1>8, <2>2, <2>3, <2>4
<1>9. CASE recipe.progress = "clock_unix"
  <2>1. m = [mem EXCEPT !.last = Int64(clock)]
    BY <1>1, <1>9, UnixSeconds DEF ApplyProgress
  <2>2. Read(Int64(clock), FirstPos) = clock /\ IsInt(Int64(clock))
    <3>1. Int64(clock).n = clock
      BY DEF Int64, Value
    <3> QED
      BY <1>1, <3>1, ReadNumber DEF IsInt
  <2>3. LastMark(recipe, Int64(clock)) /\ clock = clock - Distance(recipe)
    BY <1>1, <1>9, <2>2 DEF LastMark, IsMark, Distance
  <2> QED
    BY <1>4, <1>7, <1>9, <2>1, <2>2, <2>3
<1>10. CASE recipe.progress = "window"
  <2>1. PICK p \in Int : p = clock - Lookback /\ p <= FirstPos
    BY <1>1
  <2>2. EvalArith("subtract", At(clock), Text("span", Lookback * NanosPerSecond)).v = At(p)
    BY <1>1, <2>1, SecondsBack
  <2>3. m = [mem EXCEPT !.start = IF IsZeroRuntime(mem.end) THEN At(p) ELSE mem.end, !.end = At(clock)]
    BY <1>10, <2>2 DEF ApplyProgress
  <2>4. IsZeroRuntime(mem.end) <=> mem.end = Nil
    <3>1. IsMark(mem.end)
      BY <1>1, <1>3, MarkKind
    <3> QED
      BY <3>1, ReadMark DEF IsZeroRuntime
  <2>5. /\ m.last = mem.last /\ m.start = (IF mem.end = Nil THEN At(p) ELSE mem.end) /\ m.end = At(clock)
        /\ m = [f \in Slots |-> m[f]]
    BY <1>3, <2>3, <2>4 DEF Slots
  <2> HIDE DEF m
  <2>6. /\ At(p) # Nil /\ IsStamp(At(p)) /\ Read(At(p), FirstPos) = p
        /\ At(clock) # Nil /\ IsStamp(At(clock)) /\ Read(At(clock), 0) = clock
    BY <1>1, ReadStamp
  <2>7. Marks(recipe, m)
    BY <1>3, <1>10, <2>5, <2>6 DEF Marks, EndMark
  <2>8. /\ Asks(recipe, m) = Read(m.start, FirstPos) /\ Asks(recipe, mem) = Read(mem.start, FirstPos)
        /\ m.start # Nil /\ m.end # Nil /\ Read(m.end, 0) = clock
    BY <1>10, <2>5, <2>6 DEF Asks
  <2> DEFINE Moves == /\ Behind(recipe, m, clock) /\ Asks(recipe, m) \in Int
                      /\ Begin(Asks(recipe, m)) >= Begin(Asks(recipe, mem))
                      /\ IF mem.end = Nil THEN Asks(recipe, m) <= FirstPos
                         ELSE Asks(recipe, m) = Read(mem.end, 0)
  <2>9. ASSUME mem.end = Nil PROVE Moves
    <3>1. Read(m.start, FirstPos) = p /\ mem.start = Nil
      BY <1>1, <1>10, <2>5, <2>6, <2>9 DEF Behind
    <3>2. Asks(recipe, m) = p /\ Asks(recipe, mem) = FirstPos
      BY <2>8, <3>1 DEF Read
    <3> QED
      BY <1>1, <1>10, <2>1, <2>7, <2>8, <2>9, <3>2 DEF Behind, Begin
  <2>10. ASSUME mem.end # Nil PROVE Moves
    <3>1. IsMark(mem.end)
      BY <1>1, <1>3, MarkKind
    <3>2. Read(mem.end, FirstPos) = Read(mem.end, 0) /\ Read(mem.end, 0) \in Int
      BY <2>10, <3>1, ReadMark
    <3>3. Asks(recipe, m) = Read(mem.end, 0)
      BY <2>5, <2>8, <2>10, <3>2
    <3>4. Asks(recipe, mem) <= Read(mem.end, 0) /\ Read(mem.end, 0) <= clock
      BY <1>1, <1>10, <2>10 DEF Behind
    <3> QED
      BY <1>1, <1>4, <1>10, <2>7, <2>8, <2>10, <3>2, <3>3, <3>4 DEF Behind, Begin
  <2> QED
    BY <1>4, <1>10, <2>7, <2>9, <2>10 DEF m
<1> QED
  BY <1>2, <1>6, <1>8, <1>9, <1>10
-----------------------------------------------------------------------------
(* The steps.                                                              *)

(* A smaller second, or a larger set. *)
LEMMA HasMore ==
  ASSUME NEW S, NEW T, S \subseteq T, NEW p \in Int, NEW q \in Int, Begin(q) <= Begin(p), Has(S, p)
  PROVE  Has(T, q)
<1> SUFFICES ASSUME NEW e \in FirstPos .. q - 1 PROVE e \in T
  BY DEF Has
<1>1. e \in FirstPos .. p - 1
  BY SourceAssumption DEF Begin
<1> QED
  BY <1>1 DEF Has

(* A page that begins where the set ends. *)
LEMMA HasPage ==
  ASSUME NEW S, NEW page, page.from \in Nat, page.upto \in Nat, Has(S, page.from), NEW q \in Int, q <= page.upto
  PROVE  Has(S \cup Events(page), q)
<1> SUFFICES ASSUME NEW e \in FirstPos .. q - 1, e \notin Events(page) PROVE e \in S
  BY DEF Has
<1>1. e \in FirstPos .. page.from - 1
  BY SourceAssumption DEF Events
<1> QED
  BY <1>1 DEF Has

(* The state before a drain. *)
LEMMA UnsetMark ==
  ASSUME recipe \in Recipes, NEW now \in Int
  PROVE  Marks(recipe, Unset) /\ Behind(recipe, Unset, now) /\ Asks(recipe, Unset) = FirstPos
<1>1. /\ recipe.progress \in {"high_water", "clock", "clock_unix", "window"} /\ recipe.look \in Nat
      /\ FirstPos \in Nat
  BY RecipesAssumption, SourceAssumption DEF RecipeSpace
<1>2. Unset.last = Nil /\ Unset.start = Nil /\ Unset.end = Nil /\ Unset = [f \in Slots |-> Unset[f]]
  BY DEF Unset, Slots
<1>3. Asks(recipe, Unset) = FirstPos
  BY <1>2 DEF Asks, Read
<1>4. Marks(recipe, Unset)
  BY <1>1, <1>2 DEF Marks, LastMark, EndMark, IsMark
<1>5. Behind(recipe, Unset, now)
  <2>1. FirstPos <= Begin(now - Distance(recipe))
    BY <1>1 DEF Begin, Distance
  <2> QED
    BY <1>2, <1>3, <2>1 DEF Behind
<1> QED
  BY <1>3, <1>4, <1>5

(* What a mark asks for is an integer. *)
LEMMA AsksInt ==
  ASSUME recipe \in Recipes, NEW state, Marks(recipe, state), NEW a \in Int
  PROVE  Asks(recipe, state) \in Int /\ Read(state.end, a) \in Int
         /\ (state.end # Nil => Read(state.end, a) = Read(state.end, 0))
<1>1. IsMark(state.last) /\ IsMark(state.start) /\ IsMark(state.end)
  BY MarkKind DEF Marks
<1>2. ASSUME NEW v, IsMark(v), NEW b \in Int
      PROVE  Read(v, b) \in Int /\ (v # Nil => Read(v, b) = Read(v, 0))
  <2>1. CASE v = Nil
    BY <2>1 DEF Read
  <2>2. CASE v # Nil
    BY <1>2, <2>2, ReadMark
  <2> QED
    BY <2>1, <2>2
<1>3. FirstPos \in Int
  BY SourceAssumption
<1>4. /\ Read(state.last, FirstPos) \in Int /\ Read(state.start, FirstPos) \in Int
      /\ Read(state.end, a) \in Int
      /\ state.end # Nil => Read(state.end, a) = Read(state.end, 0)
  BY <1>1, <1>2, <1>3
<1> QED
  BY <1>4 DEF Asks

(* Later is further from the marks. *)
LEMMA StillBehind ==
  ASSUME NEW r \in Recipes, NEW state, NEW now \in Int, NEW later \in Int, now <= later,
         Asks(r, state) \in Int, Read(state.end, 0) \in Int, Behind(r, state, now)
  PROVE  Behind(r, state, later)
<1>1. Distance(r) \in Nat /\ FirstPos \in Nat
  BY RecipesAssumption, SourceAssumption DEF RecipeSpace, Distance
<1>2. Begin(now - Distance(r)) <= Begin(later - Distance(r)) /\ Begin(now - Distance(r)) \in Int
      /\ Begin(later - Distance(r)) \in Int
  BY <1>1 DEF Begin
<1> HIDE DEF Begin
<1> QED
  BY <1>2 DEF Behind

(* A page begins where it was asked for and ends by the newest event. *)
LEMMA PageBounds ==
  ASSUME pub \in Int, FirstPos - 1 <= pub, NEW from \in Int, NEW to \in Int, NEW skip \in Nat
  PROVE  LET g == Page(from, to, skip) IN
         /\ g.from = Begin(from) + skip /\ g.to = to
         /\ g.from \in Nat /\ g.upto \in Nat /\ FirstPos <= g.from /\ g.from <= g.upto
         /\ g.upto = g.from \/ g.upto <= pub + 1
         /\ recipe.pages = "none" => g.upto >= to \/ g.upto >= pub + 1
<1> DEFINE lo == Greatest(from, FirstPos) + skip
           end == Greatest(lo, Least(to, pub + 1))
           cut == IF recipe.pages = "none" THEN end ELSE Least(end, lo + PageSize)
           more == cut < end
           g == Page(from, to, skip)
<1>1. /\ lo = Begin(from) + skip /\ lo \in Nat /\ FirstPos <= lo
      /\ end \in Nat /\ lo <= end /\ (end = lo \/ end <= pub + 1) /\ (end >= to \/ end >= pub + 1)
  BY SourceAssumption DEF Greatest, Least, Begin
<1> HIDE DEF lo, end
<1>2. /\ cut \in Nat /\ lo <= cut /\ cut <= end
      /\ recipe.pages = "none" => cut = end
  BY <1>1, SourceAssumption DEF Least
<1>3. g = [from |-> lo, upto |-> cut, more |-> more, to |-> to]
  BY DEF Page, lo, end
<1> HIDE DEF cut, more, g
<1>4. g.from = lo /\ g.upto = cut /\ g.to = to
  BY <1>3
<1>5. /\ g.from = Begin(from) + skip /\ g.to = to
      /\ g.from \in Nat /\ g.upto \in Nat /\ FirstPos <= g.from /\ g.from <= g.upto
      /\ g.upto = g.from \/ g.upto <= pub + 1
      /\ recipe.pages = "none" => g.upto >= to \/ g.upto >= pub + 1
  BY <1>1, <1>2, <1>4
<1> QED
  BY <1>5 DEF g

(* Time passes. *)
LEMMA TickKeeps ==
  ASSUME IInv, Tick \/ Publish
  PROVE  IInv'
<1>1. /\ recipe' = recipe /\ mem' = mem /\ file' = file /\ pc' = pc /\ cursor' = cursor /\ answer' = answer
      /\ emitted' = emitted /\ durable' = durable /\ faults' = faults
  BY DEF Tick, Publish
<1>2. /\ clock \in FirstPos .. MaxClock /\ clock' \in FirstPos .. MaxClock /\ clock <= clock' /\ pub <= pub'
      /\ pub \in Int /\ pub' \in FirstPos - 1 .. clock' /\ clock' - pub' <= recipe.delay
      /\ waited \in 0 .. Flight /\ waited' \in 0 .. Flight /\ recipe.delay \in Nat
      /\ pc = "answer" => clock' - waited' = clock - waited
  <2>1. Kinds /\ recipe.delay \in Nat
    BY RecipesAssumption DEF IInv, Kinds, RecipeSpace
  <2>2. CASE Tick
    <3>1. /\ clock' = clock + 1 /\ clock < MaxClock /\ pub' \in pub .. clock + 1 /\ clock + 1 - pub' <= recipe.delay
          /\ waited' = (IF pc = "answer" THEN waited + 1 ELSE 0) /\ (pc = "answer" => waited < Flight)
      BY <2>2 DEF Tick
    <3> QED
      BY <2>1, <3>1, SourceAssumption DEF Kinds
  <2>3. CASE Publish
    <3>1. clock' = clock /\ pub < clock /\ pub' = pub + 1 /\ waited' = waited
      BY <2>3 DEF Publish
    <3> QED
      BY <2>1, <3>1, SourceAssumption DEF Kinds
  <2> QED
    BY <2>2, <2>3
<1>3. Kinds'
  <2>1. /\ recipe' \in Recipes /\ Marks(recipe', mem') /\ Marks(recipe', file')
        /\ pc' \in States /\ faults' \in 0 .. MaxFaults
        /\ answer'.from \in Nat /\ answer'.upto \in Nat /\ answer'.to \in Int
        /\ FirstPos <= answer'.from /\ answer'.from <= answer'.upto
        /\ cursor'.n \in Nat /\ cursor'.to \in Int
    BY <1>1 DEF IInv, Kinds
  <2>2. emitted' \subseteq FirstPos .. pub' /\ durable' \subseteq FirstPos .. pub'
    BY <1>1, <1>2, SourceAssumption DEF IInv, Kinds
  <2>3. answer'.upto = answer'.from \/ answer'.upto <= pub' + 1
    BY <1>1, <1>2, <2>1 DEF IInv, Kinds
  <2> QED
    BY <1>1, <1>2, <2>1, <2>2, <2>3 DEF Kinds
<1>4. MarksBehind'
  <2>1. recipe \in Recipes /\ clock \in Int /\ clock' \in Int /\ Marks(recipe, mem) /\ Marks(recipe, file)
    BY <1>2 DEF IInv, Kinds
  <2>2. /\ Asks(recipe, mem) \in Int /\ Read(mem.end, 0) \in Int
        /\ Asks(recipe, file) \in Int /\ Read(file.end, 0) \in Int
    BY <2>1, AsksInt
  <2>3. Behind(recipe, mem, clock') /\ Behind(recipe, file, clock')
    BY <1>2, <2>1, <2>2, StillBehind DEF IInv, MarksBehind
  <2> QED
    BY <1>1, <2>3 DEF MarksBehind
<1>5. Forward'
  BY <1>1 DEF IInv, Forward
<1>6. Coverage'
  BY <1>1, <1>2 DEF IInv, Coverage, Accepted
<1> QED
  BY <1>3, <1>4, <1>5, <1>6 DEF IInv

(* What a recipe that is safe allows. *)
LEMMA SafeMeans ==
  ASSUME recipe \in Recipes, Safe(recipe)
  PROVE  /\ recipe.pages \in {"none", "cursor"} /\ (recipe.progress # "high_water" => recipe.pages = "none")
         /\ recipe.progress \in {"clock", "clock_unix"} => Distance(recipe) >= recipe.delay + Flight
         /\ recipe.progress = "window" => recipe.delay = 0
         /\ recipe.progress \in {"high_water", "clock", "clock_unix", "window"}
         /\ recipe.delay \in Nat /\ Distance(recipe) \in Nat
<1>1. /\ recipe.progress \in {"high_water", "clock", "clock_unix", "window"}
      /\ recipe.pages \in {"none", "cursor", "counter"} /\ recipe.look \in Nat /\ recipe.delay \in Nat
  BY RecipesAssumption DEF RecipeSpace
<1>2. Flight \in Nat
  BY SourceAssumption
<1>3. CASE recipe.progress = "high_water"
  BY <1>1, <1>3 DEF Safe, Distance
<1>4. CASE recipe.progress = "clock"
  <2>1. Safe(recipe) <=> recipe.pages = "none" /\ recipe.look >= recipe.delay + Flight
    BY <1>4 DEF Safe
  <2>2. Distance(recipe) = recipe.look
    BY <1>4 DEF Distance
  <2> QED
    BY <1>1, <1>4, <2>1, <2>2
<1>5. CASE recipe.progress = "clock_unix"
  <2>1. Safe(recipe) <=> recipe.pages = "none" /\ recipe.delay + Flight = 0
    BY <1>5 DEF Safe
  <2>2. Distance(recipe) = 0
    BY <1>5 DEF Distance
  <2>3. recipe.pages = "none" /\ recipe.delay + Flight = 0
    BY <2>1
  <2>4. Distance(recipe) >= recipe.delay + Flight
    BY <2>2, <2>3
  <2> QED
    BY <1>1, <1>5, <2>2, <2>3, <2>4
<1>6. CASE recipe.progress = "window"
  <2>1. Safe(recipe) <=> recipe.pages = "none" /\ recipe.delay = 0
    BY <1>6 DEF Safe
  <2>2. Distance(recipe) = 0
    BY <1>6 DEF Distance
  <2> QED
    BY <1>1, <1>6, <2>1, <2>2
<1> QED
  BY <1>1, <1>3, <1>4, <1>5, <1>6

(* A drain begins. *)
LEMMA StartKeeps ==
  ASSUME IInv, StartDrain
  PROVE  IInv'
<1>1. /\ recipe' = recipe /\ clock' = clock /\ pub' = pub /\ mem' = Loaded /\ file' = file
      /\ pc' = "request" /\ cursor' = NoCursor /\ answer' = answer /\ waited' = waited
      /\ emitted' = emitted /\ durable' = durable /\ faults' = faults
  BY DEF StartDrain
<1>2. /\ Marks(recipe, Loaded) /\ Behind(recipe, Loaded, clock)
      /\ Asks(recipe, Loaded) \in Int /\ Asks(recipe, file) \in Int
      /\ Begin(Asks(recipe, Loaded)) = Begin(Asks(recipe, file))
  BY LoadedMark DEF IInv
<1>3. Kinds'
  <2>1. cursor'.n = 0 /\ cursor'.to = 0
    BY <1>1 DEF NoCursor
  <2> QED
    BY <1>1, <1>2, <2>1 DEF IInv, Kinds, States
<1>4. MarksBehind'
  BY <1>1, <1>2 DEF IInv, MarksBehind
<1>5. Forward'
  <2>1. Begin(Asks(recipe, file)) \in Int
    BY <1>2, SourceAssumption DEF Begin
  <2> QED
    BY <1>1, <1>2, <2>1 DEF Forward
<1>6. Coverage'
  <2> SUFFICES ASSUME Safe(recipe) PROVE Has(Accepted, Asks(recipe, Loaded))
    <3>1. NoCursor.on = FALSE
      BY DEF NoCursor
    <3> QED
      BY <1>1, <3>1 DEF IInv, Coverage, Accepted
  <2>1. Has(durable, Asks(recipe, file))
    BY DEF IInv, Coverage
  <2>2. Begin(Asks(recipe, Loaded)) <= Begin(Asks(recipe, file))
    BY <1>2, SourceAssumption DEF Begin
  <2> QED
    BY <1>2, <2>1, <2>2, HasMore DEF Accepted
<1> QED
  BY <1>3, <1>4, <1>5, <1>6 DEF IInv

(* A request is sent, and answered or refused. *)
LEMMA RequestKeeps ==
  ASSUME IInv, Request
  PROVE  IInv'
<1> DEFINE legible == Legible(mem.last) /\ Legible(mem.start) /\ Legible(mem.end)
<1>1. /\ recipe' = recipe /\ clock' = clock /\ pub' = pub /\ mem' = mem /\ file' = file
      /\ pc = "request" /\ cursor' = cursor /\ waited' = 0
      /\ emitted' = emitted /\ durable' = durable /\ faults' = faults
      /\ IF legible THEN answer' = Answer /\ pc' = "answer" ELSE answer' = NoPage /\ pc' = "flush"
  BY DEF Request
<1> HIDE DEF legible
<1>2. /\ recipe \in Recipes /\ Marks(recipe, mem) /\ cursor.n \in Nat /\ cursor.to \in Int /\ pub \in Int
      /\ FirstPos - 1 <= pub /\ clock \in FirstPos .. MaxClock /\ clock - pub <= recipe.delay /\ pub <= clock
      /\ FirstPos \in Nat /\ MaxClock \in Nat /\ Flight \in Nat
  BY SourceAssumption DEF IInv, Kinds
<1>3. /\ Asks(recipe, mem) \in Int /\ From(mem) = Asks(recipe, mem) /\ To(mem) \in Int
      /\ recipe.progress # "window" => To(mem) = MaxClock + 1
      /\ recipe.progress = "window" /\ mem.end # Nil => To(mem) = Read(mem.end, 0)
  <2>1. MaxClock + 1 \in Int
    BY <1>2
  <2> QED
    BY <1>2, <2>1, AsksInt DEF From, To, Asks
<1> DEFINE followed == recipe.pages = "cursor" /\ cursor.on
<1>4. Answer = IF followed THEN Page(cursor.n, cursor.to, 0) ELSE Page(Asks(recipe, mem), To(mem), cursor.n)
  BY <1>3 DEF Answer
<1> HIDE DEF followed
<1>5. /\ Answer.from \in Nat /\ Answer.upto \in Nat /\ Answer.to \in Int
      /\ FirstPos <= Answer.from /\ Answer.from <= Answer.upto
      /\ Answer.upto = Answer.from \/ Answer.upto <= pub + 1
      /\ followed => Answer.from = Begin(cursor.n)
      /\ ~followed => /\ Answer.from = Begin(Asks(recipe, mem)) + cursor.n
                      /\ recipe.pages = "none" => Answer.upto >= To(mem) \/ Answer.upto >= pub + 1
  <2>1. CASE followed
    <3> DEFINE g == Page(cursor.n, cursor.to, 0)
    <3>1. /\ g.from = Begin(cursor.n) + 0 /\ g.to = cursor.to
          /\ g.from \in Nat /\ g.upto \in Nat /\ FirstPos <= g.from /\ g.from <= g.upto
          /\ g.upto = g.from \/ g.upto <= pub + 1
      <4>1. pub \in Int /\ FirstPos - 1 <= pub /\ cursor.n \in Int /\ cursor.to \in Int /\ 0 \in Nat
        BY <1>2
      <4> QED
        BY <4>1, PageBounds
    <3>2. Answer = g
      BY <1>4, <2>1
    <3>3. Begin(cursor.n) + 0 = Begin(cursor.n)
      BY <1>2 DEF Begin
    <3> HIDE DEF g
    <3> QED
      BY <1>2, <2>1, <3>1, <3>2, <3>3
  <2>2. CASE ~followed
    <3> DEFINE g == Page(Asks(recipe, mem), To(mem), cursor.n)
    <3>1. /\ g.from = Begin(Asks(recipe, mem)) + cursor.n /\ g.to = To(mem)
          /\ g.from \in Nat /\ g.upto \in Nat /\ FirstPos <= g.from /\ g.from <= g.upto
          /\ g.upto = g.from \/ g.upto <= pub + 1
          /\ recipe.pages = "none" => g.upto >= To(mem) \/ g.upto >= pub + 1
      BY <1>2, <1>3, PageBounds
    <3>2. Answer = g
      BY <1>4, <2>2
    <3> HIDE DEF g
    <3> QED
      BY <1>3, <2>2, <3>1, <3>2
  <2> QED
    BY <2>1, <2>2
<1>6. Kinds'
  <2>1. /\ answer'.from \in Nat /\ answer'.upto \in Nat /\ answer'.to \in Int
        /\ FirstPos <= answer'.from /\ answer'.from <= answer'.upto
        /\ answer'.upto = answer'.from \/ answer'.upto <= pub + 1
    <3>1. NoPage.from = FirstPos /\ NoPage.upto = FirstPos /\ NoPage.to = 0
      BY DEF NoPage
    <3> QED
      BY <1>1, <1>2, <1>5, <3>1
  <2>2. pc' \in States /\ waited' \in 0 .. Flight
    BY <1>1, <1>2 DEF States
  <2> QED
    BY <1>1, <1>2, <2>1, <2>2 DEF IInv, Kinds
<1>7. MarksBehind' /\ Forward'
  BY <1>1 DEF IInv, MarksBehind, Forward
<1>8. Coverage'
  <2> SUFFICES ASSUME Safe(recipe), legible
               PROVE  /\ Has(Accepted, Answer.from)
                      /\ recipe.progress \in {"clock", "clock_unix"} => Answer.upto > clock - 0 - recipe.delay
                      /\ recipe.progress = "window" /\ mem.end # Nil => Answer.upto >= Read(mem.end, 0)
    BY <1>1 DEF IInv, Coverage, Accepted
  <2>1. /\ Has(Accepted, Asks(recipe, mem))
        /\ IF cursor.on THEN recipe.pages = "cursor" /\ Has(Accepted, cursor.n) ELSE cursor = NoCursor
    BY <1>1 DEF IInv, Coverage
  <2>2. CASE followed
    <3>1. Has(Accepted, cursor.n) /\ recipe.progress = "high_water"
      BY <1>2, <2>1, <2>2, SafeMeans DEF followed
    <3>2. Begin(Begin(cursor.n)) <= Begin(cursor.n) /\ Begin(cursor.n) \in Int
      BY <1>2 DEF Begin
    <3>3. Has(Accepted, Begin(cursor.n))
      BY <1>2, <3>1, <3>2, HasMore
    <3> QED
      BY <1>5, <2>2, <3>1, <3>3
  <2>3. CASE ~followed
    <3>1. cursor.n = 0
      BY <2>1, <2>3 DEF followed, NoCursor
    <3>2. Begin(Begin(Asks(recipe, mem))) <= Begin(Asks(recipe, mem)) /\ Begin(Asks(recipe, mem)) \in Int
          /\ Begin(Asks(recipe, mem)) + 0 = Begin(Asks(recipe, mem))
      BY <1>2, <1>3 DEF Begin
    <3>3. Has(Accepted, Begin(Asks(recipe, mem)))
      BY <1>3, <2>1, <3>2, HasMore
    <3>4. Has(Accepted, Answer.from)
      BY <1>5, <2>3, <3>1, <3>2, <3>3
    <3>5. ASSUME recipe.progress \in {"clock", "clock_unix"}
          PROVE  Answer.upto > clock - 0 - recipe.delay
      <4>1. recipe.pages = "none" /\ recipe.delay \in Nat /\ To(mem) = MaxClock + 1
        BY <1>2, <1>3, <3>5, SafeMeans
      <4>2. Answer.upto >= pub + 1
        BY <1>2, <1>5, <2>3, <4>1
      <4> QED
        BY <1>2, <1>5, <4>1, <4>2
    <3>6. ASSUME recipe.progress = "window", mem.end # Nil
          PROVE  Answer.upto >= Read(mem.end, 0)
      <4>1. recipe.pages = "none" /\ recipe.delay = 0 /\ To(mem) = Read(mem.end, 0)
        BY <1>2, <1>3, <3>6, SafeMeans
      <4>2. Read(mem.end, 0) <= clock
        BY <3>6 DEF IInv, MarksBehind, Behind
      <4> QED
        BY <1>2, <1>3, <1>5, <2>3, <4>1, <4>2
    <3> QED
      BY <3>4, <3>5, <3>6
  <2> QED
    BY <2>2, <2>3
<1> QED
  BY <1>6, <1>7, <1>8 DEF IInv

(* A page is accepted, and progress is written. *)
LEMMA AcceptKeeps ==
  ASSUME IInv, Accept
  PROVE  IInv'
<1> DEFINE m == ApplyProgress(answer)
           all == emitted \cup Events(answer)
<1>1. /\ pc = "answer" /\ recipe' = recipe /\ clock' = clock /\ pub' = pub /\ mem' = m /\ file' = file
      /\ pc' = (IF Advanced.on THEN "request" ELSE "flush") /\ cursor' = Advanced /\ answer' = NoPage
      /\ waited' = 0 /\ emitted' = all /\ durable' = durable /\ faults' = faults
  BY DEF Accept
<1>2. /\ recipe \in Recipes /\ recipe \in RecipeSpace /\ Marks(recipe, mem)
      /\ clock \in FirstPos .. MaxClock /\ pub \in Int /\ waited \in 0 .. Flight
      /\ answer.from \in Nat /\ answer.upto \in Nat /\ answer.to \in Int /\ cursor.n \in Nat
      /\ FirstPos <= answer.from /\ answer.from <= answer.upto
      /\ answer.upto = answer.from \/ answer.upto <= pub + 1
      /\ FirstPos \in Nat /\ MaxClock \in Nat /\ Flight \in Nat /\ PageSize \in Nat
  BY RecipesAssumption, SourceAssumption DEF IInv, Kinds
<1>3. /\ Marks(recipe, m) /\ Behind(recipe, m, clock)
      /\ Asks(recipe, m) \in Int /\ Asks(recipe, mem) \in Int
      /\ Begin(Asks(recipe, m)) >= Begin(Asks(recipe, mem))
      /\ recipe.progress = "high_water" => Asks(recipe, m) = Asks(recipe, mem) \/ Asks(recipe, m) < answer.upto
      /\ recipe.progress \in {"clock", "clock_unix"} => Asks(recipe, m) = clock - Distance(recipe)
      /\ recipe.progress = "window" =>
           IF mem.end = Nil THEN Asks(recipe, m) <= FirstPos ELSE Asks(recipe, m) = Read(mem.end, 0)
  BY <1>1, AppliedMark DEF IInv
<1> HIDE DEF m
<1>4. Events(answer) \subseteq FirstPos .. pub
  BY <1>2 DEF Events
<1>5. /\ Advanced.n \in Nat /\ Advanced.to \in Int
      /\ recipe.pages \in {"none", "cursor"} =>
           IF Advanced.on THEN recipe.pages = "cursor" /\ Advanced.n = answer.upto ELSE Advanced = NoCursor
  <2>1. recipe.pages \in {"none", "cursor", "counter"}
    BY <1>2 DEF RecipeSpace
  <2>2. NoCursor.on = FALSE /\ NoCursor.n = 0 /\ NoCursor.to = 0
    BY DEF NoCursor
  <2>3. CASE recipe.pages = "none"
    <3>1. Advanced = NoCursor
      BY <2>3 DEF Advanced
    <3> QED
      BY <2>2, <3>1
  <2>4. CASE recipe.pages = "cursor"
    <3>1. CASE answer.more
      <4>1. Advanced = [on |-> TRUE, n |-> answer.upto, to |-> answer.to]
        BY <2>4, <3>1 DEF Advanced
      <4>2. Advanced.on /\ Advanced.n = answer.upto /\ Advanced.to = answer.to
        BY <4>1
      <4> QED
        BY <1>2, <2>4, <4>2
    <3>2. CASE ~answer.more
      <4>1. Advanced = NoCursor
        BY <2>4, <3>2 DEF Advanced
      <4> QED
        BY <2>2, <4>1
    <3> QED
      BY <3>1, <3>2
  <2>5. CASE recipe.pages = "counter"
    <3>1. Advanced.n = cursor.n + PageSize /\ Advanced.to = 0
      BY <2>5 DEF Advanced
    <3>2. cursor.n + PageSize \in Nat
      BY <1>2
    <3> QED
      BY <2>5, <3>1, <3>2
  <2> QED
    BY <2>1, <2>3, <2>4, <2>5
<1>6. Kinds'
  <2>1. all \subseteq FirstPos .. pub
    BY <1>4 DEF IInv, Kinds
  <2>2. NoPage.from = FirstPos /\ NoPage.upto = FirstPos /\ NoPage.to = 0
    BY DEF NoPage
  <2>3. pc' \in States /\ 0 \in 0 .. Flight /\ FirstPos <= FirstPos /\ 0 \in Int
    BY <1>1, <1>2 DEF States
  <2> HIDE DEF all
  <2> QED
    BY <1>1, <1>2, <1>3, <1>5, <2>1, <2>2, <2>3 DEF IInv, Kinds
<1>7. MarksBehind'
  BY <1>1, <1>3 DEF IInv, MarksBehind
<1>8. Forward'
  <2>1. Marks(recipe, file) /\ FirstPos \in Int
    BY SourceAssumption DEF IInv, Kinds
  <2>2. Asks(recipe, file) \in Int
    BY <1>2, <2>1, AsksInt
  <2>3. Begin(Asks(recipe, mem)) >= Begin(Asks(recipe, file))
    BY <1>1 DEF IInv, Forward
  <2>4. Begin(Asks(recipe, m)) \in Int /\ Begin(Asks(recipe, mem)) \in Int /\ Begin(Asks(recipe, file)) \in Int
    BY <1>3, <2>1, <2>2 DEF Begin
  <2> QED
    BY <1>1, <1>3, <2>3, <2>4 DEF Forward
<1>9. Coverage'
  <2> DEFINE now == durable \cup all
  <2> SUFFICES ASSUME Safe(recipe)
               PROVE  /\ Has(now, Asks(recipe, m))
                      /\ Advanced.on => Has(now, Advanced.n)
    <3>1. Safe(recipe) => recipe.pages \in {"none", "cursor"}
      BY <1>2, SafeMeans
    <3> QED
      BY <1>1, <1>5, <3>1 DEF IInv, Coverage, Accepted
  <2>1. /\ Has(Accepted, answer.from) /\ Has(Accepted, Asks(recipe, mem))
        /\ recipe.progress \in {"clock", "clock_unix"} => answer.upto > clock - waited - recipe.delay
        /\ recipe.progress = "window" /\ mem.end # Nil => answer.upto >= Read(mem.end, 0)
    BY <1>1 DEF IInv, Coverage
  <2>2. now = Accepted \cup Events(answer)
    BY DEF Accepted
  <2> HIDE DEF all, now
  <2>3. ASSUME NEW q \in Int, q <= answer.upto
        PROVE  Has(now, q)
    BY <1>2, <2>1, <2>2, <2>3, HasPage
  <2>4. Advanced.on => Has(now, Advanced.n)
    <3>1. recipe.pages \in {"none", "cursor"}
      BY <1>2, SafeMeans
    <3>2. Has(now, answer.upto)
      BY <1>2, <2>3
    <3> QED
      BY <1>5, <3>1, <3>2
  <2>5. CASE Asks(recipe, m) = Asks(recipe, mem)
    <3>1. Has(now, Asks(recipe, mem))
      BY <2>1, <2>2 DEF Has
    <3> QED
      BY <2>4, <2>5, <3>1
  <2>6. CASE Asks(recipe, m) # Asks(recipe, mem)
    <3>1. Asks(recipe, m) <= answer.upto
      <4>1. /\ recipe.progress \in {"clock", "clock_unix"} => Distance(recipe) >= recipe.delay + Flight
            /\ recipe.progress \in {"high_water", "clock", "clock_unix", "window"}
            /\ recipe.delay \in Nat /\ Distance(recipe) \in Nat
        BY <1>2, SafeMeans
      <4>2. CASE recipe.progress = "high_water"
        BY <1>2, <1>3, <2>6, <4>2
      <4>3. CASE recipe.progress \in {"clock", "clock_unix"}
        BY <1>2, <1>3, <2>1, <4>1, <4>3
      <4>4. CASE recipe.progress = "window"
        BY <1>2, <1>3, <2>1, <4>4
      <4> QED
        BY <4>1, <4>2, <4>3, <4>4
    <3> QED
      BY <1>3, <2>3, <2>4, <3>1
  <2> QED
    BY <2>5, <2>6
<1> QED
  BY <1>6, <1>7, <1>8, <1>9 DEF IInv

(* The drain fails, flushes or saves, or the process dies. *)
LEMMA FailKeeps ==
  ASSUME IInv, Fail
  PROVE  IInv'
<1>1. /\ recipe' = recipe /\ clock' = clock /\ pub' = pub /\ mem' = mem /\ file' = file
      /\ pc = "answer" /\ pc' = "flush" /\ cursor' = cursor /\ answer' = NoPage /\ waited' = 0
      /\ emitted' = emitted /\ durable' = durable /\ faults < MaxFaults /\ faults' = faults + 1
  BY DEF Fail
<1>2. Kinds'
  <2>1. NoPage.from = FirstPos /\ NoPage.upto = FirstPos /\ NoPage.to = 0
    BY DEF NoPage
  <2>2. /\ pc' \in States /\ waited' \in 0 .. Flight /\ FirstPos <= FirstPos /\ FirstPos \in Nat /\ 0 \in Int
        /\ faults' \in 0 .. MaxFaults
    BY <1>1, SourceAssumption DEF States, IInv, Kinds
  <2> QED
    BY <1>1, <2>1, <2>2 DEF IInv, Kinds
<1>3. MarksBehind' /\ Forward'
  BY <1>1 DEF IInv, MarksBehind, Forward
<1>4. Coverage'
  BY <1>1 DEF IInv, Coverage, Accepted
<1> QED
  BY <1>2, <1>3, <1>4 DEF IInv

(* The sink makes durable what it has accepted. *)
LEMMA FlushKeeps ==
  ASSUME IInv, Flush
  PROVE  IInv'
<1>1. /\ recipe' = recipe /\ clock' = clock /\ pub' = pub /\ mem' = mem /\ file' = file
      /\ pc = "flush" /\ pc' = "save" /\ cursor' = cursor /\ answer' = answer /\ waited' = waited
      /\ emitted' = {} /\ durable' = durable \cup emitted /\ faults' = faults
  BY DEF Flush
<1>2. Kinds'
  <2>1. pc' \in States /\ emitted' \subseteq FirstPos .. pub' /\ durable' \subseteq FirstPos .. pub'
    BY <1>1 DEF States, IInv, Kinds
  <2> QED
    BY <1>1, <2>1 DEF IInv, Kinds
<1>3. MarksBehind' /\ Forward'
  BY <1>1 DEF IInv, MarksBehind, Forward
<1>4. Coverage'
  <2>1. ASSUME NEW pos, Has(durable, pos)
        PROVE  Has(durable', pos)
    BY <1>1, <2>1 DEF Has
  <2>2. Accepted' = Accepted
    BY <1>1 DEF Accepted
  <2>3. CASE Safe(recipe)
    <3>1. /\ Has(durable, Asks(recipe, file)) /\ Has(Accepted, Asks(recipe, mem))
          /\ IF cursor.on THEN recipe.pages = "cursor" /\ Has(Accepted, cursor.n) ELSE cursor = NoCursor
      BY <1>1, <2>3 DEF IInv, Coverage
    <3>2. Has(durable', Asks(recipe, file))
      BY <2>1, <3>1
    <3>3. Asks(recipe', file') = Asks(recipe, file) /\ Asks(recipe', mem') = Asks(recipe, mem)
      BY <1>1
    <3> QED
      BY <1>1, <2>2, <3>1, <3>2, <3>3 DEF Coverage
  <2>4. CASE ~Safe(recipe)
    BY <1>1, <2>4 DEF Coverage
  <2> QED
    BY <2>3, <2>4
<1> QED
  BY <1>2, <1>3, <1>4 DEF IInv

(* The snapshot takes the marks of the drain. *)
LEMMA SaveKeeps ==
  ASSUME IInv, Save
  PROVE  IInv'
<1>1. /\ recipe' = recipe /\ clock' = clock /\ pub' = pub /\ mem' = Unset /\ file' = mem
      /\ pc = "save" /\ pc' = "idle" /\ cursor' = NoCursor /\ answer' = answer /\ waited' = waited
      /\ emitted' = emitted /\ durable' = durable /\ faults' = faults
  BY DEF Save
<1>2. recipe \in Recipes /\ clock \in Int
  BY SourceAssumption DEF IInv, Kinds
<1>3. Marks(recipe, Unset) /\ Behind(recipe, Unset, clock)
  BY <1>2, UnsetMark
<1>4. Kinds'
  <2>1. NoCursor.n = 0 /\ NoCursor.to = 0 /\ pc' \in States
    BY <1>1 DEF NoCursor, States
  <2> QED
    BY <1>1, <1>3, <2>1 DEF IInv, Kinds
<1>5. MarksBehind' /\ Forward'
  BY <1>1, <1>3 DEF IInv, MarksBehind, Forward
<1>6. Coverage'
  <2>1. CASE Safe(recipe)
    <3>1. emitted = {} /\ Has(Accepted, Asks(recipe, mem))
      BY <1>1, <2>1 DEF IInv, Coverage
    <3>2. Accepted = durable
      BY <3>1 DEF Accepted
    <3>3. NoCursor.on = FALSE
      BY DEF NoCursor
    <3>4. Has(durable', Asks(recipe', file'))
      BY <1>1, <3>1, <3>2
    <3> QED
      BY <1>1, <3>3, <3>4 DEF Coverage
  <2>2. CASE ~Safe(recipe)
    BY <1>1, <2>2 DEF Coverage
  <2> QED
    BY <2>1, <2>2
<1> QED
  BY <1>4, <1>5, <1>6 DEF IInv

(* What the sink had not flushed is lost, and so are the marks over it. *)
LEMMA CrashKeeps ==
  ASSUME IInv, Crash
  PROVE  IInv'
<1>1. /\ recipe' = recipe /\ clock' = clock /\ pub' = pub /\ mem' = Unset /\ file' = file
      /\ pc' = "idle" /\ cursor' = NoCursor /\ answer' = NoPage /\ waited' = 0
      /\ emitted' = {} /\ durable' = durable /\ faults < MaxFaults /\ faults' = faults + 1
  BY DEF Crash
<1>2. recipe \in Recipes /\ clock \in Int
  BY SourceAssumption DEF IInv, Kinds
<1>3. Marks(recipe, Unset) /\ Behind(recipe, Unset, clock)
  BY <1>2, UnsetMark
<1>4. Kinds'
  <2>1. /\ NoCursor.n = 0 /\ NoCursor.to = 0 /\ pc' \in States
        /\ NoPage.from = FirstPos /\ NoPage.upto = FirstPos /\ NoPage.to = 0
    BY <1>1 DEF NoCursor, NoPage, States
  <2>2. /\ waited' \in 0 .. Flight /\ FirstPos <= FirstPos /\ FirstPos \in Nat /\ 0 \in Int /\ 0 \in Nat
        /\ faults' \in 0 .. MaxFaults /\ emitted' \subseteq FirstPos .. pub'
    BY <1>1, SourceAssumption DEF IInv, Kinds
  <2> QED
    BY <1>1, <1>3, <2>1, <2>2 DEF IInv, Kinds
<1>5. MarksBehind' /\ Forward'
  BY <1>1, <1>3 DEF IInv, MarksBehind, Forward
<1>6. Coverage'
  <2>1. NoCursor.on = FALSE
    BY DEF NoCursor
  <2> QED
    BY <1>1, <2>1 DEF IInv, Coverage
<1> QED
  BY <1>4, <1>5, <1>6 DEF IInv

-----------------------------------------------------------------------------
(* The invariant holds at first, and every step keeps it. *)
LEMMA InitIInv ==
  ASSUME Init
  PROVE  IInv
<1>1. /\ recipe \in Recipes /\ recipe.delay \in Nat /\ clock = FirstPos /\ mem = Unset /\ file = Unset
      /\ pub = FirstPos - 1 + (IF recipe.delay = 0 THEN 1 ELSE 0)
      /\ pc = "idle" /\ cursor = NoCursor /\ answer = NoPage /\ waited = 0
      /\ emitted = {} /\ durable = {} /\ faults = 0
  BY RecipesAssumption DEF Init, RecipeSpace
<1>2. FirstPos \in Nat /\ MaxClock \in Nat /\ FirstPos < MaxClock /\ Flight \in Nat /\ MaxFaults \in Nat
  BY SourceAssumption
<1>3. Marks(recipe, Unset) /\ Behind(recipe, Unset, clock) /\ Asks(recipe, Unset) = FirstPos
  BY <1>1, <1>2, UnsetMark
<1>4. NoCursor.on = FALSE /\ NoCursor.n = 0 /\ NoCursor.to = 0
  BY DEF NoCursor
<1>5. NoPage.from = FirstPos /\ NoPage.upto = FirstPos /\ NoPage.to = 0
  BY DEF NoPage
<1>6. /\ clock \in FirstPos .. MaxClock /\ pub \in FirstPos - 1 .. clock /\ clock - pub <= recipe.delay
      /\ 0 \in 0 .. Flight /\ 0 \in 0 .. MaxFaults
  BY <1>1, <1>2
<1>7. Kinds
  BY <1>1, <1>2, <1>3, <1>4, <1>5, <1>6 DEF Kinds, States
<1>8. MarksBehind /\ Forward
  BY <1>1, <1>3 DEF MarksBehind, Forward
<1>9. Coverage
  <2>1. Has(durable, FirstPos)
    BY <1>2 DEF Has
  <2> QED
    BY <1>1, <1>3, <1>4, <2>1 DEF Coverage
<1> QED
  BY <1>7, <1>8, <1>9 DEF IInv

LEMMA NextIInv ==
  ASSUME IInv, [Next]_vars
  PROVE  IInv'
<1>1. CASE Next
  BY <1>1, TickKeeps, StartKeeps, RequestKeeps, AcceptKeeps, FailKeeps, FlushKeeps, SaveKeeps, CrashKeeps
  DEF Next, Drain
<1>2. CASE UNCHANGED vars
  <2>1. /\ recipe' = recipe /\ clock' = clock /\ pub' = pub /\ mem' = mem /\ file' = file /\ pc' = pc
        /\ cursor' = cursor /\ answer' = answer /\ waited' = waited
        /\ emitted' = emitted /\ durable' = durable /\ faults' = faults
    BY <1>2 DEF vars
  <2>2. Kinds' /\ MarksBehind' /\ Forward'
    BY <2>1 DEF IInv, Kinds, MarksBehind, Forward
  <2>3. Coverage'
    BY <2>1 DEF IInv, Coverage, Accepted
  <2> QED
    BY <2>2, <2>3 DEF IInv
<1> QED
  BY <1>1, <1>2

(* The invariant, for every recipe, those that lose events included. *)
THEOREM Invariance == Spec => []IInv
<1>1. Init => IInv
  BY InitIInv
<1>2. IInv /\ [Next]_vars => IInv'
  BY NextIInv
<1> QED
  BY <1>1, <1>2, PTL DEF Spec

(* What the next drain asks from, in the terms of the invariant. *)
LEMMA MarkIs ==
  ASSUME IInv
  PROVE  Mark = Begin(Asks(recipe, file)) /\ Asks(recipe, file) \in Int /\ Mark \in Int
<1>1. recipe \in Recipes /\ Marks(recipe, file) /\ FirstPos \in Int
  BY SourceAssumption DEF IInv, Kinds
<1>2. Asks(recipe, file) \in Int
  BY <1>1, AsksInt
<1> QED
  BY <1>1, <1>2 DEF Mark, From, Asks, Begin

(* A recipe that is safe loses nothing: under the publication lag, the     *)
(* flight of the answers, failures and crashes at every step, every event  *)
(* before the saved mark is one that the sink has flushed.                  *)
THEOREM SafeRecipesLoseNothing == Spec => [](Safe(recipe) => NothingBehind)
<1>1. IInv => (Safe(recipe) => NothingBehind)
  <2> SUFFICES ASSUME IInv, Safe(recipe), NEW e \in FirstPos .. clock, e < Mark
               PROVE  e \in durable
    BY DEF NothingBehind
  <2>1. Has(durable, Asks(recipe, file))
    BY DEF IInv, Coverage
  <2>2. FirstPos \in Nat /\ clock \in Int
    BY SourceAssumption DEF IInv, Kinds
  <2>3. e < Asks(recipe, file) /\ Asks(recipe, file) \in Int
    BY <2>2, MarkIs DEF Begin
  <2> QED
    BY <2>1, <2>2, <2>3 DEF Has
<1> QED
  BY Invariance, <1>1, PTL

(* So nothing is lost where every recipe that is run is a safe one, as the *)
(* run has them.                                                             *)
THEOREM NothingIsLost ==
  ASSUME \A r \in Recipes : Safe(r)
  PROVE  Spec => []NothingBehind
<1>1. IInv => Safe(recipe)
  BY DEF IInv, Kinds
<1> QED
  BY SafeRecipesLoseNothing, Invariance, <1>1, PTL

(* The saved mark never moves back, whichever the recipe, whatever the     *)
(* pages carry and wherever a drain fails: the snapshot is only ever       *)
(* written from a drain that began at it.                                   *)
THEOREM MarkNeverBack == Spec => MarkMonotone
<1>1. IInv /\ IInv' /\ [Next]_vars => [Mark' >= Mark]_vars
  <2> SUFFICES ASSUME IInv, IInv', Next
               PROVE  Mark' >= Mark
    OBVIOUS
  <2>1. Mark = Begin(Asks(recipe, file)) /\ Mark \in Int
    BY MarkIs
  <2>2. recipe' = recipe
    BY DEF Next, Drain, Tick, Publish, StartDrain, Request, Accept, Flush, Save, Fail, Crash
  <2>3. CASE Save
    <3>1. file' = mem /\ pc = "save"
      BY <2>3 DEF Save
    <3>2. Begin(Asks(recipe, mem)) >= Begin(Asks(recipe, file))
      BY <3>1 DEF IInv, Forward
    <3>3. /\ recipe \in Recipes /\ Marks(recipe, mem) /\ FirstPos \in Int
      BY SourceAssumption DEF IInv, Kinds
    <3>4. Asks(recipe, mem) \in Int
      BY <3>3, AsksInt
    <3>5. Mark' = Begin(Asks(recipe, mem))
      BY <2>2, <3>1, <3>3, <3>4 DEF Mark, From, Asks, Begin
    <3> QED
      BY <2>1, <3>2, <3>5
  <2>4. CASE ~Save
    <3>1. file' = file
      BY <2>4 DEF Next, Drain, Tick, Publish, StartDrain, Request, Accept, Flush, Fail, Crash
    <3>2. Mark' = Mark
      BY <2>2, <3>1 DEF Mark, From
    <3> QED
      BY <2>1, <3>2
  <2> QED
    BY <2>3, <2>4
<1> QED
  BY Invariance, <1>1, PTL DEF MarkMonotone, Spec

(* A mark is refused only where it is a number that the client prints with *)
(* an exponent: a mark over timestamps that is not converted to seconds is *)
(* legible at every clock, and every mark is before the clock has seven     *)
(* digits.                                                                   *)
AlwaysReads == MaxClock < ExponentFrom \/ (recipe.field = "stamp" /\ recipe.progress # "clock_unix")

THEOREM MarksStayLegible == Spec => [](AlwaysReads => MarkLegible)
<1> DEFINE L == AlwaysReads => ~refused
<1>1. Init => L
  BY DEF Init
<1>2. IInv /\ L /\ [Next]_vars => L'
  <2> SUFFICES ASSUME IInv, L, [Next]_vars
               PROVE  L'
    OBVIOUS
  <2>1. CASE Request
    <3>1. recipe' = recipe /\ refused' = ~(Legible(mem.last) /\ Legible(mem.start) /\ Legible(mem.end))
      BY <2>1 DEF Request
    <3>2. recipe \in Recipes /\ recipe \in RecipeSpace /\ Marks(recipe, mem)
      BY RecipesAssumption DEF IInv, Kinds
    <3>3. ASSUME AlwaysReads, NEW v, LastMark(recipe, v) \/ EndMark(recipe, v)
          PROVE  Legible(v)
      <4>1. IsMark(v)
        BY <3>2, <3>3, MarkKind
      <4>2. v = Nil => Legible(v)
        BY DEF Legible
      <4>3. v = Nil \/ IsStamp(v) \/ MaxClock < ExponentFrom
        <5>1. recipe.progress \in {"high_water", "clock", "clock_unix", "window"}
          BY <3>2 DEF RecipeSpace
        <5> QED
          BY <3>3, <5>1 DEF AlwaysReads, LastMark, EndMark
      <4> QED
        BY <4>1, <4>2, <4>3, ReadMark
    <3>4. AlwaysReads => Legible(mem.last) /\ Legible(mem.start) /\ Legible(mem.end)
      BY <3>2, <3>3 DEF Marks
    <3>5. AlwaysReads' = AlwaysReads
      BY <3>1 DEF AlwaysReads
    <3> QED
      BY <3>1, <3>4, <3>5
  <2>2. CASE ~Request
    <3>1. recipe' = recipe /\ refused' = refused
      BY <2>2 DEF Next, Drain, Tick, Publish, StartDrain, Accept, Flush, Save, Fail, Crash, vars
    <3>2. AlwaysReads' = AlwaysReads
      BY <3>1 DEF AlwaysReads
    <3> QED
      BY <3>1, <3>2
  <2> QED
    BY <2>1, <2>2
<1>3. L => (AlwaysReads => MarkLegible)
  BY DEF MarkLegible
<1> QED
  BY Invariance, <1>1, <1>2, <1>3, PTL DEF Spec

(* The state's fields are of the kinds that the recipe writes, and no event *)
(* is anywhere before the source has published it.                           *)
THEOREM TypeCorrect == Spec => []TypeOK
<1>1. IInv => TypeOK
  <2> SUFFICES ASSUME IInv
               PROVE  TypeOK
    OBVIOUS
  <2>1. recipe \in Recipes /\ recipe \in RecipeSpace /\ Marks(recipe, mem) /\ Marks(recipe, file)
    BY RecipesAssumption DEF IInv, Kinds
  <2>2. ASSUME NEW v, IsMark(v)
        PROVE  v.t \in MarkKinds
    <3>1. Nil.t = "nil"
      BY DEF Nil, Value
    <3>2. CASE v # Nil
      BY <2>2, <3>2, MarkShape, ReadStamp, ReadNumber DEF MarkKinds
    <3> QED
      BY <3>1, <3>2 DEF MarkKinds
  <2>3. DOMAIN Unset = Slots
    BY DEF Unset, Slots
  <2>4. \A f \in Slots : IsMark(mem[f]) /\ IsMark(file[f])
    BY <2>1, MarkKind DEF Marks, Slots
  <2>5. Events(answer) \subseteq FirstPos .. pub
    BY SourceAssumption DEF Events, IInv, Kinds
  <2> QED
    BY <2>2, <2>3, <2>4, <2>5 DEF IInv, Kinds, TypeOK, States
<1> QED
  BY Invariance, <1>1, PTL
==============================================================================
