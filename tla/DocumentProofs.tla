--------------------------- MODULE DocumentProofs ----------------------------
(***************************************************************************)
(* What the run of a document keeps, whatever the documents, the responses *)
(* and the bounds: an accepted document meets no fault of its own, a drain *)
(* starts its pagination over and resumes from what was saved, and an      *)
(* iteration sees nothing of the one before but state and cache.           *)
(***************************************************************************)
EXTENDS Document, FiniteSetTheorems, SequenceTheorems, WellFoundedInduction, TLAPS

Earlier == {p \in Nat \X Nat : p[1] < p[2]}

(* Of every set of numbers that is not empty one is the least. *)
LEMMA LeastNumber ==
  ASSUME NEW S, S \subseteq Nat, S # {}
  PROVE  \E n \in S : \A m \in S : n <= m
<1>1. IsWellFoundedOn(Earlier, Nat)
  BY NatLessThanWellFounded DEF Earlier, OpToRel
<1>2. PICK n \in S : \A m \in S : ~(<<m, n>> \in Earlier)
  BY <1>1, WFMin
<1>3. ASSUME NEW m \in S PROVE n <= m
  <2>1. <<m, n>> \in Nat \X Nat /\ ~(<<m, n>> \in Earlier)
    BY <1>2
  <2>2. ~(m < n)
    BY <2>1 DEF Earlier
  <2> QED
    BY <2>2
<1> QED
  BY <1>3

(* Induction, over a set of numbers instead of a predicate: what holds of  *)
(* 0, and of n + 1 whenever it holds of n, holds of every number.           *)
LEMMA SetInduction ==
  ASSUME NEW S, 0 \in S, \A n \in Nat : n \in S => n + 1 \in S
  PROVE  Nat \subseteq S
<1> DEFINE T == Nat \ S
<1> SUFFICES ASSUME T # {} PROVE FALSE
  OBVIOUS
<1>1. PICK n \in T : \A m \in T : n <= m
  <2>1. T \subseteq Nat
    OBVIOUS
  <2> HIDE DEF T
  <2> QED
    BY <2>1, LeastNumber
<1>2. n - 1 \in Nat /\ (n - 1) + 1 = n
  OBVIOUS
<1>3. n - 1 \in S
  BY <1>1, <1>2
<1> QED
  BY <1>2, <1>3

(* Min picks an element of the set. *)
LEMMA MinIn ==
  ASSUME NEW S, S \subseteq Nat, S # {}
  PROVE  Min(S) \in S
<1>1. PICK n \in S : \A m \in S : n <= m
  BY LeastNumber
<1> QED
  BY <1>1 DEF Min
-----------------------------------------------------------------------------
(* Expressions: the recursive functions over them have a solution.         *)

(* The nodes of bounded depth are defined: those of depth 0 are none, and  *)
(* the operands of the others are one level less deep.                      *)
LEMMA NodesToDefined ==
  /\ NodesTo[0] = {}
  /\ \A d \in 1 .. MaxDepth : NodesTo[d] = Over(NodesTo[d - 1])
<1> DEFINE Level(g, d) == IF d = 0 THEN {} ELSE Over(g[d - 1])
           Solves(g, n) == g = [d \in 0 .. n |-> Level(g, d)]
           S == {n \in Nat : \E g : Solves(g, n)}
<1>0. /\ \A g : Level(g, 0) = {}
      /\ \A g, d : d # 0 => Level(g, d) = Over(g[d - 1])
  OBVIOUS
<1> HIDE DEF Level
<1>1. 0 \in S
  <2>1. Solves([d \in 0 .. 0 |-> {}], 0)
    BY <1>0
  <2> QED
    BY <2>1
<1>2. ASSUME NEW n \in Nat, n \in S PROVE n + 1 \in S
  <2>1. PICK g : Solves(g, n)
    BY <1>2
  <2> DEFINE h == [d \in 0 .. n + 1 |-> IF d <= n THEN g[d] ELSE Over(g[n])]
  <2>2. ASSUME NEW d \in 0 .. n + 1 PROVE h[d] = Level(h, d)
    <3>1. CASE d = 0
      BY <1>0, <2>1, <3>1
    <3>2. CASE d \in 1 .. n
      <4>1. h[d] = g[d] /\ h[d - 1] = g[d - 1]
        BY <3>2
      <4>2. g[d] = Level(g, d)
        BY <2>1, <3>2
      <4> QED
        BY <1>0, <3>2, <4>1, <4>2
    <3>3. CASE d = n + 1
      BY <1>0, <3>3
    <3> QED
      BY <3>1, <3>2, <3>3
  <2>3. Solves(h, n + 1)
    BY <2>2
  <2> HIDE DEF Solves, h
  <2>4. \E k : Solves(k, n + 1)
    BY <2>3
  <2> QED
    BY <2>4
<1> HIDE DEF S
<1>3. MaxDepth \in S
  BY <1>1, <1>2, SetInduction, DepthAssumption
<1>4. PICK g : Solves(g, MaxDepth)
  BY <1>3 DEF S
<1>5. NodesTo = CHOOSE k : Solves(k, MaxDepth)
  BY DEF NodesTo, Level
<1>6. Solves(NodesTo, MaxDepth)
  <2> HIDE DEF Solves
  <2> QED
    BY <1>4, <1>5
<1> QED
  BY <1>0, <1>6, DepthAssumption

(* A node is a record whose operands are nodes of one level less. *)
LEMMA Operands ==
  ASSUME NEW d \in 1 .. MaxDepth, NEW w \in NodesTo[d]
  PROVE  /\ w \in [f : STRING, p : Seq(STRING), x : STRING, n : Int, m : Int, kids : Seq(NodesTo[d - 1])]
         /\ Formed(w)
         /\ \A i \in DOMAIN w.kids : w.kids[i] \in NodesTo[d - 1]
<1>1. NodesTo[d] = Over(NodesTo[d - 1])
  BY NodesToDefined, DepthAssumption
<1> QED
  BY <1>1 DEF Over

(* A node of some depth is one of every greater depth, and of Nodes. *)
LEMMA DeeperNodes ==
  /\ \A d \in 1 .. MaxDepth : NodesTo[d - 1] \subseteq NodesTo[d]
  /\ \A d \in 0 .. MaxDepth : NodesTo[d] \subseteq Nodes
<1> DEFINE S == {n \in Nat : n + 1 <= MaxDepth => NodesTo[n] \subseteq NodesTo[n + 1]}
           T == {n \in Nat : n <= MaxDepth => NodesTo[MaxDepth - n] \subseteq Nodes}
<1>0. NodesTo[0] = {} /\ 0 \in 0 .. MaxDepth
  BY NodesToDefined, DepthAssumption
<1>1. 0 \in S
  BY <1>0
<1>2. ASSUME NEW n \in Nat, n \in S PROVE n + 1 \in S
  <2> SUFFICES ASSUME (n + 1) + 1 <= MaxDepth PROVE NodesTo[n + 1] \subseteq NodesTo[(n + 1) + 1]
    OBVIOUS
  <2>1. NodesTo[n] \subseteq NodesTo[n + 1]
    BY <1>2, DepthAssumption
  <2>2. /\ n + 1 \in 1 .. MaxDepth /\ (n + 1) - 1 = n
        /\ (n + 1) + 1 \in 1 .. MaxDepth /\ ((n + 1) + 1) - 1 = n + 1
    BY DepthAssumption
  <2>3. NodesTo[n + 1] = Over(NodesTo[n])
    BY <2>2, NodesToDefined, DepthAssumption
  <2>4. NodesTo[(n + 1) + 1] = Over(NodesTo[n + 1])
    BY <2>2, NodesToDefined, DepthAssumption
  <2> QED
    BY <2>1, <2>3, <2>4 DEF Over
<1> HIDE DEF S
<1>3. Nat \subseteq S
  BY <1>1, <1>2, SetInduction
<1>4. ASSUME NEW d \in 1 .. MaxDepth PROVE NodesTo[d - 1] \subseteq NodesTo[d]
  <2>1. d - 1 \in S /\ (d - 1) + 1 = d
    BY <1>3
  <2> QED
    BY <2>1 DEF S
<1>5. 0 \in T
  BY DepthAssumption DEF Nodes
<1>6. ASSUME NEW n \in Nat, n \in T PROVE n + 1 \in T
  <2> SUFFICES ASSUME n + 1 <= MaxDepth PROVE NodesTo[MaxDepth - (n + 1)] \subseteq Nodes
    OBVIOUS
  <2>1. NodesTo[MaxDepth - n] \subseteq Nodes
    BY <1>6, DepthAssumption
  <2>2. MaxDepth - n \in 1 .. MaxDepth /\ (MaxDepth - n) - 1 = MaxDepth - (n + 1)
    BY DepthAssumption
  <2> QED
    BY <1>4, <2>1, <2>2
<1> HIDE DEF T
<1>7. Nat \subseteq T
  BY <1>5, <1>6, SetInduction
<1>8. ASSUME NEW d \in 0 .. MaxDepth PROVE NodesTo[d] \subseteq Nodes
  <2>1. MaxDepth - d \in T /\ MaxDepth - (MaxDepth - d) = d /\ MaxDepth - d <= MaxDepth
    BY <1>7, DepthAssumption
  <2> QED
    BY <2>1 DEF T
<1> QED
  BY <1>4, <1>8

(* The shape of a node, and that its operands are nodes. *)
LEMMA NodeShape ==
  ASSUME NEW w \in Nodes
  PROVE  /\ w \in [f : STRING, p : Seq(STRING), x : STRING, n : Int, m : Int, kids : Seq(Nodes)]
         /\ Formed(w)
         /\ \A i \in DOMAIN w.kids : w.kids[i] \in Nodes
<1>1. MaxDepth # 0
  BY NodesToDefined, DepthAssumption DEF Nodes
<1>2. MaxDepth \in 1 .. MaxDepth /\ MaxDepth - 1 \in 0 .. MaxDepth
  BY <1>1, DepthAssumption
<1>3. NodesTo[MaxDepth - 1] \subseteq Nodes
  BY <1>2, DeeperNodes
<1> QED
  BY <1>2, <1>3, Operands DEF Nodes

(* The evaluation of a node is the answer it gives to those of its         *)
(* operands.                                                                *)
LEMMA EvalUnfolds ==
  ASSUME NEW s, NEW v \in Nodes
  PROVE  Eval(s, v) = Answer(s, v, [i \in DOMAIN v.kids |-> Eval(s, v.kids[i])])
<1> DEFINE At(g, w) == Answer(s, w, [i \in DOMAIN w.kids |-> g[w.kids[i]]])
           Solves(g, N) == g = [w \in N |-> At(g, w)]
           S == {n \in Nat : n <= MaxDepth => \E g : Solves(g, NodesTo[n])}
<1>0. ASSUME NEW g, NEW h, NEW w, \A i \in DOMAIN w.kids : g[w.kids[i]] = h[w.kids[i]]
      PROVE  At(g, w) = At(h, w)
  <2>1. [i \in DOMAIN w.kids |-> g[w.kids[i]]] = [i \in DOMAIN w.kids |-> h[w.kids[i]]]
    BY <1>0
  <2> QED
    BY <2>1
<1>a. \A g, w : At(g, w) = Answer(s, w, [i \in DOMAIN w.kids |-> g[w.kids[i]]])
  OBVIOUS
<1> HIDE DEF At
<1>1. 0 \in S
  <2>1. Solves([w \in {} |-> 0], NodesTo[0])
    BY NodesToDefined
  <2> QED
    BY <2>1
<1>2. ASSUME NEW n \in Nat, n \in S PROVE n + 1 \in S
  <2> SUFFICES ASSUME n + 1 <= MaxDepth PROVE \E k : Solves(k, NodesTo[n + 1])
    OBVIOUS
  <2>1. PICK g : Solves(g, NodesTo[n])
    BY <1>2, DepthAssumption
  <2> DEFINE h == [w \in NodesTo[n + 1] |-> At(g, w)]
  <2>2. ASSUME NEW w \in NodesTo[n + 1] PROVE At(g, w) = At(h, w)
    <3>1. n + 1 \in 1 .. MaxDepth /\ (n + 1) - 1 = n
      BY DepthAssumption
    <3>2. \A i \in DOMAIN w.kids : w.kids[i] \in NodesTo[n]
      BY <3>1, Operands
    <3>3. NodesTo[n] \subseteq NodesTo[n + 1]
      BY <3>1, DeeperNodes
    <3>4. ASSUME NEW i \in DOMAIN w.kids PROVE g[w.kids[i]] = h[w.kids[i]]
      <4>1. w.kids[i] \in NodesTo[n] /\ w.kids[i] \in NodesTo[n + 1]
        BY <3>2, <3>3
      <4>2. h[w.kids[i]] = At(g, w.kids[i])
        BY <4>1
      <4>3. g[w.kids[i]] = At(g, w.kids[i])
        BY <2>1, <4>1
      <4> QED
        BY <4>2, <4>3
    <3> HIDE DEF h
    <3> QED
      BY <3>4, <1>0
  <2>3. Solves(h, NodesTo[n + 1])
    BY <2>2
  <2> HIDE DEF Solves, h
  <2> QED
    BY <2>3
<1> HIDE DEF S
<1>3. MaxDepth \in S
  BY <1>1, <1>2, SetInduction, DepthAssumption
<1>4. PICK g : Solves(g, Nodes)
  BY <1>3, DepthAssumption DEF S, Nodes
<1> DEFINE eval == CHOOSE k : Solves(k, Nodes)
<1>5. Solves(eval, Nodes)
  <2> HIDE DEF Solves
  <2> QED
    BY <1>4
<1>6. \A w : Eval(s, w) = eval[w]
  BY DEF Eval, At
<1> HIDE DEF eval
<1>7. Eval(s, v) = At(eval, v)
  BY <1>5, <1>6
<1>8. [i \in DOMAIN v.kids |-> eval[v.kids[i]]] = [i \in DOMAIN v.kids |-> Eval(s, v.kids[i])]
  BY <1>6
<1> QED
  BY <1>a, <1>7, <1>8

(* What is below a node is the node and what is below its operands. *)
LEMMA SubtermsUnfold ==
  ASSUME NEW v \in Nodes
  PROVE  Subterms(v) = {v} \cup UNION {Subterms(v.kids[i]) : i \in DOMAIN v.kids}
<1> DEFINE At(g, w) == {w} \cup UNION {g[w.kids[i]] : i \in DOMAIN w.kids}
           Solves(g, N) == g = [w \in N |-> At(g, w)]
           S == {n \in Nat : n <= MaxDepth => \E g : Solves(g, NodesTo[n])}
<1>0. ASSUME NEW g, NEW h, NEW w, \A i \in DOMAIN w.kids : g[w.kids[i]] = h[w.kids[i]]
      PROVE  At(g, w) = At(h, w)
  <2>1. {g[w.kids[i]] : i \in DOMAIN w.kids} = {h[w.kids[i]] : i \in DOMAIN w.kids}
    BY <1>0
  <2> QED
    BY <2>1
<1>a. \A g, w : At(g, w) = {w} \cup UNION {g[w.kids[i]] : i \in DOMAIN w.kids}
  OBVIOUS
<1> HIDE DEF At
<1>1. 0 \in S
  <2>1. Solves([w \in {} |-> 0], NodesTo[0])
    BY NodesToDefined
  <2> QED
    BY <2>1
<1>2. ASSUME NEW n \in Nat, n \in S PROVE n + 1 \in S
  <2> SUFFICES ASSUME n + 1 <= MaxDepth PROVE \E k : Solves(k, NodesTo[n + 1])
    OBVIOUS
  <2>1. PICK g : Solves(g, NodesTo[n])
    BY <1>2, DepthAssumption
  <2> DEFINE h == [w \in NodesTo[n + 1] |-> At(g, w)]
  <2>2. ASSUME NEW w \in NodesTo[n + 1] PROVE At(g, w) = At(h, w)
    <3>1. n + 1 \in 1 .. MaxDepth /\ (n + 1) - 1 = n
      BY DepthAssumption
    <3>2. \A i \in DOMAIN w.kids : w.kids[i] \in NodesTo[n]
      BY <3>1, Operands
    <3>3. NodesTo[n] \subseteq NodesTo[n + 1]
      BY <3>1, DeeperNodes
    <3>4. ASSUME NEW i \in DOMAIN w.kids PROVE g[w.kids[i]] = h[w.kids[i]]
      <4>1. w.kids[i] \in NodesTo[n] /\ w.kids[i] \in NodesTo[n + 1]
        BY <3>2, <3>3
      <4>2. h[w.kids[i]] = At(g, w.kids[i])
        BY <4>1
      <4>3. g[w.kids[i]] = At(g, w.kids[i])
        BY <2>1, <4>1
      <4> QED
        BY <4>2, <4>3
    <3> HIDE DEF h
    <3> QED
      BY <3>4, <1>0
  <2>3. Solves(h, NodesTo[n + 1])
    BY <2>2
  <2> HIDE DEF Solves, h
  <2> QED
    BY <2>3
<1> HIDE DEF S
<1>3. MaxDepth \in S
  BY <1>1, <1>2, SetInduction, DepthAssumption
<1>4. PICK g : Solves(g, Nodes)
  BY <1>3, DepthAssumption DEF S, Nodes
<1> DEFINE below == CHOOSE k : Solves(k, Nodes)
<1>5. Solves(below, Nodes)
  <2> HIDE DEF Solves
  <2> QED
    BY <1>4
<1>6. \A w : Subterms(w) = below[w]
  BY DEF Subterms, At
<1> HIDE DEF below
<1>7. Subterms(v) = At(below, v)
  BY <1>5, <1>6
<1>8. {below[v.kids[i]] : i \in DOMAIN v.kids} = {Subterms(v.kids[i]) : i \in DOMAIN v.kids}
  BY <1>6
<1> QED
  BY <1>a, <1>7, <1>8
-----------------------------------------------------------------------------
(* What comes out of an evaluation: a value, an error of the data, or,     *)
(* where that is excused, a name that is not bound (root) or what no check *)
(* asked of the document (lapses).                                          *)
Fine(r) == (\E x : r = Ok(x)) \/ r = Error
Sane(r, root, lapses) == Fine(r) \/ (root /\ r = Ill("root")) \/ \E why \in lapses : r = Ill(why)

(* A result says whether it is a value, and which.                         *)
LEMMA Outcomes ==
  /\ \A x : Ok(x).ok = TRUE /\ Ok(x).v = x
  /\ Error.ok = FALSE /\ Error.v = Nil
  /\ \A why : Ill(why).ok = FALSE /\ Ill(why).v = Text(why, 0)
BY DEF Ok, Error, Ill

(* A sane result is a value, or it is not and can be passed on.            *)
LEMMA SaneOk ==
  ASSUME NEW r, NEW root, NEW lapses, Sane(r, root, lapses)
  PROVE  (r.ok = TRUE /\ r = Ok(r.v)) \/ r.ok = FALSE
BY Outcomes DEF Sane, Fine

(* Values, and errors of the data, are sane whatever is excused.           *)
LEMMA FineSane ==
  ASSUME NEW root, NEW lapses
  PROVE  /\ \A x : Sane(Ok(x), root, lapses)
         /\ Sane(Error, root, lapses)
         /\ \A r : Fine(r) => Sane(r, root, lapses)
BY DEF Sane, Fine

(* The results of a list in order: a value, or one of those results.       *)
LEMMA InOrderSane ==
  ASSUME NEW root, NEW lapses, NEW n \in Nat, NEW r, DOMAIN r = 1 .. n,
         \A i \in 1 .. n : Sane(r[i], root, lapses)
  PROVE  Sane(InOrder(r), root, lapses)
<1> DEFINE bad == {i \in DOMAIN r : ~r[i].ok}
<1>1. CASE bad # {}
  <2>1. Min(bad) \in bad
    BY <1>1, MinIn
  <2>2. InOrder(r) = r[Min(bad)]
    BY <1>1 DEF InOrder
  <2> QED
    BY <2>1, <2>2
<1>2. CASE bad = {}
  <2>1. InOrder(r) = Ok(List([i \in DOMAIN r |-> r[i].v]))
    BY <1>2 DEF InOrder
  <2> QED
    BY <2>1, FineSane
<1> QED
  BY <1>1, <1>2

(* and, or: one of the answers, or a value.                                *)
LEMMA FirstDecisiveSane ==
  ASSUME NEW root, NEW lapses, NEW n \in Nat, NEW r, DOMAIN r = 1 .. n, NEW decisive, NEW otherwise,
         \A i \in 1 .. n : Sane(r[i], root, lapses)
  PROVE  Sane(FirstDecisive(r, decisive, otherwise), root, lapses)
<1> DEFINE decides == {i \in DOMAIN r : ~r[i].ok \/ r[i].v = decisive}
<1>1. CASE decides # {}
  <2>1. Min(decides) \in decides
    BY <1>1, MinIn
  <2>2. FirstDecisive(r, decisive, otherwise) = r[Min(decides)]
    BY <1>1 DEF FirstDecisive
  <2> QED
    BY <2>1, <2>2
<1>2. CASE decides = {}
  <2>1. FirstDecisive(r, decisive, otherwise) = Ok(otherwise)
    BY <1>2 DEF FirstDecisive
  <2> QED
    BY <2>1, FineSane
<1> QED
  BY <1>1, <1>2

(* select: one of the arms, the default, or the error of a when.           *)
LEMMA EvalSelectSane ==
  ASSUME NEW root, NEW lapses, NEW n \in Nat, n % 2 = 1, NEW r, r = [i \in 1 .. n |-> r[i]],
         \A i \in 1 .. n : Sane(r[i], root, lapses)
  PROVE  Sane(EvalSelect(r), root, lapses)
<1> DEFINE answers == [i \in 1 .. Len(r) \div 2 |-> r[2 * i - 1]]
           taken == {i \in DOMAIN answers : ~answers[i].ok \/ answers[i].v.n = 1}
<1>1. Len(r) = n /\ n >= 1 /\ n \div 2 \in Nat /\ 2 * (n \div 2) <= n
  OBVIOUS
<1>2. EvalSelect(r) = IF taken = {} THEN r[Len(r)] ELSE Then(answers[Min(taken)], LAMBDA v : r[2 * Min(taken)])
  BY DEF EvalSelect, FirstTaken
<1>3. CASE taken = {}
  <2>1. EvalSelect(r) = r[n]
    BY <1>1, <1>2, <1>3
  <2> QED
    BY <1>1, <2>1
<1>4. CASE taken # {}
  <2> DEFINE m == Min(taken)
  <2>1. taken \subseteq 1 .. n \div 2
    BY <1>1
  <2>2. m \in taken
    <3> HIDE DEF taken
    <3> QED
      BY <1>1, <1>4, <2>1, MinIn
  <2>3. m \in 1 .. n \div 2
    BY <2>1, <2>2
  <2>4. 2 * m \in 1 .. n /\ 2 * m - 1 \in 1 .. n
    <3> HIDE DEF m
    <3> QED
      BY <1>1, <2>3
  <2>5. answers[m] = r[2 * m - 1]
    BY <1>1, <2>3
  <2>6. EvalSelect(r) = IF answers[m].ok THEN r[2 * m] ELSE answers[m]
    BY <1>2, <1>4 DEF Then
  <2> HIDE DEF m, taken, answers
  <2> QED
    BY <2>4, <2>5, <2>6
<1> QED
  BY <1>3, <1>4

(* A coercion gives a value or an error of the data.                       *)
LEMMA CoercionsFine ==
  ASSUME NEW v
  PROVE  Fine(ToInt(v)) /\ Fine(ToBool(v)) /\ Fine(ToTime(v)) /\ Fine(ToDuration(v)) /\ Fine(CoerceFanOutList(v))
<1>1. Fine(ToInt(v))
  BY DEF Fine, ToInt
<1>2. Fine(ToBool(v))
  BY DEF Fine, ToBool
<1>3. Fine(ToTime(v))
  BY DEF Fine, ToTime
<1>4. Fine(ToDuration(v))
  BY DEF Fine, ToDuration
<1>5. Fine(CoerceFanOutList(v))
  BY DEF Fine, CoerceFanOutList
<1> QED
  BY <1>1, <1>2, <1>3, <1>4, <1>5

(* So does a format verb that is one.                                      *)
LEMMA ApplyFormatFine ==
  ASSUME NEW verb \in Verbs, NEW v
  PROVE  Fine(ApplyFormat(verb, v))
<1>1. CASE verb = "string"
  BY <1>1 DEF ApplyFormat, Fine
<1>2. CASE verb = "int"
  BY <1>2, CoercionsFine DEF ApplyFormat
<1>3. CASE verb = "bool"
  BY <1>3, CoercionsFine DEF ApplyFormat
<1>4. CASE verb = "rfc3339"
  BY <1>4 DEF ApplyFormat, Fine
<1>5. CASE verb = "rfc3339nano"
  BY <1>5 DEF ApplyFormat, Fine
<1>6. CASE verb = "unix_seconds"
  BY <1>6 DEF ApplyFormat, Fine
<1>7. CASE verb = "unix_millis"
  BY <1>7 DEF ApplyFormat, Fine
<1>8. CASE verb = "duration"
  BY <1>8 DEF ApplyFormat, Fine
<1>9. CASE verb = "url_encode"
  BY <1>9 DEF ApplyFormat, Fine
<1>10. CASE verb = "parse_duration"
  BY <1>10 DEF ApplyFormat, Fine
<1> QED
  BY <1>1, <1>2, <1>3, <1>4, <1>5, <1>6, <1>7, <1>8, <1>9, <1>10 DEF Verbs

(* A verb that is none has lapsed, and evaluates to nothing else.          *)
LEMMA ApplyFormatSane ==
  ASSUME NEW root, NEW lapses, NEW verb, NEW v, VerbLapse(verb) \subseteq lapses
  PROVE  Sane(ApplyFormat(verb, v), root, lapses)
<1>1. CASE verb \in Verbs
  BY <1>1, ApplyFormatFine, FineSane
<1>2. CASE verb \notin Verbs
  <2>1. ApplyFormat(verb, v) = Ill("verb")
    BY <1>2 DEF ApplyFormat, Verbs
  <2>2. "verb" \in lapses
    BY <1>2 DEF VerbLapse
  <2> QED
    BY <2>1, <2>2 DEF Sane
<1> QED
  BY <1>1, <1>2

(* So does arithmetic.                                                     *)
LEMMA EvalArithFine ==
  ASSUME NEW verb, NEW a, NEW b
  PROVE  Fine(EvalArith(verb, a, b))
<1>1. \A da, db : Fine(ArithAdd(a, b, da, db))
  BY DEF ArithAdd, Fine
<1>2. \A da, db : Fine(ArithSubtract(a, b, da, db))
  BY DEF ArithSubtract, Fine
<1>3. Fine(Ok(Nil))
  BY DEF Fine
<1> QED
  BY <1>1, <1>2, <1>3 DEF EvalArith

(* So does the answer of a comparison.                                     *)
LEMMA ComparedFine ==
  ASSUME NEW c
  PROVE  Fine(Compared(c))
BY DEF Compared, Fine

(* A regular expression: a value, what the caller takes for no match, or   *)
(* a pattern or a group that no check asked about.                          *)
LEMMA ApplyRegexSane ==
  ASSUME NEW root, NEW lapses, NEW pattern, NEW text, NEW capture \in Int, capture >= 0,
         RegexLapse(pattern, capture) \subseteq lapses,
         NEW otherwise, Sane(otherwise, root, lapses)
  PROVE  Sane(ApplyRegex(pattern, text, capture, otherwise), root, lapses)
<1>1. ~(capture < 0)
  OBVIOUS
<1>2. CASE pattern = "("
  <2>1. ApplyRegex(pattern, text, capture, otherwise) = Ill("pattern") /\ "pattern" \in lapses
    BY <1>1, <1>2 DEF ApplyRegex, RegexLapse
  <2> QED
    BY <2>1 DEF Sane
<1>3. CASE pattern # "(" /\ capture > Groups(pattern)
  <2>1. "group" \in lapses
    BY <1>3 DEF RegexLapse
  <2>2. ApplyRegex(pattern, text, capture, otherwise) \in {otherwise, Ill("group")}
    BY <1>1, <1>3 DEF ApplyRegex
  <2> QED
    BY <2>1, <2>2 DEF Sane
<1>4. CASE pattern # "(" /\ ~(capture > Groups(pattern))
  BY <1>1, <1>4, FineSane DEF ApplyRegex
<1> QED
  BY <1>2, <1>3, <1>4
-----------------------------------------------------------------------------
(* References.                                                             *)

(* Where a validated path is not resolved although the document has it:    *)
(* the alias of a fan-out, read where it is not bound.                     *)
AliasUnbound(s, sc, p) == sc.alias # "" /\ s.binding # sc.alias /\ p # << >> /\ p[1] = sc.alias

(* An alias is no namespace, and what was checked with one runs with that  *)
(* one bound or with none.                                                  *)
AliasApart(s, sc) ==
  sc.alias \notin ClosedRoots /\ (sc.alias = "" \/ s.binding = "" \/ s.binding = sc.alias)

(* What is left of a path after its root.                                  *)
LEMMA PathTail ==
  ASSUME NEW p \in Seq(STRING), p # << >>
  PROVE  /\ Tail(p) \in Seq(STRING) /\ Len(p) \in Nat \ {0} /\ Len(Tail(p)) = Len(p) - 1
         /\ \A i \in 1 .. Len(p) - 1 : Tail(p)[i] = p[i + 1]
         /\ Len(p) >= 2 => Tail(p) # << >> /\ Tail(p)[1] = p[2]
         /\ Len(p) >= 3 => Tail(p)[2] = p[3]
         /\ SubSeq(Tail(p), 3, Len(Tail(p))) \in Seq(STRING)
<1> DEFINE rest == Tail(p)
<1>1. /\ rest \in Seq(STRING) /\ Len(rest) = Len(p) - 1
      /\ \A i \in 1 .. Len(rest) : rest[i] = p[i + 1]
  BY HeadTailProperties
<1>2. Len(p) \in Nat \ {0}
  BY EmptySeq
<1> HIDE DEF rest
<1>3. Len(p) >= 2 => rest # << >> /\ rest[1] = p[2]
  BY <1>1, <1>2
<1>4. Len(p) >= 3 => rest[2] = p[3]
  BY <1>1, <1>2
<1>5. SubSeq(rest, 3, Len(rest)) \in Seq(STRING)
  <2>1. Len(rest) \in Nat /\ \A i \in 3 .. Len(rest) : rest[i] \in STRING
    BY <1>1, ElementOfSeq, LenProperties
  <2> QED
    BY <2>1, SubSeqProperties
<1> QED
  BY <1>1, <1>2, <1>3, <1>4, <1>5 DEF rest

(* Below a namespace, below events, steps and response: what is left of a  *)
(* validated path resolves.                                                 *)
LEMMA NamedResolves ==
  ASSUME NEW space, NEW q, q # << >>
  PROVE  \E x : Named(space, q) = Ok(x)
BY DEF Named

(* events: count has nothing below it.                                     *)
LEMMA EventsResolve ==
  ASSUME NEW events, NEW q, q[1] = "count" => Len(q) = 1
  PROVE  \E x : ResolveEvents(events, q) = Ok(x)
BY DEF ResolveEvents

(* steps: a body, or a header with a name.                                 *)
LEMMA StepsResolve ==
  ASSUME NEW s, NEW q \in Seq(STRING), Len(q) >= 2,
         q[2] = "body" \/ (q[2] = "header" /\ Len(q) >= 3)
  PROVE  \E x : ResolveSteps(s, q) = Ok(x)
<1>1. ~(Len(q) < 2)
  OBVIOUS
<1>2. <<q[1]>> \o SubSeq(q, 3, Len(q)) # << >>
  <2>1. q[1] \in STRING
    OBVIOUS
  <2>2. <<q[1]>> \in Seq(STRING) /\ <<q[1]>> # << >>
    BY <2>1
  <2>3. SubSeq(q, 3, Len(q)) \in Seq(STRING)
    BY SubSeqProperties
  <2> QED
    BY <2>2, <2>3, ConcatEqualIffEmpty
<1>3. \E x : Named(s.steps, <<q[1]>> \o SubSeq(q, 3, Len(q))) = Ok(x)
  BY <1>2, NamedResolves
<1> QED
  BY <1>1, <1>3 DEF ResolveSteps

(* response: a body, or a header with a name.                              *)
LEMMA ResponseResolves ==
  ASSUME NEW s, NEW q, q # << >>, q[1] = "body" \/ (q[1] = "header" /\ Len(q) >= 2)
  PROVE  \E x : ResolveResponse(s, q) = Ok(x)
BY DEF ResolveResponse

(* One less than the length of a path.                                     *)
LEMMA OneLess ==
  ASSUME NEW a, NEW b \in Nat \ {0}, a = b - 1
  PROVE  (b = 2 => a = 1) /\ (b >= 3 => a >= 2) /\ (b >= 4 => a >= 3 /\ b >= 3)
OBVIOUS

(* A path that the validator lets pass resolves, to nothing at worst, with *)
(* the alias it was checked with bound or not; one checked without an alias *)
(* does whatever is bound.                                                  *)
LEMMA PathResolves ==
  ASSUME NEW s, NEW sc, NEW p \in Seq(STRING), ChecksPathRef(p, sc), AliasApart(s, sc)
  PROVE  \/ \E x : ResolveNamespaceRef(s, p) = Ok(x)
         \/ AliasUnbound(s, sc, p) /\ ResolveNamespaceRef(s, p) = Ill("root")
<1> DEFINE rest == Tail(p)
<1>0. p # << >>
  BY DEF ChecksPathRef
<1>a. rest \in Seq(STRING) /\ Len(p) \in Nat \ {0} /\ Len(rest) = Len(p) - 1
  BY <1>0, PathTail
<1>f. (Len(p) = 2 => Len(rest) = 1) /\ (Len(p) >= 3 => Len(rest) >= 2) /\ (Len(p) >= 4 => Len(rest) >= 3)
  <2> DEFINE a == Len(rest)
             b == Len(p)
  <2>1. b \in Nat \ {0} /\ a = b - 1
    BY <1>a
  <2> HIDE DEF a, b
  <2>2. (b = 2 => a = 1) /\ (b >= 3 => a >= 2) /\ (b >= 4 => a >= 3)
    BY <2>1, OneLess
  <2> QED
    BY <2>2 DEF a, b
<1>c. Len(p) >= 2 => rest # << >>
  BY <1>0, PathTail
<1>d. Len(p) >= 2 => rest[1] = p[2]
  BY <1>0, PathTail
<1>e. Len(p) >= 3 => rest[2] = p[3]
  BY <1>0, PathTail
<1>b. ResolveNamespaceRef(s, p) =
        IF s.binding # "" /\ p[1] = s.binding THEN Ok(Walk(s.item, rest))
        ELSE CASE p[1] = "state"    -> Named(s.state, rest)
               [] p[1] = "cache"    -> Named(s.cache, rest)
               [] p[1] = "events"   -> ResolveEvents(s.events, rest)
               [] p[1] = "extract"  -> Named(s.extract, rest)
               [] p[1] = "steps"    -> ResolveSteps(s, rest)
               [] p[1] = "response" -> ResolveResponse(s, rest)
               [] OTHER             -> Ill("root")
  BY <1>0 DEF ResolveNamespaceRef
<1> HIDE DEF rest
<1>g. sc.alias \notin ClosedRoots
  BY DEF AliasApart
<1>h. ~(s.binding # "" /\ p[1] = s.binding) /\ sc.alias # "" /\ p[1] = sc.alias => s.binding = ""
  BY DEF AliasApart
<1>1. CASE s.binding # "" /\ p[1] = s.binding
  BY <1>b, <1>1
<1>2. CASE ~(s.binding # "" /\ p[1] = s.binding) /\ sc.alias # "" /\ p[1] = sc.alias
  <2>1. ResolveNamespaceRef(s, p) = Ill("root")
    BY <1>b, <1>g, <1>2 DEF ClosedRoots
  <2>2. s.binding # sc.alias
    BY <1>2, <1>h
  <2> QED
    BY <1>0, <1>2, <2>1, <2>2 DEF AliasUnbound
<1>3. CASE ~(s.binding # "" /\ p[1] = s.binding) /\ ~(sc.alias # "" /\ p[1] = sc.alias)
  <2>1. CASE p[1] = "state" /\ ChecksNamed(p, sc.state)
    <3>1. rest # << >>
      BY <1>c, <2>1 DEF ChecksNamed
    <3> QED
      BY <1>b, <1>3, <2>1, <3>1, NamedResolves
  <2>2. CASE p[1] = "cache" /\ ChecksNamed(p, sc.slots)
    <3>1. rest # << >>
      BY <1>c, <2>2 DEF ChecksNamed
    <3> QED
      BY <1>b, <1>3, <2>2, <3>1, NamedResolves
  <2>3. CASE p[1] = "extract" /\ ChecksNamed(p, sc.extract)
    <3>1. rest # << >>
      BY <1>c, <2>3 DEF ChecksNamed
    <3> QED
      BY <1>b, <1>3, <2>3, <3>1, NamedResolves
  <2>4. CASE p[1] = "events" /\ ChecksEventsRef(p)
    <3>1. ResolveNamespaceRef(s, p) = ResolveEvents(s.events, rest)
      BY <1>b, <1>3, <2>4
    <3>2. Len(p) >= 2 /\ (p[2] = "count" => Len(p) = 2)
      BY <2>4 DEF ChecksEventsRef, Numerals
    <3>3. rest[1] = p[2]
      BY <1>d, <3>2
    <3>4. rest[1] = "count" => Len(rest) = 1
      BY <1>f, <3>2, <3>3
    <3> QED
      BY <3>1, <3>4, EventsResolve
  <2>5. CASE p[1] = "steps" /\ ChecksStepsRef(p, sc)
    <3>1. ResolveNamespaceRef(s, p) = ResolveSteps(s, rest)
      BY <1>b, <1>3, <2>5
    <3>2. Len(p) >= 3 /\ (p[3] = "body" \/ (p[3] = "header" /\ Len(p) >= 4))
      BY <2>5 DEF ChecksStepsRef
    <3>3. rest[2] = p[3]
      BY <1>e, <3>2
    <3>4. Len(rest) >= 2 /\ (Len(p) >= 4 => Len(rest) >= 3)
      BY <1>f, <3>2
    <3>5. rest[2] = "body" \/ (rest[2] = "header" /\ Len(rest) >= 3)
      BY <3>2, <3>3, <3>4
    <3> QED
      BY <1>a, <3>1, <3>4, <3>5, StepsResolve
  <2>6. CASE p[1] = "response" /\ ChecksResponseRef(p)
    <3>1. ResolveNamespaceRef(s, p) = ResolveResponse(s, rest)
      BY <1>b, <1>3, <2>6
    <3>2. Len(p) >= 2 /\ (p[2] = "body" \/ (p[2] = "header" /\ Len(p) >= 3))
      BY <2>6 DEF ChecksResponseRef
    <3>3. rest # << >> /\ rest[1] = p[2]
      BY <1>c, <1>d, <3>2
    <3>4. Len(p) >= 3 => Len(rest) >= 2
      BY <1>f
    <3>5. rest[1] = "body" \/ (rest[1] = "header" /\ Len(rest) >= 2)
      BY <3>2, <3>3, <3>4
    <3> QED
      BY <3>1, <3>3, <3>5, ResponseResolves
  <2> QED
    BY <1>3, <2>1, <2>2, <2>3, <2>4, <2>5, <2>6 DEF ChecksPathRef
<1> QED
  BY <1>1, <1>2, <1>3
-----------------------------------------------------------------------------
(* Evaluation: by the form of a node.                                      *)

(* A reducer's operand: a list, or an error.                               *)
LEMMA ListOperandSane ==
  ASSUME NEW root, NEW lapses, NEW r, Sane(r, root, lapses)
  PROVE  Sane(Then(r, CoerceFanOutList), root, lapses)
<1>1. Then(r, CoerceFanOutList) = IF r.ok THEN CoerceFanOutList(r.v) ELSE r
  BY DEF Then
<1> QED
  BY <1>1, SaneOk, CoercionsFine, FineSane

(* The value of a node is sane if those of its operands are and its own    *)
(* reference was checked.                                                   *)
LEMMA AnswerSane ==
  ASSUME NEW s, NEW sc, NEW w \in Nodes, ValueNode(w, sc), PredicateNode(w, sc), AliasApart(s, sc),
         NEW root, NEW lapses, AliasUnbound(s, sc, w.p) => root, Lapse(w) \subseteq lapses,
         NEW r, r = [i \in DOMAIN w.kids |-> r[i]], \A i \in DOMAIN w.kids : Sane(r[i], root, lapses)
  PROVE  Sane(Answer(s, w, r), root, lapses)
<1> DEFINE P == ResolveNamespaceRef(s, w.p)
           n == Len(w.kids)
<1>a. w.kids \in Seq(Nodes) /\ w.p \in Seq(STRING) /\ w.n \in Int /\ Formed(w)
  BY NodeShape
<1>b. n \in Nat /\ DOMAIN w.kids = 1 .. n
  BY <1>a, LenProperties
<1> HIDE DEF n
<1>c. r = [i \in 1 .. n |-> r[i]] /\ \A i \in 1 .. n : Sane(r[i], root, lapses)
  BY <1>b
<1>d. DOMAIN r = 1 .. n /\ Len(r) = n /\ (n = 0 => r = << >>)
  BY <1>b, <1>c
<1>i. (n >= 1 => 1 \in 1 .. n) /\ (n >= 2 => 2 \in 1 .. n)
  BY <1>b
<1>j. (n >= 1 => Sane(r[1], root, lapses)) /\ (n >= 2 => Sane(r[2], root, lapses))
  BY <1>c, <1>i
<1>e. ChecksPathRef(w.p, sc) => Sane(P, root, lapses)
  <2> SUFFICES ASSUME ChecksPathRef(w.p, sc) PROVE Sane(P, root, lapses)
    OBVIOUS
  <2> HIDE DEF P
  <2>1. (\E x : P = Ok(x)) \/ (AliasUnbound(s, sc, w.p) /\ P = Ill("root"))
    BY <1>a, PathResolves DEF P
  <2> QED
    BY <2>1 DEF Sane, Fine
<1>f. w.f \in Unary => n = 1
  BY <1>a DEF Formed, n
<1>g. n = 1 => Sane(r[1], root, lapses)
  <2>1. n = 1 => n >= 1
    OBVIOUS
  <2> QED
    BY <1>j, <2>1
<1>h. ASSUME NEW v PROVE Sane(Ok(v), root, lapses)
  BY FineSane
<1> HIDE DEF P
<1>1. CASE w.f \in {"zero", "str", "int", "bool", "now"}
  <2>1. Fine(Answer(s, w, r))
    BY <1>1 DEF Answer, EvalNode, PredicateForms, Comparisons, Reducers, Fine
  <2> QED
    BY <2>1, FineSane
<1>2. CASE w.f = "ref"
  <2>1. Answer(s, w, r) = IF P.ok THEN IF ~IsZeroRuntime(P.v) THEN Ok(P.v) ELSE IF r = << >> THEN Ok(Nil) ELSE r[1]
                          ELSE P
    BY <1>2 DEF Answer, EvalNode, PredicateForms, Comparisons, Reducers, Then, P
  <2>2. Sane(P, root, lapses)
    BY <1>2, <1>e DEF ValueNode
  <2>3. n <= 1
    BY <1>2, <1>a DEF Formed, n
  <2>4. n = 0 \/ n = 1
    BY <1>b, <2>3
  <2> QED
    BY <1>d, <1>g, <1>h, <2>1, <2>2, <2>4
<1>3. CASE w.f = "concat"
  <2>1. \/ Answer(s, w, r) = Ok(Joined(InOrder(r).v.e))
        \/ Answer(s, w, r) = InOrder(r)
    BY <1>3 DEF Answer, EvalNode, PredicateForms, Comparisons, Reducers, Then
  <2> QED
    BY <1>b, <1>c, <1>d, <1>h, <2>1, InOrderSane
<1>4. CASE w.f = "select"
  <2>1. Answer(s, w, r) = EvalSelect(r)
    BY <1>4 DEF Answer, EvalNode, PredicateForms, Comparisons, Reducers
  <2>2. n % 2 = 1
    BY <1>4, <1>a DEF Formed, n
  <2> QED
    BY <1>b, <1>c, <2>1, <2>2, EvalSelectSane
<1>5. CASE w.f = "format"
  <2>1. Answer(s, w, r) = IF r[1].ok THEN ApplyFormat(w.x, r[1].v) ELSE r[1]
    BY <1>5 DEF Answer, EvalNode, PredicateForms, Comparisons, Reducers, Then
  <2>2. VerbLapse(w.x) \subseteq lapses
    BY <1>5 DEF Lapse
  <2>3. Sane(ApplyFormat(w.x, r[1].v), root, lapses)
    BY <2>2, ApplyFormatSane
  <2> QED
    BY <1>5, <1>f, <1>g, <2>1, <2>3 DEF Unary
<1>6. CASE w.f = "base64"
  <2>1. Answer(s, w, r) = IF r[1].ok THEN Ok(IF ToText(r[1].v) = Empty THEN Empty ELSE Text("word", 64)) ELSE r[1]
    BY <1>6 DEF Answer, EvalNode, PredicateForms, Comparisons, Reducers, Then
  <2> QED
    BY <1>6, <1>f, <1>g, <1>h, <2>1 DEF Unary
<1>7. CASE w.f = "list"
  <2>1. Answer(s, w, r) = InOrder(r)
    BY <1>7 DEF Answer, EvalNode, PredicateForms, Comparisons, Reducers
  <2> QED
    BY <1>b, <1>c, <1>d, <2>1, InOrderSane
<1>8. CASE w.f = "field"
  <2>1. Answer(s, w, r) = r[1]
    BY <1>8 DEF Answer, EvalNode, PredicateForms, Comparisons, Reducers
  <2> QED
    BY <1>8, <1>f, <1>g, <2>1 DEF Unary
<1>9. CASE w.f = "object"
  <2>1. (\E x : Answer(s, w, r) = Ok(x)) \/ Answer(s, w, r) = InOrder(r)
    BY <1>9 DEF Answer, EvalNode, PredicateForms, Comparisons, Reducers, Then
  <2> QED
    BY <1>b, <1>c, <1>d, <1>h, <2>1, InOrderSane
<1>10. CASE w.f \in {"add", "subtract"}
  <2>1. n = 2
    BY <1>10, <1>a DEF Formed, n
  <2>2. \/ \E a, b : Answer(s, w, r) = EvalArith(w.f, a, b)
        \/ Answer(s, w, r) = InOrder(r)
    BY <1>10, <1>d, <2>1 DEF Answer, EvalNode, PredicateForms, Comparisons, Reducers, Then
  <2> QED
    BY <1>b, <1>c, <1>d, <2>2, InOrderSane, EvalArithFine, FineSane
<1>11. CASE w.f \in Reducers
  <2>1. (\E x : Answer(s, w, r) = Ok(x)) \/ Answer(s, w, r) = Then(r[1], CoerceFanOutList)
    BY <1>11 DEF Answer, EvalNode, PredicateForms, Comparisons, Reducers, Then
  <2> QED
    BY <1>11, <1>f, <1>g, <1>h, <2>1, ListOperandSane DEF Unary
<1>12. CASE w.f = "slice"
  <2>1. (\E x : Answer(s, w, r) = Ok(x)) \/ Answer(s, w, r) = Then(r[1], CoerceFanOutList)
    BY <1>12 DEF Answer, EvalNode, PredicateForms, Comparisons, Reducers, Then
  <2> QED
    BY <1>12, <1>f, <1>g, <1>h, <2>1, ListOperandSane DEF Unary
<1>13. CASE w.f = "regex"
  <2> DEFINE otherwise == IF Len(r) = 1 THEN Ok(Nil) ELSE r[2]
  <2>1. Answer(s, w, r) = IF r[1].ok THEN ApplyRegex(w.x, ToText(r[1].v), w.n, otherwise) ELSE r[1]
    BY <1>13 DEF Answer, EvalNode, PredicateForms, Comparisons, Reducers, Then
  <2>2. n \in {1, 2}
    BY <1>13, <1>a DEF Formed, n
  <2>6. n >= 1 /\ (n = 2 => n >= 2)
    BY <2>2
  <2>3. Sane(r[1], root, lapses) /\ (n = 2 => Sane(r[2], root, lapses))
    BY <1>j, <2>6
  <2>4. Sane(otherwise, root, lapses)
    BY <1>d, <1>h, <2>2, <2>3
  <2>5. w.n >= 0
    BY <1>13 DEF ValueNode
  <2>7. RegexLapse(w.x, w.n) \subseteq lapses
    BY <1>13 DEF Lapse
  <2> HIDE DEF otherwise
  <2> QED
    BY <1>a, <2>1, <2>3, <2>4, <2>5, <2>7, ApplyRegexSane
<1>14. CASE w.f = "blank"
  <2>1. Answer(s, w, r) = Ill("variant")
    BY <1>14 DEF Answer, EvalNode, PredicateForms, Comparisons, Reducers
  <2>2. "variant" \in lapses
    BY <1>14 DEF Lapse
  <2> QED
    BY <2>1, <2>2 DEF Sane
<1>15. CASE w.f = "literal"
  <2>1. Answer(s, w, r) = Ok(Bool(w.n = 1))
    BY <1>15 DEF Answer, HoldsNode, PredicateForms, Comparisons
  <2> QED
    BY <1>h, <2>1
<1>16. CASE w.f = "present"
  <2>1. (\E x : Answer(s, w, r) = Ok(x)) \/ Answer(s, w, r) = P
    BY <1>16 DEF Answer, HoldsNode, PredicateForms, Comparisons, Then, P
  <2>2. Sane(P, root, lapses)
    BY <1>16, <1>e DEF PredicateNode
  <2> QED
    BY <1>h, <2>1, <2>2
<1>17. CASE w.f \in Comparisons
  <2> DEFINE sides == <<P, r[1]>>
  <2>1. (\E c : Answer(s, w, r) = Compared(c)) \/ Answer(s, w, r) = InOrder(sides)
    BY <1>17 DEF Answer, HoldsNode, PredicateForms, Comparisons, Then, P
  <2>2. Sane(P, root, lapses)
    BY <1>17, <1>e DEF PredicateNode
  <2>4. Sane(sides[1], root, lapses) /\ Sane(sides[2], root, lapses)
    BY <1>17, <1>f, <1>g, <2>2 DEF Unary
  <2>5. DOMAIN sides = 1 .. 2 /\ \A i \in 1 .. 2 : i = 1 \/ i = 2
    OBVIOUS
  <2>3. DOMAIN sides = 1 .. 2 /\ \A i \in 1 .. 2 : Sane(sides[i], root, lapses)
    BY <2>4, <2>5
  <2> HIDE DEF sides
  <2> QED
    BY <2>1, <2>3, InOrderSane, ComparedFine, FineSane
<1>18. CASE w.f \in {"and", "or"}
  <2>1. Answer(s, w, r) = FirstDecisive(r, Bool(w.f = "or"), Bool(w.f = "and"))
    BY <1>18 DEF Answer, HoldsNode, PredicateForms, Comparisons
  <2> QED
    BY <1>b, <1>c, <1>d, <2>1, FirstDecisiveSane
<1>19. CASE w.f = "not"
  <2>1. (\E x : Answer(s, w, r) = Ok(x)) \/ Answer(s, w, r) = r[1]
    BY <1>19 DEF Answer, HoldsNode, PredicateForms, Comparisons, Then
  <2> QED
    BY <1>19, <1>f, <1>g, <1>h, <2>1 DEF Unary
<1>20. w.f # "none"
  BY DEF PredicateNode
<1>21. w.f \in ValueForms \cup PredicateForms
  BY <1>a DEF Formed
<1> QED
  BY <1>1, <1>2, <1>3, <1>4, <1>5, <1>6, <1>7, <1>8, <1>9, <1>10, <1>11, <1>12, <1>13, <1>14, <1>15, <1>16,
     <1>17, <1>18, <1>19, <1>20, <1>21 DEF ValueForms, PredicateForms

(* The alias is read somewhere in a value, where it is not bound.          *)
ReadsUnbound(s, sc, v) == sc.alias # "" /\ s.binding # sc.alias /\ ReadsRoot(v, sc.alias)

(* What was checked, whole, evaluates to something sane: by induction on   *)
(* how deep it is.  A name is not bound only where an alias is read that is *)
(* not, and a variant is missing only where a value was left out.           *)
LEMMA EvalSane ==
  ASSUME NEW s, NEW sc, AliasApart(s, sc), NEW v \in Nodes, ChecksValue(v, sc), NEW root, NEW lapses,
         ReadsUnbound(s, sc, v) => root, Lapses(v) \subseteq lapses
  PROVE  Sane(Eval(s, v), root, lapses)
<1> DEFINE Apart(u) == /\ ValueNode(u, sc) /\ PredicateNode(u, sc)
                       /\ AliasUnbound(s, sc, u.p) => root
                       /\ Lapse(u) \subseteq lapses
           Good(w) == \A u \in Subterms(w) : Apart(u)
           S == {n \in Nat : n <= MaxDepth => \A w \in NodesTo[n] : Good(w) => Sane(Eval(s, w), root, lapses)}
<1>1. ASSUME NEW w \in Nodes, Good(w) PROVE Apart(w) /\ \A i \in DOMAIN w.kids : Good(w.kids[i])
  <2> HIDE DEF Apart
  <2>1. w \in Subterms(w) /\ \A i \in DOMAIN w.kids : Subterms(w.kids[i]) \subseteq Subterms(w)
    BY SubtermsUnfold
  <2> QED
    BY <1>1, <2>1
<1>2. ASSUME NEW w \in Nodes, Apart(w), \A i \in DOMAIN w.kids : Sane(Eval(s, w.kids[i]), root, lapses)
      PROVE  Sane(Eval(s, w), root, lapses)
  <2> DEFINE r == [i \in DOMAIN w.kids |-> Eval(s, w.kids[i])]
  <2>1. r = [i \in DOMAIN w.kids |-> r[i]]
    OBVIOUS
  <2>2. \A i \in DOMAIN w.kids : Sane(r[i], root, lapses)
    BY <1>2
  <2>3. Eval(s, w) = Answer(s, w, r)
    BY EvalUnfolds
  <2>4. ValueNode(w, sc) /\ PredicateNode(w, sc) /\ (AliasUnbound(s, sc, w.p) => root) /\ Lapse(w) \subseteq lapses
    BY <1>2
  <2> HIDE DEF r
  <2>5. Sane(Answer(s, w, r), root, lapses)
    BY <2>1, <2>2, <2>4, AnswerSane
  <2> QED
    BY <2>3, <2>5
<1>3. 0 \in S
  BY NodesToDefined
<1>4. ASSUME NEW n \in Nat, n \in S PROVE n + 1 \in S
  <2> SUFFICES ASSUME n + 1 <= MaxDepth, NEW w \in NodesTo[n + 1], Good(w) PROVE Sane(Eval(s, w), root, lapses)
    OBVIOUS
  <2>1. n + 1 \in 1 .. MaxDepth /\ n + 1 \in 0 .. MaxDepth /\ (n + 1) - 1 = n /\ n <= MaxDepth
    BY DepthAssumption
  <2>2. w \in Nodes
    BY <2>1, DeeperNodes
  <2>3. \A i \in DOMAIN w.kids : w.kids[i] \in NodesTo[n]
    BY <2>1, Operands
  <2> HIDE DEF Good, Apart
  <2>4. Apart(w) /\ \A i \in DOMAIN w.kids : Good(w.kids[i])
    BY <1>1, <2>2
  <2>5. \A u \in NodesTo[n] : Good(u) => Sane(Eval(s, u), root, lapses)
    BY <1>4, <2>1
  <2>6. \A i \in DOMAIN w.kids : Sane(Eval(s, w.kids[i]), root, lapses)
    BY <2>3, <2>4, <2>5
  <2> QED
    BY <1>2, <2>2, <2>4, <2>6
<1>5. Good(v)
  <2> SUFFICES ASSUME NEW u \in Subterms(v) PROVE Apart(u)
    OBVIOUS
  <2>1. ValueNode(u, sc) /\ PredicateNode(u, sc)
    BY DEF ChecksValue
  <2>2. AliasUnbound(s, sc, u.p) => root
    BY DEF AliasUnbound, ReadsUnbound, ReadsRoot
  <2>3. Lapse(u) \subseteq lapses
    BY DEF Lapses
  <2> QED
    BY <2>1, <2>2, <2>3
<1> HIDE DEF S, Good, Apart
<1>6. MaxDepth \in S
  BY <1>3, <1>4, SetInduction, DepthAssumption
<1> QED
  BY <1>5, <1>6, DepthAssumption DEF S, Nodes
-----------------------------------------------------------------------------
(* The blocks of a document, one after the other.                          *)

(* The alias that a value was checked with is bound, or it had none.       *)
AliasBound(s, sc) == sc.alias \notin ClosedRoots /\ (sc.alias = "" \/ s.binding = sc.alias)

(* There a checked value evaluates to something sane, and no name in it is *)
(* unbound.                                                                 *)
LEMMA BoundSane ==
  ASSUME NEW s, NEW sc, AliasBound(s, sc), NEW v \in Nodes, ChecksValue(v, sc),
         NEW root, NEW lapses, Lapses(v) \subseteq lapses
  PROVE  Sane(Eval(s, v), root, lapses)
<1>1. AliasApart(s, sc)
  BY DEF AliasApart, AliasBound
<1>2. ~ReadsUnbound(s, sc, v)
  BY DEF ReadsUnbound, AliasBound
<1> QED
  BY <1>1, <1>2, EvalSane

(* A predicate the file may leave out is checked when it is there.         *)
LEMMA OptionalChecked ==
  ASSUME NEW p \in Nodes, NEW sc, ChecksOptional(p, sc), p # NoPredicate
  PROVE  ChecksValue(p, sc)
<1>1. Formed(p)
  BY NodeShape
<1>2. p.f # "none"
  BY <1>1 DEF Formed, NoPredicate
<1> QED
  BY <1>2 DEF ChecksOptional, ChecksPredicate

(* The places of a sequence, and what is there.                            *)
LEMMA Elements ==
  ASSUME NEW S, NEW q \in Seq(S)
  PROVE  Len(q) \in Nat /\ DOMAIN q = 1 .. Len(q) /\ \A i \in DOMAIN q : q[i] \in S
BY LenProperties, ElementOfSeq

(* All values of a block.                                                  *)
LEMMA EvalAllSane ==
  ASSUME NEW s, NEW sc, AliasBound(s, sc), NEW vals \in Seq(Nodes), ChecksAll(vals, sc),
         NEW root, NEW lapses, \A i \in DOMAIN vals : Lapses(vals[i]) \subseteq lapses
  PROVE  Sane(EvalAll(s, vals), root, lapses)
<1> DEFINE n == Len(vals)
           r == [i \in DOMAIN vals |-> Eval(s, vals[i])]
<1>1. n \in Nat /\ DOMAIN vals = 1 .. n /\ \A i \in 1 .. n : vals[i] \in Nodes
  BY Elements
<1>2. \A i \in 1 .. n : ChecksValue(vals[i], sc)
  BY <1>1 DEF ChecksAll
<1> HIDE DEF n
<1>3. ASSUME NEW i \in 1 .. n PROVE Sane(Eval(s, vals[i]), root, lapses)
  BY <1>1, <1>2, BoundSane
<1>4. DOMAIN r = 1 .. n /\ \A i \in 1 .. n : Sane(r[i], root, lapses)
  BY <1>1, <1>3
<1>5. EvalAll(s, vals) = InOrder(r)
  BY DEF EvalAll
<1> HIDE DEF r
<1> QED
  BY <1>1, <1>4, <1>5, InOrderSane

(* The regex and the coercion of an entry.                                 *)
LEMMA TransformedSane ==
  ASSUME NEW root, NEW lapses, NEW r, Sane(r, root, lapses), NEW regex, NEW coerce,
         TransformLapses(regex, coerce) \subseteq lapses
  PROVE  Sane(Transformed(r, regex, coerce), root, lapses)
<1> DEFINE m == IF r.ok THEN IF regex = "" \/ r.v = Nil THEN Ok(r.v) ELSE ApplyRegex(regex, ToText(r.v), 0, Ok(Nil))
                ELSE r
<1>1. Transformed(r, regex, coerce) =
        IF m.ok THEN IF coerce = "" \/ m.v = Nil THEN Ok(m.v) ELSE ApplyFormat(coerce, m.v) ELSE m
  BY DEF Transformed, Then
<1>a. (regex # "" => RegexLapse(regex, 0) \subseteq lapses) /\ (coerce # "" => VerbLapse(coerce) \subseteq lapses)
  BY DEF TransformLapses
<1>2. ASSUME regex # "" PROVE Sane(ApplyRegex(regex, ToText(r.v), 0, Ok(Nil)), root, lapses)
  <2>1. Sane(Ok(Nil), root, lapses)
    BY FineSane
  <2>2. 0 \in Int /\ 0 >= 0
    OBVIOUS
  <2>3. RegexLapse(regex, 0) \subseteq lapses
    BY <1>2, <1>a
  <2> QED
    BY <2>1, <2>2, <2>3, ApplyRegexSane
<1>3. Sane(m, root, lapses)
  BY <1>2, FineSane
<1> HIDE DEF m
<1>4. coerce # "" => Sane(ApplyFormat(coerce, m.v), root, lapses)
  BY <1>a, ApplyFormatSane
<1> QED
  BY <1>1, <1>3, <1>4, FineSane

(* The variants of a union are finitely many.                              *)
LEMMA VariantsFinite ==
  /\ IsFiniteSet({"none", "bearer", "basic", "api_key", "custom", "oauth2", "sigv4", "multi_mode"})
  /\ IsFiniteSet({"none", "cursor_token", "next_url", "counter", "custom"})
  /\ IsFiniteSet(ByteTransforms \cup Terminals)
<1>1. ASSUME NEW a, NEW b, NEW c, NEW d, NEW e PROVE IsFiniteSet({a, b, c, d, e})
  <2>1. IsFiniteSet({} \cup {a})
    BY FS_EmptySet, FS_AddElement
  <2>2. IsFiniteSet(({} \cup {a}) \cup {b})
    BY <2>1, FS_AddElement
  <2>3. IsFiniteSet((({} \cup {a}) \cup {b}) \cup {c})
    BY <2>2, FS_AddElement
  <2>4. IsFiniteSet(((({} \cup {a}) \cup {b}) \cup {c}) \cup {d})
    BY <2>3, FS_AddElement
  <2>5. IsFiniteSet((((({} \cup {a}) \cup {b}) \cup {c}) \cup {d}) \cup {e})
    BY <2>4, FS_AddElement
  <2>6. (((({} \cup {a}) \cup {b}) \cup {c}) \cup {d}) \cup {e} = {a, b, c, d, e}
    OBVIOUS
  <2> QED
    BY <2>5, <2>6
<1>2. IsFiniteSet({"none", "bearer", "basic", "api_key", "custom", "oauth2", "sigv4", "multi_mode"})
  <2> DEFINE five == {"none", "bearer", "basic", "api_key", "custom"}
  <2>1. IsFiniteSet(five)
    BY <1>1
  <2> HIDE DEF five
  <2>2. IsFiniteSet(five \cup {"oauth2"})
    BY <2>1, FS_AddElement
  <2>3. IsFiniteSet((five \cup {"oauth2"}) \cup {"sigv4"})
    BY <2>2, FS_AddElement
  <2>4. IsFiniteSet(((five \cup {"oauth2"}) \cup {"sigv4"}) \cup {"multi_mode"})
    BY <2>3, FS_AddElement
  <2>5. ((five \cup {"oauth2"}) \cup {"sigv4"}) \cup {"multi_mode"}
          = {"none", "bearer", "basic", "api_key", "custom", "oauth2", "sigv4", "multi_mode"}
    BY DEF five
  <2> QED
    BY <2>4, <2>5
<1>3. IsFiniteSet(ByteTransforms \cup Terminals)
  <2>1. ByteTransforms \cup Terminals = {"gzip", "zip", "csv", "json", "ndjson"}
    BY DEF ByteTransforms, Terminals
  <2>2. IsFiniteSet({"gzip", "zip", "csv", "json", "ndjson"})
    BY <1>1
  <2> QED
    BY <2>1, <2>2
<1>4. IsFiniteSet({"none", "cursor_token", "next_url", "counter", "custom"})
  BY <1>1
<1> QED
  BY <1>2, <1>3, <1>4

(* A union with one variant has this one or that.                          *)
LEMMA OneVariant ==
  ASSUME NEW names, IsFiniteSet(names), NEW union, union.variants \in SUBSET names, HasOne(union)
  PROVE  \E name \in names : union.variants = {name}
<1>1. IsFiniteSet(union.variants)
  BY FS_Subset
<1>2. \E name : union.variants = {name}
  BY <1>1, FS_Singleton DEF HasOne
<1> QED
  BY <1>2

(* A scope has the fields it has.                                          *)
IsScope(s) ==
  s = [state |-> s.state, cache |-> s.cache, extract |-> s.extract, steps |-> s.steps,
       stepHeaders |-> s.stepHeaders, events |-> s.events, body |-> s.body, headers |-> s.headers,
       item |-> s.item, binding |-> s.binding, now |-> s.now]

(* The cache entry of a request, or of a grant.                            *)
LEMMA CacheStoreSane ==
  ASSUME NEW s, IsScope(s), NEW sc, AliasBound(s, sc), NEW c \in Caches, c.set = TRUE, ChecksCache(c, sc), NEW body,
         NEW root, NEW lapses, Lapses(c.expires) \subseteq lapses
  PROVE  Sane(CacheStore(s, c, body), root, lapses)
<1> DEFINE with == [s EXCEPT !.body = body]
           r == Eval(with, c.expires)
<1>1. with.binding = s.binding
  BY DEF IsScope
<1>2. AliasBound(with, sc)
  BY <1>1 DEF AliasBound
<1>3. Len(c.to) = 2 /\ c.to[1] = "cache" /\ ChecksValue(c.expires, sc)
  BY DEF ChecksCache, ChecksRequired
<1>4. c.expires \in Nodes
  BY DEF Caches
<1> HIDE DEF with
<1>5. Sane(r, root, lapses)
  BY <1>2, <1>3, <1>4, BoundSane
<1>6. CacheStore(s, c, body) = IF r.ok THEN IF Expires(r.v) THEN Ok(r.v) ELSE Error ELSE r
  BY <1>3 DEF CacheStore, Then, with
<1> HIDE DEF r
<1> QED
  BY <1>5, <1>6, FineSane

(* The first problem of several results is one of them, or there is none.  *)
LEMMA FirstProblemSane ==
  ASSUME NEW root, NEW lapses, NEW n \in Nat, NEW rs, DOMAIN rs = 1 .. n, \A k \in 1 .. n : Sane(rs[k], root, lapses)
  PROVE  Sane(FirstProblem(rs), root, lapses)
<1> DEFINE bad == {k \in DOMAIN rs : ~rs[k].ok}
<1>1. bad # {} => Min(bad) \in DOMAIN rs
  <2>1. bad \subseteq DOMAIN rs /\ bad \subseteq Nat
    OBVIOUS
  <2> HIDE DEF bad
  <2> QED
    BY <2>1, MinIn
<1>2. FirstProblem(rs) = IF bad = {} THEN Ok(Nil) ELSE rs[Min(bad)]
  BY DEF FirstProblem
<1> HIDE DEF bad
<1> QED
  BY <1>1, <1>2, FineSane

(* The variant of an accepted auth, or of an arm of one: its values, and    *)
(* how long a token of it is kept.                                          *)
LEMMA ArmSane ==
  ASSUME NEW s, IsScope(s), NEW sc, AliasBound(s, sc), NEW B, NEW D, NEW a \in AuthsOf(B, D), ChecksPlainAuth(a, sc),
         "multi_mode" \notin a.variants, NEW token, NEW root, NEW lapses,
         \A v \in AuthValues(a) : Lapses(v) \subseteq lapses
  PROVE  Sane(ArmTerms(s, a, token), root, lapses)
<1> DEFINE names == {"none", "bearer", "basic", "api_key", "custom", "oauth2", "sigv4", "multi_mode"}
           c == Credentials(s, a)
           t == TokenStore(s, a, token)
<1>1. /\ a.variants \in SUBSET names /\ a.vals \in Seq(Nodes) /\ (a.variants = {"none"} => a.vals = << >>)
      /\ a.cache \in Caches
  BY DEF AuthsOf
<1>2. HasOne(a)
  BY DEF ChecksPlainAuth
<1>3. PICK name \in names : a.variants = {name}
  BY <1>1, <1>2, VariantsFinite, OneVariant
<1>4. name # "multi_mode"
  BY <1>3
<1>o. "oauth2" \in a.variants => ChecksOAuth2(a, sc)
  BY <1>3 DEF ChecksPlainAuth, Is
<1>5. ChecksAll(a.vals, sc)
  <2>1. CASE name = "none"
    BY <1>1, <1>3, <2>1 DEF ChecksAll
  <2>2. CASE name \in {"bearer", "basic"}
    BY <1>3, <2>2 DEF ChecksPlainAuth
  <2>3. CASE name \in {"api_key", "custom"}
    BY <1>3, <2>3 DEF ChecksPlainAuth
  <2>4. CASE name = "oauth2"
    BY <1>3, <1>o, <2>4 DEF ChecksOAuth2
  <2>5. CASE name = "sigv4"
    BY <1>3, <2>5 DEF ChecksPlainAuth, ChecksSigV4, Is
  <2> QED
    BY <1>4, <2>1, <2>2, <2>3, <2>4, <2>5
<1>6. Sane(c, root, lapses)
  <2>1. \A i \in DOMAIN a.vals : Lapses(a.vals[i]) \subseteq lapses
    BY DEF AuthValues, ToSet
  <2> DEFINE e == EvalAll(s, a.vals)
  <2>2. Sane(e, root, lapses)
    BY <1>1, <1>5, <2>1, EvalAllSane
  <2>3. c = e \/ c = Error \/ c = Ok(e.v)
    BY DEF Credentials, Then
  <2> HIDE DEF c, e
  <2> QED
    BY <2>2, <2>3, FineSane
<1>7. Sane(t, root, lapses)
  <2>1. CASE "oauth2" \in a.variants /\ a.cache.set
    <3>1. a.cache.set = TRUE
      BY <1>1, <2>1 DEF Caches
    <3>2. ChecksCache(a.cache, sc)
      BY <1>o, <2>1 DEF ChecksOAuth2
    <3>3. Lapses(a.cache.expires) \subseteq lapses
      BY <2>1 DEF AuthValues
    <3>4. Sane(CacheStore(s, a.cache, token), root, lapses)
      BY <1>1, <3>1, <3>2, <3>3, CacheStoreSane
    <3> QED
      BY <2>1, <3>4 DEF TokenStore
  <2>2. CASE ~("oauth2" \in a.variants /\ a.cache.set)
    <3>1. t = Ok(Nil)
      BY <2>2 DEF TokenStore
    <3> HIDE DEF t
    <3> QED
      BY <3>1, FineSane
  <2> QED
    BY <2>1, <2>2
<1>8. "oauth2" \in a.variants => a.grants # {}
  BY <1>o, FS_EmptySet DEF ChecksOAuth2
<1>9. ArmTerms(s, a, token) = FirstProblem(<<c, t>>)
  BY <1>3, <1>4, <1>8 DEF ArmTerms
<1> HIDE DEF c, t
<1>10. 2 \in Nat /\ DOMAIN <<c, t>> = 1 .. 2 /\ \A i \in 1 .. 2 : Sane(<<c, t>>[i], root, lapses)
  BY <1>6, <1>7
<1>11. Sane(FirstProblem(<<c, t>>), root, lapses)
  BY <1>10, FirstProblemSane
<1> QED
  BY <1>9, <1>11

(* applyAuth, with the arms of a multi_mode.                               *)
LEMMA ApplyAuthSane ==
  ASSUME NEW s, IsScope(s), NEW sc, AliasBound(s, sc), NEW a \in Auths, ChecksAuth(a, sc), NEW token,
         NEW root, NEW lapses,
         \A v \in AuthValues(a) : Lapses(v) \subseteq lapses,
         \A b \in DOMAIN a.branches :
           /\ Lapses(a.branches[b].when) \subseteq lapses
           /\ \A v \in AuthValues(a.branches[b].auth) : Lapses(v) \subseteq lapses,
         \A b \in DOMAIN a.default : \A v \in AuthValues(a.default[b]) : Lapses(v) \subseteq lapses
  PROVE  Sane(ApplyAuth(s, a, token), root, lapses)
<1>1. CASE ~Is(a, "multi_mode")
  <2>1. ChecksPlainAuth(a, sc)
    BY <1>1 DEF ChecksAuth
  <2>2. "multi_mode" \notin a.variants
    <3>1. HasOne(a)
      BY <2>1 DEF ChecksPlainAuth
    <3>2. a.variants \in SUBSET {"none", "bearer", "basic", "api_key", "custom", "oauth2", "sigv4", "multi_mode"}
      BY DEF Auths, AuthsOf
    <3>3. \E name : a.variants = {name}
      BY <3>1, <3>2, VariantsFinite, OneVariant
    <3> QED
      BY <1>1, <3>3 DEF Is
  <2>3. ApplyAuth(s, a, token) = ArmTerms(s, a, token)
    BY <2>2 DEF ApplyAuth
  <2>4. Sane(ArmTerms(s, a, token), root, lapses)
    BY <2>1, <2>2, ArmSane DEF Auths
  <2> QED
    BY <2>3, <2>4
<1>2. CASE Is(a, "multi_mode")
  <2> DEFINE answers == [b \in DOMAIN a.branches |-> Holds(s, a.branches[b].when)]
             taken == {i \in DOMAIN answers : ~answers[i].ok \/ answers[i].v.n = 1}
             otherwise == IF a.default = << >> THEN Ill("auth") ELSE ArmTerms(s, a.default[1], token)
  <2>1. ApplyAuth(s, a, token) = IF taken = {} THEN otherwise
                                 ELSE IF answers[Min(taken)].ok THEN ArmTerms(s, a.branches[Min(taken)].auth, token)
                                 ELSE answers[Min(taken)]
    BY <1>2 DEF ApplyAuth, FirstTaken, Then, Is
  <2>2. a.branches \in Seq([when : Nodes, auth : Arms]) /\ a.default \in Seq(Arms)
    BY DEF Auths, AuthsOf
  <2>3. \A b \in DOMAIN a.branches : a.branches[b] \in [when : Nodes, auth : Arms]
    BY <2>2, Elements
  <2>4. /\ \A b \in DOMAIN a.branches : /\ ChecksPredicate(a.branches[b].when, sc)
                                        /\ "multi_mode" \notin a.branches[b].auth.variants
                                        /\ ChecksPlainAuth(a.branches[b].auth, sc)
        /\ Len(a.default) = 1
        /\ "multi_mode" \notin a.default[1].variants /\ ChecksPlainAuth(a.default[1], sc)
    BY <1>2 DEF ChecksAuth, ChecksMultiMode
  <2>5. ASSUME NEW b \in DOMAIN a.branches
        PROVE  /\ Sane(answers[b], root, lapses)
               /\ Sane(ArmTerms(s, a.branches[b].auth, token), root, lapses)
    <3>1. Sane(Eval(s, a.branches[b].when), root, lapses)
      BY <2>3, <2>4, BoundSane DEF ChecksPredicate
    <3>2. a.branches[b].auth \in AuthsOf({<< >>}, {<< >>})
      BY <2>3 DEF Arms
    <3>3. Sane(ArmTerms(s, a.branches[b].auth, token), root, lapses)
      BY <2>4, <3>2, ArmSane
    <3> QED
      BY <3>1, <3>3 DEF Holds
  <2>6. Sane(otherwise, root, lapses)
    <3>1. 1 \in DOMAIN a.default /\ a.default # << >>
      BY <2>2, <2>4
    <3>2. a.default[1] \in AuthsOf({<< >>}, {<< >>})
      BY <2>2, <3>1, ElementOfSeq DEF Arms
    <3>3. Sane(ArmTerms(s, a.default[1], token), root, lapses)
      BY <2>4, <3>1, <3>2, ArmSane
    <3> QED
      BY <3>1, <3>3
  <2>7. taken # {} => Min(taken) \in DOMAIN a.branches
    <3>1. DOMAIN a.branches = 1 .. Len(a.branches) /\ Len(a.branches) \in Nat
      BY <2>2, Elements
    <3>2. taken \subseteq DOMAIN a.branches /\ taken \subseteq Nat
      BY <3>1
    <3> HIDE DEF taken
    <3> QED
      BY <3>2, MinIn
  <2> HIDE DEF answers, taken, otherwise
  <2> QED
    BY <2>1, <2>5, <2>6, <2>7
<1> QED
  BY <1>1, <1>2

(* The stages of an accepted decode chain lead to a decoder.               *)
LEMMA DecodesFine ==
  ASSUME NEW chain \in Seq(Stages), chain = << >> \/ ChecksDecodeChain(chain)
  PROVE  Fine(Decodes(chain))
<1> DEFINE n == Len(chain)
           odd == {k \in DOMAIN chain : ~(HasOne(chain[k]) /\ chain[k].variants \subseteq ByteTransforms)}
<1>1. CASE chain = << >>
  BY <1>1 DEF Decodes, Fine
<1>2. CASE chain # << >> /\ ChecksDecodeChain(chain)
  <2>1. n \in Nat /\ DOMAIN chain = 1 .. n /\ \A k \in DOMAIN chain : chain[k] \in Stages
    BY Elements
  <2>2. n >= 1 /\ n \in DOMAIN chain
    BY <1>2, <2>1
  <2>3. \A k \in DOMAIN chain : HasOne(chain[k]) /\ chain[k].variants \subseteq (IF k = n THEN Terminals ELSE ByteTransforms)
    BY <1>2 DEF ChecksDecodeChain
  <2>4. \E name : chain[n].variants = {name}
    BY <2>1, <2>2, <2>3, VariantsFinite, OneVariant DEF Stages
  <2>5. n \in odd
    BY <2>2, <2>3, <2>4 DEF ByteTransforms, Terminals
  <2>6. Min(odd) \in odd
    <3>1. odd \subseteq Nat
      BY <2>1
    <3> HIDE DEF odd
    <3> QED
      BY <2>5, <3>1, MinIn
  <2>7. Min(odd) = n
    BY <2>3, <2>6
  <2>8. odd # {} /\ HasOne(chain[Min(odd)]) /\ chain[Min(odd)].variants \subseteq Terminals
    BY <2>2, <2>3, <2>5, <2>7
  <2>9. Decodes(chain) = IF \E k \in DOMAIN chain : k < Min(odd) /\ Is(chain[k], "zip") /\ chain[k].arg = "["
                         THEN Error ELSE Ok(Nil)
    BY <1>2, <2>8 DEF Decodes
  <2> HIDE DEF odd
  <2> QED
    BY <2>9 DEF Fine
<1> QED
  BY <1>1, <1>2

(* executeRequest: the request's own part, the auth, the decoding and the  *)
(* cache.                                                                   *)
LEMMA ExecuteRequestSane ==
  ASSUME NEW s, IsScope(s), NEW sc, AliasBound(s, sc), NEW r \in Requests, ChecksRequest(r, sc), NEW resp,
         NEW token, NEW root, NEW lapses, \A v \in RequestValues(r) : Lapses(v) \subseteq lapses,
         Sane(ApplyAuth(s, doc.auth, token), root, lapses)
  PROVE  Sane(ExecuteRequest(s, r, resp, token), root, lapses)
<1> DEFINE a1 == Eval(s, r.url)
           a2 == EvalAll(s, r.query)
           a3 == EvalAll(s, r.body.vals)
           a4 == EvalAll(s, r.headers)
           a5 == ApplyAuth(s, doc.auth, token)
           a6 == Decodes(r.decode)
           a7 == IF r.cache.set THEN CacheStore(s, r.cache, resp.body) ELSE Ok(Nil)
<1>1. Sane(a1, root, lapses)
  <2>1. r.url \in Nodes /\ ChecksValue(r.url, sc) /\ (Lapses(r.url) \subseteq lapses)
    BY DEF Requests, ChecksRequest, ChecksRequired, RequestValues
  <2> QED
    BY <2>1, BoundSane
<1>2. Sane(a2, root, lapses)
  <2>1. r.query \in Seq(Nodes) /\ ChecksAll(r.query, sc) /\ \A i \in DOMAIN r.query : Lapses(r.query[i]) \subseteq lapses
    BY DEF Requests, ChecksRequest, RequestValues, ToSet
  <2> QED
    BY <2>1, EvalAllSane
<1>3. Sane(a3, root, lapses)
  <2>1. r.body.vals \in Seq(Nodes) /\ (r.body.variants = {} => r.body.vals = << >>)
    BY DEF Requests, Bodies
  <2>2. ChecksAll(r.body.vals, sc)
    BY <2>1 DEF ChecksRequest, ChecksBody, ChecksAll
  <2>3. \A i \in DOMAIN r.body.vals : Lapses(r.body.vals[i]) \subseteq lapses
    BY DEF RequestValues, ToSet
  <2> QED
    BY <2>1, <2>2, <2>3, EvalAllSane
<1>4. Sane(a4, root, lapses)
  <2>1. r.headers \in Seq(Nodes) /\ ChecksAll(r.headers, sc) /\ \A i \in DOMAIN r.headers : Lapses(r.headers[i]) \subseteq lapses
    BY DEF Requests, ChecksRequest, RequestValues, ToSet
  <2> QED
    BY <2>1, EvalAllSane
<1>5. Sane(a5, root, lapses)
  OBVIOUS
<1>6. Sane(a6, root, lapses)
  <2>1. r.decode \in Seq(Stages) /\ (r.decode = << >> \/ ChecksDecodeChain(r.decode))
    BY DEF Requests, ChecksRequest
  <2> QED
    BY <2>1, DecodesFine, FineSane
<1>7. Sane(a7, root, lapses)
  <2>1. CASE r.cache.set = TRUE
    <3>1. r.cache \in Caches /\ ChecksCache(r.cache, sc) /\ (Lapses(r.cache.expires) \subseteq lapses)
      BY <2>1 DEF Requests, ChecksRequest, RequestValues, ToSet
    <3>2. Sane(CacheStore(s, r.cache, resp.body), root, lapses)
      BY <2>1, <3>1, CacheStoreSane
    <3> QED
      BY <2>1, <3>2
  <2>2. CASE r.cache.set = FALSE
    BY <2>2, FineSane
  <2>3. r.cache.set \in BOOLEAN
    BY DEF Requests, Caches
  <2> QED
    BY <2>1, <2>2, <2>3
<1>8. ExecuteRequest(s, r, resp, token) = FirstProblem(<<a1, a2, a3, a4, a5, a6, a7>>)
  BY DEF ExecuteRequest
<1> HIDE DEF a1, a2, a3, a4, a5, a6, a7
<1> DEFINE rs == <<a1, a2, a3, a4, a5, a6, a7>>
<1>9. /\ 7 \in Nat /\ DOMAIN rs = 1 .. 7
      /\ rs[1] = a1 /\ rs[2] = a2 /\ rs[3] = a3 /\ rs[4] = a4 /\ rs[5] = a5 /\ rs[6] = a6 /\ rs[7] = a7
  OBVIOUS
<1> HIDE DEF rs
<1>10. \A k \in 1 .. 7 : k = 1 \/ k = 2 \/ k = 3 \/ k = 4 \/ k = 5 \/ k = 6 \/ k = 7
  OBVIOUS
<1>11. \A k \in 1 .. 7 : Sane(rs[k], root, lapses)
  BY <1>1, <1>2, <1>3, <1>4, <1>5, <1>6, <1>7, <1>9, <1>10
<1>12. Sane(FirstProblem(rs), root, lapses)
  BY <1>9, <1>11, FirstProblemSane
<1> QED
  BY <1>8, <1>12 DEF rs
-----------------------------------------------------------------------------
(* The events of a page, and the merged body of a fan-out.                 *)

(* What is at the events path is a list, or an error of the data.          *)
LEMMA LocateEventsFine ==
  ASSUME NEW body, NEW at, NEW rowOriented
  PROVE  Fine(LocateEvents(body, at, rowOriented))
<1>1. Fine(LocateRows(body.e, at))
  BY DEF LocateRows, Fine
<1>2. \A x : Fine(Ok(x))
  BY DEF Fine
<1>3. Fine(Error)
  BY DEF Fine
<1> QED
  BY <1>1, <1>2, <1>3 DEF LocateEvents

(* An accepted events path has its root in the page's or a step's body.    *)
LEMMA LocateProducerEventsFine ==
  ASSUME NEW s, NEW sc, NEW p, ChecksEventsAtPath(p, sc), NEW body, NEW rowOriented
  PROVE  Fine(LocateProducerEvents(s, p, body, rowOriented))
<1>1. StripBodyRoot(p).ok = TRUE
  <2>1. CASE p = << >>
    BY <2>1 DEF StripBodyRoot
  <2>2. CASE p # << >> /\ Len(p) >= 3 /\ p[1] = "response" /\ p[2] = "body"
    BY <2>2 DEF StripBodyRoot
  <2>3. CASE p # << >> /\ Len(p) >= 4 /\ p[1] = "steps" /\ p[3] = "body"
    BY <2>3 DEF StripBodyRoot
  <2> QED
    BY <2>1, <2>2, <2>3 DEF ChecksEventsAtPath, BodyPart
<1>2. Fine(Error)
  BY DEF Fine
<1> QED
  BY <1>1, <1>2, LocateEventsFine DEF LocateProducerEvents

(* The two ways to merge, and the default.                                 *)
LEMMA MergeFine ==
  ASSUME NEW mode, mode \in {"", "flatten", "wrap"}, NEW parts
  PROVE  Fine(MergeFanOutBodies(mode, parts))
BY DEF MergeFanOutBodies, Fine
-----------------------------------------------------------------------------
(* Extracts.                                                               *)

(* The path an accepted extract reads from resolves.                       *)
LEMMA ExtractFromResolves ==
  ASSUME NEW s, NEW sc, NEW p \in Seq(STRING), ChecksExtractFromPath(p, sc), NEW body, NEW headers
  PROVE  \E x : ResolveExtractFrom(s, body, headers, p) = Ok(x)
<1> DEFINE rest == Tail(p)
           seen == [s EXCEPT !.body = body, !.headers = headers]
<1>0. p # << >>
  BY DEF ChecksExtractFromPath
<1>a. rest \in Seq(STRING) /\ Len(p) \in Nat \ {0} /\ Len(rest) = Len(p) - 1
  BY <1>0, PathTail
<1>c. Len(p) >= 2 => rest # << >>
  BY <1>0, PathTail
<1>d. Len(p) >= 2 => rest[1] = p[2]
  BY <1>0, PathTail
<1>e. Len(p) >= 3 => rest[2] = p[3]
  BY <1>0, PathTail
<1>b. /\ p[1] = "response" => ResolveExtractFrom(s, body, headers, p) = ResolveResponse(seen, rest)
      /\ p[1] = "steps" =>
           \/ \E x : ResolveExtractFrom(s, body, headers, p) = Ok(x)
           \/ ResolveExtractFrom(s, body, headers, p) = ResolveSteps(s, rest)
  BY <1>0 DEF ResolveExtractFrom
<1> HIDE DEF rest, seen
<1>f. (Len(p) >= 3 => Len(rest) >= 2) /\ (Len(p) >= 4 => Len(rest) >= 3)
  <2> DEFINE a == Len(rest)
             b == Len(p)
  <2>1. b \in Nat \ {0} /\ a = b - 1
    BY <1>a
  <2> HIDE DEF a, b
  <2>2. (b >= 3 => a >= 2) /\ (b >= 4 => a >= 3)
    BY <2>1, OneLess
  <2> QED
    BY <2>2 DEF a, b
<1>1. CASE p[1] = "response" /\ ChecksResponseRef(p)
  <2>1. Len(p) >= 2 /\ (p[2] = "body" \/ (p[2] = "header" /\ Len(p) >= 3))
    BY <1>1 DEF ChecksResponseRef
  <2>2. rest # << >> /\ rest[1] = p[2]
    BY <1>c, <1>d, <2>1
  <2>3. rest[1] = "body" \/ (rest[1] = "header" /\ Len(rest) >= 2)
    BY <1>f, <2>1, <2>2
  <2> QED
    BY <1>b, <1>1, <2>2, <2>3, ResponseResolves
<1>2. CASE p[1] = "steps" /\ ChecksStepsRef(p, sc)
  <2>1. Len(p) >= 3 /\ (p[3] = "body" \/ (p[3] = "header" /\ Len(p) >= 4))
    BY <1>2 DEF ChecksStepsRef
  <2>2. rest[2] = p[3]
    BY <1>e, <2>1
  <2>3. Len(rest) >= 2 /\ (Len(p) >= 4 => Len(rest) >= 3)
    BY <1>f, <2>1
  <2>4. rest[2] = "body" \/ (rest[2] = "header" /\ Len(rest) >= 3)
    BY <2>1, <2>2, <2>3
  <2>5. \E x : ResolveSteps(s, rest) = Ok(x)
    BY <1>a, <2>3, <2>4, StepsResolve
  <2> QED
    BY <1>b, <1>2, <2>5
<1> QED
  BY <1>1, <1>2 DEF ChecksExtractFromPath

(* Extracts put values in the state and among the extracts, and touch       *)
(* nothing else of the scope.                                               *)
SameElse(s, t) ==
  /\ IsScope(t)
  /\ t.cache = s.cache /\ t.steps = s.steps /\ t.stepHeaders = s.stepHeaders /\ t.events = s.events
  /\ t.body = s.body /\ t.headers = s.headers /\ t.item = s.item /\ t.binding = s.binding /\ t.now = s.now

(* What has been applied so far: a result, and the scope as it is then.    *)
Applied(s, lapses, x) == x = [r |-> x.r, s |-> x.s] /\ Sane(x.r, FALSE, lapses) /\ SameElse(s, x.s)

(* One extract after the others.                                           *)
LEMMA RunExtractSane ==
  ASSUME NEW s, NEW sc, NEW lapses, NEW acc, Applied(s, lapses, acc),
         NEW body, NEW headers, NEW ev \in Extracts, ExtractDest(ev.to), ChecksExtractFromPath(ev.from, sc),
         TransformLapses(ev.regex, ev.coerce) \subseteq lapses
  PROVE  Applied(s, lapses, RunExtract(acc, body, headers, ev))
<1> DEFINE r == Transformed(ResolveExtractFrom(acc.s, body, headers, ev.from), ev.regex, ev.coerce)
           x == RunExtract(acc, body, headers, ev)
<1>0. acc = [r |-> acc.r, s |-> acc.s] /\ Sane(acc.r, FALSE, lapses) /\ SameElse(s, acc.s)
  BY DEF Applied
<1> SUFFICES Applied(s, lapses, x)
  OBVIOUS
<1>1. Sane(r, FALSE, lapses)
  <2>1. \E v : ResolveExtractFrom(acc.s, body, headers, ev.from) = Ok(v)
    BY ExtractFromResolves DEF Extracts, Paths
  <2>2. Sane(ResolveExtractFrom(acc.s, body, headers, ev.from), FALSE, lapses)
    BY <2>1, FineSane
  <2> QED
    BY <2>2, TransformedSane
<1>2. x = IF ~acc.r.ok THEN acc
          ELSE IF ~r.ok THEN [acc EXCEPT !.r = r]
          ELSE IF ev.to[1] = "state" THEN [acc EXCEPT !.s.state = With(@, ev.to[2], r.v)]
          ELSE [acc EXCEPT !.s.extract = With(@, ev.to[2], r.v)]
  BY DEF RunExtract
<1> HIDE DEF r, x
<1>3. CASE ~acc.r.ok
  BY <1>0, <1>2, <1>3 DEF Applied
<1>4. CASE acc.r.ok /\ ~r.ok
  <2>1. x = [r |-> r, s |-> acc.s]
    BY <1>0, <1>2, <1>4
  <2> QED
    BY <1>0, <1>1, <2>1 DEF Applied
<1>5. CASE acc.r.ok /\ r.ok /\ ev.to[1] = "state"
  <2> DEFINE t == [acc.s EXCEPT !.state = With(@, ev.to[2], r.v)]
  <2>1. x = [r |-> acc.r, s |-> t]
    BY <1>0, <1>2, <1>5
  <2>2. SameElse(s, t)
    BY <1>0 DEF SameElse, IsScope
  <2> HIDE DEF t
  <2> QED
    BY <1>0, <2>1, <2>2 DEF Applied
<1>6. CASE acc.r.ok /\ r.ok /\ ev.to[1] # "state"
  <2> DEFINE t == [acc.s EXCEPT !.extract = With(@, ev.to[2], r.v)]
  <2>1. x = [r |-> acc.r, s |-> t]
    BY <1>0, <1>2, <1>6
  <2>2. SameElse(s, t)
    BY <1>0 DEF SameElse, IsScope
  <2> HIDE DEF t
  <2> QED
    BY <1>0, <2>1, <2>2 DEF Applied
<1> QED
  BY <1>3, <1>4, <1>5, <1>6

(* All extracts of a request, by induction on how many have been applied.  *)
LEMMA RunExtractsSane ==
  ASSUME NEW s, IsScope(s), NEW sc, NEW lapses, NEW body, NEW headers, NEW evs \in Seq(Extracts),
         \A i \in DOMAIN evs : /\ ExtractDest(evs[i].to) /\ ChecksExtractFromPath(evs[i].from, sc)
                              /\ TransformLapses(evs[i].regex, evs[i].coerce) \subseteq lapses
  PROVE  LET x == RunExtracts(s, body, headers, evs)
         IN  Sane(x.r, FALSE, lapses) /\ SameElse(s, x.s)
<1> DEFINE first == [r |-> Ok(Nil), s |-> s]
           At(g, k) == IF k = 0 THEN first ELSE RunExtract(g[k - 1], body, headers, evs[k])
           N == Len(evs)
           Solves(g, n) == g = [k \in 0 .. n |-> At(g, k)]
           Good(x) == Applied(s, lapses, x)
           S == {n \in Nat : n <= N => \E g : Solves(g, n) /\ \A k \in 0 .. n : Good(g[k])}
<1>a. /\ \A g : At(g, 0) = first
      /\ \A g, k : k # 0 => At(g, k) = RunExtract(g[k - 1], body, headers, evs[k])
  OBVIOUS
<1>b. N \in Nat /\ DOMAIN evs = 1 .. N /\ \A k \in DOMAIN evs : evs[k] \in Extracts
  BY Elements
<1>c. Good(first)
  <2>1. first = [r |-> first.r, s |-> first.s] /\ first.s = s /\ first.r = Ok(Nil)
    OBVIOUS
  <2>2. Sane(Ok(Nil), FALSE, lapses) /\ SameElse(s, s)
    BY FineSane DEF SameElse
  <2> QED
    BY <2>1, <2>2 DEF Applied
<1>d. ASSUME NEW acc, Good(acc), NEW k \in 1 .. N PROVE Good(RunExtract(acc, body, headers, evs[k]))
  <2>1. /\ evs[k] \in Extracts /\ ExtractDest(evs[k].to) /\ ChecksExtractFromPath(evs[k].from, sc)
        /\ TransformLapses(evs[k].regex, evs[k].coerce) \subseteq lapses
    BY <1>b
  <2> QED
    BY <1>d, <2>1, RunExtractSane
<1> DEFINE after == CHOOSE k : Solves(k, N)
<1>e. RunExtracts(s, body, headers, evs) = after[N]
  BY DEF RunExtracts
<1> HIDE DEF At, N, Good, first
<1>1. 0 \in S
  <2> DEFINE g == [k \in 0 .. 0 |-> first]
  <2>1. g[0] = first /\ Solves(g, 0)
    BY <1>a
  <2>2. \A k \in 0 .. 0 : k = 0
    OBVIOUS
  <2> HIDE DEF g
  <2>3. Solves(g, 0) /\ \A k \in 0 .. 0 : Good(g[k])
    BY <1>c, <2>1, <2>2
  <2> QED
    BY <2>3
<1>2. ASSUME NEW n \in Nat, n \in S PROVE n + 1 \in S
  <2> SUFFICES ASSUME n + 1 <= N PROVE \E h : Solves(h, n + 1) /\ \A k \in 0 .. n + 1 : Good(h[k])
    OBVIOUS
  <2>1. PICK g : Solves(g, n) /\ \A k \in 0 .. n : Good(g[k])
    BY <1>2, <1>b
  <2> DEFINE next == RunExtract(g[n], body, headers, evs[n + 1])
             h == [k \in 0 .. n + 1 |-> IF k <= n THEN g[k] ELSE next]
  <2>2. Good(next)
    <3>1. Good(g[n]) /\ n + 1 \in 1 .. N
      BY <2>1, <1>b
    <3> QED
      BY <1>d, <3>1
  <2> HIDE DEF next
  <2>3. ASSUME NEW k \in 0 .. n + 1 PROVE h[k] = At(h, k) /\ Good(h[k])
    <3>1. CASE k = 0
      <4>1. h[k] = g[k] /\ g[k] = At(g, k) /\ k \in 0 .. n
        BY <2>1, <3>1
      <4> QED
        BY <1>a, <2>1, <3>1, <4>1
    <3>2. CASE k \in 1 .. n
      <4>1. h[k] = g[k] /\ h[k - 1] = g[k - 1] /\ k \in 0 .. n /\ k # 0
        BY <3>2
      <4>2. g[k] = At(g, k) /\ Good(g[k])
        BY <2>1, <4>1
      <4>3. At(h, k) = At(g, k)
        BY <1>a, <4>1, Zenon
      <4> QED
        BY <4>1, <4>2, <4>3, Zenon
    <3>3. CASE k = n + 1
      <4>1. h[k] = next /\ h[k - 1] = g[n] /\ k # 0
        BY <3>3
      <4> QED
        BY <1>a, <2>2, <3>3, <4>1 DEF next
    <3> HIDE DEF h
    <3>4. k = 0 \/ k \in 1 .. n \/ k = n + 1
      BY <2>3
    <3> QED
      BY <3>1, <3>2, <3>3, <3>4
  <2>4. Solves(h, n + 1) /\ \A k \in 0 .. n + 1 : Good(h[k])
    BY <2>3
  <2> HIDE DEF Solves, h
  <2> QED
    BY <2>4
<1> HIDE DEF S
<1>3. N \in S
  BY <1>1, <1>2, <1>b, SetInduction
<1>4. PICK g : Solves(g, N) /\ \A k \in 0 .. N : Good(g[k])
  BY <1>3, <1>b DEF S
<1>5. Solves(after, N)
  <2> HIDE DEF Solves
  <2> QED
    BY <1>4
<1> HIDE DEF after
<1>6. Good(after[N])
  <2> DEFINE T == {n \in Nat : n <= N => Good(after[n])}
  <2>1. 0 \in T
    <3>1. after[0] = first
      BY <1>a, <1>b, <1>5
    <3> QED
      BY <1>c, <3>1
  <2>2. ASSUME NEW n \in Nat, n \in T PROVE n + 1 \in T
    <3> SUFFICES ASSUME n + 1 <= N PROVE Good(after[n + 1])
      OBVIOUS
    <3>1. n + 1 \in 1 .. N /\ n + 1 \in 0 .. N /\ n + 1 # 0 /\ (n + 1) - 1 = n /\ n <= N
      BY <1>b
    <3>2. after[n + 1] = At(after, n + 1)
      BY <1>5, <3>1
    <3>3. after[n + 1] = RunExtract(after[n], body, headers, evs[n + 1])
      BY <1>a, <3>1, <3>2
    <3>4. Good(after[n])
      BY <2>2, <3>1
    <3> QED
      BY <1>d, <3>1, <3>3, <3>4
  <2> HIDE DEF T
  <2>3. N \in T
    BY <2>1, <2>2, <1>b, SetInduction
  <2> QED
    BY <2>3, <1>b DEF T
<1>7. Sane(after[N].r, FALSE, lapses) /\ SameElse(s, after[N].s)
  BY <1>6 DEF Good, Applied
<1> QED
  BY <1>e, <1>7
-----------------------------------------------------------------------------
(* What an accepted document evaluates, block by block.                    *)

(* A result that an accepted document may get.                             *)
Permitted(r) == Sane(r, ReadsOwnAlias(doc), Unchecked(doc))

Running == doc \in Documents /\ Accepts(doc)
AfterScope == [DocScope(doc) EXCEPT !.extract = ExtractedBefore(doc, Len(doc.requests) + 1)]

(* The blocks of the document are what parsing makes of them.              *)
LEMMA Blocks ==
  ASSUME doc \in Documents
  PROVE  /\ doc.auth \in Auths /\ doc.requests \in Seq(Requests) /\ doc.pagination \in Paginations
         /\ doc.progress \in Seq(Writes)
         /\ \A name \in DOMAIN doc.state : doc.state[name] \in FieldDecls
         /\ \A i \in DOMAIN doc.requests : doc.requests[i] \in Requests
<1>1. IsDocument(doc)
  BY DocumentsAssumption
<1>2. /\ doc.auth \in Auths /\ doc.requests \in Seq(Requests) /\ doc.pagination \in Paginations
      /\ doc.progress \in Seq(Writes)
  BY <1>1 DEF IsDocument
<1>3. \A name \in DOMAIN doc.state : doc.state[name] \in FieldDecls
  BY <1>1 DEF IsDocument
<1>4. \A i \in DOMAIN doc.requests : doc.requests[i] \in Requests
  BY <1>2, Elements
<1> QED
  BY <1>2, <1>3, <1>4

(* What a value or an entry of the document does not have is an excuse.    *)
LEMMA Excused ==
  /\ \A v \in Needed(doc) : Lapses(v) \subseteq Unchecked(doc)
  /\ \A v \in Optional(doc) : v # Blank => Lapses(v) \subseteq Unchecked(doc)
  /\ \A w \in Transforms(doc) : TransformLapses(w.regex, w.coerce) \subseteq Unchecked(doc)
  /\ doc.pagination.regex # "" => RegexLapse(doc.pagination.regex, doc.pagination.capture) \subseteq Unchecked(doc)
BY DEF Unchecked

(* Every value of the auth is needed.                                      *)
LEMMA AuthPermitted ==
  ASSUME Running, NEW s, IsScope(s), NEW token
  PROVE  Permitted(ApplyAuth(s, doc.auth, token))
<1> DEFINE sc == DocScope(doc)
           a == doc.auth
<1>1. a \in Auths /\ ChecksAuth(a, sc)
  BY Blocks DEF Running, Accepts
<1>2. AliasBound(s, sc)
  BY DEF AliasBound, DocScope, ClosedRoots
<1>3. \A v \in AuthValues(a) : Lapses(v) \subseteq Unchecked(doc)
  <2>1. \A v \in AuthValues(a) : v \in Needed(doc)
    BY DEF Needed
  <2> QED
    BY <2>1, Excused
<1>4. ASSUME NEW b \in DOMAIN a.branches
      PROVE  /\ Lapses(a.branches[b].when) \subseteq Unchecked(doc)
             /\ \A v \in AuthValues(a.branches[b].auth) : Lapses(v) \subseteq Unchecked(doc)
  <2>1. a.branches[b] \in ToSet(a.branches)
    BY DEF ToSet
  <2>2. a.branches[b].when \in Needed(doc)
    BY <2>1 DEF Needed
  <2>3. \A v \in AuthValues(a.branches[b].auth) : v \in Needed(doc)
    BY <2>1 DEF Needed
  <2> QED
    BY <2>2, <2>3, Excused
<1>5. ASSUME NEW b \in DOMAIN a.default
      PROVE  \A v \in AuthValues(a.default[b]) : Lapses(v) \subseteq Unchecked(doc)
  <2>1. a.default[b] \in ToSet(a.default)
    BY DEF ToSet
  <2>2. \A v \in AuthValues(a.default[b]) : v \in Needed(doc)
    BY <2>1 DEF Needed
  <2> QED
    BY <2>2, Excused
<1> HIDE DEF a, sc
<1>6. Sane(ApplyAuth(s, a, token), ReadsOwnAlias(doc), Unchecked(doc))
  BY <1>1, <1>2, <1>3, <1>4, <1>5, ApplyAuthSane
<1> QED
  BY <1>6 DEF Permitted, a

(* A request of the chain: its shape, its checks, the alias they knew.     *)
LEMMA RequestChecked ==
  ASSUME Running, NEW i \in DOMAIN doc.requests
  PROVE  LET r == doc.requests[i]
             sc == RequestScope(doc, i, DocScope(doc))
         IN  /\ r \in Requests /\ ChecksRequest(r, sc) /\ r \in ToSet(doc.requests)
             /\ sc.alias = IF r.fanOut.set THEN r.fanOut.as ELSE ""
             /\ sc.alias \notin ClosedRoots
             /\ r.fanOut.set => r.fanOut.as # ""
<1> DEFINE r == doc.requests[i]
           sc == RequestScope(doc, i, DocScope(doc))
<1>1. r \in Requests
  BY Blocks DEF Running
<1>2. ChecksRequest(r, sc)
  BY DEF Running, Accepts, ChecksRequests
<1>3. sc.alias = IF r.fanOut.set THEN r.fanOut.as ELSE ""
  BY DEF RequestScope, DocScope
<1>4. r.fanOut.set => r.fanOut.as # "" /\ r.fanOut.as \notin ClosedRoots
  BY <1>2 DEF ChecksRequest, ChecksFanOut
<1>5. "" \notin ClosedRoots
  BY DEF ClosedRoots
<1>6. r \in ToSet(doc.requests)
  BY DEF ToSet
<1> HIDE DEF r, sc
<1>7. sc.alias \notin ClosedRoots
  BY <1>3, <1>4, <1>5
<1> QED
  BY <1>1, <1>2, <1>3, <1>4, <1>6, <1>7 DEF r, sc

(* What is left out of a request is an excuse.                             *)
LEMMA RequestExcused ==
  ASSUME NEW r \in ToSet(doc.requests)
  PROVE  /\ \A v \in RequestValues(r) : Lapses(v) \subseteq Unchecked(doc)
         /\ Lapses(r.if) \subseteq Unchecked(doc)
         /\ Lapses(r.terminate) \subseteq Unchecked(doc)
         /\ r.fanOut.set => Lapses(r.fanOut.over) \subseteq Unchecked(doc)
         /\ \A i \in DOMAIN r.extract :
              TransformLapses(r.extract[i].regex, r.extract[i].coerce) \subseteq Unchecked(doc)
<1>1. \A v \in RequestValues(r) : Lapses(v) \subseteq Unchecked(doc)
  <2>1. \A v \in RequestValues(r) : v \in Needed(doc)
    BY DEF Needed
  <2> QED
    BY <2>1, Excused
<1>2. r.if \in RequestValues(r) /\ r.terminate \in RequestValues(r) /\ (r.fanOut.set => r.fanOut.over \in RequestValues(r))
  BY DEF RequestValues
<1>3. \A i \in DOMAIN r.extract : r.extract[i] \in Transforms(doc)
  <2>1. \A i \in DOMAIN r.extract : r.extract[i] \in ToSet(r.extract)
    BY DEF ToSet
  <2> QED
    BY <2>1 DEF Transforms
<1> QED
  BY <1>1, <1>2, <1>3, Excused

(* An exchange of the current request, with its alias bound if it has one. *)
LEMMA ExchangePermitted ==
  ASSUME Running, req \in DOMAIN doc.requests, NEW s, IsScope(s),
         s.binding = IF R.fanOut.set THEN R.fanOut.as ELSE "", NEW resp, NEW token
  PROVE  Permitted(ExecuteRequest(s, R, resp, token))
<1> DEFINE sc == RequestScope(doc, req, DocScope(doc))
<1>1. /\ R \in Requests /\ ChecksRequest(R, sc) /\ R \in ToSet(doc.requests)
      /\ sc.alias = s.binding /\ sc.alias \notin ClosedRoots
  BY RequestChecked DEF R
<1> HIDE DEF sc
<1>2. AliasBound(s, sc)
  BY <1>1 DEF AliasBound
<1>3. \A v \in RequestValues(R) : Lapses(v) \subseteq Unchecked(doc)
  BY <1>1, RequestExcused
<1>4. Permitted(ApplyAuth(s, doc.auth, token))
  BY AuthPermitted
<1> QED
  BY <1>1, <1>2, <1>3, <1>4, ExecuteRequestSane DEF Permitted

(* The gate of a request, looked at before an alias is bound.              *)
LEMMA GatePermitted ==
  ASSUME Running, req \in DOMAIN doc.requests, scope.binding = ""
  PROVE  Permitted(Gate)
<1> DEFINE sc == RequestScope(doc, req, DocScope(doc))
<1>1. /\ R \in Requests /\ ChecksRequest(R, sc) /\ R \in ToSet(doc.requests)
      /\ sc.alias = IF R.fanOut.set THEN R.fanOut.as ELSE ""
      /\ sc.alias \notin ClosedRoots
  BY RequestChecked DEF R
<1> HIDE DEF sc
<1>2. CASE R.if = NoPredicate \/ fired > 0
  BY <1>2, FineSane DEF Gate, Permitted
<1>3. CASE R.if # NoPredicate /\ ~(fired > 0)
  <2>1. R.if \in Nodes
    BY <1>1 DEF Requests
  <2>2. ChecksValue(R.if, sc)
    BY <1>1, <1>3, <2>1, OptionalChecked DEF ChecksRequest
  <2>3. AliasApart(scope, sc)
    BY <1>1 DEF AliasApart
  <2>4. ReadsUnbound(scope, sc, R.if) => ReadsOwnAlias(doc)
    BY <1>1 DEF ReadsUnbound, ReadsOwnAlias, R
  <2>5. Lapses(R.if) \subseteq Unchecked(doc)
    BY <1>1, RequestExcused
  <2>6. Sane(Eval(scope, R.if), ReadsOwnAlias(doc), Unchecked(doc))
    BY <2>1, <2>2, <2>3, <2>4, <2>5, EvalSane
  <2> QED
    BY <1>3, <2>6 DEF Gate, Holds, Permitted
<1> QED
  BY <1>2, <1>3

(* A request's own loop: it has no alias, or it does not ask.              *)
LEMMA DonePermitted ==
  ASSUME Running, req \in DOMAIN doc.requests, ~R.fanOut.set, NEW s
  PROVE  Permitted(Done(s))
<1> DEFINE sc == RequestScope(doc, req, DocScope(doc))
<1>1. /\ R \in Requests /\ ChecksRequest(R, sc) /\ R \in ToSet(doc.requests)
      /\ sc.alias = "" /\ sc.alias \notin ClosedRoots
  BY RequestChecked DEF R
<1> HIDE DEF sc
<1>2. CASE R.terminate = NoPredicate
  BY <1>2, FineSane DEF Done, Permitted
<1>3. CASE R.terminate # NoPredicate
  <2>1. R.terminate \in Nodes
    BY <1>1 DEF Requests
  <2>2. ChecksValue(R.terminate, sc)
    BY <1>1, <1>3, <2>1, OptionalChecked DEF ChecksRequest
  <2>3. AliasBound(s, sc)
    BY <1>1 DEF AliasBound
  <2>4. Lapses(R.terminate) \subseteq Unchecked(doc)
    BY <1>1, RequestExcused
  <2>5. Sane(Eval(s, R.terminate), ReadsOwnAlias(doc), Unchecked(doc))
    BY <2>1, <2>2, <2>3, <2>4, BoundSane
  <2> QED
    BY <1>3, <2>5 DEF Done, Holds, Permitted
<1> QED
  BY <1>2, <1>3

(* What a fan-out goes over, looked at before its alias is bound.          *)
LEMMA OverPermitted ==
  ASSUME Running, req \in DOMAIN doc.requests, R.fanOut.set, scope.binding = ""
  PROVE  Permitted(Then(Eval(scope, R.fanOut.over), CoerceFanOutList))
<1> DEFINE sc == RequestScope(doc, req, DocScope(doc))
<1>1. /\ R \in Requests /\ ChecksRequest(R, sc) /\ R \in ToSet(doc.requests)
      /\ sc.alias = R.fanOut.as /\ sc.alias \notin ClosedRoots
  BY RequestChecked DEF R
<1> HIDE DEF sc
<1>2. R.fanOut.over \in Nodes
  BY <1>1 DEF Requests, FanOuts
<1>3. ChecksValue(R.fanOut.over, sc)
  BY <1>1 DEF ChecksRequest, ChecksFanOut, ChecksRequired
<1>4. AliasApart(scope, sc)
  BY <1>1 DEF AliasApart
<1>5. ReadsUnbound(scope, sc, R.fanOut.over) => ReadsOwnAlias(doc)
  BY <1>1 DEF ReadsUnbound, ReadsOwnAlias, R
<1>6. Lapses(R.fanOut.over) \subseteq Unchecked(doc)
  BY <1>1, RequestExcused
<1>7. Sane(Eval(scope, R.fanOut.over), ReadsOwnAlias(doc), Unchecked(doc))
  BY <1>2, <1>3, <1>4, <1>5, <1>6, EvalSane
<1> QED
  BY <1>7, ListOperandSane DEF Permitted

(* The events of the page: the producer is one of the requests.            *)
LEMMA PageEventsPermitted ==
  ASSUME Running
  PROVE  Permitted(PageEvents(doc.requests[Producer]))
<1> DEFINE r == doc.requests[Producer]
           sc == RequestScope(doc, Producer, DocScope(doc))
<1>1. Producer \in DOMAIN doc.requests /\ r.producer
  <2>1. Cardinality({i \in DOMAIN doc.requests : doc.requests[i].producer}) = 1
    BY DEF Running, Accepts, ChecksRequests
  <2>2. {i \in DOMAIN doc.requests : doc.requests[i].producer} # {}
    BY <2>1, FS_EmptySet
  <2> QED
    BY <2>2 DEF Producer
<1>2. ChecksRequest(r, sc)
  BY <1>1, RequestChecked
<1>3. ChecksEventsAtPath(r.eventsAt, sc)
  BY <1>1, <1>2 DEF ChecksRequest
<1> HIDE DEF r, sc
<1>4. Fine(LocateProducerEvents(scope, r.eventsAt, page.body, RowOriented(r)))
  BY <1>3, LocateProducerEventsFine
<1>5. Fine(Ok(Nil))
  BY DEF Fine
<1>6. Fine(PageEvents(r))
  BY <1>4, <1>5 DEF PageEvents
<1> QED
  BY <1>6, FineSane DEF Permitted, r

(* The merged body of a fan-out.                                           *)
LEMMA MergePermitted ==
  ASSUME Running, req \in DOMAIN doc.requests, R.fanOut.set, NEW parts
  PROVE  Permitted(MergeFanOutBodies(R.fanOut.merge, parts))
<1> DEFINE sc == RequestScope(doc, req, DocScope(doc))
<1>1. ChecksRequest(R, sc)
  BY RequestChecked DEF R
<1>2. R.fanOut.merge \in {"", "flatten", "wrap"}
  BY <1>1 DEF ChecksRequest, ChecksFanOut
<1>3. Fine(MergeFanOutBodies(R.fanOut.merge, parts))
  BY <1>2, MergeFine
<1> QED
  BY <1>3, FineSane DEF Permitted

(* The extracts of a request: sane, and nothing but state and extracts     *)
(* changes.                                                                 *)
LEMMA ExtractsPermitted ==
  ASSUME Running, req \in DOMAIN doc.requests, NEW s, IsScope(s), NEW body, NEW headers
  PROVE  /\ Permitted(RunExtracts(s, body, headers, R.extract).r)
         /\ SameElse(s, RunExtracts(s, body, headers, R.extract).s)
<1> DEFINE sc == RequestScope(doc, req, DocScope(doc))
           evs == R.extract
<1>1. R \in Requests /\ ChecksRequest(R, sc) /\ R \in ToSet(doc.requests)
  BY RequestChecked DEF R
<1>2. evs \in Seq(Extracts)
  BY <1>1 DEF Requests
<1>3. \A i \in DOMAIN evs : ChecksExtractFromPath(evs[i].from, sc)
  BY <1>1 DEF ChecksRequest
<1>4. ASSUME NEW i \in DOMAIN evs PROVE ExtractDest(evs[i].to)
  <2>1. evs[i].to \in ExtractTos(doc)
    BY DEF ExtractTos, ToSet, R
  <2>2. ChecksLifetimes(doc, DocScope(doc))
    BY DEF Running, Accepts
  <2> HIDE DEF evs
  <2> QED
    BY <2>1, <2>2 DEF ChecksLifetimes, StateTo, ExtractDest
<1>6. \A i \in DOMAIN evs : TransformLapses(evs[i].regex, evs[i].coerce) \subseteq Unchecked(doc)
  BY <1>1, RequestExcused
<1> HIDE DEF evs, sc
<1>5. Sane(RunExtracts(s, body, headers, evs).r, FALSE, Unchecked(doc)) /\ SameElse(s, RunExtracts(s, body, headers, evs).s)
  BY <1>2, <1>3, <1>4, <1>6, RunExtractsSane
<1> QED
  BY <1>5 DEF Permitted, Sane, evs

(* The entries of progress or of advance: their values, and that they are   *)
(* written to state fields.                                                 *)
LEMMA StagedPermitted ==
  ASSUME Running, NEW writes \in Seq(Writes), NEW s,
         \A i \in DOMAIN writes : ChecksRequired(writes[i].from, AfterScope),
         \A i \in DOMAIN writes : writes[i].from \in Needed(doc) /\ writes[i] \in Transforms(doc)
  PROVE  Permitted(InOrder(Staged(s, writes)))
<1> DEFINE n == Len(writes)
           r == Staged(s, writes)
           root == ReadsOwnAlias(doc)
           lapses == Unchecked(doc)
<1>1. n \in Nat /\ DOMAIN writes = 1 .. n /\ \A i \in DOMAIN writes : writes[i] \in Writes
  BY Elements
<1>2. AliasBound(s, AfterScope)
  BY DEF AliasBound, AfterScope, DocScope, ClosedRoots
<1> HIDE DEF n
<1>3. ASSUME NEW i \in 1 .. n PROVE Sane(r[i], root, lapses)
  <2>1. writes[i].from \in Nodes /\ ChecksValue(writes[i].from, AfterScope)
    BY <1>1 DEF Writes, ChecksRequired
  <2>2. Lapses(writes[i].from) \subseteq lapses
    BY <1>1, Excused
  <2>3. Sane(Eval(s, writes[i].from), root, lapses)
    BY <1>2, <2>1, <2>2, BoundSane
  <2>4. r[i] = Transformed(Eval(s, writes[i].from), writes[i].regex, writes[i].coerce)
    BY <1>1 DEF Staged
  <2>5. TransformLapses(writes[i].regex, writes[i].coerce) \subseteq lapses
    BY <1>1, Excused
  <2> HIDE DEF r, root, lapses
  <2> QED
    BY <2>3, <2>4, <2>5, TransformedSane
<1>4. DOMAIN r = 1 .. n
  BY <1>1 DEF Staged
<1> HIDE DEF r
<1>5. Sane(InOrder(r), root, lapses)
  BY <1>1, <1>3, <1>4, InOrderSane
<1> QED
  BY <1>5 DEF Permitted, r

(* A validated destination of a write is a state field.                    *)
LEMMA DestinationIsField ==
  ASSUME Running, NEW to \in PaginationTos(doc) \cup ProgressTos(doc)
  PROVE  StateField(to) # {} /\ StateField(to) \subseteq DOMAIN doc.state
<1>1. StateTo(to, DocScope(doc))
  BY DEF Running, Accepts, ChecksLifetimes
<1>2. Len(to) = 2 /\ to[1] = "state" /\ to[2] \in DOMAIN doc.state
  BY <1>1 DEF StateTo, DocScope
<1> QED
  BY <1>2 DEF StateField

(* The progress entries.                                                   *)
LEMMA ProgressPermitted ==
  ASSUME Running
  PROVE  /\ Permitted(InOrder(Staged(scope, doc.progress)))
         /\ \A k \in DOMAIN doc.progress : StateField(doc.progress[k].to) # {}
<1>1. doc.progress \in Seq(Writes)
  BY Blocks DEF Running
<1>2. \A i \in DOMAIN doc.progress : ChecksRequired(doc.progress[i].from, AfterScope)
  BY DEF Running, Accepts, AfterScope, ChecksProgress
<1>3. \A i \in DOMAIN doc.progress : doc.progress[i] \in ToSet(doc.progress)
  BY DEF ToSet
<1>4. \A i \in DOMAIN doc.progress : doc.progress[i].from \in Needed(doc) /\ doc.progress[i] \in Transforms(doc)
  BY <1>3 DEF Needed, Transforms
<1>5. \A i \in DOMAIN doc.progress : doc.progress[i].to \in ProgressTos(doc)
  BY <1>3 DEF ProgressTos
<1> QED
  BY <1>1, <1>2, <1>4, <1>5, StagedPermitted, DestinationIsField

(* The variant of the pagination.                                          *)
LEMMA PaginationVariant ==
  ASSUME Running
  PROVE  \E name \in {"none", "cursor_token", "next_url", "counter", "custom"} : doc.pagination.variants = {name}
<1>1. doc.pagination.variants \in SUBSET {"none", "cursor_token", "next_url", "counter", "custom"}
  BY Blocks DEF Running, Paginations
<1>2. HasOne(doc.pagination)
  BY DEF Running, Accepts, ChecksPagination
<1> QED
  BY <1>1, <1>2, VariantsFinite, OneVariant

(* A counter's start and step: one when it is left out.                    *)
LEMMA CounterPermitted ==
  ASSUME Running, doc.pagination.variants = {"counter"}, NEW s
  PROVE  Permitted(CounterInt(s, doc.pagination.start)) /\ Permitted(CounterInt(s, doc.pagination.step))
<1>1. ASSUME NEW v \in Nodes, ChecksValue(v, AfterScope), v \in Optional(doc)
      PROVE  Permitted(CounterInt(s, v))
  <2>1. AliasBound(s, AfterScope)
    BY DEF AliasBound, AfterScope, DocScope, ClosedRoots
  <2>2. v # Blank => Lapses(v) \subseteq Unchecked(doc)
    BY <1>1, Excused
  <2> DEFINE r == IF v = Blank THEN Ok(Int64(1)) ELSE Eval(s, v)
  <2>3. Sane(r, ReadsOwnAlias(doc), Unchecked(doc))
    BY <1>1, <2>1, <2>2, BoundSane, FineSane
  <2>4. CounterInt(s, v) = IF r.ok THEN ToInt(r.v) ELSE r
    BY DEF CounterInt, Then
  <2> HIDE DEF r
  <2> QED
    BY <2>3, <2>4, CoercionsFine, FineSane DEF Permitted
<1>2. doc.pagination.start \in Nodes /\ doc.pagination.step \in Nodes
  BY Blocks DEF Running, Paginations
<1>3. ChecksValue(doc.pagination.start, AfterScope) /\ ChecksValue(doc.pagination.step, AfterScope)
  BY DEF Running, Accepts, AfterScope, ChecksPagination, Is
<1>4. doc.pagination.start \in Optional(doc) /\ doc.pagination.step \in Optional(doc)
  BY DEF Optional
<1> QED
  BY <1>1, <1>2, <1>3, <1>4

FromResponse == doc.pagination.variants = {"cursor_token"} \/ doc.pagination.variants = {"next_url"}
HasOperand == FromResponse \/ doc.pagination.variants = {"counter"}

(* The value that the next page would start from.                          *)
LEMMA NextFromPermitted ==
  ASSUME Running, FromResponse, scope.binding = ""
  PROVE  Permitted(NextFrom(scope, doc.pagination))
<1> DEFINE p == doc.pagination.from
           r == ResolveNamespaceRef(scope, p)
           rest == Tail(p)
<1>1. p \in Seq(STRING) /\ doc.pagination.capture \in Int
  BY Blocks DEF Running, Paginations, Paths
<1>2. ChecksPaginationFromPath(p, AfterScope)
  BY DEF Running, Accepts, AfterScope, ChecksPagination, FromResponse
<1>3. doc.pagination.variants = {"next_url"} => doc.pagination.capture >= 0
  BY DEF Running, Accepts, ChecksPagination, Is
<1>0. p # << >>
  BY <1>2 DEF ChecksPaginationFromPath
<1>4. r = IF p[1] = "response" THEN ResolveResponse(scope, rest)
          ELSE IF p[1] = "steps" THEN ResolveSteps(scope, rest) ELSE r
  BY <1>0 DEF ResolveNamespaceRef
<1> HIDE DEF r, p
<1>a. rest \in Seq(STRING) /\ Len(p) \in Nat \ {0} /\ Len(rest) = Len(p) - 1
  BY <1>0, <1>1, PathTail
<1>c. Len(p) >= 2 => rest # << >>
  BY <1>0, <1>1, PathTail
<1>d. Len(p) >= 2 => rest[1] = p[2]
  BY <1>0, <1>1, PathTail
<1>e. Len(p) >= 3 => rest[2] = p[3]
  BY <1>0, <1>1, PathTail
<1> HIDE DEF rest
<1>f. Len(p) >= 3 => Len(rest) >= 2
  <2> DEFINE a == Len(rest)
             b == Len(p)
  <2>1. b \in Nat \ {0} /\ a = b - 1
    BY <1>a
  <2> HIDE DEF a, b
  <2>2. b >= 3 => a >= 2
    BY <2>1, OneLess
  <2> QED
    BY <2>2 DEF a, b
<1>5. \E x : r = Ok(x)
  <2>1. CASE p[1] = "response" /\ ChecksResponseRef(p)
    <3>1. Len(p) >= 2 /\ (p[2] = "body" \/ (p[2] = "header" /\ Len(p) >= 3))
      BY <2>1 DEF ChecksResponseRef
    <3>2. rest # << >> /\ rest[1] = p[2]
      BY <1>c, <1>d, <3>1
    <3>3. rest[1] = "body" \/ (rest[1] = "header" /\ Len(rest) >= 2)
      BY <1>f, <3>1, <3>2
    <3>4. r = ResolveResponse(scope, rest)
      BY <1>4, <2>1
    <3> QED
      BY <3>2, <3>3, <3>4, ResponseResolves
  <2>2. CASE p[1] = "steps" /\ BodyPart(p, AfterScope)
    <3>1. Len(p) >= 4 /\ p[3] = "body"
      BY <2>2 DEF BodyPart
    <3>5. Len(p) >= 3
      <4> DEFINE b == Len(p)
                 a == Len(rest)
      <4>1. b >= 4 /\ b \in Nat \ {0}
        BY <3>1, <1>a, Zenon
      <4>0. a = b - 1
        BY <1>a
      <4> HIDE DEF a, b
      <4>2. b >= 3
        BY <4>0, <4>1, OneLess, Zenon
      <4> QED
        BY <4>2 DEF b
    <3>2. rest[2] = "body" /\ Len(rest) >= 2
      BY <1>e, <1>f, <3>1, <3>5
    <3>3. r = ResolveSteps(scope, rest)
      BY <1>4, <2>2
    <3> QED
      BY <1>a, <3>2, <3>3, StepsResolve
  <2> QED
    BY <1>2, <2>1, <2>2 DEF ChecksPaginationFromPath
<1>6. NextFrom(scope, doc.pagination) =
        IF r.ok THEN IF "next_url" \in doc.pagination.variants /\ doc.pagination.regex # "" /\ r.v # Nil
                     THEN ApplyRegex(doc.pagination.regex, ToText(r.v), doc.pagination.capture, Ok(Nil)) ELSE Ok(r.v)
        ELSE r
  BY DEF NextFrom, Then, r, p
<1>7. "next_url" \in doc.pagination.variants => doc.pagination.variants = {"next_url"}
  BY DEF FromResponse
<1>8. "next_url" \in doc.pagination.variants /\ doc.pagination.regex # "" =>
        Sane(ApplyRegex(doc.pagination.regex, ToText(r.v), doc.pagination.capture, Ok(Nil)),
             ReadsOwnAlias(doc), Unchecked(doc))
  BY <1>1, <1>3, <1>7, FineSane, ApplyRegexSane, Excused
<1> QED
  BY <1>5, <1>6, <1>8, FineSane DEF Permitted

(* When the pagination ends, and what it writes otherwise.                 *)
LEMMA TerminatePermitted ==
  ASSUME Running, doc.pagination.variants # {"none"}, doc.pagination.terminate # NoPredicate, NEW s
  PROVE  Permitted(Holds(s, doc.pagination.terminate))
<1> DEFINE t == doc.pagination.terminate
           sc == AfterScope
<1>1. t \in Nodes
  BY Blocks DEF Running, Paginations
<1>2. ChecksOptional(t, sc)
  BY DEF Running, Accepts, AfterScope, ChecksPagination, Is
<1>3. t # NoPredicate
  OBVIOUS
<1>4. AliasBound(s, sc)
  BY DEF AliasBound, AfterScope, DocScope, ClosedRoots
<1>5. t \in Needed(doc)
  BY DEF Needed
<1> HIDE DEF t, sc
<1>6. ChecksValue(t, sc)
  BY <1>1, <1>2, <1>3, OptionalChecked
<1>7. Lapses(t) \subseteq Unchecked(doc)
  BY <1>5, Excused
<1>8. Sane(Eval(s, t), ReadsOwnAlias(doc), Unchecked(doc))
  BY <1>1, <1>4, <1>6, <1>7, BoundSane
<1> QED
  BY <1>8 DEF Permitted, Holds, t

(* What the variant resolves before it asks whether to end.                *)
LEMMA OperandPermitted ==
  ASSUME Running, scope.binding = "", HasOperand
  PROVE  Permitted(Operand(scope, doc.pagination))
<1>1. CASE FromResponse
  <2>1. "counter" \notin doc.pagination.variants
    BY <1>1 DEF FromResponse
  <2> QED
    BY <1>1, <2>1, NextFromPermitted DEF Operand
<1>2. CASE doc.pagination.variants = {"counter"}
  BY <1>2, CounterPermitted DEF Operand
<1> QED
  BY <1>1, <1>2 DEF HasOperand

(* The variants that resolve an operand, and those that do not.            *)
LEMMA PaginationKinds ==
  ASSUME Running
  PROVE  \/ doc.pagination.variants = {"none"} \/ doc.pagination.variants = {"custom"}
         \/ HasOperand
BY PaginationVariant DEF FromResponse, HasOperand

(* Whether the pagination ends.                                            *)
LEMMA EndsPermitted ==
  ASSUME Running, scope.binding = ""
  PROVE  Permitted(Ends(scope, doc.pagination, Operand(scope, doc.pagination)))
<1> DEFINE p == doc.pagination
           operand == Operand(scope, p)
           r == IF "custom" \in p.variants THEN Ok(Nil) ELSE operand
<1>1. p.variants # {}
  BY PaginationKinds DEF FromResponse, HasOperand
<1>2. CASE p.variants = {"none"}
  <2>1. Ends(scope, p, operand) = Ok(Bool(TRUE))
    BY <1>1, <1>2 DEF Ends
  <2> HIDE DEF p, operand
  <2> QED
    BY <2>1, FineSane DEF Permitted, p, operand
<1>3. CASE p.variants # {"none"}
  <2>1. "none" \notin p.variants
    BY <1>3, PaginationKinds DEF FromResponse, HasOperand
  <2>2. Permitted(r)
    <3>1. CASE p.variants = {"custom"}
      <4>1. r = Ok(Nil)
        BY <3>1
      <4> HIDE DEF r
      <4> QED
        BY <4>1, FineSane DEF Permitted
    <3>2. CASE HasOperand
      <4>1. r = operand
        BY <3>2 DEF FromResponse, HasOperand
      <4>2. Permitted(operand)
        BY <3>2, OperandPermitted
      <4> HIDE DEF r, operand
      <4> QED
        BY <4>1, <4>2
    <3> QED
      BY <1>3, <3>1, <3>2, PaginationKinds
  <2>3. p.terminate # NoPredicate => Permitted(Holds(scope, p.terminate))
    BY <1>3, TerminatePermitted
  <2>4. Ends(scope, p, operand) =
          IF r.ok THEN IF p.terminate # NoPredicate THEN Holds(scope, p.terminate)
                       ELSE Ok(Bool(DefaultEnds(scope, p, r.v)))
          ELSE r
    BY <1>1, <2>1 DEF Ends, Then
  <2> HIDE DEF r, p, operand
  <2>5. Permitted(Ok(Bool(DefaultEnds(scope, p, r.v))))
    BY FineSane DEF Permitted
  <2> QED
    BY <2>2, <2>3, <2>4, <2>5 DEF p, operand
<1> QED
  BY <1>2, <1>3

(* One result in order, and three.                                         *)
LEMMA FewInOrder ==
  ASSUME NEW root, NEW lapses, NEW a, Sane(a, root, lapses), NEW b, Sane(b, root, lapses), NEW c, Sane(c, root, lapses)
  PROVE  Sane(InOrder(<<a>>), root, lapses) /\ Sane(InOrder(<<a, b, c>>), root, lapses)
<1>1. /\ DOMAIN <<a>> = 1 .. 1 /\ 1 \in Nat
      /\ \A i \in 1 .. 1 : Sane(<<a>>[i], root, lapses)
  OBVIOUS
<1>2. /\ DOMAIN <<a, b, c>> = 1 .. 3 /\ 3 \in Nat
      /\ \A i \in 1 .. 3 : Sane(<<a, b, c>>[i], root, lapses)
  OBVIOUS
<1>3. Sane(InOrder(<<a>>), root, lapses)
  BY <1>1, InOrderSane
<1> QED
  BY <1>2, <1>3, InOrderSane

(* What the counter, or the variant that starts from the response, writes. *)
LEMMA UpcomingPermitted ==
  ASSUME Running, scope.binding = "", HasOperand
  PROVE  Permitted(InOrder(<<Upcoming(scope, doc.pagination, Operand(scope, doc.pagination))>>))
<1> DEFINE p == doc.pagination
           operand == Operand(scope, p)
           next == Upcoming(scope, p, operand)
           root == ReadsOwnAlias(doc)
           lapses == Unchecked(doc)
<1>1. Permitted(operand)
  BY OperandPermitted
<1>2. Permitted(next)
  <2>1. CASE FromResponse
    <3>1. "counter" \notin p.variants
      BY <2>1 DEF FromResponse
    <3>2. next = operand
      BY <3>1 DEF Upcoming
    <3> HIDE DEF next, operand
    <3> QED
      BY <1>1, <3>2
  <2>2. CASE doc.pagination.variants = {"counter"}
    <3> DEFINE start == CounterInt(scope, p.start)
               cur == IF Len(p.to) = 2 /\ p.to[2] \in DOMAIN scope.state THEN scope.state[p.to[2]] ELSE Nil
               from == IF cur = Nil THEN start ELSE ToInt(cur)
               r == InOrder(<<operand, start, from>>)
    <3>1. Permitted(start)
      BY <2>2, CounterPermitted
    <3>2. next = IF r.ok THEN Ok(Int64(r.v.e[3].n + r.v.e[1].n)) ELSE r
      BY <2>2 DEF Upcoming, CounterNext, Then
    <3> HIDE DEF operand, start, cur, next
    <3>3. Permitted(from)
      BY <3>1, CoercionsFine, FineSane DEF Permitted
    <3> HIDE DEF from
    <3>6. Permitted(r)
      BY <1>1, <3>1, <3>3, FewInOrder DEF Permitted
    <3> HIDE DEF r
    <3>7. Permitted(Ok(Int64(r.v.e[3].n + r.v.e[1].n)))
      BY FineSane DEF Permitted
    <3> QED
      BY <3>2, <3>6, <3>7
  <2> QED
    BY <2>1, <2>2 DEF HasOperand
<1> HIDE DEF next
<1> QED
  BY <1>2, FewInOrder DEF Permitted, next

(* The entries of a custom pagination, and where a page of another is      *)
(* written.                                                                 *)
LEMMA AdvancePermitted ==
  ASSUME Running
  PROVE  /\ doc.pagination.variants = {"custom"} =>
              /\ Permitted(InOrder(Staged(scope, doc.pagination.advance)))
              /\ \A k \in DOMAIN doc.pagination.advance : StateField(doc.pagination.advance[k].to) # {}
         /\ HasOperand => StateField(doc.pagination.to) # {}
<1> DEFINE p == doc.pagination
<1>1. ASSUME p.variants = {"custom"}
      PROVE  /\ Permitted(InOrder(Staged(scope, p.advance)))
             /\ \A k \in DOMAIN p.advance : StateField(p.advance[k].to) # {}
  <2>1. p.advance \in Seq(Writes)
    BY Blocks DEF Running, Paginations
  <2>2. \A i \in DOMAIN p.advance : ChecksRequired(p.advance[i].from, AfterScope)
    BY <1>1 DEF Running, Accepts, AfterScope, ChecksPagination, Is
  <2>3. \A i \in DOMAIN p.advance : p.advance[i] \in ToSet(p.advance)
    BY DEF ToSet
  <2>4. \A i \in DOMAIN p.advance : p.advance[i].from \in Needed(doc) /\ p.advance[i] \in Transforms(doc)
    BY <2>3 DEF Needed, Transforms
  <2>5. PaginationTos(doc) = {w.to : w \in ToSet(p.advance)}
    <3>1. p.variants \cap {"cursor_token", "next_url", "counter"} = {} /\ "custom" \in p.variants
      BY <1>1
    <3> QED
      BY <3>1 DEF PaginationTos
  <2>6. \A i \in DOMAIN p.advance : p.advance[i].to \in PaginationTos(doc)
    BY <2>3, <2>5
  <2> QED
    BY <2>1, <2>2, <2>4, <2>6, StagedPermitted, DestinationIsField
<1>2. ASSUME HasOperand PROVE StateField(p.to) # {}
  <2> DEFINE some == p.variants \cap {"cursor_token", "next_url", "counter"} # {}
  <2>1. some
    BY <1>2 DEF FromResponse, HasOperand
  <2>2. PaginationTos(doc) = CASE some -> {p.to}
                               [] "custom" \in p.variants -> {w.to : w \in ToSet(p.advance)}
                               [] OTHER -> {}
    BY DEF PaginationTos
  <2>3. ~some \/ "custom" \notin p.variants
    BY <1>2 DEF FromResponse, HasOperand
  <2> HIDE DEF some
  <2>4. p.to \in PaginationTos(doc)
    BY <2>1, <2>2, <2>3
  <2> QED
    BY <2>4, DestinationIsField
<1> QED
  BY <1>1, <1>2

(* The default of a state field, which is evaluated when it has one.       *)
LEMMA DefaultPermitted ==
  ASSUME Running, NEW s, NEW name \in Seeded(doc)
  PROVE  Permitted(Eval(s, doc.state[name].default))
<1> DEFINE v == doc.state[name].default
           sc == DocScope(doc)
<1>1. name \in DOMAIN doc.state /\ v # Blank
  BY DEF Seeded
<1>2. v \in Nodes
  BY <1>1, Blocks DEF Running, FieldDecls
<1>3. ChecksValue(v, sc)
  BY <1>1 DEF Running, Accepts, ChecksStateDeclarations
<1>4. AliasBound(s, sc)
  BY DEF AliasBound, DocScope, ClosedRoots
<1>5. v \in Optional(doc)
  BY <1>1 DEF Optional, Range
<1> HIDE DEF v, sc
<1>6. Lapses(v) \subseteq Unchecked(doc)
  BY <1>1, <1>5, Excused
<1>7. Sane(Eval(s, v), ReadsOwnAlias(doc), Unchecked(doc))
  BY <1>2, <1>3, <1>4, <1>6, BoundSane
<1> QED
  BY <1>7 DEF Permitted, v
-----------------------------------------------------------------------------
(* What a default reads.                                                   *)

(* The same scope but for what is in the state. *)
ButState(s, t) ==
  /\ s.cache = t.cache /\ s.extract = t.extract /\ s.steps = t.steps /\ s.stepHeaders = t.stepHeaders
  /\ s.events = t.events /\ s.body = t.body /\ s.headers = t.headers /\ s.item = t.item
  /\ s.binding = t.binding /\ s.now = t.now

(* A reference below another root resolves to the same.                    *)
LEMMA ResolvesAlike ==
  ASSUME NEW s, NEW t, ButState(s, t), NEW p, p = << >> \/ p[1] # "state"
  PROVE  ResolveNamespaceRef(s, p) = ResolveNamespaceRef(t, p)
<1>1. ResolveSteps(s, Tail(p)) = ResolveSteps(t, Tail(p))
  BY DEF ResolveSteps, ButState
<1>2. ResolveResponse(s, Tail(p)) = ResolveResponse(t, Tail(p))
  BY DEF ResolveResponse, ButState
<1>3. /\ s.binding = t.binding /\ s.item = t.item /\ s.cache = t.cache /\ s.events = t.events
      /\ s.extract = t.extract
  BY DEF ButState
<1> QED
  BY <1>1, <1>2, <1>3 DEF ResolveNamespaceRef

(* The answer of a node depends on the scope through its own reference and *)
(* the clock.                                                               *)
LEMMA AnswersAlike ==
  ASSUME NEW s, NEW t, NEW w, ResolveNamespaceRef(s, w.p) = ResolveNamespaceRef(t, w.p), s.now = t.now, NEW r
  PROVE  Answer(s, w, r) = Answer(t, w, r)
<1> DEFINE P == ResolveNamespaceRef(s, w.p)
           Q == ResolveNamespaceRef(t, w.p)
<1>1. P = Q
  OBVIOUS
<1>2. Then(P, LAMBDA v : IF ~IsZeroRuntime(v) THEN Ok(v) ELSE IF r = << >> THEN Ok(Nil) ELSE r[1])
        = Then(Q, LAMBDA v : IF ~IsZeroRuntime(v) THEN Ok(v) ELSE IF r = << >> THEN Ok(Nil) ELSE r[1])
  BY <1>1 DEF Then
<1>3. EvalNode(s, w, r) = EvalNode(t, w, r)
  BY <1>1, <1>2 DEF EvalNode
<1>4. HoldsNode(s, w, r) = HoldsNode(t, w, r)
  BY <1>1 DEF HoldsNode, Then
<1> QED
  BY <1>3, <1>4 DEF Answer

(* A value that reads nothing of the state is the same in every state: by  *)
(* induction on how deep it is.                                             *)
LEMMA EvalAlike ==
  ASSUME NEW s, NEW t, ButState(s, t), NEW v \in Nodes, ~ReadsRoot(v, "state")
  PROVE  Eval(s, v) = Eval(t, v)
<1> DEFINE Apart(u) == u.p = << >> \/ u.p[1] # "state"
           Good(w) == \A u \in Subterms(w) : Apart(u)
           S == {n \in Nat : n <= MaxDepth => \A w \in NodesTo[n] : Good(w) => Eval(s, w) = Eval(t, w)}
<1>1. ASSUME NEW w \in Nodes, Good(w) PROVE Apart(w) /\ \A i \in DOMAIN w.kids : Good(w.kids[i])
  <2> HIDE DEF Apart
  <2>1. w \in Subterms(w) /\ \A i \in DOMAIN w.kids : Subterms(w.kids[i]) \subseteq Subterms(w)
    BY SubtermsUnfold
  <2> QED
    BY <1>1, <2>1
<1>2. ASSUME NEW w \in Nodes, Apart(w), \A i \in DOMAIN w.kids : Eval(s, w.kids[i]) = Eval(t, w.kids[i])
      PROVE  Eval(s, w) = Eval(t, w)
  <2> DEFINE r == [i \in DOMAIN w.kids |-> Eval(s, w.kids[i])]
             q == [i \in DOMAIN w.kids |-> Eval(t, w.kids[i])]
  <2>1. r = q
    BY <1>2
  <2>2. Eval(s, w) = Answer(s, w, r) /\ Eval(t, w) = Answer(t, w, q)
    BY EvalUnfolds
  <2>3. s.now = t.now
    BY DEF ButState
  <2> HIDE DEF r, q
  <2>4. ResolveNamespaceRef(s, w.p) = ResolveNamespaceRef(t, w.p)
    BY <1>2, ResolvesAlike
  <2>5. Answer(s, w, r) = Answer(t, w, r)
    BY <2>3, <2>4, AnswersAlike
  <2> QED
    BY <2>1, <2>2, <2>5
<1>3. 0 \in S
  BY NodesToDefined
<1>4. ASSUME NEW n \in Nat, n \in S PROVE n + 1 \in S
  <2> SUFFICES ASSUME n + 1 <= MaxDepth, NEW w \in NodesTo[n + 1], Good(w) PROVE Eval(s, w) = Eval(t, w)
    OBVIOUS
  <2>1. n + 1 \in 1 .. MaxDepth /\ n + 1 \in 0 .. MaxDepth /\ (n + 1) - 1 = n /\ n <= MaxDepth
    BY DepthAssumption
  <2>2. w \in Nodes
    BY <2>1, DeeperNodes
  <2>3. \A i \in DOMAIN w.kids : w.kids[i] \in NodesTo[n]
    BY <2>1, Operands
  <2> HIDE DEF Good, Apart
  <2>4. Apart(w) /\ \A i \in DOMAIN w.kids : Good(w.kids[i])
    BY <1>1, <2>2
  <2>5. \A u \in NodesTo[n] : Good(u) => Eval(s, u) = Eval(t, u)
    BY <1>4, <2>1
  <2>6. \A i \in DOMAIN w.kids : Eval(s, w.kids[i]) = Eval(t, w.kids[i])
    BY <2>3, <2>4, <2>5
  <2> QED
    BY <1>2, <2>2, <2>4, <2>6
<1>5. Good(v)
  BY DEF ReadsRoot
<1> HIDE DEF S, Good, Apart
<1>6. MaxDepth \in S
  BY <1>3, <1>4, SetInduction, DepthAssumption
<1> QED
  BY <1>5, <1>6, DepthAssumption DEF S, Nodes
-----------------------------------------------------------------------------
(* The inductive invariant.                                                *)

(* Where a run is: an accepted document once it is past the validator,     *)
(* fields to be seeded that have a default, and a snapshot without what    *)
(* the pagination writes.                                                   *)
Placed ==
  /\ doc \in Documents /\ TypeOK
  /\ pc \notin {"validate", "rejected"} => Accepts(doc)
  /\ pc = "seed" => pending \subseteq Seeded(doc)
  /\ DOMAIN snap \cap PerDrainScratchFields(doc) = {}

(* What is bound where: an alias around the items of the step that has it, *)
(* a response only in a step that fires again.                              *)
Bound ==
  /\ IsScope(scope)
  /\ pc # "items" => scope.binding = ""
  /\ pc = "items" => /\ req \in DOMAIN doc.requests /\ R.fanOut.set /\ fired = 0
                     /\ scope.binding = R.fanOut.as
  /\ pc = "chain" => req # 0 /\ (fired # 0 => req \in DOMAIN doc.requests /\ ~R.fanOut.set)
  /\ (pc = "chain" /\ fired = 0) \/ pc = "items" => scope.body = Nil /\ scope.headers = NothingBound
  /\ FirstRequest => scope = [EmptyScope EXCEPT !.state = scope.state, !.cache = scope.cache]

(* A field that pagination writes, as a drain finds it: its default, or    *)
(* nothing; and what the snapshot holds.                                    *)
StartsOver(d, state, name) ==
  Alone(d, name) =>
    IF name \in Seeded(d)
    THEN name \in DOMAIN state /\ Ok(state[name]) = Eval(EmptyScope, d.state[name].default)
    ELSE name \notin DOMAIN state
Kept(state, saved) == \A name \in DOMAIN saved : name \in DOMAIN state /\ state[name] = saved[name]

(* A scope in which nothing is bound but the state. *)
OnlyState(s) == s = [EmptyScope EXCEPT !.state = s.state]

(* The opening of a drain: no iteration before the state is seeded, laid   *)
(* over and wiped, and every field wiped so far starts over.                *)
Opening ==
  /\ pc \in {"validate", "seed", "wipe"} => pages = 0 /\ OnlyState(scope)
  /\ pc \in {"page", "chain", "items", "progress", "advance"} => pages # 0
  /\ pc = "wipe" =>
       /\ pending \subseteq PerDrainScratchFields(doc) /\ Kept(scope.state, snap)
       /\ \A name \in PerDrainScratchFields(doc) \ pending : StartsOver(doc, scope.state, name)
  /\ FirstRequest /\ pages = 1 =>
       /\ Kept(scope.state, snap)
       /\ \A name \in PerDrainScratchFields(doc) : StartsOver(doc, scope.state, name)

IInv == Placed /\ Bound /\ Opening /\ AcceptedRuns

(* A scope by the fields that matter from here on.                         *)
Fields(s, state, cache, body, headers, binding) ==
  /\ IsScope(s) /\ s.state = state /\ s.cache = cache /\ s.body = body /\ s.headers = headers
  /\ s.binding = binding

(* One field of a scope replaced.                                          *)
LEMMA OneField ==
  ASSUME NEW s, IsScope(s), NEW x
  PROVE  /\ Fields([s EXCEPT !.state = x], x, s.cache, s.body, s.headers, s.binding)
         /\ Fields([s EXCEPT !.cache = x], s.state, x, s.body, s.headers, s.binding)
         /\ Fields([s EXCEPT !.body = x], s.state, s.cache, x, s.headers, s.binding)
         /\ Fields([s EXCEPT !.headers = x], s.state, s.cache, s.body, x, s.binding)
         /\ Fields([s EXCEPT !.binding = x], s.state, s.cache, s.body, s.headers, x)
         /\ Fields([s EXCEPT !.item = x], s.state, s.cache, s.body, s.headers, s.binding)
         /\ Fields([s EXCEPT !.events = x], s.state, s.cache, s.body, s.headers, s.binding)
         /\ Fields([s EXCEPT !.steps = x], s.state, s.cache, s.body, s.headers, s.binding)
         /\ Fields([s EXCEPT !.stepHeaders = x], s.state, s.cache, s.body, s.headers, s.binding)
<1>1. Fields([s EXCEPT !.state = x], x, s.cache, s.body, s.headers, s.binding)
  BY DEF IsScope, Fields
<1>2. Fields([s EXCEPT !.cache = x], s.state, x, s.body, s.headers, s.binding)
  BY DEF IsScope, Fields
<1>3. Fields([s EXCEPT !.body = x], s.state, s.cache, x, s.headers, s.binding)
  BY DEF IsScope, Fields
<1>4. Fields([s EXCEPT !.headers = x], s.state, s.cache, s.body, x, s.binding)
  BY DEF IsScope, Fields
<1>5. Fields([s EXCEPT !.binding = x], s.state, s.cache, s.body, s.headers, x)
  BY DEF IsScope, Fields
<1>6. Fields([s EXCEPT !.item = x], s.state, s.cache, s.body, s.headers, s.binding)
  BY DEF IsScope, Fields
<1>7. Fields([s EXCEPT !.events = x], s.state, s.cache, s.body, s.headers, s.binding)
  BY DEF IsScope, Fields
<1>8. Fields([s EXCEPT !.steps = x], s.state, s.cache, s.body, s.headers, s.binding)
  BY DEF IsScope, Fields
<1>9. Fields([s EXCEPT !.stepHeaders = x], s.state, s.cache, s.body, s.headers, s.binding)
  BY DEF IsScope, Fields
<1> QED
  BY <1>1, <1>2, <1>3, <1>4, <1>5, <1>6, <1>7, <1>8, <1>9

(* Several fields replaced, as the steps of a run do.                      *)
LEMMA ScopeWith ==
  ASSUME NEW s, IsScope(s), NEW x, NEW y, NEW z
  PROVE  /\ Fields([s EXCEPT !.steps = x, !.stepHeaders = y], s.state, s.cache, s.body, s.headers, s.binding)
         /\ Fields([s EXCEPT !.body = x, !.headers = y], s.state, s.cache, x, y, s.binding)
         /\ Fields([s EXCEPT !.body = x, !.headers = y, !.events = z], s.state, s.cache, x, y, s.binding)
         /\ Fields(NextRequest(s), s.state, s.cache, Nil, NothingBound, s.binding)
         /\ Fields(Unaliased(s), s.state, s.cache, s.body, s.headers, "")
<1>1. Fields([s EXCEPT !.steps = x, !.stepHeaders = y], s.state, s.cache, s.body, s.headers, s.binding)
  <2> DEFINE u == [s EXCEPT !.steps = x]
  <2>1. Fields(u, s.state, s.cache, s.body, s.headers, s.binding)
    BY OneField
  <2> HIDE DEF u
  <2>a. IsScope(u)
    BY <2>1 DEF Fields
  <2>2. Fields([u EXCEPT !.stepHeaders = y], u.state, u.cache, u.body, u.headers, u.binding)
    BY <2>a, OneField
  <2>3. u.state = s.state /\ u.cache = s.cache /\ u.body = s.body /\ u.headers = s.headers /\ u.binding = s.binding
    BY <2>1 DEF Fields
  <2> QED
    BY <2>2, <2>3 DEF u
<1>2. ASSUME NEW a, NEW b PROVE Fields([s EXCEPT !.body = a, !.headers = b], s.state, s.cache, a, b, s.binding)
  <2> DEFINE u == [s EXCEPT !.body = a]
  <2>1. Fields(u, s.state, s.cache, a, s.headers, s.binding)
    BY OneField
  <2> HIDE DEF u
  <2>a. IsScope(u)
    BY <2>1 DEF Fields
  <2>2. Fields([u EXCEPT !.headers = b], u.state, u.cache, u.body, b, u.binding)
    BY <2>a, OneField
  <2>3. u.state = s.state /\ u.cache = s.cache /\ u.body = a /\ u.binding = s.binding
    BY <2>1 DEF Fields
  <2> QED
    BY <2>2, <2>3 DEF u
<1>3. Fields([s EXCEPT !.body = x, !.headers = y, !.events = z], s.state, s.cache, x, y, s.binding)
  <2> DEFINE u == [s EXCEPT !.body = x, !.headers = y]
  <2>1. Fields(u, s.state, s.cache, x, y, s.binding)
    BY <1>2
  <2> HIDE DEF u
  <2>a. IsScope(u)
    BY <2>1 DEF Fields
  <2>2. Fields([u EXCEPT !.events = z], u.state, u.cache, u.body, u.headers, u.binding)
    BY <2>a, OneField
  <2>3. u.state = s.state /\ u.cache = s.cache /\ u.body = x /\ u.headers = y /\ u.binding = s.binding
    BY <2>1 DEF Fields
  <2> QED
    BY <2>2, <2>3 DEF u
<1>4. Fields(NextRequest(s), s.state, s.cache, Nil, NothingBound, s.binding)
  BY <1>2 DEF NextRequest
<1>5. Fields(Unaliased(s), s.state, s.cache, s.body, s.headers, "")
  <2> DEFINE u == [s EXCEPT !.item = Nil]
  <2>1. Fields(u, s.state, s.cache, s.body, s.headers, s.binding)
    BY OneField
  <2>2. Unaliased(s) = [u EXCEPT !.binding = ""]
    BY DEF Unaliased
  <2> HIDE DEF u
  <2>a. IsScope(u)
    BY <2>1 DEF Fields
  <2>3. Fields([u EXCEPT !.binding = ""], u.state, u.cache, u.body, u.headers, "")
    BY <2>a, OneField
  <2>4. u.state = s.state /\ u.cache = s.cache /\ u.body = s.body /\ u.headers = s.headers
    BY <2>1 DEF Fields
  <2> QED
    BY <2>2, <2>3, <2>4
<1> QED
  BY <1>1, <1>2, <1>3, <1>4, <1>5

(* A step with a name binds its body and headers under it.                 *)
LEMMA LabelledFields ==
  ASSUME NEW s, IsScope(s), NEW id, NEW body, NEW headers
  PROVE  Fields(Labelled(s, id, body, headers), s.state, s.cache, s.body, s.headers, s.binding)
<1>1. Fields(s, s.state, s.cache, s.body, s.headers, s.binding)
  BY DEF Fields
<1> DEFINE x == With(s.steps, id, body)
           y == With(s.stepHeaders, id, headers)
<1>2. Fields([s EXCEPT !.steps = x, !.stepHeaders = y], s.state, s.cache, s.body, s.headers, s.binding)
  BY ScopeWith
<1>3. Labelled(s, id, body, headers) = IF id = "" THEN s ELSE [s EXCEPT !.steps = x, !.stepHeaders = y]
  BY DEF Labelled
<1> HIDE DEF x, y
<1> QED
  BY <1>1, <1>2, <1>3

(* The scope of a new drain, and of a new iteration.                       *)
LEMMA NewScopes ==
  /\ Fields(EmptyScope, NothingBound, NothingBound, Nil, NothingBound, "")
  /\ EmptyScope = [EmptyScope EXCEPT !.state = EmptyScope.state]
  /\ \A s : /\ Fields(Unbound(s), s.state, s.cache, Nil, NothingBound, "")
            /\ Unbound(s) = [EmptyScope EXCEPT !.state = s.state, !.cache = s.cache]
<1>1. Fields(EmptyScope, NothingBound, NothingBound, Nil, NothingBound, "")
  BY DEF IsScope, EmptyScope, Fields
<1>2. EmptyScope = [EmptyScope EXCEPT !.state = EmptyScope.state]
  BY <1>1 DEF IsScope, Fields
<1>3. ASSUME NEW s
      PROVE  /\ Fields(Unbound(s), s.state, s.cache, Nil, NothingBound, "")
             /\ Unbound(s) = [EmptyScope EXCEPT !.state = s.state, !.cache = s.cache]
  <2>1. Unbound(s) = [EmptyScope EXCEPT !.state = s.state, !.cache = s.cache]
    BY DEF Unbound
  <2> DEFINE u == [EmptyScope EXCEPT !.state = s.state]
  <2>2. Fields(u, s.state, NothingBound, Nil, NothingBound, "")
    <3>1. IsScope(EmptyScope)
      BY <1>1 DEF Fields
    <3>2. Fields(u, s.state, EmptyScope.cache, EmptyScope.body, EmptyScope.headers, EmptyScope.binding)
      BY <3>1, OneField
    <3>3. /\ EmptyScope.cache = NothingBound /\ EmptyScope.body = Nil /\ EmptyScope.headers = NothingBound
          /\ EmptyScope.binding = ""
      BY <1>1 DEF Fields
    <3> HIDE DEF u
    <3> QED
      BY <3>2, <3>3
  <2>3. Unbound(s) = [u EXCEPT !.cache = s.cache]
    BY <2>1
  <2> HIDE DEF u
  <2>a. IsScope(u)
    BY <2>2 DEF Fields
  <2>4. Fields([u EXCEPT !.cache = s.cache], u.state, s.cache, u.body, u.headers, u.binding)
    BY <2>a, OneField
  <2>5. u.state = s.state /\ u.body = Nil /\ u.headers = NothingBound /\ u.binding = ""
    BY <2>2 DEF Fields
  <2>6. Fields(Unbound(s), s.state, s.cache, Nil, NothingBound, "")
    BY <2>3, <2>4, <2>5
  <2> QED
    BY <2>1, <2>6
<1> QED
  BY <1>1, <1>2, <1>3

(* A result that is permitted and not a value is a problem that is, too.   *)
LEMMA FaultPermitted ==
  ASSUME AcceptedRuns, doc' = doc, NEW r, Permitted(r), ~r.ok, problem' = First(Why(r))
  PROVE  AcceptedRuns'
<1>1. Why(r) = "data" \/ (Why(r) = "root" /\ ReadsOwnAlias(doc)) \/ Why(r) \in Unchecked(doc)
  <2>1. r = Error \/ (r = Ill("root") /\ ReadsOwnAlias(doc)) \/ \E why \in Unchecked(doc) : r = Ill(why)
    BY Outcomes DEF Permitted, Sane, Fine
  <2>2. Why(Error) = "data"
    BY Outcomes DEF Why
  <2>3. ASSUME NEW why PROVE Why(Ill(why)) = why
    <3>1. Ill(why).v = Text(why, 0)
      BY Outcomes
    <3>2. Text(why, 0) # Nil /\ Text(why, 0).k = why
      BY DEF Text, Nil, Value
    <3> QED
      BY <3>1, <3>2 DEF Why
  <2> HIDE DEF Why, Ill
  <2> QED
    BY <2>1, <2>2, <2>3
<1>2. problem' = problem \/ problem' = Why(r)
  BY DEF First
<1>3. Unchecked(doc)' = Unchecked(doc) /\ ReadsOwnAlias(doc)' = ReadsOwnAlias(doc)
  OBVIOUS
<1> HIDE DEF Why
<1> QED
  BY <1>1, <1>2, <1>3 DEF AcceptedRuns

(* The same problem is as permitted as it was.                             *)
LEMMA SameProblem ==
  ASSUME AcceptedRuns, doc' = doc, problem' = problem
  PROVE  AcceptedRuns'
BY DEF AcceptedRuns
-----------------------------------------------------------------------------
(* Steps of one drain, by where they lead.                                 *)

(* Where a run can be, within a drain.                                     *)
Places == {"seed", "wipe", "page", "chain", "items", "progress", "advance", "save", "stopped"}

(* What is not checked of a document has one of four names.                *)
LEMMA UncheckedNamed ==
  \A d : Unchecked(d) \subseteq {"variant", "verb", "pattern", "group"}
<1> DEFINE names == {"variant", "verb", "pattern", "group"}
<1>1. \A pattern, capture : RegexLapse(pattern, capture) \subseteq names
  BY DEF RegexLapse
<1>2. \A verb : VerbLapse(verb) \subseteq names
  BY DEF VerbLapse
<1>3. \A w : Lapse(w) \subseteq names
  BY <1>1, <1>2 DEF Lapse
<1>4. \A v : Lapses(v) \subseteq names
  BY <1>3 DEF Lapses
<1>5. \A regex, coerce : TransformLapses(regex, coerce) \subseteq names
  BY <1>1, <1>2 DEF TransformLapses
<1> HIDE DEF names
<1>6. ASSUME NEW d PROVE Unchecked(d) \subseteq names
  <2> DEFINE ofValues == UNION {Lapses(v) : v \in Needed(d) \cup (Optional(d) \ {Blank})}
             ofTransforms == UNION {TransformLapses(w.regex, w.coerce) : w \in Transforms(d)}
             ofPagination == IF d.pagination.regex = "" THEN {} ELSE RegexLapse(d.pagination.regex, d.pagination.capture)
  <2>1. ofValues \subseteq names
    BY <1>4
  <2>2. ofTransforms \subseteq names
    BY <1>5
  <2>3. ofPagination \subseteq names
    BY <1>1
  <2>4. Unchecked(d) = (ofValues \cup ofTransforms) \cup ofPagination
    BY DEF Unchecked
  <2> HIDE DEF ofValues, ofTransforms, ofPagination
  <2> QED
    BY <2>1, <2>2, <2>3, <2>4
<1> QED
  BY <1>6 DEF names

(* What keeps an accepted document placed.                                 *)
LEMMA PlacedNext ==
  ASSUME Running, pc' \in Places, doc' = doc, drains' \in 0 .. MaxDrains - 1,
         DOMAIN snap' \subseteq DOMAIN doc.state, DOMAIN snap' \cap PerDrainScratchFields(doc) = {},
         req' \in 0 .. Len(doc.requests) + 1, pages' \in 0 .. MaxPages, fired' \in 0 .. MaxRefires,
         pending' \subseteq DOMAIN doc.state, pc' = "seed" => pending' \subseteq Seeded(doc), AcceptedRuns'
  PROVE  Placed'
<1>1. problem' \in {"none", "data", "root", "variant", "verb", "pattern", "group"}
  BY UncheckedNamed DEF AcceptedRuns
<1>2. TypeOK'
  <2>1. pending' \subseteq DOMAIN doc'.state /\ req' \in 0 .. Len(doc'.requests) + 1 /\ DOMAIN snap' \subseteq DOMAIN doc'.state
    OBVIOUS
  <2>2. pc' \in {"validate", "rejected", "seed", "wipe", "page", "chain", "items", "progress", "advance", "save", "stopped"}
    BY DEF Places
  <2> QED
    BY <1>1, <2>1, <2>2 DEF TypeOK
<1>3. doc' \in Documents /\ Accepts(doc')
  BY DEF Running
<1>4. pc' = "seed" => pending' \subseteq Seeded(doc')
  OBVIOUS
<1>5. DOMAIN snap' \cap PerDrainScratchFields(doc') = {}
  OBVIOUS
<1> QED
  BY <1>2, <1>3, <1>4, <1>5 DEF Placed

(* No step within a drain starts another one or writes the snapshot.       *)
LEMMA StaysPlaced ==
  ASSUME IInv, pc \in Places, pc' \in Places, pc' = "seed" => pc = "seed", UNCHANGED <<doc, drains, snap>>,
         req' \in 0 .. Len(doc.requests) + 1, pages' \in 0 .. MaxPages, fired' \in 0 .. MaxRefires,
         pending' \subseteq pending, AcceptedRuns'
  PROVE  Placed'
<1>1. Running
  BY DEF IInv, Placed, Running, Places
<1>2. /\ drains' \in 0 .. MaxDrains - 1 /\ DOMAIN snap' \subseteq DOMAIN doc.state
      /\ pending' \subseteq DOMAIN doc.state
  BY DEF IInv, Placed, TypeOK
<1>3. DOMAIN snap' \cap PerDrainScratchFields(doc) = {}
  BY DEF IInv, Placed
<1>4. pc' = "seed" => pending' \subseteq Seeded(doc)
  BY DEF IInv, Placed
<1> QED
  BY <1>1, <1>2, <1>3, <1>4, PlacedNext

(* The request after one of the chain, and one more than a number below a  *)
(* bound.                                                                   *)
LEMMA OneMore ==
  /\ \A n \in Nat : \A k \in 1 .. n : \A j : j = k + 1 \/ j = n + 1 => j \in 0 .. n + 1 /\ j # 0 /\ j # 1
  /\ \A n \in Nat : 0 \in 0 .. n
  /\ \A n \in Nat : \A k \in 0 .. n : k < n => k + 1 \in 0 .. n /\ k + 1 # 0
OBVIOUS

(* The bounds are numbers.                                                 *)
LEMMA Bounds ==
  MaxPages \in Nat /\ MaxRefires \in Nat /\ 0 \in 0 .. MaxPages /\ 0 \in 0 .. MaxRefires
BY BoundsAssumption

(* The step leaves the chain of this page, or ends the drain.              *)
LEMMA Leaves ==
  ASSUME IInv, pc \in Places, pc' \in {"progress", "advance", "page", "save", "stopped"},
         pc' \in {"progress", "advance", "page"} => pages # 0,
         UNCHANGED <<doc, req, pending, fired, pages, drains, snap>>,
         IsScope(scope'), scope'.binding = "", AcceptedRuns'
  PROVE  IInv'
<1>1. Placed'
  <2>1. pc' \in Places /\ pc' # "seed"
    BY DEF Places
  <2>2. /\ req' \in 0 .. Len(doc.requests) + 1 /\ pages' \in 0 .. MaxPages /\ fired' \in 0 .. MaxRefires
        /\ pending' \subseteq pending
    BY DEF IInv, Placed, TypeOK
  <2> QED
    BY <2>1, <2>2, StaysPlaced
<1>2. Bound'
  BY DEF Bound, FirstRequest
<1>3. Opening'
  BY DEF Opening, FirstRequest
<1> QED
  BY <1>1, <1>2, <1>3 DEF IInv

(* The step goes on with a later request of the chain.                     *)
LEMMA GoesOn ==
  ASSUME IInv, pc \in {"chain", "items"}, req \in DOMAIN doc.requests, pc' = "chain",
         req' = req + 1 \/ req' = Len(doc.requests) + 1, fired' = 0,
         UNCHANGED <<doc, pending, pages, drains, snap>>,
         IsScope(scope'), scope'.binding = "", scope'.body = Nil, scope'.headers = NothingBound, AcceptedRuns'
  PROVE  IInv'
<1>1. doc \in Documents /\ pages # 0
  BY DEF IInv, Placed, Opening
<1>2. Len(doc.requests) \in Nat /\ DOMAIN doc.requests = 1 .. Len(doc.requests)
  BY <1>1, Blocks, Elements
<1>3. req' \in 0 .. Len(doc.requests) + 1 /\ req' # 0 /\ req' # 1
  BY <1>2, OneMore, Zenon
<1>4. Placed'
  <2>1. pc \in Places /\ pc' \in Places /\ pc' # "seed"
    BY DEF Places
  <2>2. pages' \in 0 .. MaxPages /\ fired' \in 0 .. MaxRefires /\ pending' \subseteq pending
    BY Bounds, Zenon DEF IInv, Placed, TypeOK
  <2> QED
    BY <1>3, <2>1, <2>2, StaysPlaced
<1>5. Bound'
  BY <1>3 DEF Bound, FirstRequest
<1>6. Opening'
  BY <1>1, <1>3 DEF Opening, FirstRequest
<1> QED
  BY <1>4, <1>5, <1>6 DEF IInv

(* The step asks the same request again.                                   *)
LEMMA FiresAgain ==
  ASSUME IInv, InChain, ~R.fanOut.set, fired < MaxRefires, fired' = fired + 1,
         UNCHANGED <<doc, pc, req, pending, problem, pages, drains, snap>>, IsScope(scope'), scope'.binding = ""
  PROVE  IInv'
<1>1. pc = "chain" /\ req \in DOMAIN doc.requests
  BY DEF InChain
<1>2. fired' \in 0 .. MaxRefires /\ fired' # 0
  <2>1. fired \in 0 .. MaxRefires
    BY DEF IInv, Placed, TypeOK
  <2> QED
    BY <2>1, Bounds, OneMore, Zenon
<1>3. AcceptedRuns'
  BY SameProblem DEF IInv
<1>4. Placed'
  <2>1. pc \in Places /\ pc' \in Places /\ pc' # "seed"
    BY <1>1 DEF Places
  <2>2. pages' \in 0 .. MaxPages /\ req' \in 0 .. Len(doc.requests) + 1 /\ pending' \subseteq pending
    BY DEF IInv, Placed, TypeOK
  <2> QED
    BY <1>2, <1>3, <2>1, <2>2, StaysPlaced
<1>5. Bound'
  <2>1. req' # 0 /\ req' \in DOMAIN doc'.requests /\ ~R'.fanOut.set
    BY <1>1 DEF IInv, Bound, R
  <2> QED
    BY <1>1, <1>2, <2>1 DEF Bound, FirstRequest
<1>6. Opening'
  BY <1>1, <1>2 DEF IInv, Opening, FirstRequest
<1> QED
  BY <1>3, <1>4, <1>5, <1>6 DEF IInv

(* The step opens a fan-out, or goes on with its next item.                *)
LEMMA Itemizes ==
  ASSUME IInv, pc \in {"chain", "items"}, pc' = "items", req \in DOMAIN doc.requests, R.fanOut.set, fired = 0,
         UNCHANGED <<doc, req, pending, fired, pages, drains, snap>>,
         IsScope(scope'), scope'.binding = R.fanOut.as, scope'.body = Nil, scope'.headers = NothingBound, AcceptedRuns'
  PROVE  IInv'
<1>1. pages # 0
  BY DEF IInv, Opening
<1>2. Placed'
  <2>1. pc \in Places /\ pc' \in Places /\ pc' # "seed"
    BY DEF Places
  <2>2. /\ req' \in 0 .. Len(doc.requests) + 1 /\ pages' \in 0 .. MaxPages /\ fired' \in 0 .. MaxRefires
        /\ pending' \subseteq pending
    BY DEF IInv, Placed, TypeOK
  <2> QED
    BY <2>1, <2>2, StaysPlaced
<1>3. Bound'
  <2>1. req' \in DOMAIN doc'.requests /\ R'.fanOut.set /\ fired' = 0 /\ scope'.binding = R'.fanOut.as
    BY DEF R
  <2> QED
    BY <2>1 DEF Bound, FirstRequest
<1>4. Opening'
  BY <1>1 DEF Opening, FirstRequest
<1> QED
  BY <1>2, <1>3, <1>4 DEF IInv

(* The step fails, and with it the drain.                                  *)
LEMMA Fails ==
  ASSUME IInv, pc \in Places, NEW r, Permitted(r), ~r.ok, NEW next, next \in {"save", "stopped"}, Fail(r, next),
         IsScope(scope'), scope'.binding = ""
  PROVE  IInv'
<1>1. doc' = doc /\ problem' = First(Why(r)) /\ pc' = next
  BY DEF Fail
<1>2. AcceptedRuns'
  BY <1>1, FaultPermitted DEF IInv
<1>3. pc' \in {"progress", "advance", "page", "save", "stopped"} /\ pc' \notin {"progress", "advance", "page"}
  BY <1>1
<1>4. UNCHANGED <<doc, req, pending, fired, pages, drains, snap>>
  BY DEF Fail
<1> QED
  BY <1>2, <1>3, <1>4, Leaves

(* Where the chain is, the document was accepted and no alias is bound.    *)
LEMMA AtChain ==
  ASSUME IInv, InChain
  PROVE  /\ Running /\ pc = "chain" /\ pc \in Places /\ req \in DOMAIN doc.requests
         /\ IsScope(scope) /\ scope.binding = ""
         /\ (fired # 0 => ~R.fanOut.set)
         /\ (fired = 0 => scope.body = Nil /\ scope.headers = NothingBound)
BY DEF IInv, InChain, Placed, Bound, Running, Places

(* A gate that is open is not one that is closed.                          *)
LEMMA GatesDiffer == Ok(Bool(TRUE)) # Ok(Bool(FALSE)) /\ Ok(Bool(TRUE)).v.n = 1
<1>1. Bool(TRUE).n = 1 /\ Bool(FALSE).n = 0
  BY DEF Bool, Value
<1> DEFINE a == Bool(TRUE)
           b == Bool(FALSE)
<1>2. a.n = 1 /\ b.n = 0
  BY <1>1
<1> HIDE DEF a, b
<1>3. a # b
  BY <1>2
<1>4. Ok(a).v = a /\ Ok(b).v = b
  BY Outcomes
<1>5. Ok(a) # Ok(b)
  BY <1>3, <1>4
<1>6. Ok(a).v.n = 1
  BY <1>2, <1>4
<1> QED
  BY <1>5, <1>6 DEF a, b

(* The gate: the request is skipped, or the drain fails at it.             *)
LEMMA SkipKeeps ==
  ASSUME IInv, SkipRequest
  PROVE  IInv'
<1>1. InChain /\ Gate = Ok(Bool(FALSE)) /\ req' = req + 1
  BY DEF SkipRequest
<1>2. UNCHANGED <<doc, pc, pending, scope, fired, problem, pages, drains, snap>>
  BY DEF SkipRequest
<1>3. fired = 0
  <2>1. fired \in 0 .. MaxRefires
    BY DEF IInv, Placed, TypeOK
  <2>2. fired # 0 => fired > 0
    BY <2>1, Bounds
  <2>3. fired > 0 => Gate = Ok(Bool(TRUE))
    BY DEF Gate
  <2>4. Ok(Bool(TRUE)) # Ok(Bool(FALSE))
    BY GatesDiffer
  <2> QED
    BY <1>1, <2>2, <2>3, <2>4
<1>4. AcceptedRuns'
  BY <1>2, SameProblem DEF IInv
<1>5. /\ IsScope(scope') /\ scope'.binding = "" /\ scope'.body = Nil /\ scope'.headers = NothingBound
      /\ pc \in {"chain", "items"} /\ pc' = "chain" /\ fired' = 0 /\ req \in DOMAIN doc.requests
  BY <1>1, <1>2, <1>3, AtChain
<1> QED
  BY <1>1, <1>2, <1>4, <1>5, GoesOn

(* The gate itself cannot be evaluated.                                    *)
LEMMA GateFailsKeeps ==
  ASSUME IInv, GateFails
  PROVE  IInv'
<1>1. InChain /\ ~Gate.ok /\ Fail(Gate, "save") /\ scope' = scope
  BY DEF GateFails, EndsAtGate
<1>2. Permitted(Gate)
  BY <1>1, AtChain, GatePermitted
<1>3. pc \in Places /\ IsScope(scope') /\ scope'.binding = ""
  BY <1>1, AtChain
<1> QED
  BY <1>1, <1>2, <1>3, Fails

(* An answer, from the server or from the cache.                           *)
LEMMA ReceivedKeeps ==
  ASSUME IInv, InChain, ~R.fanOut.set, NEW kept, IsScope(kept), kept.binding = "", NEW resp, Received(kept, resp)
  PROVE  IInv'
<1> DEFINE seen == [kept EXCEPT !.body = resp.body, !.headers = resp.headers]
           done == Done(seen)
           x == RunExtracts(kept, resp.body, resp.headers, R.extract)
<1>0. Running /\ pc = "chain" /\ pc \in Places /\ req \in DOMAIN doc.requests
  BY AtChain
<1>1. Permitted(done)
  BY <1>0, DonePermitted
<1>2. Fields(seen, kept.state, kept.cache, resp.body, resp.headers, kept.binding)
  BY ScopeWith
<1>3. Permitted(x.r) /\ SameElse(kept, x.s)
  BY <1>0, ExtractsPermitted
<1>4. \/ ~done.ok /\ Fail(done, "save") /\ scope' = kept
      \/ CloseStep(x, resp)
      \/ /\ fired < MaxRefires /\ fired' = fired + 1 /\ scope' = seen
         /\ UNCHANGED <<doc, pc, req, pending, problem, pages, drains, snap>>
  BY DEF Received, Answered
<1> HIDE DEF seen, done, x
<1>5. CASE ~done.ok /\ Fail(done, "save") /\ scope' = kept
  BY <1>0, <1>1, <1>5, Fails
<1>6. CASE CloseStep(x, resp)
  <2>1. IsScope(x.s) /\ x.s.binding = ""
    BY <1>3 DEF SameElse
  <2>2. CASE ~x.r.ok
    <3>1. Fail(x.r, "save") /\ scope' = x.s
      BY <1>6, <2>2 DEF CloseStep
    <3> QED
      BY <1>0, <1>3, <2>1, <2>2, <3>1, Fails
  <2>3. CASE x.r.ok
    <3> DEFINE t == Labelled(x.s, R.id, resp.body, resp.headers)
    <3>1. scope' = NextRequest(t) /\ req' = req + 1 /\ fired' = 0
      BY <1>6, <2>3 DEF CloseStep
    <3>2. UNCHANGED <<doc, pc, pending, problem, pages, drains, snap>>
      BY <1>6, <2>3 DEF CloseStep
    <3>a. Fields(t, x.s.state, x.s.cache, x.s.body, x.s.headers, x.s.binding)
      BY <2>1, LabelledFields
    <3>3. IsScope(t) /\ t.binding = ""
      BY <2>1, <3>a DEF Fields
    <3> HIDE DEF t
    <3>4. Fields(NextRequest(t), t.state, t.cache, Nil, NothingBound, t.binding)
      BY <3>3, ScopeWith
    <3>5. IsScope(scope') /\ scope'.binding = "" /\ scope'.body = Nil /\ scope'.headers = NothingBound
      BY <3>1, <3>3, <3>4 DEF Fields
    <3>6. AcceptedRuns'
      BY <3>2, SameProblem DEF IInv
    <3>7. pc \in {"chain", "items"} /\ pc' = "chain"
      BY <1>0, <3>2
    <3> QED
      BY <1>0, <3>1, <3>2, <3>5, <3>6, <3>7, GoesOn
  <2> QED
    BY <2>2, <2>3
<1>7. CASE /\ fired < MaxRefires /\ fired' = fired + 1 /\ scope' = seen
           /\ UNCHANGED <<doc, pc, req, pending, problem, pages, drains, snap>>
  <2>1. IsScope(scope') /\ scope'.binding = ""
    BY <1>2, <1>7 DEF Fields
  <2> QED
    BY <1>7, <2>1, FiresAgain
<1> QED
  BY <1>4, <1>5, <1>6, <1>7

(* An entry that is still there is used instead of an exchange.            *)
LEMMA ReuseCachedKeeps ==
  ASSUME IInv, ReuseCached
  PROVE  IInv'
<1>1. InChain /\ ~R.fanOut.set /\ Received(scope, Cached(scope, R))
  BY DEF ReuseCached
<1>2. IsScope(scope) /\ scope.binding = ""
  BY <1>1, AtChain
<1> QED
  BY <1>1, <1>2, ReceivedKeeps

(* The exchange: an answer, or a failure that ends the drain or, in warn   *)
(* mode, the iteration's chain.                                             *)
LEMMA ExchangeKeeps ==
  ASSUME IInv, NEW resp, NEW token, Exchange(resp, token)
  PROVE  IInv'
<1> DEFINE sent == ExecuteRequest(scope, R, resp, token)
<1>1. InChain /\ ~R.fanOut.set /\ Sent(sent, resp)
  BY DEF Exchange
<1>2. /\ Running /\ pc = "chain" /\ pc \in Places /\ req \in DOMAIN doc.requests
      /\ IsScope(scope) /\ scope.binding = ""
  BY <1>1, AtChain
<1>3. Permitted(sent)
  BY <1>1, <1>2, ExchangePermitted
<1> HIDE DEF sent
<1>4. CASE sent.ok
  <2>1. Received(Keep(resp), resp)
    BY <1>1, <1>4 DEF Sent
  <2>2. IsScope(Keep(resp)) /\ Keep(resp).binding = ""
    <3> DEFINE x == With(scope.cache, R.cache.to[2], resp.body)
    <3>1. Fields([scope EXCEPT !.cache = x], scope.state, x, scope.body, scope.headers, scope.binding)
      BY <1>2, OneField
    <3>2. Keep(resp) = IF R.cache.set THEN [scope EXCEPT !.cache = x] ELSE scope
      BY DEF Keep
    <3> HIDE DEF x
    <3> QED
      BY <1>2, <3>1, <3>2 DEF Fields
  <2> HIDE DEF Keep
  <2> QED
    BY <1>1, <2>1, <2>2, ReceivedKeeps
<1>5. CASE ~sent.ok
  <2>1. ExchangeFails(sent)
    BY <1>1, <1>5 DEF Sent
  <2>2. CASE doc.error # "warn"
    <3>1. Fail(sent, "save") /\ scope' = scope
      BY <2>1, <2>2 DEF ExchangeFails
    <3> QED
      BY <1>2, <1>3, <1>5, <3>1, Fails
  <2>3. CASE doc.error = "warn"
    <3>1. /\ problem' = First(Why(sent)) /\ req' = Len(doc.requests) + 1 /\ fired' = 0
          /\ scope' = NextRequest(scope)
      BY <2>1, <2>3 DEF ExchangeFails
    <3>2. UNCHANGED <<doc, pc, pending, pages, drains, snap>>
      BY <2>1, <2>3 DEF ExchangeFails
    <3>3. Fields(NextRequest(scope), scope.state, scope.cache, Nil, NothingBound, scope.binding)
      BY <1>2, ScopeWith
    <3>4. IsScope(scope') /\ scope'.binding = "" /\ scope'.body = Nil /\ scope'.headers = NothingBound
      BY <1>2, <3>1, <3>3 DEF Fields
    <3>5. AcceptedRuns'
      BY <1>3, <1>5, <3>1, <3>2, FaultPermitted DEF IInv
    <3>6. pc \in {"chain", "items"} /\ pc' = "chain"
      BY <1>2, <3>2
    <3> QED
      BY <1>2, <3>1, <3>2, <3>4, <3>5, <3>6, GoesOn
  <2> QED
    BY <2>2, <2>3
<1> QED
  BY <1>4, <1>5

(* The list of a fan-out.                                                  *)
LEMMA OpenFanOutKeeps ==
  ASSUME IInv, OpenFanOut
  PROVE  IInv'
<1> DEFINE list == Then(Eval(scope, R.fanOut.over), CoerceFanOutList)
<1>1. InChain /\ R.fanOut.set /\ FanOver(list)
  BY DEF OpenFanOut
<1>2. /\ Running /\ pc = "chain" /\ pc \in Places /\ req \in DOMAIN doc.requests
      /\ IsScope(scope) /\ scope.binding = "" /\ fired = 0 /\ scope.body = Nil /\ scope.headers = NothingBound
  BY <1>1, AtChain
<1>3. Permitted(list)
  BY <1>1, <1>2, OverPermitted
<1> HIDE DEF list
<1>4. CASE ~list.ok
  <2>1. Fail(list, "save") /\ scope' = scope
    BY <1>1, <1>4 DEF FanOver
  <2> QED
    BY <1>2, <1>3, <1>4, <2>1, Fails
<1>5. CASE list.ok
  <2> DEFINE t == [scope EXCEPT !.binding = R.fanOut.as]
  <2>1. pc' = "items" /\ scope' = t
    BY <1>1, <1>5 DEF FanOver
  <2>2. UNCHANGED <<doc, req, pending, fired, problem, pages, drains, snap>>
    BY <1>1, <1>5 DEF FanOver
  <2>3. Fields(t, scope.state, scope.cache, scope.body, scope.headers, R.fanOut.as)
    BY <1>2, OneField
  <2> HIDE DEF t
  <2>4. IsScope(scope') /\ scope'.binding = R.fanOut.as /\ scope'.body = Nil /\ scope'.headers = NothingBound
    BY <1>2, <2>1, <2>3 DEF Fields
  <2>5. AcceptedRuns'
    BY <2>2, SameProblem DEF IInv
  <2>6. pc \in {"chain", "items"}
    BY <1>2
  <2> QED
    BY <1>1, <1>2, <2>1, <2>2, <2>4, <2>5, <2>6, Itemizes
<1> QED
  BY <1>4, <1>5

(* Among the items of a fan-out, its alias is bound.                       *)
LEMMA AtItems ==
  ASSUME IInv, pc = "items"
  PROVE  /\ Running /\ pc \in Places /\ pc \in {"chain", "items"} /\ req \in DOMAIN doc.requests
         /\ R.fanOut.set /\ fired = 0 /\ IsScope(scope) /\ scope.binding = R.fanOut.as
         /\ scope.body = Nil /\ scope.headers = NothingBound
BY DEF IInv, Placed, Bound, Running, Places

(* One item: an answer, one passed over in warn mode, or the end.          *)
LEMMA ExchangeItemKeeps ==
  ASSUME IInv, NEW resp, NEW token, ExchangeItem(resp, token)
  PROVE  IInv'
<1> DEFINE s == [scope EXCEPT !.item = Head(items)]
           sent == ExecuteRequest(s, R, resp, token)
           x == RunExtracts(s, resp.body, resp.headers, R.extract)
<1>1. pc = "items" /\ ItemSent(s, sent, resp)
  BY DEF ExchangeItem, RequestItem
<1>2. /\ Running /\ pc \in Places /\ pc \in {"chain", "items"} /\ req \in DOMAIN doc.requests
      /\ R.fanOut.set /\ fired = 0 /\ IsScope(scope) /\ scope.binding = R.fanOut.as
      /\ scope.body = Nil /\ scope.headers = NothingBound
  BY <1>1, AtItems
<1>a. Fields(s, scope.state, scope.cache, scope.body, scope.headers, scope.binding)
  BY <1>2, OneField
<1>3. IsScope(s) /\ s.binding = R.fanOut.as /\ s.body = Nil /\ s.headers = NothingBound
  BY <1>2, <1>a DEF Fields
<1>b. s.binding = IF R.fanOut.set THEN R.fanOut.as ELSE ""
  BY <1>2, <1>3
<1> HIDE DEF s
<1>4. Permitted(sent)
  BY <1>2, <1>3, <1>b, ExchangePermitted
<1>5. Permitted(x.r) /\ SameElse(s, x.s)
  BY <1>2, <1>3, ExtractsPermitted
<1>6. sent.ok => CloseItem(x, resp)
  BY <1>1 DEF ItemSent
<1>7. ~sent.ok => IF doc.error = "warn"
                  THEN /\ problem' = First(Why(sent)) /\ scope' = s
                       /\ UNCHANGED <<doc, pc, req, pending, fired, pages, drains, snap>>
                  ELSE Fail(sent, "save") /\ scope' = Unaliased(s)
  BY <1>1 DEF ItemSent
<1> HIDE DEF sent, x
<1>8. ASSUME NEW t, IsScope(t) PROVE IsScope(Unaliased(t)) /\ Unaliased(t).binding = ""
  <2>1. Fields(Unaliased(t), t.state, t.cache, t.body, t.headers, "")
    BY <1>8, ScopeWith
  <2> QED
    BY <2>1 DEF Fields
<1> HIDE DEF Unaliased
<1>9. CASE sent.ok
  <2>1. IsScope(x.s) /\ x.s.binding = R.fanOut.as /\ x.s.body = Nil /\ x.s.headers = NothingBound
    BY <1>3, <1>5 DEF SameElse
  <2>2. CASE ~x.r.ok
    <3>1. Fail(x.r, "save") /\ scope' = Unaliased(x.s)
      BY <1>6, <1>9, <2>2 DEF CloseItem
    <3>2. IsScope(scope') /\ scope'.binding = ""
      BY <1>8, <2>1, <3>1
    <3> QED
      BY <1>2, <1>5, <2>2, <3>1, <3>2, Fails
  <2>3. CASE x.r.ok
    <3>1. scope' = x.s /\ UNCHANGED <<doc, pc, req, pending, fired, problem, pages, drains, snap>>
      BY <1>6, <1>9, <2>3 DEF CloseItem
    <3>2. IsScope(scope') /\ scope'.binding = R.fanOut.as /\ scope'.body = Nil /\ scope'.headers = NothingBound
      BY <2>1, <3>1
    <3>3. AcceptedRuns'
      BY <3>1, SameProblem DEF IInv
    <3>4. pc' = "items"
      BY <1>1, <3>1
    <3> QED
      BY <1>2, <3>1, <3>2, <3>3, <3>4, Itemizes
  <2> QED
    BY <2>2, <2>3
<1>10. CASE ~sent.ok /\ doc.error = "warn"
  <2>1. /\ problem' = First(Why(sent)) /\ scope' = s
        /\ UNCHANGED <<doc, pc, req, pending, fired, pages, drains, snap>>
    BY <1>7, <1>10
  <2>2. AcceptedRuns'
    BY <1>4, <1>10, <2>1, FaultPermitted DEF IInv
  <2>3. IsScope(scope') /\ scope'.binding = R.fanOut.as /\ scope'.body = Nil /\ scope'.headers = NothingBound
    BY <1>3, <2>1
  <2>4. pc' = "items"
    BY <1>1, <2>1
  <2> QED
    BY <1>2, <2>1, <2>2, <2>3, <2>4, Itemizes
<1>11. CASE ~sent.ok /\ doc.error # "warn"
  <2>1. Fail(sent, "save") /\ scope' = Unaliased(s)
    BY <1>7, <1>11
  <2>2. IsScope(scope') /\ scope'.binding = ""
    BY <1>3, <1>8, <2>1
  <2> QED
    BY <1>2, <1>4, <1>11, <2>1, <2>2, Fails
<1> QED
  BY <1>9, <1>10, <1>11

(* The bodies of the items are merged.                                     *)
LEMMA CloseFanOutKeeps ==
  ASSUME IInv, CloseFanOut
  PROVE  IInv'
<1> DEFINE merged == MergeFanOutBodies(R.fanOut.merge, [k \in DOMAIN bodies |-> bodies[k].body])
           headers == IF bodies = << >> THEN NothingBound ELSE Last(bodies).headers
           u == Unaliased(scope)
           t == Labelled(u, R.id, merged.v, headers)
<1>1. /\ pc = "items"
      /\ IF ~merged.ok THEN Fail(merged, "save") /\ scope' = u
         ELSE /\ scope' = t /\ pc' = "chain" /\ req' = req + 1
              /\ UNCHANGED <<doc, pending, fired, problem, pages, drains, snap>>
  BY DEF CloseFanOut
<1>2. /\ Running /\ pc \in Places /\ pc \in {"chain", "items"} /\ req \in DOMAIN doc.requests
      /\ R.fanOut.set /\ fired = 0 /\ IsScope(scope)
      /\ scope.body = Nil /\ scope.headers = NothingBound
  BY <1>1, AtItems
<1>3. Permitted(merged)
  BY <1>2, MergePermitted
<1>4. Fields(u, scope.state, scope.cache, scope.body, scope.headers, "")
  BY <1>2, ScopeWith
<1>5. IsScope(u) /\ u.binding = "" /\ u.body = Nil /\ u.headers = NothingBound
  BY <1>2, <1>4 DEF Fields
<1> HIDE DEF merged, headers, u
<1>6. Fields(t, u.state, u.cache, u.body, u.headers, u.binding)
  BY <1>5, LabelledFields
<1>7. IsScope(t) /\ t.binding = "" /\ t.body = Nil /\ t.headers = NothingBound
  BY <1>5, <1>6 DEF Fields
<1> HIDE DEF t
<1>8. CASE ~merged.ok
  <2>1. Fail(merged, "save") /\ IsScope(scope') /\ scope'.binding = ""
    BY <1>1, <1>5, <1>8
  <2> QED
    BY <1>2, <1>3, <1>8, <2>1, Fails
<1>9. CASE merged.ok
  <2>1. /\ scope' = t /\ pc' = "chain" /\ req' = req + 1
        /\ UNCHANGED <<doc, pending, fired, problem, pages, drains, snap>>
    BY <1>1, <1>9
  <2>2. IsScope(scope') /\ scope'.binding = "" /\ scope'.body = Nil /\ scope'.headers = NothingBound
    BY <1>7, <2>1
  <2>3. AcceptedRuns'
    BY <2>1, SameProblem DEF IInv
  <2>4. fired' = 0
    BY <1>2, <2>1
  <2> QED
    BY <1>2, <2>1, <2>2, <2>3, <2>4, GoesOn
<1> QED
  BY <1>8, <1>9

(* The events of the page are bound with its body and headers.             *)
LEMMA BindPageKeeps ==
  ASSUME IInv, BindPage
  PROVE  IInv'
<1> DEFINE events == PageEvents(doc.requests[Producer])
           t == [scope EXCEPT !.body = page.body, !.headers = page.headers, !.events = events.v]
<1>1. /\ pc = "chain"
      /\ IF ~events.ok THEN Fail(events, "save") /\ scope' = scope
         ELSE /\ scope' = t /\ pc' = IF page.ran THEN "progress" ELSE "advance"
              /\ UNCHANGED <<doc, req, pending, fired, problem, pages, drains, snap>>
  BY DEF BindPage, Bind
<1>2. Running /\ pc \in Places /\ IsScope(scope) /\ scope.binding = "" /\ pages # 0
  BY <1>1 DEF IInv, Placed, Bound, Opening, Running, Places
<1>3. Permitted(events)
  BY <1>2, PageEventsPermitted
<1>4. Fields(t, scope.state, scope.cache, page.body, page.headers, scope.binding)
  BY <1>2, ScopeWith
<1>5. IsScope(t) /\ t.binding = ""
  BY <1>2, <1>4 DEF Fields
<1> HIDE DEF events, t
<1>6. CASE ~events.ok
  <2>1. Fail(events, "save") /\ scope' = scope
    BY <1>1, <1>6
  <2> QED
    BY <1>2, <1>3, <1>6, <2>1, Fails
<1>7. CASE events.ok
  <2>1. /\ scope' = t /\ (pc' = "progress" \/ pc' = "advance")
        /\ UNCHANGED <<doc, req, pending, fired, problem, pages, drains, snap>>
    BY <1>1, <1>7
  <2>2. AcceptedRuns'
    BY <2>1, SameProblem DEF IInv
  <2>3. pc' \in {"progress", "advance", "page", "save", "stopped"} /\ IsScope(scope') /\ scope'.binding = ""
    BY <1>5, <2>1
  <2> QED
    BY <1>2, <2>1, <2>2, <2>3, Leaves
<1> QED
  BY <1>6, <1>7

(* Writes that were all evaluated are made to fields.                      *)
LEMMA WriteAllKeeps ==
  ASSUME IInv, pc \in {"progress", "advance"}, NEW vals, Permitted(vals), NEW tos, NEW next, next \in {"advance", "page"},
         \A k \in DOMAIN tos : StateField(tos[k]) # {}, WriteAll(vals, tos, next)
  PROVE  IInv'
<1>1. pc \in Places /\ IsScope(scope) /\ scope.binding = "" /\ pages # 0
  BY DEF IInv, Bound, Opening, Places
<1>2. CASE ~vals.ok
  <2>1. Fail(vals, "save") /\ scope' = scope
    BY <1>2 DEF WriteAll
  <2> QED
    BY <1>1, <1>2, <2>1, Fails
<1>3. CASE vals.ok
  <2>1. /\ scope' = Commit(scope, tos, vals.v.e) /\ pc' = next
        /\ UNCHANGED <<doc, req, pending, fired, problem, pages, drains, snap>>
    BY <1>3 DEF WriteAll
  <2>2. IsScope(scope') /\ scope'.binding = ""
    <3> DEFINE x == FoldLeft(LAMBDA state, k : With(state, tos[k][2], vals.v.e[k]), scope.state, [k \in DOMAIN tos |-> k])
    <3>1. Commit(scope, tos, vals.v.e) = [scope EXCEPT !.state = x]
      BY DEF Commit
    <3> HIDE DEF x
    <3>2. Fields([scope EXCEPT !.state = x], x, scope.cache, scope.body, scope.headers, scope.binding)
      BY <1>1, OneField
    <3> QED
      BY <1>1, <2>1, <3>1, <3>2 DEF Fields
  <2>3. AcceptedRuns'
    BY <2>1, SameProblem DEF IInv
  <2>4. pc' \in {"progress", "advance", "page", "save", "stopped"}
    BY <2>1
  <2> QED
    BY <1>1, <2>1, <2>2, <2>3, <2>4, Leaves
<1> QED
  BY <1>2, <1>3

(* Past the chain no alias is bound.                                       *)
LEMMA PastChain ==
  ASSUME IInv, pc \in {"progress", "advance"}
  PROVE  Running /\ pc \in Places /\ IsScope(scope) /\ scope.binding = ""
BY DEF IInv, Placed, Bound, Running, Places

(* The progress of the page.                                               *)
LEMMA ApplyProgressKeeps ==
  ASSUME IInv, ApplyProgress
  PROVE  IInv'
<1> DEFINE vals == InOrder(Staged(scope, doc.progress))
           tos == [k \in DOMAIN doc.progress |-> doc.progress[k].to]
<1>1. pc = "progress" /\ WriteAll(vals, tos, "advance")
  BY DEF ApplyProgress, Write
<1>2. pc \in {"progress", "advance"} /\ Running
  BY <1>1, PastChain
<1>3. Permitted(vals) /\ \A k \in DOMAIN doc.progress : StateField(doc.progress[k].to) # {}
  BY <1>2, ProgressPermitted
<1>4. \A k \in DOMAIN tos : StateField(tos[k]) # {}
  BY <1>3
<1> HIDE DEF vals, tos
<1>5. "advance" \in {"advance", "page"}
  OBVIOUS
<1> QED
  BY <1>1, <1>2, <1>3, <1>4, <1>5, WriteAllKeeps

(* The pagination ends, or writes where the next page starts.              *)
LEMMA AdvancePaginationKeeps ==
  ASSUME IInv, AdvancePagination
  PROVE  IInv'
<1> DEFINE p == doc.pagination
           operand == Operand(scope, p)
           ends == Ends(scope, p, operand)
           one == InOrder(<<Upcoming(scope, p, operand)>>)
           all == InOrder(Staged(scope, p.advance))
           tos == [k \in DOMAIN p.advance |-> p.advance[k].to]
<1>1. pc = "advance" /\ AdvanceUnless(ends, p, operand)
  BY DEF AdvancePagination, Advance
<1>2. /\ pc \in {"progress", "advance"} /\ Running /\ pc \in Places /\ IsScope(scope) /\ scope.binding = ""
  BY <1>1, PastChain
<1>3. Permitted(ends)
  BY <1>2, EndsPermitted
<1>4. \/ ~ends.ok /\ Fail(ends, "save") /\ scope' = scope
      \/ pc' = "save" /\ UNCHANGED <<doc, req, pending, scope, fired, problem, pages, drains, snap>>
      \/ ends.ok /\ ends.v.n # 1 /\ "custom" \in p.variants /\ WriteAll(all, tos, "page")
      \/ ends.ok /\ ends.v.n # 1 /\ "custom" \notin p.variants /\ WriteAll(one, <<p.to>>, "page")
  BY <1>1 DEF AdvanceUnless, Write
<1>5. CASE ~ends.ok /\ Fail(ends, "save") /\ scope' = scope
  <2> HIDE DEF ends
  <2> QED
    BY <1>2, <1>3, <1>5, Fails
<1>6. CASE pc' = "save" /\ UNCHANGED <<doc, req, pending, scope, fired, problem, pages, drains, snap>>
  <2>1. AcceptedRuns'
    BY <1>6, SameProblem DEF IInv
  <2>2. pc' \in {"progress", "advance", "page", "save", "stopped"} /\ pc' \notin {"progress", "advance", "page"}
    BY <1>6
  <2> QED
    BY <1>2, <1>6, <2>1, <2>2, Leaves
<1>7. ASSUME ends.ok, ends.v.n # 1 PROVE p.variants # {"none"}
  <2> SUFFICES ASSUME p.variants = {"none"} PROVE FALSE
    OBVIOUS
  <2>1. ends = Ok(Bool(TRUE))
    BY DEF Ends
  <2>2. ends.v.n = 1
    BY <2>1, GatesDiffer
  <2> QED
    BY <1>7, <2>2
<1>8. CASE ends.ok /\ ends.v.n # 1 /\ "custom" \in p.variants /\ WriteAll(all, tos, "page")
  <2>1. p.variants = {"custom"}
    BY <1>2, <1>8, PaginationKinds DEF HasOperand, FromResponse
  <2>2. Permitted(all) /\ \A k \in DOMAIN p.advance : StateField(p.advance[k].to) # {}
    BY <1>2, <2>1, AdvancePermitted
  <2>3. \A k \in DOMAIN tos : StateField(tos[k]) # {}
    BY <2>2
  <2> HIDE DEF all, tos
  <2>4. "page" \in {"advance", "page"}
    OBVIOUS
  <2> QED
    BY <1>2, <1>8, <2>2, <2>3, <2>4, WriteAllKeeps
<1>9. CASE ends.ok /\ ends.v.n # 1 /\ "custom" \notin p.variants /\ WriteAll(one, <<p.to>>, "page")
  <2>1. p.variants # {"none"} /\ p.variants # {"custom"}
    BY <1>7, <1>9
  <2>2. HasOperand
    BY <1>2, <2>1, PaginationKinds
  <2>3. Permitted(one)
    BY <1>2, <2>2, UpcomingPermitted
  <2>4. StateField(p.to) # {}
    BY <1>2, <2>2, AdvancePermitted
  <2> DEFINE only == <<p.to>>
  <2> HIDE DEF one, p
  <2>5. \A k \in DOMAIN only : StateField(only[k]) # {}
    BY <2>4
  <2> HIDE DEF only
  <2>6. "page" \in {"advance", "page"}
    OBVIOUS
  <2>7. WriteAll(one, only, "page")
    BY <1>9 DEF only
  <2> QED
    BY <1>2, <2>3, <2>5, <2>6, <2>7, WriteAllKeeps
<1> QED
  BY <1>4, <1>5, <1>6, <1>8, <1>9
-----------------------------------------------------------------------------
(* The opening of a drain, step by step, and its end.                      *)

(* In the places of a drain the document was accepted.                     *)
LEMMA AtPlace ==
  ASSUME IInv, pc \in Places
  PROVE  Running /\ IsScope(scope) /\ (pc # "items" => scope.binding = "")
BY DEF IInv, Placed, Bound, Running, Places

(* What pagination writes is declared, and what is seeded is, too.         *)
LEMMA DeclaredFields ==
  ASSUME Running
  PROVE  PerDrainScratchFields(doc) \subseteq DOMAIN doc.state /\ Seeded(doc) \subseteq DOMAIN doc.state
<1>1. ASSUME NEW name \in PerDrainScratchFields(doc) PROVE name \in DOMAIN doc.state
  <2>1. PICK to \in PaginationTos(doc) : name \in StateField(to)
    BY DEF PerDrainScratchFields
  <2> QED
    BY <2>1, DestinationIsField
<1> QED
  BY <1>1 DEF Seeded

(* Another state leaves a scope one with nothing but a state.              *)
LEMMA OnlyStateWith ==
  ASSUME NEW s, OnlyState(s), NEW x
  PROVE  /\ OnlyState([s EXCEPT !.state = x]) /\ [s EXCEPT !.state = x].state = x
         /\ IsScope([s EXCEPT !.state = x]) /\ [s EXCEPT !.state = x].binding = ""
         /\ ButState(s, EmptyScope)
<1>1. s = [EmptyScope EXCEPT !.state = s.state]
  BY DEF OnlyState
<1>2. Fields(EmptyScope, NothingBound, NothingBound, Nil, NothingBound, "")
  BY NewScopes
<1>3. IsScope(EmptyScope)
  BY <1>2 DEF Fields
<1>4. Fields(s, s.state, EmptyScope.cache, EmptyScope.body, EmptyScope.headers, EmptyScope.binding)
  BY <1>1, <1>3, OneField
<1>5. IsScope(s) /\ s.binding = ""
  BY <1>2, <1>4 DEF Fields
<1>6. Fields([s EXCEPT !.state = x], x, s.cache, s.body, s.headers, s.binding)
  BY <1>5, OneField
<1>7. [s EXCEPT !.state = x].state = x /\ IsScope([s EXCEPT !.state = x]) /\ [s EXCEPT !.state = x].binding = ""
  BY <1>5, <1>6 DEF Fields
<1>8. OnlyState([s EXCEPT !.state = x])
  <2>1. [s EXCEPT !.state = x] = [EmptyScope EXCEPT !.state = x]
    BY <1>1, <1>3 DEF IsScope
  <2> QED
    BY <1>7, <2>1 DEF OnlyState
<1>9. ButState(s, EmptyScope)
  BY <1>1, <1>3 DEF IsScope, ButState
<1> QED
  BY <1>7, <1>8, <1>9

(* A document is accepted.                                                 *)
LEMMA AcceptKeeps ==
  ASSUME IInv, Accept
  PROVE  IInv'
<1>1. /\ pc = "validate" /\ Accepts(doc) /\ pc' = "seed" /\ pending' = Seeded(doc)
      /\ UNCHANGED <<doc, req, scope, items, bodies, fired, page, problem, pages, drains, snap>>
  BY DEF Accept
<1>2. Running
  BY <1>1 DEF IInv, Placed, Running
<1>3. AcceptedRuns'
  BY <1>1, SameProblem DEF IInv
<1>4. Placed'
  <2>1. pending' \subseteq DOMAIN doc.state
    BY <1>1, <1>2, DeclaredFields
  <2>2. /\ drains' \in 0 .. MaxDrains - 1 /\ DOMAIN snap' \subseteq DOMAIN doc.state
        /\ req' \in 0 .. Len(doc.requests) + 1 /\ pages' \in 0 .. MaxPages /\ fired' \in 0 .. MaxRefires
        /\ DOMAIN snap' \cap PerDrainScratchFields(doc) = {}
    BY <1>1 DEF IInv, Placed, TypeOK
  <2>3. pc' \in Places
    BY <1>1 DEF Places
  <2> QED
    BY <1>1, <1>2, <1>3, <2>1, <2>2, <2>3, PlacedNext
<1>5. Bound'
  BY <1>1 DEF IInv, Bound, FirstRequest
<1>6. Opening'
  BY <1>1 DEF IInv, Opening, FirstRequest
<1> QED
  BY <1>3, <1>4, <1>5, <1>6 DEF IInv

(* A document is rejected.                                                 *)
LEMMA RejectKeeps ==
  ASSUME IInv, Reject
  PROVE  IInv'
<1>1. /\ pc = "validate" /\ pc' = "rejected"
      /\ UNCHANGED <<doc, req, pending, scope, items, bodies, fired, page, problem, pages, drains, snap>>
  BY DEF Reject
<1>2. AcceptedRuns'
  BY <1>1, SameProblem DEF IInv
<1>3. TypeOK'
  BY <1>1 DEF IInv, Placed, TypeOK
<1>4. Placed'
  BY <1>1, <1>3 DEF IInv, Placed
<1>5. Bound'
  BY <1>1 DEF IInv, Bound, FirstRequest
<1>6. Opening'
  BY <1>1 DEF IInv, Opening, FirstRequest
<1> QED
  BY <1>2, <1>4, <1>5, <1>6 DEF IInv

(* What is common to the steps that seed and wipe fields one by one: the   *)
(* state changes, and one field is done.                                    *)
LEMMA FieldDone ==
  ASSUME IInv, pc \in {"seed", "wipe"}, pending' \subseteq pending, NEW state, scope' = [scope EXCEPT !.state = state],
         UNCHANGED <<doc, pc, req, fired, problem, pages, drains, snap>>,
         pc = "wipe" => /\ Kept(state, snap)
                        /\ \A name \in PerDrainScratchFields(doc) \ pending' : StartsOver(doc, state, name)
  PROVE  IInv'
<1>1. pc \in Places /\ pages = 0 /\ OnlyState(scope)
  BY DEF IInv, Opening, Places
<1>2. OnlyState(scope') /\ scope'.state = state /\ IsScope(scope') /\ scope'.binding = ""
  BY <1>1, OnlyStateWith
<1>3. AcceptedRuns'
  BY SameProblem DEF IInv
<1>4. Placed'
  <2>1. req' \in 0 .. Len(doc.requests) + 1 /\ pages' \in 0 .. MaxPages /\ fired' \in 0 .. MaxRefires
    BY DEF IInv, Placed, TypeOK
  <2> QED
    BY <1>1, <1>3, <2>1, StaysPlaced
<1>5. Bound'
  BY <1>2 DEF Bound, FirstRequest
<1>6. Opening'
  <2>1. pc' = "wipe" => pending' \subseteq PerDrainScratchFields(doc') /\ Kept(scope'.state, snap')
    BY <1>2 DEF IInv, Opening
  <2>2. pc' = "wipe" =>
          \A name \in PerDrainScratchFields(doc') \ pending' : StartsOver(doc', scope'.state, name)
    BY <1>2
  <2> QED
    BY <1>1, <1>2, <2>1, <2>2 DEF Opening, FirstRequest
<1> QED
  BY <1>3, <1>4, <1>5, <1>6 DEF IInv

(* A field gets its default, or that cannot be evaluated and ends the      *)
(* drain.                                                                   *)
LEMMA SeedFieldKeeps ==
  ASSUME IInv, NEW name, SeedField(name)
  PROVE  IInv'
<1> DEFINE r == Default(name)
<1>1. pc = "seed" /\ name \in pending /\ Seed(name, r)
  BY DEF SeedField
<1>2. /\ Running /\ pc \in Places /\ IsScope(scope) /\ scope.binding = "" /\ name \in Seeded(doc)
      /\ pc \in {"seed", "wipe"}
  BY <1>1 DEF IInv, Placed, Bound, Running, Places
<1>3. Permitted(r)
  BY <1>2, DefaultPermitted DEF Default
<1> HIDE DEF r
<1>4. CASE r.ok
  <2> DEFINE state == With(scope.state, name, r.v)
  <2>1. /\ scope' = [scope EXCEPT !.state = state] /\ pending' = pending \ {name}
        /\ UNCHANGED <<doc, pc, req, fired, problem, pages, drains, snap>>
    BY <1>1, <1>4 DEF Seed
  <2> HIDE DEF state
  <2>2. pending' \subseteq pending
    BY <2>1
  <2> QED
    BY <1>1, <1>2, <2>1, <2>2, FieldDone
<1>5. CASE ~r.ok
  <2>1. Fail(r, "stopped") /\ scope' = scope
    BY <1>1, <1>5 DEF Seed
  <2>2. IsScope(scope') /\ scope'.binding = ""
    BY <1>2, <2>1
  <2> QED
    BY <1>2, <1>3, <1>5, <2>1, <2>2, Fails
<1> QED
  BY <1>4, <1>5

(* The snapshot is laid over the defaults: it is kept.                     *)
LEMMA OpenScopeKeeps ==
  ASSUME IInv, OpenScope
  PROVE  IInv'
<1> DEFINE state == Laid(snap, scope.state)
<1>1. /\ pc = "seed" /\ scope' = [scope EXCEPT !.state = state] /\ pc' = "wipe"
      /\ pending' = PerDrainScratchFields(doc)
      /\ UNCHANGED <<doc, req, fired, problem, pages, drains, snap>>
  BY DEF OpenScope, Overlay
<1>2. pc \in Places /\ pages = 0 /\ OnlyState(scope) /\ Running
  BY <1>1 DEF IInv, Opening, Placed, Places, Running
<1>3. Kept(state, snap)
  BY DEF Kept, Laid
<1> HIDE DEF state
<1>4. OnlyState(scope') /\ scope'.state = state /\ IsScope(scope') /\ scope'.binding = ""
  BY <1>1, <1>2, OnlyStateWith
<1>5. AcceptedRuns'
  BY <1>1, SameProblem DEF IInv
<1>6. Placed'
  <2>1. pending' \subseteq DOMAIN doc.state
    BY <1>1, <1>2, DeclaredFields
  <2>2. /\ drains' \in 0 .. MaxDrains - 1 /\ DOMAIN snap' \subseteq DOMAIN doc.state
        /\ req' \in 0 .. Len(doc.requests) + 1 /\ pages' \in 0 .. MaxPages /\ fired' \in 0 .. MaxRefires
        /\ DOMAIN snap' \cap PerDrainScratchFields(doc) = {}
    BY <1>1 DEF IInv, Placed, TypeOK
  <2>3. pc' \in Places /\ pc' # "seed" /\ doc' = doc
    BY <1>1 DEF Places
  <2> QED
    BY <1>2, <1>5, <2>1, <2>2, <2>3, PlacedNext
<1>7. Bound'
  BY <1>1, <1>4 DEF Bound, FirstRequest
<1>8. Opening'
  <2>1. pending' \subseteq PerDrainScratchFields(doc') /\ PerDrainScratchFields(doc') \ pending' = {}
    BY <1>1
  <2>2. Kept(scope'.state, snap') /\ pages' = 0
    BY <1>1, <1>2, <1>3, <1>4
  <2> QED
    BY <1>1, <1>4, <2>1, <2>2 DEF Opening, FirstRequest
<1> QED
  BY <1>5, <1>6, <1>7, <1>8 DEF IInv

(* A field that pagination writes is wiped: its default, or nothing.  What *)
(* the snapshot holds is no such field.                                     *)
LEMMA WipeFieldKeeps ==
  ASSUME IInv, NEW name \in pending, WipeField(name)
  PROVE  IInv'
<1> DEFINE r == Default(name)
<1>1. pc = "wipe" /\ (name \in Seeded(doc) => Seed(name, r))
  BY DEF WipeField
<1>2. /\ Running /\ pc \in Places /\ IsScope(scope) /\ scope.binding = "" /\ pc \in {"seed", "wipe"}
      /\ OnlyState(scope) /\ Kept(scope.state, snap)
      /\ name \in PerDrainScratchFields(doc)
  BY <1>1 DEF IInv, Placed, Bound, Opening, Running, Places
<1>3. \A m \in PerDrainScratchFields(doc) \ pending : StartsOver(doc, scope.state, m)
  BY <1>1 DEF IInv, Opening
<1>4. name \notin DOMAIN snap
  BY <1>2 DEF IInv, Placed
<1>5. CASE name \in Seeded(doc)
  <2>1. Permitted(r)
    BY <1>2, <1>5, DefaultPermitted DEF Default
  <2>2. Alone(doc, name) => r = Eval(EmptyScope, doc.state[name].default)
    <3> SUFFICES ASSUME Alone(doc, name) PROVE r = Eval(EmptyScope, doc.state[name].default)
      OBVIOUS
    <3>1. doc.state[name].default \in Nodes
      BY <1>5, Blocks, <1>2 DEF Running, FieldDecls, Seeded
    <3>2. ButState(scope, EmptyScope)
      BY <1>2, OnlyStateWith
    <3> QED
      BY <3>1, <3>2, EvalAlike DEF Alone, Default
  <2> HIDE DEF r
  <2>3. CASE r.ok
    <3> DEFINE state == With(scope.state, name, r.v)
    <3>1. /\ scope' = [scope EXCEPT !.state = state] /\ pending' = pending \ {name}
          /\ UNCHANGED <<doc, pc, req, fired, problem, pages, drains, snap>>
      BY <1>1, <1>5, <2>3 DEF Seed
    <3>2. /\ DOMAIN state = DOMAIN scope.state \cup {name} /\ state[name] = r.v
          /\ \A m \in DOMAIN scope.state : m # name => state[m] = scope.state[m]
      BY DEF With
    <3>3. r = Ok(r.v)
      BY <2>1, <2>3, SaneOk DEF Permitted
    <3> HIDE DEF state
    <3>4. Kept(state, snap)
      BY <1>2, <1>4, <3>2 DEF Kept
    <3>5. ASSUME NEW m \in PerDrainScratchFields(doc) \ pending' PROVE StartsOver(doc, state, m)
      <4>1. CASE m = name
        <5>1. Alone(doc, name) => name \in DOMAIN state /\ Ok(state[name]) = Eval(EmptyScope, doc.state[name].default)
          BY <2>2, <3>2, <3>3
        <5> QED
          BY <1>5, <4>1, <5>1 DEF StartsOver
      <4>2. CASE m # name
        <5>1. StartsOver(doc, scope.state, m)
          BY <1>3, <3>1, <4>2
        <5>2. (m \in DOMAIN state <=> m \in DOMAIN scope.state) /\ (m \in DOMAIN state => state[m] = scope.state[m])
          BY <3>2, <4>2
        <5> QED
          BY <5>1, <5>2 DEF StartsOver
      <4> QED
        BY <4>1, <4>2
    <3>6. pending' \subseteq pending
      BY <3>1
    <3> QED
      BY <1>2, <3>1, <3>4, <3>5, <3>6, FieldDone
  <2>4. CASE ~r.ok
    <3>1. Fail(r, "save") /\ scope' = scope
      BY <1>1, <1>5, <2>4 DEF Seed
    <3>2. IsScope(scope') /\ scope'.binding = ""
      BY <1>2, <3>1
    <3> QED
      BY <1>2, <2>1, <2>4, <3>1, <3>2, Fails
  <2> QED
    BY <2>3, <2>4
<1>6. CASE name \notin Seeded(doc)
  <2> DEFINE state == Without(scope.state, name)
  <2>1. /\ scope' = [scope EXCEPT !.state = state] /\ pending' = pending \ {name}
        /\ UNCHANGED <<doc, pc, req, fired, problem, pages, drains, snap>>
    BY <1>6 DEF WipeField
  <2>2. /\ DOMAIN state = DOMAIN scope.state \ {name}
        /\ \A m \in DOMAIN scope.state : m # name => state[m] = scope.state[m]
    BY DEF Without
  <2> HIDE DEF state
  <2>3. Kept(state, snap)
    BY <1>2, <1>4, <2>2 DEF Kept
  <2>4. ASSUME NEW m \in PerDrainScratchFields(doc) \ pending' PROVE StartsOver(doc, state, m)
    <3>1. CASE m = name
      BY <1>6, <2>2, <3>1 DEF StartsOver
    <3>2. CASE m # name
      <4>1. StartsOver(doc, scope.state, m)
        BY <1>3, <2>1, <3>2
      <4>2. (m \in DOMAIN state <=> m \in DOMAIN scope.state) /\ (m \in DOMAIN state => state[m] = scope.state[m])
        BY <2>2, <3>2
      <4> QED
        BY <4>1, <4>2 DEF StartsOver
    <3> QED
      BY <3>1, <3>2
  <2>5. pending' \subseteq pending
    BY <2>1
  <2> QED
    BY <1>2, <2>1, <2>3, <2>4, <2>5, FieldDone
<1> QED
  BY <1>5, <1>6

(* One more than a number is one when the number is none.                  *)
LEMMA OnlyZeroBeforeOne ==
  ASSUME NEW n \in Nat, NEW k \in 0 .. n, k + 1 = 1
  PROVE  k = 0
OBVIOUS

(* An iteration begins, with nothing of the last one, or the cap ends the  *)
(* drain.                                                                   *)
LEMMA BeginPageKeeps ==
  ASSUME IInv, BeginPage
  PROVE  IInv'
<1>1. (pc = "wipe" /\ pending = {}) \/ pc = "page"
  BY DEF BeginPage
<1>2. pc \in Places /\ Running /\ IsScope(scope) /\ scope.binding = ""
  BY <1>1 DEF IInv, Placed, Bound, Running, Places
<1>3. CASE pages < MaxPages
  <2>1. /\ pc' = "chain" /\ pages' = pages + 1 /\ req' = 1 /\ fired' = 0 /\ scope' = Unbound(scope)
        /\ UNCHANGED <<doc, pending, problem, drains, snap>>
    BY <1>3 DEF BeginPage
  <2>2. /\ IsScope(scope') /\ scope'.binding = "" /\ scope'.body = Nil /\ scope'.headers = NothingBound
        /\ scope'.state = scope.state
        /\ scope' = [EmptyScope EXCEPT !.state = scope'.state, !.cache = scope'.cache]
    <3>1. /\ Fields(Unbound(scope), scope.state, scope.cache, Nil, NothingBound, "")
          /\ Unbound(scope) = [EmptyScope EXCEPT !.state = scope.state, !.cache = scope.cache]
      BY NewScopes
    <3> HIDE DEF Unbound
    <3>2. scope'.state = scope.state /\ scope'.cache = scope.cache
      BY <2>1, <3>1 DEF Fields
    <3>3. IsScope(scope') /\ scope'.binding = "" /\ scope'.body = Nil /\ scope'.headers = NothingBound
      BY <2>1, <3>1 DEF Fields
    <3>4. scope' = [EmptyScope EXCEPT !.state = scope'.state, !.cache = scope'.cache]
      BY <2>1, <3>1, <3>2
    <3> QED
      BY <3>2, <3>3, <3>4
  <2>3. AcceptedRuns'
    BY <2>1, SameProblem DEF IInv
  <2>4. /\ req' \in 0 .. Len(doc.requests) + 1 /\ req' # 0
        /\ pages' \in 0 .. MaxPages /\ pages' # 0 /\ fired' \in 0 .. MaxRefires
    <3>1. pages \in 0 .. MaxPages
      BY DEF IInv, Placed, TypeOK
    <3>2. pages' \in 0 .. MaxPages /\ pages' # 0 /\ fired' \in 0 .. MaxRefires
      BY <1>3, <2>1, <3>1, Bounds, OneMore, Zenon
    <3>3. Len(doc.requests) \in Nat
      BY <1>2, Blocks, Elements DEF Running
    <3> QED
      BY <2>1, <3>2, <3>3, OneMore
  <2>5. Placed'
    <3>1. pc' \in Places /\ pc' # "seed" /\ pending' \subseteq pending
      BY <2>1 DEF Places
    <3> QED
      BY <1>2, <2>1, <2>3, <2>4, <3>1, StaysPlaced
  <2>6. Bound'
    BY <2>1, <2>2, <2>4 DEF Bound, FirstRequest
  <2>7. pages' = 1 => /\ Kept(scope'.state, snap')
                      /\ \A name \in PerDrainScratchFields(doc') : StartsOver(doc', scope'.state, name)
    <3> SUFFICES ASSUME pages' = 1
                 PROVE  /\ Kept(scope.state, snap)
                        /\ \A name \in PerDrainScratchFields(doc) : StartsOver(doc, scope.state, name)
      BY <2>1, <2>2
    <3>1. pages = 0
      <4>1. pages \in 0 .. MaxPages
        BY DEF IInv, Placed, TypeOK
      <4> QED
        BY <2>1, <4>1, OnlyZeroBeforeOne, Bounds
    <3>2. pc = "wipe" /\ pending = {}
      BY <1>1, <3>1 DEF IInv, Opening
    <3> QED
      BY <3>2 DEF IInv, Opening
  <2>8. Opening'
    BY <2>1, <2>4, <2>7 DEF Opening, FirstRequest
  <2> QED
    BY <2>3, <2>5, <2>6, <2>8 DEF IInv
<1>4. CASE ~(pages < MaxPages)
  <2>1. pc' = "save" /\ UNCHANGED <<doc, req, pending, scope, fired, problem, pages, drains, snap>>
    BY <1>4 DEF BeginPage
  <2>2. AcceptedRuns'
    BY <2>1, SameProblem DEF IInv
  <2>3. pc' \in {"progress", "advance", "page", "save", "stopped"} /\ pc' \notin {"progress", "advance", "page"}
    BY <2>1
  <2> QED
    BY <1>2, <2>1, <2>2, <2>3, Leaves
<1> QED
  BY <1>3, <1>4

(* Zero is within a range of counters.                                     *)
LEMMA ZeroFirst ==
  /\ \A n \in Nat : 0 \in 0 .. n + 1
  /\ \A n \in Nat \ {0} : 0 \in 0 .. n - 1
OBVIOUS

(* One more drain, below the bound.                                        *)
LEMMA NextDrain ==
  ASSUME NEW n \in Nat \ {0}, NEW k \in 0 .. n - 1, k + 1 < n
  PROVE  k + 1 \in 0 .. n - 1
OBVIOUS

(* The drain is saved: the snapshot has none of the fields that pagination *)
(* writes.                                                                  *)
LEMMA SaveKeeps ==
  ASSUME IInv, Save
  PROVE  IInv'
<1>1. /\ pc = "save" /\ snap' = Snapshot(doc, scope) /\ pc' = "stopped"
      /\ UNCHANGED <<doc, req, pending, scope, fired, problem, pages, drains>>
  BY DEF Save
<1>2. pc \in Places /\ Running /\ IsScope(scope) /\ scope.binding = ""
  <2>1. pc \in Places /\ pc # "items"
    BY <1>1 DEF Places
  <2> QED
    BY <2>1, AtPlace
<1>3. AcceptedRuns'
  BY <1>1, SameProblem DEF IInv
<1>4. DOMAIN snap' \subseteq DOMAIN doc.state /\ DOMAIN snap' \cap PerDrainScratchFields(doc) = {}
  BY <1>1 DEF Snapshot
<1>5. Placed'
  <2>1. /\ drains' \in 0 .. MaxDrains - 1 /\ pending' \subseteq DOMAIN doc.state
        /\ req' \in 0 .. Len(doc.requests) + 1 /\ pages' \in 0 .. MaxPages /\ fired' \in 0 .. MaxRefires
    BY <1>1 DEF IInv, Placed, TypeOK
  <2>2. pc' \in Places /\ pc' # "seed" /\ doc' = doc
    BY <1>1 DEF Places
  <2> QED
    BY <1>2, <1>3, <1>4, <2>1, <2>2, PlacedNext
<1>6. Bound'
  BY <1>1, <1>2 DEF Bound, FirstRequest
<1>7. Opening'
  BY <1>1 DEF Opening, FirstRequest
<1> QED
  BY <1>3, <1>5, <1>6, <1>7 DEF IInv

(* A drain that a crash ended, or that starts, has nothing in memory.      *)
LEMMA FreshKeeps ==
  ASSUME IInv, Running, Fresh, UNCHANGED <<doc, snap>>, drains' \in 0 .. MaxDrains - 1,
         pc' \in {"seed", "stopped"}, pending' \subseteq Seeded(doc)
  PROVE  IInv'
<1>1. scope' = EmptyScope /\ req' = 0 /\ fired' = 0 /\ pages' = 0 /\ problem' = "none"
  BY DEF Fresh
<1>2. IsScope(scope') /\ scope'.binding = "" /\ OnlyState(scope')
  BY <1>1, NewScopes DEF Fields, OnlyState
<1>3. AcceptedRuns'
  BY <1>1 DEF AcceptedRuns
<1>4. Placed'
  <2>1. DOMAIN snap' \subseteq DOMAIN doc.state /\ DOMAIN snap' \cap PerDrainScratchFields(doc) = {}
    BY DEF IInv, Placed, TypeOK
  <2>2. pending' \subseteq DOMAIN doc.state
    BY DeclaredFields
  <2>3. req' \in 0 .. Len(doc.requests) + 1 /\ pages' \in 0 .. MaxPages /\ fired' \in 0 .. MaxRefires
    <3>1. Len(doc.requests) \in Nat
      BY Blocks, Elements DEF Running
    <3>2. 0 \in 0 .. Len(doc.requests) + 1
      BY <3>1, ZeroFirst
    <3> QED
      BY <1>1, <3>2, Bounds
  <2>4. pc' \in Places
    BY DEF Places
  <2> QED
    BY <1>3, <2>1, <2>2, <2>3, <2>4, PlacedNext
<1>5. Bound'
  BY <1>2 DEF Bound, FirstRequest
<1>6. Opening'
  BY <1>1, <1>2 DEF Opening, FirstRequest
<1> QED
  BY <1>3, <1>4, <1>5, <1>6 DEF IInv

(* The process dies.                                                       *)
LEMMA CrashKeeps ==
  ASSUME IInv, Crash
  PROVE  IInv'
<1>1. /\ pc \notin {"validate", "rejected", "stopped"} /\ pc' = "stopped" /\ pending' = {} /\ Fresh
      /\ UNCHANGED <<doc, drains, snap>>
  BY DEF Crash
<1>2. Running
  BY <1>1 DEF IInv, Placed, Running
<1>3. drains' \in 0 .. MaxDrains - 1
  BY <1>1 DEF IInv, Placed, TypeOK
<1>4. pc' \in {"seed", "stopped"} /\ pending' \subseteq Seeded(doc)
  BY <1>1
<1> QED
  BY <1>1, <1>2, <1>3, <1>4, FreshKeeps

(* The next drain starts.                                                  *)
LEMMA RestartKeeps ==
  ASSUME IInv, Restart
  PROVE  IInv'
<1>1. /\ pc = "stopped" /\ drains + 1 < MaxDrains /\ pc' = "seed" /\ pending' = Seeded(doc)
      /\ drains' = drains + 1 /\ Fresh /\ UNCHANGED <<doc, snap>>
  BY DEF Restart
<1>2. Running
  BY <1>1 DEF IInv, Placed, Running
<1>3. drains' \in 0 .. MaxDrains - 1
  <2>1. drains \in 0 .. MaxDrains - 1
    BY DEF IInv, Placed, TypeOK
  <2> QED
    BY <1>1, <2>1, NextDrain, BoundsAssumption
<1>4. pc' \in {"seed", "stopped"} /\ pending' \subseteq Seeded(doc)
  BY <1>1
<1> QED
  BY <1>1, <1>2, <1>3, <1>4, FreshKeeps

(* At first nothing is bound, and nothing is stored.                       *)
LEMMA InitIInv ==
  ASSUME Init
  PROVE  IInv
<1>1. /\ doc \in Documents /\ pc = "validate" /\ req = 0 /\ pending = {} /\ scope = EmptyScope /\ fired = 0
      /\ problem = "none" /\ pages = 0 /\ drains = 0 /\ snap = NothingBound
  BY DEF Init
<1>2. DOMAIN snap = {}
  BY <1>1 DEF NothingBound
<1>3. IsScope(scope) /\ scope.binding = "" /\ OnlyState(scope)
  BY <1>1, NewScopes DEF Fields, OnlyState
<1>4. Placed
  <2>1. Len(doc.requests) \in Nat
    BY <1>1, Blocks, Elements
  <2>2. req \in 0 .. Len(doc.requests) + 1 /\ drains \in 0 .. MaxDrains - 1
    BY <1>1, <2>1, ZeroFirst, BoundsAssumption
  <2>3. pages \in 0 .. MaxPages /\ fired \in 0 .. MaxRefires
    BY <1>1, Bounds
  <2>4. TypeOK
    BY <1>1, <1>2, <2>2, <2>3 DEF TypeOK
  <2> QED
    BY <1>1, <1>2, <2>4 DEF Placed
<1>5. Bound
  BY <1>1, <1>3 DEF Bound, FirstRequest
<1>6. Opening
  BY <1>1, <1>3 DEF Opening, FirstRequest
<1>7. AcceptedRuns
  BY <1>1 DEF AcceptedRuns
<1> QED
  BY <1>4, <1>5, <1>6, <1>7 DEF IInv

(* A step that changes nothing keeps the invariant.                        *)
LEMMA StutterKeeps ==
  ASSUME IInv, UNCHANGED vars
  PROVE  IInv'
<1>1. UNCHANGED <<doc, pc, req, pending, scope, fired, problem, pages, drains, snap>>
  BY DEF vars
<1>2. Placed'
  BY <1>1 DEF IInv, Placed, TypeOK
<1>3. Bound'
  BY <1>1 DEF IInv, Bound, FirstRequest, R
<1>4. Opening'
  BY <1>1 DEF IInv, Opening, FirstRequest
<1>5. AcceptedRuns'
  BY <1>1, SameProblem DEF IInv
<1> QED
  BY <1>2, <1>3, <1>4, <1>5 DEF IInv

(* Every step of a run keeps the invariant, whatever the document is and   *)
(* whatever the server answers.                                             *)
LEMMA NextKeeps ==
  ASSUME IInv, [Next]_vars
  PROVE  IInv'
<1>1. CASE Accept
  BY <1>1, AcceptKeeps
<1>2. CASE Reject
  BY <1>2, RejectKeeps
<1>3. CASE OpenScope
  BY <1>3, OpenScopeKeeps
<1>4. CASE BeginPage
  BY <1>4, BeginPageKeeps
<1>5. ASSUME NEW name \in pending, SeedField(name) PROVE IInv'
  BY <1>5, SeedFieldKeeps
<1>6. ASSUME NEW name \in pending, WipeField(name) PROVE IInv'
  BY <1>6, WipeFieldKeeps
<1>7. CASE SkipRequest
  BY <1>7, SkipKeeps
<1>8. CASE GateFails
  BY <1>8, GateFailsKeeps
<1>9. CASE OpenFanOut
  BY <1>9, OpenFanOutKeeps
<1>10. CASE CloseFanOut
  BY <1>10, CloseFanOutKeeps
<1>11. CASE ReuseCached
  BY <1>11, ReuseCachedKeeps
<1>12. ASSUME NEW resp \in Responses, NEW token \in Tokens, Exchange(resp, token) PROVE IInv'
  BY <1>12, ExchangeKeeps
<1>13. ASSUME NEW resp \in Responses, NEW token \in Tokens, ExchangeItem(resp, token) PROVE IInv'
  BY <1>13, ExchangeItemKeeps
<1>14. CASE BindPage
  BY <1>14, BindPageKeeps
<1>15. CASE ApplyProgress
  BY <1>15, ApplyProgressKeeps
<1>16. CASE AdvancePagination
  BY <1>16, AdvancePaginationKeeps
<1>17. CASE Save
  BY <1>17, SaveKeeps
<1>18. CASE Crash
  BY <1>18, CrashKeeps
<1>19. CASE Restart
  BY <1>19, RestartKeeps
<1>20. CASE UNCHANGED vars
  BY <1>20, StutterKeeps
<1> QED
  BY <1>1, <1>2, <1>3, <1>4, <1>5, <1>6, <1>7, <1>8, <1>9, <1>10, <1>11, <1>12, <1>13, <1>14, <1>15,
     <1>16, <1>17, <1>18, <1>19, <1>20 DEF Next
-----------------------------------------------------------------------------
(* The invariant holds in every state of a run of any document, for any    *)
(* answers of the server and any number of iterations and drains.           *)
THEOREM RunInvariant == Spec => []IInv
<1>1. Init => IInv
  BY InitIInv
<1>2. IInv /\ [Next]_vars => IInv'
  BY NextKeeps
<1> QED
  BY <1>1, <1>2, PTL DEF Spec

(* A run is where it can be: its place, its request and its counters stay  *)
(* within the document and the caps of the runner (runner.go 298-420).      *)
THEOREM RunTyped == Spec => []TypeOK
<1>1. IInv => TypeOK
  BY DEF IInv, Placed
<1> QED
  BY <1>1, RunInvariant, PTL

(* Whatever the server answers, a document that the validator accepts      *)
(* meets no fault of its own while it runs (validate.go against the errors *)
(* of state.go, extract.go, bodypath.go and http.go), but for what the     *)
(* property spells out as asked by no check.                                *)
THEOREM AcceptedNeverFaults == Spec => []AcceptedRuns
<1>1. IInv => AcceptedRuns
  BY DEF IInv
<1> QED
  BY <1>1, RunInvariant, PTL

(* A drain starts its pagination over, whatever the last one reached or    *)
(* saved (resetPerDrainScratch, state.go 205-220).                          *)
THEOREM EachDrainStartsOver == Spec => []PaginationStartsOver
<1>1. IInv => PaginationStartsOver
  BY DEF IInv, Opening, PaginationStartsOver, StartsOver
<1> QED
  BY <1>1, RunInvariant, PTL

(* A drain resumes from what the last one saved: no default overwrites a   *)
(* stored field, and the wipe takes none (newScope, state.go 146-164).      *)
THEOREM EachDrainResumes == Spec => []ResumesFromSnapshot
<1>1. IInv => ResumesFromSnapshot
  BY DEF IInv, Opening, ResumesFromSnapshot, Kept
<1> QED
  BY <1>1, RunInvariant, PTL

(* Nothing an iteration read or extracted is seen by the next one, and an  *)
(* alias is bound nowhere but around its items (runner.go 298-306,          *)
(* 489-500, fanout.go 84-92).                                               *)
THEOREM EachIterationFresh == Spec => []IterationsSeeOnlyState
<1>1. IInv => IterationsSeeOnlyState
  BY DEF IInv, Bound, IterationsSeeOnlyState
<1> QED
  BY <1>1, RunInvariant, PTL
==============================================================================
