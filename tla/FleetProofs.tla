----------------------------- MODULE FleetProofs -----------------------------
(***************************************************************************)
(* Proofs about the run loop and the fleet, for any configurations, any    *)
(* number of runs, events and drains.                                      *)
(***************************************************************************)
EXTENDS Fleet, FiniteSetTheorems, WellFoundedInduction, TLAPS

Earlier == {p \in Nat \X Nat : p[1] < p[2]}

(* Induction, over a set of numbers instead of a predicate, so that the    *)
(* provers can use it: what holds of 0, and of n + 1 whenever it holds of   *)
(* n, holds of every number.                                                *)
LEMMA SetInduction ==
  ASSUME NEW S, 0 \in S, \A n \in Nat : n \in S => n + 1 \in S
  PROVE  Nat \subseteq S
<1> DEFINE T == Nat \ S
<1> SUFFICES ASSUME T # {} PROVE FALSE
  OBVIOUS
<1>1. PICK n \in T : \A m \in T : ~(<<m, n>> \in Earlier)
  <2>1. IsWellFoundedOn(Earlier, Nat)
    BY NatLessThanWellFounded DEF Earlier, OpToRel
  <2>2. T \subseteq Nat
    OBVIOUS
  <2> HIDE DEF T
  <2> QED
    BY <2>1, <2>2, WFMin
<1>2. n - 1 \in Nat /\ n - 1 < n /\ (n - 1) + 1 = n
  OBVIOUS
<1>3. n - 1 \in S
  BY <1>1, <1>2 DEF Earlier
<1> QED
  BY <1>2, <1>3

Line == [run : Nat, event : Nat]
Piece == [line : Line, part : {"head", "tail"}]
FileType == [lines : SUBSET Line, begun : Line, torn : BOOLEAN]
LineOf(r, e) == [run |-> r, event |-> e]

Pcs == {"idle", "start", "page", "lock", "head", "tail", "flush", "reset", "save",
        "returned", "sleep", "done"}
Phases == {"resolve", "build", "drive", "summary", "exited"}
AllResolved == [r \in Runs |-> Resolved(config, config.runs[r])]

TypeOK ==
  /\ config \in Configs
  /\ phase \in Phases /\ cancelled \in BOOLEAN /\ built \in Nat /\ exit \in Int
  /\ entries = << >> \/ (entries = AllResolved /\ ~Refused(config, entries))
  /\ pc \in [Runs -> Pcs] /\ failed \in [Runs -> BOOLEAN]
  /\ at \in [Runs -> Nat] /\ sent \in [Runs -> Nat] /\ mine \in [Runs -> Nat]
  /\ counted \in [Runs -> Nat] /\ drains \in [Runs -> Nat] /\ errors \in [Runs -> Nat]
  /\ saved \in [Files -> Nat]
  /\ lock \in [Sinks -> Runs \cup {0}]
  /\ file \in [Outputs -> FileType]
  /\ buf \in [Sinks -> Seq(Piece)]
  /\ broken \in [Sinks -> BOOLEAN]

(* Nothing moves before the entries are resolved and the Runners built. *)
StageInv ==
  /\ phase = "resolve" => entries = << >>
  /\ phase \in {"build", "drive", "summary"} => entries # << >>
  /\ entries = << >> =>
       /\ \A r \in Runs : pc[r] = "idle" /\ at[r] = 0 /\ mine[r] = 0
       /\ \A f \in Files : saved[f] = 0
       /\ \A s \in Sinks : lock[s] = 0 /\ buf[s] = << >> /\ ~broken[s]
       /\ \A o \in Outputs : file[o] = Blank
  /\ phase \in {"resolve", "build"} => \A r \in Runs : pc[r] = "idle"

(* The mutex of a sink is held by the run that writes to it. *)
MutexInv ==
  entries # << >> =>
    \A r \in Runs : pc[r] \in {"head", "tail"} <=> lock[SinkOf(r)] = r

(* A writer that does not buffer: the line begun in a file is the one that *)
(* the holder of the mutex is writing, or the last of a writer that failed. *)
PlainInv ==
  entries # << >> /\ ~config.buffered =>
    /\ \A s \in Sinks : buf[s] = << >>
    /\ \A r \in Runs : ~SharesOutput(r) =>
         LET f == file[Output(SinkOf(r))] IN
         /\ ~f.torn
         /\ \A q \in Runs : SinkOf(q) = SinkOf(r) /\ pc[q] = "tail" => f.begun = LineOf(q, at[q] + 1)
         /\ ~broken[SinkOf(r)] /\ (\A q \in Runs : SinkOf(q) = SinkOf(r) => pc[q] # "tail") => f.begun = NoLine

(* The first n pieces are whole lines, head and tail. *)
Paired(pieces, n) ==
  \A i \in 1 .. n : IF i % 2 = 1 THEN pieces[i].part = "head"
                    ELSE pieces[i].part = "tail" /\ pieces[i].line = pieces[i - 1].line
LinesIn(pieces) == {pieces[i].line : i \in {j \in DOMAIN pieces : pieces[j].part = "tail"}}

(* A buffer of one run's own: whole lines, and at most the head of the one *)
(* that is being written; between two drains it is empty.  Of a writer that *)
(* failed only this is left, that no line was torn.                         *)
Quiet == {"idle", "start", "save", "returned", "sleep", "done"}
BufferInv ==
  entries # << >> /\ config.buffered =>
    \A r \in Runs : ~SharesSink(r) =>
      LET b == buf[SinkOf(r)] IN
      /\ ~broken[SinkOf(r)] =>
           /\ Paired(b, Len(b))
           /\ IF pc[r] = "tail"
              THEN Len(b) % 2 = 1 /\ b[Len(b)] = [line |-> LineOf(r, at[r] + 1), part |-> "head"]
              ELSE Len(b) % 2 = 0
           /\ pc[r] \in Quiet => b = << >>
           /\ ~SharesOutput(r) => file[Output(SinkOf(r))].begun = NoLine
      /\ ~SharesOutput(r) => ~file[Output(SinkOf(r))].torn

(* The one run that writes to a sink whose writer failed has an error.     *)
BrokenInv ==
  entries # << >> =>
    \A r \in Runs : ~SharesSink(r) /\ broken[SinkOf(r)] => Reported(r)

(* A run alone with its buffer, and alone with its output. *)
Alone(r) == ~(config.buffered /\ SharesSink(r)) /\ ~SharesOutput(r)
Sound(r) == ~(config.buffered /\ broken[SinkOf(r)])
InFile(r, e) == LineOf(r, e) \in file[Output(SinkOf(r))].lines
InBuffer(r, e) == LineOf(r, e) \in LinesIn(buf[SinkOf(r)])

(* A state file that no other name reaches holds what its run saved last. *)
OwnStateInv ==
  entries # << >> =>
    \A r \in Runs : Entry(r).state # "" /\ ~Aliased(r) => saved[File(r)] = mine[r]

(* Every event up to a run's position was written, and those up to the one *)
(* it saved have left the buffer, unless the writer of the buffer failed.   *)
WrittenInv ==
  entries # << >> =>
    \A r \in Runs : Alone(r) /\ Sound(r) /\ ~Aliased(r) =>
      /\ \A e \in 1 .. at[r] : InFile(r, e) \/ InBuffer(r, e)
      /\ pc[r] \in {"reset", "save"} => \A e \in 1 .. at[r] : InFile(r, e)
      /\ \A e \in 1 .. mine[r] : InFile(r, e)

(* The lines of a run, in a file or on the way to one, were counted. *)
OnTheWay(l) == (\E o \in Outputs : l \in file[o].lines) \/ (\E s \in Sinks : l \in LinesIn(buf[s]))
LinesOf(r) == {l \in Line : l.run = r /\ OnTheWay(l)}
Pending(r) == IF pc[r] \in {"lock", "head", "tail"} THEN 1 ELSE 0
CountInv ==
  \A r \in Runs :
    /\ IsFiniteSet(LinesOf(r))
    /\ Cardinality(LinesOf(r)) + Pending(r) <= counted[r]

(* What a drain without an error has done. *)
Kept(r) == mine[r] = at[r] /\ sent[r] <= at[r]
OutcomeInv ==
  \A r \in Runs :
    /\ pc[r] \in {"page", "lock", "head", "tail"} => ~failed[r]
    /\ pc[r] \in {"lock", "head", "tail"} => sent[r] <= at[r] + 1
    /\ pc[r] \in {"page", "flush", "reset", "save"} /\ ~failed[r] => sent[r] <= at[r]
    /\ pc[r] = "returned" /\ ~failed[r] => Kept(r)
    /\ pc[r] = "done" /\ ~cancelled /\ errors[r] = 0 => Kept(r)

SummaryInv ==
  /\ phase = "summary" => config.mode = "fleet" /\ Finished
  /\ summary # << >> =>
       /\ phase \in {"summary", "exited"}
       /\ \A r \in Runs :
            /\ pc[r] = "done"
            /\ summary[r] = [drains |-> drains[r], events |-> counted[r], errors |-> errors[r]]

ExitInv ==
  exit = 0 /\ config.mode = "single" =>
    phase = "exited" /\ Finished /\ entries # << >> /\ (OneShot(1) => errors[1] = 0)

IInv ==
  /\ TypeOK /\ StageInv /\ MutexInv /\ PlainInv /\ BufferInv /\ OwnStateInv
  /\ BrokenInv /\ WrittenInv /\ CountInv /\ OutcomeInv /\ SummaryInv /\ ExitInv
-----------------------------------------------------------------------------
(* What reaches a file: the pieces of a buffer, one after the other.       *)

(* Poured is defined: the recursion over the pieces has a solution. *)
LEMMA PouredDefined ==
  ASSUME NEW f, NEW pieces \in Seq(Piece)
  PROVE  \E after :
           /\ after = [i \in 0 .. Len(pieces) |-> IF i = 0 THEN f ELSE Append1(after[i - 1], pieces[i])]
           /\ Poured(f, pieces) = after[Len(pieces)]
<1> DEFINE Solves(g, n) == g = [i \in 0 .. n |-> IF i = 0 THEN f ELSE Append1(g[i - 1], pieces[i])]
           S == {n \in Nat : \E g : Solves(g, n)}
<1>1. 0 \in S
  <2>1. Solves([i \in 0 .. 0 |-> f], 0)
    OBVIOUS
  <2> QED
    BY <2>1
<1>2. ASSUME NEW n \in Nat, n \in S PROVE n + 1 \in S
  <2>1. PICK g : Solves(g, n)
    BY <1>2
  <2> DEFINE h == [i \in 0 .. n + 1 |-> IF i <= n THEN g[i] ELSE Append1(g[n], pieces[n + 1])]
  <2>2. ASSUME NEW i \in 0 .. n + 1
        PROVE  h[i] = IF i = 0 THEN f ELSE Append1(h[i - 1], pieces[i])
    <3>1. CASE i = 0
      BY <2>1, <3>1
    <3>2. CASE i \in 1 .. n
      BY <2>1, <3>2
    <3>3. CASE i = n + 1
      BY <3>3
    <3> QED
      BY <3>1, <3>2, <3>3
  <2>3. Solves(h, n + 1)
    BY <2>2
  <2> HIDE DEF Solves, h
  <2>4. \E k : Solves(k, n + 1)
    BY <2>3
  <2> QED
    BY <2>4
<1> HIDE DEF S
<1>3. Nat \subseteq S
  BY <1>1, <1>2, SetInduction
<1>4. \E g : Solves(g, Len(pieces))
  BY <1>3 DEF S
<1> DEFINE after == CHOOSE g : Solves(g, Len(pieces))
<1>5. Solves(after, Len(pieces))
  BY <1>4
<1>6. Poured(f, pieces) = after[Len(pieces)]
  BY DEF Poured
<1> QED
  BY <1>5, <1>6

(* One more piece: the result is a file, keeps the lines it had, and gains *)
(* at most the line of a tail.                                              *)
LEMMA Append1Type ==
  ASSUME NEW f \in FileType, NEW piece \in Piece
  PROVE  /\ Append1(f, piece) \in FileType
         /\ f.lines \subseteq Append1(f, piece).lines
         /\ Append1(f, piece).lines \subseteq f.lines \cup (IF piece.part = "tail" THEN {piece.line} ELSE {})
<1>1. f = [lines |-> f.lines, begun |-> f.begun, torn |-> f.torn]
      /\ f.lines \subseteq Line /\ piece.line \in Line /\ NoLine \in Line
      /\ piece.part \in {"head", "tail"}
  BY DEF FileType, Piece, Line, NoLine
<1>2. CASE piece.part = "head"
  <2>1. Append1(f, piece) = [f EXCEPT !.begun = piece.line, !.torn = @ \/ f.begun # NoLine]
    BY <1>2 DEF Append1
  <2> QED
    BY <1>1, <1>2, <2>1 DEF FileType
<1>3. CASE piece.part = "tail"
  <2>1. Append1(f, piece) =
          [lines |-> IF f.begun = piece.line THEN f.lines \cup {piece.line} ELSE f.lines,
           begun |-> NoLine, torn |-> f.torn \/ f.begun # piece.line]
    BY <1>3 DEF Append1
  <2> QED
    BY <1>1, <1>3, <2>1 DEF FileType
<1> QED
  BY <1>1, <1>2, <1>3

(* What is poured is a file again; it keeps the lines it had, and has no   *)
(* other than those and those of the pieces.                                *)
LEMMA PouredGrows ==
  ASSUME NEW f \in FileType, NEW pieces \in Seq(Piece)
  PROVE  /\ Poured(f, pieces) \in FileType
         /\ f.lines \subseteq Poured(f, pieces).lines
         /\ Poured(f, pieces).lines \subseteq f.lines \cup LinesIn(pieces)
<1>1. PICK after :
        /\ after = [i \in 0 .. Len(pieces) |-> IF i = 0 THEN f ELSE Append1(after[i - 1], pieces[i])]
        /\ Poured(f, pieces) = after[Len(pieces)]
  BY PouredDefined
<1> DEFINE S == {n \in Nat : n <= Len(pieces) =>
                   /\ after[n] \in FileType
                   /\ f.lines \subseteq after[n].lines
                   /\ after[n].lines \subseteq f.lines \cup LinesIn(pieces)}
<1>2. 0 \in S
  BY <1>1
<1>3. ASSUME NEW n \in Nat, n \in S PROVE n + 1 \in S
  <2> SUFFICES ASSUME n + 1 <= Len(pieces)
               PROVE  /\ after[n + 1] \in FileType
                      /\ f.lines \subseteq after[n + 1].lines
                      /\ after[n + 1].lines \subseteq f.lines \cup LinesIn(pieces)
    OBVIOUS
  <2>1. /\ after[n] \in FileType
        /\ f.lines \subseteq after[n].lines
        /\ after[n].lines \subseteq f.lines \cup LinesIn(pieces)
    BY <1>3
  <2>2. after[n + 1] = Append1(after[n], pieces[n + 1])
    BY <1>1
  <2>3. pieces[n + 1] \in Piece
    OBVIOUS
  <2>4. pieces[n + 1].part = "tail" => pieces[n + 1].line \in LinesIn(pieces)
    BY DEF LinesIn
  <2> QED
    BY <2>1, <2>2, <2>3, <2>4, Append1Type
<1> HIDE DEF S
<1>4. Len(pieces) \in S
  BY <1>2, <1>3, SetInduction
<1> QED
  BY <1>1, <1>4 DEF S

(* Lines that follow a whole line tear none; whole lines leave a file of   *)
(* whole lines, and all of them are in it.                                  *)
LEMMA PouredPairs ==
  ASSUME NEW f \in FileType, NEW pieces \in Seq(Piece),
         f.begun = NoLine, Paired(pieces, Len(pieces))
  PROVE  /\ Len(pieces) % 2 = 0 => Poured(f, pieces).begun = NoLine
         /\ Poured(f, pieces).torn = f.torn
         /\ LinesIn(pieces) \subseteq Poured(f, pieces).lines
<1>1. PICK after :
        /\ after = [i \in 0 .. Len(pieces) |-> IF i = 0 THEN f ELSE Append1(after[i - 1], pieces[i])]
        /\ Poured(f, pieces) = after[Len(pieces)]
  BY PouredDefined
<1> DEFINE S == {n \in Nat : n <= Len(pieces) =>
                   /\ after[n] \in FileType
                   /\ after[n].begun = IF n % 2 = 0 THEN NoLine ELSE pieces[n].line
                   /\ after[n].torn = f.torn
                   /\ \A i \in 1 .. n : pieces[i].part = "tail" => pieces[i].line \in after[n].lines}
<1>2. 0 \in S
  BY <1>1
<1>3. ASSUME NEW n \in Nat, n \in S PROVE n + 1 \in S
  <2> SUFFICES ASSUME n + 1 <= Len(pieces)
               PROVE  /\ after[n + 1] \in FileType
                      /\ after[n + 1].begun = IF (n + 1) % 2 = 0 THEN NoLine ELSE pieces[n + 1].line
                      /\ after[n + 1].torn = f.torn
                      /\ \A i \in 1 .. n + 1 : pieces[i].part = "tail" => pieces[i].line \in after[n + 1].lines
    OBVIOUS
  <2>1. /\ after[n] \in FileType
        /\ after[n].begun = IF n % 2 = 0 THEN NoLine ELSE pieces[n].line
        /\ after[n].torn = f.torn
        /\ \A i \in 1 .. n : pieces[i].part = "tail" => pieces[i].line \in after[n].lines
    BY <1>3
  <2>2. after[n + 1] = Append1(after[n], pieces[n + 1])
    BY <1>1
  <2>3. pieces[n + 1] \in Piece
    OBVIOUS
  <2>4. CASE n % 2 = 0
    <3>0. (n + 1) % 2 = 1 /\ n + 1 \in 1 .. Len(pieces)
      BY <2>4
    <3>1. (n + 1) % 2 = 1 /\ pieces[n + 1].part = "head"
      BY <3>0, Zenon DEF Paired
    <3>2. after[n + 1] = [after[n] EXCEPT !.begun = pieces[n + 1].line, !.torn = @ \/ after[n].begun # NoLine]
      BY <2>2, <3>1 DEF Append1
    <3>3. /\ after[n + 1].lines = after[n].lines
          /\ after[n + 1].begun = pieces[n + 1].line
          /\ after[n + 1].torn = after[n].torn
          /\ after[n + 1] \in FileType
      BY <2>1, <2>3, <2>4, <3>2 DEF FileType, Piece
    <3> QED
      BY <2>1, <3>1, <3>3
  <2>5. CASE n % 2 = 1
    <3>1. (n + 1) % 2 = 0 /\ pieces[n + 1].part = "tail" /\ pieces[n + 1].line = pieces[n].line
      BY <2>5 DEF Paired
    <3>2. after[n + 1] = [lines |-> after[n].lines \cup {pieces[n + 1].line},
                          begun |-> NoLine, torn |-> after[n].torn]
      <4>1. after[n + 1] =
              [lines |-> IF after[n].begun = pieces[n + 1].line THEN after[n].lines \cup {pieces[n + 1].line}
                         ELSE after[n].lines,
               begun |-> NoLine, torn |-> after[n].torn \/ after[n].begun # pieces[n + 1].line]
        BY <2>2, <3>1 DEF Append1
      <4>2. after[n].begun = pieces[n + 1].line
        BY <2>1, <2>5, <3>1
      <4>3. after[n].torn \in BOOLEAN
        BY <2>1 DEF FileType
      <4>4. (after[n].torn \/ FALSE) = after[n].torn
        BY <4>3
      <4> QED
        BY <4>1, <4>2, <4>4
    <3>3. after[n + 1] \in FileType
      BY <2>1, <2>3, <3>2 DEF FileType, Piece, NoLine, Line
    <3> QED
      BY <2>1, <3>1, <3>2, <3>3
  <2> QED
    BY <2>4, <2>5
<1> HIDE DEF S
<1>4. Len(pieces) \in S
  BY <1>2, <1>3, SetInduction
<1>5. \A i \in 1 .. Len(pieces) : pieces[i].part = "tail" => pieces[i].line \in Poured(f, pieces).lines
  BY <1>1, <1>4 DEF S
<1> QED
  BY <1>1, <1>4, <1>5 DEF S, LinesIn

(* The first pieces of a buffer: they are paired as it is, and their lines *)
(* are lines of the buffer.                                                 *)
LEMMA FirstPieces ==
  ASSUME NEW b \in Seq(Piece), NEW n \in 0 .. Len(b)
  PROVE  /\ SubSeq(b, 1, n) \in Seq(Piece)
         /\ LinesIn(SubSeq(b, 1, n)) \subseteq LinesIn(b)
         /\ Paired(b, Len(b)) => Paired(SubSeq(b, 1, n), Len(SubSeq(b, 1, n)))
         /\ n = 0 => SubSeq(b, 1, n) = << >>
<1> DEFINE c == SubSeq(b, 1, n)
<1>1. /\ c \in Seq(Piece) /\ Len(c) = n /\ DOMAIN c = 1 .. n /\ DOMAIN b = 1 .. Len(b) /\ n \in Nat /\ Len(b) \in Nat
      /\ \A i \in 1 .. n : c[i] = b[i]
      /\ n = 0 => c = << >>
  OBVIOUS
<1> HIDE DEF c
<1>2. LinesIn(c) \subseteq LinesIn(b)
  BY <1>1 DEF LinesIn
<1>3. ASSUME Paired(b, Len(b)) PROVE Paired(c, Len(c))
  <2> SUFFICES ASSUME NEW i \in 1 .. n
               PROVE  IF i % 2 = 1 THEN c[i].part = "head"
                      ELSE c[i].part = "tail" /\ c[i].line = c[i - 1].line
    BY <1>1 DEF Paired
  <2>1. i \in 1 .. Len(b) /\ c[i] = b[i]
    BY <1>1
  <2>2. i % 2 # 1 => i - 1 \in 1 .. n
    BY <1>1
  <2> QED
    BY <1>1, <1>3, <2>1, <2>2 DEF Paired
<1> QED
  BY <1>1, <1>2, <1>3 DEF c

(* Nothing poured changes nothing. *)
LEMMA PouredNothing ==
  ASSUME NEW f, NEW pieces, pieces = << >>
  PROVE  Poured(f, pieces) = f
<1>1. pieces \in Seq(Piece) /\ Len(pieces) = 0
  OBVIOUS
<1>2. PICK after :
        /\ after = [i \in 0 .. Len(pieces) |-> IF i = 0 THEN f ELSE Append1(after[i - 1], pieces[i])]
        /\ Poured(f, pieces) = after[Len(pieces)]
  BY <1>1, PouredDefined
<1> QED
  BY <1>1, <1>2
-----------------------------------------------------------------------------
(* What the entry of a run is resolved to. *)
StateOf(c, ent) ==
  IF ent.state = "" /\ c.mode = "fleet" /\ c.stateDir THEN DeriveState[ent.input] ELSE ent.state

(* The out is the entry's own, the state path its own or the derived one. *)
LEMMA ResolvedFields ==
  ASSUME NEW c, NEW ent
  PROVE  Resolved(c, ent).out = ent.out /\ Resolved(c, ent).state = StateOf(c, ent)
<1> DEFINE repeats == ~(ent.once \/ c.once) /\ (ent.interval \/ c.interval)
<1>1. Resolved(c, ent) = [input |-> ent.input, out |-> ent.out, state |-> StateOf(c, ent), repeats |-> repeats]
  BY DEF Resolved, StateOf
<1> HIDE DEF repeats
<1> QED
  BY <1>1

(* A configuration has at least one run. *)
LEMMA FirstRun ==
  ASSUME TypeOK
  PROVE  1 \in Runs
<1>1. config.runs \in Seq(EntrySpace) \ {<< >>}
  BY ConfigsAssumption DEF TypeOK, ConfigSpace
<1> QED
  BY <1>1 DEF Runs

(* Where a run's sink, output and state file are. *)
LEMMA Places ==
  ASSUME TypeOK, NEW r \in Runs
  PROVE  /\ r \in Nat /\ r # 0
         /\ AllResolved # << >>
         /\ entries # << >> =>
              /\ DOMAIN entries = Runs
              /\ SinkOf(r) \in Sinks /\ Output(SinkOf(r)) \in Outputs
              /\ Entry(r).state # "" => File(r) \in Files
<1>1. /\ config \in ConfigSpace /\ config.runs \in Seq(EntrySpace) /\ Runs = 1 .. Len(config.runs)
      /\ config.runs[r] \in EntrySpace
  BY ConfigsAssumption DEF TypeOK, ConfigSpace, Runs
<1>2. r \in Nat /\ r # 0
  BY <1>1
<1>3. AllResolved # << >>
  <2>1. DOMAIN AllResolved = Runs /\ DOMAIN << >> = {}
    BY DEF AllResolved
  <2> QED
    BY <2>1
<1>4. ASSUME entries # << >>
      PROVE  /\ DOMAIN entries = Runs
             /\ SinkOf(r) \in Sinks /\ Output(SinkOf(r)) \in Outputs
             /\ Entry(r).state # "" => File(r) \in Files
  <2>1. entries = AllResolved /\ Entry(r) = Resolved(config, config.runs[r])
    BY <1>4 DEF TypeOK, AllResolved, Entry
  <2>2. DOMAIN entries = Runs
    BY <2>1 DEF AllResolved
  <2>5. /\ Entry(r).out = config.runs[r].out
        /\ Entry(r).state = StateOf(config, config.runs[r])
    BY <2>1, ResolvedFields
  <2>3. SinkOf(r) \in Sinks /\ Output(SinkOf(r)) \in Outputs
    <3>1. SinkOf(r) = 0 \/ SinkOf(r) = r
      BY DEF SinkOf
    <3>2. Output(SinkOf(r)) = config.out \/ Output(SinkOf(r)) = config.runs[r].out
      BY <2>5, <3>1 DEF Output
    <3> QED
      BY <3>1, <3>2 DEF Sinks, Outputs
  <2>4. ASSUME Entry(r).state # "" PROVE File(r) \in Files
    <3>1. Entry(r).state \in DOMAIN FileOf
      <4>1. /\ config.runs[r].state \in DOMAIN FileOf \cup {""}
            /\ config.mode = "fleet" /\ config.stateDir => DeriveState[config.runs[r].input] \in DOMAIN FileOf
        BY PathsAssumption DEF TypeOK, Runs
      <4> QED
        BY <2>5, <2>4, <4>1 DEF StateOf
    <3> QED
      BY <3>1 DEF File, Files, Range
  <2> QED
    BY <2>2, <2>3, <2>4
<1> QED
  BY <1>2, <1>3, <1>4

(* Two runs of one configuration have different state paths. *)
LEMMA StatesDiffer ==
  ASSUME TypeOK, entries # << >>, NEW r \in Runs, NEW q \in Runs, q # r
  PROVE  Entry(q).state # Entry(r).state
<1>1. entries = AllResolved /\ ~Refused(config, entries) /\ DOMAIN entries = Runs
  BY Places DEF TypeOK
<1>2. config.mode = "fleet"
  <2>1. config.mode \in {"fleet", "single"} /\ (config.mode = "single" => Runs = {1})
    <3>1. config \in ConfigSpace /\ (config.mode = "single" => Len(config.runs) = 1)
      BY ConfigsAssumption DEF TypeOK
    <3>2. config.mode \in {"fleet", "single"} /\ config.runs \in Seq(EntrySpace)
      BY <3>1 DEF ConfigSpace
    <3> QED
      BY <3>1, <3>2 DEF Runs
  <2> QED
    BY <2>1
<1> QED
  BY <1>1, <1>2 DEF Refused, Entry

(* A step of a run leaves the stage as it is. *)
LEMMA RunStage ==
  ASSUME StageInv, NEW r \in Runs, Drain(r) \/ Drive(r)
  PROVE  /\ entries # << >> /\ phase \in {"drive", "summary"}
         /\ UNCHANGED <<config, phase, entries, built, cancelled, exit, summary>>
<1>1. phase \in {"drive", "summary"} /\ Stands
  BY DEF Drain, Drive, StartDrain, LoadFails, EndPages, CountEvent, Lock, WriteHead, WriteTail, WriteFails, WriteTears,
     FlushWrites, FlushFails, FlushResets, SaveReturns, SaveFails, Returned, Wake, Interrupted, Goes
<1> QED
  BY <1>1 DEF Stands, StageInv

(* A piece is put into the buffer of the run's sink, or into its output. *)
LEMMA PutEffect ==
  ASSUME TypeOK, entries # << >>, NEW r \in Runs, NEW part \in {"head", "tail"}, Put(r, part)
  PROVE  LET piece == [line |-> LineOf(r, at[r] + 1), part |-> part] IN
         /\ piece \in Piece
         /\ config.buffered => /\ buf' = [buf EXCEPT ![SinkOf(r)] = Append(buf[SinkOf(r)], piece)]
                               /\ file' = file
         /\ ~config.buffered => /\ file' = [file EXCEPT ![Output(SinkOf(r))] = Append1(file[Output(SinkOf(r))], piece)]
                                /\ buf' = buf
         /\ buf' \in [Sinks -> Seq(Piece)] /\ file' \in [Outputs -> FileType]
<1> DEFINE piece == [line |-> LineOf(r, at[r] + 1), part |-> part]
<1>1. SinkOf(r) \in Sinks /\ Output(SinkOf(r)) \in Outputs /\ r \in Nat /\ at[r] + 1 \in Nat
  <2>1. SinkOf(r) \in Sinks /\ Output(SinkOf(r)) \in Outputs /\ r \in Nat
    BY Places
  <2> QED
    BY <2>1 DEF TypeOK
<1>2. piece \in Piece
  BY <1>1 DEF Piece, Line, LineOf
<1>3. CASE config.buffered
  <2>1. buf' = [buf EXCEPT ![SinkOf(r)] = Append(buf[SinkOf(r)], piece)] /\ file' = file
    BY <1>3 DEF Put, LineOf
  <2> QED
    BY <1>1, <1>2, <1>3, <2>1 DEF TypeOK
<1>4. CASE ~config.buffered
  <2>1. file' = [file EXCEPT ![Output(SinkOf(r))] = Append1(file[Output(SinkOf(r))], piece)] /\ buf' = buf
    BY <1>4 DEF Put, LineOf
  <2>2. Append1(file[Output(SinkOf(r))], piece) \in FileType
    <3>1. file[Output(SinkOf(r))] \in FileType
      BY <1>1 DEF TypeOK
    <3> HIDE DEF piece
    <3> QED
      BY <1>2, <3>1, Append1Type
  <2> QED
    BY <1>1, <1>2, <1>4, <2>1, <2>2 DEF TypeOK
<1> QED
  BY <1>3, <1>4

(* A Flush that fails: some of the buffer's pieces are written, none if it *)
(* had failed before.                                                       *)
LEMMA FlushFailing ==
  ASSUME TypeOK, StageInv, NEW r \in Runs, FlushFails(r), config.buffered
  PROVE  \E n \in 0 .. Len(buf[SinkOf(r)]) :
           /\ file' = [file EXCEPT ![Output(SinkOf(r))] = Poured(file[Output(SinkOf(r))], SubSeq(buf[SinkOf(r)], 1, n))]
           /\ broken' = [broken EXCEPT ![SinkOf(r)] = TRUE]
           /\ broken[SinkOf(r)] => n = 0
<1>1. PICK n \in 0 .. (IF broken[SinkOf(r)] THEN 0 ELSE Len(buf[SinkOf(r)])) :
        /\ file' = [file EXCEPT ![Output(SinkOf(r))] = Poured(file[Output(SinkOf(r))], SubSeq(buf[SinkOf(r)], 1, n))]
        /\ broken' = [broken EXCEPT ![SinkOf(r)] = TRUE]
  BY DEF FlushFails, Breaks
<1>2. entries # << >>
  BY RunStage DEF Drain
<1>3. Len(buf[SinkOf(r)]) \in Nat
  <2>1. SinkOf(r) \in Sinks
    BY <1>2, Places
  <2>2. buf \in [Sinks -> Seq(Piece)]
    BY DEF TypeOK
  <2>3. buf[SinkOf(r)] \in Seq(Piece)
    BY <2>1, <2>2
  <2> QED
    BY <2>3
<1>4. n \in 0 .. Len(buf[SinkOf(r)]) /\ (broken[SinkOf(r)] => n = 0)
  BY <1>1, <1>3
<1> QED
  BY <1>1, <1>4

(* Every step of a run keeps the types. *)
LEMMA RunTypeOK ==
  ASSUME TypeOK, StageInv, NEW r \in Runs, Drain(r) \/ Drive(r)
  PROVE  TypeOK'
<1>1. /\ entries # << >> /\ UNCHANGED <<config, phase, entries, built, cancelled, exit, summary>>
  BY RunStage
<1>2. Runs' = Runs /\ Files' = Files /\ Sinks' = Sinks /\ Outputs' = Outputs /\ AllResolved' = AllResolved
  BY <1>1 DEF Runs, Files, Sinks, Outputs, AllResolved, Range
<1>3. /\ (config \in Configs)'
      /\ (phase \in Phases /\ cancelled \in BOOLEAN /\ built \in Nat /\ exit \in Int)'
      /\ (entries = << >> \/ (entries = AllResolved /\ ~Refused(config, entries)))'
  BY <1>1, <1>2 DEF TypeOK
<1>4. /\ SinkOf(r) \in Sinks /\ Output(SinkOf(r)) \in Outputs
      /\ Entry(r).state # "" => File(r) \in Files
  BY <1>1, Places
<1>5. ASSUME pc' \in [Runs -> Pcs], failed' \in [Runs -> BOOLEAN],
             at' \in [Runs -> Nat], sent' \in [Runs -> Nat], mine' \in [Runs -> Nat],
             counted' \in [Runs -> Nat], drains' \in [Runs -> Nat], errors' \in [Runs -> Nat],
             saved' \in [Files -> Nat], lock' \in [Sinks -> Runs \cup {0}],
             file' \in [Outputs -> FileType], buf' \in [Sinks -> Seq(Piece)],
             broken' \in [Sinks -> BOOLEAN]
      PROVE  TypeOK'
  BY <1>2, <1>3, <1>5 DEF TypeOK
<1>6. CASE StartDrain(r)
  <2>1. Loaded(r) \in Nat
    BY <1>4 DEF Loaded, TypeOK
  <2>2. failed' \in [Runs -> BOOLEAN]
    BY <1>6 DEF StartDrain, TypeOK
  <2>3. /\ pc' = [pc EXCEPT ![r] = "page"] /\ drains' = [drains EXCEPT ![r] = @ + 1]
        /\ at' = [at EXCEPT ![r] = Loaded(r)] /\ sent' = [sent EXCEPT ![r] = 0]
        /\ UNCHANGED <<counted, errors, saved, mine, lock, file, buf, broken>>
    BY <1>6 DEF StartDrain, Goes
  <2>4. /\ pc' \in [Runs -> Pcs] /\ drains' \in [Runs -> Nat]
        /\ at' \in [Runs -> Nat] /\ sent' \in [Runs -> Nat]
    BY <2>1, <2>3 DEF TypeOK, Pcs
  <2> QED
    BY <1>5, <2>2, <2>3, <2>4 DEF TypeOK
<1>7. CASE LoadFails(r)
  <2>1. failed' \in [Runs -> BOOLEAN]
    BY <1>7 DEF LoadFails, TypeOK
  <2>2. pc' \in [Runs -> Pcs] /\ drains' \in [Runs -> Nat]
    <3>1. pc' = [pc EXCEPT ![r] = "returned"] /\ drains' = [drains EXCEPT ![r] = @ + 1]
      BY <1>7 DEF LoadFails, Goes
    <3> QED
      BY <3>1 DEF TypeOK, Pcs
  <2>3. UNCHANGED <<at, sent, counted, errors, saved, mine, lock, file, buf, broken>>
    BY <1>7 DEF LoadFails
  <2> QED
    BY <1>5, <2>1, <2>2, <2>3 DEF TypeOK
<1>8. ASSUME NEW fails \in BOOLEAN, EndPages(r, fails) PROVE TypeOK'
  <2>1. failed' \in [Runs -> BOOLEAN]
    BY <1>8 DEF EndPages, TypeOK
  <2>2. pc' \in [Runs -> Pcs]
    BY <1>8 DEF EndPages, Goes, TypeOK, Pcs
  <2>3. UNCHANGED <<at, sent, counted, drains, errors, saved, mine, lock, file, buf, broken>>
    BY <1>8 DEF EndPages
  <2> QED
    BY <1>5, <2>1, <2>2, <2>3 DEF TypeOK
<1>9. CASE CountEvent(r)
  <2>1. /\ pc' = [pc EXCEPT ![r] = "lock"]
        /\ sent' = [sent EXCEPT ![r] = @ + 1] /\ counted' = [counted EXCEPT ![r] = @ + 1]
        /\ UNCHANGED <<at, failed, drains, errors, saved, mine, lock, file, buf, broken>>
    BY <1>9 DEF CountEvent, Goes
  <2>2. pc' \in [Runs -> Pcs]
    BY <2>1 DEF TypeOK, Pcs
  <2>3. sent' \in [Runs -> Nat] /\ counted' \in [Runs -> Nat]
    BY <2>1 DEF TypeOK
  <2> QED
    BY <1>5, <2>1, <2>2, <2>3 DEF TypeOK
<1>10. CASE Lock(r)
  BY <1>4, <1>5, <1>10 DEF Lock, Goes, TypeOK, Pcs
<1>11. CASE WriteHead(r)
  <2>1. buf' \in [Sinks -> Seq(Piece)] /\ file' \in [Outputs -> FileType]
    BY <1>1, <1>11, PutEffect DEF WriteHead
  <2> QED
    BY <1>5, <1>11, <2>1 DEF WriteHead, Goes, TypeOK, Pcs
<1>12. CASE WriteTail(r)
  <2>1. buf' \in [Sinks -> Seq(Piece)] /\ file' \in [Outputs -> FileType]
    BY <1>1, <1>12, PutEffect DEF WriteTail
  <2>2. pc' \in [Runs -> Pcs] /\ at' \in [Runs -> Nat]
    BY <1>12 DEF WriteTail, Goes, TypeOK, Pcs
  <2>3. lock' \in [Sinks -> Runs \cup {0}]
    <3>1. lock' = [lock EXCEPT ![SinkOf(r)] = 0]
      BY <1>12 DEF WriteTail
    <3> QED
      BY <3>1 DEF TypeOK
  <2>4. UNCHANGED <<failed, sent, counted, drains, errors, saved, mine, broken>>
    BY <1>12 DEF WriteTail
  <2> QED
    BY <1>5, <2>1, <2>2, <2>3, <2>4 DEF TypeOK
<1>13. CASE WriteFails(r) \/ WriteTears(r)
  <2>1. \E v \in BOOLEAN : broken' = [broken EXCEPT ![SinkOf(r)] = v]
    BY <1>4, <1>13 DEF WriteFails, WriteTears, Breaks, TypeOK
  <2>2. broken' \in [Sinks -> BOOLEAN]
    BY <2>1 DEF TypeOK
  <2>3. /\ pc' = [pc EXCEPT ![r] = "flush"] /\ failed' = [failed EXCEPT ![r] = TRUE]
        /\ lock' = [lock EXCEPT ![SinkOf(r)] = 0]
        /\ UNCHANGED <<at, sent, counted, drains, errors, saved, mine, file, buf>>
    BY <1>13 DEF WriteFails, WriteTears, Goes
  <2>4. /\ pc' \in [Runs -> Pcs] /\ failed' \in [Runs -> BOOLEAN]
        /\ lock' \in [Sinks -> Runs \cup {0}]
    BY <2>3 DEF TypeOK, Pcs
  <2> QED
    BY <1>5, <2>2, <2>3, <2>4 DEF TypeOK
<1>14. CASE FlushWrites(r)
  <2>1. file' = [file EXCEPT ![Output(SinkOf(r))] = Poured(file[Output(SinkOf(r))], buf[SinkOf(r)])]
    BY <1>14 DEF FlushWrites
  <2>2. Poured(file[Output(SinkOf(r))], buf[SinkOf(r)]) \in FileType
    BY <1>4, PouredGrows DEF TypeOK
  <2>3. file' \in [Outputs -> FileType]
    BY <1>4, <2>1, <2>2 DEF TypeOK
  <2>4. pc' \in [Runs -> Pcs]
    BY <1>14 DEF FlushWrites, Goes, TypeOK, Pcs
  <2> QED
    BY <1>5, <1>14, <2>3, <2>4 DEF FlushWrites, TypeOK
<1>15. CASE FlushFails(r)
  <2>1. /\ pc' = [pc EXCEPT ![r] = "save"] /\ failed' = [failed EXCEPT ![r] = TRUE]
        /\ UNCHANGED <<at, sent, counted, drains, errors, saved, mine, lock, buf>>
    BY <1>15 DEF FlushFails, Goes
  <2>2. pc' \in [Runs -> Pcs] /\ failed' \in [Runs -> BOOLEAN]
    BY <2>1 DEF TypeOK, Pcs
  <2>3. file' \in [Outputs -> FileType] /\ broken' \in [Sinks -> BOOLEAN]
    <3>1. CASE ~config.buffered
      BY <1>15, <3>1 DEF FlushFails, TypeOK
    <3>2. CASE config.buffered
      <4>1. PICK n \in 0 .. Len(buf[SinkOf(r)]) :
              /\ file' = [file EXCEPT ![Output(SinkOf(r))] = Poured(file[Output(SinkOf(r))], SubSeq(buf[SinkOf(r)], 1, n))]
              /\ broken' = [broken EXCEPT ![SinkOf(r)] = TRUE]
        BY <1>15, <3>2, FlushFailing
      <4>2. file[Output(SinkOf(r))] \in FileType /\ SubSeq(buf[SinkOf(r)], 1, n) \in Seq(Piece)
        BY <1>4, FirstPieces DEF TypeOK
      <4>3. Poured(file[Output(SinkOf(r))], SubSeq(buf[SinkOf(r)], 1, n)) \in FileType
        BY <4>2, PouredGrows
      <4> QED
        BY <4>1, <4>3 DEF TypeOK
    <3> QED
      BY <3>1, <3>2
  <2> QED
    BY <1>5, <2>1, <2>2, <2>3 DEF TypeOK
<1>16. CASE FlushResets(r)
  <2>1. buf' \in [Sinks -> Seq(Piece)]
    <3>1. << >> \in Seq(Piece) /\ buf' = [buf EXCEPT ![SinkOf(r)] = << >>]
      BY <1>16 DEF FlushResets
    <3> QED
      BY <3>1 DEF TypeOK
  <2> QED
    BY <1>5, <1>16, <2>1 DEF FlushResets, Goes, TypeOK, Pcs
<1>17. CASE SaveReturns(r)
  <2>1. /\ pc' = [pc EXCEPT ![r] = "returned"] /\ mine' = [mine EXCEPT ![r] = at[r]]
        /\ saved' = (IF Entry(r).state = "" THEN saved ELSE [saved EXCEPT ![File(r)] = at[r]])
        /\ UNCHANGED <<at, failed, sent, counted, drains, errors, lock, file, buf, broken>>
    BY <1>17 DEF SaveReturns, Goes
  <2>2. pc' \in [Runs -> Pcs]
    BY <2>1 DEF TypeOK, Pcs
  <2>3. mine' \in [Runs -> Nat]
    BY <2>1 DEF TypeOK
  <2>4. saved' \in [Files -> Nat]
    <3>1. saved \in [Files -> Nat] /\ at[r] \in Nat
      BY DEF TypeOK
    <3> QED
      BY <1>4, <2>1, <3>1
  <2>5. UNCHANGED <<at, failed, sent, counted, drains, errors, lock, file, buf, broken>>
    BY <2>1
  <2> QED
    BY <1>5, <2>2, <2>3, <2>4, <2>5 DEF TypeOK
<1>18. CASE SaveFails(r)
  BY <1>5, <1>18 DEF SaveFails, Goes, TypeOK, Pcs
<1>19. CASE Returned(r)
  <2>1. pc' \in [Runs -> Pcs]
    BY <1>19 DEF Returned, Goes, TypeOK, Pcs
  <2>2. errors' \in [Runs -> Nat]
    <3>1. errors' = [errors EXCEPT ![r] = @ + 1] \/ errors' = errors
      BY <1>19 DEF Returned, TypeOK
    <3>2. errors \in [Runs -> Nat]
      BY DEF TypeOK
    <3> QED
      BY <3>1, <3>2
  <2>3. UNCHANGED <<at, failed, sent, counted, drains, saved, mine, lock, file, buf, broken>>
    BY <1>19 DEF Returned
  <2> QED
    BY <1>5, <2>1, <2>2, <2>3 DEF TypeOK
<1>20. CASE Wake(r)
  BY <1>5, <1>20 DEF Wake, Goes, TypeOK, Pcs
<1>21. CASE Interrupted(r)
  BY <1>5, <1>21 DEF Interrupted, Goes, TypeOK, Pcs
<1> QED
  BY <1>6, <1>7, <1>8, <1>9, <1>10, <1>11, <1>12, <1>13, <1>14, <1>15, <1>16, <1>17, <1>18,
     <1>19, <1>20, <1>21 DEF Drain, Drive

(* Where a run writes and saves follows from the configuration. *)
LEMMA SamePlaces ==
  ASSUME UNCHANGED <<config, entries>>
  PROVE  /\ Runs' = Runs /\ Sinks' = Sinks /\ Outputs' = Outputs /\ Files' = Files
         /\ \A q : /\ Entry(q)' = Entry(q) /\ File(q)' = File(q) /\ SinkOf(q)' = SinkOf(q)
                   /\ Output(SinkOf(q))' = Output(SinkOf(q))
                   /\ SharesSink(q)' <=> SharesSink(q)
                   /\ SharesOutput(q)' <=> SharesOutput(q)
                   /\ Aliased(q)' <=> Aliased(q)
                   /\ OneShot(q)' <=> OneShot(q)
<1>1. Runs' = Runs /\ Sinks' = Sinks /\ Outputs' = Outputs /\ Files' = Files
  BY DEF Runs, Sinks, Outputs, Files, Range
<1>2. \A q : Entry(q)' = Entry(q) /\ File(q)' = File(q) /\ SinkOf(q)' = SinkOf(q)
  BY DEF Entry, File, SinkOf
<1>3. \A q : Output(q)' = Output(q)
  BY DEF Output, Entry
<1>4. \A q : Output(SinkOf(q))' = Output(SinkOf(q))
  BY <1>2, <1>3 DEF Output, Entry, SinkOf
<1>5. \A q : /\ SharesSink(q)' <=> SharesSink(q)
             /\ SharesOutput(q)' <=> SharesOutput(q)
             /\ Aliased(q)' <=> Aliased(q)
  <2>1. \A q : SharesSink(q)' <=> SharesSink(q)
    BY <1>1, <1>2 DEF SharesSink
  <2>2. \A q : SharesOutput(q)' <=> SharesOutput(q)
    BY <1>1, <1>2, <1>4 DEF SharesOutput
  <2>3. \A q : Aliased(q)' <=> Aliased(q)
    BY <1>1, <1>2 DEF Aliased
  <2> QED
    BY <2>1, <2>2, <2>3
<1>6. \A q : OneShot(q)' <=> OneShot(q)
  BY DEF OneShot, Entry
<1> QED
  BY <1>1, <1>2, <1>4, <1>5, <1>6

(* What a step of a run leaves alone: the other runs, and all of the       *)
(* shared state but what the step is there to change.                      *)
LEMMA RunFrame ==
  ASSUME TypeOK, StageInv, NEW r \in Runs, Drain(r) \/ Drive(r)
  PROVE  /\ \A q \in Runs \ {r} :
              /\ pc'[q] = pc[q] /\ at'[q] = at[q] /\ sent'[q] = sent[q] /\ failed'[q] = failed[q]
              /\ counted'[q] = counted[q] /\ drains'[q] = drains[q] /\ errors'[q] = errors[q]
              /\ mine'[q] = mine[q]
         /\ pc'[r] \in Pcs /\ pc[r] \notin {"idle", "done"} /\ pc'[r] \notin {"idle"}
         /\ \/ Lock(r) \/ WriteHead(r) \/ WriteTail(r) \/ WriteFails(r) \/ WriteTears(r)
            \/ lock' = lock /\ pc[r] \notin {"head", "tail"} /\ pc'[r] \notin {"head", "tail"}
         /\ WriteHead(r) \/ WriteTail(r) \/ FlushWrites(r) \/ FlushFails(r) \/ FlushResets(r) \/ UNCHANGED <<file, buf>>
         /\ StartDrain(r) \/ WriteTail(r) \/ at' = at
         /\ SaveReturns(r) \/ UNCHANGED <<mine, saved>>
         /\ \/ broken' = broken
            \/ /\ WriteFails(r) \/ WriteTears(r) \/ FlushFails(r)
               /\ broken' = [broken EXCEPT ![SinkOf(r)] = TRUE]
<1> DEFINE Others(f, g) == \A q \in Runs \ {r} : g[q] = f[q]
<1>1. Others(pc, pc') /\ pc'[r] \in Pcs /\ pc[r] \notin {"idle", "done"} /\ pc'[r] # "idle"
  BY DEF Drain, Drive, StartDrain, LoadFails, EndPages, CountEvent, Lock, WriteHead, WriteTail, WriteFails, WriteTears,
     FlushWrites, FlushFails, FlushResets, SaveReturns, SaveFails, Returned, Wake, Interrupted, Goes, TypeOK, Pcs
<1>2. Others(at, at') /\ Others(sent, sent') /\ Others(counted, counted')
  BY DEF Drain, Drive, StartDrain, LoadFails, EndPages, CountEvent, Lock, WriteHead, WriteTail, WriteFails, WriteTears,
     FlushWrites, FlushFails, FlushResets, SaveReturns, SaveFails, Returned, Wake, Interrupted, TypeOK
<1>3. Others(drains, drains') /\ Others(errors, errors') /\ Others(mine, mine')
  BY DEF Drain, Drive, StartDrain, LoadFails, EndPages, CountEvent, Lock, WriteHead, WriteTail, WriteFails, WriteTears,
     FlushWrites, FlushFails, FlushResets, SaveReturns, SaveFails, Returned, Wake, Interrupted, TypeOK
<1>4. Others(failed, failed')
  BY DEF Drain, Drive, StartDrain, LoadFails, EndPages, CountEvent, Lock, WriteHead, WriteTail, WriteFails, WriteTears,
     FlushWrites, FlushFails, FlushResets, SaveReturns, SaveFails, Returned, Wake, Interrupted, TypeOK
<1>5. \/ Lock(r) \/ WriteHead(r) \/ WriteTail(r) \/ WriteFails(r) \/ WriteTears(r)
      \/ lock' = lock /\ pc[r] \notin {"head", "tail"} /\ pc'[r] \notin {"head", "tail"}
  BY DEF Drain, Drive, StartDrain, LoadFails, EndPages, CountEvent,
     FlushWrites, FlushFails, FlushResets, SaveReturns, SaveFails, Returned, Wake, Interrupted, Goes, TypeOK
<1>6. WriteHead(r) \/ WriteTail(r) \/ FlushWrites(r) \/ FlushFails(r) \/ FlushResets(r) \/ UNCHANGED <<file, buf>>
  BY DEF Drain, Drive, StartDrain, LoadFails, EndPages, CountEvent, Lock, WriteFails, WriteTears,
     SaveReturns, SaveFails, Returned, Wake, Interrupted
<1>7. StartDrain(r) \/ WriteTail(r) \/ at' = at
  BY DEF Drain, Drive, LoadFails, EndPages, CountEvent, Lock, WriteHead, WriteFails, WriteTears,
     FlushWrites, FlushFails, FlushResets, SaveReturns, SaveFails, Returned, Wake, Interrupted
<1>8. SaveReturns(r) \/ UNCHANGED <<mine, saved>>
  BY DEF Drain, Drive, StartDrain, LoadFails, EndPages, CountEvent, Lock, WriteHead, WriteTail, WriteFails, WriteTears,
     FlushWrites, FlushFails, FlushResets, SaveFails, Returned, Wake, Interrupted
<1>9. \/ broken' = broken
      \/ /\ WriteFails(r) \/ WriteTears(r) \/ FlushFails(r)
         /\ broken' = [broken EXCEPT ![SinkOf(r)] = TRUE]
  <2>1. CASE WriteFails(r) \/ WriteTears(r) \/ FlushFails(r)
    <3>1. SinkOf(r) \in Sinks
      BY RunStage, Places
    <3>2. broken[SinkOf(r)] \in BOOLEAN /\ [broken EXCEPT ![SinkOf(r)] = broken[SinkOf(r)]] = broken
      BY <3>1 DEF TypeOK
    <3> QED
      BY <2>1, <3>2 DEF WriteFails, WriteTears, FlushFails, Breaks
  <2>2. CASE ~WriteFails(r) /\ ~WriteTears(r) /\ ~FlushFails(r)
    BY <2>2 DEF Drain, Drive, StartDrain, LoadFails, EndPages, CountEvent, Lock, WriteHead, WriteTail,
       FlushWrites, FlushResets, SaveReturns, SaveFails, Returned, Wake, Interrupted
  <2> QED
    BY <2>1, <2>2
<1> QED
  BY <1>1, <1>2, <1>3, <1>4, <1>5, <1>6, <1>7, <1>8, <1>9

(* A failed writer stays failed, and only its own runs' writers fail. *)
LEMMA BreaksFrame ==
  ASSUME TypeOK, StageInv, NEW r \in Runs, Drain(r) \/ Drive(r), NEW p \in Runs
  PROVE  /\ broken[SinkOf(p)] => broken'[SinkOf(p)]
         /\ SinkOf(r) # SinkOf(p) => broken'[SinkOf(p)] = broken[SinkOf(p)]
<1>1. SinkOf(p) \in Sinks /\ SinkOf(r) \in Sinks
  BY RunStage, Places
<1>2. broken' = broken \/ broken' = [broken EXCEPT ![SinkOf(r)] = TRUE]
  BY RunFrame
<1> QED
  BY <1>1, <1>2 DEF TypeOK

(* The mutex excludes: two runs of one sink never write at the same time. *)
LEMMA Excludes ==
  ASSUME TypeOK, MutexInv, entries # << >>, NEW r \in Runs, NEW q \in Runs,
         pc[r] \in {"head", "tail"}, pc[q] \in {"head", "tail"}, SinkOf(q) = SinkOf(r)
  PROVE  q = r
  BY DEF MutexInv

(* Every step of a run keeps the mutex with the run that writes. *)
LEMMA RunMutex ==
  ASSUME TypeOK, StageInv, MutexInv, NEW r \in Runs, Drain(r) \/ Drive(r)
  PROVE  MutexInv'
<1>1. entries # << >> /\ UNCHANGED <<config, entries>>
  BY RunStage
<1>2. /\ \A q \in Runs \ {r} : pc'[q] = pc[q]
      /\ \/ Lock(r) \/ WriteHead(r) \/ WriteTail(r) \/ WriteFails(r) \/ WriteTears(r)
         \/ lock' = lock /\ pc[r] \notin {"head", "tail"} /\ pc'[r] \notin {"head", "tail"}
  BY RunFrame
<1>3. Runs' = Runs /\ \A q : SinkOf(q)' = SinkOf(q)
  BY <1>1, SamePlaces
<1>4. \A q \in Runs : q # 0 /\ SinkOf(q) \in Sinks /\ (pc[q] \in {"head", "tail"} <=> lock[SinkOf(q)] = q)
  BY <1>1, Places DEF MutexInv
<1>5. SUFFICES ASSUME NEW q \in Runs
               PROVE  pc'[q] \in {"head", "tail"} <=> lock'[SinkOf(q)] = q
  BY <1>3 DEF MutexInv
<1>6. CASE Lock(r)
  <2>1. lock[SinkOf(r)] = 0 /\ lock' = [lock EXCEPT ![SinkOf(r)] = r] /\ pc' = [pc EXCEPT ![r] = "head"]
    BY <1>6 DEF Lock, Goes
  <2> QED
    BY <1>2, <1>4, <2>1 DEF TypeOK
<1>7. CASE WriteHead(r)
  <2>1. pc[r] = "head" /\ pc' = [pc EXCEPT ![r] = "tail"] /\ lock' = lock
    BY <1>7 DEF WriteHead, Goes
  <2> QED
    BY <1>2, <1>4, <2>1 DEF TypeOK
<1>8. CASE WriteTail(r) \/ WriteFails(r) \/ WriteTears(r)
  <2>1. /\ pc[r] \in {"head", "tail"} /\ lock' = [lock EXCEPT ![SinkOf(r)] = 0]
        /\ pc' = [pc EXCEPT ![r] = "page"] \/ pc' = [pc EXCEPT ![r] = "flush"]
    BY <1>8 DEF WriteTail, WriteFails, WriteTears, Goes
  <2>2. pc'[r] \notin {"head", "tail"}
    BY <2>1 DEF TypeOK
  <2> QED
    BY <1>2, <1>4, <2>1, <2>2 DEF TypeOK
<1>9. CASE lock' = lock /\ pc[r] \notin {"head", "tail"} /\ pc'[r] \notin {"head", "tail"}
  BY <1>2, <1>4, <1>9
<1> QED
  BY <1>2, <1>6, <1>7, <1>8, <1>9

(* A run that is alone with its output is not written to by another sink. *)
LEMMA OtherOutput ==
  ASSUME NEW r \in Runs, NEW p \in Runs, ~SharesOutput(p), SinkOf(r) # SinkOf(p)
  PROVE  Output(SinkOf(r)) # Output(SinkOf(p))
  BY DEF SharesOutput

(* Without a buffer every step of a run keeps the lines whole. *)
LEMMA RunPlain ==
  ASSUME TypeOK, StageInv, MutexInv, PlainInv, NEW r \in Runs, Drain(r) \/ Drive(r)
  PROVE  PlainInv'
<1>1. entries # << >> /\ UNCHANGED <<config, entries>>
  BY RunStage
<1>2. /\ \A q \in Runs \ {r} : pc'[q] = pc[q] /\ at'[q] = at[q]
      /\ pc'[r] \in Pcs
      /\ \/ Lock(r) \/ WriteHead(r) \/ WriteTail(r) \/ WriteFails(r) \/ WriteTears(r)
         \/ lock' = lock /\ pc[r] \notin {"head", "tail"} /\ pc'[r] \notin {"head", "tail"}
      /\ WriteHead(r) \/ WriteTail(r) \/ FlushWrites(r) \/ FlushFails(r) \/ FlushResets(r) \/ UNCHANGED <<file, buf>>
  BY RunFrame
<1>3. /\ Runs' = Runs /\ Sinks' = Sinks
      /\ \A q : /\ SinkOf(q)' = SinkOf(q) /\ Output(SinkOf(q))' = Output(SinkOf(q))
                /\ SharesOutput(q)' <=> SharesOutput(q)
  BY <1>1, SamePlaces
<1>4. SUFFICES ASSUME ~config.buffered
               PROVE  /\ \A s \in Sinks : buf'[s] = << >>
                      /\ \A p \in Runs : ~SharesOutput(p) =>
                           LET f == file'[Output(SinkOf(p))] IN
                           /\ ~f.torn
                           /\ \A q \in Runs : SinkOf(q) = SinkOf(p) /\ pc'[q] = "tail" => f.begun = LineOf(q, at'[q] + 1)
                           /\ ~broken'[SinkOf(p)] /\ (\A q \in Runs : SinkOf(q) = SinkOf(p) => pc'[q] # "tail")
                                => f.begun = NoLine
  BY <1>1, <1>3 DEF PlainInv
<1>5. \A s \in Sinks : buf[s] = << >>
  BY <1>1, <1>4 DEF PlainInv
<1>6. SinkOf(r) \in Sinks /\ Output(SinkOf(r)) \in Outputs
  BY <1>1, Places
<1>7. \A s \in Sinks : buf'[s] = << >>
  <2>1. CASE WriteHead(r) \/ WriteTail(r)
    <3>1. buf' = buf
      BY <1>1, <1>4, <2>1, PutEffect DEF WriteHead, WriteTail
    <3> QED
      BY <1>5, <3>1
  <2>2. CASE FlushWrites(r)
    BY <1>5, <2>2 DEF FlushWrites
  <2>3. CASE FlushResets(r)
    <3>1. buf' = [buf EXCEPT ![SinkOf(r)] = << >>]
      BY <2>3 DEF FlushResets
    <3> QED
      BY <1>5, <3>1 DEF TypeOK
  <2>4. CASE FlushFails(r)
    BY <1>5, <2>4 DEF FlushFails
  <2>5. CASE UNCHANGED <<file, buf>>
    BY <1>5, <2>5
  <2> QED
    BY <1>2, <2>1, <2>2, <2>3, <2>4, <2>5
<1>8. ASSUME NEW p \in Runs, ~SharesOutput(p)
      PROVE  LET f == file'[Output(SinkOf(p))] IN
             /\ ~f.torn
             /\ \A q \in Runs : SinkOf(q) = SinkOf(p) /\ pc'[q] = "tail" => f.begun = LineOf(q, at'[q] + 1)
             /\ ~broken'[SinkOf(p)] /\ (\A q \in Runs : SinkOf(q) = SinkOf(p) => pc'[q] # "tail")
                  => f.begun = NoLine
  <2> DEFINE o == Output(SinkOf(p))
  <2>1. /\ ~file[o].torn
        /\ \A q \in Runs : SinkOf(q) = SinkOf(p) /\ pc[q] = "tail" => file[o].begun = LineOf(q, at[q] + 1)
        /\ ~broken[SinkOf(p)] /\ (\A q \in Runs : SinkOf(q) = SinkOf(p) => pc[q] # "tail")
             => file[o].begun = NoLine
    BY <1>1, <1>4, <1>8 DEF PlainInv
  <2>0. broken[SinkOf(p)] => broken'[SinkOf(p)]
    BY BreaksFrame
  <2>2. o \in Outputs /\ file[o] \in FileType
    BY <1>1, Places DEF TypeOK
  <2>3. SinkOf(r) # SinkOf(p) => Output(SinkOf(r)) # o
    BY <1>8, OtherOutput
  <2> HIDE DEF o
  <2>4. CASE WriteHead(r)
    <3> DEFINE piece == [line |-> LineOf(r, at[r] + 1), part |-> "head"]
    <3>1. /\ pc[r] = "head" /\ pc' = [pc EXCEPT ![r] = "tail"] /\ at' = at
          /\ file' = [file EXCEPT ![Output(SinkOf(r))] = Append1(file[Output(SinkOf(r))], piece)]
          /\ ~broken[SinkOf(r)]
      BY <1>1, <1>4, <2>4, PutEffect DEF WriteHead, Goes
    <3>2. CASE SinkOf(r) = SinkOf(p)
      <4>1. \A q \in Runs : SinkOf(q) = SinkOf(p) => pc[q] # "tail"
        BY <1>1, <3>1, <3>2, Excludes
      <4>2. file[o].begun = NoLine
        BY <2>1, <3>1, <3>2, <4>1
      <4>3. file'[o] = [file[o] EXCEPT !.begun = LineOf(r, at[r] + 1), !.torn = @ \/ file[o].begun # NoLine]
        BY <2>2, <3>1, <3>2 DEF Append1, TypeOK, o
      <4>4. file'[o].begun = LineOf(r, at[r] + 1) /\ ~file'[o].torn
        BY <2>1, <2>2, <4>2, <4>3 DEF FileType
      <4>5. pc'[r] = "tail" /\ \A q \in Runs : SinkOf(q) = SinkOf(p) /\ pc'[q] = "tail" => q = r
        BY <3>1, <4>1 DEF TypeOK
      <4> QED
        BY <3>1, <3>2, <4>4, <4>5 DEF o
    <3>3. CASE SinkOf(r) # SinkOf(p)
      <4>1. file'[o] = file[o]
        BY <2>2, <2>3, <3>1, <3>3 DEF TypeOK
      <4> QED
        BY <1>2, <2>0, <2>1, <3>3, <4>1 DEF o
    <3> QED
      BY <3>2, <3>3
  <2>5. CASE WriteTail(r)
    <3> DEFINE piece == [line |-> LineOf(r, at[r] + 1), part |-> "tail"]
    <3>1. /\ pc[r] = "tail" /\ pc' = [pc EXCEPT ![r] = "page"]
          /\ file' = [file EXCEPT ![Output(SinkOf(r))] = Append1(file[Output(SinkOf(r))], piece)]
      BY <1>1, <1>4, <2>5, PutEffect DEF WriteTail, Goes
    <3>2. CASE SinkOf(r) = SinkOf(p)
      <4>1. file[o].begun = LineOf(r, at[r] + 1)
        BY <2>1, <3>1, <3>2
      <4>2. file'[o] =
              [lines |-> IF file[o].begun = LineOf(r, at[r] + 1) THEN file[o].lines \cup {LineOf(r, at[r] + 1)}
                         ELSE file[o].lines,
               begun |-> NoLine, torn |-> file[o].torn \/ file[o].begun # LineOf(r, at[r] + 1)]
        BY <2>2, <3>1, <3>2 DEF Append1, TypeOK, o
      <4>3. file'[o].begun = NoLine /\ ~file'[o].torn
        <5>1. file[o].torn \in BOOLEAN
          BY <2>2 DEF FileType
        <5>2. (file[o].torn \/ FALSE) = file[o].torn
          BY <5>1
        <5>3. file'[o] = [lines |-> file[o].lines \cup {LineOf(r, at[r] + 1)}, begun |-> NoLine, torn |-> file[o].torn]
          BY <4>1, <4>2, <5>2
        <5> QED
          BY <2>1, <5>3
      <4>4. \A q \in Runs : SinkOf(q) = SinkOf(p) => pc'[q] # "tail"
        BY <1>1, <3>1, <3>2, Excludes DEF TypeOK
      <4> QED
        BY <4>3, <4>4 DEF o
    <3>3. CASE SinkOf(r) # SinkOf(p)
      <4>1. file'[o] = file[o]
        BY <2>2, <2>3, <3>1, <3>3 DEF TypeOK
      <4> QED
        BY <1>2, <2>0, <2>1, <3>3, <4>1 DEF o
    <3> QED
      BY <3>2, <3>3
  <2>6. CASE ~WriteHead(r) /\ ~WriteTail(r)
    <3>1. pc'[r] # "tail" /\ (pc[r] # "tail" \/ (WriteTears(r) /\ broken'[SinkOf(r)]))
      <4>1. CASE WriteTears(r)
        BY <1>6, <4>1 DEF WriteTears, Breaks, Goes, TypeOK
      <4>2. CASE ~WriteTears(r)
        BY <1>2, <2>6, <4>2 DEF Lock, WriteFails, Goes, TypeOK
      <4> QED
        BY <4>1, <4>2
    <3>2. file' = file
      <4>1. CASE FlushWrites(r)
        <5>1. file' = [file EXCEPT ![Output(SinkOf(r))] = Poured(file[Output(SinkOf(r))], buf[SinkOf(r)])]
          BY <4>1 DEF FlushWrites
        <5>2. Poured(file[Output(SinkOf(r))], buf[SinkOf(r)]) = file[Output(SinkOf(r))]
          BY <1>5, <1>6, PouredNothing
        <5> QED
          BY <1>6, <5>1, <5>2 DEF TypeOK
      <4>2. CASE FlushResets(r)
        BY <4>2 DEF FlushResets
      <4>3. CASE FlushFails(r)
        BY <1>4, <4>3 DEF FlushFails
      <4> QED
        BY <1>2, <2>6, <4>1, <4>2, <4>3
    <3>3. \A q \in Runs : pc'[q] = "tail" => pc[q] = "tail" /\ at'[q] = at[q]
      BY <1>2, <3>1
    <3>4. ASSUME ~broken'[SinkOf(p)], \A q \in Runs : SinkOf(q) = SinkOf(p) => pc'[q] # "tail"
          PROVE  file[o].begun = NoLine
      <4>1. \A q \in Runs : SinkOf(q) = SinkOf(p) => pc[q] # "tail"
        BY <1>2, <3>1, <3>4
      <4> QED
        BY <2>0, <2>1, <3>4, <4>1
    <3> QED
      BY <2>1, <3>2, <3>3, <3>4 DEF o
  <2> QED
    BY <2>4, <2>5, <2>6
<1> QED
  BY <1>7, <1>8

(* A buffer of one run's own stays a sequence of whole lines, and pouring  *)
(* it leaves whole lines in the file.                                       *)
LEMMA RunBuffer ==
  ASSUME TypeOK, StageInv, BufferInv, NEW r \in Runs, Drain(r) \/ Drive(r)
  PROVE  BufferInv'
<1>1. entries # << >> /\ UNCHANGED <<config, entries>>
  BY RunStage
<1>2. /\ \A q \in Runs \ {r} : pc'[q] = pc[q] /\ at'[q] = at[q]
      /\ WriteHead(r) \/ WriteTail(r) \/ FlushWrites(r) \/ FlushFails(r) \/ FlushResets(r) \/ UNCHANGED <<file, buf>>
  BY RunFrame
<1>3. /\ Runs' = Runs /\ Sinks' = Sinks
      /\ \A q : /\ SinkOf(q)' = SinkOf(q) /\ Output(SinkOf(q))' = Output(SinkOf(q))
                /\ SharesSink(q)' <=> SharesSink(q)
                /\ SharesOutput(q)' <=> SharesOutput(q)
  BY <1>1, SamePlaces
<1> DEFINE Whole(b, at1, pc1, f, p) ==
      /\ Paired(b, Len(b))
      /\ IF pc1 = "tail"
         THEN Len(b) % 2 = 1 /\ b[Len(b)] = [line |-> LineOf(p, at1 + 1), part |-> "head"]
         ELSE Len(b) % 2 = 0
      /\ pc1 \in Quiet => b = << >>
      /\ ~SharesOutput(p) => f.begun = NoLine
<1>4. SUFFICES ASSUME config.buffered, NEW p \in Runs, ~SharesSink(p)
               PROVE  /\ ~broken'[SinkOf(p)] =>
                           Whole(buf'[SinkOf(p)], at'[p], pc'[p], file'[Output(SinkOf(p))], p)
                      /\ ~SharesOutput(p) => ~file'[Output(SinkOf(p))].torn
  BY <1>1, <1>3 DEF BufferInv
<1> DEFINE b == buf[SinkOf(p)]
           o == Output(SinkOf(p))
<1>5. /\ ~broken[SinkOf(p)] =>
           /\ Paired(b, Len(b))
           /\ IF pc[p] = "tail"
              THEN Len(b) % 2 = 1 /\ b[Len(b)] = [line |-> LineOf(p, at[p] + 1), part |-> "head"]
              ELSE Len(b) % 2 = 0
           /\ pc[p] \in Quiet => b = << >>
           /\ ~SharesOutput(p) => file[o].begun = NoLine
      /\ ~SharesOutput(p) => ~file[o].torn
  BY <1>1, <1>4 DEF BufferInv
<1>b. /\ broken[SinkOf(p)] => broken'[SinkOf(p)]
      /\ SinkOf(r) # SinkOf(p) => broken'[SinkOf(p)] = broken[SinkOf(p)]
  BY BreaksFrame
<1>6. /\ SinkOf(p) \in Sinks /\ SinkOf(r) \in Sinks /\ o \in Outputs
      /\ b \in Seq(Piece) /\ file[o] \in FileType /\ Len(b) \in Nat
  <2>1. SinkOf(p) \in Sinks /\ SinkOf(r) \in Sinks /\ o \in Outputs
    BY <1>1, Places
  <2> QED
    BY <2>1 DEF TypeOK
<1>7. r # p => SinkOf(r) # SinkOf(p)
  BY <1>4 DEF SharesSink
<1> HIDE DEF o
<1>8. CASE r # p
  <2>1. buf'[SinkOf(p)] = b
    <3>1. CASE WriteHead(r) \/ WriteTail(r)
      <4>1. PICK piece : buf' = [buf EXCEPT ![SinkOf(r)] = Append(buf[SinkOf(r)], piece)]
        BY <1>1, <1>4, <3>1, PutEffect DEF WriteHead, WriteTail
      <4> QED
        BY <1>6, <1>7, <1>8, <4>1 DEF TypeOK
    <3>2. CASE FlushWrites(r)
      BY <3>2 DEF FlushWrites
    <3>3. CASE FlushResets(r)
      <4>1. buf' = [buf EXCEPT ![SinkOf(r)] = << >>]
        BY <3>3 DEF FlushResets
      <4> QED
        BY <1>6, <1>7, <1>8, <4>1 DEF TypeOK
    <3>4. CASE FlushFails(r)
      BY <3>4 DEF FlushFails
    <3> QED
      BY <1>2, <3>1, <3>2, <3>3, <3>4
  <2>2. ~SharesOutput(p) => file'[o] = file[o]
    <3>1. CASE WriteHead(r) \/ WriteTail(r)
      BY <1>1, <1>4, <3>1, PutEffect DEF WriteHead, WriteTail
    <3>2. CASE FlushWrites(r)
      <4>1. file' = [file EXCEPT ![Output(SinkOf(r))] = Poured(file[Output(SinkOf(r))], buf[SinkOf(r)])]
        BY <3>2 DEF FlushWrites
      <4>2. ~SharesOutput(p) => Output(SinkOf(r)) # o
        BY <1>7, <1>8, OtherOutput DEF o
      <4> QED
        BY <1>6, <4>1, <4>2 DEF TypeOK
    <3>3. CASE FlushResets(r)
      BY <3>3 DEF FlushResets
    <3>4. CASE FlushFails(r)
      <4>1. PICK n : file' = [file EXCEPT ![Output(SinkOf(r))] = Poured(file[Output(SinkOf(r))], SubSeq(buf[SinkOf(r)], 1, n))]
        BY <1>4, <3>4, FlushFailing
      <4>2. ~SharesOutput(p) => Output(SinkOf(r)) # o
        BY <1>7, <1>8, OtherOutput DEF o
      <4> QED
        BY <1>6, <4>1, <4>2 DEF TypeOK
    <3> QED
      BY <1>2, <3>1, <3>2, <3>3, <3>4
  <2> QED
    BY <1>2, <1>5, <1>7, <1>8, <1>b, <2>1, <2>2 DEF o
<1>9. CASE r = p /\ WriteHead(p)
  <2> DEFINE piece == [line |-> LineOf(p, at[p] + 1), part |-> "head"]
  <2>1. /\ pc[p] = "head" /\ pc'[p] = "tail" /\ at' = at /\ file' = file /\ ~broken[SinkOf(p)]
        /\ piece \in Piece /\ buf' = [buf EXCEPT ![SinkOf(p)] = Append(b, piece)]
    <3>1. pc[p] = "head" /\ pc'[p] = "tail" /\ ~broken[SinkOf(p)]
      BY <1>9 DEF WriteHead, Goes, TypeOK
    <3>2. at' = at /\ Put(p, "head")
      BY <1>9 DEF WriteHead
    <3>3. piece \in Piece /\ file' = file /\ buf' = [buf EXCEPT ![SinkOf(p)] = Append(b, piece)]
      BY <1>1, <1>4, <3>2, PutEffect
    <3> QED
      BY <3>1, <3>2, <3>3
  <2> HIDE DEF b, piece
  <2>2. /\ buf'[SinkOf(p)] = Append(b, piece)
        /\ Len(Append(b, piece)) = Len(b) + 1
        /\ \A i \in 1 .. Len(b) : Append(b, piece)[i] = b[i]
        /\ Append(b, piece)[Len(b) + 1] = piece
    BY <1>6, <2>1 DEF TypeOK
  <2>a. Len(b) % 2 = 0 /\ Paired(b, Len(b))
    BY <1>5, <2>1, Zenon
  <2>3. Len(b) % 2 = 0 /\ (Len(b) + 1) % 2 = 1
    BY <1>6, <2>a
  <2>4. Paired(Append(b, piece), Len(b) + 1)
    <3> SUFFICES ASSUME NEW i \in 1 .. Len(b) + 1
                 PROVE  IF i % 2 = 1 THEN Append(b, piece)[i].part = "head"
                        ELSE Append(b, piece)[i].part = "tail" /\ Append(b, piece)[i].line = Append(b, piece)[i - 1].line
      BY DEF Paired
    <3>1. CASE i = Len(b) + 1
      BY <2>2, <2>3, <3>1 DEF piece
    <3>2. CASE i \in 1 .. Len(b)
      <4>1. i % 2 # 1 => i - 1 \in 1 .. Len(b)
        BY <1>6, <3>2
      <4> QED
        BY <2>a, <2>2, <3>2, <4>1 DEF Paired
    <3> QED
      BY <1>6, <3>1, <3>2
  <2>5. pc'[p] \notin Quiet
    BY <2>1 DEF Quiet
  <2> QED
    BY <1>5, <2>1, <2>2, <2>3, <2>4, <2>5 DEF o, piece
<1>10. CASE r = p /\ WriteTail(p)
  <2> DEFINE piece == [line |-> LineOf(p, at[p] + 1), part |-> "tail"]
  <2>0. CASE broken[SinkOf(p)]
    <3>1. file' = file
      BY <1>1, <1>4, <1>10, PutEffect DEF WriteTail
    <3> QED
      BY <1>5, <1>b, <2>0, <3>1 DEF o
  <2> SUFFICES ASSUME ~broken[SinkOf(p)]
               PROVE  /\ Whole(buf'[SinkOf(p)], at'[p], pc'[p], file'[o], p)
                      /\ ~SharesOutput(p) => ~file'[o].torn
    BY <2>0 DEF o
  <2>1. /\ pc[p] = "tail" /\ pc'[p] = "page" /\ file' = file
        /\ piece \in Piece /\ buf' = [buf EXCEPT ![SinkOf(p)] = Append(b, piece)]
    <3>1. pc[p] = "tail" /\ pc'[p] = "page"
      BY <1>10 DEF WriteTail, Goes, TypeOK
    <3>2. Put(p, "tail")
      BY <1>10 DEF WriteTail
    <3>3. piece \in Piece /\ file' = file /\ buf' = [buf EXCEPT ![SinkOf(p)] = Append(b, piece)]
      BY <1>1, <1>4, <3>2, PutEffect
    <3> QED
      BY <3>1, <3>3
  <2>4. piece.part = "tail" /\ piece.line = LineOf(p, at[p] + 1)
    OBVIOUS
  <2> HIDE DEF b, piece
  <2>8. Len(b) % 2 = 1 /\ b[Len(b)] = [line |-> LineOf(p, at[p] + 1), part |-> "head"]
    BY <1>5, <2>1
  <2>2. Len(b) % 2 = 1 /\ b[Len(b)].line = piece.line
    BY <2>4, <2>8
  <2>3. (Len(b) + 1) % 2 = 0 /\ Len(b) \in 1 .. Len(b)
    BY <1>6, <2>2
  <2>5. /\ buf'[SinkOf(p)] = Append(b, piece)
        /\ Len(Append(b, piece)) = Len(b) + 1
        /\ \A i \in 1 .. Len(b) : Append(b, piece)[i] = b[i]
        /\ Append(b, piece)[Len(b) + 1] = piece
    BY <1>6, <2>1 DEF TypeOK
  <2>6. Paired(Append(b, piece), Len(b) + 1)
    <3> SUFFICES ASSUME NEW i \in 1 .. Len(b) + 1
                 PROVE  IF i % 2 = 1 THEN Append(b, piece)[i].part = "head"
                        ELSE Append(b, piece)[i].part = "tail" /\ Append(b, piece)[i].line = Append(b, piece)[i - 1].line
      BY DEF Paired
    <3>1. CASE i = Len(b) + 1
      BY <2>2, <2>3, <2>4, <2>5, <3>1
    <3>2. CASE i \in 1 .. Len(b)
      <4>1. i % 2 # 1 => i - 1 \in 1 .. Len(b)
        BY <1>6, <3>2
      <4> QED
        BY <1>5, <2>5, <3>2, <4>1 DEF Paired
    <3> QED
      BY <1>6, <3>1, <3>2
  <2>7. pc'[p] \notin Quiet /\ pc'[p] # "tail"
    BY <2>1 DEF Quiet
  <2> QED
    BY <1>5, <2>1, <2>3, <2>5, <2>6, <2>7 DEF o
<1>11. CASE r = p /\ FlushWrites(p)
  <2>1. /\ pc[p] = "flush" /\ pc'[p] = "reset" /\ buf' = buf /\ ~broken[SinkOf(p)]
        /\ file' = [file EXCEPT ![o] = Poured(file[o], b)]
    BY <1>4, <1>11 DEF FlushWrites, Goes, TypeOK, o
  <2>2. file'[o] = Poured(file[o], b)
    BY <1>6, <2>1 DEF TypeOK
  <2>3. ~SharesOutput(p) => file'[o].begun = NoLine /\ ~file'[o].torn
    <3> SUFFICES ASSUME ~SharesOutput(p) PROVE file'[o].begun = NoLine /\ ~file'[o].torn
      OBVIOUS
    <3>1. Paired(b, Len(b)) /\ Len(b) % 2 = 0 /\ file[o].begun = NoLine /\ ~file[o].torn
      BY <1>5, <2>1
    <3> HIDE DEF b
    <3>2. Poured(file[o], b).begun = NoLine /\ Poured(file[o], b).torn = file[o].torn
      BY <1>6, <3>1, PouredPairs
    <3> QED
      BY <2>2, <3>1, <3>2
  <2>4. pc'[p] \notin Quiet /\ pc'[p] # "tail" /\ pc[p] # "tail"
    BY <2>1 DEF Quiet
  <2> QED
    BY <1>5, <2>1, <2>3, <2>4 DEF o
<1>12. CASE r = p /\ FlushResets(p)
  <2>1. /\ pc'[p] = "save" /\ file' = file /\ buf' = [buf EXCEPT ![SinkOf(p)] = << >>]
    BY <1>12 DEF FlushResets, Goes, TypeOK
  <2>2. buf'[SinkOf(p)] = << >>
    BY <1>6, <2>1 DEF TypeOK
  <2> DEFINE c == buf'[SinkOf(p)]
  <2>3. Len(c) = 0 /\ Len(c) % 2 = 0 /\ Paired(c, Len(c))
    BY <2>2 DEF Paired
  <2>4. /\ ~SharesOutput(p) => ~file'[o].torn
        /\ ~broken'[SinkOf(p)] /\ ~SharesOutput(p) => file'[o].begun = NoLine
    BY <1>5, <1>b, <2>1
  <2>5. pc'[p] # "tail" /\ c = << >>
    BY <2>1, <2>2
  <2> HIDE DEF c
  <2> QED
    BY <2>3, <2>4, <2>5 DEF o, c
<1>14. CASE r = p /\ FlushFails(p)
  <2>1. PICK n \in 0 .. Len(b) :
          /\ file' = [file EXCEPT ![o] = Poured(file[o], SubSeq(b, 1, n))]
          /\ broken' = [broken EXCEPT ![SinkOf(p)] = TRUE]
          /\ broken[SinkOf(p)] => n = 0
    BY <1>4, <1>14, FlushFailing DEF o
  <2>2. broken'[SinkOf(p)] /\ file'[o] = Poured(file[o], SubSeq(b, 1, n))
    BY <1>6, <2>1 DEF TypeOK
  <2>3. ~SharesOutput(p) => ~file'[o].torn
    <3> SUFFICES ASSUME ~SharesOutput(p) PROVE ~file'[o].torn
      OBVIOUS
    <3>1. CASE broken[SinkOf(p)]
      <4>1. SubSeq(b, 1, n) = << >>
        BY <1>6, <2>1, <3>1, FirstPieces
      <4>2. file'[o] = file[o]
        BY <2>2, <4>1, PouredNothing
      <4> QED
        BY <1>5, <4>2
    <3>2. CASE ~broken[SinkOf(p)]
      <4>1. Paired(b, Len(b)) /\ file[o].begun = NoLine /\ ~file[o].torn
        BY <1>5, <3>2
      <4> HIDE DEF b
      <4>2. SubSeq(b, 1, n) \in Seq(Piece) /\ Paired(SubSeq(b, 1, n), Len(SubSeq(b, 1, n)))
        BY <1>6, <4>1, FirstPieces
      <4>3. Poured(file[o], SubSeq(b, 1, n)).torn = file[o].torn
        BY <1>6, <4>1, <4>2, PouredPairs
      <4> QED
        BY <2>2, <4>1, <4>3
    <3> QED
      BY <3>1, <3>2
  <2> QED
    BY <2>2, <2>3 DEF o
<1>13. CASE r = p /\ ~WriteHead(p) /\ ~WriteTail(p) /\ ~FlushWrites(p) /\ ~FlushResets(p) /\ ~FlushFails(p)
  <2>1. file' = file /\ buf' = buf
    BY <1>2, <1>13
  <2>2. /\ pc'[p] # "tail" /\ (pc[p] # "tail" \/ WriteTears(p))
        /\ pc'[p] \in Quiet => pc[p] \in Quiet
    BY <1>4, <1>13 DEF Drain, Drive, StartDrain, LoadFails, EndPages, CountEvent, Lock, WriteFails, WriteTears,
       SaveReturns, SaveFails, Returned, Wake, Interrupted, Goes, TypeOK, Quiet
  <2>3. buf'[SinkOf(p)] = b /\ file'[o] = file[o]
    BY <2>1
  <2>6. WriteTears(p) => broken'[SinkOf(p)]
    BY <1>6 DEF WriteTears, Breaks, TypeOK
  <2> HIDE DEF b
  <2>4. ~broken'[SinkOf(p)] => Paired(b, Len(b)) /\ Len(b) % 2 = 0 /\ (pc'[p] \in Quiet => b = << >>)
    BY <1>5, <1>b, <2>2, <2>6
  <2>5. /\ ~SharesOutput(p) => ~file'[o].torn
        /\ ~broken'[SinkOf(p)] /\ ~SharesOutput(p) => file'[o].begun = NoLine
    BY <1>5, <1>b, <2>3
  <2> QED
    BY <2>2, <2>3, <2>4, <2>5 DEF o
<1> QED
  BY <1>8, <1>9, <1>10, <1>11, <1>12, <1>13, <1>14

(* A run whose own writer fails has an error to tell of. *)
LEMMA RunBroken ==
  ASSUME TypeOK, StageInv, BrokenInv, NEW r \in Runs, Drain(r) \/ Drive(r)
  PROVE  BrokenInv'
<1>1. entries # << >> /\ UNCHANGED <<config, entries, cancelled>>
  BY RunStage
<1>2. SUFFICES ASSUME NEW p \in Runs, ~SharesSink(p), broken'[SinkOf(p)]
               PROVE  errors'[p] > 0 \/ cancelled \/ (failed'[p] /\ pc'[p] \in {"flush", "save", "returned"})
  BY <1>1, SamePlaces DEF BrokenInv, Reported
<1>3. r # p => SinkOf(r) # SinkOf(p)
  BY <1>2 DEF SharesSink
<1>4. broken[SinkOf(p)] => errors[p] > 0 \/ cancelled \/ (failed[p] /\ pc[p] \in {"flush", "save", "returned"})
  BY <1>1, <1>2 DEF BrokenInv, Reported
<1>5. errors[p] \in Nat /\ SinkOf(p) \in Sinks
  BY <1>1, Places DEF TypeOK
<1>6. CASE r # p
  BY <1>2, <1>3, <1>4, <1>6, BreaksFrame, RunFrame
<1>7. CASE r = p /\ (WriteFails(p) \/ WriteTears(p) \/ FlushFails(p))
  BY <1>7 DEF WriteFails, WriteTears, FlushFails, Goes, TypeOK
<1>8. CASE r = p /\ ~WriteFails(p) /\ ~WriteTears(p) /\ ~FlushFails(p)
  <2>1. broken[SinkOf(p)]
    BY <1>2, <1>8, RunFrame
  <2>2. CASE errors[p] > 0
    <3>1. errors' = errors \/ errors' = [errors EXCEPT ![p] = @ + 1]
      BY <1>8 DEF Drain, Drive, StartDrain, LoadFails, EndPages, CountEvent, Lock, WriteHead, WriteTail,
         FlushWrites, FlushResets, SaveReturns, SaveFails, Returned, Wake, Interrupted, TypeOK
    <3> QED
      BY <1>5, <2>2, <3>1 DEF TypeOK
  <2>3. CASE failed[p] /\ pc[p] \in {"flush", "save", "returned"} /\ ~cancelled
    <3>1. CASE Returned(p)
      <4>1. errors'[p] = errors[p] + 1
        BY <2>3, <3>1 DEF Returned, TypeOK
      <4> QED
        BY <1>5, <4>1
    <3>2. CASE ~Returned(p)
      <4>1. ~FlushWrites(p) \/ ~config.buffered
        BY <2>1 DEF FlushWrites
      <4>2. failed'[p] /\ pc'[p] \in {"flush", "save", "returned"}
        BY <1>8, <2>3, <3>2, <4>1 DEF Drain, Drive, StartDrain, LoadFails, EndPages, CountEvent, Lock, WriteHead,
           WriteTail, FlushWrites, FlushResets, SaveReturns, SaveFails, Wake, Interrupted, Goes, TypeOK
      <4> QED
        BY <4>2
    <3> QED
      BY <3>1, <3>2
  <2> QED
    BY <1>4, <2>1, <2>2, <2>3
<1> QED
  BY <1>6, <1>7, <1>8

(* A state file that no other name reaches is written by its run alone. *)
LEMMA RunOwnState ==
  ASSUME TypeOK, StageInv, OwnStateInv, NEW r \in Runs, Drain(r) \/ Drive(r)
  PROVE  OwnStateInv'
<1>1. entries # << >> /\ UNCHANGED <<config, entries>>
  BY RunStage
<1>2. SaveReturns(r) \/ UNCHANGED <<mine, saved>>
  BY RunFrame
<1>3. SUFFICES ASSUME NEW p \in Runs, Entry(p).state # "", ~Aliased(p)
               PROVE  saved'[File(p)] = mine'[p]
  BY <1>1, SamePlaces DEF OwnStateInv
<1>4. saved[File(p)] = mine[p] /\ File(p) \in Files
  BY <1>1, <1>3, Places DEF OwnStateInv
<1>5. CASE SaveReturns(r)
  <2>1. /\ mine' = [mine EXCEPT ![r] = at[r]]
        /\ Entry(r).state = "" => saved' = saved
        /\ Entry(r).state # "" => saved' = [saved EXCEPT ![File(r)] = at[r]]
    BY <1>5 DEF SaveReturns
  <2>2. CASE r = p
    BY <1>3, <1>4, <2>1, <2>2 DEF TypeOK
  <2>3. CASE r # p
    <3>1. Entry(r).state # Entry(p).state
      BY <1>1, <2>3, StatesDiffer
    <3>2. Entry(r).state # "" => File(r) # File(p)
      BY <1>3, <3>1 DEF Aliased
    <3> QED
      BY <1>4, <2>1, <2>3, <3>2 DEF TypeOK
  <2> QED
    BY <2>2, <2>3
<1> QED
  BY <1>2, <1>4, <1>5

(* What is in a file stays there. *)
LEMMA LinesStay ==
  ASSUME TypeOK, StageInv, NEW r \in Runs, Drain(r) \/ Drive(r), NEW o \in Outputs
  PROVE  file[o].lines \subseteq file'[o].lines
<1>1. entries # << >>
  BY RunStage
<1>2. WriteHead(r) \/ WriteTail(r) \/ FlushWrites(r) \/ FlushFails(r) \/ FlushResets(r) \/ UNCHANGED <<file, buf>>
  BY RunFrame
<1>3. /\ Output(SinkOf(r)) \in Outputs /\ file[Output(SinkOf(r))] \in FileType
      /\ buf[SinkOf(r)] \in Seq(Piece)
  <2>1. Output(SinkOf(r)) \in Outputs /\ SinkOf(r) \in Sinks
    BY <1>1, Places
  <2> QED
    BY <2>1 DEF TypeOK
<1>4. CASE WriteHead(r) \/ WriteTail(r)
  <2>1. PICK part \in {"head", "tail"} : Put(r, part)
    BY <1>4 DEF WriteHead, WriteTail
  <2> DEFINE piece == [line |-> LineOf(r, at[r] + 1), part |-> part]
  <2>2. /\ piece \in Piece
        /\ \/ file' = file
           \/ file' = [file EXCEPT ![Output(SinkOf(r))] = Append1(file[Output(SinkOf(r))], piece)]
    BY <1>1, <2>1, PutEffect
  <2> HIDE DEF piece
  <2>3. file[Output(SinkOf(r))].lines \subseteq Append1(file[Output(SinkOf(r))], piece).lines
    BY <1>3, <2>2, Append1Type
  <2> QED
    BY <1>3, <2>2, <2>3 DEF TypeOK
<1>5. CASE FlushWrites(r)
  <2>1. file' = [file EXCEPT ![Output(SinkOf(r))] = Poured(file[Output(SinkOf(r))], buf[SinkOf(r)])]
    BY <1>5 DEF FlushWrites
  <2>2. file[Output(SinkOf(r))].lines \subseteq Poured(file[Output(SinkOf(r))], buf[SinkOf(r)]).lines
    BY <1>3, PouredGrows
  <2> QED
    BY <1>3, <2>1, <2>2 DEF TypeOK
<1>6. CASE FlushResets(r)
  BY <1>6 DEF FlushResets
<1>7. CASE FlushFails(r)
  <2>1. CASE ~config.buffered
    BY <1>7, <2>1 DEF FlushFails
  <2>2. CASE config.buffered
    <3>1. PICK n \in 0 .. Len(buf[SinkOf(r)]) :
            file' = [file EXCEPT ![Output(SinkOf(r))] = Poured(file[Output(SinkOf(r))], SubSeq(buf[SinkOf(r)], 1, n))]
      BY <1>7, <2>2, FlushFailing
    <3> DEFINE c == SubSeq(buf[SinkOf(r)], 1, n)
    <3>2. c \in Seq(Piece)
      BY <1>3, FirstPieces
    <3> HIDE DEF c
    <3>3. file[Output(SinkOf(r))].lines \subseteq Poured(file[Output(SinkOf(r))], c).lines
      BY <1>3, <3>2, PouredGrows
    <3> QED
      BY <1>3, <3>1, <3>3 DEF TypeOK, c
  <2> QED
    BY <2>1, <2>2
<1> QED
  BY <1>2, <1>4, <1>5, <1>6, <1>7

(* The lines of a buffer after one more piece. *)
LEMMA LinesInAppend ==
  ASSUME NEW b \in Seq(Piece), NEW piece \in Piece
  PROVE  LinesIn(Append(b, piece)) = LinesIn(b) \cup (IF piece.part = "tail" THEN {piece.line} ELSE {})
<1> DEFINE c == Append(b, piece)
<1>1. /\ DOMAIN c = 1 .. Len(b) + 1 /\ DOMAIN b = 1 .. Len(b) /\ Len(b) \in Nat
      /\ \A i \in 1 .. Len(b) : c[i] = b[i]
      /\ c[Len(b) + 1] = piece
  OBVIOUS
<1> HIDE DEF c
<1>2. \A l : l \in LinesIn(c) <=> \E i \in 1 .. Len(b) + 1 : c[i].part = "tail" /\ c[i].line = l
  BY <1>1 DEF LinesIn
<1>3. \A l : l \in LinesIn(b) <=> \E i \in 1 .. Len(b) : b[i].part = "tail" /\ b[i].line = l
  BY <1>1 DEF LinesIn
<1>4. \A l : l \in LinesIn(c) <=> l \in LinesIn(b) \/ (piece.part = "tail" /\ piece.line = l)
  <2> SUFFICES ASSUME NEW l
               PROVE  (\E i \in 1 .. Len(b) + 1 : c[i].part = "tail" /\ c[i].line = l)
                      <=> (\E i \in 1 .. Len(b) : b[i].part = "tail" /\ b[i].line = l)
                          \/ (piece.part = "tail" /\ piece.line = l)
    BY <1>2, <1>3
  <2>1. \A i \in 1 .. Len(b) + 1 : i \in 1 .. Len(b) \/ i = Len(b) + 1
    BY <1>1
  <2>2. Len(b) + 1 \in 1 .. Len(b) + 1 /\ 1 .. Len(b) \subseteq 1 .. Len(b) + 1
    BY <1>1
  <2> QED
    BY <1>1, <2>1, <2>2
<1> QED
  BY <1>4 DEF c

(* Every step of a run keeps what the run has written, and saves only      *)
(* what has left its buffer.                                                *)
LEMMA RunWritten ==
  ASSUME TypeOK, StageInv, MutexInv, PlainInv, BufferInv, OwnStateInv, WrittenInv,
         NEW r \in Runs, Drain(r) \/ Drive(r)
  PROVE  WrittenInv'
<1>1. entries # << >> /\ UNCHANGED <<config, entries>>
  BY RunStage
<1>2. /\ Runs' = Runs
      /\ \A q : /\ SinkOf(q)' = SinkOf(q) /\ Output(SinkOf(q))' = Output(SinkOf(q))
                /\ SharesSink(q)' <=> SharesSink(q)
                /\ SharesOutput(q)' <=> SharesOutput(q)
                /\ Aliased(q)' <=> Aliased(q)
  BY <1>1, SamePlaces
<1>3. /\ \A q \in Runs \ {r} : pc'[q] = pc[q] /\ at'[q] = at[q] /\ mine'[q] = mine[q]
      /\ WriteHead(r) \/ WriteTail(r) \/ FlushWrites(r) \/ FlushFails(r) \/ FlushResets(r) \/ UNCHANGED <<file, buf>>
      /\ StartDrain(r) \/ WriteTail(r) \/ at' = at
      /\ SaveReturns(r) \/ UNCHANGED <<mine, saved>>
  BY RunFrame
<1>4. SUFFICES ASSUME NEW p \in Runs, Alone(p), ~(config.buffered /\ broken'[SinkOf(p)]), ~Aliased(p)
               PROVE  /\ \A e \in 1 .. at'[p] : InFile(p, e)' \/ InBuffer(p, e)'
                      /\ pc'[p] \in {"reset", "save"} => \A e \in 1 .. at'[p] : InFile(p, e)'
                      /\ \A e \in 1 .. mine'[p] : InFile(p, e)'
  BY <1>1, <1>2 DEF WrittenInv, Alone, Sound
<1>0. Sound(p)
  BY <1>4, BreaksFrame DEF Sound
<1> DEFINE o == Output(SinkOf(p))
           b == buf[SinkOf(p)]
           c == buf'[SinkOf(p)]
<1>5. /\ \A e \in 1 .. at[p] : InFile(p, e) \/ InBuffer(p, e)
      /\ pc[p] \in {"reset", "save"} => \A e \in 1 .. at[p] : InFile(p, e)
      /\ \A e \in 1 .. mine[p] : InFile(p, e)
  BY <1>0, <1>1, <1>4 DEF WrittenInv
<1>6. /\ SinkOf(p) \in Sinks /\ SinkOf(r) \in Sinks /\ o \in Outputs /\ p \in Nat
      /\ b \in Seq(Piece) /\ file[o] \in FileType /\ at[p] \in Nat /\ at[p] + 1 \in Nat
  <2>1. SinkOf(p) \in Sinks /\ SinkOf(r) \in Sinks /\ o \in Outputs /\ p \in Nat
    BY <1>1, Places
  <2> HIDE DEF o
  <2>2. b \in Seq(Piece)
    BY <2>1 DEF TypeOK
  <2>3. file[o] \in FileType
    BY <2>1 DEF TypeOK
  <2>4. at[p] \in Nat /\ at[p] + 1 \in Nat
    BY DEF TypeOK
  <2> QED
    BY <2>1, <2>2, <2>3, <2>4
<1>7. \A e : InFile(p, e) => InFile(p, e)'
  BY <1>2, <1>6, LinesStay DEF InFile
<1>8. ~config.buffered => \A e : ~InBuffer(p, e)
  BY <1>1, <1>6 DEF PlainInv, InBuffer, LinesIn
<1>9. CASE r # p
  <2>1. config.buffered => c = b
    <3> SUFFICES ASSUME config.buffered PROVE c = b
      OBVIOUS
    <3>1. SinkOf(r) # SinkOf(p)
      BY <1>4, <1>9 DEF Alone, SharesSink
    <3>2. CASE WriteHead(r) \/ WriteTail(r)
      <4>1. PICK piece : buf' = [buf EXCEPT ![SinkOf(r)] = Append(buf[SinkOf(r)], piece)]
        BY <1>1, <3>2, PutEffect DEF WriteHead, WriteTail
      <4> QED
        BY <1>6, <3>1, <4>1 DEF TypeOK
    <3>3. CASE FlushWrites(r)
      BY <3>3 DEF FlushWrites
    <3>4. CASE FlushResets(r)
      <4>1. buf' = [buf EXCEPT ![SinkOf(r)] = << >>]
        BY <3>4 DEF FlushResets
      <4> QED
        BY <1>6, <3>1, <4>1 DEF TypeOK
    <3>5. CASE FlushFails(r)
      BY <3>5 DEF FlushFails
    <3> QED
      BY <1>3, <3>2, <3>3, <3>4, <3>5
  <2>2. \A e \in 1 .. at[p] : InFile(p, e)' \/ InBuffer(p, e)'
    <3> TAKE e \in 1 .. at[p]
    <3>1. CASE config.buffered
      BY <1>2, <1>5, <1>7, <2>1, <3>1 DEF InBuffer
    <3>2. CASE ~config.buffered
      BY <1>5, <1>7, <1>8, <3>2
    <3> QED
      BY <3>1, <3>2
  <2> QED
    BY <1>3, <1>5, <1>7, <1>9, <2>2
<1>10. CASE r = p /\ StartDrain(p)
  <2>1. /\ at' = [at EXCEPT ![p] = Loaded(p)] /\ mine' = mine /\ pc'[p] = "page"
    BY <1>10 DEF StartDrain, Goes, TypeOK
  <2>2. Loaded(p) = 0 \/ Loaded(p) = mine[p]
    BY <1>1, <1>4 DEF Loaded, OwnStateInv
  <2>3. \A e \in 1 .. at'[p] : InFile(p, e)'
    BY <1>5, <1>7, <2>1, <2>2 DEF TypeOK
  <2> QED
    BY <1>5, <1>7, <2>1, <2>3
<1>11. CASE r = p /\ WriteHead(p)
  <2>1. /\ at' = at /\ mine' = mine /\ pc'[p] = "tail"
    BY <1>11 DEF WriteHead, Goes, TypeOK
  <2>2. \A e : InBuffer(p, e) => InBuffer(p, e)'
    <3>1. CASE config.buffered
      <4>1. PICK piece \in Piece : buf' = [buf EXCEPT ![SinkOf(p)] = Append(b, piece)]
        BY <1>1, <1>11, <3>1, PutEffect DEF WriteHead
      <4>2. LinesIn(b) \subseteq LinesIn(c)
        <5>1. c = Append(b, piece)
          BY <1>6, <4>1 DEF TypeOK
        <5> QED
          BY <1>6, <5>1, LinesInAppend
      <4> QED
        BY <1>2, <4>2 DEF InBuffer
    <3> QED
      BY <1>8, <3>1
  <2> QED
    BY <1>5, <1>7, <2>1, <2>2
<1>12. CASE r = p /\ WriteTail(p)
  <2>0. PICK n \in Nat : n = at[p] + 1
    BY <1>6
  <2> DEFINE piece == [line |-> LineOf(p, n), part |-> "tail"]
  <2>1. /\ at' = [at EXCEPT ![p] = at[p] + 1] /\ mine' = mine /\ pc'[p] = "page" /\ pc[p] = "tail"
        /\ Put(p, "tail")
    BY <1>12 DEF WriteTail, Goes, TypeOK
  <2>2. /\ piece \in Piece /\ piece.part = "tail" /\ piece.line = LineOf(p, n)
        /\ config.buffered => buf' = [buf EXCEPT ![SinkOf(p)] = Append(b, piece)]
        /\ ~config.buffered => file' = [file EXCEPT ![o] = Append1(file[o], piece)]
    BY <1>1, <2>0, <2>1, PutEffect
  <2> HIDE DEF piece
  <2>3. (\A e : InBuffer(p, e) => InBuffer(p, e)') /\ (InFile(p, n)' \/ InBuffer(p, n)')
    <3>1. CASE config.buffered
      <4>1. c = Append(b, piece)
        BY <1>6, <2>2, <3>1 DEF TypeOK
      <4>2. LinesIn(c) = LinesIn(b) \cup {LineOf(p, n)}
        BY <1>6, <2>2, <4>1, LinesInAppend
      <4> QED
        BY <1>2, <4>2 DEF InBuffer
    <3>2. CASE ~config.buffered
      <4>1. file[o].begun = LineOf(p, n)
        BY <1>1, <1>4, <2>0, <2>1, <3>2 DEF PlainInv, Alone
      <4>2. file'[o] = Append1(file[o], piece)
        BY <1>6, <2>2, <3>2 DEF TypeOK
      <4>3. LineOf(p, n) \in file'[o].lines
        BY <2>2, <4>1, <4>2 DEF Append1
      <4> QED
        BY <1>2, <1>8, <3>2, <4>3 DEF InFile
    <3> QED
      BY <3>1, <3>2
  <2>4. at'[p] = at[p] + 1
    BY <2>1 DEF TypeOK
  <2>5. \A e \in 1 .. at'[p] : e \in 1 .. at[p] \/ e = n
    BY <1>6, <2>0, <2>4
  <2> QED
    BY <1>5, <1>7, <2>1, <2>3, <2>5
<1>13. CASE r = p /\ FlushWrites(p)
  <2>1. /\ at' = at /\ mine' = mine /\ buf' = buf /\ pc[p] = "flush"
        /\ file' = [file EXCEPT ![o] = Poured(file[o], b)]
    BY <1>13 DEF FlushWrites, Goes
  <2>2. config.buffered => LinesIn(b) \subseteq file'[o].lines
    <3> SUFFICES ASSUME config.buffered PROVE LinesIn(b) \subseteq file'[o].lines
      OBVIOUS
    <3>1. /\ Paired(b, Len(b)) /\ Len(b) % 2 = 0
          /\ file[o].begun = NoLine
      BY <1>0, <1>1, <1>4, <2>1 DEF BufferInv, Alone, Sound
    <3>2. file'[o] = Poured(file[o], b)
      BY <1>6, <2>1 DEF TypeOK
    <3> HIDE DEF b, o
    <3>3. LinesIn(b) \subseteq Poured(file[o], b).lines
      BY <1>6, <3>1, PouredPairs
    <3> QED
      BY <3>2, <3>3
  <2>3. \A e : InBuffer(p, e) => InFile(p, e)'
    BY <1>2, <1>8, <2>2 DEF InBuffer, InFile
  <2> QED
    BY <1>5, <1>7, <2>1, <2>3
<1>14. CASE r = p /\ FlushResets(p)
  <2>1. /\ at' = at /\ mine' = mine /\ pc[p] = "reset"
    BY <1>14 DEF FlushResets, Goes
  <2> QED
    BY <1>5, <1>7, <2>1
<1>15. CASE r = p /\ FlushFails(p)
  <2>1. /\ at' = at /\ mine' = mine /\ (config.buffered => broken'[SinkOf(p)])
    BY <1>6, <1>15 DEF FlushFails, Breaks, TypeOK
  <2>2. ~config.buffered
    BY <1>4, <2>1
  <2> QED
    BY <1>5, <1>7, <1>8, <2>1, <2>2
<1>16. CASE r = p /\ SaveReturns(p)
  <2>1. /\ at' = at /\ mine' = [mine EXCEPT ![p] = at[p]] /\ pc[p] = "save"
    BY <1>16 DEF SaveReturns, Goes
  <2>2. mine'[p] = at[p]
    BY <2>1 DEF TypeOK
  <2> QED
    BY <1>5, <1>7, <2>1, <2>2
<1>17. CASE /\ r = p /\ ~StartDrain(p) /\ ~WriteHead(p) /\ ~WriteTail(p) /\ ~FlushWrites(p)
            /\ ~FlushResets(p) /\ ~FlushFails(p) /\ ~SaveReturns(p)
  <2>1. at' = at /\ mine' = mine /\ buf' = buf
    BY <1>3, <1>17
  <2>2. pc'[p] \notin {"reset", "save"}
    BY <1>17 DEF Drain, Drive, LoadFails, EndPages, CountEvent, Lock, WriteFails, WriteTears,
       SaveFails, Returned, Wake, Interrupted, Goes, TypeOK
  <2>3. \A e : InBuffer(p, e) => InBuffer(p, e)'
    BY <1>2, <2>1 DEF InBuffer
  <2> QED
    BY <1>5, <1>7, <2>1, <2>2, <2>3
<1> QED
  BY <1>9, <1>10, <1>11, <1>12, <1>13, <1>14, <1>15, <1>16, <1>17

(* The only line that a step of a run adds is the one whose tail it wrote. *)
LEMMA NewLine ==
  ASSUME TypeOK, StageInv, NEW r \in Runs, Drain(r) \/ Drive(r), NEW l, OnTheWay(l)'
  PROVE  OnTheWay(l) \/ (WriteTail(r) /\ l = LineOf(r, at[r] + 1))
<1>1. entries # << >> /\ UNCHANGED <<config, entries>>
  BY RunStage
<1>2. WriteHead(r) \/ WriteTail(r) \/ FlushWrites(r) \/ FlushFails(r) \/ FlushResets(r) \/ UNCHANGED <<file, buf>>
  BY RunFrame
<1>3. Sinks' = Sinks /\ Outputs' = Outputs
  BY <1>1, SamePlaces
<1> DEFINE o == Output(SinkOf(r))
           b == buf[SinkOf(r)]
<1>4. SinkOf(r) \in Sinks /\ o \in Outputs /\ file[o] \in FileType /\ b \in Seq(Piece)
  <2>1. SinkOf(r) \in Sinks /\ o \in Outputs
    BY <1>1, Places
  <2> QED
    BY <2>1 DEF TypeOK
<1>5. (\E u \in Outputs : l \in file'[u].lines) \/ (\E s \in Sinks : l \in LinesIn(buf'[s]))
  BY <1>3 DEF OnTheWay
<1>6. ASSUME NEW part \in {"head", "tail"}, Put(r, part), part = "tail" => WriteTail(r)
      PROVE  OnTheWay(l) \/ (WriteTail(r) /\ l = LineOf(r, at[r] + 1))
  <2> DEFINE piece == [line |-> LineOf(r, at[r] + 1), part |-> part]
  <2>1. /\ piece \in Piece /\ piece.part = part /\ piece.line = LineOf(r, at[r] + 1)
        /\ config.buffered => buf' = [buf EXCEPT ![SinkOf(r)] = Append(b, piece)] /\ file' = file
        /\ ~config.buffered => file' = [file EXCEPT ![o] = Append1(file[o], piece)] /\ buf' = buf
    BY <1>1, <1>6, PutEffect
  <2> HIDE DEF piece, o, b
  <2>2. CASE config.buffered
    <3>1. LinesIn(Append(b, piece)) = LinesIn(b) \cup (IF part = "tail" THEN {piece.line} ELSE {})
      BY <1>4, <2>1, LinesInAppend
    <3>2. \A s \in Sinks : l \in LinesIn(buf'[s]) => l \in LinesIn(buf[s]) \/ (part = "tail" /\ l = piece.line)
      BY <1>4, <2>1, <2>2, <3>1 DEF TypeOK, b
    <3> QED
      BY <1>5, <1>6, <2>1, <2>2, <3>2 DEF OnTheWay
  <2>3. CASE ~config.buffered
    <3>1. Append1(file[o], piece).lines \subseteq file[o].lines \cup (IF part = "tail" THEN {piece.line} ELSE {})
      BY <1>4, <2>1, Append1Type
    <3>2. \A u \in Outputs : l \in file'[u].lines => l \in file[u].lines \/ (part = "tail" /\ l = piece.line)
      BY <1>4, <2>1, <2>3, <3>1 DEF TypeOK
    <3> QED
      BY <1>5, <1>6, <2>1, <2>3, <3>2 DEF OnTheWay
  <2> QED
    BY <2>2, <2>3
<1>7. CASE WriteHead(r)
  BY <1>6, <1>7 DEF WriteHead
<1>8. CASE WriteTail(r)
  <2>1. Put(r, "tail")
    BY <1>8 DEF WriteTail
  <2> QED
    BY <1>6, <1>8, <2>1
<1>9. CASE FlushWrites(r)
  <2>1. file' = [file EXCEPT ![o] = Poured(file[o], b)] /\ buf' = buf
    BY <1>9 DEF FlushWrites
  <2> HIDE DEF o
  <2>2. Poured(file[o], b).lines \subseteq file[o].lines \cup LinesIn(b)
    BY <1>4, PouredGrows
  <2>3. \A u \in Outputs : l \in file'[u].lines => l \in file[u].lines \/ l \in LinesIn(b)
    BY <1>4, <2>1, <2>2 DEF TypeOK
  <2> QED
    BY <1>4, <1>5, <2>1, <2>3 DEF OnTheWay
<1>10. CASE FlushResets(r)
  <2>1. file' = file /\ buf' = [buf EXCEPT ![SinkOf(r)] = << >>]
    BY <1>10 DEF FlushResets
  <2>2. \A s \in Sinks : l \in LinesIn(buf'[s]) => l \in LinesIn(buf[s])
    BY <2>1 DEF TypeOK, LinesIn
  <2> QED
    BY <1>5, <2>1, <2>2 DEF OnTheWay
<1>11. CASE UNCHANGED <<file, buf>>
  BY <1>5, <1>11 DEF OnTheWay
<1>12. CASE FlushFails(r)
  <2>1. CASE ~config.buffered
    BY <1>11, <1>12, <2>1 DEF FlushFails
  <2>2. CASE config.buffered
    <3>1. PICK n \in 0 .. Len(b) : file' = [file EXCEPT ![o] = Poured(file[o], SubSeq(b, 1, n))]
      BY <1>12, <2>2, FlushFailing
    <3> HIDE DEF o
    <3> DEFINE c == SubSeq(b, 1, n)
    <3>2. c \in Seq(Piece) /\ LinesIn(c) \subseteq LinesIn(b)
      BY <1>4, FirstPieces
    <3> HIDE DEF c
    <3>3. Poured(file[o], c).lines \subseteq file[o].lines \cup LinesIn(c)
      BY <1>4, <3>2, PouredGrows
    <3>4. \A u \in Outputs : l \in file'[u].lines => l \in file[u].lines \/ l \in LinesIn(b)
      BY <1>4, <3>1, <3>2, <3>3 DEF TypeOK, c
    <3>5. buf' = buf
      BY <1>12 DEF FlushFails
    <3> QED
      BY <1>4, <1>5, <3>4, <3>5 DEF OnTheWay
  <2> QED
    BY <2>1, <2>2
<1> QED
  BY <1>2, <1>7, <1>8, <1>9, <1>10, <1>11, <1>12

(* Every step of a run keeps its lines counted. *)
LEMMA RunCount ==
  ASSUME TypeOK, StageInv, CountInv, NEW r \in Runs, Drain(r) \/ Drive(r)
  PROVE  CountInv'
<1>1. Runs' = Runs
  BY RunStage, SamePlaces
<1>2. SUFFICES ASSUME NEW p \in Runs
               PROVE  IsFiniteSet(LinesOf(p)') /\ Cardinality(LinesOf(p)') + Pending(p)' <= counted'[p]
  BY <1>1 DEF CountInv
<1>3. /\ IsFiniteSet(LinesOf(p)) /\ Cardinality(LinesOf(p)) \in Nat
      /\ Cardinality(LinesOf(p)) + Pending(p) <= counted[p] /\ counted[p] \in Nat
  BY FS_CardinalityType DEF CountInv, TypeOK
<1>4. CASE r = p /\ WriteTail(p)
  <2>1. Pending(p) = 1 /\ Pending(p)' = 0 /\ counted'[p] = counted[p]
    BY <1>4 DEF WriteTail, Goes, Pending, TypeOK
  <2>2. LinesOf(p)' \subseteq LinesOf(p) \cup {LineOf(p, at[p] + 1)}
    BY <1>4, NewLine DEF LinesOf
  <2> DEFINE x == LineOf(p, at[p] + 1)
             T == LinesOf(p) \cup {x}
  <2> HIDE DEF x
  <2>3. IsFiniteSet(T) /\ Cardinality(T) = IF x \in LinesOf(p) THEN Cardinality(LinesOf(p)) ELSE Cardinality(LinesOf(p)) + 1
    BY <1>3, FS_AddElement
  <2>4. IsFiniteSet(LinesOf(p)') /\ Cardinality(LinesOf(p)') <= Cardinality(T)
    BY <2>2, <2>3, FS_Subset DEF x
  <2>5. Cardinality(LinesOf(p)') \in Nat
    BY <2>4, FS_CardinalityType
  <2> QED
    BY <1>3, <2>1, <2>3, <2>4, <2>5
<1>5. CASE ~(r = p /\ WriteTail(p))
  <2>1. LinesOf(p)' \subseteq LinesOf(p)
    <3> SUFFICES ASSUME NEW l \in Line, l.run = p, OnTheWay(l)'
                 PROVE  OnTheWay(l)
      BY DEF LinesOf
    <3>1. OnTheWay(l) \/ (WriteTail(r) /\ l = LineOf(r, at[r] + 1))
      BY NewLine
    <3> QED
      BY <1>5, <3>1 DEF LineOf
  <2>2. /\ IsFiniteSet(LinesOf(p)') /\ Cardinality(LinesOf(p)') \in Nat
        /\ Cardinality(LinesOf(p)') <= Cardinality(LinesOf(p))
    BY <1>3, <2>1, FS_Subset, FS_CardinalityType
  <2>3. CASE r # p
    <3>1. pc'[p] = pc[p] /\ counted'[p] = counted[p]
      BY <2>3, RunFrame
    <3> QED
      BY <1>3, <2>2, <3>1 DEF Pending
  <2>4. CASE r = p /\ CountEvent(p)
    <3>1. Pending(p) = 0 /\ Pending(p)' = 1 /\ counted'[p] = counted[p] + 1
      BY <2>4 DEF CountEvent, Goes, Pending, TypeOK
    <3> QED
      BY <1>3, <2>2, <3>1
  <2>5. CASE r = p /\ ~CountEvent(p)
    <3>1. counted'[p] = counted[p]
      BY <1>5, <2>5 DEF Drain, Drive, StartDrain, LoadFails, EndPages, Lock, WriteHead, WriteFails, WriteTears, FlushWrites,
         FlushFails, FlushResets, SaveReturns, SaveFails, Returned, Wake, Interrupted
    <3>2. pc'[p] \in {"lock", "head", "tail"} => pc[p] \in {"lock", "head", "tail"}
      BY <1>5, <2>5 DEF Drain, Drive, StartDrain, LoadFails, EndPages, Lock, WriteHead, WriteFails, WriteTears, FlushWrites,
         FlushFails, FlushResets, SaveReturns, SaveFails, Returned, Wake, Interrupted, Goes, TypeOK
    <3>3. Pending(p)' <= Pending(p) /\ Pending(p) \in Nat /\ Pending(p)' \in Nat
      BY <3>2 DEF Pending
    <3> QED
      BY <1>3, <2>2, <3>1, <3>3
  <2> QED
    BY <2>3, <2>4, <2>5
<1> QED
  BY <1>4, <1>5

(* Every step of a run keeps what a drain without an error has done. *)
LEMMA RunOutcome ==
  ASSUME TypeOK, StageInv, OutcomeInv, NEW r \in Runs, Drain(r) \/ Drive(r)
  PROVE  OutcomeInv'
<1>1. UNCHANGED <<config, entries, cancelled>> /\ Runs' = Runs
  BY RunStage, SamePlaces
<1> DEFINE Good(p) ==
      /\ pc'[p] \in {"page", "lock", "head", "tail"} => ~failed'[p]
      /\ pc'[p] \in {"lock", "head", "tail"} => sent'[p] <= at'[p] + 1
      /\ pc'[p] \in {"page", "flush", "reset", "save"} /\ ~failed'[p] => sent'[p] <= at'[p]
      /\ pc'[p] = "returned" /\ ~failed'[p] => mine'[p] = at'[p] /\ sent'[p] <= at'[p]
      /\ pc'[p] = "done" /\ ~cancelled /\ errors'[p] = 0 => mine'[p] = at'[p] /\ sent'[p] <= at'[p]
<1>2. SUFFICES ASSUME NEW p \in Runs PROVE Good(p)
  BY <1>1 DEF OutcomeInv, Kept
<1>3. /\ pc[p] \in {"page", "lock", "head", "tail"} => ~failed[p]
      /\ pc[p] \in {"lock", "head", "tail"} => sent[p] <= at[p] + 1
      /\ pc[p] \in {"page", "flush", "reset", "save"} /\ ~failed[p] => sent[p] <= at[p]
      /\ pc[p] = "returned" /\ ~failed[p] => mine[p] = at[p] /\ sent[p] <= at[p]
      /\ pc[p] = "done" /\ ~cancelled /\ errors[p] = 0 => mine[p] = at[p] /\ sent[p] <= at[p]
      /\ at[p] \in Nat /\ sent[p] \in Nat /\ errors[p] \in Nat
  BY DEF OutcomeInv, Kept, TypeOK
<1>4. CASE r # p
  BY <1>3, <1>4, RunFrame
<1>5. CASE r = p /\ StartDrain(p)
  <2>1. pc'[p] = "page" /\ failed'[p] = FALSE /\ sent'[p] = 0
    BY <1>5 DEF StartDrain, Goes, TypeOK
  <2>2. at'[p] \in Nat
    BY RunTypeOK, <1>1 DEF TypeOK
  <2> QED
    BY <2>1, <2>2
<1>6. CASE r = p /\ (LoadFails(p) \/ SaveFails(p))
  <2>1. pc'[p] = "returned" /\ failed'[p] = TRUE
    BY <1>6 DEF LoadFails, SaveFails, Goes, TypeOK
  <2> QED
    BY <2>1
<1>7. ASSUME NEW fails \in BOOLEAN, r = p, EndPages(p, fails)
      PROVE  Good(p)
  <2>1. pc[p] = "page" /\ pc'[p] = "flush" /\ at' = at /\ sent' = sent
    BY <1>7 DEF EndPages, Goes, TypeOK
  <2> QED
    BY <1>3, <2>1
<1>8. CASE r = p /\ CountEvent(p)
  <2>1. pc[p] = "page" /\ pc'[p] = "lock" /\ at' = at /\ sent'[p] = sent[p] + 1 /\ failed' = failed
    BY <1>8 DEF CountEvent, Goes, TypeOK
  <2> QED
    BY <1>3, <2>1
<1>9. CASE r = p /\ Lock(p)
  <2>1. pc[p] = "lock" /\ pc'[p] = "head" /\ at' = at /\ sent' = sent /\ failed' = failed
    BY <1>9 DEF Lock, Goes, TypeOK
  <2> QED
    BY <1>3, <2>1
<1>10. CASE r = p /\ WriteHead(p)
  <2>1. pc[p] = "head" /\ pc'[p] = "tail" /\ at' = at /\ sent' = sent /\ failed' = failed
    BY <1>10 DEF WriteHead, Goes, TypeOK
  <2> QED
    BY <1>3, <2>1
<1>11. CASE r = p /\ WriteTail(p)
  <2>1. pc[p] = "tail" /\ pc'[p] = "page" /\ at'[p] = at[p] + 1 /\ sent' = sent /\ failed' = failed
    BY <1>11 DEF WriteTail, Goes, TypeOK
  <2> QED
    BY <1>3, <2>1
<1>12. CASE r = p /\ (WriteFails(p) \/ WriteTears(p))
  <2>1. pc'[p] = "flush" /\ failed'[p] = TRUE
    BY <1>12 DEF WriteFails, WriteTears, Goes, TypeOK
  <2> QED
    BY <2>1
<1>13. CASE r = p /\ (FlushWrites(p) \/ FlushResets(p))
  <2>1. /\ pc[p] \in {"flush", "reset"} /\ pc'[p] \in {"reset", "save"}
        /\ at' = at /\ sent' = sent /\ failed' = failed
    BY <1>13 DEF FlushWrites, FlushResets, Goes, TypeOK
  <2> QED
    BY <1>3, <2>1
<1>14. CASE r = p /\ FlushFails(p)
  <2>1. pc'[p] = "save" /\ failed'[p] = TRUE
    BY <1>14 DEF FlushFails, Goes, TypeOK
  <2> QED
    BY <2>1
<1>15. CASE r = p /\ SaveReturns(p)
  <2>1. /\ pc[p] = "save" /\ pc'[p] = "returned" /\ mine'[p] = at[p]
        /\ at' = at /\ sent' = sent /\ failed' = failed
    BY <1>15 DEF SaveReturns, Goes, TypeOK
  <2> QED
    BY <1>3, <2>1
<1>16. CASE r = p /\ Returned(p)
  <2>1. /\ pc[p] = "returned" /\ pc'[p] \in {"done", "sleep"}
        /\ errors' = [errors EXCEPT ![p] = IF failed[p] /\ ~cancelled THEN @ + 1 ELSE @]
        /\ at' = at /\ sent' = sent /\ mine' = mine
    BY <1>16 DEF Returned, Goes, TypeOK
  <2>2. CASE failed[p] /\ ~cancelled
    <3>1. errors'[p] = errors[p] + 1
      BY <2>1, <2>2 DEF TypeOK
    <3> QED
      BY <1>3, <2>1, <3>1
  <2>3. CASE ~failed[p]
    BY <1>3, <2>1, <2>3
  <2>4. CASE cancelled
    BY <2>1, <2>4
  <2> QED
    BY <2>2, <2>3, <2>4
<1>17. CASE r = p /\ Wake(p)
  <2>1. pc'[p] = "start"
    BY <1>17 DEF Wake, Goes, TypeOK
  <2> QED
    BY <2>1
<1>18. CASE r = p /\ Interrupted(p)
  <2>1. pc'[p] = "done" /\ cancelled
    BY <1>18 DEF Interrupted, Goes, TypeOK
  <2> QED
    BY <2>1
<1> QED
  BY <1>4, <1>5, <1>6, <1>7, <1>8, <1>9, <1>10, <1>11, <1>12, <1>13, <1>14, <1>15, <1>16, <1>17, <1>18
     DEF Drain, Drive

(* A run that takes a step was not done: nothing was summed up, and the    *)
(* process did not exit.                                                    *)
LEMMA RunEnds ==
  ASSUME TypeOK, StageInv, SummaryInv, ExitInv, NEW r \in Runs, Drain(r) \/ Drive(r)
  PROVE  SummaryInv' /\ ExitInv'
<1>1. /\ phase \in {"drive", "summary"} /\ pc[r] # "done"
      /\ UNCHANGED <<config, phase, entries, exit, summary>>
  BY RunStage, RunFrame
<1>2. ~Finished /\ phase = "drive" /\ summary = << >> /\ ~(exit = 0 /\ config.mode = "single")
  BY <1>1 DEF SummaryInv, ExitInv, Finished
<1> QED
  BY <1>1, <1>2 DEF SummaryInv, ExitInv

(* Before the entries are resolved nothing has happened: the first state   *)
(* satisfies the invariant.                                                 *)
LEMMA InitIInv ==
  ASSUME Init
  PROVE  IInv
<1>1. TypeOK
  <2>1. /\ config \in Configs /\ phase = "resolve" /\ entries = << >> /\ built = 0 /\ cancelled = FALSE /\ exit = -1
    BY DEF Init
  <2>2. /\ at \in [Runs -> Nat] /\ sent \in [Runs -> Nat] /\ mine \in [Runs -> Nat]
        /\ counted \in [Runs -> Nat] /\ drains \in [Runs -> Nat] /\ errors \in [Runs -> Nat]
        /\ saved \in [Files -> Nat] /\ lock \in [Sinks -> Runs \cup {0}]
    BY DEF Init
  <2>3. Blank \in FileType
    BY DEF Blank, FileType, NoLine, Line
  <2>4. file \in [Outputs -> FileType] /\ buf \in [Sinks -> Seq(Piece)]
    BY <2>3 DEF Init
  <2>5. failed \in [Runs -> BOOLEAN] /\ pc \in [Runs -> Pcs]
    BY DEF Init, Pcs
  <2>6. phase \in Phases /\ built \in Nat /\ exit \in Int
    <3>1. -1 \in Int
      OBVIOUS
    <3> QED
      BY <2>1, <3>1 DEF Phases
  <2>7. cancelled \in BOOLEAN /\ broken \in [Sinks -> BOOLEAN]
    BY <2>1 DEF Init
  <2> QED
    BY <2>1, <2>2, <2>4, <2>5, <2>6, <2>7 DEF TypeOK
<1>2. StageInv
  BY DEF Init, StageInv
<1>3. MutexInv /\ PlainInv /\ BufferInv /\ OwnStateInv /\ BrokenInv /\ WrittenInv
  BY DEF Init, MutexInv, PlainInv, BufferInv, OwnStateInv, BrokenInv, WrittenInv
<1>4. CountInv
  <2> SUFFICES ASSUME NEW r \in Runs
               PROVE  IsFiniteSet(LinesOf(r)) /\ Cardinality(LinesOf(r)) + Pending(r) <= counted[r]
    BY DEF CountInv
  <2>1. LinesOf(r) = {}
    BY DEF Init, LinesOf, OnTheWay, LinesIn, Blank
  <2>2. Pending(r) = 0 /\ counted[r] = 0
    BY DEF Init, Pending
  <2> QED
    BY <2>1, <2>2, FS_EmptySet
<1>5. OutcomeInv /\ SummaryInv /\ ExitInv
  BY DEF Init, OutcomeInv, SummaryInv, ExitInv
<1> QED
  BY <1>1, <1>2, <1>3, <1>4, <1>5 DEF IInv

(* A step that leaves the entries and the drains alone keeps what relates  *)
(* them.                                                                    *)
LEMMA FrameKeeps ==
  ASSUME MutexInv, PlainInv, BufferInv, OwnStateInv, BrokenInv, WrittenInv, CountInv,
         UNCHANGED <<config, entries, drainVars>>, cancelled => cancelled'
  PROVE  (MutexInv /\ PlainInv /\ BufferInv /\ OwnStateInv /\ BrokenInv /\ WrittenInv /\ CountInv)'
<1>1. /\ Runs' = Runs /\ Sinks' = Sinks /\ Outputs' = Outputs
      /\ \A q : /\ Entry(q)' = Entry(q) /\ File(q)' = File(q) /\ SinkOf(q)' = SinkOf(q)
                /\ Output(SinkOf(q))' = Output(SinkOf(q))
                /\ SharesSink(q)' <=> SharesSink(q)
                /\ SharesOutput(q)' <=> SharesOutput(q)
                /\ Aliased(q)' <=> Aliased(q)
  BY SamePlaces
<1>2. UNCHANGED <<config, entries, pc, at, failed, errors, counted, saved, mine, lock, file, buf, broken>>
  BY DEF drainVars
<1>3. MutexInv'
  BY <1>1, <1>2 DEF MutexInv
<1>4. PlainInv'
  BY <1>1, <1>2 DEF PlainInv
<1>5. BufferInv'
  BY <1>1, <1>2 DEF BufferInv
<1>6. OwnStateInv'
  BY <1>1, <1>2 DEF OwnStateInv
<1>7. WrittenInv'
  <2>1. \A q, e : (InFile(q, e)' <=> InFile(q, e)) /\ (InBuffer(q, e)' <=> InBuffer(q, e))
    BY <1>1, <1>2 DEF InFile, InBuffer
  <2> QED
    BY <1>1, <1>2, <2>1 DEF WrittenInv, Alone, Sound
<1>8. CountInv'
  <2>1. \A q : LinesOf(q)' = LinesOf(q) /\ Pending(q)' = Pending(q)
    BY <1>1, <1>2 DEF LinesOf, OnTheWay, Pending
  <2> QED
    BY <1>1, <1>2, <2>1 DEF CountInv
<1>9. BrokenInv'
  BY <1>1, <1>2 DEF BrokenInv, Reported
<1> QED
  BY <1>3, <1>4, <1>5, <1>6, <1>7, <1>8, <1>9

(* The drains only move in the run loop: a step that leaves them alone     *)
(* keeps what their errors say.                                             *)
LEMMA FrameOutcome ==
  ASSUME OutcomeInv, UNCHANGED <<config, drainVars>>, cancelled => cancelled'
  PROVE  OutcomeInv'
<1>1. Runs' = Runs /\ UNCHANGED <<pc, at, failed, sent, mine, errors>>
  BY DEF Runs, drainVars
<1> QED
  BY <1>1 DEF OutcomeInv, Kept

(* The entries are resolved: every relation between the drains and what    *)
(* they share holds because nothing has been written, locked or saved.     *)
LEMMA ResolveKeeps ==
  ASSUME IInv, Resolve
  PROVE  IInv'
<1>1. /\ TypeOK /\ StageInv /\ phase = "resolve" /\ entries = << >>
      /\ UNCHANGED <<config, built, cancelled, summary, drainVars>>
  BY DEF IInv, StageInv, Resolve
<1>2. CASE Refused(config, AllResolved)
  <2>1. phase' = "exited" /\ exit' = 1 /\ entries' = entries
    BY <1>2 DEF Resolve, Exit, AllResolved
  <2>2. TypeOK'
    <3>1. UNCHANGED <<config, entries, built, cancelled, pc, at, failed, sent, counted, drains, errors, saved, mine, lock, file, buf, broken>>
      BY <1>1, <2>1 DEF drainVars
    <3> QED
      BY <1>1, <2>1, <3>1 DEF TypeOK, Phases, Runs, Files, Sinks, Outputs, AllResolved, Range
  <2>3. StageInv'
    BY <1>1, <2>1 DEF StageInv, drainVars, Runs, Files, Sinks, Outputs, Range
  <2>4. SummaryInv' /\ ExitInv'
    BY <1>1, <2>1 DEF IInv, SummaryInv, ExitInv
  <2> QED
    BY <1>1, <2>1, <2>2, <2>3, <2>4, FrameKeeps, FrameOutcome DEF IInv
<1>3. CASE ~Refused(config, AllResolved)
  <2>1. phase' = "build" /\ entries' = AllResolved /\ exit' = exit
    BY <1>3 DEF Resolve, AllResolved
  <2>2. UNCHANGED <<pc, at, failed, sent, counted, drains, errors, saved, mine, lock, file, buf, broken>>
    BY <1>1 DEF drainVars
  <2>3. Runs' = Runs /\ Sinks' = Sinks /\ Outputs' = Outputs /\ Files' = Files /\ AllResolved' = AllResolved
    BY <1>1 DEF Runs, Sinks, Outputs, Files, Range, AllResolved
  <2>4. TypeOK'
    <3>1. ~Refused(config', entries')
      BY <1>1, <1>3, <2>1
    <3> QED
      BY <1>1, <2>1, <2>2, <2>3, <3>1 DEF TypeOK, Phases
  <2>5. /\ \A r \in Runs : pc[r] = "idle" /\ at[r] = 0 /\ mine[r] = 0
        /\ \A f \in Files : saved[f] = 0
        /\ \A s \in Sinks : lock[s] = 0 /\ buf[s] = << >> /\ ~broken[s]
        /\ \A o \in Outputs : file[o] = Blank
    BY <1>1 DEF StageInv
  <2>6. \A r \in Runs :
          /\ r # 0
          /\ SinkOf(r)' \in Sinks /\ Output(SinkOf(r))' \in Outputs
          /\ Entry(r)'.state # "" => File(r)' \in Files
    <3> TAKE r \in Runs
    <3>1. /\ r # 0 /\ config.runs[r].state \in DOMAIN FileOf \cup {""}
          /\ config.mode = "fleet" /\ config.stateDir => DeriveState[config.runs[r].input] \in DOMAIN FileOf
      BY <1>1, Places, PathsAssumption DEF TypeOK, Runs
    <3>2. Entry(r)' = Resolved(config, config.runs[r])
      BY <2>1 DEF Entry, AllResolved
    <3>3. /\ Entry(r)'.out = config.runs[r].out
          /\ Entry(r)'.state = StateOf(config, config.runs[r])
      BY <3>2, ResolvedFields
    <3>4. SinkOf(r)' = 0 \/ SinkOf(r)' = r
      BY DEF SinkOf
    <3>5. Output(SinkOf(r))' = config.out \/ Output(SinkOf(r))' = config.runs[r].out
      BY <1>1, <3>3, <3>4 DEF Output
    <3>6. ASSUME Entry(r)'.state # "" PROVE File(r)' \in Files
      <4>1. Entry(r)'.state \in DOMAIN FileOf
        BY <3>1, <3>3, <3>6 DEF StateOf
      <4> QED
        BY <4>1 DEF File, Files, Range
    <3> QED
      BY <3>1, <3>4, <3>5, <3>6 DEF Sinks, Outputs
  <2>7. StageInv'
    <3>1. entries' # << >>
      BY <1>1, <2>1, Places, FirstRun
    <3> QED
      BY <2>1, <2>2, <2>3, <2>5, <3>1 DEF StageInv
  <2>8. MutexInv'
    BY <2>2, <2>3, <2>5, <2>6 DEF MutexInv
  <2> DEFINE f(r) == file'[Output(SinkOf(r))']
             b(r) == buf'[SinkOf(r)']
  <2>16. \A r \in Runs : f(r).begun = NoLine /\ ~f(r).torn /\ b(r) = << >> /\ pc'[r] = "idle" /\ ~broken'[SinkOf(r)']
    <3>1. Blank.begun = NoLine /\ ~Blank.torn
      BY DEF Blank
    <3> QED
      BY <2>2, <2>3, <2>5, <2>6, <3>1
  <2>9. PlainInv'
    BY <2>2, <2>3, <2>5, <2>16 DEF PlainInv
  <2>10. BufferInv'
    <3>1. Paired(<< >>, Len(<< >>)) /\ Len(<< >>) % 2 = 0
      BY DEF Paired
    <3> QED
      BY <2>3, <2>16, <3>1 DEF BufferInv
  <2>11. OwnStateInv'
    BY <2>2, <2>3, <2>5, <2>6 DEF OwnStateInv
  <2>12. WrittenInv' /\ BrokenInv'
    BY <2>2, <2>3, <2>5, <2>16 DEF WrittenInv, BrokenInv
  <2>13. CountInv'
    <3>1. \A q : LinesOf(q)' = LinesOf(q) /\ Pending(q)' = Pending(q)
      BY <2>2, <2>3 DEF LinesOf, OnTheWay, Pending
    <3> QED
      BY <2>2, <2>3, <3>1 DEF IInv, CountInv
  <2>14. OutcomeInv'
    BY <1>1, FrameOutcome DEF IInv
  <2>15. SummaryInv' /\ ExitInv'
    BY <1>1, <2>1 DEF IInv, SummaryInv, ExitInv
  <2> QED
    BY <2>4, <2>7, <2>8, <2>9, <2>10, <2>11, <2>12, <2>13, <2>14, <2>15 DEF IInv
<1> QED
  BY <1>2, <1>3

(* The Runners are built, and all goroutines start at once. *)
LEMMA BuildKeeps ==
  ASSUME IInv, Build
  PROVE  IInv'
<1>1. /\ TypeOK /\ StageInv /\ phase = "build" /\ entries # << >> /\ \A r \in Runs : pc[r] = "idle"
      /\ built' = built + 1
      /\ \/ UNCHANGED <<phase, pc>>
         \/ phase' = "drive" /\ pc' = [r \in Runs |-> "start"]
      /\ UNCHANGED <<config, entries, cancelled, exit, summary, at, failed, sent, counted, drains, errors,
                     saved, mine, lock, file, buf, broken>>
  BY DEF IInv, StageInv, Build
<1>2. /\ Runs' = Runs /\ Sinks' = Sinks /\ Outputs' = Outputs /\ Files' = Files /\ AllResolved' = AllResolved
      /\ \A q : /\ Entry(q)' = Entry(q) /\ File(q)' = File(q) /\ SinkOf(q)' = SinkOf(q)
                /\ Output(SinkOf(q))' = Output(SinkOf(q))
                /\ SharesSink(q)' <=> SharesSink(q)
                /\ SharesOutput(q)' <=> SharesOutput(q)
                /\ Aliased(q)' <=> Aliased(q)
  <2>1. AllResolved' = AllResolved
    BY <1>1 DEF AllResolved, Runs
  <2> QED
    BY <1>1, <2>1, SamePlaces
<1>3. /\ pc' \in [Runs -> {"idle", "start"}] /\ pc \in [Runs -> {"idle"}]
      /\ phase' \in {"build", "drive"}
      /\ phase' = "build" => \A r \in Runs : pc'[r] = "idle"
  BY <1>1 DEF TypeOK
<1>4. TypeOK'
  BY <1>1, <1>2, <1>3 DEF TypeOK, Phases, Pcs
<1>5. StageInv'
  BY <1>1, <1>2, <1>3 DEF StageInv
<1>6. MutexInv'
  BY <1>1, <1>2, <1>3 DEF IInv, MutexInv
<1>7. PlainInv'
  BY <1>1, <1>2, <1>3 DEF IInv, PlainInv
<1>8. BufferInv'
  <2>1. \A r \in Runs : pc[r] \in Quiet /\ pc[r] # "tail" /\ pc'[r] # "tail"
    BY <1>3 DEF Quiet
  <2> SUFFICES ASSUME config.buffered, NEW r \in Runs, ~SharesSink(r)
               PROVE  LET b == buf[SinkOf(r)] IN
                      /\ ~broken[SinkOf(r)] =>
                           /\ Paired(b, Len(b)) /\ Len(b) % 2 = 0 /\ b = << >>
                           /\ ~SharesOutput(r) => file[Output(SinkOf(r))].begun = NoLine
                      /\ ~SharesOutput(r) => ~file[Output(SinkOf(r))].torn
    BY <1>1, <1>2, <2>1 DEF BufferInv
  <2> QED
    BY <1>1, <2>1 DEF IInv, BufferInv
<1>9. OwnStateInv'
  BY <1>1, <1>2 DEF IInv, OwnStateInv
<1>10. WrittenInv'
  <2>1. \A q, e : (InFile(q, e)' <=> InFile(q, e)) /\ (InBuffer(q, e)' <=> InBuffer(q, e))
    BY <1>1, <1>2 DEF InFile, InBuffer
  <2> QED
    BY <1>1, <1>2, <1>3, <2>1 DEF IInv, WrittenInv, Alone, Sound
<1>11. CountInv'
  <2>1. \A q : LinesOf(q)' = LinesOf(q)
    BY <1>1, <1>2 DEF LinesOf, OnTheWay
  <2>2. \A q \in Runs : Pending(q)' = Pending(q)
    BY <1>3 DEF Pending
  <2> QED
    BY <1>1, <1>2, <2>1, <2>2 DEF IInv, CountInv
<1>12. OutcomeInv'
  BY <1>1, <1>2, <1>3 DEF OutcomeInv
<1>13. SummaryInv' /\ ExitInv'
  BY <1>1 DEF IInv, SummaryInv, ExitInv
<1>14. BrokenInv'
  <2>1. \A r \in Runs : pc[r] \notin {"flush", "save", "returned"}
    BY <1>1
  <2> QED
    BY <1>1, <1>2, <2>1 DEF IInv, BrokenInv, Reported
<1> QED
  BY <1>4, <1>5, <1>6, <1>7, <1>8, <1>9, <1>10, <1>11, <1>12, <1>13, <1>14 DEF IInv

(* The signal, the summary, the ways out, and a step of nothing. *)
LEMMA StageKeeps ==
  ASSUME IInv, BuildFails \/ Signal \/ Summary \/ ExitFleet \/ ExitSingle \/ UNCHANGED vars
  PROVE  IInv'
<1>1. TypeOK /\ StageInv /\ OutcomeInv /\ SummaryInv /\ ExitInv
  BY DEF IInv
<1>2. UNCHANGED <<config, entries, built, drainVars>>
  BY DEF BuildFails, Signal, Summary, ExitFleet, ExitSingle, vars
<1>3. /\ Runs' = Runs /\ Sinks' = Sinks /\ Outputs' = Outputs /\ Files' = Files /\ AllResolved' = AllResolved
      /\ UNCHANGED <<pc, at, failed, sent, counted, drains, errors, saved, mine, lock, file, buf, broken>>
  BY <1>2 DEF Runs, Sinks, Outputs, Files, Range, AllResolved, drainVars
<1>4. cancelled' = cancelled \/ (cancelled' = TRUE /\ phase = "drive")
  BY DEF BuildFails, Signal, Summary, ExitFleet, ExitSingle, vars
<1>5. \/ phase' = phase /\ exit' = exit
      \/ Summary
      \/ phase' = "exited" /\ exit' \in {0, 1}
  BY DEF BuildFails, Signal, ExitFleet, ExitSingle, Exit, vars
<1>6. phase' = phase \/ (phase' = "summary" /\ phase = "drive") \/ phase' = "exited"
  BY <1>5 DEF Summary
<1>7. TypeOK'
  <2>1. cancelled' \in BOOLEAN
    BY <1>1, <1>4 DEF TypeOK
  <2>2. phase' \in Phases /\ exit' \in Int
    BY <1>1, <1>5, <1>6 DEF TypeOK, Phases, Summary
  <2> QED
    BY <1>1, <1>2, <1>3, <2>1, <2>2 DEF TypeOK
<1>8. StageInv'
  BY <1>1, <1>2, <1>3, <1>6 DEF StageInv
<1>9. OutcomeInv'
  BY <1>1, <1>2, <1>4, FrameOutcome
<1>10. SummaryInv'
  <2>1. CASE Summary
    <3>1. \A r \in Runs : summary'[r] = [drains |-> drains[r], events |-> counted[r], errors |-> errors[r]]
      BY <2>1 DEF Summary
    <3>2. phase' = "summary" /\ config.mode = "fleet" /\ Finished /\ Finished'
      BY <1>3, <2>1 DEF Summary, Finished
    <3> QED
      BY <1>2, <1>3, <3>1, <3>2 DEF SummaryInv, Finished
  <2>2. CASE ~Summary
    <3>1. summary' = summary
      BY <2>2 DEF BuildFails, Signal, ExitFleet, ExitSingle, vars
    <3> QED
      BY <1>1, <1>2, <1>3, <1>5, <2>2, <3>1 DEF SummaryInv, Finished
  <2> QED
    BY <2>1, <2>2
<1>11. ExitInv'
  <2>1. CASE ExitSingle
    <3>1. phase' = "exited" /\ Finished' /\ entries' # << >>
      BY <1>1, <1>2, <1>3, <2>1 DEF ExitSingle, Exit, Finished, StageInv
    <3>2. errors[1] \in Nat /\ (OneShot(1)' <=> OneShot(1))
      BY <1>1, <1>2, FirstRun, SamePlaces DEF TypeOK
    <3>3. exit' = 0 => ~(OneShot(1) /\ errors[1] > 0)
      BY <2>1 DEF ExitSingle, Exit
    <3> QED
      BY <1>3, <3>1, <3>2, <3>3 DEF ExitInv
  <2>2. CASE ExitFleet
    BY <1>1, <1>2, <2>2 DEF ExitFleet, SummaryInv, ExitInv
  <2>3. CASE BuildFails
    BY <2>3 DEF BuildFails, Exit, ExitInv
  <2>4. CASE Summary
    BY <1>1, <1>2, <2>4 DEF Summary, ExitInv
  <2>5. CASE Signal \/ UNCHANGED vars
    <3>1. UNCHANGED <<config, entries, phase, exit>> /\ (OneShot(1)' <=> OneShot(1)) /\ (Finished' <=> Finished)
      BY <1>2, <1>3, <2>5, SamePlaces DEF Signal, vars, Finished
    <3> QED
      BY <1>1, <1>3, <3>1 DEF ExitInv
  <2> QED
    BY <2>1, <2>2, <2>3, <2>4, <2>5
<1> QED
  BY <1>2, <1>4, <1>7, <1>8, <1>9, <1>10, <1>11, FrameKeeps DEF IInv

(* A step of a run keeps the invariant. *)
LEMMA RunKeeps ==
  ASSUME IInv, NEW r \in Runs, Drain(r) \/ Drive(r)
  PROVE  IInv'
<1>1. /\ TypeOK /\ StageInv /\ MutexInv /\ PlainInv /\ BufferInv /\ OwnStateInv
      /\ BrokenInv /\ WrittenInv /\ CountInv /\ OutcomeInv /\ SummaryInv /\ ExitInv
  BY DEF IInv
<1>2. StageInv'
  <2>1. entries # << >> /\ phase \in {"drive", "summary"} /\ UNCHANGED <<phase, entries>>
    BY <1>1, RunStage
  <2> QED
    BY <2>1 DEF StageInv
<1> QED
  BY <1>1, <1>2, RunTypeOK, RunMutex, RunPlain, RunBuffer, RunOwnState, RunBroken, RunWritten, RunCount, RunOutcome, RunEnds
     DEF IInv

(* Every step keeps the invariant. *)
LEMMA NextIInv ==
  ASSUME IInv, [Next]_vars
  PROVE  IInv'
  BY ResolveKeeps, BuildKeeps, StageKeeps, RunKeeps DEF Next

(* The invariant of the run loop and the fleet. *)
THEOREM Invariance == Spec => []IInv
<1>1. Init => IInv
  BY InitIInv
<1>2. IInv /\ [Next]_vars => IInv'
  BY NextIInv
<1> QED
  BY <1>1, <1>2, PTL DEF Spec
-----------------------------------------------------------------------------
(* At every moment the variables of the run loop have the types that their *)
(* use supposes, and the entries are those of the configuration, resolved  *)
(* and accepted (cmd_run_fleet.go, resolveFleetEntries).                   *)
THEOREM TypeCorrect == Spec => []TypeOK
<1>1. IInv => TypeOK
  BY DEF IInv
<1> QED
  BY Invariance, <1>1, PTL

(* Nothing is ever written after half a line, for any number of runs and   *)
(* whatever writes fail, if the runs that share a sink do not buffer and    *)
(* every output has one sink (JSONLSink.Emit under its mutex, the error     *)
(* that its encoder keeps): half a line is there only while its Emit holds  *)
(* the mutex, or as the last of a sink whose writer failed.                 *)
THEOREM LinesStayWhole == Spec => []LinesWhole
<1>1. IInv => LinesWhole
  <2> SUFFICES ASSUME IInv, Prepared, NEW r \in Runs,
                      ~(config.buffered /\ SharesSink(r)), ~SharesOutput(r)
               PROVE  /\ ~file[Output(SinkOf(r))].torn
                      /\ file[Output(SinkOf(r))].begun # NoLine => lock[SinkOf(r)] # 0 \/ broken[SinkOf(r)]
    BY DEF LinesWhole
  <2>1. entries # << >>
    BY DEF Prepared
  <2>2. CASE config.buffered
    BY <2>1, <2>2 DEF IInv, BufferInv
  <2>3. CASE ~config.buffered
    <3>1. /\ ~file[Output(SinkOf(r))].torn
          /\ ~broken[SinkOf(r)] /\ (\A q \in Runs : SinkOf(q) = SinkOf(r) => pc[q] # "tail")
               => file[Output(SinkOf(r))].begun = NoLine
      BY <2>1, <2>3 DEF IInv, PlainInv
    <3>2. ASSUME NEW q \in Runs, SinkOf(q) = SinkOf(r), pc[q] = "tail" PROVE lock[SinkOf(r)] # 0
      BY <2>1, <3>2, Places DEF IInv, MutexInv
    <3> QED
      BY <3>1, <3>2
  <2> QED
    BY <2>2, <2>3
<1> QED
  BY Invariance, <1>1, PTL

(* What a state file says is behind its run has reached the run's output,  *)
(* whatever the other runs do and whenever the process stops: Flush before *)
(* Save, in every drain, with or without a buffer.  If it has not, then the *)
(* writer of the run's own buffer failed, and the run has an error to show  *)
(* for it or was told to stop.                                               *)
THEOREM SavedWasWritten == Spec => []SavedIsWritten
<1>1. IInv => SavedIsWritten
  <2> SUFFICES ASSUME IInv, Prepared, NEW r \in Runs, Entry(r).state # "", Alone(r), ~Aliased(r)
               PROVE  \/ \A e \in 1 .. saved[File(r)] : InFile(r, e)
                      \/ config.buffered /\ broken[SinkOf(r)] /\ Reported(r)
    BY DEF SavedIsWritten, Alone, InFile, LineOf
  <2>1. saved[File(r)] = mine[r]
    BY DEF IInv, OwnStateInv, Prepared
  <2>2. CASE Sound(r)
    BY <2>1, <2>2 DEF IInv, WrittenInv, Prepared
  <2>3. CASE ~Sound(r)
    BY <2>3 DEF IInv, BrokenInv, Prepared, Sound, Alone
  <2> QED
    BY <2>2, <2>3
<1> QED
  BY Invariance, <1>1, PTL

(* A drain goes on from what its own run saved last (OpenStore, one store  *)
(* for one path).                                                           *)
THEOREM ResumesItsOwn == Spec => ResumesOwn
<1>1. IInv /\ [Next]_vars =>
        (\A r \in Runs : pc[r] = "start" /\ pc'[r] = "page" /\ Entry(r).state # "" /\ ~Aliased(r)
           => at'[r] = mine[r])
  <2> SUFFICES ASSUME IInv, [Next]_vars, NEW r \in Runs, pc[r] = "start", pc'[r] = "page",
                      Entry(r).state # "", ~Aliased(r)
               PROVE  at'[r] = mine[r]
    OBVIOUS
  <2>1. TypeOK /\ StageInv /\ OwnStateInv
    BY DEF IInv
  <2>2. PICK q \in Runs : Drain(q) \/ Drive(q)
    <3>1. ~(UNCHANGED pc)
      OBVIOUS
    <3>2. ~Build
      BY <2>1 DEF Build, StageInv
    <3> QED
      BY <3>1, <3>2 DEF Next, vars, drainVars, Resolve, BuildFails, Signal, Summary, ExitFleet, ExitSingle
  <2>3. q = r
    BY <2>1, <2>2, RunFrame
  <2>4. StartDrain(r)
    BY <2>1, <2>2, <2>3 DEF Drain, Drive, StartDrain, LoadFails, EndPages, CountEvent, Lock, WriteHead, WriteTail,
       WriteFails, WriteTears, FlushWrites, FlushFails, FlushResets, SaveReturns, SaveFails, Returned, Wake, Interrupted,
       Goes, TypeOK
  <2>5. at'[r] = saved[File(r)]
    BY <2>1, <2>4 DEF StartDrain, Loaded, TypeOK
  <2>6. entries # << >>
    BY <2>1, <2>2, RunStage
  <2> QED
    BY <2>1, <2>5, <2>6 DEF OwnStateInv
<1> QED
  BY Invariance, <1>1, PTL DEF ResumesOwn, Spec

(* The summary a fleet prints is final, and every line that a run wrote is *)
(* counted in it (driveFleetRun, countingSink).                            *)
THEOREM SummaryIsTrue == Spec => []SummaryTrue
<1>1. IInv => SummaryTrue
  <2> SUFFICES ASSUME IInv, summary # << >>, NEW r \in Runs
               PROVE  /\ summary[r] = [drains |-> drains[r], events |-> counted[r], errors |-> errors[r]]
                      /\ pc[r] = "done"
                      /\ Cardinality({l \in UNION {file[o].lines : o \in Outputs} : l.run = r}) <= summary[r].events
    BY DEF SummaryTrue
  <2> DEFINE written == {l \in UNION {file[o].lines : o \in Outputs} : l.run = r}
  <2>1. /\ summary[r] = [drains |-> drains[r], events |-> counted[r], errors |-> errors[r]]
        /\ pc[r] = "done"
    BY DEF IInv, SummaryInv
  <2>2. summary[r].events = counted[r]
    BY <2>1
  <2>3. /\ IsFiniteSet(LinesOf(r)) /\ counted[r] \in Nat
        /\ Cardinality(LinesOf(r)) + Pending(r) <= counted[r]
    BY DEF IInv, CountInv, TypeOK
  <2>4. written \subseteq LinesOf(r)
    <3> SUFFICES ASSUME NEW o \in Outputs, NEW l \in file[o].lines, l.run = r
                 PROVE  l \in LinesOf(r)
      OBVIOUS
    <3>1. file[o] \in FileType
      BY DEF IInv, TypeOK
    <3>2. l \in Line
      BY <3>1 DEF FileType
    <3> QED
      BY <3>2 DEF LinesOf, OnTheWay
  <2> HIDE DEF written
  <2>5. Pending(r) = 0
    BY <2>1 DEF Pending
  <2>6. /\ Cardinality(LinesOf(r)) \in Nat /\ Cardinality(written) \in Nat
        /\ Cardinality(written) <= Cardinality(LinesOf(r))
    BY <2>3, <2>4, FS_Subset, FS_CardinalityType
  <2>7. Cardinality(written) <= counted[r]
    BY <2>3, <2>5, <2>6
  <2> QED
    BY <2>1, <2>2, <2>7 DEF written
<1> QED
  BY Invariance, <1>1, PTL

(* A one-shot run that exits 0 untold has written every event it took and  *)
(* saved its progress (cmd_run.go, runRun).                                *)
THEOREM ExitIsTrue == Spec => []ExitTellsTruth
<1>1. IInv => ExitTellsTruth
  <2> SUFFICES ASSUME IInv, exit = 0, config.mode = "single", OneShot(1), ~cancelled
               PROVE  /\ \A e \in (at[1] - sent[1] + 1)..at[1] : InFile(1, e)
                      /\ mine[1] = at[1]
    BY DEF ExitTellsTruth, InFile, LineOf
  <2>1. TypeOK /\ entries # << >> /\ Finished /\ errors[1] = 0
    BY DEF IInv, ExitInv
  <2>2. 1 \in Runs /\ Runs = {1}
    <3>1. config.runs \in Seq(EntrySpace) /\ Len(config.runs) = 1
      BY <2>1, ConfigsAssumption DEF TypeOK, ConfigSpace
    <3> QED
      BY <3>1 DEF Runs
  <2>3. mine[1] = at[1] /\ sent[1] <= at[1] /\ at[1] \in Nat /\ sent[1] \in Nat
    BY <2>1, <2>2 DEF IInv, OutcomeInv, Kept, Finished, TypeOK
  <2>4. Alone(1) /\ ~Aliased(1)
    BY <2>2 DEF Alone, SharesSink, SharesOutput, Aliased
  <2>6. Sound(1)
    <3>1. ~SharesSink(1) /\ pc[1] = "done" /\ ~(errors[1] > 0)
      BY <2>1, <2>2 DEF SharesSink, Finished
    <3> QED
      BY <2>1, <2>2, <3>1 DEF IInv, BrokenInv, Reported, Sound
  <2>5. \A e \in 1 .. at[1] : InFile(1, e)
    BY <2>1, <2>2, <2>3, <2>4, <2>6 DEF IInv, WrittenInv
  <2> QED
    BY <2>3, <2>5
<1> QED
  BY Invariance, <1>1, PTL
==============================================================================
