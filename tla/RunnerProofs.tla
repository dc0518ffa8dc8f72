---------------------------- MODULE RunnerProofs ----------------------------
(***************************************************************************)
(* Proofs about Runner.Drain, for every document, every server, either    *)
(* emitter, any set of faults and any number of drains.                   *)
(***************************************************************************)
EXTENDS Runner, TLAPS

ChainPcs == {"step", "item"}
PagePcs == {"emit", "send", "progress", "advance"}
EndedPcs == {"wait", "flush", "save", "idle"}
GoodKinds == {"accepted", "skip", "empty"}

(* The emitter and the teardown: the consumer is gone once close has      *)
(* returned, and an error on record means that events were dropped.       *)
ChanInv ==
  /\ ~Async => cons = "exited" /\ ~err
  /\ cons = "exited" => ch = << >>
  /\ Async /\ (closed \/ cons = "exited") => pc \in EndedPcs
  /\ pc \in {"flush", "save", "idle"} => cons = "exited"
  /\ cons = "emit" => ~err
  /\ err => lost

(* The page at hand: how much of it is emitted, and which verdicts are    *)
(* possible where.                                                         *)
PageInv ==
  /\ it.emitted <= Len(it.evs)
  /\ pc \in ChainPcs => it.emitted = 0 /\ it.kind \in GoodKinds
  /\ pc = "send" => it.kind = "accepted" /\ it.emitted < Len(it.evs)
  /\ pc \in {"progress", "advance"} /\ it.kind = "accepted" => it.emitted = Len(it.evs)
  /\ pc \in PagePcs => it.kind \in GoodKinds \cup {"warn"}

(* The chain itself writes neither the watermark nor the cursor.          *)
TraceInv ==
  /\ pc \in ChainPcs => ~it.wrote /\ st.mark = base.mark /\ st.cursor = base.cursor
  /\ RefusedPageLeavesNoTrace

(* What a nil return value stands for at each stage of the teardown.      *)
ReturnInv ==
  /\ pc \in {"flush", "save", "idle"} /\ err => ret = "err"
  /\ pc \in EndedPcs \cup {"close"} /\ ret = "nil" /\ it.kind = "accepted"
       => it.emitted = Len(it.evs)
  /\ pc \in {"save", "idle"} /\ ret = "nil" => synced = Len(sunk)
  /\ pc = "idle" /\ ret = "nil" => file = [mark |-> st.mark, ext |-> st.ext]

Taken == {sunk[n] : n \in 1 .. Len(sunk)}
Queued == {ch[n] : n \in 1 .. Len(ch)}
InHand == IF cons = "emit" THEN {cur} ELSE {}
Accepted == Taken \cup Queued \cup InHand
Emitted == {it.evs[n] : n \in 1 .. it.emitted}

(* No event the watermark knows of has left the pipeline, and those of    *)
(* the persisted watermark are at its end.                                 *)
DeliveryInv ==
  ~lost =>
    /\ file.mark \subseteq Durable
    /\ pc # "idle" => st.mark \subseteq Accepted /\ Emitted \subseteq Accepted
    /\ pc = "save" => synced = Len(sunk)

IInv == TypeOK /\ ChanInv /\ PageInv /\ TraceInv /\ ReturnInv /\ DeliveryInv
-----------------------------------------------------------------------------
(* The pages a response may carry are sequences of numbers. *)
LEMMA FreshPagesType ==
  ASSUME TypeOK, NEW page \in FreshPages
  PROVE  page \in Seq(Nat)
<1>1. << >> \in Seq(Nat)
  OBVIOUS
<1>2. fetched \in Nat /\ MaxPageEvents \in Nat
  BY BoundsAssumption DEF TypeOK
<1>3. CASE page = << >>
  BY <1>1, <1>3
<1>4. CASE page # << >>
  <2>1. PICK k \in 0 .. MaxPageEvents : page = [n \in 1 .. k |-> fetched + n]
    BY <1>4 DEF FreshPages
  <2>2. k \in Nat /\ \A n \in 1 .. k : fetched + n \in Nat
    BY <1>2
  <2> QED
    BY <2>1, <2>2
<1> QED
  BY <1>3, <1>4

(* The blank iteration. *)
LEMMA NoIterationType == NoIteration \in Iteration
BY DEF NoIteration, Iteration, Kinds

(* A response that is not accepted has one of six verdicts. *)
LEMMA StepStatusType ==
  ASSUME NEW o, o # "ok", NEW c
  PROVE  StepStatus(o, c) \in {"skip", "empty", "fatal", "break", "warn", "invalidate"}
BY DEF StepStatus, ErrorMode

(* The same for a fan-out item. *)
LEMMA ItemStatusType ==
  ASSUME NEW o, o # "ok"
  PROVE  ItemStatus(o) \in {"drop", "fatal", "break", "invalidate"}
BY DEF ItemStatus, ErrorMode

(* A response that is not accepted either lets the chain (or the fan-out) *)
(* continue, or ends the chain; it touches nothing but the cache slot.    *)
Continues ==
  /\ UNCHANGED <<pc, ret>>
  /\ \/ it' = [it EXCEPT !.idx = @ + 1]
     \/ \E k \in {"skip", "empty"} :
          it' = [it EXCEPT !.idx = @ + 1, !.ran = TRUE, !.kind = k]
     \/ it.left > 0 /\ it' = [it EXCEPT !.left = @ - 1]

Endings == {"fatal", "break", "warn", "invalidate"}

LEMMA RefusalEffect ==
  ASSUME StepFails \/ ItemFails
  PROVE  /\ pc \in ChainPcs
         /\ \E b \in BOOLEAN : st' = [st EXCEPT !.cached = b]
         /\ UNCHANGED <<doc, cancelled, pages, base, fetched, chan, disk, lost, drains>>
         /\ Continues \/ \E status \in Endings : EndChain(status)
<1>1. CASE StepFails
  <2>1. PICK o \in Outcomes \ {"ok"} : \E c \in CachedAfter(o) :
          LET status == StepStatus(o, c) IN
          /\ st' = [st EXCEPT !.cached = c /\ ~(o = "mapped" /\ status = "invalidate")]
          /\ IF status \in {"skip", "empty"}
             THEN /\ it' = IF Req.producer
                           THEN [it EXCEPT !.idx = @ + 1, !.ran = TRUE, !.kind = status]
                           ELSE [it EXCEPT !.idx = @ + 1]
                  /\ UNCHANGED <<pc, ret>>
             ELSE EndChain(status)
    BY <1>1 DEF StepFails
  <2>2. PICK c \in CachedAfter(o) :
          /\ st' = [st EXCEPT !.cached = c /\ ~(o = "mapped" /\ StepStatus(o, c) = "invalidate")]
          /\ IF StepStatus(o, c) \in {"skip", "empty"}
             THEN /\ it' = IF Req.producer
                           THEN [it EXCEPT !.idx = @ + 1, !.ran = TRUE, !.kind = StepStatus(o, c)]
                           ELSE [it EXCEPT !.idx = @ + 1]
                  /\ UNCHANGED <<pc, ret>>
             ELSE EndChain(StepStatus(o, c))
    BY <2>1
  <2>3. StepStatus(o, c) \in {"skip", "empty"} \cup Endings
    BY StepStatusType DEF Endings
  <2>4. Continues \/ \E status \in Endings : EndChain(status)
    BY <2>2, <2>3 DEF Continues
  <2>5. \E b \in BOOLEAN : st' = [st EXCEPT !.cached = b]
    <3> DEFINE b == c /\ ~(o = "mapped" /\ StepStatus(o, c) = "invalidate")
    <3>1. b \in BOOLEAN
      OBVIOUS
    <3> QED
      BY <2>2, <3>1
  <2> QED
    BY <1>1, <2>4, <2>5 DEF StepFails, AtRequest, ChainPcs
<1>2. CASE ItemFails
  <2>1. PICK o \in Outcomes \ {"ok"} : \E c \in CachedAfter(o) :
          /\ st' = [st EXCEPT !.cached = c /\ ItemStatus(o) # "invalidate"]
          /\ IF ItemStatus(o) = "drop"
             THEN /\ it' = [it EXCEPT !.left = @ - 1]
                  /\ UNCHANGED <<pc, ret>>
             ELSE EndChain(ItemStatus(o))
    BY <1>2 DEF ItemFails
  <2>2. ItemStatus(o) \in {"drop"} \cup Endings
    BY ItemStatusType DEF Endings
  <2>3. Continues \/ \E status \in Endings : EndChain(status)
    BY <1>2, <2>1, <2>2 DEF Continues, ItemFails
  <2>4. PICK c : st' = [st EXCEPT !.cached = c /\ ItemStatus(o) # "invalidate"]
    BY <2>1
  <2>5. \E b \in BOOLEAN : st' = [st EXCEPT !.cached = b]
    <3> DEFINE b == c /\ ItemStatus(o) # "invalidate"
    <3>1. b \in BOOLEAN
      OBVIOUS
    <3> QED
      BY <2>4, <3>1
  <2> QED
    BY <1>2, <2>3, <2>5 DEF ItemFails, ChainPcs
<1> QED
  BY <1>1, <1>2

(* Where a verdict that ends the chain leads. *)
LEMMA EndChainEffect ==
  ASSUME NEW status \in Endings, EndChain(status)
  PROVE  /\ it' = [it EXCEPT !.kind = status]
         /\ pc' \in {"close", "top", "emit"}
         /\ pc' = "emit" <=> status = "warn"
         /\ pc' = "top" <=> status = "invalidate"
         /\ ret' \in {ret, "nil", "err"}
         /\ ret' = "nil" /\ pc' = "close" => status = "break"
BY DEF EndChain, Return, Endings

(* The iteration and the control point after such a verdict. *)
LEMMA EndChainType ==
  ASSUME TypeOK, NEW status \in Endings, EndChain(status)
  PROVE  /\ it' \in Iteration
         /\ pc' \in {"close", "top", "emit"}
         /\ ret' \in {ret, "nil", "err"}
<1>1. it' = [it EXCEPT !.kind = status]
  BY EndChainEffect
<1>2. it \in Iteration /\ status \in Kinds
  BY DEF TypeOK, Kinds, Endings
<1>3. it' \in Iteration
  BY <1>1, <1>2 DEF Iteration
<1> QED
  BY <1>3, EndChainEffect

(* There are events to emit on an accepted page only. *)
LEMMA EventsLeft ==
  ASSUME it \in Iteration, it.emitted < Len(Events)
  PROVE  /\ it.kind = "accepted"
         /\ it.emitted < Len(it.evs)
         /\ NextEvent = it.evs[it.emitted + 1]
<1>a. Len(<< >>) = 0
  OBVIOUS
<1>1. it.emitted \in Nat /\ ~(it.emitted < Len(<< >>))
  BY <1>a DEF Iteration
<1>2. it.kind = "accepted"
  BY <1>1 DEF Events
<1> QED
  BY <1>2 DEF Events, NextEvent

(* Emitting one more event of the page. *)
LEMMA EmittedType ==
  ASSUME TypeOK, it' = [it EXCEPT !.emitted = @ + 1], it.emitted < Len(it.evs)
  PROVE  it' \in Iteration /\ it.evs[it.emitted + 1] \in Nat
<1>1. it \in Iteration /\ it.emitted \in Nat /\ it.emitted + 1 \in Nat
  BY DEF TypeOK, Iteration
<1>2. it.evs \in Seq(Nat) /\ it.emitted + 1 \in 1 .. Len(it.evs)
  BY <1>1 DEF Iteration
<1>3. it' \in Iteration
  BY <1>1 DEF Iteration
<1> QED
  BY <1>2, <1>3

(* Initially nothing is in the pipeline. *)
LEMMA InitIInv == Init => IInv
<1> SUFFICES ASSUME Init PROVE IInv
  OBVIOUS
<1> USE DEF Init
<1>1. << >> \in Seq(Nat) /\ Len(<< >>) = 0
  OBVIOUS
<1>2. TypeOK
  <2>1. st \in Scope /\ base \in [mark : SUBSET Nat, cursor : Nat]
    BY DEF Scope
  <2>2. file \in [mark : SUBSET Nat, ext : SUBSET Nat]
    OBVIOUS
  <2>3. 0 \in Nat /\ 0 \in 0 .. Len(<< >>)
    BY <1>1
  <2> QED
    BY <1>1, <2>1, <2>2, <2>3, NoIterationType DEF TypeOK
<1>3. ChanInv
  BY DEF ChanInv, EndedPcs
<1>4. PageInv
  BY <1>1 DEF PageInv, NoIteration, ChainPcs, PagePcs, GoodKinds
<1>5. TraceInv
  BY DEF TraceInv, RefusedPageLeavesNoTrace, NoIteration, ChainPcs
<1>6. ReturnInv
  BY <1>1 DEF ReturnInv, NoIteration
<1>7. DeliveryInv
  BY DEF DeliveryInv
<1> QED
  BY <1>2, <1>3, <1>4, <1>5, <1>6, <1>7 DEF IInv

(* Every step preserves the type invariant. *)
LEMMA NextTypeOK == IInv /\ [Next]_vars => TypeOK'
<1> SUFFICES ASSUME IInv, [Next]_vars PROVE TypeOK'
  OBVIOUS
<1>0. TypeOK
  BY DEF IInv
<1>a. it \in Iteration /\ st \in Scope
  BY <1>0 DEF TypeOK
<1>b. drains + 1 \in Nat /\ pages + 1 \in Nat /\ 0 \in Nat
  BY <1>0 DEF TypeOK
<1>c. /\ it.idx + 1 \in Nat \ {0}
      /\ it.left > 0 => it.left - 1 \in Nat
  BY <1>a DEF Iteration
<1> USE <1>0
<1>1. CASE StartDrain
  <2>1. st' \in Scope /\ base' \in [mark : SUBSET Nat, cursor : Nat]
    BY <1>1 DEF StartDrain, TypeOK, Scope
  <2>2. UNCHANGED chan \/ (ch' = << >> /\ closed' = FALSE /\ cons' = "recv" /\ cur' = 0 /\ err' = FALSE)
    BY <1>1 DEF StartDrain
  <2>3. << >> \in Seq(Nat)
    OBVIOUS
  <2> QED
    BY <1>b, <1>1, <2>1, <2>2, <2>3, NoIterationType DEF StartDrain, TypeOK, chan, disk
<1>2. CASE LoadFails
  BY <1>b, <1>2 DEF LoadFails, TypeOK, chan, disk
<1>3. CASE StopAtTop
  BY <1>3 DEF StopAtTop, Return, TypeOK, chan, disk
<1>4. CASE BeginIteration
  <2>1. base' \in [mark : SUBSET Nat, cursor : Nat]
    BY <1>4 DEF BeginIteration, TypeOK, Scope
  <2> QED
    BY <1>4, <2>1, NoIterationType DEF BeginIteration, TypeOK, chan, disk
<1>5. CASE SkipGated
  <2>1. it' = [it EXCEPT !.idx = @ + 1]
    BY <1>5 DEF SkipGated
  <2>2. it' \in Iteration
    BY <1>a, <1>c, <2>1 DEF Iteration
  <2>3. UNCHANGED <<doc, pc, ret, cancelled, pages, st, base, fetched, chan, disk, lost, drains>>
    BY <1>5 DEF SkipGated
  <2> QED
    BY <2>2, <2>3 DEF TypeOK, chan, disk
<1>6. CASE StepOK \/ ItemOK
  <2>1. PICK page \in FreshPages, c \in CachedAfter("ok") :
          /\ st' = [st EXCEPT !.cached = c, !.ext = Extracted(page)]
          /\ fetched' = fetched + Len(page)
          /\ \/ it' = [it EXCEPT !.idx = @ + 1, !.ran = TRUE, !.evs = page]
             \/ it' = [it EXCEPT !.idx = @ + 1]
             \/ it.left > 0 /\ it' = [it EXCEPT !.left = @ - 1, !.evs = @ \o page]
    BY <1>6 DEF StepOK, ItemOK
  <2>2. page \in Seq(Nat) /\ Len(page) \in Nat
    BY FreshPagesType
  <2>3. it.evs \o page \in Seq(Nat) /\ it \in Iteration /\ st \in Scope /\ fetched \in Nat
    BY <2>2 DEF TypeOK, Iteration
  <2>4. fetched' \in Nat
    BY <2>1, <2>2, <2>3
  <2>5. it' \in Iteration
    <3>1. CASE it' = [it EXCEPT !.idx = @ + 1, !.ran = TRUE, !.evs = page]
      BY <1>c, <2>2, <2>3, <3>1 DEF Iteration
    <3>2. CASE it' = [it EXCEPT !.idx = @ + 1]
      BY <1>c, <2>3, <3>2 DEF Iteration
    <3>3. CASE it.left > 0 /\ it' = [it EXCEPT !.left = @ - 1, !.evs = @ \o page]
      BY <1>c, <2>3, <3>3 DEF Iteration
    <3> QED
      BY <2>1, <3>1, <3>2, <3>3
  <2>6. Extracted(page) \in SUBSET Nat
    BY <2>2, <2>3 DEF Extracted, Scope
  <2>7. c \in BOOLEAN
    BY DEF CachedAfter
  <2>8. st' \in Scope
    BY <2>1, <2>3, <2>6, <2>7 DEF Scope
  <2> QED
    <3>1. UNCHANGED <<doc, pc, ret, cancelled, pages, base, chan, disk, lost, drains>>
      BY <1>6 DEF StepOK, ItemOK
    <3> QED
      BY <2>4, <2>5, <2>8, <3>1 DEF TypeOK, chan, disk
<1>7. CASE StepRefires
  <2>0. it' = [it EXCEPT !.polls = 1 - @]
    BY <1>7 DEF StepRefires
  <2>1. it' \in Iteration
    BY <1>a, <2>0 DEF Iteration
  <2>2. st' \in Scope
    BY <1>7 DEF StepRefires, TypeOK, Scope, CachedAfter
  <2>3. pc' \in {pc, "close"} /\ ret' \in {ret, "err"}
    BY <1>7 DEF StepRefires, Return
  <2> QED
    BY <1>7, <2>1, <2>2, <2>3 DEF StepRefires, TypeOK, chan, disk
<1>8. CASE StepFails \/ ItemFails
  <2>1. st' \in Scope
    BY <1>8, RefusalEffect DEF TypeOK, Scope
  <2>2. UNCHANGED <<doc, cancelled, pages, base, fetched, chan, disk, lost, drains>>
    BY <1>8, RefusalEffect
  <2>3. CASE Continues
    <3>1. it' \in Iteration
      <4>1. CASE it' = [it EXCEPT !.idx = @ + 1]
        BY <1>a, <1>c, <4>1 DEF Iteration
      <4>2. CASE \E k \in {"skip", "empty"} :
                   it' = [it EXCEPT !.idx = @ + 1, !.ran = TRUE, !.kind = k]
        BY <1>a, <1>c, <4>2 DEF Iteration, Kinds
      <4>3. CASE it.left > 0 /\ it' = [it EXCEPT !.left = @ - 1]
        BY <1>a, <1>c, <4>3 DEF Iteration
      <4> QED
        BY <2>3, <4>1, <4>2, <4>3 DEF Continues
    <3> QED
      BY <2>1, <2>2, <2>3, <3>1 DEF Continues, TypeOK, chan, disk
  <2>4. CASE \E status \in Endings : EndChain(status)
    <3>1. it' \in Iteration /\ pc' \in {"close", "top", "emit"} /\ ret' \in {ret, "nil", "err"}
      BY <2>4, EndChainType
    <3> QED
      BY <2>1, <2>2, <3>1 DEF TypeOK, chan, disk
  <2> QED
    BY <1>8, <2>3, <2>4, RefusalEffect
<1>9. CASE StartFanOut
  <2>0. PICK n \in 0 .. MaxItems : it' = [it EXCEPT !.left = n]
    BY <1>9 DEF StartFanOut
  <2>a. n \in Nat
    BY BoundsAssumption
  <2>1. it' \in Iteration
    BY <1>a, <2>0, <2>a DEF Iteration
  <2> QED
    BY <1>9, <2>1 DEF StartFanOut, TypeOK, chan, disk
<1>11. CASE MergeFanOut \/ EndOfChain
  <2>0. \/ it' = [it EXCEPT !.idx = @ + 1, !.ran = @ \/ Req.producer]
        \/ it' = [it EXCEPT !.kind = "warn"]
        \/ it' = it
    BY <1>11 DEF MergeFanOut, EndOfChain
  <2>a. (it.ran \/ Req.producer) \in BOOLEAN
    OBVIOUS
  <2>1. it' \in Iteration
    <3>1. CASE it' = [it EXCEPT !.idx = @ + 1, !.ran = @ \/ Req.producer]
      BY <1>a, <1>c, <2>a, <3>1 DEF Iteration
    <3>2. CASE it' = [it EXCEPT !.kind = "warn"]
      BY <1>a, <3>2 DEF Iteration, Kinds
    <3> QED
      BY <1>a, <2>0, <3>1, <3>2
  <2> QED
    BY <1>11, <2>1 DEF MergeFanOut, EndOfChain, TypeOK, chan, disk
<1>12. CASE ChainEvalFails
  <2>1. CASE st' = st /\ fetched' = fetched
    BY <1>12, <2>1 DEF ChainEvalFails, Return, TypeOK, chan, disk
  <2>2. CASE \E page \in FreshPages, c \in CachedAfter("ok") :
               /\ st' = [st EXCEPT !.cached = c, !.ext = Extracted(page)]
               /\ fetched' = fetched + Len(page)
    <3>1. PICK page \in FreshPages, c \in CachedAfter("ok") :
               /\ st' = [st EXCEPT !.cached = c, !.ext = Extracted(page)]
               /\ fetched' = fetched + Len(page)
      BY <2>2
    <3>2. page \in Seq(Nat) /\ Len(page) \in Nat
      BY FreshPagesType
    <3>3. Extracted(page) \in SUBSET Nat
      BY <3>2 DEF Extracted, TypeOK, Scope
    <3>4. c \in BOOLEAN
      BY DEF CachedAfter
    <3>5. st' \in Scope
      BY <3>1, <3>3, <3>4 DEF TypeOK, Scope
    <3>6. fetched' \in Nat
      BY <3>1, <3>2 DEF TypeOK
    <3> QED
      BY <1>12, <3>5, <3>6 DEF ChainEvalFails, Return, TypeOK, chan, disk
  <2> QED
    BY <1>12, <2>1, <2>2 DEF ChainEvalFails
<1>13. CASE EmitSync
  <2>0. it' = [it EXCEPT !.emitted = @ + 1] /\ it.emitted < Len(it.evs)
        /\ NextEvent = it.evs[it.emitted + 1]
    BY <1>a, <1>13, EventsLeft DEF EmitSync
  <2>1. it' \in Iteration /\ NextEvent \in Nat
    BY <2>0, EmittedType
  <2>2. sunk' \in Seq(Nat) /\ Len(sunk') = Len(sunk) + 1
    BY <1>13, <2>1 DEF EmitSync, TypeOK
  <2> QED
    BY <1>13, <2>1, <2>2 DEF EmitSync, TypeOK, chan
<1>14. CASE EmitSyncFails \/ EmitCheck \/ PageEmitted \/ LoopEvalFails
  BY <1>14 DEF EmitSyncFails, EmitCheck, PageEmitted, LoopEvalFails, Return, TypeOK, chan, disk
<1>15. CASE EmitSend
  <2>0. it' = [it EXCEPT !.emitted = @ + 1] /\ it.emitted < Len(it.evs)
    BY <1>15 DEF EmitSend, IInv, PageInv
  <2>b. NextEvent = it.evs[it.emitted + 1]
    BY <1>15 DEF EmitSend, IInv, PageInv, NextEvent, Events
  <2>1. it' \in Iteration /\ NextEvent \in Nat
    BY <2>0, <2>b, EmittedType
  <2>2. ch' \in Seq(Nat) /\ UNCHANGED <<closed, cons, cur, err>>
    BY <1>15, <2>1 DEF EmitSend, E!Send, TypeOK
  <2> QED
    BY <1>15, <2>1, <2>2 DEF EmitSend, TypeOK, disk
<1>16. CASE ConsumerReceive
  <2>1. ch' \in Seq(Nat) /\ cons' \in {cons, "emit"} /\ cur' \in Nat /\ UNCHANGED <<closed, err, sunk>>
    BY <1>16 DEF ConsumerReceive, E!Receive, TypeOK
  <2> QED
    BY <1>16, <2>1 DEF ConsumerReceive, TypeOK
<1>17. CASE ConsumerEmit
  <2>1. sunk' \in Seq(Nat) /\ Len(sunk') = Len(sunk) + 1
    BY <1>17 DEF ConsumerEmit, E!SinkEmit, TypeOK
  <2>2. cons' = "recv" /\ UNCHANGED <<ch, closed, cur, err>>
    BY <1>17 DEF ConsumerEmit, E!SinkEmit
  <2>3. UNCHANGED <<doc, pc, ret, cancelled, pages, it, st, base, fetched, synced, file, lost, drains>>
    BY <1>17 DEF ConsumerEmit
  <2>4. synced' \in 0 .. Len(sunk')
    BY <2>1, <2>3 DEF TypeOK
  <2> QED
    BY <2>1, <2>2, <2>3, <2>4 DEF TypeOK
<1>18. CASE ConsumerEmitFails \/ ConsumerExit
  BY <1>18 DEF ConsumerEmitFails, ConsumerExit, E!SinkEmitFails, E!Exit, TypeOK
<1>19. CASE ApplyProgress
  <2>1. InScope \subseteq Nat
    BY DEF InScope, TypeOK, Iteration
  <2>2. st' \in Scope
    BY <1>a, <1>19, <2>1 DEF ApplyProgress, Scope
  <2>3. it' \in Iteration
    <3>1. it' = it \/ it' = [it EXCEPT !.wrote = TRUE]
      BY <1>19 DEF ApplyProgress
    <3> QED
      BY <1>a, <3>1 DEF Iteration
  <2> QED
    BY <1>19, <2>2, <2>3 DEF ApplyProgress, TypeOK, chan, disk
<1>20. CASE Advance
  <2>1. st' \in Scope
    <3>1. \A p : NextCursor(p) \in Nat
      BY DEF NextCursor, TypeOK, Scope
    <3>2. PICK p : st' = st \/ st' = [st EXCEPT !.cursor = NextCursor(p)]
      BY <1>20 DEF Advance
    <3> QED
      BY <1>a, <3>1, <3>2 DEF Scope
  <2>2. pc' \in {"close", "top"} /\ ret' \in {ret, "nil"}
    BY <1>20 DEF Advance, Return
  <2> QED
    BY <1>20, <2>1, <2>2 DEF Advance, TypeOK, chan, disk
<1>21. CASE CloseEmitter \/ CloseReturns
  BY <1>21 DEF CloseEmitter, CloseReturns, E!CloseChannel, TypeOK, chan, disk
<1>22. CASE Flush \/ FlushFails \/ SaveFails
  <2>1. Len(sunk) \in 0 .. Len(sunk)
    BY DEF TypeOK
  <2> QED
    BY <1>22, <2>1 DEF Flush, FlushFails, SaveFails, TypeOK, chan, disk
<1>23. CASE Save
  <2>1. file' \in [mark : SUBSET Nat, ext : SUBSET Nat]
    BY <1>23 DEF Save, TypeOK, Scope
  <2> QED
    BY <1>23, <2>1 DEF Save, TypeOK, chan
<1>24. CASE Cancel
  BY <1>24 DEF Cancel, TypeOK, chan, disk
<1>25. CASE Crash
  <2>1. PICK n \in synced .. Len(sunk) : sunk' = SubSeq(sunk, 1, n)
    BY <1>25 DEF Crash
  <2>2. sunk' \in Seq(Nat) /\ Len(sunk') = n /\ n \in Nat
    BY <2>1 DEF TypeOK
  <2>3. << >> \in Seq(Nat)
    OBVIOUS
  <2>4. synced \in 0 .. Len(sunk')
    BY <2>1, <2>2 DEF TypeOK
  <2> QED
    BY <1>b, <1>25, <2>2, <2>3, <2>4 DEF Crash, TypeOK
<1>26. CASE UNCHANGED vars
  BY <1>26 DEF vars, chan, disk, TypeOK
<1> QED
  BY <1>1, <1>2, <1>3, <1>4, <1>5, <1>6, <1>7, <1>8, <1>9, <1>11, <1>12,
     <1>13, <1>14, <1>15, <1>16, <1>17, <1>18, <1>19, <1>20, <1>21, <1>22, <1>23,
     <1>24, <1>25, <1>26
  DEF Next, Drain, Chain, Emission, Teardown, Consumer, Done
-----------------------------------------------------------------------------
(* The steps of the page loop that leave the emitter, the Sink and the    *)
(* store alone.                                                            *)
Body ==
  \/ StopAtTop \/ BeginIteration \/ SkipGated \/ StepOK \/ StepRefires
  \/ StepFails \/ StartFanOut \/ ItemOK \/ ItemFails \/ MergeFanOut
  \/ EndOfChain \/ ChainEvalFails \/ EmitSyncFails \/ EmitCheck \/ PageEmitted
  \/ ApplyProgress \/ Advance \/ LoopEvalFails

LEMMA BodyFrame ==
  ASSUME Body
  PROVE  /\ UNCHANGED <<chan, disk, lost>>
         /\ pc \notin EndedPcs /\ pc' \notin EndedPcs
<1> USE DEF EndedPcs
<1>1. CASE StepFails \/ ItemFails
  <2>1. pc \in ChainPcs /\ UNCHANGED <<chan, disk, lost>>
    BY <1>1, RefusalEffect
  <2>2. CASE Continues
    BY <2>1, <2>2 DEF Continues, ChainPcs
  <2>3. CASE \E status \in Endings : EndChain(status)
    BY <2>1, <2>3, EndChainEffect DEF ChainPcs
  <2> QED
    BY <1>1, <2>2, <2>3, RefusalEffect
<1>2. CASE StopAtTop \/ BeginIteration
  BY <1>2 DEF StopAtTop, BeginIteration, Return
<1>3. CASE SkipGated \/ StepOK \/ StepRefires \/ StartFanOut \/ ItemOK \/ MergeFanOut
  BY <1>3 DEF SkipGated, StepOK, StepRefires, AtRequest, StartFanOut, ItemOK, MergeFanOut, Return
<1>4. CASE EndOfChain \/ ChainEvalFails
  BY <1>4 DEF EndOfChain, ChainEvalFails, Return
<1>5. CASE EmitSyncFails \/ EmitCheck \/ PageEmitted
  BY <1>5 DEF EmitSyncFails, EmitCheck, PageEmitted, Return
<1>6. CASE ApplyProgress \/ Advance \/ LoopEvalFails
  BY <1>6 DEF ApplyProgress, Advance, LoopEvalFails, Return
<1> QED
  BY <1>1, <1>2, <1>3, <1>4, <1>5, <1>6 DEF Body

(* Next is Body plus the steps that matter to the emitter and the disk.   *)
LEMMA NextCases ==
  ASSUME [Next]_vars
  PROVE  \/ Body \/ StartDrain \/ LoadFails \/ EmitSync \/ EmitSend
         \/ ConsumerReceive \/ ConsumerEmit \/ ConsumerEmitFails \/ ConsumerExit
         \/ CloseEmitter \/ CloseReturns \/ Flush \/ FlushFails \/ Save \/ SaveFails
         \/ Cancel \/ Crash \/ UNCHANGED vars
BY DEF Next, Drain, Chain, Emission, Teardown, Consumer, Done, Body

(* The emitter's state machine and the teardown stay in step. *)
LEMMA NextChanInv == IInv /\ [Next]_vars => ChanInv'
<1> SUFFICES ASSUME IInv, [Next]_vars PROVE ChanInv'
  OBVIOUS
<1>0. ChanInv /\ TypeOK
  BY DEF IInv
<1> USE <1>0
<1>1. CASE Body
  BY <1>1, BodyFrame DEF ChanInv, chan, EndedPcs, Async
<1>2. CASE StartDrain
  BY <1>2 DEF StartDrain, ChanInv, chan, Async, EndedPcs
<1>3. CASE LoadFails \/ Cancel
  BY <1>3 DEF LoadFails, Cancel, ChanInv, chan, Async
<1>4. CASE EmitSync
  BY <1>4 DEF EmitSync, ChanInv, chan, Async
<1>5. CASE EmitSend
  <2>1. Async
    BY <1>5, SinkBufferAssumption DEF EmitSend, E!Send, TypeOK, Async
  <2>2. cons # "exited"
    BY <1>5, <2>1 DEF EmitSend, ChanInv, EndedPcs
  <2> QED
    BY <1>5, <2>1, <2>2 DEF EmitSend, E!Send, ChanInv, EndedPcs, Async
<1>6. CASE ConsumerReceive
  BY <1>6 DEF ConsumerReceive, E!Receive, ChanInv, Async
<1>7. CASE ConsumerEmit \/ ConsumerExit
  BY <1>7 DEF ConsumerEmit, ConsumerExit, E!SinkEmit, E!Exit, ChanInv, Async, EndedPcs
<1>8. CASE ConsumerEmitFails
  BY <1>8 DEF ConsumerEmitFails, E!SinkEmitFails, ChanInv, Async
<1>9. CASE CloseEmitter
  BY <1>9 DEF CloseEmitter, E!CloseChannel, ChanInv, chan, Async, EndedPcs
<1>10. CASE CloseReturns
  BY <1>10 DEF CloseReturns, ChanInv, chan, Async, EndedPcs
<1>11. CASE Flush \/ FlushFails \/ Save \/ SaveFails
  BY <1>11 DEF Flush, FlushFails, Save, SaveFails, ChanInv, chan, Async, EndedPcs
<1>12. CASE Crash
  BY <1>12 DEF Crash, ChanInv, Async, EndedPcs
<1>13. CASE UNCHANGED vars
  BY <1>13 DEF vars, chan, ChanInv, Async
<1> QED
  BY <1>1, <1>2, <1>3, <1>4, <1>5, <1>6, <1>7, <1>8, <1>9, <1>10, <1>11, <1>12,
     <1>13, NextCases

(* What a step of the chain does to the parts of the iteration that the   *)
(* other invariants are about.                                             *)
LEMMA RefusalPage ==
  ASSUME TypeOK, PageInv, StepFails \/ ItemFails
  PROVE  /\ pc \in ChainPcs /\ it.kind \in GoodKinds
         /\ it'.emitted = 0 /\ it'.wrote = it.wrote /\ Len(it'.evs) \in Nat
         /\ st'.mark = st.mark /\ st'.cursor = st.cursor /\ base' = base
         /\ \/ pc' = pc /\ it'.kind \in GoodKinds
            \/ it'.kind = "warn" /\ pc' = "emit"
            \/ it'.kind = "invalidate" /\ pc' = "top"
            \/ it'.kind \in {"break", "fatal"} /\ pc' = "close"
<1>1. pc \in ChainPcs /\ it.kind \in GoodKinds /\ it.emitted = 0
  BY RefusalEffect DEF PageInv, ChainPcs
<1>2. it \in Iteration /\ st \in Scope /\ it.evs \in Seq(Nat)
  BY DEF TypeOK, Iteration
<1>3. st'.mark = st.mark /\ st'.cursor = st.cursor /\ base' = base
  BY <1>2, RefusalEffect DEF Scope
<1>4. CASE Continues
  <2>1. /\ it'.emitted = 0 /\ it'.kind \in GoodKinds
        /\ it'.evs = it.evs /\ it'.wrote = it.wrote
    <3>1. CASE it' = [it EXCEPT !.idx = @ + 1]
      BY <1>1, <1>2, <3>1 DEF Iteration
    <3>2. CASE \E k \in {"skip", "empty"} :
                 it' = [it EXCEPT !.idx = @ + 1, !.ran = TRUE, !.kind = k]
      BY <1>1, <1>2, <3>2 DEF Iteration, GoodKinds
    <3>3. CASE it' = [it EXCEPT !.left = @ - 1]
      BY <1>1, <1>2, <3>3 DEF Iteration
    <3> QED
      BY <1>4, <3>1, <3>2, <3>3 DEF Continues
  <2>2. Len(it'.evs) \in Nat
    BY <1>2, <2>1
  <2>3. pc' = pc
    BY <1>4 DEF Continues
  <2> QED
    BY <1>1, <1>3, <2>1, <2>2, <2>3
<1>5. CASE \E status \in Endings : EndChain(status)
  <2>1. PICK status \in Endings : EndChain(status)
    BY <1>5
  <2>2. it' = [it EXCEPT !.kind = status]
    BY <2>1, EndChainEffect
  <2>3. /\ it'.kind = status /\ it'.evs = it.evs
        /\ it'.emitted = 0 /\ it'.wrote = it.wrote
    BY <1>1, <1>2, <2>2 DEF Iteration
  <2>4. /\ pc' \in {"close", "top", "emit"}
        /\ pc' = "emit" <=> status = "warn"
        /\ pc' = "top" <=> status = "invalidate"
    BY <2>1, EndChainEffect
  <2>5. Len(it'.evs) \in Nat
    BY <1>2, <2>3
  <2> QED
    BY <1>1, <1>3, <2>3, <2>4, <2>5 DEF Endings
<1> QED
  BY <1>4, <1>5, RefusalEffect

(* Accepted responses and the control steps of the chain. *)
LEMMA ChainPage ==
  ASSUME TypeOK, PageInv,
         SkipGated \/ StepOK \/ StepRefires \/ StartFanOut \/ ItemOK \/ MergeFanOut
           \/ ChainEvalFails
  PROVE  /\ pc \in ChainPcs /\ pc' \in ChainPcs \cup {"close"}
         /\ pc' = "close" => ret' = "err"
         /\ it'.kind = it.kind /\ it.kind \in GoodKinds
         /\ it'.emitted = 0 /\ it'.wrote = it.wrote /\ Len(it'.evs) \in Nat
         /\ st'.mark = st.mark /\ st'.cursor = st.cursor /\ base' = base
<1>1. pc \in ChainPcs
  BY DEF SkipGated, StepOK, StepRefires, AtRequest, StartFanOut, ItemOK, MergeFanOut,
         ChainEvalFails, ChainPcs
<1>2. it.kind \in GoodKinds /\ it.emitted = 0
  BY <1>1 DEF PageInv, ChainPcs
<1>3. it \in Iteration /\ st \in Scope /\ it.evs \in Seq(Nat)
  BY DEF TypeOK, Iteration
<1>4. CASE SkipGated \/ StepRefires \/ StartFanOut \/ MergeFanOut
  <2>1. \/ it' = [it EXCEPT !.idx = @ + 1]
        \/ it' = [it EXCEPT !.polls = 1 - @]
        \/ \E n \in 0 .. MaxItems : it' = [it EXCEPT !.left = n]
        \/ it' = [it EXCEPT !.idx = @ + 1, !.ran = @ \/ Req.producer]
    BY <1>4 DEF SkipGated, StepRefires, StartFanOut, MergeFanOut
  <2>2. it'.kind = it.kind /\ it'.emitted = 0 /\ it'.evs = it.evs /\ it'.wrote = it.wrote
    BY <1>2, <1>3, <2>1 DEF Iteration
  <2>3. Len(it'.evs) \in Nat
    BY <1>3, <2>2
  <2>4. st' = st \/ \E c \in CachedAfter("ok") : st' = [st EXCEPT !.cached = c]
    BY <1>4 DEF SkipGated, StepRefires, StartFanOut, MergeFanOut
  <2>5. st'.mark = st.mark /\ st'.cursor = st.cursor
    BY <1>3, <2>4 DEF Scope
  <2>6. /\ pc' \in ChainPcs \cup {"close"} /\ base' = base
        /\ pc' = "close" => ret' = "err"
    BY <1>1, <1>4 DEF SkipGated, StepRefires, StartFanOut, MergeFanOut, Return, ChainPcs
  <2> QED
    BY <1>1, <1>2, <2>2, <2>3, <2>5, <2>6
<1>5. CASE StepOK \/ ItemOK
  <2>1. PICK page \in FreshPages, c \in CachedAfter("ok") :
          /\ st' = [st EXCEPT !.cached = c, !.ext = Extracted(page)]
          /\ \/ it' = [it EXCEPT !.idx = @ + 1, !.ran = TRUE, !.evs = page]
             \/ it' = [it EXCEPT !.idx = @ + 1]
             \/ it' = [it EXCEPT !.left = @ - 1, !.evs = @ \o page]
    BY <1>5 DEF StepOK, ItemOK
  <2>2. page \in Seq(Nat)
    BY FreshPagesType
  <2>3. /\ it'.kind = it.kind /\ it'.emitted = 0 /\ it'.wrote = it.wrote
        /\ it'.evs \in {it.evs, page, it.evs \o page}
    BY <1>2, <1>3, <2>1 DEF Iteration
  <2>4. Len(it'.evs) \in Nat
    BY <1>3, <2>2, <2>3
  <2>5. st'.mark = st.mark /\ st'.cursor = st.cursor
    BY <1>3, <2>1 DEF Scope
  <2> QED
    BY <1>1, <1>2, <1>5, <2>3, <2>4, <2>5 DEF StepOK, ItemOK, ChainPcs
<1>6. CASE ChainEvalFails
  <2>1. st' = st \/ \E page \in FreshPages, c \in CachedAfter("ok") :
                         st' = [st EXCEPT !.cached = c, !.ext = Extracted(page)]
    BY <1>6 DEF ChainEvalFails
  <2>2. st'.mark = st.mark /\ st'.cursor = st.cursor
    BY <1>3, <2>1 DEF Scope
  <2>3. it' = it /\ base' = base /\ pc' = "close" /\ ret' = "err"
    BY <1>6 DEF ChainEvalFails, Return
  <2>4. Len(it.evs) \in Nat
    BY <1>3
  <2> QED
    BY <1>1, <1>2, <2>2, <2>3, <2>4
<1> QED
  BY <1>4, <1>5, <1>6

(* The page is emitted from its first event to its last. *)
LEMMA NextPageInv == IInv /\ [Next]_vars => PageInv'
<1> SUFFICES ASSUME IInv, [Next]_vars PROVE PageInv'
  OBVIOUS
<1>0. PageInv /\ TypeOK
  BY DEF IInv
<1>a. it \in Iteration /\ it.emitted \in Nat /\ Len(it.evs) \in Nat
  BY <1>0 DEF TypeOK, Iteration
<1> USE <1>0
<1>1. CASE StepFails \/ ItemFails
  BY <1>1, RefusalPage DEF PageInv, ChainPcs, PagePcs, GoodKinds
<1>2. CASE SkipGated \/ StepOK \/ StepRefires \/ StartFanOut \/ ItemOK \/ MergeFanOut
             \/ ChainEvalFails
  BY <1>2, ChainPage DEF PageInv, ChainPcs, PagePcs
<1>3. CASE StartDrain \/ BeginIteration
  <2>1. it' = NoIteration /\ pc' \in {"top", "step"}
    BY <1>3 DEF StartDrain, BeginIteration
  <2> QED
    BY <2>1 DEF PageInv, NoIteration, ChainPcs, PagePcs, GoodKinds
<1>4. CASE StopAtTop \/ LoopEvalFails \/ EmitSyncFails
  BY <1>4 DEF StopAtTop, LoopEvalFails, EmitSyncFails, Return, PageInv, ChainPcs, PagePcs
<1>5. CASE EndOfChain
  BY <1>5, <1>a DEF EndOfChain, PageInv, ChainPcs, PagePcs, Iteration, GoodKinds
<1>6. CASE EmitCheck \/ PageEmitted
  <2>1. EmitCheck => it.kind = "accepted" /\ it.emitted < Len(it.evs)
    BY <1>a, EventsLeft DEF EmitCheck
  <2> QED
    BY <1>6, <2>1 DEF EmitCheck, PageEmitted, Return, Events, PageInv, ChainPcs, PagePcs
<1>7. CASE EmitSync \/ EmitSend
  <2>1. /\ it' = [it EXCEPT !.emitted = @ + 1] /\ pc \in {"emit", "send"} /\ pc' = "emit"
        /\ it.emitted < Len(it.evs) /\ it.kind = "accepted"
    BY <1>7, <1>a, EventsLeft DEF EmitSync, EmitSend, PageInv
  <2>2. it'.emitted = it.emitted + 1 /\ it'.evs = it.evs /\ it'.kind = it.kind
    BY <1>a, <2>1 DEF Iteration
  <2> QED
    BY <1>a, <2>1, <2>2 DEF PageInv, ChainPcs, PagePcs, GoodKinds
<1>8. CASE ApplyProgress \/ Advance
  <2>1. it' = it \/ it' = [it EXCEPT !.wrote = TRUE]
    BY <1>8 DEF ApplyProgress, Advance
  <2>2. it'.kind = it.kind /\ it'.emitted = it.emitted /\ it'.evs = it.evs
    BY <1>a, <2>1 DEF Iteration
  <2> QED
    BY <1>8, <2>2 DEF ApplyProgress, Advance, Return, PageInv, ChainPcs, PagePcs
<1>9. CASE CloseEmitter \/ CloseReturns \/ Flush \/ FlushFails \/ Save \/ SaveFails \/ Crash
  BY <1>9 DEF CloseEmitter, CloseReturns, Flush, FlushFails, Save, SaveFails, Crash,
              PageInv, ChainPcs, PagePcs
<1>10. CASE LoadFails \/ Cancel \/ ConsumerReceive \/ ConsumerEmit \/ ConsumerEmitFails
              \/ ConsumerExit \/ UNCHANGED vars
  BY <1>10 DEF LoadFails, Cancel, ConsumerReceive, ConsumerEmit, ConsumerEmitFails,
               ConsumerExit, vars, PageInv
<1> QED
  BY <1>1, <1>2, <1>3, <1>4, <1>5, <1>6, <1>7, <1>8, <1>9, <1>10, NextCases DEF Body

(* A refused page leaves no trace. *)
LEMMA NextTraceInv == IInv /\ [Next]_vars => TraceInv'
<1> SUFFICES ASSUME IInv, [Next]_vars PROVE TraceInv'
  OBVIOUS
<1>0. TraceInv /\ PageInv /\ TypeOK
  BY DEF IInv
<1>a. it \in Iteration /\ st \in Scope
  BY <1>0 DEF TypeOK
<1> USE <1>0 DEF TraceInv, RefusedPageLeavesNoTrace
<1>1. CASE StepFails \/ ItemFails
  BY <1>1, RefusalPage DEF GoodKinds
<1>2. CASE SkipGated \/ StepOK \/ StepRefires \/ StartFanOut \/ ItemOK \/ MergeFanOut
             \/ ChainEvalFails
  BY <1>2, ChainPage DEF GoodKinds
<1>3. CASE StartDrain \/ BeginIteration
  <2>1. it' = NoIteration /\ st'.mark = base'.mark /\ st'.cursor = base'.cursor
    BY <1>3 DEF StartDrain, BeginIteration
  <2> QED
    BY <2>1 DEF NoIteration
<1>4. CASE StopAtTop \/ LoopEvalFails \/ EmitSyncFails \/ EmitCheck \/ PageEmitted
  BY <1>4 DEF StopAtTop, LoopEvalFails, EmitSyncFails, EmitCheck, PageEmitted, Return, ChainPcs
<1>5. CASE EndOfChain
  <2>1. /\ pc = "step" /\ it'.kind \in {it.kind, "warn"} /\ pc' = "emit"
        /\ it'.wrote = it.wrote /\ UNCHANGED <<st, base>>
    BY <1>5, <1>a DEF EndOfChain, Iteration
  <2> QED
    BY <2>1 DEF ChainPcs
<1>6. CASE EmitSync \/ EmitSend
  <2>1. it'.kind = it.kind /\ it'.wrote = it.wrote /\ pc' = "emit" /\ UNCHANGED <<st, base>>
    BY <1>6, <1>a DEF EmitSync, EmitSend, Iteration
  <2> QED
    BY <2>1 DEF ChainPcs
<1>7. CASE ApplyProgress
  <2>1. it.kind \in GoodKinds \cup {"warn"} /\ pc' = "advance" /\ base' = base
    BY <1>7 DEF ApplyProgress, PageInv, PagePcs
  <2>2. CASE it.kind = "warn"
    BY <1>7, <2>1, <2>2 DEF ApplyProgress, ChainPcs
  <2>3. CASE it.kind \in GoodKinds
    <3>1. it' = [it EXCEPT !.wrote = TRUE]
      BY <1>7, <2>3 DEF ApplyProgress, GoodKinds
    <3>2. it'.kind = it.kind
      BY <1>a, <3>1 DEF Iteration
    <3> QED
      BY <2>1, <2>3, <3>2 DEF GoodKinds, ChainPcs
  <2> QED
    BY <2>1, <2>2, <2>3
<1>8. CASE Advance
  <2>1. it.kind \in GoodKinds \cup {"warn"} /\ it' = it /\ pc' \in {"close", "top"}
    BY <1>8 DEF Advance, PageInv, PagePcs, Return
  <2>2. st'.mark = st.mark /\ base' = base
    BY <1>8, <1>a DEF Advance, Scope
  <2> QED
    BY <2>1, <2>2 DEF GoodKinds, ChainPcs
<1>9. CASE CloseEmitter \/ CloseReturns \/ Flush \/ FlushFails \/ Save \/ SaveFails \/ Crash
  BY <1>9 DEF CloseEmitter, CloseReturns, Flush, FlushFails, Save, SaveFails, Crash, ChainPcs
<1>10. CASE LoadFails \/ Cancel \/ ConsumerReceive \/ ConsumerEmit \/ ConsumerEmitFails
              \/ ConsumerExit \/ UNCHANGED vars
  BY <1>10 DEF LoadFails, Cancel, ConsumerReceive, ConsumerEmit, ConsumerEmitFails,
               ConsumerExit, vars
<1> QED
  BY <1>1, <1>2, <1>3, <1>4, <1>5, <1>6, <1>7, <1>8, <1>9, <1>10, NextCases DEF Body

(* A nil return value is only given, and kept, when nothing is wrong. *)
LEMMA NextReturnInv == IInv /\ [Next]_vars => ReturnInv'
<1> SUFFICES ASSUME IInv, [Next]_vars PROVE ReturnInv'
  OBVIOUS
<1>0. ReturnInv /\ ChanInv /\ PageInv /\ TypeOK
  BY DEF IInv
<1>a. it \in Iteration
  BY <1>0 DEF TypeOK
<1> USE <1>0
<1>1. CASE Body
  <2>1. pc' \notin EndedPcs
    BY <1>1, BodyFrame
  <2>2. pc' = "close" /\ ret' = "nil" /\ it'.kind = "accepted" => it'.emitted = Len(it'.evs)
    <3>1. CASE StepFails \/ ItemFails
      BY <3>1, RefusalPage DEF GoodKinds, ChainPcs
    <3>2. CASE SkipGated \/ StepOK \/ StepRefires \/ StartFanOut \/ ItemOK \/ MergeFanOut
                 \/ ChainEvalFails
      BY <3>2, ChainPage DEF ChainPcs
    <3>3. CASE StopAtTop \/ LoopEvalFails \/ EmitSyncFails
      BY <3>3 DEF StopAtTop, LoopEvalFails, EmitSyncFails, Return
    <3>4. CASE BeginIteration \/ EndOfChain \/ PageEmitted \/ EmitCheck \/ ApplyProgress
      BY <3>4 DEF BeginIteration, EndOfChain, PageEmitted, EmitCheck, ApplyProgress, Return
    <3>5. CASE Advance
      BY <3>5 DEF Advance, PageInv
    <3> QED
      BY <1>1, <3>1, <3>2, <3>3, <3>4, <3>5 DEF Body
  <2> QED
    BY <2>1, <2>2 DEF ReturnInv, EndedPcs
<1>2. CASE StartDrain \/ EmitSync \/ EmitSend
  BY <1>2 DEF StartDrain, EmitSync, EmitSend, ReturnInv, EndedPcs
<1>3. CASE LoadFails \/ Crash
  BY <1>3 DEF LoadFails, Crash, ReturnInv, EndedPcs
<1>4. CASE ConsumerReceive \/ ConsumerEmit \/ ConsumerEmitFails \/ ConsumerExit
  <2>1. pc \notin {"flush", "save", "idle"} /\ UNCHANGED <<pc, ret, it>>
    BY <1>4 DEF ConsumerReceive, ConsumerEmit, ConsumerEmitFails, ConsumerExit, E!Receive,
                E!SinkEmit, E!SinkEmitFails, E!Exit, ChanInv
  <2> QED
    BY <2>1 DEF ReturnInv
<1>5. CASE CloseEmitter
  <2>1. pc = "close" /\ pc' \in {"wait", "flush"} /\ UNCHANGED <<ret, it, err>>
    BY <1>5 DEF CloseEmitter, E!CloseChannel, chan
  <2>2. pc' = "flush" => ~err
    BY <1>5 DEF CloseEmitter, ChanInv
  <2> QED
    BY <2>1, <2>2 DEF ReturnInv, EndedPcs
<1>6. CASE CloseReturns
  BY <1>6 DEF CloseReturns, chan, ReturnInv, EndedPcs
<1>7. CASE Flush \/ FlushFails
  BY <1>7 DEF Flush, FlushFails, chan, ReturnInv, EndedPcs
<1>8. CASE Save \/ SaveFails
  BY <1>8 DEF Save, SaveFails, chan, disk, ReturnInv, EndedPcs
<1>9. CASE Cancel \/ UNCHANGED vars
  BY <1>9 DEF Cancel, vars, chan, disk, ReturnInv
<1> QED
  BY <1>1, <1>2, <1>3, <1>4, <1>5, <1>6, <1>7, <1>8, <1>9, NextCases
-----------------------------------------------------------------------------
(* Delivery. *)

(* Handing one more event to Sink.Emit. *)
LEMMA TakenAppend ==
  ASSUME NEW x \in Nat, sunk \in Seq(Nat), sunk' = Append(sunk, x),
         synced \in 0 .. Len(sunk), synced' = synced
  PROVE  /\ Taken' = Taken \cup {x}
         /\ Durable' = Durable
<1>1. /\ Len(sunk') = Len(sunk) + 1 /\ Len(sunk) \in Nat
      /\ \A n \in 1 .. Len(sunk) : sunk'[n] = sunk[n]
      /\ sunk'[Len(sunk) + 1] = x
  OBVIOUS
<1>2. 1 .. Len(sunk') = (1 .. Len(sunk)) \cup {Len(sunk) + 1}
  BY <1>1
<1>3. Taken' = Taken \cup {x}
  BY <1>1, <1>2 DEF Taken
<1>4. \A n \in 1 .. synced : n \in 1 .. Len(sunk)
  BY <1>1
<1>5. Durable' = Durable
  BY <1>1, <1>4 DEF Durable
<1> QED
  BY <1>3, <1>5

(* What is durable has been taken. *)
LEMMA DurableTaken ==
  ASSUME sunk \in Seq(Nat), synced \in 0 .. Len(sunk)
  PROVE  /\ Durable \subseteq Taken
         /\ synced = Len(sunk) => Durable = Taken
BY DEF Durable, Taken

(* Putting an event on the channel. *)
LEMMA QueuedAppend ==
  ASSUME NEW x \in Nat, ch \in Seq(Nat), ch' = Append(ch, x)
  PROVE  Queued' = Queued \cup {x}
<1>1. /\ Len(ch') = Len(ch) + 1 /\ Len(ch) \in Nat
      /\ \A n \in 1 .. Len(ch) : ch'[n] = ch[n]
      /\ ch'[Len(ch) + 1] = x
  OBVIOUS
<1>2. 1 .. Len(ch') = (1 .. Len(ch)) \cup {Len(ch) + 1}
  BY <1>1
<1> QED
  BY <1>1, <1>2 DEF Queued

(* Taking the first event off the channel. *)
LEMMA QueuedTail ==
  ASSUME ch \in Seq(Nat), ch # << >>, ch' = Tail(ch)
  PROVE  Queued = Queued' \cup {Head(ch)}
<1>1. /\ Len(ch) \in Nat /\ Len(ch) >= 1 /\ Len(ch') = Len(ch) - 1
      /\ Head(ch) = ch[1]
      /\ \A n \in 1 .. Len(ch') : ch'[n] = ch[n + 1]
  OBVIOUS
<1>2. Queued' = {ch[n] : n \in 2 .. Len(ch)}
  <2>1. \A n \in 1 .. Len(ch') : n + 1 \in 2 .. Len(ch) /\ ch'[n] = ch[n + 1]
    BY <1>1
  <2>2. \A n \in 2 .. Len(ch) : n - 1 \in 1 .. Len(ch') /\ ch'[n - 1] = ch[n]
    BY <1>1
  <2> QED
    BY <2>1, <2>2 DEF Queued
<1>3. 1 .. Len(ch) = {1} \cup (2 .. Len(ch))
  BY <1>1
<1>4. Queued = {ch[1]} \cup {ch[n] : n \in 2 .. Len(ch)}
  BY <1>3 DEF Queued
<1> QED
  BY <1>1, <1>2, <1>4

(* Emitting one more event of the page. *)
LEMMA EmittedStep ==
  ASSUME it \in Iteration, it' = [it EXCEPT !.emitted = @ + 1], it.emitted < Len(it.evs)
  PROVE  Emitted' = Emitted \cup {it.evs[it.emitted + 1]}
<1>1. it.emitted \in Nat /\ it'.emitted = it.emitted + 1 /\ it'.evs = it.evs
  BY DEF Iteration
<1>2. 1 .. it'.emitted = (1 .. it.emitted) \cup {it.emitted + 1}
  BY <1>1
<1> QED
  BY <1>1, <1>2 DEF Emitted

(* The steps of the page loop: progress records emitted events only. *)
LEMMA BodyDelivery ==
  ASSUME IInv, Body, ~lost
  PROVE  /\ pc # "idle" /\ pc' # "save"
         /\ st'.mark \subseteq st.mark \cup Emitted
         /\ Emitted' \subseteq Emitted
<1>0. PageInv /\ TypeOK
  BY DEF IInv
<1>a. it \in Iteration /\ st \in Scope
  BY <1>0 DEF TypeOK
<1>b. pc # "idle" /\ pc' # "save"
  BY BodyFrame DEF EndedPcs
<1>c. it'.emitted = 0 => Emitted' = {}
  BY DEF Emitted
<1>1. CASE StepFails \/ ItemFails
  BY <1>0, <1>b, <1>c, <1>1, RefusalPage
<1>2. CASE SkipGated \/ StepOK \/ StepRefires \/ StartFanOut \/ ItemOK \/ MergeFanOut
             \/ ChainEvalFails
  BY <1>0, <1>b, <1>c, <1>2, ChainPage
<1>3. CASE BeginIteration
  <2>1. it'.emitted = 0 /\ st' = st
    BY <1>3 DEF BeginIteration, NoIteration
  <2> QED
    BY <1>b, <1>c, <2>1
<1>4. CASE EndOfChain
  <2>1. it.emitted = 0 /\ st' = st /\ it'.emitted = it.emitted
    BY <1>a, <1>0, <1>4 DEF EndOfChain, PageInv, ChainPcs, Iteration
  <2> QED
    BY <1>b, <1>c, <2>1
<1>5. CASE ApplyProgress
  <2>1. it'.evs = it.evs /\ it'.emitted = it.emitted
    <3>1. it' = it \/ it' = [it EXCEPT !.wrote = TRUE]
      BY <1>5 DEF ApplyProgress
    <3> QED
      BY <1>a, <3>1 DEF Iteration
  <2>2. st'.mark \subseteq st.mark \cup Emitted
    <3>1. CASE it.kind = "warn"
      BY <1>5, <3>1 DEF ApplyProgress
    <3>2. CASE it.kind \in GoodKinds
      <4>1. st'.mark = st.mark \cup InScope
        BY <1>a, <1>5, <3>2 DEF ApplyProgress, Scope, GoodKinds
      <4>2. it.kind = "accepted" => it.emitted = Len(it.evs)
        BY <1>0, <1>5 DEF ApplyProgress, PageInv
      <4>3. InScope \subseteq Emitted
        BY <3>2, <4>2 DEF InScope, Emitted, GoodKinds
      <4> QED
        BY <4>1, <4>3
    <3> QED
      BY <1>0, <1>5, <3>1, <3>2 DEF ApplyProgress, PageInv, PagePcs
  <2> QED
    BY <1>b, <2>1, <2>2 DEF Emitted
<1>6. CASE Advance
  <2>1. st'.mark = st.mark /\ it' = it
    BY <1>a, <1>6 DEF Advance, Scope
  <2> QED
    BY <1>b, <2>1 DEF Emitted
<1>7. CASE StopAtTop \/ EmitSyncFails \/ EmitCheck \/ PageEmitted \/ LoopEvalFails
  <2>1. UNCHANGED <<st, it>>
    BY <1>7 DEF StopAtTop, EmitSyncFails, EmitCheck, PageEmitted, LoopEvalFails
  <2> QED
    BY <1>b, <2>1 DEF Emitted
<1> QED
  BY <1>1, <1>2, <1>3, <1>4, <1>5, <1>6, <1>7 DEF Body

(* No event the watermark knows of leaves the pipeline but into the Sink. *)
LEMMA NextDeliveryInv == IInv /\ [Next]_vars => DeliveryInv'
<1> SUFFICES ASSUME IInv, [Next]_vars, ~lost, ~lost' PROVE DeliveryInv'
  <2>1. [Next]_vars => (lost => lost')
    BY NextCases, BodyFrame
       DEF StartDrain, LoadFails, EmitSync, EmitSend, ConsumerReceive, ConsumerEmit,
           ConsumerEmitFails, ConsumerExit, CloseEmitter, CloseReturns, Flush, FlushFails,
           Save, SaveFails, Cancel, Crash, vars
  <2> QED
    BY <2>1 DEF DeliveryInv
<1>0. DeliveryInv /\ ChanInv /\ PageInv /\ TypeOK
  BY DEF IInv
<1>a. it \in Iteration /\ st \in Scope /\ sunk \in Seq(Nat) /\ ch \in Seq(Nat)
      /\ synced \in 0 .. Len(sunk) /\ cur \in Nat
  BY <1>0 DEF TypeOK
<1>b. /\ file.mark \subseteq Durable
      /\ pc # "idle" => st.mark \subseteq Accepted /\ Emitted \subseteq Accepted
      /\ pc = "save" => synced = Len(sunk)
  BY <1>0 DEF DeliveryInv
<1>1. CASE Body
  <2>1. Accepted' = Accepted /\ Durable' = Durable /\ file' = file
    BY <1>1, BodyFrame DEF chan, disk, Accepted, Taken, Queued, InHand, Durable
  <2> QED
    BY <1>b, <1>1, <2>1, BodyDelivery DEF DeliveryInv
<1>2. CASE StartDrain
  <2>1. /\ st'.mark = file.mark /\ it' = NoIteration /\ UNCHANGED disk /\ pc' = "top"
    BY <1>2 DEF StartDrain
  <2>2. Taken' = Taken /\ Durable' = Durable /\ file' = file /\ Emitted' = {}
    BY <2>1 DEF disk, Taken, Durable, Emitted, NoIteration
  <2> QED
    BY <1>a, <1>b, <2>1, <2>2, DurableTaken DEF DeliveryInv, Accepted
<1>3. CASE EmitSync
  <2>1. /\ it' = [it EXCEPT !.emitted = @ + 1] /\ it.emitted < Len(it.evs)
        /\ sunk' = Append(sunk, NextEvent) /\ pc = "emit" /\ pc' = "emit"
        /\ UNCHANGED <<chan, st, synced, file>>
    BY <1>a, <1>3, EventsLeft DEF EmitSync
  <2>a. NextEvent = it.evs[it.emitted + 1]
    BY <1>a, <1>3, EventsLeft DEF EmitSync
  <2>2. NextEvent \in Nat
    BY <1>0, <2>1, <2>a, EmittedType
  <2>3. Taken' = Taken \cup {NextEvent} /\ Durable' = Durable
    BY <1>a, <2>1, <2>2, TakenAppend
  <2>4. Emitted' = Emitted \cup {NextEvent}
    BY <1>a, <2>1, <2>a, EmittedStep
  <2>5. Queued' = Queued /\ InHand' = InHand
    BY <2>1 DEF chan, Queued, InHand
  <2> QED
    BY <1>b, <2>1, <2>3, <2>4, <2>5 DEF DeliveryInv, Accepted
<1>4. CASE EmitSend
  <2>1. /\ it' = [it EXCEPT !.emitted = @ + 1] /\ it.emitted < Len(it.evs)
        /\ ch' = Append(ch, NextEvent) /\ pc = "send" /\ pc' = "emit"
        /\ UNCHANGED <<cons, cur, st, disk>>
    BY <1>0, <1>4 DEF EmitSend, E!Send, PageInv
  <2>a. NextEvent = it.evs[it.emitted + 1]
    BY <1>0, <1>4 DEF EmitSend, PageInv, NextEvent, Events
  <2>2. NextEvent \in Nat
    BY <1>0, <2>1, <2>a, EmittedType
  <2>3. Queued' = Queued \cup {NextEvent}
    BY <1>a, <2>1, <2>2, QueuedAppend
  <2>4. Emitted' = Emitted \cup {NextEvent}
    BY <1>a, <2>1, <2>a, EmittedStep
  <2>5. Taken' = Taken /\ InHand' = InHand /\ Durable' = Durable /\ file' = file
    BY <2>1 DEF disk, Taken, InHand, Durable
  <2> QED
    BY <1>b, <2>1, <2>3, <2>4, <2>5 DEF DeliveryInv, Accepted
<1>5. CASE ConsumerReceive
  <2>1. /\ cons = "recv" /\ ch # << >> /\ ch' = Tail(ch)
        /\ cons' = "emit" /\ cur' = Head(ch)
        /\ UNCHANGED <<pc, it, st, sunk, synced, file>>
    BY <1>0, <1>5 DEF ConsumerReceive, E!Receive, ChanInv
  <2>2. Queued = Queued' \cup {Head(ch)}
    BY <1>a, <2>1, QueuedTail
  <2>3. InHand' = {Head(ch)} /\ Taken' = Taken /\ Durable' = Durable /\ Emitted' = Emitted
    BY <2>1 DEF InHand, Taken, Durable, Emitted
  <2>4. Accepted \subseteq Accepted'
    BY <2>1, <2>2, <2>3 DEF Accepted, InHand
  <2> QED
    BY <1>b, <2>1, <2>3, <2>4 DEF DeliveryInv
<1>6. CASE ConsumerEmit
  <2>1. /\ cons = "emit" /\ cons' = "recv" /\ sunk' = Append(sunk, cur)
        /\ UNCHANGED <<ch, pc, it, st, synced, file>>
    BY <1>6 DEF ConsumerEmit, E!SinkEmit
  <2>2. Taken' = Taken \cup {cur} /\ Durable' = Durable
    BY <1>a, <2>1, TakenAppend
  <2>3. InHand = {cur} /\ InHand' = {} /\ Queued' = Queued /\ Emitted' = Emitted
    BY <2>1 DEF InHand, Queued, Emitted
  <2>4. pc # "save"
    BY <1>0, <2>1 DEF ChanInv
  <2> QED
    BY <1>b, <2>1, <2>2, <2>3, <2>4 DEF DeliveryInv, Accepted
<1>7. CASE ConsumerExit
  <2>1. cons = "recv" /\ cons' = "exited" /\ UNCHANGED <<ch, cur, sunk, pc, it, st, synced, file>>
    BY <1>7 DEF ConsumerExit, E!Exit
  <2>2. Accepted' = Accepted /\ Durable' = Durable /\ Emitted' = Emitted
    BY <2>1 DEF Accepted, InHand, Queued, Taken, Durable, Emitted
  <2> QED
    BY <1>b, <2>1, <2>2 DEF DeliveryInv
<1>8. CASE CloseEmitter \/ CloseReturns \/ LoadFails \/ Cancel
  <2>1. /\ UNCHANGED <<ch, cons, cur, disk, it, st>>
        /\ pc' # "save" \/ pc' = pc
        /\ pc = "idle" => pc' = "idle"
    BY <1>8 DEF CloseEmitter, CloseReturns, LoadFails, Cancel, E!CloseChannel, chan
  <2>2. Accepted' = Accepted /\ Durable' = Durable /\ Emitted' = Emitted /\ file' = file
    BY <2>1 DEF disk, Accepted, InHand, Queued, Taken, Durable, Emitted
  <2>3. sunk' = sunk /\ synced' = synced
    BY <2>1 DEF disk
  <2> QED
    BY <1>b, <2>1, <2>2, <2>3 DEF DeliveryInv
<1>9. CASE Flush
  <2>1. /\ synced' = Len(sunk) /\ UNCHANGED <<ch, cons, cur, sunk, file, it, st>>
        /\ pc = "flush" /\ pc' = "save"
    BY <1>9 DEF Flush, chan
  <2>2. Accepted' = Accepted /\ Emitted' = Emitted
    BY <2>1 DEF Accepted, InHand, Queued, Taken, Emitted
  <2>3. Durable \subseteq Durable'
    BY <1>a, <2>1 DEF Durable
  <2> QED
    BY <1>b, <2>1, <2>2, <2>3 DEF DeliveryInv
<1>10. CASE Save
  <2>1. /\ pc = "save" /\ pc' = "idle" /\ file'.mark = st.mark
        /\ UNCHANGED <<sunk, synced>>
    BY <1>10 DEF Save
  <2>2. cons = "exited" /\ ch = << >> /\ synced = Len(sunk)
    BY <1>0, <1>b, <2>1 DEF ChanInv
  <2>3. Accepted = Durable
    BY <1>a, <2>2, DurableTaken DEF Accepted, Queued, InHand
  <2>4. Durable' = Durable
    BY <2>1 DEF Durable
  <2> QED
    BY <1>b, <2>1, <2>3, <2>4 DEF DeliveryInv
<1>11. CASE SaveFails
  BY <1>b, <1>11 DEF SaveFails, disk, DeliveryInv, Durable
<1>12. CASE Crash
  <2>1. PICK n \in synced .. Len(sunk) : sunk' = SubSeq(sunk, 1, n)
    BY <1>12 DEF Crash
  <2>2. /\ synced' = synced /\ file' = file /\ pc' = "idle"
    BY <1>12 DEF Crash
  <2>3. \A m \in 1 .. synced : sunk'[m] = sunk[m]
    BY <1>a, <2>1
  <2>4. Durable' = Durable
    BY <2>2, <2>3 DEF Durable
  <2> QED
    BY <1>b, <2>2, <2>4 DEF DeliveryInv
<1>13. CASE FlushFails \/ ConsumerEmitFails
  BY <1>13 DEF FlushFails, ConsumerEmitFails
<1>14. CASE UNCHANGED vars
  <2>1. UNCHANGED <<pc, st, it, file, synced, sunk, ch, cons, cur>>
    BY <1>14 DEF vars, chan, disk
  <2>2. Accepted' = Accepted /\ Durable' = Durable /\ Emitted' = Emitted
    BY <2>1 DEF Accepted, Taken, Queued, InHand, Durable, Emitted
  <2> QED
    BY <1>b, <2>1, <2>2 DEF DeliveryInv
<1> QED
  BY <1>1, <1>2, <1>3, <1>4, <1>5, <1>6, <1>7, <1>8, <1>9, <1>10, <1>11, <1>12,
     <1>13, <1>14, NextCases
-----------------------------------------------------------------------------
(* The inductive invariant holds in every reachable state. *)
THEOREM Invariance == Spec => []IInv
<1>1. IInv /\ [Next]_vars => IInv'
  BY NextTypeOK, NextChanInv, NextPageInv, NextTraceInv, NextReturnInv, NextDeliveryInv
     DEF IInv
<1> QED
  BY <1>1, InitIInv, PTL DEF Spec

(* Every reachable state has the declared types. *)
THEOREM TypeCorrect == Spec => []TypeOK
BY Invariance, PTL DEF IInv

(* The at-least-once contract of runner.go:243-250, for every document,   *)
(* server, buffer size and pattern of crashes: as long as no Flush and no *)
(* buffered Sink.Emit has failed, the persisted watermark covers durable  *)
(* events only.                                                            *)
THEOREM ProgressIsDurable == Spec => []AtLeastOnce
<1>1. IInv => AtLeastOnce
  BY DEF IInv, DeliveryInv, AtLeastOnce
<1> QED
  BY <1>1, Invariance, PTL

(* Flush and Save never run beside Sink.Emit (emitter.go:23-26).          *)
THEOREM TeardownIsQuiet == Spec => []QuietSink
<1>1. IInv => QuietSink
  BY DEF IInv, ChanInv, QuietSink
<1> QED
  BY <1>1, Invariance, PTL

(* A nil return value hides no loss: everything accepted was delivered    *)
(* and flushed, and the snapshot is on disk.                               *)
THEOREM NilHidesNothing == Spec => []CleanReturn
<1>1. IInv => CleanReturn
  BY DEF IInv, ReturnInv, ChanInv, CleanReturn, EndedPcs
<1> QED
  BY <1>1, Invariance, PTL

(* An iteration that ends in invalidate, warn, break or an abort has run   *)
(* no progress:, whatever its earlier steps fetched, and all but warn     *)
(* leave the cursor alone (runner.go:316-353).                             *)
THEOREM RefusalLeavesNoTrace == Spec => []RefusedPageLeavesNoTrace
<1>1. IInv => RefusedPageLeavesNoTrace
  BY DEF IInv, TraceInv
<1> QED
  BY <1>1, Invariance, PTL
=============================================================================
