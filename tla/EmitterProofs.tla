--------------------------- MODULE EmitterProofs ----------------------------
(***************************************************************************)
(* Proofs about the buffered emitter, for every channel capacity and any  *)
(* number of events.                                                       *)
(***************************************************************************)
EXTENDS Emitter, TLAPS

(* The event in the consumer's hands, if any, and the queued ones are the *)
(* last ones accepted.                                                     *)
InHand == IF cons = "emit" THEN 1 ELSE 0

QueueInv ==
  /\ \A i \in 1 .. Len(ch) : ch[i] = sent - Len(ch) + i
  /\ cons = "emit" => cur = sent - Len(ch) /\ ~err

(* Until an error is recorded the Sink has everything else. *)
CountInv ==
  /\ Len(sunk) + Len(ch) + InHand <= sent
  /\ ~err => Len(sunk) + Len(ch) + InHand = sent
  /\ prod = "send" => sent < MaxEvents

PhaseInv ==
  /\ closed <=> prod \in {"wait", "returned"}
  /\ cons = "exited" => closed /\ ch = << >>
  /\ prod = "returned" => cons = "exited"

IInv == TypeOK /\ InOrder /\ QueueInv /\ CountInv /\ PhaseInv
-----------------------------------------------------------------------------
(* A new emitter is idle and has lost nothing. *)
LEMMA InitIInv == Init => IInv
<1> SUFFICES ASSUME Init PROVE IInv
  OBVIOUS
<1> USE CapacityAssumption, MaxEventsAssumption DEF Init, NewEmitter
<1>1. TypeOK
  <2>1. << >> \in Seq(1 .. MaxEvents) /\ Len(<< >>) = 0
    OBVIOUS
  <2>2. 0 \in 0 .. MaxEvents /\ 0 <= Capacity
    OBVIOUS
  <2> QED
    BY <2>1, <2>2 DEF TypeOK
<1>2. InOrder /\ QueueInv
  BY DEF InOrder, QueueInv
<1>3. CountInv
  BY DEF CountInv, InHand
<1>4. PhaseInv
  BY DEF PhaseInv
<1> QED
  BY <1>1, <1>2, <1>3, <1>4 DEF IInv

(* emit and close preserve the invariant. *)
LEMMA ProducerIInv == IInv /\ Producer => IInv'
<1> SUFFICES ASSUME IInv, Producer PROVE IInv'
  OBVIOUS
<1> USE CapacityAssumption, MaxEventsAssumption
<1>1. CASE EmitCheck
  BY <1>1 DEF EmitCheck, IInv, TypeOK, InOrder, QueueInv, CountInv, PhaseInv, InHand
<1>2. CASE EmitSend
  <2>1. /\ ch' = Append(ch, sent + 1) /\ sent' = sent + 1 /\ prod' = "run"
        /\ UNCHANGED <<closed, cons, cur, err, sunk>>
        /\ prod = "send" /\ Len(ch) < Capacity
    BY <1>2 DEF EmitSend, Send
  <2>2. /\ ch \in Seq(1 .. MaxEvents) /\ sent + 1 \in 1 .. MaxEvents
        /\ Len(ch) \in Nat /\ sent \in Nat
    BY <2>1 DEF IInv, TypeOK, CountInv
  <2>3. /\ ch' \in Seq(1 .. MaxEvents)
        /\ Len(ch') = Len(ch) + 1
        /\ \A i \in 1 .. Len(ch) : ch'[i] = ch[i]
        /\ ch'[Len(ch) + 1] = sent + 1
    BY <2>1, <2>2
  <2>4. TypeOK'
    BY <2>1, <2>2, <2>3 DEF IInv, TypeOK
  <2>5. QueueInv'
    BY <2>1, <2>2, <2>3 DEF IInv, QueueInv
  <2>6. CountInv'
    <3>1. InHand' = InHand /\ InHand \in {0, 1}
      BY <2>1 DEF InHand
    <3>2. Len(sunk) \in Nat
      BY DEF IInv, TypeOK
    <3> QED
      BY <2>1, <2>2, <2>3, <3>1, <3>2 DEF IInv, CountInv
  <2>7. InOrder' /\ PhaseInv'
    BY <2>1 DEF IInv, InOrder, PhaseInv
  <2> QED
    BY <2>4, <2>5, <2>6, <2>7 DEF IInv
<1>3. CASE Finish
  BY <1>3 DEF Finish, IInv, TypeOK, InOrder, QueueInv, CountInv, PhaseInv, InHand
<1>4. CASE Close
  BY <1>4 DEF Close, CloseChannel, IInv, TypeOK, InOrder, QueueInv, CountInv, PhaseInv, InHand
<1>5. CASE CloseReturns
  BY <1>5 DEF CloseReturns, IInv, TypeOK, InOrder, QueueInv, CountInv, PhaseInv, InHand
<1> QED
  BY <1>1, <1>2, <1>3, <1>4, <1>5 DEF Producer

(* The consumer preserves the invariant. *)
LEMMA ConsumerIInv == IInv /\ ConsumerStep => IInv'
<1> SUFFICES ASSUME IInv, ConsumerStep PROVE IInv'
  OBVIOUS
<1> USE CapacityAssumption, MaxEventsAssumption
<1>0. UNCHANGED <<prod, sent>>
  BY DEF ConsumerStep
<1>1. CASE Receive
  <2>1. /\ cons = "recv" /\ ch # << >> /\ ch' = Tail(ch)
        /\ UNCHANGED <<closed, err, sunk>>
        /\ IF err THEN UNCHANGED <<cons, cur>> ELSE cons' = "emit" /\ cur' = Head(ch)
    BY <1>1 DEF Receive
  <2>2. /\ ch \in Seq(1 .. MaxEvents) /\ Len(ch) \in Nat /\ Len(ch) >= 1
        /\ Head(ch) = ch[1] /\ Head(ch) \in 1 .. MaxEvents
    BY <2>1 DEF IInv, TypeOK
  <2>3. /\ ch' \in Seq(1 .. MaxEvents)
        /\ Len(ch') = Len(ch) - 1
        /\ \A i \in 1 .. Len(ch') : ch'[i] = ch[i + 1]
    BY <2>1, <2>2
  <2>4. TypeOK'
    BY <1>0, <2>1, <2>2, <2>3 DEF IInv, TypeOK
  <2>5. QueueInv'
    <3>1. \A i \in 1 .. Len(ch') : ch'[i] = sent' - Len(ch') + i
      BY <1>0, <2>2, <2>3 DEF IInv, QueueInv, TypeOK
    <3>2. cons' = "emit" => cur' = sent' - Len(ch') /\ ~err'
      BY <1>0, <2>1, <2>2, <2>3 DEF IInv, QueueInv, TypeOK
    <3> QED
      BY <3>1, <3>2 DEF QueueInv
  <2>6. CountInv'
    <3>1. InHand = 0 /\ InHand' \in {0, 1} /\ (~err' => InHand' = 1)
      BY <2>1 DEF InHand
    <3>2. Len(sunk) \in Nat /\ sent \in Nat
      BY DEF IInv, TypeOK
    <3> QED
      BY <1>0, <2>1, <2>2, <2>3, <3>1, <3>2 DEF IInv, CountInv
  <2>7. InOrder' /\ PhaseInv'
    BY <1>0, <2>1 DEF IInv, InOrder, PhaseInv
  <2> QED
    BY <2>4, <2>5, <2>6, <2>7 DEF IInv
<1>2. CASE SinkEmit
  <2>1. /\ cons = "emit" /\ sunk' = Append(sunk, cur) /\ cons' = "recv"
        /\ UNCHANGED <<ch, closed, cur, err>>
    BY <1>2 DEF SinkEmit
  <2>2. /\ cur = Len(sunk) + 1 /\ Len(sunk) \in Nat /\ sunk \in Seq(1 .. MaxEvents)
        /\ cur \in 1 .. MaxEvents
    BY <2>1 DEF IInv, TypeOK, QueueInv, CountInv, InHand
  <2>3. /\ sunk' \in Seq(1 .. MaxEvents)
        /\ Len(sunk') = Len(sunk) + 1
        /\ \A i \in 1 .. Len(sunk) : sunk'[i] = sunk[i]
        /\ sunk'[Len(sunk) + 1] = cur
    BY <2>1, <2>2
  <2>4. TypeOK'
    BY <1>0, <2>1, <2>2, <2>3 DEF IInv, TypeOK
  <2>5. InOrder'
    BY <2>2, <2>3 DEF IInv, InOrder
  <2>6. CountInv'
    BY <1>0, <2>1, <2>2, <2>3 DEF IInv, TypeOK, CountInv, InHand
  <2>7. QueueInv' /\ PhaseInv'
    BY <1>0, <2>1 DEF IInv, QueueInv, PhaseInv
  <2> QED
    BY <2>4, <2>5, <2>6, <2>7 DEF IInv
<1>3. CASE SinkEmitFails
  BY <1>0, <1>3 DEF SinkEmitFails, IInv, TypeOK, InOrder, QueueInv, CountInv, PhaseInv, InHand
<1>4. CASE Exit
  BY <1>0, <1>4 DEF Exit, IInv, TypeOK, InOrder, QueueInv, CountInv, PhaseInv, InHand
<1> QED
  BY <1>1, <1>2, <1>3, <1>4 DEF ConsumerStep, Consumer

(* The inductive invariant holds in every reachable state. *)
THEOREM Invariance == Spec => []IInv
<1>1. IInv /\ [Next]_vars => IInv'
  <2>1. IInv /\ UNCHANGED vars => IInv'
    BY DEF vars, IInv, TypeOK, InOrder, QueueInv, CountInv, PhaseInv, InHand
  <2> QED
    BY <2>1, ProducerIInv, ConsumerIInv DEF Next, Done
<1> QED
  BY <1>1, InitIInv, PTL DEF Spec

(* The channel never holds more than its capacity, and every variable has *)
(* the type that emitter.go:42-49 declares.                                *)
THEOREM TypeCorrect == Spec => []TypeOK
BY Invariance, PTL DEF IInv

(* The Sink receives the accepted events in order, without a gap: what    *)
(* emitter.go:13-15 promises of the serial Emit.                           *)
THEOREM SinkInOrder == Spec => []InOrder
BY Invariance, PTL DEF IInv

(* When close has returned the consumer is gone, nothing is queued, and   *)
(* without an error everything accepted was delivered (emitter.go:23-26). *)
THEOREM Drained == Spec => []DrainedOnReturn
<1>1. IInv => DrainedOnReturn
  BY DEF IInv, TypeOK, CountInv, PhaseInv, InHand, DrainedOnReturn
<1> QED
  BY <1>1, Invariance, PTL

(* The backpressure bound: the Sink lags by at most Capacity + 1 events.  *)
THEOREM LagBounded == Spec => []BoundedLag
<1>1. IInv => BoundedLag
  BY CapacityAssumption DEF IInv, TypeOK, CountInv, InHand, BoundedLag
<1> QED
  BY <1>1, Invariance, PTL

(* After the first Sink.Emit error nothing more is emitted and the error  *)
(* stays on record (emitter.go:63-66).                                     *)
THEOREM ErrorIsFinal == Spec => NothingAfterError
<1>1. IInv /\ [Next]_vars => [err => err' /\ sunk' = sunk]_vars
  <2> SUFFICES ASSUME IInv, Next, err PROVE err' /\ sunk' = sunk
    OBVIOUS
  <2>1. cons # "emit"
    BY DEF IInv, QueueInv
  <2>2. CASE Producer
    BY <2>2 DEF Producer, EmitCheck, EmitSend, Send, Finish, Close, CloseChannel, CloseReturns
  <2>3. CASE ConsumerStep
    BY <2>1, <2>3 DEF ConsumerStep, Consumer, Receive, SinkEmit, SinkEmitFails, Exit
  <2>4. CASE Done
    BY <2>4 DEF Done, vars
  <2> QED
    BY <2>2, <2>3, <2>4 DEF Next
<1> QED
  BY <1>1, Invariance, PTL DEF Spec, NothingAfterError

(* The buffered emitter implements the emitter interface's promise: every *)
(* step of the two goroutines is a step of Delivery or invisible to it.   *)
THEOREM Refinement == Spec => Implements
<1>1. Init => D!DInit
  BY DEF Init, NewEmitter, D!DInit
<1>2. IInv /\ [Next]_vars => [D!DNext]_(D!dvars)
  <2> SUFFICES ASSUME IInv, [Next]_vars PROVE [D!DNext]_(D!dvars)
    OBVIOUS
  <2> USE DEF D!DNext, D!dvars, D!Accept, D!Deliver, D!Fail, D!Return
  <2>1. CASE EmitCheck \/ Finish \/ Close
    BY <2>1 DEF EmitCheck, Finish, Close, CloseChannel
  <2>2. CASE EmitSend
    BY <2>2 DEF EmitSend, Send
  <2>3. CASE CloseReturns
    <3>1. err \/ Len(sunk) = sent
      BY <2>3 DEF CloseReturns, IInv, TypeOK, CountInv, PhaseInv, InHand
    <3> QED
      BY <2>3, <3>1 DEF CloseReturns
  <2>4. CASE ConsumerStep /\ (Receive \/ Exit)
    BY <2>4 DEF ConsumerStep, Receive, Exit
  <2>5. CASE ConsumerStep /\ SinkEmit
    <3>1. /\ ~err /\ prod # "returned" /\ Len(sunk) < sent
          /\ Len(sunk') = Len(sunk) + 1
      BY <2>5 DEF SinkEmit, IInv, TypeOK, QueueInv, CountInv, PhaseInv, InHand
    <3> QED
      BY <2>5, <3>1 DEF ConsumerStep, SinkEmit
  <2>6. CASE ConsumerStep /\ SinkEmitFails
    <3>1. ~err /\ prod # "returned" /\ Len(sunk) < sent
      BY <2>6 DEF SinkEmitFails, IInv, TypeOK, QueueInv, CountInv, PhaseInv, InHand
    <3> QED
      BY <2>6, <3>1 DEF ConsumerStep, SinkEmitFails
  <2>7. CASE UNCHANGED vars
    BY <2>7 DEF vars
  <2> QED
    BY <2>1, <2>2, <2>3, <2>4, <2>5, <2>6, <2>7
       DEF Next, Producer, ConsumerStep, Consumer, Done
<1> QED
  BY <1>1, <1>2, Invariance, PTL DEF Spec, Implements, D!DSpec
=============================================================================
