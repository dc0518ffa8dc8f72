------------------------------ MODULE Emitter -------------------------------
(***************************************************************************)
(* The buffered emitter (client/emitter.go, asyncEmitter): the Drain      *)
(* goroutine hands events to one consumer goroutine over a bounded        *)
(* channel.  The consumer calls Sink.Emit for each event and records the  *)
(* first error under a mutex; after an error it keeps receiving, without  *)
(* emitting, so that the producer never blocks on a full channel.         *)
(*                                                                         *)
(* The channel operations and the mutex-protected accesses to err are the *)
(* atomic steps.  emit is two of them (firstErr, then the channel send),  *)
(* so an error may be recorded between the check and the send.  err is    *)
(* written by the consumer only, which is why its own check is part of    *)
(* the receive.                                                            *)
(*                                                                         *)
(* The operators up to Exit take the event as a parameter and leave the   *)
(* producer's control state alone: Runner.tla composes them with Drain.   *)
(* The rest closes the component with the most general producer, which    *)
(* numbers its events 1, 2, 3, ...                                         *)
(***************************************************************************)
EXTENDS Naturals, Sequences

CONSTANTS
  Capacity,   \* Runner.SinkBuffer, the channel depth
  MaxEvents   \* bound: how many events the producer hands over

ASSUME CapacityAssumption == Capacity \in Nat \ {0}
ASSUME MaxEventsAssumption == MaxEvents \in Nat

VARIABLES
  ch,      \* the channel's buffer
  closed,  \* close(e.ch) was called
  cons,    \* the consumer: blocked in receive, inside Sink.Emit, or exited
  cur,     \* the event the consumer is emitting (meaningful in "emit")
  err,     \* a Sink.Emit error was recorded
  sunk,    \* what Sink.Emit has taken, in order
  prod,    \* the producer's control state
  sent     \* how many events the producer has put on the channel

chan == <<ch, closed, cons, cur, err>>
vars == <<ch, closed, cons, cur, err, sunk, prod, sent>>
-----------------------------------------------------------------------------
(* Operations on the emitter. *)

NewEmitter ==
  /\ ch = << >>
  /\ closed = FALSE
  /\ cons = "recv"
  /\ cur = 0
  /\ err = FALSE

(* e.ch <- ev: blocks while the buffer is full. *)
Send(ev) ==
  /\ Len(ch) < Capacity
  /\ ch' = Append(ch, ev)
  /\ UNCHANGED <<closed, cons, cur, err>>

(* close(e.ch) *)
CloseChannel ==
  /\ closed' = TRUE
  /\ UNCHANGED <<ch, cons, cur, err>>

(* Mutant: the consumer goes on emitting after an error. *)
ReceiveAfterError ==
  /\ cons = "recv"
  /\ ch # << >>
  /\ ch' = Tail(ch)
  /\ cons' = "emit" /\ cur' = Head(ch)
  /\ UNCHANGED <<closed, err, sunk>>

(* Mutant: after an error the consumer stops receiving. *)
ReceiveStops ==
  /\ cons = "recv"
  /\ ch # << >>
  /\ ~err
  /\ ch' = Tail(ch)
  /\ cons' = "emit" /\ cur' = Head(ch)
  /\ UNCHANGED <<closed, err, sunk>>

(* One turn of `for ev := range e.ch`: with an error on record the event  *)
(* is dropped, otherwise the consumer goes on to call Sink.Emit.          *)
Receive ==
  /\ cons = "recv"
  /\ ch # << >>
  /\ ch' = Tail(ch)
  /\ IF err
     THEN UNCHANGED <<cons, cur>>
     ELSE cons' = "emit" /\ cur' = Head(ch)
  /\ UNCHANGED <<closed, err, sunk>>

(* Sink.Emit took the event. *)
SinkEmit ==
  /\ cons = "emit"
  /\ sunk' = Append(sunk, cur)
  /\ cons' = "recv"
  /\ UNCHANGED <<ch, closed, cur, err>>

(* Sink.Emit failed: setErr keeps the first error. *)
SinkEmitFails ==
  /\ cons = "emit"
  /\ err' = TRUE
  /\ cons' = "recv"
  /\ UNCHANGED <<ch, closed, cur, sunk>>

(* The channel is closed and drained: the range loop ends, e.done closes. *)
Exit ==
  /\ cons = "recv"
  /\ closed /\ ch = << >>
  /\ cons' = "exited"
  /\ UNCHANGED <<ch, closed, cur, err, sunk>>

Consumer == Receive \/ SinkEmit \/ SinkEmitFails \/ Exit
-----------------------------------------------------------------------------
(* The producer: Drain calling emit in a loop, then close. *)

(* emit's first half: a recorded error is returned and Drain aborts. *)
EmitCheck ==
  /\ prod = "run"
  /\ sent < MaxEvents
  /\ prod' = IF err THEN "close" ELSE "send"
  /\ UNCHANGED <<ch, closed, cons, cur, err, sunk, sent>>

(* emit's second half. *)
EmitSend ==
  /\ prod = "send"
  /\ Send(sent + 1)
  /\ sent' = sent + 1
  /\ prod' = "run"
  /\ UNCHANGED sunk

(* Drain has no more events. *)
Finish ==
  /\ prod = "run"
  /\ prod' = "close"
  /\ UNCHANGED <<ch, closed, cons, cur, err, sunk, sent>>

(* close: close(e.ch) ... *)
Close ==
  /\ prod = "close"
  /\ CloseChannel
  /\ prod' = "wait"
  /\ UNCHANGED <<sunk, sent>>

(* Mutant: close does not wait for the consumer. *)
CloseReturnsEarly ==
  /\ prod = "wait"
  /\ prod' = "returned"
  /\ UNCHANGED <<ch, closed, cons, cur, err, sunk, sent>>

(* ... and <-e.done. *)
CloseReturns ==
  /\ prod = "wait"
  /\ cons = "exited"
  /\ prod' = "returned"
  /\ UNCHANGED <<ch, closed, cons, cur, err, sunk, sent>>

Done == prod = "returned" /\ UNCHANGED vars

Init ==
  /\ NewEmitter
  /\ sunk = << >>
  /\ prod = "run"
  /\ sent = 0

Producer == EmitCheck \/ EmitSend \/ Finish \/ Close \/ CloseReturns

ConsumerStep == Consumer /\ UNCHANGED <<prod, sent>>

Next == Producer \/ ConsumerStep \/ Done

Spec == Init /\ [][Next]_vars

(* Goroutines are scheduled, and Sink.Emit returns (with or without an    *)
(* error).  Nothing obliges the producer to stop producing.               *)
Fairness ==
  /\ WF_vars(EmitSend)
  /\ WF_vars(Close \/ CloseReturns)
  /\ WF_vars(ConsumerStep)

FairSpec == Spec /\ Fairness
-----------------------------------------------------------------------------
(* Properties. *)

TypeOK ==
  /\ ch \in Seq(1 .. MaxEvents) /\ Len(ch) <= Capacity
  /\ closed \in BOOLEAN
  /\ cons \in {"recv", "emit", "exited"}
  /\ cur \in 0 .. MaxEvents
  /\ err \in BOOLEAN
  /\ sunk \in Seq(1 .. MaxEvents)
  /\ prod \in {"run", "send", "close", "wait", "returned"}
  /\ sent \in 0 .. MaxEvents

(* emitter.go:13-15: "Emit is invoked serially, in the order the runner   *)
(* produced the events".  The Sink holds the first events accepted,       *)
(* without a gap, a duplicate or a swap, whatever the interleaving of the *)
(* two goroutines and wherever an error fell.                              *)
InOrder == \A i \in 1 .. Len(sunk) : sunk[i] = i

(* emitter.go:23-26: "After close returns the consumer goroutine has      *)
(* exited, so the caller may Flush / Save without racing it": no event is *)
(* still queued or in the consumer's hands, and if no error was recorded  *)
(* every accepted event is in the Sink.                                    *)
DrainedOnReturn ==
  prod = "returned" =>
    /\ cons = "exited" /\ ch = << >>
    /\ ~err => Len(sunk) = sent

(* The backpressure bound of emitter.go:37-41: while the Sink works, at   *)
(* most Capacity events plus the one in Sink.Emit are accepted and not    *)
(* yet delivered, however slow the Sink is.                                *)
BoundedLag == ~err => sent - Len(sunk) <= Capacity + 1

(* emitter.go:63-66: no Sink.Emit after the first error, and the error    *)
(* stays on record.                                                        *)
NothingAfterError == [][err => err' /\ sunk' = sunk]_vars

(* An emit blocked on a full channel is released, even by a consumer      *)
(* whose Sink has failed (emitter.go:64-66).                               *)
SendUnblocks == (prod = "send") ~> (prod # "send")

(* The buffered emitter implements the interface's promise. *)
D == INSTANCE Delivery WITH
       accepted  <- sent,
       delivered <- Len(sunk),
       failed    <- err,
       returned  <- prod = "returned"

Implements == D!DSpec
=============================================================================
