------------------------------- MODULE Runner -------------------------------
(***************************************************************************)
(* Runner.Drain (client/runner.go): one pull session after another over a *)
(* persistent Store and a Sink, for an arbitrary document of CONSTANT     *)
(* Docs and a server that may answer every exchange in every way the code *)
(* distinguishes.                                                          *)
(*                                                                         *)
(* A drain loads the snapshot, runs the request chain once per page,      *)
(* emits the producer step's events, fires progress:, advances pagination *)
(* and repeats; on every way out it closes the emitter, flushes the Sink  *)
(* and saves the snapshot, in that order.  Three actors interleave with   *)
(* the Drain goroutine: the buffered emitter's consumer (Emitter.tla),    *)
(* cancellation of the context, and a crash of the process.               *)
(*                                                                         *)
(* Data is abstracted to what the properties tell apart:                   *)
(*  - the events a producer response carries are fresh numbers, so that   *)
(*    an event served again after a failure counts as another event;      *)
(*  - mark is what the persistent fields written by progress: know of:    *)
(*    the events of the pages they summarise;                              *)
(*  - ext is the same for a persistent field written by extract: on the   *)
(*    producer step (an ETag, a server-side bookmark);                    *)
(*  - cursor is the pagination scratch field: 0 when unset, otherwise the *)
(*    page the next request asks for.  Scratch is never persisted;         *)
(*  - cached says whether some reachable cache slot is populated.          *)
(***************************************************************************)
EXTENDS Integers, Sequences

CONSTANTS
  Docs,           \* the documents, validated ones
  MaxPages,       \* Runner.MaxPages, after the 0 -> 10000 default
  SinkBuffer,     \* Runner.SinkBuffer: 0 is the synchronous emitter
  Faults,         \* which kinds of failure may happen
  MaxPageEvents,  \* bound: events in one producer response
  MaxItems,       \* bound: items one fan_out.over list resolves to
  MaxEvents,      \* bound: events served over the whole behaviour
  MaxDrains       \* bound: drains started

FaultKinds == {"status", "transport", "eval", "emit", "flush", "save",
               "load", "crash", "cancel"}

Verbs == {"skip", "fail", "empty_events", "invalidate_cache"}

Request ==
  [producer : BOOLEAN,   \* sets events_at
   gated    : BOOLEAN,   \* has an if: predicate
   fanOut   : BOOLEAN,   \* has a fan_out block
   loop     : BOOLEAN,   \* has terminate_when
   cache    : BOOLEAN,   \* has a cache block
   extract  : BOOLEAN,   \* extracts into a persistent state field
   onStatus : Verbs \cup {"none"}]

Document ==
  [reqs    : Seq(Request),
   errMode : {"standard", "warn", "fail"},
   auth    : BOOLEAN,    \* oauth2 with a cache block
   pag     : [kind     : {"none", "cursor_token", "next_url", "counter", "custom"},
              override : BOOLEAN,   \* has its own terminate_when
              response : BOOLEAN,   \* from: reads response.*, not steps.<id>.*
              step     : Nat]]

ASSUME DocsAssumption == Docs \subseteq Document
ASSUME MaxPagesAssumption == MaxPages \in Int \ {0}
ASSUME SinkBufferAssumption == SinkBuffer \in Nat
ASSUME FaultsAssumption == Faults \subseteq FaultKinds
ASSUME BoundsAssumption ==
  /\ MaxPageEvents \in Nat
  /\ MaxItems \in Nat
  /\ MaxEvents \in Nat
  /\ MaxDrains \in Nat

VARIABLES
  doc,        \* the document
  pc,         \* where Drain is
  ret,        \* Drain's return value so far: "nil" or "err"
  cancelled,  \* ctx is cancelled
  pages,      \* iterations begun in this drain
  it,         \* the iteration: request index, fan-out items left, verdict,
              \* whether the producer ran, its events, how many are emitted,
              \* whether progress: has written (a clock or an extract changes
              \* a field over a page without events too), the parity of the
              \* re-fired requests (so that they are steps)
  st,         \* the scope: cached, mark, ext, cursor
  base,       \* ghost: mark and cursor when the iteration began
  fetched,    \* events the server has handed out
  ch, closed, cons, cur, err,  \* the buffered emitter (Emitter.tla)
  sunk,       \* what Sink.Emit has taken, in order
  synced,     \* how much of it the last successful Flush made durable
  file,       \* the persisted snapshot: mark and ext
  lost,       \* ghost: a Flush failed, or a buffered Sink.Emit failed
  drains      \* drains started

chan == <<ch, closed, cons, cur, err>>
disk == <<sunk, synced, file>>
vars == <<doc, pc, ret, cancelled, pages, it, st, base, fetched,
          chan, disk, lost, drains>>

E == INSTANCE Emitter WITH Capacity <- SinkBuffer, prod <- pc, sent <- fetched

Async == SinkBuffer > 0

Req == doc.reqs[it.idx]

NoIteration == [idx |-> 1, left |-> 0, kind |-> "accepted", ran |-> FALSE,
                evs |-> << >>, emitted |-> 0, wrote |-> FALSE, polls |-> 0]

Init ==
  /\ doc \in Docs
  /\ pc = "idle"
  /\ ret = "nil"
  /\ cancelled = FALSE
  /\ pages = 0
  /\ it = NoIteration
  /\ st = [cached |-> FALSE, mark |-> {}, ext |-> {}, cursor |-> 0]
  /\ base = [mark |-> {}, cursor |-> 0]
  /\ fetched = 0
  /\ ch = << >> /\ closed = TRUE /\ cons = "exited" /\ cur = 0 /\ err = FALSE
  /\ sunk = << >> /\ synced = 0
  /\ file = [mark |-> {}, ext |-> {}]
  /\ lost = FALSE
  /\ drains = 0
-----------------------------------------------------------------------------
(* Starting and leaving a drain. *)

(* The Drain body returns e; the deferred teardown is next. *)
Return(e) == pc' = "close" /\ ret' = e

(* store.Load and newScope: a fresh scope, no cache slot, the persistent  *)
(* fields from the snapshot; then the emitter, and the per-drain wipe of  *)
(* the scratch fields.                                                     *)
StartDrain ==
  /\ pc = "idle" /\ drains < MaxDrains
  /\ pc' = "top" /\ ret' = "nil" /\ cancelled' = FALSE
  /\ pages' = 0 /\ it' = NoIteration
  /\ st' = [cached |-> FALSE, mark |-> file.mark, ext |-> file.ext, cursor |-> 0]
  /\ base' = [mark |-> file.mark, cursor |-> 0]
  /\ IF Async
     THEN ch' = << >> /\ closed' = FALSE /\ cons' = "recv" /\ cur' = 0 /\ err' = FALSE
     ELSE UNCHANGED chan
  /\ drains' = drains + 1
  /\ UNCHANGED <<doc, fetched, disk, lost>>

(* Load or newScope failed: Drain returns before the teardown is          *)
(* registered, so nothing is flushed and nothing is saved.                *)
LoadFails ==
  /\ "load" \in Faults
  /\ pc = "idle" /\ drains < MaxDrains
  /\ ret' = "err" /\ cancelled' = FALSE
  /\ drains' = drains + 1
  /\ UNCHANGED <<doc, pc, pages, it, st, base, fetched, chan, disk, lost>>

(* The top of the page loop: ctx and the page cap are checked first.      *)
CapReached == MaxPages > 0 /\ pages >= MaxPages

StopAtTop ==
  /\ pc = "top"
  /\ cancelled \/ CapReached
  /\ Return("err")
  /\ UNCHANGED <<doc, cancelled, pages, it, st, base, fetched, chan, disk, lost, drains>>

(* Mutant: a retry after invalidate_cache does not count as an iteration. *)
BeginIterationUncounted ==
  /\ pc = "top"
  /\ ~cancelled /\ ~CapReached
  /\ pages' = IF it.kind = "invalidate" THEN pages ELSE pages + 1
  /\ it' = NoIteration
  /\ base' = [mark |-> st.mark, cursor |-> st.cursor]
  /\ pc' = "step"
  /\ UNCHANGED <<doc, ret, cancelled, st, fetched, chan, disk, lost, drains>>

BeginIteration ==
  /\ pc = "top"
  /\ ~cancelled /\ ~CapReached
  /\ pages' = pages + 1
  /\ it' = NoIteration
  /\ base' = [mark |-> st.mark, cursor |-> st.cursor]
  /\ pc' = "step"
  /\ UNCHANGED <<doc, ret, cancelled, st, fetched, chan, disk, lost, drains>>
-----------------------------------------------------------------------------
(* The request chain. *)

(* How executeRequest can end: accepted, a status outside expect_status   *)
(* with or without an on_status: entry, or an error that carries no       *)
(* status (transport, auth, decode, cache store).  A cancelled context    *)
(* shows up as the last one.                                               *)
Outcomes ==
  {"ok"}
  \cup (IF "status" \in Faults THEN {"unmapped"} ELSE {})
  \cup (IF "status" \in Faults /\ Req.onStatus # "none" THEN {"mapped"} ELSE {})
  \cup (IF "transport" \in Faults \/ cancelled THEN {"other"} ELSE {})

(* Whether a cache slot is populated after executeRequest: auth fetches   *)
(* its token before the exchange, the request's own slot is stored after  *)
(* it was accepted.  A cache hit is an "ok" that leaves the slot as it is. *)
CachedAfter(o) ==
  CASE o = "ok"    -> {st.cached \/ doc.auth \/ Req.cache}
    [] o = "other" -> {st.cached, st.cached \/ doc.auth}
    [] OTHER       -> {st.cached \/ doc.auth}

ErrorMode ==
  CASE doc.errMode = "fail" -> "fatal"
    [] doc.errMode = "warn" -> "warn"
    [] OTHER                -> "break"

(* runRequest's dispatch.  dropReachableCaches clears nothing when no     *)
(* slot is populated: then invalidate_cache degrades to empty_events.     *)
StepStatus(o, cached) ==
  CASE o = "ok"     -> "ok"
    [] o = "mapped" ->
         (CASE Req.onStatus = "skip"         -> "skip"
            [] Req.onStatus = "fail"         -> "fatal"
            [] Req.onStatus = "empty_events" -> "empty"
            [] OTHER -> IF cached THEN "invalidate" ELSE "empty")
    [] OTHER        -> ErrorMode

(* The same dispatch for one fan-out item: skip, empty_events and warn    *)
(* drop the item, invalidate_cache never degrades.                         *)
ItemStatus(o) ==
  CASE o = "ok"     -> "ok"
    [] o = "mapped" ->
         (CASE Req.onStatus \in {"skip", "empty_events"} -> "drop"
            [] Req.onStatus = "fail" -> "fatal"
            [] OTHER -> "invalidate")
    [] OTHER        -> IF ErrorMode = "warn" THEN "drop" ELSE ErrorMode

(* The fresh events an accepted response may carry, if it is the          *)
(* producer's.                                                             *)
FreshPages ==
  IF Req.producer
  THEN {[n \in 1 .. k |-> fetched + n] :
          k \in {m \in 0 .. MaxPageEvents : fetched + m <= MaxEvents}}
  ELSE {<< >>}

(* What a state-writing extract: on this step now knows of. *)
Extracted(page) ==
  IF Req.extract /\ Req.producer
  THEN st.ext \cup {page[n] : n \in 1 .. Len(page)}
  ELSE st.ext

(* A verdict that ends the chain.  What the steps before it fetched stays *)
(* in scope, as steps.<id>.* and extract.*; a warn goes on like a page.   *)
EndChain(status) ==
  /\ it' = [it EXCEPT !.kind = status]
  /\ CASE status = "fatal"      -> Return("err")
       [] status = "break"      -> Return("nil")
       [] status = "invalidate" -> pc' = "top" /\ UNCHANGED ret
       [] status = "warn"       -> pc' = "emit" /\ UNCHANGED ret

(* if: evaluates to false. *)
SkipGated ==
  /\ pc = "step" /\ it.idx <= Len(doc.reqs)
  /\ Req.gated
  /\ it' = [it EXCEPT !.idx = @ + 1]
  /\ UNCHANGED <<doc, pc, ret, cancelled, pages, st, base, fetched, chan, disk, lost, drains>>

AtRequest == pc = "step" /\ it.idx <= Len(doc.reqs) /\ ~Req.fanOut

(* An accepted response that settles the step: extracts run, the          *)
(* producer's events are captured.                                         *)
StepOK ==
  /\ AtRequest
  /\ \E page \in FreshPages, cached \in CachedAfter("ok") :
       /\ st' = [st EXCEPT !.cached = cached, !.ext = Extracted(page)]
       /\ fetched' = fetched + Len(page)
       /\ it' = IF Req.producer
                THEN [it EXCEPT !.idx = @ + 1, !.ran = TRUE, !.evs = page]
                ELSE [it EXCEPT !.idx = @ + 1]
  /\ UNCHANGED <<doc, pc, ret, cancelled, pages, base, chan, disk, lost, drains>>

(* Mutant: the request loop does not look at the context. *)
StepRefiresUnchecked ==
  /\ AtRequest /\ Req.loop
  /\ \E cached \in CachedAfter("ok") : st' = [st EXCEPT !.cached = cached]
  /\ it' = [it EXCEPT !.polls = 1 - @]
  /\ UNCHANGED <<doc, pc, ret, cancelled, pages, base, fetched, chan, disk, lost, drains>>

(* terminate_when is false: the request is fired again, unless the        *)
(* context was cancelled.                                                  *)
StepRefires ==
  /\ AtRequest /\ Req.loop
  /\ \E cached \in CachedAfter("ok") : st' = [st EXCEPT !.cached = cached]
  /\ it' = [it EXCEPT !.polls = 1 - @]
  /\ IF cancelled THEN Return("err") ELSE UNCHANGED <<pc, ret>>
  /\ UNCHANGED <<doc, cancelled, pages, base, fetched, chan, disk, lost, drains>>

(* A response the step does not accept.  skip and empty_events let the    *)
(* chain go on; on the producer they are the iteration's verdict.         *)
StepFails ==
  /\ AtRequest
  /\ \E o \in Outcomes \ {"ok"} : \E cached \in CachedAfter(o) :
       LET status == StepStatus(o, cached) IN
       /\ st' = [st EXCEPT !.cached = cached /\ ~(o = "mapped" /\ status = "invalidate")]
       /\ IF status \in {"skip", "empty"}
          THEN /\ it' = IF Req.producer
                        THEN [it EXCEPT !.idx = @ + 1, !.ran = TRUE, !.kind = status]
                        ELSE [it EXCEPT !.idx = @ + 1]
               /\ UNCHANGED <<pc, ret>>
          ELSE EndChain(status)
  /\ UNCHANGED <<doc, cancelled, pages, base, fetched, chan, disk, lost, drains>>

(* fan_out.over resolved to a list: one request per item. *)
StartFanOut ==
  /\ pc = "step" /\ it.idx <= Len(doc.reqs) /\ Req.fanOut
  /\ \E n \in 0 .. MaxItems : it' = [it EXCEPT !.left = n]
  /\ pc' = "item"
  /\ UNCHANGED <<doc, ret, cancelled, pages, st, base, fetched, chan, disk, lost, drains>>

(* Mutant: the loop over the items runs once too often. *)
ItemOKOffByOne ==
  /\ pc = "item" /\ it.left >= 0
  /\ \E page \in FreshPages, cached \in CachedAfter("ok") :
       /\ st' = [st EXCEPT !.cached = cached, !.ext = Extracted(page)]
       /\ fetched' = fetched + Len(page)
       /\ it' = [it EXCEPT !.left = @ - 1, !.evs = @ \o page]
  /\ UNCHANGED <<doc, pc, ret, cancelled, pages, base, chan, disk, lost, drains>>

ItemOK ==
  /\ pc = "item" /\ it.left > 0
  /\ \E page \in FreshPages, cached \in CachedAfter("ok") :
       /\ st' = [st EXCEPT !.cached = cached, !.ext = Extracted(page)]
       /\ fetched' = fetched + Len(page)
       /\ it' = [it EXCEPT !.left = @ - 1, !.evs = @ \o page]
  /\ UNCHANGED <<doc, pc, ret, cancelled, pages, base, chan, disk, lost, drains>>

ItemFails ==
  /\ pc = "item" /\ it.left > 0
  /\ \E o \in Outcomes \ {"ok"} : \E cached \in CachedAfter(o) :
       LET status == ItemStatus(o) IN
       /\ st' = [st EXCEPT !.cached = cached /\ status # "invalidate"]
       /\ IF status = "drop"
          THEN /\ it' = [it EXCEPT !.left = @ - 1]
               /\ UNCHANGED <<pc, ret>>
          ELSE EndChain(status)
  /\ UNCHANGED <<doc, cancelled, pages, base, fetched, chan, disk, lost, drains>>

(* mergeFanOutBodies joined what the items returned, however many were    *)
(* dropped.                                                                *)
MergeFanOut ==
  /\ pc = "item" /\ it.left = 0
  /\ it' = [it EXCEPT !.idx = @ + 1, !.ran = @ \/ Req.producer]
  /\ pc' = "step"
  /\ UNCHANGED <<doc, ret, cancelled, pages, st, base, fetched, chan, disk, lost, drains>>

(* The chain is done.  A producer that never ran counts as warn.          *)
EndOfChain ==
  /\ pc = "step" /\ it.idx > Len(doc.reqs)
  /\ it' = IF it.kind = "accepted" /\ ~it.ran THEN [it EXCEPT !.kind = "warn"] ELSE it
  /\ pc' = "emit"
  /\ UNCHANGED <<doc, ret, cancelled, pages, st, base, fetched, chan, disk, lost, drains>>

(* An if:, terminate_when, fan_out.over, extract:, merge or events_at     *)
(* that cannot be evaluated aborts the drain whatever error.mode says.    *)
(* An extract: list may fail after its first entries were written.        *)
ChainEvalFails ==
  /\ "eval" \in Faults
  /\ pc \in {"step", "item"}
  /\ \/ st' = st /\ fetched' = fetched
     \/ /\ pc = "step" => it.idx <= Len(doc.reqs) /\ ~Req.fanOut
        /\ pc = "item" => it.left > 0
        /\ \E page \in FreshPages, cached \in CachedAfter("ok") :
             /\ st' = [st EXCEPT !.cached = cached, !.ext = Extracted(page)]
             /\ fetched' = fetched + Len(page)
  /\ Return("err")
  /\ UNCHANGED <<doc, cancelled, pages, it, base, chan, disk, lost, drains>>
-----------------------------------------------------------------------------
(* Emitting the page. *)

(* The events of the page: only an accepted iteration locates any. *)
Events == IF it.kind = "accepted" THEN it.evs ELSE << >>

NextEvent == Events[it.emitted + 1]

(* syncEmitter: Sink.Emit on the Drain goroutine. *)
EmitSync ==
  /\ pc = "emit" /\ ~Async /\ it.emitted < Len(Events)
  /\ sunk' = Append(sunk, NextEvent)
  /\ it' = [it EXCEPT !.emitted = @ + 1]
  /\ UNCHANGED <<doc, pc, ret, cancelled, pages, st, base, fetched, chan, synced, file, lost, drains>>

(* Mutant: a Sink.Emit error is logged and the page goes on. *)
EmitSyncErrorIgnored ==
  /\ "emit" \in Faults
  /\ pc = "emit" /\ ~Async /\ it.emitted < Len(Events)
  /\ it' = [it EXCEPT !.emitted = @ + 1]
  /\ UNCHANGED <<doc, pc, ret, cancelled, pages, st, base, fetched, chan, disk, lost, drains>>

EmitSyncFails ==
  /\ "emit" \in Faults
  /\ pc = "emit" /\ ~Async /\ it.emitted < Len(Events)
  /\ Return("err")
  /\ UNCHANGED <<doc, cancelled, pages, it, st, base, fetched, chan, disk, lost, drains>>

(* asyncEmitter: an error on record is returned, otherwise the event is   *)
(* sent.                                                                   *)
EmitCheck ==
  /\ pc = "emit" /\ Async /\ it.emitted < Len(Events)
  /\ IF err THEN Return("err") ELSE pc' = "send" /\ UNCHANGED ret
  /\ UNCHANGED <<doc, cancelled, pages, it, st, base, fetched, chan, disk, lost, drains>>

EmitSend ==
  /\ pc = "send"
  /\ E!Send(NextEvent)
  /\ it' = [it EXCEPT !.emitted = @ + 1]
  /\ pc' = "emit"
  /\ UNCHANGED <<doc, ret, cancelled, pages, st, base, fetched, disk, lost, drains>>

PageEmitted ==
  /\ pc = "emit" /\ it.emitted = Len(Events)
  /\ pc' = "progress"
  /\ UNCHANGED <<doc, ret, cancelled, pages, it, st, base, fetched, chan, disk, lost, drains>>

(* The consumer goroutine. *)
ConsumerReceive ==
  /\ E!Receive
  /\ UNCHANGED <<doc, pc, ret, cancelled, pages, it, st, base, fetched, synced, file, lost, drains>>

ConsumerEmit ==
  /\ E!SinkEmit
  /\ UNCHANGED <<doc, pc, ret, cancelled, pages, it, st, base, fetched, synced, file, lost, drains>>

ConsumerEmitFails ==
  /\ "emit" \in Faults
  /\ E!SinkEmitFails
  /\ lost' = TRUE
  /\ UNCHANGED <<doc, pc, ret, cancelled, pages, it, st, base, fetched, synced, file, drains>>

ConsumerExit ==
  /\ E!Exit
  /\ UNCHANGED <<doc, pc, ret, cancelled, pages, it, st, base, fetched, synced, file, lost, drains>>
-----------------------------------------------------------------------------
(* Progress and pagination. *)

(* What progress: can find out about the events: nothing when the         *)
(* producer's response was skipped or taken for empty, otherwise all that *)
(* the chain fetched, as events.* or through the bodies of its steps.     *)
InScope ==
  IF it.kind \in {"skip", "empty"} THEN {} ELSE {it.evs[n] : n \in 1 .. Len(it.evs)}

(* Mutant: progress: runs whatever the verdict. *)
ApplyProgressAlways ==
  /\ pc = "progress"
  /\ st' = [st EXCEPT !.mark = @ \cup InScope]
  /\ it' = [it EXCEPT !.wrote = TRUE]
  /\ pc' = "advance"
  /\ UNCHANGED <<doc, ret, cancelled, pages, base, fetched, chan, disk, lost, drains>>

(* applyProgress, unless the verdict is warn: every value is staged       *)
(* before the first is written.                                            *)
ApplyProgress ==
  /\ pc = "progress"
  /\ IF it.kind = "warn"
     THEN UNCHANGED <<st, it>>
     ELSE /\ st' = [st EXCEPT !.mark = @ \cup InScope]
          /\ it' = [it EXCEPT !.wrote = TRUE]
  /\ pc' = "advance"
  /\ UNCHANGED <<doc, ret, cancelled, pages, base, fetched, chan, disk, lost, drains>>

(* Whether pagination's from: resolves.  Only an accepted iteration binds *)
(* the producer's response; a step's body may be there in any case.       *)
TokenPresent ==
  IF doc.pag.response /\ it.kind # "accepted" THEN {FALSE} ELSE BOOLEAN

(* terminate_when, or the variant's default. *)
Terminates(present) ==
  CASE doc.pag.kind = "none" -> {TRUE}
    [] doc.pag.kind = "custom" \/ doc.pag.override -> BOOLEAN
    [] doc.pag.kind = "counter" -> {Len(Events) < doc.pag.step}
    [] OTHER -> {~present}

(* The scratch field after a page that does not terminate.  With an       *)
(* overridden terminate_when an absent token is written all the same, and *)
(* the next request asks for the first page again.                        *)
NextCursor(present) ==
  CASE doc.pag.kind = "counter" -> st.cursor + 1
    [] doc.pag.kind = "custom" \/ present -> pages
    [] OTHER -> 0

Advance ==
  /\ pc = "advance"
  /\ \E present \in TokenPresent : \E done \in Terminates(present) :
       IF done
       THEN Return("nil") /\ UNCHANGED st
       ELSE /\ st' = [st EXCEPT !.cursor = NextCursor(present)]
            /\ pc' = "top"
            /\ UNCHANGED ret
  /\ UNCHANGED <<doc, cancelled, pages, it, base, fetched, chan, disk, lost, drains>>

(* The per-drain wipe, a progress: entry or the pagination plan fails.    *)
LoopEvalFails ==
  /\ "eval" \in Faults
  /\ \/ pc = "top" /\ pages = 0
     \/ pc = "progress" /\ it.kind # "warn"
     \/ pc = "advance"
  /\ Return("err")
  /\ UNCHANGED <<doc, cancelled, pages, it, st, base, fetched, chan, disk, lost, drains>>
-----------------------------------------------------------------------------
(* The deferred teardown. *)

(* em.close: close(e.ch), ... The synchronous emitter has nothing to      *)
(* close.                                                                  *)
CloseEmitter ==
  /\ pc = "close"
  /\ IF Async
     THEN E!CloseChannel /\ pc' = "wait"
     ELSE UNCHANGED chan /\ pc' = "flush"
  /\ UNCHANGED <<doc, ret, cancelled, pages, it, st, base, fetched, disk, lost, drains>>

(* Mutant: close does not wait for the consumer. *)
CloseReturnsEarly ==
  /\ pc = "wait"
  /\ ret' = IF err THEN "err" ELSE ret
  /\ pc' = "flush"
  /\ UNCHANGED <<doc, cancelled, pages, it, st, base, fetched, chan, disk, lost, drains>>

(* Mutant: the teardown only logs the error close returned. *)
CloseErrorSwallowed ==
  /\ pc = "wait" /\ cons = "exited"
  /\ pc' = "flush"
  /\ UNCHANGED <<doc, ret, cancelled, pages, it, st, base, fetched, chan, disk, lost, drains>>

(* ... and <-e.done: the error joins what the drain returns. *)
CloseReturns ==
  /\ pc = "wait" /\ cons = "exited"
  /\ ret' = IF err THEN "err" ELSE ret
  /\ pc' = "flush"
  /\ UNCHANGED <<doc, cancelled, pages, it, st, base, fetched, chan, disk, lost, drains>>

(* Mutant: Flush empties the buffer and does not fsync. *)
FlushWithoutSync ==
  /\ pc = "flush"
  /\ pc' = "save"
  /\ UNCHANGED <<doc, ret, cancelled, pages, it, st, base, fetched, chan, disk, lost, drains>>

Flush ==
  /\ pc = "flush"
  /\ synced' = Len(sunk)
  /\ pc' = "save"
  /\ UNCHANGED <<doc, ret, cancelled, pages, it, st, base, fetched, chan, sunk, file, lost, drains>>

(* The error is reported; Save runs all the same. *)
FlushFails ==
  /\ "flush" \in Faults
  /\ pc = "flush"
  /\ ret' = "err" /\ lost' = TRUE
  /\ pc' = "save"
  /\ UNCHANGED <<doc, cancelled, pages, it, st, base, fetched, chan, disk, drains>>

(* store.Save(s.snapshot()): the declared fields without the scratch.     *)
Save ==
  /\ pc = "save"
  /\ file' = [mark |-> st.mark, ext |-> st.ext]
  /\ pc' = "idle"
  /\ UNCHANGED <<doc, ret, cancelled, pages, it, st, base, fetched, chan, sunk, synced, lost, drains>>

(* Mutant: a failed Save is logged only. *)
SaveErrorSwallowed ==
  /\ "save" \in Faults
  /\ pc = "save"
  /\ pc' = "idle"
  /\ UNCHANGED <<doc, ret, cancelled, pages, it, st, base, fetched, chan, disk, lost, drains>>

SaveFails ==
  /\ "save" \in Faults
  /\ pc = "save"
  /\ ret' = "err"
  /\ pc' = "idle"
  /\ UNCHANGED <<doc, cancelled, pages, it, st, base, fetched, chan, disk, lost, drains>>
-----------------------------------------------------------------------------
(* The environment. *)

Cancel ==
  /\ "cancel" \in Faults
  /\ pc # "idle" /\ ~cancelled
  /\ cancelled' = TRUE
  /\ UNCHANGED <<doc, pc, ret, pages, it, st, base, fetched, chan, disk, lost, drains>>

(* The process dies.  Of what Sink.Emit took since the last Flush any     *)
(* prefix may have reached the disk; the snapshot file is replaced        *)
(* atomically.                                                             *)
Crash ==
  /\ "crash" \in Faults
  /\ pc # "idle"
  /\ pc' = "idle" /\ ret' = "err"
  /\ ch' = << >> /\ closed' = TRUE /\ cons' = "exited" /\ cur' = 0 /\ err' = FALSE
  /\ \E n \in synced .. Len(sunk) : sunk' = SubSeq(sunk, 1, n)
  /\ UNCHANGED <<doc, cancelled, pages, it, st, base, fetched, synced, file, lost, drains>>

Done == pc = "idle" /\ drains = MaxDrains /\ UNCHANGED vars

Chain ==
  \/ SkipGated \/ StepOK \/ StepRefires \/ StepFails \/ StartFanOut \/ ItemOK
  \/ ItemFails \/ MergeFanOut \/ EndOfChain \/ ChainEvalFails

Emission == EmitSync \/ EmitSyncFails \/ EmitCheck \/ EmitSend \/ PageEmitted

Teardown == CloseEmitter \/ CloseReturns \/ Flush \/ FlushFails \/ Save \/ SaveFails

Drain ==
  \/ StopAtTop \/ BeginIteration \/ Chain \/ Emission
  \/ ApplyProgress \/ Advance \/ LoopEvalFails \/ Teardown

Consumer == ConsumerReceive \/ ConsumerEmit \/ ConsumerEmitFails \/ ConsumerExit

Next == StartDrain \/ LoadFails \/ Drain \/ Consumer \/ Cancel \/ Crash \/ Done

Spec == Init /\ [][Next]_vars

(* Both goroutines are scheduled; the HTTP client has a timeout, and      *)
(* Sink.Emit, Flush and Save return.                                       *)
FairSpec == Spec /\ WF_vars(Drain) /\ WF_vars(Consumer)
-----------------------------------------------------------------------------
(* Properties. *)

Kinds == {"accepted", "skip", "empty", "invalidate", "warn", "break", "fatal"}

Iteration ==
  [idx : Nat \ {0}, left : Nat, kind : Kinds, ran : BOOLEAN, evs : Seq(Nat),
   emitted : Nat, wrote : BOOLEAN, polls : {0, 1}]

Scope == [cached : BOOLEAN, mark : SUBSET Nat, ext : SUBSET Nat, cursor : Nat]

TypeOK ==
  /\ doc \in Docs
  /\ pc \in {"idle", "top", "step", "item", "emit", "send", "progress",
             "advance", "close", "wait", "flush", "save"}
  /\ ret \in {"nil", "err"}
  /\ cancelled \in BOOLEAN
  /\ pages \in Nat
  /\ it \in Iteration
  /\ st \in Scope
  /\ base \in [mark : SUBSET Nat, cursor : Nat]
  /\ fetched \in Nat
  /\ ch \in Seq(Nat)
  /\ closed \in BOOLEAN
  /\ cons \in {"recv", "emit", "exited"}
  /\ cur \in Nat
  /\ err \in BOOLEAN
  /\ sunk \in Seq(Nat)
  /\ synced \in 0 .. Len(sunk)
  /\ file \in [mark : SUBSET Nat, ext : SUBSET Nat]
  /\ lost \in BOOLEAN
  /\ drains \in Nat

(* The events that survive a crash. *)
Durable == {sunk[n] : n \in 1 .. synced}

(* runner.go:243-250, "Events must be durable before state records        *)
(* progress past them": across drains, failures and crashes the persisted *)
(* watermark covers durable events only, as long as no Flush and no       *)
(* buffered Sink.Emit has failed.                                          *)
AtLeastOnce == ~lost => file.mark \subseteq Durable

(* emitter.go:23-26 and sink.go:15-26, Emit and Flush never overlap: from *)
(* Flush to the next drain the consumer is gone and holds no event.       *)
QuietSink ==
  pc \in {"flush", "save", "idle"} => cons = "exited" /\ ch = << >>

(* A Drain that returned nil left nothing behind: no Sink.Emit error, no  *)
(* event of an accepted page unsent, everything flushed, and the snapshot *)
(* on disk is the scope's.                                                 *)
CleanReturn ==
  pc = "idle" /\ ret = "nil" =>
    /\ ~err
    /\ it.kind = "accepted" => it.emitted = Len(it.evs)
    /\ synced = Len(sunk)
    /\ file = [mark |-> st.mark, ext |-> st.ext]

(* runner.go:316-325 and 345-348: an iteration that ends in invalidate,   *)
(* break, warn or an abort has fired no progress write, neither over what *)
(* its earlier steps fetched nor over no events, and all but warn leave   *)
(* the pagination field alone, so that the same page is retried.          *)
RefusedPageLeavesNoTrace ==
  /\ it.kind \in {"invalidate", "break", "fatal", "warn"} =>
       ~it.wrote /\ st.mark = base.mark
  /\ it.kind \in {"invalidate", "break", "fatal"} => st.cursor = base.cursor

Loops == \E n \in 1 .. Len(doc.reqs) : doc.reqs[n].loop

(* MaxPages (runner.go:187-191) bounds a drain whose requests do not loop *)
(* on terminate_when: however the server answers, retries after           *)
(* invalidate_cache included, Drain returns.                               *)
DrainReturns == (pc # "idle" /\ ~Loops) ~> (pc = "idle")

(* A cancelled context ends every drain, a terminate_when loop included   *)
(* (runner.go:284, 733-737), with a full teardown.                        *)
CancelStops == cancelled ~> (pc = "idle")
-----------------------------------------------------------------------------
(* A statement of the documentation that the code does not satisfy.       *)

(* docs/runtime.md, section 3: state never records progress past an event *)
(* that has not reached the sink, here without AtLeastOnce's proviso.     *)
NeverPastSink == file.mark \subseteq Durable
=============================================================================
