----------------------------- MODULE Checkpoint -----------------------------
(***************************************************************************)
(* The progress recipes (client/progress.go, docs/api-methods.md 5.2-5.4, *)
(* templates/*.yml) against a source of events that grows while it is     *)
(* read: what each accepted page writes into state, what the snapshot     *)
(* file makes of it, what the next drain therefore asks for, and whether  *)
(* any event falls behind the mark without having reached the sink.       *)
(*                                                                         *)
(* The source is external: one event for each second, published in order  *)
(* at most recipe.delay seconds late, and an API that answers the events   *)
(* from `since` or `window_start` (inclusive) to `window_end` (exclusive)  *)
(* in ascending order, with a frozen query behind its cursors.  An event   *)
(* is named by its second.                                                 *)
(***************************************************************************)
EXTENDS Values

CONSTANTS
  Recipes,    \* which recipes are run, see RecipeSpace
  FirstPos,   \* the second the source begins at
  MaxClock,   \* bound: the last second
  Lookback,   \* stands for "720h": the first-run look-back, longer than the run
  PageSize,   \* events on a page of a paginated recipe
  Flight,     \* bound: seconds between a request and its accepted answer
  MaxFaults   \* bound: failed exchanges and crashes

RecipeSpace ==
  [progress : {"high_water", "clock", "clock_unix", "window"},
   pages    : {"none", "cursor", "counter"},
   field    : {"stamp", "number"},     \* how an event carries its second
   look     : Nat,                     \* clock: seconds subtracted from now
   delay    : Nat]                     \* the source: publication lag

ASSUME RecipesAssumption == Recipes \subseteq RecipeSpace
ASSUME SourceAssumption ==
  /\ FirstPos \in Nat /\ MaxClock \in Nat /\ FirstPos < MaxClock
  /\ Lookback \in Nat /\ MaxClock - FirstPos <= Lookback
  /\ PageSize \in Nat \ {0} /\ Flight \in Nat /\ MaxFaults \in Nat

VARIABLES
  recipe,
  clock,     \* now, in seconds
  pub,       \* the newest event that the source answers with
  mem,       \* scope.state: last, or start and end
  file,      \* the snapshot, fields as they were saved; Unset before the first
  pc,        \* "idle", "request", "answer", "flush", "save"
  cursor,    \* the pagination field: of a cursor, the next event and the
             \* query's end; of a counter, the events passed over
  answer,    \* the page under way: the events from..upto-1, whether more follow,
             \* and the query's end
  waited,    \* seconds since the request
  refused,   \* ghost: the last request was refused for the form of its mark
  emitted,   \* events the sink has accepted and not flushed
  durable,   \* events the sink has flushed
  faults

vars == <<recipe, clock, pub, mem, file, pc, cursor, answer, waited, refused,
          emitted, durable, faults>>

At(pos) == Time(pos * NanosPerSecond)
Field(pos) == IF recipe.field = "stamp" THEN Text("stamp", pos * NanosPerSecond)
              ELSE Float(2 * pos)
NoPage == [from |-> FirstPos, upto |-> FirstPos, more |-> FALSE, to |-> 0]
Events(page) == page.from .. page.upto - 1
NoCursor == [on |-> FALSE, n |-> 0, to |-> 0]
Unset == [last |-> Nil, start |-> Nil, end |-> Nil]

(* seedDefaults.  A mark over numbers has no default; a timestamp field's *)
(* is {subtract: [{now: true}, "720h"]}.                                   *)
Defaults ==
  IF recipe.progress = "window" \/ recipe.field = "number" THEN Unset
  ELSE [Unset EXCEPT !.last = EvalArith("subtract", At(clock), Text("span", Lookback * NanosPerSecond)).v]

(* Mutant: the drain starts from the defaults, not from the snapshot. *)
LoadedAnew == Defaults

(* FileStore.Load under newScope: absent fields keep their defaults.  (A *)
(* null in the file would not; no recipe writes one over a default.)      *)
Loaded == [f \in DOMAIN Unset |-> IF file[f] = Nil THEN Defaults[f] ELSE ScalarThroughJSON(file[f])]
-----------------------------------------------------------------------------
(* The source. *)

(* The second a query parameter stands for: an RFC 3339 stamp or a decimal *)
(* numeral; the API refuses every other text.                              *)
Legible(v) == v = Nil \/ ToText(v).k \in {"stamp", "digits"}
Read(v, absent) ==
  IF v = Nil THEN absent
  ELSE LET s == ToText(v) IN IF s.k = "stamp" THEN s.n \div NanosPerSecond ELSE s.n

From(state) == IF recipe.progress = "window" THEN Read(state.start, FirstPos) ELSE Read(state.last, FirstPos)
To(state) == IF recipe.progress = "window" THEN Read(state.end, MaxClock + 1) ELSE MaxClock + 1

Least(a, b) == IF a < b THEN a ELSE b
Greatest(a, b) == IF a > b THEN a ELSE b

(* The events that match the query, after the first `skip` of them. *)
Page(from, to, skip) ==
  LET lo  == Greatest(from, FirstPos) + skip
      end == Greatest(lo, Least(to, pub + 1))
      cut == IF recipe.pages = "none" THEN end ELSE Least(end, lo + PageSize)
  IN [from |-> lo, upto |-> cut, more |-> cut < end, to |-> to]

(* A counter rides beside the parameters of the query as they are now, a *)
(* cursor stands for the query that it came from.                        *)
Answer ==
  IF recipe.pages = "cursor" /\ cursor.on THEN Page(cursor.n, cursor.to, 0)
  ELSE Page(From(mem), To(mem), cursor.n)

(* Time passes and events are published, none more than delay late. *)
Tick ==
  /\ clock < MaxClock
  /\ pc = "answer" => waited < Flight
  /\ clock' = clock + 1
  /\ pub' \in {p \in pub .. clock + 1 : clock + 1 - p <= recipe.delay}
  /\ waited' = IF pc = "answer" THEN waited + 1 ELSE 0
  /\ UNCHANGED <<recipe, mem, file, pc, cursor, answer, refused, emitted, durable, faults>>

Publish ==
  /\ pub < clock
  /\ pub' = pub + 1
  /\ UNCHANGED <<recipe, clock, mem, file, pc, cursor, answer, waited, refused, emitted, durable, faults>>
-----------------------------------------------------------------------------
(* The drain. *)

StartDrain ==
  /\ pc = "idle"
  /\ mem' = Loaded
  /\ cursor' = NoCursor
  /\ pc' = "request"
  /\ UNCHANGED <<recipe, clock, pub, file, answer, waited, refused, emitted, durable, faults>>

(* A request with a mark that the API cannot read is answered 400, and *)
(* error.mode standard ends the drain.                                  *)
Request ==
  LET legible == Legible(mem.last) /\ Legible(mem.start) /\ Legible(mem.end) IN
  /\ pc = "request"
  /\ answer' = IF legible THEN Answer ELSE NoPage
  /\ refused' = ~legible
  /\ pc' = IF legible THEN "answer" ELSE "flush"
  /\ waited' = 0
  /\ UNCHANGED <<recipe, clock, pub, mem, file, cursor, emitted, durable, faults>>

(* {max: [{ref: state.last}, {max: {ref: events.*.<field>}}]} *)
Fields(page) == [i \in 1 .. page.upto - page.from |-> Field(page.from + i - 1)]
HighWater(page) == ReduceExtreme(<<mem.last, ReduceExtreme(Fields(page), TRUE)>>, TRUE)

(* Mutant: the writes are applied one after the other, in their order in *)
(* the list, the end of the window first.                                 *)
ApplyProgressUnstaged(page) ==
  IF recipe.progress = "window" THEN [mem EXCEPT !.start = At(clock), !.end = At(clock)]
  ELSE [mem EXCEPT !.last = HighWater(page)]

(* Mutant: the first window starts at the look-back, not at now minus it. *)
ApplyProgressSpan(page) ==
  IF recipe.progress = "window" /\ IsZeroRuntime(mem.end)
  THEN [mem EXCEPT !.start = Text("span", Lookback * NanosPerSecond), !.end = At(clock)]
  ELSE [mem EXCEPT !.last = HighWater(page)]

(* applyProgress: every from: is evaluated against the state before the writes. *)
ApplyProgress(page) ==
  CASE recipe.progress = "high_water" -> [mem EXCEPT !.last = HighWater(page)]
    [] recipe.progress = "clock" ->
         [mem EXCEPT !.last =
            IF recipe.look = 0 THEN At(clock)
            ELSE EvalArith("subtract", At(clock), Text("span", recipe.look * NanosPerSecond)).v]
    [] recipe.progress = "clock_unix" ->
         [mem EXCEPT !.last = ApplyFormat("unix_seconds", At(clock)).v]
    [] recipe.progress = "window" ->
         [mem EXCEPT
           !.start = IF IsZeroRuntime(mem.end)
                     THEN EvalArith("subtract", At(clock), Text("span", Lookback * NanosPerSecond)).v
                     ELSE mem.end,
           !.end = At(clock)]

(* Mutant: an absent cursor does not end the drain. *)
AdvancedForever ==
  IF recipe.pages = "cursor" THEN [on |-> TRUE, n |-> answer.upto, to |-> answer.to] ELSE NoCursor

(* The pagination's advance: a frozen query with a cursor, or a counter that *)
(* ends on a page shorter than its step.                                     *)
Advanced ==
  CASE recipe.pages = "none"    -> NoCursor
    [] recipe.pages = "cursor"  ->
         IF answer.more THEN [on |-> TRUE, n |-> answer.upto, to |-> answer.to] ELSE NoCursor
    [] recipe.pages = "counter" ->
         [on |-> answer.upto - answer.from >= PageSize, n |-> cursor.n + PageSize, to |-> 0]

(* A page is accepted: its events go to the sink, progress is written, *)
(* pagination advances, and the loop asks for the next page or ends.   *)
Accept ==
  /\ pc = "answer"
  /\ emitted' = emitted \cup Events(answer)
  /\ mem' = ApplyProgress(answer)
  /\ cursor' = Advanced
  /\ pc' = IF Advanced.on THEN "request" ELSE "flush"
  /\ answer' = NoPage
  /\ waited' = 0
  /\ UNCHANGED <<recipe, clock, pub, file, refused, durable, faults>>

(* A status or transport error ends the drain; the teardown still runs. *)
Fail ==
  /\ pc = "answer"
  /\ faults < MaxFaults
  /\ faults' = faults + 1
  /\ pc' = "flush"
  /\ answer' = NoPage
  /\ waited' = 0
  /\ UNCHANGED <<recipe, clock, pub, mem, file, cursor, refused, emitted, durable>>

(* Mutant: the snapshot is taken as the drain ends, before its events are flushed. *)
FlushSavesFirst ==
  /\ pc = "flush"
  /\ file' = mem
  /\ pc' = "save"
  /\ UNCHANGED <<recipe, clock, pub, mem, cursor, answer, waited, refused, emitted, durable, faults>>

(* The deferred teardown: Sink.Flush, then Store.Save. *)
Flush ==
  /\ pc = "flush"
  /\ durable' = durable \cup emitted
  /\ emitted' = {}
  /\ pc' = "save"
  /\ UNCHANGED <<recipe, clock, pub, mem, file, cursor, answer, waited, refused, faults>>

Save ==
  /\ pc = "save"
  /\ file' = mem
  /\ mem' = Unset
  /\ cursor' = NoCursor
  /\ pc' = "idle"
  /\ UNCHANGED <<recipe, clock, pub, answer, waited, refused, emitted, durable, faults>>

(* The process dies and is started again. *)
Crash ==
  /\ pc # "idle"
  /\ faults < MaxFaults
  /\ faults' = faults + 1
  /\ emitted' = {}
  /\ mem' = Unset
  /\ cursor' = NoCursor
  /\ answer' = NoPage
  /\ waited' = 0
  /\ pc' = "idle"
  /\ UNCHANGED <<recipe, clock, pub, file, refused, durable>>

Init ==
  /\ recipe \in Recipes
  /\ clock = FirstPos
  /\ pub = FirstPos - 1 + (IF recipe.delay = 0 THEN 1 ELSE 0)
  /\ mem = Unset
  /\ file = Unset
  /\ pc = "idle"
  /\ cursor = NoCursor
  /\ answer = NoPage
  /\ waited = 0
  /\ refused = FALSE
  /\ emitted = {}
  /\ durable = {}
  /\ faults = 0

Drain == StartDrain \/ Request \/ Accept \/ Flush \/ Save

Next == Tick \/ Publish \/ Drain \/ Fail \/ Crash

Spec == Init /\ [][Next]_vars

(* The clock advances, the source publishes what it holds, and the process *)
(* is scheduled; failures and crashes are bounded and need not happen.     *)
Fairness == WF_vars(Tick) /\ WF_vars(Publish) /\ WF_vars(Drain)

FairSpec == Spec /\ Fairness
-----------------------------------------------------------------------------
(* Which recipes lose nothing.  A mark that moves on every accepted page is *)
(* safe beside a cursor only if it covers no more than the pages so far;    *)
(* beside a counter it moves the query under the pages that are counted; a  *)
(* mark read off the clock must stay behind the publication lag and the     *)
(* flight of the answer.                                                    *)
Safe(r) ==
  CASE r.progress = "high_water" -> r.pages \in {"none", "cursor"}
    [] r.progress = "clock"      -> r.pages = "none" /\ r.look >= r.delay + Flight
    [] r.progress = "clock_unix" -> r.pages = "none" /\ r.delay + Flight = 0
    [] r.progress = "window"     -> r.pages = "none" /\ r.delay = 0

(* Every field of the state is of a kind that its recipe writes. *)
MarkKinds == {"nil", "time", "string", "float", "int"}
TypeOK ==
  /\ recipe \in Recipes
  /\ clock \in FirstPos .. MaxClock /\ pub \in FirstPos - 1 .. clock
  /\ clock - pub <= recipe.delay \/ clock = FirstPos
  /\ \A f \in DOMAIN Unset : mem[f].t \in MarkKinds
  /\ \A f \in DOMAIN Unset : file[f].t \in MarkKinds
  /\ pc \in {"idle", "request", "answer", "flush", "save"}
  /\ waited \in 0 .. Flight /\ faults \in 0 .. MaxFaults
  /\ emitted \subseteq FirstPos .. pub /\ durable \subseteq FirstPos .. pub
  /\ Events(answer) \subseteq FirstPos .. pub

(* What the next drain of this snapshot asks from; there is nothing before FirstPos. *)
Mark == IF From(file) < FirstPos THEN FirstPos ELSE From(file)

(* No event falls behind the saved mark unless the sink has flushed it, *)
(* whatever failed or crashed and however the source ran ahead: the     *)
(* recipes' "[window_start, window_end)" and "everything since the last *)
(* invocation" (docs/api-methods.md 5.2-5.4).                           *)
NothingBehind == \A e \in FirstPos .. clock : e < Mark => e \in durable

(* The saved mark never moves back: the explicit max against the prior  *)
(* state is "the restart-safety idiom" (docs/api-methods.md 5.2).        *)
MarkMonotone == [][Mark' >= Mark]_vars

(* A request never carries a mark that the API cannot read: a mark reads *)
(* the same after a restart, and over "an arbitrary monotonically-       *)
(* increasing field" as over timestamps (docs/api-methods.md 5.2).       *)
MarkLegible == ~refused

(* Every event reaches the sink's storage, the newest of a half-open  *)
(* window excepted, which no later window has closed over yet.         *)
EventuallyDelivered ==
  \A e \in FirstPos .. MaxClock :
    (clock >= e /\ (recipe.progress = "window" => e < MaxClock)) ~> (e \in durable)
=============================================================================
