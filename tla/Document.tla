------------------------------ MODULE Document ------------------------------
(***************************************************************************)
(* The run of one document by the client: the check of the validator, then *)
(* drains that evaluate every expression of the document in the order the  *)
(* code does (client/state.go newScope and resetPerDrainScratch,           *)
(* client/runner.go runIteration, client/http.go executeRequest,           *)
(* client/fanout.go, client/progress.go, client/pagination.go).            *)
(*                                                                         *)
(* Every exchange gets some response of Responses.  Failing statuses, the  *)
(* sink and the concurrency of a drain are in module Runner; the expiry of *)
(* a cached value and the token of a grant are in AuthCache: here an entry *)
(* that is found is fresh, every exchange of an oauth2 grant asks for a     *)
(* token, and the token is not kept.                                        *)
(***************************************************************************)
EXTENDS Validate

CONSTANTS
  Documents,  \* the documents
  Responses,  \* what an exchange may answer: records of a body and of headers
  Tokens,     \* what a token endpoint may answer: bodies
  MaxPages,   \* the runner's cap on the iterations of a drain
  MaxDrains,  \* bound: drains of one document
  MaxRefires, \* bound: how often a step with a terminate_when fires
  Clock       \* the instant that {now: true} is

ASSUME DocumentsAssumption == \A d \in Documents : IsDocument(d)
ASSUME BoundsAssumption == MaxPages \in Nat \ {0} /\ MaxDrains \in Nat \ {0} /\ MaxRefires \in Nat \ {0}

VARIABLES
  doc,      \* the document
  pc,       \* where the run is
  req,      \* the request of the chain that is next
  pending,  \* state fields still to be seeded or wiped
  scope,    \* what references read
  items,    \* fan-out: the items still to be requested
  bodies,   \* fan-out: the responses of those that were
  fired,    \* how often the current step has fired
  page,     \* the producer's response of this iteration
  problem,  \* the first thing that went wrong in this drain, or "none"
  pages,    \* iterations of this drain
  drains,   \* drains so far
  snap      \* the state in the snapshot file

vars == <<doc, pc, req, pending, scope, items, bodies, fired, page, problem, pages, drains, snap>>

R == doc.requests[req]

EmptyScope ==
  [state |-> NothingBound, cache |-> NothingBound, extract |-> NothingBound,
   steps |-> NothingBound, stepHeaders |-> NothingBound, events |-> Nil, body |-> Nil,
   headers |-> NothingBound, item |-> Nil, binding |-> "", now |-> Clock]
NoPage == [ran |-> FALSE, body |-> Nil, headers |-> NothingBound]

Init ==
  /\ doc \in Documents
  /\ pc = "validate" /\ req = 0 /\ pending = {} /\ scope = EmptyScope /\ items = << >> /\ bodies = << >>
  /\ fired = 0 /\ page = NoPage /\ problem = "none" /\ pages = 0 /\ drains = 0 /\ snap = NothingBound
-----------------------------------------------------------------------------
(* Lifetimes of state fields, by where they are written. *)
StateField(to) == IF Len(to) = 2 /\ to[1] = "state" THEN {to[2]} ELSE {}
PerDrainScratchFields(d) == UNION {StateField(to) : to \in PaginationTos(d)}
PersistentStateFields(d) == UNION {StateField(to) : to \in ProgressTos(d) \cup ExtractTos(d)}

Snapshot(d, s) ==
  [name \in (DOMAIN s.state \cap DOMAIN d.state) \ PerDrainScratchFields(d) |-> ThroughJSON(s.state[name])]

Seeded(d) == {name \in DOMAIN d.state : d.state[name].default # Blank}

(* A problem ends the drain; the deferred Save still runs once the scope is there. *)
Why(r) == IF r.v = Nil THEN "data" ELSE r.v.k
First(why) == IF problem = "none" THEN why ELSE problem
Fail(r, next) ==
  /\ problem' = First(Why(r)) /\ pc' = next
  /\ UNCHANGED <<doc, req, pending, items, bodies, fired, page, pages, drains, snap>>
-----------------------------------------------------------------------------
Accept ==
  /\ pc = "validate" /\ Accepts(doc)
  /\ pc' = "seed" /\ pending' = Seeded(doc)
  /\ UNCHANGED <<doc, req, scope, items, bodies, fired, page, problem, pages, drains, snap>>

Reject ==
  /\ pc = "validate" /\ ~Accepts(doc)
  /\ pc' = "rejected"
  /\ UNCHANGED <<doc, req, pending, scope, items, bodies, fired, page, problem, pages, drains, snap>>

(* seedDefaults: the defaults, in the order a map is ranged over; then the *)
(* snapshot is laid over them.                                              *)

Laid(over, under) ==
  [x \in DOMAIN over \cup DOMAIN under |-> IF x \in DOMAIN over THEN over[x] ELSE under[x]]

(* Mutant: a default wins over what was stored. *)
OverlayUnder(s) == [s EXCEPT !.state = Laid(@, snap)]
Overlay(s) == [s EXCEPT !.state = Laid(snap, @)]
Default(name) == Eval(scope, doc.state[name].default)
Seed(name, r) ==
  IF r.ok
  THEN /\ scope' = [scope EXCEPT !.state = With(@, name, r.v)]
       /\ pending' = pending \ {name}
       /\ UNCHANGED <<doc, pc, req, items, bodies, fired, page, problem, pages, drains, snap>>
  ELSE /\ Fail(r, IF pc = "seed" THEN "stopped" ELSE "save")
       /\ UNCHANGED scope
SeedField(name) == pc = "seed" /\ name \in pending /\ Seed(name, Default(name))

OpenScope ==
  /\ pc = "seed" /\ pending = {}
  /\ scope' = Overlay(scope)
  /\ pc' = "wipe" /\ pending' = PerDrainScratchFields(doc)
  /\ UNCHANGED <<doc, req, items, bodies, fired, page, problem, pages, drains, snap>>

(* resetPerDrainScratch, one field at a time, in any order. *)
Without(f, name) == [x \in DOMAIN f \ {name} |-> f[x]]

(* Mutant: the field goes and its default is not evaluated again. *)
WipeFieldDrops(name) ==
  /\ pc = "wipe" /\ name \in pending
  /\ scope' = [scope EXCEPT !.state = Without(@, name)] /\ pending' = pending \ {name}
  /\ UNCHANGED <<doc, pc, req, items, bodies, fired, page, problem, pages, drains, snap>>

WipeField(name) ==
  /\ pc = "wipe" /\ name \in pending
  /\ IF name \in Seeded(doc) THEN Seed(name, Default(name))
     ELSE /\ scope' = [scope EXCEPT !.state = Without(@, name)] /\ pending' = pending \ {name}
          /\ UNCHANGED <<doc, pc, req, items, bodies, fired, page, problem, pages, drains, snap>>

(* The next iteration: nothing of the last one is left but state and cache. *)

(* Mutant: the extracts of the last iteration are still there. *)
UnboundExceptExtracts(s) == [EmptyScope EXCEPT !.state = s.state, !.cache = s.cache, !.extract = s.extract]
Unbound(s) == [EmptyScope EXCEPT !.state = s.state, !.cache = s.cache]

BeginPage ==
  /\ (pc = "wipe" /\ pending = {}) \/ pc = "page"
  /\ IF pages < MaxPages
     THEN /\ pc' = "chain" /\ pages' = pages + 1 /\ req' = 1 /\ fired' = 0
          /\ scope' = Unbound(scope) /\ page' = NoPage
          /\ UNCHANGED <<doc, pending, items, bodies, problem, drains, snap>>
     ELSE /\ pc' = "save"
          /\ UNCHANGED <<doc, req, pending, scope, items, bodies, fired, page, problem, pages, drains, snap>>
-----------------------------------------------------------------------------
(* One exchange. *)
InChain == pc = "chain" /\ req \in DOMAIN doc.requests
Gate == IF R.if = NoPredicate \/ fired > 0 THEN Ok(Bool(TRUE)) ELSE Holds(scope, R.if)
Open(gate) == gate = Ok(Bool(TRUE))

(* decodeChain: the stages up to the first terminal decoder. *)
Decodes(chain) ==
  LET odd == {k \in DOMAIN chain : ~(HasOne(chain[k]) /\ chain[k].variants \subseteq ByteTransforms)} IN
  IF chain = << >> THEN Ok(Nil)
  ELSE IF odd = {} \/ ~(HasOne(chain[Min(odd)]) /\ chain[Min(odd)].variants \subseteq Terminals)
  THEN Ill("decode")
  ELSE IF \E k \in DOMAIN chain : k < Min(odd) /\ Is(chain[k], "zip") /\ chain[k].arg = "[" THEN Error
  ELSE Ok(Nil)

Expires(v) == v.t \in {"time", "duration", "int", "float"} \/ (v.t = "string" /\ v.k \in {"span", "stamp", "digits"})
CacheStore(s, c, body) ==
  IF Len(c.to) # 2 \/ c.to[1] # "cache" THEN Ill("destination")
  ELSE Then(Eval([s EXCEPT !.body = body], c.expires), LAMBDA v : IF Expires(v) THEN Ok(v) ELSE Error)

FirstProblem(rs) ==
  LET bad == {k \in DOMAIN rs : ~rs[k].ok} IN IF bad = {} THEN Ok(Nil) ELSE rs[Min(bad)]

(* applyAuth of one variant: its values, of which a bearer's token must not *)
(* resolve to nil, and what the token's response says of its expiry.        *)
Credentials(s, a) ==
  Then(EvalAll(s, a.vals), LAMBDA v : IF "bearer" \in a.variants /\ v.e[1] = Nil THEN Error ELSE Ok(v))
TokenStore(s, a, token) ==
  IF "oauth2" \in a.variants /\ a.cache.set THEN CacheStore(s, a.cache, token) ELSE Ok(Nil)
ArmTerms(s, a, token) ==
  IF a.variants \in {{}, {"multi_mode"}} \/ ("oauth2" \in a.variants /\ a.grants = {}) THEN Ill("auth")
  ELSE FirstProblem(<<Credentials(s, a), TokenStore(s, a, token)>>)

(* applyMultiMode; an arm is a variant of its own, and no multi_mode. *)
ApplyAuth(s, a, token) ==
  IF "multi_mode" \notin a.variants THEN ArmTerms(s, a, token)
  ELSE FirstTaken([b \in DOMAIN a.branches |-> Holds(s, a.branches[b].when)],
                  LAMBDA b : ArmTerms(s, a.branches[b].auth, token),
                  IF a.default = << >> THEN Ill("auth") ELSE ArmTerms(s, a.default[1], token))

(* executeRequest before and after the wire: the first problem of the     *)
(* url, the query, the body, the headers, the auth, the decoding, the cache. *)
ExecuteRequest(s, r, resp, token) ==
  FirstProblem(<<Eval(s, r.url), EvalAll(s, r.query), EvalAll(s, r.body.vals), EvalAll(s, r.headers),
                 ApplyAuth(s, doc.auth, token), Decodes(r.decode),
                 IF r.cache.set THEN CacheStore(s, r.cache, resp.body) ELSE Ok(Nil)>>)

(* An exchange that failed ends the drain, or, in error.mode warn, the     *)
(* chain of this iteration, which then has no page.                        *)
NextRequest(s) == [s EXCEPT !.body = Nil, !.headers = NothingBound]

ExchangeFails(r) ==
  IF doc.error # "warn" THEN Fail(r, "save") /\ UNCHANGED scope
  ELSE /\ problem' = First(Why(r))
       /\ req' = Len(doc.requests) + 1 /\ page' = NoPage /\ fired' = 0 /\ scope' = NextRequest(scope)
       /\ UNCHANGED <<doc, pc, pending, items, bodies, pages, drains, snap>>

CacheHit(s, r) == r.cache.set /\ Len(r.cache.to) = 2 /\ r.cache.to[2] \in DOMAIN s.cache
Cached(s, r) == [body |-> s.cache[r.cache.to[2]], headers |-> NothingBound]

Labelled(s, id, body, headers) ==
  IF id = "" THEN s
  ELSE [s EXCEPT !.steps = With(@, id, body), !.stepHeaders = With(@, id, headers)]

SkipRequest ==
  /\ InChain /\ Gate = Ok(Bool(FALSE))
  /\ req' = req + 1
  /\ UNCHANGED <<doc, pc, pending, scope, items, bodies, fired, page, problem, pages, drains, snap>>

EndsAtGate(gate) == ~gate.ok /\ Fail(gate, "save") /\ UNCHANGED scope
GateFails == InChain /\ EndsAtGate(Gate)

(* runRequest and the stepOK arm: the exchange, the request's own loop, the *)
(* extracts, the step's body and headers, the producer's page.  A step that *)
(* fires again still sees the response it got, the next request does not.   *)
CloseStep(x, resp) ==
  IF ~x.r.ok THEN Fail(x.r, "save") /\ scope' = x.s
  ELSE /\ scope' = NextRequest(Labelled(x.s, R.id, resp.body, resp.headers))
       /\ page' = IF R.producer THEN [ran |-> TRUE, body |-> resp.body, headers |-> resp.headers] ELSE page
       /\ req' = req + 1 /\ fired' = 0
       /\ UNCHANGED <<doc, pc, pending, items, bodies, problem, pages, drains, snap>>

Done(s) == IF R.terminate = NoPredicate THEN Ok(Bool(TRUE)) ELSE Holds(s, R.terminate)
Answered(kept, resp, done) ==
  IF ~done.ok THEN Fail(done, "save") /\ scope' = kept
  ELSE IF done.v.n = 1 THEN CloseStep(RunExtracts(kept, resp.body, resp.headers, R.extract), resp)
  ELSE /\ fired < MaxRefires /\ fired' = fired + 1
       /\ scope' = [kept EXCEPT !.body = resp.body, !.headers = resp.headers]
       /\ UNCHANGED <<doc, pc, req, pending, items, bodies, page, problem, pages, drains, snap>>
Received(kept, resp) == Answered(kept, resp, Done([kept EXCEPT !.body = resp.body, !.headers = resp.headers]))

Keep(resp) == IF R.cache.set THEN [scope EXCEPT !.cache = With(@, R.cache.to[2], resp.body)] ELSE scope
Sent(sent, resp) == IF sent.ok THEN Received(Keep(resp), resp) ELSE ExchangeFails(sent)

ReuseCached == /\ InChain /\ Open(Gate) /\ ~R.fanOut.set /\ CacheHit(scope, R)
               /\ Received(scope, Cached(scope, R))
Exchange(resp, token) ==
  /\ InChain /\ Open(Gate) /\ ~R.fanOut.set /\ ~CacheHit(scope, R)
  /\ Sent(ExecuteRequest(scope, R, resp, token), resp)
-----------------------------------------------------------------------------
(* Fan-out: over is evaluated before the alias is bound. *)
FanOver(list) ==
  IF ~list.ok THEN Fail(list, "save") /\ UNCHANGED scope
  ELSE /\ pc' = "items" /\ items' = list.v.e /\ bodies' = << >>
       /\ scope' = [scope EXCEPT !.binding = R.fanOut.as]
       /\ UNCHANGED <<doc, req, pending, fired, page, problem, pages, drains, snap>>
OpenFanOut ==
  InChain /\ Open(Gate) /\ R.fanOut.set /\ FanOver(Then(Eval(scope, R.fanOut.over), CoerceFanOutList))

Unaliased(s) == [s EXCEPT !.item = Nil, !.binding = ""]

(* In error.mode warn an item whose exchange failed is passed over. *)
CloseItem(x, resp) ==
  IF ~x.r.ok THEN Fail(x.r, "save") /\ scope' = Unaliased(x.s)
  ELSE /\ scope' = x.s
       /\ items' = Tail(items) /\ bodies' = Append(bodies, resp)
       /\ UNCHANGED <<doc, pc, req, pending, fired, page, problem, pages, drains, snap>>

ItemSent(s, sent, resp) ==
  IF sent.ok THEN CloseItem(RunExtracts(s, resp.body, resp.headers, R.extract), resp)
  ELSE IF doc.error = "warn"
  THEN /\ problem' = First(Why(sent)) /\ items' = Tail(items) /\ scope' = s
       /\ UNCHANGED <<doc, pc, req, pending, bodies, fired, page, pages, drains, snap>>
  ELSE Fail(sent, "save") /\ scope' = Unaliased(s)

RequestItem(s, resp, token) == ItemSent(s, ExecuteRequest(s, R, resp, token), resp)
ExchangeItem(resp, token) ==
  pc = "items" /\ items # << >> /\ RequestItem([scope EXCEPT !.item = Head(items)], resp, token)

(* The merged body is the step's; the headers are the last item's. *)
CloseFanOut ==
  LET merged == MergeFanOutBodies(R.fanOut.merge, [k \in DOMAIN bodies |-> bodies[k].body])
      headers == IF bodies = << >> THEN NothingBound ELSE Last(bodies).headers
  IN /\ pc = "items" /\ items = << >>
     /\ IF ~merged.ok THEN Fail(merged, "save") /\ scope' = Unaliased(scope)
        ELSE /\ scope' = Labelled(Unaliased(scope), R.id, merged.v, headers)
             /\ page' = IF R.producer THEN [ran |-> TRUE, body |-> merged.v, headers |-> headers] ELSE page
             /\ pc' = "chain" /\ req' = req + 1 /\ bodies' = << >>
             /\ UNCHANGED <<doc, pending, items, fired, problem, pages, drains, snap>>
-----------------------------------------------------------------------------
(* The page: its events, bound with its body and headers; an iteration     *)
(* whose producer was gated out has none and applies no progress.          *)
Producer == CHOOSE k \in DOMAIN doc.requests : doc.requests[k].producer
RowOriented(r) == Terminal(r.decode) \in {{"csv"}, {"ndjson"}}

PageEvents(r) ==
  IF page.ran THEN LocateProducerEvents(scope, r.eventsAt, page.body, RowOriented(r)) ELSE Ok(Nil)
Bind(events) ==
  IF ~events.ok THEN Fail(events, "save") /\ UNCHANGED scope
  ELSE /\ scope' = [scope EXCEPT !.body = page.body, !.headers = page.headers, !.events = events.v]
       /\ pc' = IF page.ran THEN "progress" ELSE "advance"
       /\ UNCHANGED <<doc, req, pending, items, bodies, fired, page, problem, pages, drains, snap>>
BindPage == pc = "chain" /\ req = Len(doc.requests) + 1 /\ Bind(PageEvents(doc.requests[Producer]))

(* Writes are staged: all are evaluated before any is made. *)
Staged(s, writes) ==
  [k \in DOMAIN writes |-> Transformed(Eval(s, writes[k].from), writes[k].regex, writes[k].coerce)]
Commit(s, tos, vals) ==
  [s EXCEPT !.state = FoldLeft(LAMBDA state, k : With(state, tos[k][2], vals[k]), @, [k \in DOMAIN tos |-> k])]

(* The writes of an entry list, or the first problem. *)
WriteAll(vals, tos, next) ==
  IF ~vals.ok THEN Fail(vals, "save") /\ UNCHANGED scope
  ELSE IF \E k \in DOMAIN tos : StateField(tos[k]) = {} THEN Fail(Ill("destination"), "save") /\ UNCHANGED scope
  ELSE /\ scope' = Commit(scope, tos, vals.v.e) /\ pc' = next
       /\ UNCHANGED <<doc, req, pending, items, bodies, fired, page, problem, pages, drains, snap>>
Write(writes, next) ==
  WriteAll(InOrder(Staged(scope, writes)), [k \in DOMAIN writes |-> writes[k].to], next)

ApplyProgress == pc = "progress" /\ Write(doc.progress, "advance")
-----------------------------------------------------------------------------
(* Pagination: what the active variant would write, and when it ends. *)
CounterInt(s, v) == Then(IF v = Blank THEN Ok(Int64(1)) ELSE Eval(s, v), ToInt)

CounterNext(s, p, step) ==
  LET cur == IF Len(p.to) = 2 /\ p.to[2] \in DOMAIN s.state THEN s.state[p.to[2]] ELSE Nil
      start == CounterInt(s, p.start)
  IN Then(InOrder(<<step, start, IF cur = Nil THEN start ELSE ToInt(cur)>>),
          LAMBDA v : Ok(Int64(v.e[3].n + v.e[1].n)))

NextFrom(s, p) ==
  Then(ResolveNamespaceRef(s, p.from),
       LAMBDA v : IF "next_url" \in p.variants /\ p.regex # "" /\ v # Nil
                  THEN ApplyRegex(p.regex, ToText(v), p.capture, Ok(Nil)) ELSE Ok(v))

(* What a variant resolves before it asks whether to end: the counter's    *)
(* step, or the value that the next page would start from.                 *)
Operand(s, p) == IF "counter" \in p.variants THEN CounterInt(s, p.step) ELSE NextFrom(s, p)

(* The variant's default termination, without a terminate_when. *)
DefaultEnds(s, p, v) ==
  IF "counter" \in p.variants THEN ResolveEvents(s.events, <<"count">>).v.n < v.n ELSE IsZeroRuntime(v)

Ends(s, p, operand) ==
  IF p.variants = {} THEN Ill("pagination")
  ELSE IF "none" \in p.variants THEN Ok(Bool(TRUE))
  ELSE Then(IF "custom" \in p.variants THEN Ok(Nil) ELSE operand,
            LAMBDA v : IF p.terminate # NoPredicate THEN Holds(s, p.terminate)
                       ELSE Ok(Bool(DefaultEnds(s, p, v))))

Upcoming(s, p, operand) == IF "counter" \in p.variants THEN CounterNext(s, p, operand) ELSE operand

AdvanceUnless(ends, p, operand) ==
  IF ~ends.ok THEN Fail(ends, "save") /\ UNCHANGED scope
  ELSE IF ends.v.n = 1
  THEN /\ pc' = "save"
       /\ UNCHANGED <<doc, req, pending, scope, items, bodies, fired, page, problem, pages, drains, snap>>
  ELSE IF "custom" \in p.variants THEN Write(p.advance, "page")
  ELSE WriteAll(InOrder(<<Upcoming(scope, p, operand)>>), <<p.to>>, "page")

Advance(p, operand) == AdvanceUnless(Ends(scope, p, operand), p, operand)
AdvancePagination == pc = "advance" /\ Advance(doc.pagination, Operand(scope, doc.pagination))
-----------------------------------------------------------------------------
Save ==
  /\ pc = "save"
  /\ snap' = Snapshot(doc, scope) /\ pc' = "stopped"
  /\ UNCHANGED <<doc, req, pending, scope, items, bodies, fired, page, problem, pages, drains>>

(* What a new Drain starts with, and all that a crash leaves in memory. *)
Fresh ==
  /\ scope' = EmptyScope /\ page' = NoPage /\ items' = << >> /\ bodies' = << >>
  /\ req' = 0 /\ fired' = 0 /\ pages' = 0 /\ problem' = "none"

(* The process dies at any point of a drain. *)
Crash ==
  /\ pc \notin {"validate", "rejected", "stopped"} /\ drains + 1 < MaxDrains
  /\ pc' = "stopped" /\ pending' = {} /\ Fresh
  /\ UNCHANGED <<doc, drains, snap>>

Restart ==
  /\ pc = "stopped" /\ drains + 1 < MaxDrains
  /\ pc' = "seed" /\ pending' = Seeded(doc) /\ drains' = drains + 1 /\ Fresh
  /\ UNCHANGED <<doc, snap>>

Next ==
  \/ Accept \/ Reject \/ OpenScope \/ BeginPage
  \/ \E name \in pending : SeedField(name) \/ WipeField(name)
  \/ SkipRequest \/ GateFails \/ OpenFanOut \/ CloseFanOut
  \/ ReuseCached
  \/ \E resp \in Responses, token \in Tokens : Exchange(resp, token) \/ ExchangeItem(resp, token)
  \/ BindPage \/ ApplyProgress \/ AdvancePagination
  \/ Save \/ Crash \/ Restart

Spec == Init /\ [][Next]_vars
-----------------------------------------------------------------------------
(* The parts of a document that are records of the right shape, and where  *)
(* a run can be.                                                            *)
TypeOK ==
  /\ pc \in {"validate", "rejected", "seed", "wipe", "page", "chain", "items", "progress", "advance", "save", "stopped"}
  /\ req \in 0 .. Len(doc.requests) + 1 /\ pending \subseteq DOMAIN doc.state
  /\ pages \in 0 .. MaxPages /\ drains \in 0 .. MaxDrains - 1 /\ fired \in 0 .. MaxRefires
  /\ DOMAIN snap \subseteq DOMAIN doc.state
  /\ problem \in {"none", "data", "root", "shape", "variant", "destination", "operands", "capture",
                   "merge", "decode", "auth", "pagination", "verb", "pattern", "group"}

ReadsRoot(v, root) == \E w \in Subterms(v) : w.p # << >> /\ w.p[1] = root

(* The validator looks at a step's if, over and terminate_when with the    *)
(* alias of its own fan_out in scope; the run binds it only around an item. *)
ReadsOwnAlias(d) ==
  \E k \in DOMAIN d.requests : LET f == d.requests[k].fanOut IN
    f.set /\ (ReadsRoot(f.over, f.as) \/ ReadsRoot(d.requests[k].if, f.as))

(* What the validator does not ask of a node, although the run needs it:   *)
(* that the value is there, that the verb is one, that the pattern compiles *)
(* and has the group that is captured.                                      *)
VerbLapse(verb) == IF verb \in Verbs THEN {} ELSE {"verb"}
RegexLapse(pattern, capture) ==
  IF pattern = "(" THEN {"pattern"} ELSE IF capture > Groups(pattern) THEN {"group"} ELSE {}
Lapse(w) ==
  CASE w.f = "blank"  -> {"variant"}
    [] w.f = "format" -> VerbLapse(w.x)
    [] w.f = "regex"  -> RegexLapse(w.x, w.n)
    [] OTHER          -> {}
Lapses(v) == UNION {Lapse(w) : w \in Subterms(v)}
TransformLapses(regex, coerce) ==
  (IF regex = "" THEN {} ELSE RegexLapse(regex, 0)) \cup (IF coerce = "" THEN {} ELSE VerbLapse(coerce))

(* The values of a document; a default, a start or a step may be left out. *)
AuthValues(a) == ToSet(a.vals) \cup (IF "oauth2" \in a.variants /\ a.cache.set THEN {a.cache.expires} ELSE {})
RequestValues(r) ==
  ToSet(r.body.vals) \cup ToSet(r.query) \cup ToSet(r.headers) \cup {r.url, r.if, r.terminate}
    \cup (IF r.cache.set THEN {r.cache.expires} ELSE {}) \cup (IF r.fanOut.set THEN {r.fanOut.over} ELSE {})
Optional(d) == {fd.default : fd \in Range(d.state)} \cup {d.pagination.start, d.pagination.step}
Needed(d) ==
  AuthValues(d.auth)
    \cup (UNION {AuthValues(a) : a \in {b.auth : b \in ToSet(d.auth.branches)} \cup ToSet(d.auth.default)})
    \cup (UNION {RequestValues(r) : r \in ToSet(d.requests)})
    \cup {w.from : w \in ToSet(d.progress) \cup ToSet(d.pagination.advance)}
    \cup {b.when : b \in ToSet(d.auth.branches)} \cup {d.pagination.terminate}
Transforms(d) ==
  ToSet(d.progress) \cup ToSet(d.pagination.advance) \cup (UNION {ToSet(r.extract) : r \in ToSet(d.requests)})
Unchecked(d) ==
  (UNION {Lapses(v) : v \in Needed(d) \cup (Optional(d) \ {Blank})})
    \cup (UNION {TransformLapses(w.regex, w.coerce) : w \in Transforms(d)})
    \cup (IF d.pagination.regex = "" THEN {} ELSE RegexLapse(d.pagination.regex, d.pagination.capture))

(* Whatever the server answers, a document that the validator accepts      *)
(* meets no fault of its own while it runs: no unknown namespace, no       *)
(* malformed reference or destination, no union without a variant, no      *)
(* chain that ends before it decoded (validate.go against the errors of    *)
(* state.go 334-430, extract.go 72-138, bodypath.go 28-45, http.go 344).    *)
(* What the code leaves open is spelled out: a step that reads its own     *)
(* alias outside its items, and what no check asks of a value, which only  *)
(* a document that has it can meet.                                         *)
AcceptedRuns ==
  problem \notin {"none", "data"} =>
    \/ problem = "root" /\ ReadsOwnAlias(doc)
    \/ problem \in Unchecked(doc)

(* The field is written by nothing but the drain that reads it, and its    *)
(* default reads no other field.                                            *)
Alone(d, name) == ~ReadsRoot(d.state[name].default, "state")
FirstRequest == pc = "chain" /\ req = 1 /\ fired = 0

(* A drain starts its pagination over, whatever the last one reached,      *)
(* saved or crashed in, and in whatever order maps were ranged over: every *)
(* field that pagination writes has its default, or nothing                *)
(* (resetPerDrainScratch, state.go 205-220).                                *)
PaginationStartsOver ==
  FirstRequest /\ pages = 1 =>
    \A name \in PerDrainScratchFields(doc) : Alone(doc, name) =>
      IF name \in Seeded(doc)
      THEN name \in DOMAIN scope.state /\ Ok(scope.state[name]) = Eval(EmptyScope, doc.state[name].default)
      ELSE name \notin DOMAIN scope.state

(* A drain resumes from what the last one saved: no default overwrites a   *)
(* stored field and the wipe takes none of them (newScope, state.go        *)
(* 146-164).                                                                *)
ResumesFromSnapshot ==
  FirstRequest /\ pages = 1 =>
    \A name \in DOMAIN snap : name \in DOMAIN scope.state /\ scope.state[name] = snap[name]

(* Nothing an iteration read or extracted is seen by the next one, and an  *)
(* alias is bound nowhere but around its items (runner.go 298-306, 489-500, *)
(* fanout.go 84-92).                                                        *)
IterationsSeeOnlyState ==
  /\ FirstRequest => scope = [EmptyScope EXCEPT !.state = scope.state, !.cache = scope.cache]
  /\ scope.binding # "" => pc = "items"
  /\ pc \in {"chain"} /\ fired = 0 => scope.body = Nil /\ scope.headers = NothingBound
=============================================================================
