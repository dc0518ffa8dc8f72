------------------------------- MODULE Paging -------------------------------
(***************************************************************************)
(* The five pagination variants (client/pagination.go), driven by the     *)
(* bundled templates against the handlers of internal/testserver that the *)
(* templates are written for: what a state field holds from page to page, *)
(* what the server makes of it, and what the drain has delivered in the   *)
(* end.  Runner has the loop around it with every outcome of an exchange; *)
(* here an exchange is one step, and what matters is which page it was.   *)
(*                                                                         *)
(* A value on the wire is a record of its kind and its number, so that a  *)
(* cursor, a URL and a page number cannot be taken for each other.  Nil   *)
(* is an absent field or a JSON null, Blank the empty string.             *)
(***************************************************************************)
EXTENDS Integers, Sequences

CONSTANTS
  Templates,       \* which of the templates below are run
  MaxPageSize,     \* bound: the template's and the server's page size
  MaxCollection,   \* bound: EventsPerDrain of the server
  MaxPages,        \* Runner.MaxPages
  MaxDrains,       \* bound: drains
  Verdicts         \* how a page may fail: see Fail

ASSUME BoundsAssumption ==
  /\ MaxPageSize \in Nat \ {0}
  /\ MaxCollection \in Nat \ {0}
  /\ MaxPages \in Nat \ {0}
  /\ MaxDrains \in Nat

TemplateNames ==
  {"simple_get_object", "cursor_token", "link_header", "next_url_in_body",
   "scroll_id", "oauth2_relay", "page_number", "etag_conditional", "offset",
   "post_json_body", "custom"}

ASSUME TemplatesAssumption == Templates \subseteq TemplateNames
ASSUME VerdictsAssumption == Verdicts \subseteq {"retry", "empty", "warn", "break"}

VARIABLES
  tpl,       \* the template that is run
  opts,      \* page: the template's state.page_size; serverPage and perDrain:
             \* PageSize and EventsPerDrain of testserver.Options
  last,      \* EventStore.nextID: the store holds last - perDrain + 1 .. last
  field,     \* the state field that pagination writes
  prior,     \* custom: a second field, written from the first
  pc,        \* "idle", "page"
  pages,     \* iterations of this drain
  outcome,   \* how the last drain ended
  got,       \* events delivered in this drain, in order
  clean,     \* ghost: no page of this drain failed
  drains     \* drains started

vars == <<tpl, opts, last, field, prior, pc, pages, outcome, got, clean, drains>>

Val(kind, n) == [kind |-> kind, n |-> n]
Nil == Val("nil", 0)
Blank == Val("blank", 0)
Bool(b) == Val(IF b THEN "true" ELSE "false", 0)
Kinds == {"nil", "blank", "true", "false", "page", "url", "link", "scroll", "int"}

(* isZeroRuntime, of the values that servers send here. *)
IsZero(v) == v \in {Nil, Blank}
-----------------------------------------------------------------------------
(* The server: testserver.EventStore and one handler for each template.   *)
(* A handler says whether the request starts a drain, so that the store   *)
(* is filled anew, and what it answers from the filled store.              *)

Replenish(fresh) == IF fresh THEN last + opts.perDrain ELSE last

StoreLen == opts.perDrain

Slice(newest, offset, limit) ==
  LET first == newest - opts.perDrain
      end   == IF offset + limit < StoreLen THEN offset + limit ELSE StoreLen
  IN [n \in 1 .. (IF offset >= StoreLen THEN 0 ELSE end - offset) |-> first + offset + n]

(* IsDrainStart of the three styles. *)
IsDrainStart(style, v) ==
  CASE style = "none"   -> TRUE
    [] style = "cursor" -> v \in {Nil, Blank}
    [] style = "page"   -> v \in {Nil, Blank, Val("int", 1)}
    [] style = "offset" -> v \in {Nil, Blank, Val("int", 0)}

(* The offset that a cursor of the given kind stands for. *)
Decode(kind, v) == IF v.kind = kind THEN v.n ELSE 0

Answer(fresh, offset, limit, next, more) ==
  [fresh |-> fresh, offset |-> offset, limit |-> limit, next |-> next, more |-> more]

HasNext(offset) == offset + opts.serverPage < StoreLen

CursorTokenServer(v) ==
  LET offset == Decode("page", v) IN
  Answer(IsDrainStart("cursor", v), offset, opts.serverPage,
         IF HasNext(offset) THEN Val("page", offset + opts.serverPage) ELSE Nil, Nil)

LinkHeaderServer(v) ==
  LET offset == Decode("url", v) IN
  Answer(IsDrainStart("cursor", v), offset, opts.serverPage,
         IF HasNext(offset) THEN Val("link", offset + opts.serverPage) ELSE Nil, Nil)

NextURLInBodyServer(v) ==
  LET offset == Decode("url", v) IN
  Answer(IsDrainStart("cursor", v), offset, opts.serverPage,
         IF HasNext(offset) THEN Val("url", offset + opts.serverPage) ELSE Nil, Nil)

(* The last page echoes the scroll id of the request. *)
ScrollIDServer(v) ==
  LET offset == Decode("scroll", v) IN
  Answer(v \in {Nil, Blank}, offset, opts.serverPage,
         IF HasNext(offset) THEN Val("scroll", offset + opts.serverPage)
         ELSE IF v = Nil THEN Blank ELSE v,
         Bool(~HasNext(offset)))

OAuth2RelayServer(v) ==
  LET offset == Decode("page", v) IN
  Answer(v \in {Nil, Blank}, offset, opts.serverPage,
         IF HasNext(offset) THEN Val("page", offset + opts.serverPage) ELSE Blank,
         Bool(HasNext(offset)))

(* meta.has_next is left out on the last page. *)
PageNumberServer(v) ==
  LET page   == IF v.kind = "int" /\ v.n > 0 THEN v.n ELSE 1
      offset == (page - 1) * opts.serverPage
  IN Answer(IsDrainStart("page", v), offset, opts.serverPage, Nil,
            IF HasNext(offset) THEN Bool(TRUE) ELSE Nil)

(* The data step of etag_conditional; its probe step keeps no state. *)
EtagConditionalServer(v) ==
  LET page   == IF v.kind = "int" /\ v.n > 0 THEN v.n ELSE 1
      offset == (page - 1) * opts.serverPage
  IN Answer(IsDrainStart("page", v), offset, opts.serverPage, Nil,
            IF HasNext(offset) THEN Bool(TRUE) ELSE Nil)

(* The limit is the template's page size. *)
OffsetServer(v) ==
  Answer(IsDrainStart("offset", v), v.n, opts.page, Nil, Nil)

(* search_to - search_from is the template's page size. *)
PostJSONBodyServer(v) ==
  Answer(v.n = 0, v.n, opts.page, Nil, Nil)

SimpleGetObjectServer(v) == Answer(TRUE, 0, opts.perDrain, Nil, Nil)

Server(v) ==
  CASE tpl \in {"cursor_token", "custom"} -> CursorTokenServer(v)
    [] tpl = "link_header"                -> LinkHeaderServer(v)
    [] tpl = "next_url_in_body"           -> NextURLInBodyServer(v)
    [] tpl = "scroll_id"                  -> ScrollIDServer(v)
    [] tpl = "oauth2_relay"               -> OAuth2RelayServer(v)
    [] tpl = "page_number"                -> PageNumberServer(v)
    [] tpl = "etag_conditional"           -> EtagConditionalServer(v)
    [] tpl = "offset"                     -> OffsetServer(v)
    [] tpl = "post_json_body"             -> PostJSONBodyServer(v)
    [] tpl = "simple_get_object"          -> SimpleGetObjectServer(v)
-----------------------------------------------------------------------------
(* The templates: where the request reads the field, and the pagination.  *)

(* The request slot: {ref: state.<name>, default: ...}, or left out. *)
Param ==
  CASE tpl \in {"page_number", "etag_conditional"} ->
         IF field = Nil THEN Val("int", 1) ELSE field
    [] tpl \in {"offset", "post_json_body"} ->
         IF field = Nil THEN Val("int", 0) ELSE field
    [] tpl \in {"cursor_token", "custom"} ->
         IF field = Nil THEN Blank ELSE field
    [] OTHER -> field

(* Each variant's advance: whether the loop ends, else what is written.   *)
(* resp is what pagination sees of the page: number of events, the        *)
(* continuation, the end marker; all absent when the page failed.         *)
Stop == [done |-> TRUE, field |-> field, prior |-> prior]
Write(v) == [done |-> FALSE, field |-> v, prior |-> prior]

(* terminate_when of the template, if it has its own. *)
HasTerminateWhen ==
  tpl \in {"scroll_id", "oauth2_relay", "page_number", "etag_conditional"}

TerminateWhen(resp) ==
  CASE tpl = "scroll_id"    -> resp.more = Bool(TRUE)
    [] tpl = "oauth2_relay" -> resp.more = Bool(FALSE)
    [] OTHER                -> resp.more = Nil

NoneAdvance(resp) == Stop

CursorTokenAdvance(resp) ==
  IF (IF HasTerminateWhen THEN TerminateWhen(resp) ELSE IsZero(resp.next))
  THEN Stop ELSE Write(resp.next)

(* regex: takes the URL out of a link; without a match the value is nil.  *)
Matched(v) ==
  IF tpl # "link_header" \/ v = Nil THEN v
  ELSE IF v.kind = "link" THEN Val("url", v.n) ELSE Nil

NextURLAdvance(resp) ==
  LET url == Matched(resp.next) IN
  IF (IF HasTerminateWhen THEN TerminateWhen(resp) ELSE IsZero(url))
  THEN Stop ELSE Write(url)

Start == IF tpl \in {"page_number", "etag_conditional"} THEN 1 ELSE 0
Step == IF tpl \in {"page_number", "etag_conditional"} THEN 1 ELSE opts.page

(* Mutant: the comparison with the step is <=. *)
CounterAdvanceEarly(resp) ==
  IF (IF HasTerminateWhen THEN TerminateWhen(resp) ELSE resp.count <= Step)
  THEN Stop
  ELSE Write(Val("int", (IF field = Nil THEN Start ELSE field.n) + Step))

(* Mutant: an unset field counts from zero. *)
CounterAdvanceFromZero(resp) ==
  IF (IF HasTerminateWhen THEN TerminateWhen(resp) ELSE resp.count < Step)
  THEN Stop
  ELSE Write(Val("int", (IF field = Nil THEN 0 ELSE field.n) + Step))

(* Mutant: no short-page detection, the loop ends on an empty page. *)
CounterAdvanceLate(resp) ==
  IF (IF HasTerminateWhen THEN TerminateWhen(resp) ELSE resp.count = 0)
  THEN Stop
  ELSE Write(Val("int", (IF field = Nil THEN Start ELSE field.n) + Step))

CounterAdvance(resp) ==
  IF (IF HasTerminateWhen THEN TerminateWhen(resp) ELSE resp.count < Step)
  THEN Stop
  ELSE Write(Val("int", (IF field = Nil THEN Start ELSE field.n) + Step))

(* Mutant: the writes are not staged, the second sees the first. *)
CustomAdvanceUnstaged(resp) ==
  IF IsZero(resp.next) THEN Stop
  ELSE [done |-> FALSE, field |-> resp.next, prior |-> resp.next]

(* advance: [{to: field, from: response.body.next_cursor},                 *)
(*           {to: prior, from: {ref: state.field}}], ended by an absent    *)
(* cursor.  Both from: are resolved before either is written.              *)
CustomAdvance(resp) ==
  IF IsZero(resp.next) THEN Stop
  ELSE [done |-> FALSE, field |-> resp.next, prior |-> field]

Advance(resp) ==
  CASE tpl = "simple_get_object"                    -> NoneAdvance(resp)
    [] tpl \in {"cursor_token", "scroll_id", "oauth2_relay"} -> CursorTokenAdvance(resp)
    [] tpl \in {"link_header", "next_url_in_body"}  -> NextURLAdvance(resp)
    [] tpl = "custom"                               -> CustomAdvance(resp)
    [] OTHER                                        -> CounterAdvance(resp)
-----------------------------------------------------------------------------
Init ==
  /\ tpl \in Templates
  /\ opts \in [page : 1 .. MaxPageSize, serverPage : 1 .. MaxPageSize,
               perDrain : 1 .. MaxCollection]
  /\ (tpl = "simple_get_object") => opts.perDrain = 1
  /\ last = 0
  /\ field = Nil /\ prior = Nil
  /\ pc = "idle" /\ pages = 0 /\ outcome = "none"
  /\ got = << >> /\ clean = TRUE /\ drains = 0

(* Mutant: pagination's fields are not wiped when a drain starts. *)
StartDrainUnwiped ==
  /\ pc = "idle" /\ drains < MaxDrains
  /\ pc' = "page"
  /\ pages' = 0 /\ outcome' = "none" /\ got' = << >> /\ clean' = TRUE
  /\ drains' = drains + 1
  /\ UNCHANGED <<tpl, opts, last, field, prior>>

(* resetPerDrainScratch wipes the fields that pagination writes. *)
StartDrain ==
  /\ pc = "idle" /\ drains < MaxDrains
  /\ pc' = "page"
  /\ field' = Nil /\ prior' = Nil
  /\ pages' = 0 /\ outcome' = "none" /\ got' = << >> /\ clean' = TRUE
  /\ drains' = drains + 1
  /\ UNCHANGED <<tpl, opts, last>>

End(how) == pc' = "idle" /\ outcome' = how

(* advance is called, and the loop goes on or ends. *)
Turn(resp) ==
  LET next == Advance(resp) IN
  /\ field' = next.field /\ prior' = next.prior
  /\ IF next.done THEN End("complete") ELSE UNCHANGED <<pc, outcome>>

(* An accepted page: its events are delivered, pagination advances. *)
Page ==
  /\ pc = "page" /\ pages < MaxPages
  /\ pages' = pages + 1
  /\ LET ans    == Server(Param)
         newest == Replenish(ans.fresh)
         events == Slice(newest, ans.offset, ans.limit)
     IN /\ last' = newest
        /\ got' = got \o events
        /\ Turn([count |-> Len(events), next |-> ans.next, more |-> ans.more])
  /\ UNCHANGED <<tpl, opts, clean, drains>>

(* A page that failed, before or after the server worked on it: nothing   *)
(* is delivered.  invalidate_cache fetches it again, skip and             *)
(* empty_events and error.mode warn advance without a response, error     *)
(* mode standard ends the drain.                                           *)
Fail ==
  /\ pc = "page" /\ pages < MaxPages
  /\ pages' = pages + 1
  /\ clean' = FALSE
  /\ last' \in {last, Replenish(Server(Param).fresh)}
  /\ \E verdict \in Verdicts :
       CASE verdict = "retry" -> UNCHANGED <<field, prior, pc, outcome>>
         [] verdict = "break" -> End("broke") /\ UNCHANGED <<field, prior>>
         [] OTHER -> Turn([count |-> 0, next |-> Nil, more |-> Nil])
  /\ UNCHANGED <<tpl, opts, got, drains>>

CapReached ==
  /\ pc = "page" /\ pages >= MaxPages
  /\ End("cap")
  /\ UNCHANGED <<tpl, opts, last, field, prior, pages, got, clean, drains>>

Next == StartDrain \/ Page \/ Fail \/ CapReached

Spec == Init /\ [][Next]_vars
-----------------------------------------------------------------------------
(* Type correctness. *)
TypeOK ==
  /\ tpl \in Templates
  /\ opts \in [page : Nat \ {0}, serverPage : Nat \ {0}, perDrain : Nat \ {0}]
  /\ last \in Nat
  /\ field \in [kind : Kinds, n : Nat] /\ prior \in [kind : Kinds, n : Nat]
  /\ pc \in {"idle", "page"}
  /\ pages \in 0 .. MaxPages
  /\ outcome \in {"none", "complete", "broke", "cap"}
  /\ got \in Seq(Nat \ {0})
  /\ clean \in BOOLEAN
  /\ drains \in 0 .. MaxDrains

Collection == [n \in 1 .. opts.perDrain |-> last - opts.perDrain + n]

(* A drain that its own pagination ended, and none of whose pages failed, *)
(* has delivered the server's whole collection, in order, each event once: *)
(* the position a variant writes, the slot it is read back from and the   *)
(* page the server makes of it fit together for every template, page size *)
(* and collection (the termination rules of pagination.go included).      *)
Complete ==
  outcome = "complete" /\ clean => got = Collection

(* A drain without a failed page asks for no page beyond the collection:  *)
(* each of its pages has an event that the pages before it had not.  The  *)
(* exception is a counter without a terminate_when of its own, which      *)
(* takes a full page to mean another (count < step, pagination.go:281):   *)
(* it asks once more, and only when the collection ends on a page's edge. *)
PromptEnd ==
  clean /\ pages > 0 =>
    IF tpl \in {"offset", "post_json_body"}
    THEN (pages - 1) * opts.page <= opts.perDrain
    ELSE (pages - 1) * opts.serverPage < opts.perDrain

(* Whatever fails and is fetched again, skipped or taken for empty, a     *)
(* drain delivers no event twice and leaves none out between two that it  *)
(* delivers; the one exception is a template with a terminate_when of its *)
(* own that starts again at the head of a later collection when the       *)
(* failed page gave it no continuation (cursorTokenPagination.advance     *)
(* writes the absent value).                                               *)
NothingSkipped ==
  \A n \in 1 .. Len(got) - 1 :
    \/ got[n + 1] = got[n] + 1
    \/ /\ tpl \in {"scroll_id", "oauth2_relay"}
       /\ ~clean
       /\ got[n + 1] > got[n] /\ (got[n + 1] - 1) % opts.perDrain = 0

(* The entries of a custom advance: see the state before any of them is   *)
(* written: prior is the position of the page before the one that field   *)
(* asks for.                                                               *)
StagedWrites ==
  tpl = "custom" /\ field # Nil /\ prior # Nil =>
    prior.n + opts.serverPage = field.n
=============================================================================
