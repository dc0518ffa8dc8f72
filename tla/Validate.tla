------------------------------ MODULE Validate ------------------------------
(***************************************************************************)
(* The structural checks of a document (schema/validate.go).  A document   *)
(* is accepted when no check complains; what a complaint says, and the one *)
(* warning (invalidate_cache without a cache), are left out.               *)
(*                                                                         *)
(* A document is a record of its blocks.  A union is the set of its        *)
(* variants that are present and the fields they read; a field that the    *)
(* file leaves out is Blank, NoPredicate or the empty path.                *)
(***************************************************************************)
EXTENDS Terms, FiniteSets

ClosedRoots == {"state", "cache", "events", "extract", "steps", "response"}

(* IsAbsent *)
IsAbsent(v) == v.f \in {"zero", "blank"} \/ (v.f = "concat" /\ v.kids = << >>)

(* Exactly one variant: the switch on len(VariantNames()) of each union. *)
HasOne(union) == Cardinality(union.variants) = 1
Is(union, name) == union.variants = {name}

(* What checkValue and checkPathRef know of the rest of the document:      *)
(* declared state fields, step ids, extract names in scope, cache slots    *)
(* and the alias of the step's fan_out.                                     *)
NoStar(p) == \A i \in DOMAIN p : p[i] # "*"
-----------------------------------------------------------------------------
(* References. *)
ChecksEventsRef(p) ==
  /\ Len(p) >= 2
  /\ \/ p[2] \in {"first", "last", "*"}
     \/ p[2] = "count" /\ Len(p) = 2
     \/ p[2] \in DOMAIN Numerals /\ p[2] # "-1"
  /\ \A i \in 3 .. Len(p) : p[i] # "*"

ChecksNamed(p, declared) == Len(p) >= 2 /\ p[2] \in declared /\ NoStar(p)

(* Mutant: a header without a name passes. *)
ChecksStepsRefUnnamed(p, sc) ==
  Len(p) >= 3 /\ p[2] \in sc.steps /\ p[3] \in {"body", "header"} /\ NoStar(p)

ChecksStepsRef(p, sc) ==
  /\ Len(p) >= 3 /\ p[2] \in sc.steps
  /\ p[3] = "body" \/ (p[3] = "header" /\ Len(p) >= 4)
  /\ NoStar(p)

ChecksResponseRef(p) ==
  /\ Len(p) >= 2
  /\ p[2] = "body" \/ (p[2] = "header" /\ Len(p) >= 3)
  /\ NoStar(p)

ChecksPathRef(p, sc) ==
  /\ p # << >>
  /\ IF sc.alias # "" /\ p[1] = sc.alias THEN NoStar(p)
     ELSE \/ p[1] = "state" /\ ChecksNamed(p, sc.state)
          \/ p[1] = "cache" /\ ChecksNamed(p, sc.slots)
          \/ p[1] = "events" /\ ChecksEventsRef(p)
          \/ p[1] = "extract" /\ ChecksNamed(p, sc.extract)
          \/ p[1] = "steps" /\ ChecksStepsRef(p, sc)
          \/ p[1] = "response" /\ ChecksResponseRef(p)
-----------------------------------------------------------------------------
(* Values and predicates. *)
Scalars == {"str", "int", "bool", "now", "format", "base64", "object", "add", "subtract",
            "max", "min", "first", "last", "count"}

(* checkListShapedValue and the tail of checkReducerOperand. *)
ChecksListShaped(v) == v.f \notin Scalars

(* What is asked of a node itself, and then of all that is below it. *)
ValueNode(v, sc) ==
  /\ v.f = "ref" => ChecksPathRef(v.p, sc)
  /\ v.f = "format" => v.x # ""
  /\ v.f \in Reducers \cup {"slice"} => ChecksListShaped(v.kids[1])
  /\ v.f = "regex" => v.x # "" /\ v.n >= 0

PredicateNode(p, sc) ==
  /\ p.f # "none"
  /\ p.f \in {"and", "or"} => p.kids # << >>
  /\ p.f \in Comparisons \cup {"present"} => ChecksPathRef(p.p, sc)

ChecksValue(v, sc) == \A w \in Subterms(v) : ValueNode(w, sc) /\ PredicateNode(w, sc)
ChecksPredicate(p, sc) == ChecksValue(p, sc)

(* A predicate the file may leave out. *)
ChecksOptional(p, sc) == p.f = "none" \/ ChecksPredicate(p, sc)
ChecksAll(vals, sc) == \A i \in DOMAIN vals : ChecksValue(vals[i], sc)
ChecksRequired(v, sc) == ~IsAbsent(v) /\ ChecksValue(v, sc)
-----------------------------------------------------------------------------
(* State declarations and lifetimes. *)
StateTypes == {"string", "int", "bool", "secret", "duration", "timestamp", "url", "enum"}

ChecksStateDeclarations(d, sc) ==
  \A name \in DOMAIN d.state : LET fd == d.state[name] IN
    /\ fd.type \in StateTypes
    /\ fd.values <=> fd.type = "enum"
    /\ fd.format => fd.type \in {"timestamp", "duration"}
    /\ ChecksValue(fd.default, sc)

StateTo(to, sc) == Len(to) = 2 /\ to[1] = "state" /\ to[2] \in sc.state

(* The destinations of each side, as the switch on the variant picks them. *)
PaginationTos(d) ==
  CASE d.pagination.variants \cap {"cursor_token", "next_url", "counter"} # {} -> {d.pagination.to}
    [] "custom" \in d.pagination.variants -> {w.to : w \in ToSet(d.pagination.advance)}
    [] OTHER -> {}

ProgressTos(d) == {w.to : w \in ToSet(d.progress)}
ExtractTos(d) == UNION {{ev.to : ev \in ToSet(d.requests[i].extract)} : i \in DOMAIN d.requests}

ChecksLifetimes(d, sc) ==
  /\ \A to \in PaginationTos(d) \cup ProgressTos(d) : StateTo(to, sc)
  /\ \A to \in ExtractTos(d) : StateTo(to, sc) \/ (Len(to) = 2 /\ to[1] = "extract" /\ to[2] # "")
  /\ PaginationTos(d) \cap (ProgressTos(d) \cup ExtractTos(d)) = {}
-----------------------------------------------------------------------------
(* Caches and authentication. *)
ChecksCache(c, sc) ==
  c.set => /\ Len(c.to) = 2 /\ c.to[1] = "cache" /\ c.to[2] # ""
           /\ ChecksRequired(c.expires, sc)
           /\ c.buffer = "span"

(* sigv4: the static pair is all or nothing, a session token needs it. *)
ChecksSigV4(a, sc) ==
  /\ "id" \in a.pair <=> "secret" \in a.pair
  /\ "session" \in a.pair => {"id", "secret"} \subseteq a.pair
  /\ ChecksAll(a.vals, sc)

ChecksOAuth2(a, sc) == Cardinality(a.grants) = 1 /\ ChecksAll(a.vals, sc) /\ ChecksCache(a.cache, sc)

ChecksPlainAuth(a, sc) ==
  /\ HasOne(a)
  /\ a.variants \subseteq {"bearer", "basic"} => ChecksAll(a.vals, sc)
  /\ a.variants \subseteq {"api_key", "custom"} => a.header /\ ChecksAll(a.vals, sc)
  /\ Is(a, "oauth2") => ChecksOAuth2(a, sc)
  /\ Is(a, "sigv4") => ChecksSigV4(a, sc)

(* No multi_mode inside a multi_mode, and a default arm. *)
ChecksMultiMode(a, sc) ==
  LET Arm(b) == "multi_mode" \notin b.variants /\ ChecksPlainAuth(b, sc) IN
  /\ a.branches # << >>
  /\ \A i \in DOMAIN a.branches : ChecksPredicate(a.branches[i].when, sc) /\ Arm(a.branches[i].auth)
  /\ Len(a.default) = 1 /\ Arm(a.default[1])

ChecksAuth(a, sc) == IF Is(a, "multi_mode") THEN ChecksMultiMode(a, sc) ELSE ChecksPlainAuth(a, sc)

(* The slots of every cache block, of the active auth, of the arms of a    *)
(* multi_mode and of the requests.                                          *)
SlotOf(c) == IF c.set /\ Len(c.to) >= 2 /\ c.to[1] = "cache" THEN {c.to[2]} ELSE {}
CollectAuthCache(a) == IF "oauth2" \in a.variants THEN SlotOf(a.cache) ELSE {}
CollectCacheSlots(d) ==
  CollectAuthCache(d.auth)
    \cup (UNION {CollectAuthCache(d.auth.branches[i].auth) : i \in DOMAIN d.auth.branches})
    \cup (UNION {CollectAuthCache(d.auth.default[i]) : i \in DOMAIN d.auth.default})
    \cup (UNION {SlotOf(d.requests[i].cache) : i \in DOMAIN d.requests})
-----------------------------------------------------------------------------
(* Requests. *)
ByteTransforms == {"gzip", "zip"}
Terminals == {"csv", "json", "ndjson"}

ChecksDecodeChain(chain) ==
  /\ chain # << >>
  /\ \A i \in DOMAIN chain :
       /\ HasOne(chain[i])
       /\ chain[i].variants \subseteq (IF i = Len(chain) THEN Terminals ELSE ByteTransforms)
       /\ Is(chain[i], "csv") => chain[i].arg \in {"present", "absent"}
       /\ Is(chain[i], "zip") => chain[i].arg # "["

Terminal(chain) ==
  IF chain # << >> /\ HasOne(Last(chain)) /\ Last(chain).variants \subseteq Terminals
  THEN Last(chain).variants ELSE {}

(* events_at: the page body, or a part of it or of a step's body. *)
BodyPart(p, sc) ==
  \/ Len(p) >= 3 /\ p[1] = "response" /\ p[2] = "body"
  \/ Len(p) >= 4 /\ p[1] = "steps" /\ p[2] \in sc.steps /\ p[3] = "body"
ChecksEventsAtPath(p, sc) == p = << >> \/ BodyPart(p, sc)

ChecksExtractFromPath(p, sc) ==
  /\ p # << >>
  /\ (p[1] = "response" /\ ChecksResponseRef(p)) \/ (p[1] = "steps" /\ ChecksStepsRef(p, sc))

(* over is looked at with the alias already in scope. *)
ChecksFanOut(f, sc) ==
  f.set => /\ ChecksRequired(f.over, sc) /\ ChecksListShaped(f.over)
           /\ f.as # "" /\ f.as \notin ClosedRoots \cup sc.state \cup sc.steps
           /\ f.merge \in {"", "flatten", "wrap"}

HTTPStatus == 100 .. 599
ChecksOnStatus(verbs) ==
  \A i \in DOMAIN verbs : /\ verbs[i].code \in HTTPStatus
                          /\ verbs[i].action \in {"skip", "fail", "empty_events", "invalidate_cache"}

ChecksBody(b, sc) == b.variants # {} => HasOne(b) /\ ChecksAll(b.vals, sc)

ChecksRequest(r, sc) ==
  /\ r.method \in {"GET", "POST", "PUT", "PATCH", "DELETE", "HEAD"}
  /\ ChecksRequired(r.url, sc)
  /\ ChecksAll(r.query, sc) /\ ChecksAll(r.headers, sc) /\ ChecksBody(r.body, sc)
  /\ r.hasDecode => ChecksDecodeChain(r.decode)
  /\ r.producer => /\ ChecksEventsAtPath(r.eventsAt, sc)
                   /\ Terminal(r.decode) = {"csv"} => r.eventsAt = << >>
  /\ \A i \in DOMAIN r.extract : ChecksExtractFromPath(r.extract[i].from, sc)
  /\ ChecksCache(r.cache, sc) /\ ChecksFanOut(r.fanOut, sc)
  /\ ChecksOptional(r.if, sc) /\ ChecksOptional(r.terminate, sc)
  /\ ChecksOnStatus(r.onStatus)
  /\ IsInjective(r.expect) /\ ToSet(r.expect) \subseteq HTTPStatus

(* The names that the extracts of the requests before the i-th put in      *)
(* scope: a step does not see its own.                                      *)
ExtractedBefore(d, i) ==
  {ev.to[2] : ev \in {x \in UNION {ToSet(d.requests[j].extract) : j \in 1 .. i - 1} :
                        Len(x.to) = 2 /\ x.to[1] = "extract" /\ x.to[2] # ""}}

RequestScope(d, i, sc) ==
  [sc EXCEPT !.extract = ExtractedBefore(d, i),
             !.alias = IF d.requests[i].fanOut.set THEN d.requests[i].fanOut.as ELSE ""]

ChecksRequests(d, sc) ==
  LET ids == SelectSeq([i \in DOMAIN d.requests |-> d.requests[i].id], LAMBDA id : id # "") IN
  /\ d.requests # << >>
  /\ IsInjective(ids)
  /\ Cardinality({i \in DOMAIN d.requests : d.requests[i].producer}) = 1
  /\ \A i \in DOMAIN d.requests : LET r == d.requests[i] IN
       /\ ~(r.producer /\ r.method = "HEAD")
       /\ ~(r.cache.set /\ r.fanOut.set)
       /\ ChecksRequest(r, RequestScope(d, i, sc))
-----------------------------------------------------------------------------
(* Pagination, progress, error, and the whole. *)
ChecksPaginationFromPath(p, sc) ==
  /\ p # << >>
  /\ \/ p[1] = "response" /\ ChecksResponseRef(p)
     \/ p[1] = "steps" /\ BodyPart(p, sc)

ChecksPagination(p, sc) ==
  /\ HasOne(p)
  /\ p.variants \subseteq {"cursor_token", "next_url"} => ChecksPaginationFromPath(p.from, sc)
  /\ Is(p, "next_url") => p.capture >= 0
  /\ Is(p, "counter") => ChecksValue(p.start, sc) /\ ChecksValue(p.step, sc)
  /\ Is(p, "custom") => /\ p.advance # << >>
                        /\ \A i \in DOMAIN p.advance : ChecksRequired(p.advance[i].from, sc)
                        /\ ChecksPredicate(p.terminate, sc)
  /\ ~Is(p, "none") => ChecksOptional(p.terminate, sc)

ChecksProgress(writes, sc) == \A i \in DOMAIN writes : ChecksRequired(writes[i].from, sc)
ChecksError(mode) == mode \in {"absent", "standard", "warn", "fail"}

(* auth is looked at before any request, so no extract is in scope there;  *)
(* pagination and progress see them all.                                    *)
DocScope(d) ==
  [state |-> DOMAIN d.state, steps |-> {d.requests[i].id : i \in DOMAIN d.requests} \ {""},
   extract |-> {}, slots |-> CollectCacheSlots(d), alias |-> ""]

Accepts(d) ==
  LET sc == DocScope(d)
      after == [sc EXCEPT !.extract = ExtractedBefore(d, Len(d.requests) + 1)]
  IN /\ ChecksStateDeclarations(d, sc) /\ ChecksLifetimes(d, sc)
     /\ ChecksAuth(d.auth, sc) /\ ChecksRequests(d, sc)
     /\ ChecksPagination(d.pagination, after) /\ ChecksProgress(d.progress, after)
     /\ ChecksError(d.error)
-----------------------------------------------------------------------------
(* What parsing makes of a file, accepted or not (the types of schema/):   *)
(* every block is a record of its fields, and one that is left out is      *)
(* empty.  An arm of a multi_mode that is one too has no arms of its own:   *)
(* it is refused whatever they are.                                         *)
Paths == Seq(STRING)
Caches == [set : BOOLEAN, to : Paths, expires : Nodes, buffer : STRING]
FanOuts == [set : BOOLEAN, over : Nodes, as : STRING, merge : STRING]
Writes == [to : Paths, from : Nodes, regex : STRING, coerce : STRING]
Extracts == [to : Paths, from : Paths, regex : STRING, coerce : STRING]
FieldDecls == [type : STRING, default : Nodes, values : BOOLEAN, format : BOOLEAN]

Bodies == {b \in [variants : SUBSET {"json", "form", "raw"}, vals : Seq(Nodes)] : b.variants = {} => b.vals = << >>}

AuthsOf(branches, default) ==
  {a \in [variants : SUBSET {"none", "bearer", "basic", "api_key", "custom", "oauth2", "sigv4", "multi_mode"},
           header : BOOLEAN, vals : Seq(Nodes), grants : SUBSET {"client_credentials", "password_grant"}, cache : Caches,
           pair : SUBSET {"id", "secret", "session"}, branches : branches, default : default] :
     a.variants = {"none"} => a.vals = << >>}
Arms == AuthsOf({<< >>}, {<< >>})
Auths == AuthsOf(Seq([when : Nodes, auth : Arms]), Seq(Arms))

Stages == [variants : SUBSET (ByteTransforms \cup Terminals), arg : STRING]
Requests ==
  {r \in [id : STRING, method : STRING, url : Nodes, query : Seq(Nodes), headers : Seq(Nodes), body : Bodies,
           decode : Seq(Stages), hasDecode : BOOLEAN, extract : Seq(Extracts), fanOut : FanOuts, expect : Seq(Int),
           if : Nodes, terminate : Nodes, onStatus : Seq([code : Int, action : STRING]), producer : BOOLEAN,
           eventsAt : Paths, cache : Caches] :
     ~r.hasDecode => r.decode = << >>}

Paginations ==
  [variants : SUBSET {"none", "cursor_token", "next_url", "counter", "custom"}, from : Paths, to : Paths,
   regex : STRING, capture : Int, start : Nodes, step : Nodes, advance : Seq(Writes), terminate : Nodes]

IsDocument(d) ==
  /\ d \in [state : {d.state}, auth : Auths, requests : Seq(Requests), pagination : Paginations,
             progress : Seq(Writes), error : STRING]
  /\ DOMAIN d.state \subseteq STRING /\ \A name \in DOMAIN d.state : d.state[name] \in FieldDecls
=============================================================================
