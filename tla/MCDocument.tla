----------------------------- MODULE MCDocument -----------------------------
(***************************************************************************)
(* One document with a login, a list and a fan-out step, and at each of    *)
(* its sites every path, value, predicate or block of a small vocabulary.  *)
(***************************************************************************)
EXTENDS Document

NoCache == [set |-> FALSE, to |-> << >>, expires |-> Blank, buffer |-> ""]
SlotCache(to, expires, buffer) == [set |-> TRUE, to |-> to, expires |-> expires, buffer |-> buffer]
NoFanOut == [set |-> FALSE, over |-> Blank, as |-> "", merge |-> ""]
NoBody == [variants |-> {}, vals |-> << >>]
Entry(to, from) == [to |-> to, from |-> from, regex |-> "", coerce |-> ""]
FieldDecl(type, default) == [type |-> type, default |-> default, values |-> FALSE, format |-> FALSE]

Auth(variants, vals) ==
  [variants |-> variants, header |-> TRUE, vals |-> vals, grants |-> {}, cache |-> NoCache, pair |-> {},
   branches |-> << >>, default |-> << >>]
Pagination(variants, from, to) ==
  [variants |-> variants, from |-> from, to |-> to, regex |-> "", capture |-> 0, start |-> Blank,
   step |-> Blank, advance |-> << >>, terminate |-> NoPredicate]
Request(id, method) ==
  [id |-> id, method |-> method, url |-> Str("word", 1), query |-> << >>, headers |-> << >>,
   body |-> NoBody, decode |-> << >>, hasDecode |-> FALSE, extract |-> << >>, fanOut |-> NoFanOut,
   expect |-> << >>, if |-> NoPredicate, terminate |-> NoPredicate, onStatus |-> << >>,
   producer |-> FALSE, eventsAt |-> << >>, cache |-> NoCache]

Items == <<"response", "body", "items">>
Page == <<"state", "page">>
Mark == <<"state", "mark">>

Login == [Request("login", "POST") EXCEPT
            !.extract = <<Entry(<<"extract", "tok">>, <<"response", "body", "next">>),
                          Entry(<<"state", "session">>, <<"response", "header", "H">>)>>]
Listing == [Request("list", "GET") EXCEPT !.producer = TRUE, !.eventsAt = Items,
              !.query = <<RefOr(Mark, Str("stamp", 0)), Ref(Page)>>]
Details == [Request("item", "GET") EXCEPT
              !.fanOut = [set |-> TRUE, over |-> Ref(<<"steps", "list", "body", "items">>), as |-> "it", merge |-> "wrap"],
              !.query = <<Ref(<<"it", "id">>)>>]

Base ==
  [state |-> ("mark" :> FieldDecl("string", Blank)) @@ ("page" :> FieldDecl("int", IntLit(0)))
               @@ ("keep" :> FieldDecl("secret", Str("word", 2))) @@ ("session" :> FieldDecl("string", Blank)),
   auth |-> Auth({"custom"}, <<Ref(<<"state", "keep">>)>>),
   requests |-> <<Login, Listing, Details>>,
   pagination |-> [Pagination({"counter"}, << >>, Page) EXCEPT !.step = IntLit(2)],
   progress |-> <<Entry(Mark, Op("max", <<Ref(<<"events", "*", "ts">>)>>))>>,
   error |-> "absent"]
-----------------------------------------------------------------------------
RefPaths == {
  <<"state", "keep">>, <<"state">>, <<"state", "none">>, <<"state", "mark", "*">>, <<"cache", "slot">>,
  <<"cache", "other">>, <<"cache">>, <<"events", "count">>, <<"events", "count", "ts">>, <<"events", "*", "ts">>,
  <<"events", "first", "ts">>, <<"events", "last">>, <<"events", "+1", "ts">>, <<"events", "-1">>, <<"events", "ts">>,
  <<"events">>, <<"events", "1", "*">>, <<"extract", "tok">>, <<"extract", "late">>, <<"extract">>,
  <<"steps", "login", "body", "next">>, <<"steps", "list", "header", "H">>, <<"steps", "login", "header">>,
  <<"steps", "login">>, <<"steps", "login", "status">>, <<"steps", "none", "body">>, <<"steps">>,
  Items, <<"response", "header", "H">>, <<"response", "header">>, <<"response", "status">>, <<"response">>,
  <<"it", "id">>, <<"it", "*">>, <<"item", "id">>, << >> }

ToPaths == { Mark, Page, <<"state", "keep">>, <<"state", "none">>, <<"state">>, <<"state", "mark", "x">>,
              <<"extract", "tok">>, <<"extract", "late">>, <<"extract", "">>, <<"cache", "slot">>, <<"response", "body">>, << >> }

EventTimes == Ref(<<"events", "*", "ts">>)
Vals == {
  Blank, Null, Str("word", 3), Str("empty", 0), IntLit(1), BoolLit(TRUE), NowLit,
  Op("concat", <<Str("digits", 1), Ref(Page)>>), Op("concat", <<Ref(<<"state", "none">>), Ref(Mark)>>),
  Op("select", <<Present(Mark), Str("word", 4), IntLit(0)>>), Op("select", <<Always(FALSE), NowLit, Blank>>),
  Op("select", <<NoPredicate, NowLit, NowLit>>),
  Format("unix_seconds", NowLit), Format("layout", NowLit), Format("", NowLit), Format("string", Ref(<<"nowhere", "x">>)),
  Op("base64", <<Ref(<<"state", "keep">>)>>), Op("list", <<Ref(Mark), IntLit(1)>>), Op("list", <<Ref(<<"steps">>)>>),
  Op("object", <<Field("k", Ref(Page))>>), Op("object", <<Field("k", Ref(<<"extract", "late">>))>>),
  Op("add", <<NowLit, Str("span", 1)>>), Op("add", <<Ref(Page), IntLit(1)>>), Op("subtract", <<NowLit, Str("word", 30)>>),
  Op("max", <<Op("list", <<Ref(Mark), Op("last", <<EventTimes>>)>>)>>), Op("min", <<EventTimes>>), Op("first", <<EventTimes>>),
  Op("count", <<EventTimes>>), Op("count", <<Op("add", <<IntLit(1), IntLit(1)>>)>>), Op("max", <<Str("word", 1)>>),
  Op("first", <<Ref(<<"state", "keep">>)>>), Slice(EventTimes, 0, 1), Slice(IntLit(1), 0, 1), Slice(Op("list", <<IntLit(1)>>), -1, 5),
  Regex("number", 0, <<Ref(Page)>>), Regex("(number)", 1, <<Ref(Mark), IntLit(7)>>), Regex("all", 1, <<Ref(Page)>>),
  Ref(<<"response", "body", "expires_in">>), Regex("(", 0, <<Ref(Page)>>), Regex("all", -1, <<Ref(Page)>>), Regex("all", 0, <<Ref(<<"state">>)>>) }

Preds == {
  NoPredicate, Always(TRUE), Always(FALSE), Present(Mark), Cmp("eq", Page, IntLit(0)), Cmp("gt", <<"events", "count">>, IntLit(1)),
  Cmp("lt", Mark, NowLit), Cmp("gte", Page, Ref(<<"extract">>)), Cmp("lte", <<"state", "none">>, IntLit(1)), Cmp("eq", Mark, Blank),
  Op("and", <<Always(TRUE), Present(Items)>>), Op("or", <<Present(Mark), Cmp("eq", <<"response", "header", "H">>, Str("digits", 5))>>),
  Op("and", << >>), Op("or", <<Always(FALSE), NoPredicate>>), Op("not", <<Present(Mark)>>), Op("not", <<Present(<<"response", "kind">>)>>) }
-----------------------------------------------------------------------------
At(i, f(_)) == [Base EXCEPT !.requests[i] = f(@)]

(* The sites that read a path through a ref, a predicate or on their own. *)
RefSites(p) == {
  [Base EXCEPT !.state["keep"].default = Ref(p)], [Base EXCEPT !.state["page"].default = Ref(p)],
  [Base EXCEPT !.auth.vals = <<Ref(p)>>],
  [Base EXCEPT !.auth = [Auth({"multi_mode"}, << >>) EXCEPT
     !.branches = <<[when |-> Present(p), auth |-> Auth({"none"}, << >>)]>>, !.default = <<Auth({"bearer"}, <<Ref(p)>>)>>]],
  [Base EXCEPT !.auth = [Auth({"oauth2"}, <<Str("word", 1), Ref(p)>>) EXCEPT !.grants = {"password_grant"},
     !.cache = SlotCache(<<"cache", "slot">>, NowLit, "span")]],
  [Base EXCEPT !.requests[1].if = Present(p)], [Base EXCEPT !.requests[1].url = Ref(p)],
  [Base EXCEPT !.requests[1].cache = SlotCache(<<"cache", "slot">>, RefOr(p, NowLit), "span")],
  [Base EXCEPT !.requests[1].extract[1].from = p], [Base EXCEPT !.requests[2].headers = <<Ref(p)>>],
  [Base EXCEPT !.requests[2].body = [variants |-> {"json"}, vals |-> <<Ref(p)>>]], [Base EXCEPT !.requests[2].eventsAt = p],
  [Base EXCEPT !.requests[2].terminate = Op("or", <<Present(p), Present(Items)>>)],
  [Base EXCEPT !.requests[3].fanOut.over = Ref(p)], [Base EXCEPT !.requests[3].if = Present(p)],
  [Base EXCEPT !.requests[3].query = <<Ref(p)>>], [Base EXCEPT !.requests[3].terminate = Present(p)],
  [Base EXCEPT !.progress[1].from = Ref(p)], [Base EXCEPT !.pagination.step = RefOr(p, IntLit(1))],
  [Base EXCEPT !.pagination.terminate = Present(p)], [Base EXCEPT !.pagination = Pagination({"cursor_token"}, p, Page)],
  [Base EXCEPT !.pagination = [Pagination({"next_url"}, p, Page) EXCEPT !.regex = "(number)", !.capture = 1]],
  [Base EXCEPT !.pagination = [Pagination({"custom"}, << >>, << >>) EXCEPT !.terminate = Present(Mark),
     !.advance = <<Entry(Page, Ref(p))>>]] }

ToSites(p) == {
  [Base EXCEPT !.requests[1].extract[1].to = p], [Base EXCEPT !.requests[3].extract = <<Entry(p, <<"response", "header", "H">>)>>],
  [Base EXCEPT !.progress[1].to = p], [Base EXCEPT !.pagination.to = p],
  [Base EXCEPT !.pagination = Pagination({"cursor_token"}, <<"response", "body", "next">>, p)],
  [Base EXCEPT !.requests[1].cache = SlotCache(p, NowLit, "span")],
  [Base EXCEPT !.pagination = [Pagination({"custom"}, << >>, << >>) EXCEPT !.terminate = Cmp("lt", <<"events", "count">>, IntLit(1)),
     !.advance = <<Entry(Page, Ref(Page)), Entry(p, IntLit(1))>>]] }

Grant(expires) ==
  [Auth({"oauth2"}, <<Str("word", 1)>>) EXCEPT !.grants = {"client_credentials"},
     !.cache = SlotCache(<<"cache", "slot">>, expires, "span")]

ValueSites(v) == {
  [Base EXCEPT !.state["keep"].default = v], [Base EXCEPT !.state["page"].default = v], [Base EXCEPT !.auth = Auth({"bearer"}, <<v>>)],
  [Base EXCEPT !.requests[1].url = v], [Base EXCEPT !.requests[2].query = <<v>>], [Base EXCEPT !.requests[3].fanOut.over = v],
  [Base EXCEPT !.requests[3].body = [variants |-> {"form"}, vals |-> <<v>>]], [Base EXCEPT !.progress[1].from = v],
  [Base EXCEPT !.pagination.start = v],
  [Base EXCEPT !.requests[1].cache = SlotCache(<<"cache", "slot">>, v, "span")],
  [Base EXCEPT !.auth = Grant(v)],
  [Base EXCEPT !.auth = [Auth({"multi_mode"}, << >>) EXCEPT
     !.branches = <<[when |-> Cmp("eq", Page, IntLit(0)), auth |-> Auth({"bearer"}, <<v>>)]>>, !.default = <<Grant(v)>>]] }

PredicateSites(p) == {
  [Base EXCEPT !.requests[2].if = p], [Base EXCEPT !.requests[2].terminate = p], [Base EXCEPT !.pagination.terminate = p],
  [Base EXCEPT !.pagination = [Pagination({"custom"}, << >>, << >>) EXCEPT !.terminate = p, !.advance = <<Entry(Page, IntLit(1))>>]] }
-----------------------------------------------------------------------------
Stage(variants, arg) == [variants |-> variants, arg |-> arg]
Chain(chain) == At(2, LAMBDA r : [r EXCEPT !.hasDecode = TRUE, !.decode = chain, !.eventsAt = << >>])
Chains == {
  Chain(<<Stage({"json"}, "")>>), Chain(<<Stage({"ndjson"}, "")>>), Chain(<<Stage({"gzip"}, ""), Stage({"csv"}, "present")>>),
  Chain(<<Stage({"zip"}, ""), Stage({"ndjson"}, "")>>), Chain(<<Stage({"zip"}, "["), Stage({"json"}, "")>>), Chain(<<Stage({"gzip"}, "")>>),
  Chain(<<Stage({"csv"}, "")>>), Chain(<<Stage({"json"}, ""), Stage({"gzip"}, "")>>), Chain(<<Stage({"json", "csv"}, "present")>>),
  [Chain(<<Stage({"ndjson"}, "")>>) EXCEPT !.requests[2].eventsAt = Items],
  Chain(<<Stage({}, "")>>), [Base EXCEPT !.requests[2].hasDecode = TRUE],
  [Base EXCEPT !.requests[2].hasDecode = TRUE, !.requests[2].decode = <<Stage({"csv"}, "absent")>>] }

AuthBlocks == {[Base EXCEPT !.auth = a] : a \in {
  Auth({}, << >>), Auth({"none"}, << >>), Auth({"none", "bearer"}, <<NowLit>>), Auth({"basic"}, <<Str("word", 1), Ref(<<"state", "session">>)>>),
  [Auth({"api_key"}, <<NowLit>>) EXCEPT !.header = FALSE], Auth({"oauth2"}, <<NowLit>>),
  [Auth({"sigv4"}, <<NowLit, NowLit, NowLit>>) EXCEPT !.pair = {"id"}], [Auth({"sigv4"}, <<NowLit, NowLit>>) EXCEPT !.pair = {"session"}],
  [Auth({"sigv4"}, <<NowLit, NowLit, NowLit, NowLit>>) EXCEPT !.pair = {"id", "secret"}],
  Auth({"multi_mode"}, << >>), [Auth({"multi_mode"}, << >>) EXCEPT !.branches = <<[when |-> Always(FALSE), auth |-> Auth({"none"}, << >>)]>>],
  [Auth({"multi_mode"}, << >>) EXCEPT !.branches = <<[when |-> Always(TRUE), auth |-> Auth({"multi_mode"}, << >>)]>>, !.default = <<Auth({"none"}, << >>)>>]
  }}

Blocks == {
  Base, [Base EXCEPT !.error = "warn"],
  [Base EXCEPT !.error = "warn", !.requests[1].url = Op("first", <<Ref(<<"state", "keep">>)>>)],
  [Base EXCEPT !.error = "warn", !.requests[3].url = RefOr(<<"it", "none">>, Op("min", <<Ref(<<"it", "ts">>)>>))],
  [Base EXCEPT !.error = "warn", !.requests[2].query = <<Blank>>], [Base EXCEPT !.error = "ignore"], [Base EXCEPT !.requests = << >>],
  [Base EXCEPT !.requests[1].id = "list"], [Base EXCEPT !.requests[1].producer = TRUE], [Base EXCEPT !.requests[2].producer = FALSE],
  [Base EXCEPT !.requests[2].method = "HEAD"], [Base EXCEPT !.requests[1].method = ""], [Base EXCEPT !.requests[3].fanOut.as = "state"],
  [Base EXCEPT !.requests[3].fanOut.as = "mark"], [Base EXCEPT !.requests[3].fanOut.as = "tok"], [Base EXCEPT !.requests[3].fanOut.merge = "flatten"],
  [Base EXCEPT !.requests[3].fanOut.merge = "zip"], [Base EXCEPT !.requests[3].cache = SlotCache(<<"cache", "slot">>, NowLit, "span")],
  [Base EXCEPT !.requests[1].cache = SlotCache(<<"cache", "slot">>, NowLit, "")], [Base EXCEPT !.requests[2].onStatus = <<[code |-> 429, action |-> "retry"]>>],
  [Base EXCEPT !.requests[2].onStatus = <<[code |-> 429, action |-> "skip"]>>], [Base EXCEPT !.requests[2].expect = <<200, 200>>],
  [Base EXCEPT !.requests[2].expect = <<99>>], [Base EXCEPT !.state["keep"].type = "text"], [Base EXCEPT !.state["keep"].type = "enum"],
  [Base EXCEPT !.state["keep"].format = TRUE], [Base EXCEPT !.requests[2].body = [variants |-> {"json", "raw"}, vals |-> <<NowLit>>]],
  [Base EXCEPT !.pagination.variants = {}], [Base EXCEPT !.pagination.variants = {"none"}], [Base EXCEPT !.pagination.variants = {"none", "counter"}],
  [Base EXCEPT !.pagination = [Pagination({"next_url"}, <<"response", "header", "H">>, Page) EXCEPT !.regex = "all", !.capture = -1]],
  [Base EXCEPT !.pagination = [Pagination({"custom"}, << >>, << >>) EXCEPT !.terminate = Always(FALSE)]],
  [Base EXCEPT !.progress = <<Entry(Mark, Ref(<<"state", "session">>)), [Entry(<<"state", "session">>, Ref(Mark)) EXCEPT !.coerce = "int"]>>],
  [Base EXCEPT !.requests[3].producer = TRUE, !.requests[2].producer = FALSE, !.requests[3].eventsAt = << >>],
  [Base EXCEPT !.requests[1].extract[2].regex = "number", !.requests[1].extract[2].coerce = "int"],
  [Base EXCEPT !.requests[1].extract[1].regex = "(", !.error = "warn"], [Base EXCEPT !.requests[1].extract[2].coerce = "layout"],
  [Base EXCEPT !.progress = <<[Entry(Mark, Ref(<<"events", "last", "ts">>)) EXCEPT !.coerce = "layout"]>>],
  [Base EXCEPT !.pagination = [Pagination({"next_url"}, <<"response", "body", "next">>, Page) EXCEPT !.regex = "number", !.capture = 1]],
  [Base EXCEPT !.state["page"].default = Ref(<<"state", "keep">>)] }

MCDocuments ==
  Blocks \cup Chains \cup AuthBlocks
    \cup UNION {RefSites(p) : p \in RefPaths} \cup UNION {ToSites(p) : p \in ToPaths}
    \cup UNION {ValueSites(v) : v \in Vals} \cup UNION {PredicateSites(p) : p \in Preds}
-----------------------------------------------------------------------------
Pair(key, v) == Value("pair", key, 0, <<v>>)
Event(n) == Map(<<Pair("ts", Text("stamp", n)), Pair("id", Float(2 * n))>>)
MCResponses ==
  {[body |-> Map(<<Pair("items", List(<<Event(1), Event(2)>>)), Pair("next", Text("digits", 9))>>),
    headers |-> ("H" :> Text("digits", 5))],
   [body |-> Map(<< >>), headers |-> NothingBound],
   [body |-> List(<<Map(<<Pair("items", List(<<Event(1)>>))>>), Map(<<Pair("items", Nil)>>), Map(<< >>)>>), headers |-> NothingBound]}
MCTokens == {Map(<<Pair("expires_in", Float(8))>>), Map(<<Pair("expires_in", Text("word", 6))>>)}
=============================================================================
