---------------------------- MODULE PagingProofs ----------------------------
(***************************************************************************)
(* Proofs about the pagination variants, for any page sizes, collection,   *)
(* page cap, number of drains and ways in which a page may fail.           *)
(***************************************************************************)
EXTENDS Paging, TLAPS

(* A product is divided by its factor without a rest. *)
LEMMA ProductDivides ==
  ASSUME NEW k \in Int, NEW d \in Nat \ {0}
  PROVE  (k * d) \div d = k /\ (k * d) % d = 0
<1> DEFINE q == (k * d) \div d
           r == (k * d) % d
<1>1. q \in Int /\ r \in 0 .. d - 1 /\ k * d = d * q + r
  OBVIOUS
<1> HIDE DEF q, r
<1>2. CASE k > q
  BY <1>1, <1>2
<1>3. CASE k < q
  BY <1>1, <1>3
<1>4. q = k /\ r = 0
  BY <1>1, <1>2, <1>3
<1> QED
  BY <1>4 DEF q, r

Paged == {"page_number", "etag_conditional"}
Offsets == {"offset", "post_json_body"}

(* The templates whose terminate_when does not see that a page failed. *)
Restarting == {"scroll_id", "oauth2_relay"}

(* The kind of value that a template's pagination writes, the events that *)
(* it stands for, and the events on a full page.                           *)
Wire ==
  CASE tpl \in {"cursor_token", "custom", "oauth2_relay"} -> "page"
    [] tpl \in {"link_header", "next_url_in_body"} -> "url"
    [] tpl = "scroll_id" -> "scroll"
    [] OTHER -> "int"
Position(v) == IF v = Nil THEN 0 ELSE IF tpl \in Paged THEN (v.n - 1) * opts.serverPage ELSE v.n
Unit == IF tpl \in Offsets THEN opts.page ELSE opts.serverPage
Limit == IF tpl = "simple_get_object" THEN opts.perDrain ELSE Unit

Options ==
  /\ tpl \in TemplateNames /\ tpl \in Templates
  /\ opts \in [page : Nat \ {0}, serverPage : Nat \ {0}, perDrain : Nat \ {0}]
  /\ tpl = "simple_get_object" => opts.perDrain = 1

(* The field is unset or asks for a place inside of the collection; for   *)
(* the end of it only a counter can ask that has no terminate_when.        *)
Asking(v) ==
  \/ v = Nil
  \/ /\ tpl # "simple_get_object" /\ v = Val(Wire, v.n) /\ v.n \in Nat
     /\ (tpl \in Paged => v.n >= 2) /\ Position(v) \in 1 .. opts.perDrain
     /\ (tpl \notin Offsets => Position(v) < opts.perDrain)

Counters ==
  /\ pc \in {"idle", "page"} /\ pages \in 0 .. MaxPages /\ drains \in 0 .. MaxDrains
  /\ outcome \in {"none", "complete", "broke", "cap"} /\ clean \in BOOLEAN
  /\ got \in Seq(Nat \ {0}) /\ last \in Nat
  /\ prior \in [kind : Kinds, n : Nat]

(* The store has been filled a whole number of times, and once at least *)
(* when a field asks for more of it.                                     *)
Filled ==
  /\ \E k \in Nat : last = k * opts.perDrain
  /\ field # Nil => last >= opts.perDrain

(* Between two pages the drain has delivered what lies before the field's *)
(* place; a template that starts again after a failed page has delivered  *)
(* that much of the collection since, and nothing newer.                   *)
InStep ==
  pc = "page" =>
    /\ outcome = "none"
    /\ clean \/ tpl \notin Restarting =>
         /\ Len(got) = Position(field)
         /\ \A i \in 1 .. Len(got) : got[i] = last - opts.perDrain + i
    /\ clean => IF tpl = "simple_get_object" THEN pages = 0 ELSE pages * Unit = Position(field)
    /\ got # << >> => IF field = Nil THEN got[Len(got)] <= last
                      ELSE got[Len(got)] = last - opts.perDrain + Position(field)

IInv ==
  /\ Options /\ Asking(field) /\ Counters /\ Filled /\ InStep
  /\ Complete /\ PromptEnd /\ NothingSkipped /\ StagedWrites
-----------------------------------------------------------------------------
(* The parts of what a handler answers, and of a value. *)
LEMMA Parts ==
  /\ \A fresh, offset, limit, next, more :
       /\ Answer(fresh, offset, limit, next, more).fresh = fresh
       /\ Answer(fresh, offset, limit, next, more).offset = offset
       /\ Answer(fresh, offset, limit, next, more).limit = limit
       /\ Answer(fresh, offset, limit, next, more).next = next
       /\ Answer(fresh, offset, limit, next, more).more = more
  /\ \A kind, n : Val(kind, n).kind = kind /\ Val(kind, n).n = n
  /\ Nil.kind = "nil" /\ Nil.n = 0 /\ Blank.kind = "blank" /\ Blank.n = 0
  /\ \A b \in BOOLEAN : Bool(b).kind = IF b THEN "true" ELSE "false"
  /\ Nil \in [kind : Kinds, n : Nat]
BY DEF Answer, Val, Nil, Blank, Bool, Kinds

(* What the field asks for, by the kind of template. *)
LEMMA AskingParts ==
  ASSUME Options, NEW v, Asking(v)
  PROVE  /\ Position(v) \in 0 .. opts.perDrain
         /\ v # Nil => /\ tpl # "simple_get_object" /\ v.kind = Wire /\ v.n \in Nat \ {0}
                       /\ Position(v) = (IF tpl \in Paged THEN (v.n - 1) * opts.serverPage ELSE v.n)
                       /\ (tpl \in Paged => v.n >= 2) /\ Position(v) >= 1
                       /\ (tpl \notin Offsets => Position(v) < opts.perDrain)
         /\ v = Nil => Position(v) = 0
         /\ v \in [kind : Kinds, n : Nat]
<1>1. opts.perDrain \in Nat \ {0} /\ opts.serverPage \in Nat \ {0}
  BY DEF Options
<1>2. CASE v = Nil
  BY <1>1, <1>2, Parts DEF Position
<1>3. CASE v # Nil
  <2>1. /\ tpl # "simple_get_object" /\ v = Val(Wire, v.n) /\ v.n \in Nat
        /\ (tpl \in Paged => v.n >= 2) /\ Position(v) \in 1 .. opts.perDrain
        /\ (tpl \notin Offsets => Position(v) < opts.perDrain)
    BY <1>3 DEF Asking
  <2>2. v.kind = Wire /\ Wire \in Kinds
    BY <2>1, Parts DEF Wire, Kinds
  <2>3. Position(v) = IF tpl \in Paged THEN (v.n - 1) * opts.serverPage ELSE v.n
    BY <1>3 DEF Position
  <2>4. v.n \in Nat \ {0}
    <3>1. CASE tpl \in Paged
      BY <2>1, <3>1
    <3>2. CASE tpl \notin Paged
      BY <1>1, <2>1, <2>3, <3>2
    <3> QED
      BY <3>1, <3>2
  <2>5. v \in [kind : Kinds, n : Nat]
    BY <2>1, <2>2 DEF Val
  <2> QED
    BY <1>1, <1>3, <2>1, <2>2, <2>3, <2>4, <2>5
<1> QED
  BY <1>2, <1>3

(* The request that a template makes of its field is answered with the     *)
(* field's place in the collection, filled anew for an unset field only,   *)
(* and with a continuation while there is more.                             *)
Beyond == Position(field) + opts.serverPage
Further == Beyond < opts.perDrain
Serves(ans) ==
  /\ ans.fresh <=> field = Nil
  /\ ans.offset = Position(field) /\ ans.limit = Limit
  /\ tpl \in {"cursor_token", "custom"} => ans.next = IF Further THEN Val("page", Beyond) ELSE Nil
  /\ tpl = "link_header" => ans.next = IF Further THEN Val("link", Beyond) ELSE Nil
  /\ tpl = "next_url_in_body" => ans.next = IF Further THEN Val("url", Beyond) ELSE Nil
  /\ tpl = "scroll_id" => ans.more = Val(IF Further THEN "false" ELSE "true", 0) /\ (Further => ans.next = Val("scroll", Beyond))
  /\ tpl = "oauth2_relay" => ans.more = Val(IF Further THEN "true" ELSE "false", 0) /\ (Further => ans.next = Val("page", Beyond))
  /\ tpl \in Paged => ans.more = IF Further THEN Val("true", 0) ELSE Nil

LEMMA Served ==
  ASSUME Options, Asking(field)
  PROVE  Serves(Server(Param))
<1> DEFINE ans  == Server(Param)
           at == Position(field)
<1>1. /\ opts.page \in Nat \ {0} /\ opts.perDrain \in Nat \ {0} /\ opts.serverPage \in Nat \ {0} /\ at \in Nat
      /\ field # Nil => /\ tpl # "simple_get_object" /\ field.kind = Wire /\ field.n \in Nat \ {0}
                        /\ at = (IF tpl \in Paged THEN (field.n - 1) * opts.serverPage ELSE field.n)
                        /\ (tpl \in Paged => field.n >= 2)
      /\ field = Nil => at = 0
  BY AskingParts DEF Options
<1>2. /\ at = Position(field) /\ at + opts.serverPage = Beyond /\ HasNext(at) = Further
      /\ ans = Server(Param)
  BY DEF HasNext, StoreLen, Beyond, Further
<1>3. tpl \in TemplateNames
  BY DEF Options
<1> HIDE DEF at, ans
<1>4. CASE tpl \in {"cursor_token", "custom"}
  <2> DEFINE fresh == IsDrainStart("cursor", Param)
  <2>1. Param = (IF field = Nil THEN Blank ELSE field) /\ ans = CursorTokenServer(Param)
    BY <1>4, <1>2 DEF Param, Server
  <2>2. Wire = "page" /\ tpl \notin Paged /\ Limit = opts.serverPage
    BY <1>4 DEF Wire, Paged, Limit, Unit, Offsets
  <2>3. Decode("page", Param) = at
    BY <1>1, <2>1, <2>2, Parts DEF Decode
  <2>4. fresh <=> field = Nil
    BY <1>1, <2>1, <2>2, Parts DEF IsDrainStart
  <2>5. ans = Answer(fresh, at, opts.serverPage, IF HasNext(at) THEN Val("page", at + opts.serverPage) ELSE Nil, Nil)
    BY <2>1, <2>3 DEF CursorTokenServer
  <2> HIDE DEF fresh
  <2>6. (ans.fresh <=> field = Nil) /\ ans.offset = Position(field) /\ ans.limit = Limit
    BY <1>2, <2>2, <2>4, <2>5, Parts
  <2>7. ans.next = IF Further THEN Val("page", Beyond) ELSE Nil
    BY <1>2, <2>5, Parts DEF Bool
  <2> QED
    BY <1>4, <1>2, <2>6, <2>7 DEF Serves, Paged
<1>5. CASE tpl = "link_header"
  <2> DEFINE fresh == IsDrainStart("cursor", Param)
  <2>1. Param = field /\ ans = LinkHeaderServer(Param)
    BY <1>5, <1>2 DEF Param, Server
  <2>2. Wire = "url" /\ tpl \notin Paged /\ Limit = opts.serverPage
    BY <1>5 DEF Wire, Paged, Limit, Unit, Offsets
  <2>3. Decode("url", Param) = at
    BY <1>1, <2>1, <2>2, Parts DEF Decode
  <2>4. fresh <=> field = Nil
    BY <1>1, <2>1, <2>2, Parts DEF IsDrainStart
  <2>5. ans = Answer(fresh, at, opts.serverPage, IF HasNext(at) THEN Val("link", at + opts.serverPage) ELSE Nil, Nil)
    BY <2>1, <2>3 DEF LinkHeaderServer
  <2> HIDE DEF fresh
  <2>6. (ans.fresh <=> field = Nil) /\ ans.offset = Position(field) /\ ans.limit = Limit
    BY <1>2, <2>2, <2>4, <2>5, Parts
  <2>7. ans.next = IF Further THEN Val("link", Beyond) ELSE Nil
    BY <1>2, <2>5, Parts DEF Bool
  <2> QED
    BY <1>5, <1>2, <2>6, <2>7 DEF Serves, Paged
<1>6. CASE tpl = "next_url_in_body"
  <2> DEFINE fresh == IsDrainStart("cursor", Param)
  <2>1. Param = field /\ ans = NextURLInBodyServer(Param)
    BY <1>6, <1>2 DEF Param, Server
  <2>2. Wire = "url" /\ tpl \notin Paged /\ Limit = opts.serverPage
    BY <1>6 DEF Wire, Paged, Limit, Unit, Offsets
  <2>3. Decode("url", Param) = at
    BY <1>1, <2>1, <2>2, Parts DEF Decode
  <2>4. fresh <=> field = Nil
    BY <1>1, <2>1, <2>2, Parts DEF IsDrainStart
  <2>5. ans = Answer(fresh, at, opts.serverPage, IF HasNext(at) THEN Val("url", at + opts.serverPage) ELSE Nil, Nil)
    BY <2>1, <2>3 DEF NextURLInBodyServer
  <2> HIDE DEF fresh
  <2>6. (ans.fresh <=> field = Nil) /\ ans.offset = Position(field) /\ ans.limit = Limit
    BY <1>2, <2>2, <2>4, <2>5, Parts
  <2>7. ans.next = IF Further THEN Val("url", Beyond) ELSE Nil
    BY <1>2, <2>5, Parts DEF Bool
  <2> QED
    BY <1>6, <1>2, <2>6, <2>7 DEF Serves, Paged
<1>7. CASE tpl = "scroll_id"
  <2> DEFINE fresh == Param \in {Nil, Blank}
  <2>1. Param = field /\ ans = ScrollIDServer(Param)
    BY <1>7, <1>2 DEF Param, Server
  <2>2. Wire = "scroll" /\ tpl \notin Paged /\ Limit = opts.serverPage
    BY <1>7 DEF Wire, Paged, Limit, Unit, Offsets
  <2>3. Decode("scroll", Param) = at
    BY <1>1, <2>1, <2>2, Parts DEF Decode
  <2>4. fresh <=> field = Nil
    BY <1>1, <2>1, <2>2, Parts DEF IsDrainStart
  <2>5. ans = Answer(fresh, at, opts.serverPage,
                      IF HasNext(at) THEN Val("scroll", at + opts.serverPage) ELSE IF Param = Nil THEN Blank ELSE Param,
                      Bool(~HasNext(at)))
    BY <2>1, <2>3 DEF ScrollIDServer
  <2> HIDE DEF fresh
  <2>6. (ans.fresh <=> field = Nil) /\ ans.offset = Position(field) /\ ans.limit = Limit
    BY <1>2, <2>2, <2>4, <2>5, Parts
  <2>7. ans.more = Val(IF Further THEN "false" ELSE "true", 0) /\ (Further => ans.next = Val("scroll", Beyond))
    BY <1>2, <2>5, Parts DEF Bool
  <2> QED
    BY <1>7, <1>2, <2>6, <2>7 DEF Serves, Paged
<1>8. CASE tpl = "oauth2_relay"
  <2> DEFINE fresh == Param \in {Nil, Blank}
  <2>1. Param = field /\ ans = OAuth2RelayServer(Param)
    BY <1>8, <1>2 DEF Param, Server
  <2>2. Wire = "page" /\ tpl \notin Paged /\ Limit = opts.serverPage
    BY <1>8 DEF Wire, Paged, Limit, Unit, Offsets
  <2>3. Decode("page", Param) = at
    BY <1>1, <2>1, <2>2, Parts DEF Decode
  <2>4. fresh <=> field = Nil
    BY <1>1, <2>1, <2>2, Parts DEF IsDrainStart
  <2>5. ans = Answer(fresh, at, opts.serverPage,
                      IF HasNext(at) THEN Val("page", at + opts.serverPage) ELSE Blank, Bool(HasNext(at)))
    BY <2>1, <2>3 DEF OAuth2RelayServer
  <2> HIDE DEF fresh
  <2>6. (ans.fresh <=> field = Nil) /\ ans.offset = Position(field) /\ ans.limit = Limit
    BY <1>2, <2>2, <2>4, <2>5, Parts
  <2>7. ans.more = Val(IF Further THEN "true" ELSE "false", 0) /\ (Further => ans.next = Val("page", Beyond))
    BY <1>2, <2>5, Parts DEF Bool
  <2> QED
    BY <1>8, <1>2, <2>6, <2>7 DEF Serves, Paged
<1>9. CASE tpl = "page_number"
  <2> DEFINE fresh == IsDrainStart("page", Param)
  <2>1. Param = (IF field = Nil THEN Val("int", 1) ELSE field) /\ ans = PageNumberServer(Param)
    BY <1>9, <1>2 DEF Param, Server
  <2>2. Wire = "int" /\ tpl \in Paged /\ Limit = opts.serverPage
    BY <1>9 DEF Wire, Paged, Limit, Unit, Offsets
  <2>3. Param.kind = "int" /\ Param.n > 0 /\ (Param.n - 1) * opts.serverPage = at
    <3>1. CASE field = Nil
      <4>1. Param.kind = "int" /\ Param.n = 1 /\ 0 * opts.serverPage = 0
        BY <1>1, <2>1, <3>1, Parts
      <4> QED
        BY <1>1, <3>1, <4>1
    <3>2. CASE field # Nil
      BY <1>1, <2>1, <2>2, <3>2
    <3> QED
      BY <3>1, <3>2
  <2>4. fresh <=> field = Nil
    <3>1. Param = Nil \/ Param = Blank \/ Param = Val("int", 1) <=> field = Nil
      BY <1>1, <2>1, <2>2, Parts
    <3> QED
      BY <3>1 DEF IsDrainStart
  <2>5. ans = Answer(fresh, at, opts.serverPage, Nil,
                      IF HasNext(at) THEN Val("true", 0) ELSE Nil)
    BY <2>1, <2>3 DEF PageNumberServer, Bool
  <2> HIDE DEF fresh
  <2>6. (ans.fresh <=> field = Nil) /\ ans.offset = Position(field) /\ ans.limit = Limit
    BY <1>2, <2>2, <2>4, <2>5, Parts
  <2>7. ans.more = IF Further THEN Val("true", 0) ELSE Nil
    BY <1>2, <2>5, Parts
  <2> QED
    BY <1>9, <1>2, <2>6, <2>7 DEF Serves, Paged
<1>10. CASE tpl = "etag_conditional"
  <2> DEFINE fresh == IsDrainStart("page", Param)
  <2>1. Param = (IF field = Nil THEN Val("int", 1) ELSE field) /\ ans = EtagConditionalServer(Param)
    BY <1>10, <1>2 DEF Param, Server
  <2>2. Wire = "int" /\ tpl \in Paged /\ Limit = opts.serverPage
    BY <1>10 DEF Wire, Paged, Limit, Unit, Offsets
  <2>3. Param.kind = "int" /\ Param.n > 0 /\ (Param.n - 1) * opts.serverPage = at
    <3>1. CASE field = Nil
      <4>1. Param.kind = "int" /\ Param.n = 1 /\ 0 * opts.serverPage = 0
        BY <1>1, <2>1, <3>1, Parts
      <4> QED
        BY <1>1, <3>1, <4>1
    <3>2. CASE field # Nil
      BY <1>1, <2>1, <2>2, <3>2
    <3> QED
      BY <3>1, <3>2
  <2>4. fresh <=> field = Nil
    <3>1. Param = Nil \/ Param = Blank \/ Param = Val("int", 1) <=> field = Nil
      BY <1>1, <2>1, <2>2, Parts
    <3> QED
      BY <3>1 DEF IsDrainStart
  <2>5. ans = Answer(fresh, at, opts.serverPage, Nil,
                      IF HasNext(at) THEN Val("true", 0) ELSE Nil)
    BY <2>1, <2>3 DEF EtagConditionalServer, Bool
  <2> HIDE DEF fresh
  <2>6. (ans.fresh <=> field = Nil) /\ ans.offset = Position(field) /\ ans.limit = Limit
    BY <1>2, <2>2, <2>4, <2>5, Parts
  <2>7. ans.more = IF Further THEN Val("true", 0) ELSE Nil
    BY <1>2, <2>5, Parts
  <2> QED
    BY <1>10, <1>2, <2>6, <2>7 DEF Serves, Paged
<1>11. CASE tpl = "offset"
  <2> DEFINE fresh == IsDrainStart("offset", Param)
  <2>1. Param = (IF field = Nil THEN Val("int", 0) ELSE field) /\ ans = OffsetServer(Param)
    BY <1>11, <1>2 DEF Param, Server
  <2>2. Wire = "int" /\ tpl \notin Paged /\ Limit = opts.page
    BY <1>11 DEF Wire, Paged, Limit, Unit, Offsets
  <2>3. Param.n = at
    BY <1>1, <2>1, <2>2, Parts
  <2>4. fresh <=> field = Nil
    BY <1>1, <2>1, <2>2, Parts DEF IsDrainStart
  <2>5. ans = Answer(fresh, at, opts.page, Nil, Nil)
    BY <2>1, <2>3 DEF OffsetServer
  <2> HIDE DEF fresh
  <2>6. (ans.fresh <=> field = Nil) /\ ans.offset = Position(field) /\ ans.limit = Limit
    BY <1>2, <2>2, <2>4, <2>5, Parts
  <2> QED
    BY <1>11, <1>2, <2>6 DEF Serves, Paged
<1>12. CASE tpl = "post_json_body"
  <2> DEFINE fresh == Param.n = 0
  <2>1. Param = (IF field = Nil THEN Val("int", 0) ELSE field) /\ ans = PostJSONBodyServer(Param)
    BY <1>12, <1>2 DEF Param, Server
  <2>2. Wire = "int" /\ tpl \notin Paged /\ Limit = opts.page
    BY <1>12 DEF Wire, Paged, Limit, Unit, Offsets
  <2>3. Param.n = at
    BY <1>1, <2>1, <2>2, Parts
  <2>4. fresh <=> field = Nil
    BY <1>1, <2>1, <2>2, Parts DEF IsDrainStart
  <2>5. ans = Answer(fresh, at, opts.page, Nil, Nil)
    BY <2>1, <2>3 DEF PostJSONBodyServer
  <2> HIDE DEF fresh
  <2>6. (ans.fresh <=> field = Nil) /\ ans.offset = Position(field) /\ ans.limit = Limit
    BY <1>2, <2>2, <2>4, <2>5, Parts
  <2> QED
    BY <1>12, <1>2, <2>6 DEF Serves, Paged
<1>13. CASE tpl = "simple_get_object"
  <2>1. ans = Answer(TRUE, 0, opts.perDrain, Nil, Nil) /\ Limit = opts.perDrain /\ tpl \notin Paged
    BY <1>13, <1>2 DEF Server, SimpleGetObjectServer, Limit, Paged
  <2>2. field = Nil /\ at = 0
    BY <1>1, <1>13
  <2>3. ans.fresh
    BY <2>1 DEF Answer
  <2>4. ans.offset = 0 /\ ans.limit = opts.perDrain
    BY <2>1 DEF Answer
  <2> QED
    BY <1>13, <1>2, <2>1, <2>2, <2>3, <2>4 DEF Serves
<1> QED
  BY <1>2, <1>3, <1>4, <1>5, <1>6, <1>7, <1>8, <1>9, <1>10, <1>11, <1>12, <1>13 DEF TemplateNames
-----------------------------------------------------------------------------
(* What pagination makes of a page.                                        *)

(* The loop ends at the end of the collection, or the field asks for the    *)
(* place where the page ended.                                               *)
Moved(next) ==
  IF next.done THEN next.field = field /\ next.prior = prior /\ Position(field) + Limit >= opts.perDrain
  ELSE /\ tpl # "simple_get_object" /\ next.field # Nil /\ Asking(next.field)
       /\ Position(next.field) = Position(field) + Unit
       /\ next.prior = IF tpl = "custom" THEN field ELSE prior

LEMMA StopMoves ==
  ASSUME Position(field) + Limit >= opts.perDrain
  PROVE  Moved(Stop)
<1>1. Stop.done
  BY DEF Stop
<1>2. Stop.field = field /\ Stop.prior = prior
  BY DEF Stop
<1> QED
  BY <1>1, <1>2 DEF Moved

LEMMA WriteMoves ==
  ASSUME Options, Asking(field), tpl # "simple_get_object", NEW v, v = Val(Wire, v.n), v.n \in Nat,
         tpl \in Paged => v.n >= 2, v.n \in Nat \ {0}, Position(v) = Position(field) + Unit,
         Position(field) + Unit <= opts.perDrain, tpl \in Offsets \/ Position(field) + Unit < opts.perDrain, NEW next, ~next.done, next.field = v,
         next.prior = IF tpl = "custom" THEN field ELSE prior
  PROVE  Moved(next)
<1>1. opts.page \in Nat \ {0} /\ opts.serverPage \in Nat \ {0} /\ opts.perDrain \in Nat \ {0}
  BY DEF Options
<1>2. Unit \in Nat \ {0} /\ Position(field) \in Nat
  BY <1>1, AskingParts DEF Unit
<1>3. v # Nil
  <2>1. Nil.n = 0
    BY Parts
  <2> QED
    BY <2>1
<1>4. Position(v) \in 1 .. opts.perDrain
  BY <1>1, <1>2
<1>5. Asking(v)
  BY <1>4 DEF Asking
<1> QED
  BY <1>3, <1>5 DEF Moved

(* The place beyond a page that is not the last, for a continuation. *)
LEMMA BeyondMoves ==
  ASSUME Options, Asking(field), tpl # "simple_get_object", tpl \notin Paged, tpl \notin Offsets, Further,
         NEW next, ~next.done, next.field = Val(Wire, Beyond),
         next.prior = IF tpl = "custom" THEN field ELSE prior
  PROVE  Moved(next)
<1> DEFINE v == Val(Wire, Beyond)
<1>1. opts.serverPage \in Nat \ {0} /\ opts.perDrain \in Nat \ {0} /\ Position(field) \in Nat
  BY AskingParts DEF Options
<1>2. Unit = opts.serverPage /\ Beyond \in Nat \ {0} /\ Beyond < opts.perDrain /\ Beyond = Position(field) + Unit
      /\ Position(field) + Unit <= opts.perDrain /\ Position(field) + Unit < opts.perDrain
  BY <1>1 DEF Unit, Beyond, Further
<1>3. v.n = Beyond
  BY Parts
<1>4. Position(v) = Beyond
  <2>1. v # Nil
    BY <1>2, <1>3, Parts
  <2> QED
    BY <1>3, <2>1 DEF Position
<1> QED
  BY <1>2, <1>3, <1>4, WriteMoves

LEMMA PageMoves ==
  ASSUME Options, Asking(field), NEW ans, Serves(ans), NEW count \in Nat,
         count = IF Position(field) >= opts.perDrain THEN 0
                 ELSE IF Position(field) + Limit < opts.perDrain THEN Limit ELSE opts.perDrain - Position(field)
  PROVE  Moved(Advance([count |-> count, next |-> ans.next, more |-> ans.more]))
<1> DEFINE resp == [count |-> count, next |-> ans.next, more |-> ans.more]
<1> SUFFICES Moved(Advance(resp))
  OBVIOUS
<1>1. resp.count = count /\ resp.next = ans.next /\ resp.more = ans.more
  OBVIOUS
<1> HIDE DEF resp
<1>2. /\ opts.page \in Nat \ {0} /\ opts.serverPage \in Nat \ {0} /\ opts.perDrain \in Nat \ {0}
      /\ Position(field) \in 0 .. opts.perDrain /\ tpl \in TemplateNames
  BY AskingParts DEF Options
<1>3. ASSUME NEW v
      PROVE  (Write(v).done <=> FALSE) /\ Write(v).field = v /\ Write(v).prior = prior
  <2>1. ~Write(v).done
    BY DEF Write
  <2>2. Write(v).field = v /\ Write(v).prior = prior
    BY DEF Write
  <2> QED
    BY <2>1, <2>2
<1>4. ~Further /\ Limit = opts.serverPage => Moved(Stop)
  <2> SUFFICES ASSUME ~Further, Limit = opts.serverPage
               PROVE  Position(field) + Limit >= opts.perDrain
    BY StopMoves
  <2> QED
    BY <1>2 DEF Further, Beyond
<1>5. ~IsZero(Val("page", Beyond)) /\ ~IsZero(Val("url", Beyond)) /\ IsZero(Nil)
  BY Parts DEF IsZero
<1>6. CASE tpl \in {"cursor_token", "scroll_id", "oauth2_relay"}
  <2>1. Limit = opts.serverPage /\ tpl \notin Paged /\ tpl \notin Offsets /\ tpl # "simple_get_object"
        /\ tpl # "custom"
    BY <1>6 DEF Limit, Unit, Offsets, Paged
  <2>2. Advance(resp) = CursorTokenAdvance(resp)
    BY <1>6 DEF Advance
  <2>3. CASE Further
    <3>1. ~(IF HasTerminateWhen THEN TerminateWhen(resp) ELSE IsZero(resp.next)) /\ resp.next = Val(Wire, Beyond)
      <4>1. CASE tpl = "cursor_token"
        BY <1>1, <1>5, <2>3, <4>1 DEF Serves, HasTerminateWhen, Wire
      <4>2. CASE tpl = "scroll_id"
        BY <1>1, <2>3, <4>2, Parts DEF Serves, HasTerminateWhen, TerminateWhen, Wire, Bool
      <4>3. CASE tpl = "oauth2_relay"
        BY <1>1, <2>3, <4>3, Parts DEF Serves, HasTerminateWhen, TerminateWhen, Wire, Bool
      <4> QED
        BY <1>6, <4>1, <4>2, <4>3
    <3>2. Advance(resp) = Write(Val(Wire, Beyond))
      BY <2>2, <3>1 DEF CursorTokenAdvance
    <3> QED
      BY <1>3, <2>1, <2>3, <3>2, BeyondMoves
  <2>4. CASE ~Further
    <3>1. IF HasTerminateWhen THEN TerminateWhen(resp) ELSE IsZero(resp.next)
      <4>1. CASE tpl = "cursor_token"
        BY <1>1, <1>5, <2>4, <4>1 DEF Serves, HasTerminateWhen
      <4>2. CASE tpl = "scroll_id"
        BY <1>1, <2>4, <4>2 DEF Serves, HasTerminateWhen, TerminateWhen, Bool
      <4>3. CASE tpl = "oauth2_relay"
        BY <1>1, <2>4, <4>3 DEF Serves, HasTerminateWhen, TerminateWhen, Bool
      <4> QED
        BY <1>6, <4>1, <4>2, <4>3
    <3>2. Advance(resp) = Stop
      BY <2>2, <3>1 DEF CursorTokenAdvance
    <3> QED
      BY <1>4, <2>1, <2>4, <3>2
  <2> QED
    BY <2>3, <2>4
<1>7. CASE tpl \in {"link_header", "next_url_in_body"}
  <2>1. Limit = opts.serverPage /\ tpl \notin Paged /\ tpl \notin Offsets /\ tpl # "simple_get_object"
        /\ tpl # "custom" /\ Wire = "url"
    BY <1>7 DEF Limit, Unit, Offsets, Paged, Wire
  <2>2. Advance(resp) = NextURLAdvance(resp) /\ ~HasTerminateWhen
    BY <1>7 DEF Advance, HasTerminateWhen
  <2>3. Matched(resp.next) = IF Further THEN Val("url", Beyond) ELSE Nil
    <3>1. CASE tpl = "link_header"
      BY <1>1, <3>1, Parts DEF Serves, Matched
    <3>2. CASE tpl = "next_url_in_body"
      BY <1>1, <3>2 DEF Serves, Matched
    <3> QED
      BY <1>7, <3>1, <3>2
  <2>4. CASE Further
    <3>1. Advance(resp) = Write(Val("url", Beyond))
      BY <1>5, <2>2, <2>3, <2>4 DEF NextURLAdvance
    <3> QED
      BY <1>3, <2>1, <2>4, <3>1, BeyondMoves
  <2>5. CASE ~Further
    <3>1. Advance(resp) = Stop
      BY <1>5, <2>2, <2>3, <2>5 DEF NextURLAdvance
    <3> QED
      BY <1>4, <2>1, <2>5, <3>1
  <2> QED
    BY <2>4, <2>5
<1>8. CASE tpl = "custom"
  <2>1. Limit = opts.serverPage /\ tpl \notin Paged /\ tpl \notin Offsets /\ tpl # "simple_get_object"
        /\ Wire = "page"
    BY <1>8 DEF Limit, Unit, Offsets, Paged, Wire
  <2>2. Advance(resp) = CustomAdvance(resp)
    BY <1>8 DEF Advance
  <2>3. resp.next = IF Further THEN Val("page", Beyond) ELSE Nil
    BY <1>1, <1>8 DEF Serves
  <2>4. CASE Further
    <3>1. Advance(resp) = [done |-> FALSE, field |-> Val("page", Beyond), prior |-> field]
      BY <1>5, <2>2, <2>3, <2>4 DEF CustomAdvance
    <3>2. ~Advance(resp).done
      BY <3>1
    <3>3. Advance(resp).field = Val("page", Beyond) /\ Advance(resp).prior = field
      BY <3>1
    <3> QED
      BY <1>8, <2>1, <2>4, <3>2, <3>3, BeyondMoves
  <2>5. CASE ~Further
    <3>1. Advance(resp) = Stop
      BY <1>5, <2>2, <2>3, <2>5 DEF CustomAdvance
    <3> QED
      BY <1>4, <2>1, <2>5, <3>1
  <2> QED
    BY <2>4, <2>5
<1>9. CASE tpl = "simple_get_object"
  <2>1. Advance(resp) = Stop /\ Limit = opts.perDrain
    BY <1>9 DEF Advance, NoneAdvance, Limit
  <2> QED
    BY <1>2, <2>1, StopMoves
<1>10. CASE tpl \in Paged
  <2> DEFINE v == Val("int", (IF field = Nil THEN Start ELSE field.n) + Step)
  <2>1. Limit = opts.serverPage /\ Unit = opts.serverPage /\ tpl \notin Offsets /\ tpl # "simple_get_object"
        /\ tpl # "custom" /\ Wire = "int" /\ Start = 1 /\ Step = 1
    BY <1>10 DEF Limit, Unit, Offsets, Paged, Wire, Start, Step
  <2>2. Advance(resp) = IF resp.more = Nil THEN Stop ELSE Write(v)
    <3>1. Advance(resp) = CounterAdvance(resp)
      BY <1>10 DEF Advance, Paged
    <3>2. HasTerminateWhen /\ (TerminateWhen(resp) <=> resp.more = Nil)
      BY <1>10 DEF HasTerminateWhen, TerminateWhen, Paged
    <3> QED
      BY <3>1, <3>2 DEF CounterAdvance
  <2>3. resp.more = IF Further THEN Val("true", 0) ELSE Nil
    BY <1>1, <1>10 DEF Serves
  <2>4. CASE Further
    <3>1. Advance(resp) = Write(v)
      BY <2>2, <2>3, <2>4, Parts
    <3>2. v.n \in Nat \ {0} /\ v.n >= 2 /\ (v.n - 1) * opts.serverPage = Position(field) + Unit
      <4>1. CASE field = Nil
        <5>1. v.n = 2 /\ Position(field) = 0
          BY <2>1, <4>1, Parts DEF Position
        <5> QED
          BY <1>2, <2>1, <5>1
      <4>2. CASE field # Nil
        <5>1. PICK n \in Nat : n = field.n
          BY <4>2, AskingParts
        <5>2. v.n = n + 1 /\ n >= 2 /\ Position(field) = (n - 1) * opts.serverPage
          BY <1>10, <2>1, <4>2, <5>1, AskingParts, Parts
        <5>3. ((n + 1) - 1) * opts.serverPage = (n - 1) * opts.serverPage + opts.serverPage
          BY <1>2, <5>1
        <5> QED
          BY <2>1, <5>2, <5>3
      <4> QED
        BY <4>1, <4>2
    <3>3. Position(v) = Position(field) + Unit
      <4>1. v # Nil
        BY Parts
      <4> QED
        BY <1>10, <3>2, <4>1 DEF Position
    <3>4. v = Val(Wire, v.n)
      BY <2>1, Parts
    <3>5. Position(field) + Unit <= opts.perDrain /\ Position(field) + Unit < opts.perDrain
      BY <1>2, <2>1, <2>4 DEF Further, Beyond
    <3> HIDE DEF v
    <3> QED
      BY <1>3, <2>1, <3>1, <3>2, <3>3, <3>4, <3>5, WriteMoves
  <2>5. CASE ~Further
    <3>1. Advance(resp) = Stop
      BY <2>2, <2>3, <2>5
    <3> QED
      BY <1>4, <2>1, <2>5, <3>1
  <2> QED
    BY <2>4, <2>5
<1>11. CASE tpl \in Offsets
  <2> DEFINE v == Val("int", (IF field = Nil THEN Start ELSE field.n) + Step)
  <2>1. Limit = opts.page /\ Unit = opts.page /\ tpl \notin Paged /\ tpl # "simple_get_object"
        /\ tpl # "custom" /\ Wire = "int" /\ Start = 0 /\ Step = opts.page
    BY <1>11 DEF Limit, Unit, Offsets, Paged, Wire, Start, Step
  <2>2. Advance(resp) = IF count < opts.page THEN Stop ELSE Write(v)
    <3>1. Advance(resp) = CounterAdvance(resp) /\ ~HasTerminateWhen
      BY <1>11 DEF Advance, Offsets, HasTerminateWhen
    <3> QED
      BY <1>1, <2>1, <3>1 DEF CounterAdvance
  <2>3. CASE count < opts.page
    <3>1. Position(field) + Limit >= opts.perDrain
      BY <1>2, <2>1, <2>3
    <3> QED
      BY <2>2, <2>3, <3>1, StopMoves
  <2>4. CASE ~(count < opts.page)
    <3>1. Position(field) + Unit <= opts.perDrain
      BY <1>2, <2>1, <2>4
    <3>2. v.n = Position(field) + Unit
      BY <2>1, AskingParts, Parts
    <3>3. v.n \in Nat \ {0}
      BY <1>2, <2>1, <3>2
    <3>4. v = Val(Wire, v.n) /\ Position(v) = v.n
      <4>1. v # Nil
        BY <3>3, Parts
      <4> QED
        BY <2>1, <4>1, Parts DEF Position
    <3> HIDE DEF v
    <3> QED
      BY <1>3, <1>11, <2>1, <2>2, <2>4, <3>1, <3>2, <3>3, <3>4, WriteMoves
  <2> QED
    BY <2>3, <2>4
<1> QED
  BY <1>2, <1>6, <1>7, <1>8, <1>9, <1>10, <1>11 DEF TemplateNames, Paged, Offsets

(* Without a response the loop ends, or the field is unset. *)
LEMMA FailedMoves ==
  ASSUME Options
  PROVE  LET next == Advance([count |-> 0, next |-> Nil, more |-> Nil]) IN
         /\ next.prior = prior
         /\ IF next.done THEN next.field = field ELSE tpl \in Restarting /\ next.field = Nil
<1> DEFINE resp == [count |-> 0, next |-> Nil, more |-> Nil]
<1>1. resp.count = 0 /\ resp.next = Nil /\ resp.more = Nil
  OBVIOUS
<1> HIDE DEF resp
<1>2. tpl \in TemplateNames /\ opts.page \in Nat \ {0}
  BY DEF Options
<1>3. Stop.done
  BY DEF Stop
<1>4. Stop.field = field /\ Stop.prior = prior
  BY DEF Stop
<1>5. CASE tpl \in Restarting
  <2>1. Advance(resp) = CursorTokenAdvance(resp)
    BY <1>5 DEF Advance, Restarting
  <2>2. HasTerminateWhen /\ ~TerminateWhen(resp)
    BY <1>1, <1>5, Parts DEF HasTerminateWhen, TerminateWhen, Restarting, Bool
  <2>3. Advance(resp) = Write(Nil)
    BY <1>1, <2>1, <2>2 DEF CursorTokenAdvance
  <2>4. ~Write(Nil).done
    BY DEF Write
  <2>5. Write(Nil).field = Nil /\ Write(Nil).prior = prior
    BY DEF Write
  <2> QED
    BY <1>5, <2>3, <2>4, <2>5 DEF resp
<1>6. CASE tpl \notin Restarting
  <2>1. IsZero(Nil) /\ Matched(Nil) = Nil
    BY DEF IsZero, Matched
  <2>2. Advance(resp) = Stop
    <3>1. CASE tpl = "simple_get_object"
      BY <3>1 DEF Advance, NoneAdvance
    <3>2. CASE tpl = "cursor_token"
      BY <1>1, <2>1, <3>2 DEF Advance, CursorTokenAdvance, HasTerminateWhen
    <3>3. CASE tpl \in {"link_header", "next_url_in_body"}
      BY <1>1, <2>1, <3>3 DEF Advance, NextURLAdvance, HasTerminateWhen
    <3>4. CASE tpl = "custom"
      BY <1>1, <2>1, <3>4 DEF Advance, CustomAdvance
    <3>5. CASE tpl \in Paged
      BY <1>1, <3>5 DEF Advance, CounterAdvance, HasTerminateWhen, TerminateWhen, Paged
    <3>6. CASE tpl \in Offsets
      BY <1>1, <1>2, <3>6 DEF Advance, CounterAdvance, HasTerminateWhen, Step, Offsets
    <3> QED
      BY <1>2, <1>6, <3>1, <3>2, <3>3, <3>4, <3>5, <3>6 DEF TemplateNames, Paged, Offsets, Restarting
  <2> QED
    BY <1>3, <1>4, <2>2 DEF resp
<1> QED
  BY <1>5, <1>6
-----------------------------------------------------------------------------
(* What the server gives out: as many events as its collection has from the *)
(* place on, up to the limit, in order.                                      *)
Given(offset, limit) ==
  IF offset >= opts.perDrain THEN 0
  ELSE IF offset + limit < opts.perDrain THEN limit ELSE opts.perDrain - offset

LEMMA Slices ==
  ASSUME Options, NEW newest \in Nat, newest >= opts.perDrain, NEW offset \in Nat, NEW limit \in Nat \ {0}
  PROVE  /\ Given(offset, limit) \in Nat
         /\ Slice(newest, offset, limit) \in Seq(Nat \ {0})
         /\ Len(Slice(newest, offset, limit)) = Given(offset, limit)
         /\ \A i \in 1 .. Given(offset, limit) :
              Slice(newest, offset, limit)[i] = newest - opts.perDrain + offset + i
<1> DEFINE count == Given(offset, limit)
<1>1. opts.perDrain \in Nat \ {0}
  BY DEF Options
<1>2. count \in Nat
  BY <1>1 DEF Given
<1>3. Slice(newest, offset, limit) = [i \in 1 .. count |-> newest - opts.perDrain + offset + i]
  BY <1>1 DEF Slice, StoreLen, Given
<1> HIDE DEF count
<1>4. \A i \in 1 .. count : newest - opts.perDrain + offset + i \in Nat \ {0}
  BY <1>1, <1>2
<1>5. [i \in 1 .. count |-> newest - opts.perDrain + offset + i] \in Seq(Nat \ {0})
  BY <1>2, <1>4
<1> QED
  BY <1>2, <1>3, <1>5 DEF count

(* The store is filled anew by a request of an unset field. *)
LEMMA Refilled ==
  ASSUME IInv
  PROVE  /\ Replenish(Server(Param).fresh) = IF field = Nil THEN last + opts.perDrain ELSE last
         /\ Replenish(Server(Param).fresh) \in Nat /\ Replenish(Server(Param).fresh) >= opts.perDrain
         /\ \E k \in Nat : Replenish(Server(Param).fresh) = k * opts.perDrain
<1>1. last \in Nat /\ opts.perDrain \in Nat \ {0}
  BY DEF IInv, Counters, Options
<1>2. Replenish(Server(Param).fresh) = IF field = Nil THEN last + opts.perDrain ELSE last
  <2>1. Server(Param).fresh <=> field = Nil
    BY Served DEF IInv, Serves
  <2> QED
    BY <2>1 DEF Replenish
<1>3. PICK k \in Nat : last = k * opts.perDrain
  BY DEF IInv, Filled
<1>4. last + opts.perDrain = (k + 1) * opts.perDrain
  BY <1>1, <1>3
<1>5. \E j \in Nat : Replenish(Server(Param).fresh) = j * opts.perDrain
  <2>1. CASE field = Nil
    <3>1. k + 1 \in Nat
      OBVIOUS
    <3> QED
      BY <1>2, <1>4, <2>1, <3>1
  <2>2. CASE field # Nil
    BY <1>2, <1>3, <2>2
  <2> QED
    BY <2>1, <2>2
<1> QED
  BY <1>1, <1>2, <1>5 DEF IInv, Filled

(* A page is delivered where the last one ended. *)
LEMMA PageKeeps ==
  ASSUME IInv, Page
  PROVE  IInv'
<1> DEFINE ans == Server(Param)
           newest == Replenish(ans.fresh)
           events == Slice(newest, ans.offset, ans.limit)
           next == Advance([count |-> Len(events), next |-> ans.next, more |-> ans.more])
           at == Position(field)
           count == Given(at, Limit)
<1>1. /\ pc = "page" /\ pages < MaxPages /\ pages' = pages + 1 /\ last' = newest /\ got' = got \o events
      /\ field' = next.field /\ prior' = next.prior
      /\ (IF next.done THEN pc' = "idle" /\ outcome' = "complete" ELSE pc' = pc /\ outcome' = outcome)
      /\ tpl' = tpl /\ opts' = opts /\ clean' = clean /\ drains' = drains
  BY DEF Page, Turn, End
<1>2. /\ Options /\ Asking(field) /\ Counters
      /\ opts.page \in Nat \ {0} /\ opts.serverPage \in Nat \ {0} /\ opts.perDrain \in Nat \ {0}
      /\ last \in Nat /\ got \in Seq(Nat \ {0}) /\ pages \in 0 .. MaxPages /\ MaxPages \in Nat
  BY BoundsAssumption DEF IInv, Options, Counters
<1>3. /\ at \in 0 .. opts.perDrain /\ (field = Nil => at = 0) /\ (field # Nil => at >= 1)
      /\ field # Nil /\ tpl \notin Paged => at = field.n
  BY <1>2, AskingParts
<1>4. /\ newest = (IF field = Nil THEN last + opts.perDrain ELSE last)
      /\ newest \in Nat /\ newest >= opts.perDrain /\ \E k \in Nat : newest = k * opts.perDrain
  BY Refilled
<1>5. Limit \in Nat \ {0} /\ Unit \in Nat \ {0} /\ (tpl # "simple_get_object" => Limit = Unit)
  BY <1>2 DEF Limit, Unit
<1>6. Serves(ans) /\ ans.offset = at /\ ans.limit = Limit
  BY <1>2, Served DEF Serves
<1> HIDE DEF ans, newest
<1>7. /\ count \in Nat /\ events \in Seq(Nat \ {0}) /\ Len(events) = count
      /\ \A i \in 1 .. count : events[i] = newest - opts.perDrain + at + i
  <2>1. events = Slice(newest, at, Limit) /\ at \in Nat
    BY <1>3, <1>6
  <2> HIDE DEF events, at
  <2>2. newest \in Nat /\ newest >= opts.perDrain /\ Limit \in Nat \ {0} /\ Options
    BY <1>2, <1>4, <1>5
  <2>3. /\ Given(at, Limit) \in Nat
        /\ Slice(newest, at, Limit) \in Seq(Nat \ {0})
        /\ Len(Slice(newest, at, Limit)) = Given(at, Limit)
        /\ \A i \in 1 .. Given(at, Limit) : Slice(newest, at, Limit)[i] = newest - opts.perDrain + at + i
    BY <2>1, <2>2, Slices
  <2> QED
    BY <2>1, <2>3
<1> HIDE DEF events, at
<1>8. count = IF at >= opts.perDrain THEN 0 ELSE IF at + Limit < opts.perDrain THEN Limit ELSE opts.perDrain - at
  BY DEF Given
<1> HIDE DEF count
<1>9. Moved(next)
  <2>1. Moved(Advance([count |-> count, next |-> ans.next, more |-> ans.more]))
    BY <1>2, <1>6, <1>7, <1>8, PageMoves DEF at
  <2> QED
    BY <1>7, <2>1
<1> HIDE DEF next
<1>10. /\ next.done => field' = field /\ prior' = prior /\ at + Limit >= opts.perDrain
       /\ ~next.done => /\ tpl # "simple_get_object" /\ field' # Nil /\ Asking(field')
                        /\ Position(field') = at + Unit
                        /\ prior' = IF tpl = "custom" THEN field ELSE prior
  BY <1>1, <1>9 DEF Moved, at
<1>11. /\ got' \in Seq(Nat \ {0}) /\ Len(got') = Len(got) + count /\ Len(got) \in Nat
       /\ \A i \in 1 .. Len(got) : got'[i] = got[i]
       /\ \A i \in Len(got) + 1 .. Len(got) + count : got'[i] = newest - opts.perDrain + at + (i - Len(got))
  <2>1. got' = got \o events
    BY <1>1
  <2>2. got \in Seq(Nat \ {0}) /\ events \in Seq(Nat \ {0}) /\ Len(events) = count /\ count \in Nat
    BY <1>2, <1>7
  <2>3. got' \in Seq(Nat \ {0}) /\ Len(got') = Len(got) + count /\ Len(got) \in Nat
    <3>1. got \o events \in Seq(Nat \ {0})
      BY <2>2
    <3>2. Len(got \o events) = Len(got) + Len(events) /\ Len(got) \in Nat
      BY <2>2
    <3> QED
      BY <2>1, <2>2, <3>1, <3>2
  <2>4. \A i \in 1 .. Len(got) : got'[i] = got[i]
    BY <2>1, <2>2
  <2>5. ASSUME NEW i \in Len(got) + 1 .. Len(got) + count
        PROVE  got'[i] = newest - opts.perDrain + at + (i - Len(got))
    <3>1. i - Len(got) \in 1 .. count
      BY <2>2, <2>3
    <3>2. got'[i] = events[i - Len(got)]
      BY <2>1, <2>2, <2>3
    <3> QED
      BY <1>7, <3>1, <3>2
  <2> QED
    BY <2>3, <2>4, <2>5
<1>12. clean \/ tpl \notin Restarting => Len(got) = at /\ \A i \in 1 .. Len(got') : got'[i] = newest - opts.perDrain + i
  <2> SUFFICES ASSUME clean \/ tpl \notin Restarting
               PROVE  Len(got) = at /\ \A i \in 1 .. Len(got') : got'[i] = newest - opts.perDrain + i
    OBVIOUS
  <2>1. Len(got) = at /\ \A i \in 1 .. Len(got) : got[i] = last - opts.perDrain + i
    BY <1>1 DEF IInv, InStep, at
  <2>2. \A i \in 1 .. Len(got) : got'[i] = newest - opts.perDrain + i
    <3>1. CASE field = Nil
      BY <1>3, <2>1, <3>1
    <3>2. CASE field # Nil
      BY <1>4, <1>11, <2>1, <3>2
    <3> QED
      BY <3>1, <3>2
  <2>3. ASSUME NEW i \in 1 .. Len(got'), i > Len(got)
        PROVE  got'[i] = newest - opts.perDrain + i
    <3>1. i \in Len(got) + 1 .. Len(got) + count
      BY <1>7, <1>11, <2>3
    <3>2. got'[i] = newest - opts.perDrain + at + (i - Len(got))
      BY <1>11, <3>1
    <3>3. newest \in Int
      BY <1>4
    <3>4. opts.perDrain \in Int /\ at \in Int /\ i \in Int
      BY <1>2, <1>3
    <3> QED
      BY <2>1, <3>2, <3>3, <3>4
  <2>4. ASSUME NEW i \in 1 .. Len(got')
        PROVE  got'[i] = newest - opts.perDrain + i
    <3>1. i > Len(got) \/ i \in 1 .. Len(got)
      BY <1>11
    <3> QED
      BY <2>2, <2>3, <3>1
  <2> QED
    BY <2>1, <2>4
<1>13. ~next.done => at + Unit <= opts.perDrain /\ count = Unit
  <2> SUFFICES ASSUME ~next.done PROVE at + Unit <= opts.perDrain /\ count = Unit
    OBVIOUS
  <2>1. at + Unit \in 0 .. opts.perDrain
    <3>1. Position(field') \in 0 .. opts.perDrain
      BY <1>2, <1>10, AskingParts
    <3> QED
      BY <1>10, <3>1
  <2> QED
    BY <1>2, <1>3, <1>5, <1>8, <1>10, <2>1
<1>14. Options' /\ Asking(field)' /\ Counters' /\ Filled'
  <2>1. Options'
    BY <1>1, <1>2 DEF Options
  <2>2. Asking(field')
    BY <1>2, <1>10
  <2>3. Asking(field)'
    BY <1>1, <2>2 DEF Asking, Wire, Position
  <2>4. prior' \in [kind : Kinds, n : Nat]
    BY <1>2, <1>10, AskingParts DEF Counters
  <2>5. /\ pc' \in {"idle", "page"} /\ pages' \in 0 .. MaxPages
        /\ outcome' \in {"none", "complete", "broke", "cap"}
    BY <1>1, <1>2 DEF Counters
  <2>6. Counters'
    BY <1>1, <1>2, <1>4, <1>11, <2>4, <2>5 DEF Counters
  <2>7. Filled'
    BY <1>1, <1>4 DEF Filled
  <2> QED
    BY <2>1, <2>3, <2>6, <2>7
<1>15. InStep'
  <2> SUFFICES ASSUME pc' = "page"
               PROVE  InStep'
    BY DEF InStep
  <2>1. ~next.done /\ outcome' = "none"
    BY <1>1 DEF IInv, InStep
  <2>2. Position(field)' = Position(field') /\ Unit' = Unit
    BY <1>1 DEF Position, Unit
  <2>3. clean' \/ tpl' \notin Restarting =>
          Len(got') = Position(field') /\ \A i \in 1 .. Len(got') : got'[i] = last' - opts'.perDrain + i
    BY <1>1, <1>10, <1>11, <1>12, <1>13, <2>1
  <2>4. clean' => tpl' # "simple_get_object" /\ pages' * Unit = Position(field')
    <3> SUFFICES ASSUME clean PROVE tpl # "simple_get_object" /\ (pages + 1) * Unit = at + Unit
      BY <1>1, <1>10, <2>1
    <3>1. pages * Unit = at /\ tpl # "simple_get_object"
      BY <1>1, <1>10, <2>1 DEF IInv, InStep, at
    <3> QED
      BY <1>2, <1>5, <3>1
  <2>5. field' # Nil /\ got'[Len(got')] = last' - opts'.perDrain + Position(field')
    <3>1. Len(got) + count \in Len(got) + 1 .. Len(got) + count /\ (Len(got) + count) - Len(got) = Unit
      BY <1>5, <1>11, <1>13, <2>1
    <3>2. got'[Len(got) + count] = newest - opts.perDrain + at + Unit
      BY <1>11, <3>1
    <3>3. newest - opts.perDrain + at + Unit = newest - opts.perDrain + (at + Unit)
      <4>1. newest \in Int /\ opts.perDrain \in Int /\ at \in Int /\ Unit \in Int
        BY <1>2, <1>3, <1>4, <1>5
      <4> QED
        BY <4>1
    <3>4. Len(got') = Len(got) + count
      BY <1>11
    <3> QED
      BY <1>1, <1>10, <2>1, <3>2, <3>3, <3>4
  <2> QED
    BY <2>1, <2>2, <2>3, <2>4, <2>5 DEF InStep
<1>16. Complete'
  <2> SUFFICES ASSUME outcome' = "complete", clean
               PROVE  got' = Collection'
    BY <1>1 DEF Complete
  <2>1. next.done
    BY <1>1 DEF IInv, InStep
  <2>2. Len(got') = opts.perDrain
    BY <1>2, <1>3, <1>5, <1>8, <1>10, <1>11, <1>12, <2>1
  <2>3. \A i \in 1 .. opts.perDrain : got'[i] = last' - opts.perDrain + i
    BY <1>1, <1>12, <2>2
  <2>4. Collection' = [i \in 1 .. opts.perDrain |-> last' - opts.perDrain + i]
    BY <1>1 DEF Collection
  <2>5. got' = [i \in 1 .. opts.perDrain |-> got'[i]]
    BY <1>11, <2>2
  <2> QED
    BY <2>3, <2>4, <2>5
<1>17. PromptEnd'
  <2> SUFFICES ASSUME clean
               PROVE  IF tpl \in Offsets THEN pages * Unit <= opts.perDrain ELSE pages * Unit < opts.perDrain
    <3>1. pages' - 1 = pages
      BY <1>1, <1>2
    <3> QED
      BY <1>1, <3>1 DEF PromptEnd, Unit, Offsets
  <2>1. pages * Unit = at
    <3>1. CASE tpl = "simple_get_object"
      <4>1. pages = 0 /\ field = Nil
        BY <1>1, <1>2, <3>1, AskingParts DEF IInv, InStep
      <4>2. 0 * Unit = 0
        BY <1>5
      <4> QED
        BY <1>3, <4>1, <4>2
    <3>2. CASE tpl # "simple_get_object"
      BY <1>1, <3>2 DEF IInv, InStep, at
    <3> QED
      BY <3>1, <3>2
  <2>2. tpl \notin Offsets => at < opts.perDrain
    <3>1. CASE field = Nil
      BY <1>2, <1>3, <3>1
    <3>2. CASE field # Nil
      BY <1>2, <3>2, AskingParts DEF at
    <3> QED
      BY <3>1, <3>2
  <2> QED
    BY <1>2, <1>3, <2>1, <2>2
<1>18. NothingSkipped'
  <2> SUFFICES ASSUME NEW n \in 1 .. Len(got') - 1
               PROVE  \/ got'[n + 1] = got'[n] + 1
                      \/ /\ tpl \in {"scroll_id", "oauth2_relay"} /\ ~clean
                         /\ got'[n + 1] > got'[n] /\ (got'[n + 1] - 1) % opts.perDrain = 0
    BY <1>1 DEF NothingSkipped
  <2>1. CASE n + 1 <= Len(got)
    <3>1. n \in 1 .. Len(got) - 1 /\ got'[n] = got[n] /\ got'[n + 1] = got[n + 1]
      BY <1>11, <2>1
    <3> QED
      BY <3>1 DEF IInv, NothingSkipped
  <2>2. CASE n > Len(got)
    <3>1. /\ got'[n] = newest - opts.perDrain + at + (n - Len(got))
          /\ got'[n + 1] = newest - opts.perDrain + at + (n + 1 - Len(got))
      <4>1. n \in Len(got) + 1 .. Len(got) + count /\ n + 1 \in Len(got) + 1 .. Len(got) + count
        BY <1>7, <1>11, <2>2
      <4> QED
        BY <1>11, <4>1
    <3>2. newest \in Int /\ opts.perDrain \in Int /\ at \in Int /\ n \in Int /\ Len(got) \in Int
      <4>1. newest \in Int
        BY <1>4
      <4>2. opts.perDrain \in Int /\ at \in Int /\ Len(got) \in Int
        BY <1>2, <1>3, <1>11
      <4> QED
        BY <4>1, <4>2
    <3> QED
      BY <3>1, <3>2
  <2>3. CASE n = Len(got)
    <3>1. got'[n + 1] = newest - opts.perDrain + at + 1 /\ got'[n] = got[n]
      <4>1. n + 1 \in Len(got) + 1 .. Len(got) + count /\ n + 1 - Len(got) = 1 /\ n \in 1 .. Len(got)
        BY <1>7, <1>11, <2>3
      <4> QED
        BY <1>11, <4>1
    <3>2. CASE clean \/ tpl \notin Restarting
      <4>1. got'[n] = newest - opts.perDrain + n /\ got'[n + 1] = newest - opts.perDrain + (n + 1)
        BY <1>11, <1>12, <3>2
      <4>2. newest \in Int /\ opts.perDrain \in Int /\ n \in Int
        BY <1>2, <1>4, <1>7, <1>11
      <4>3. newest - opts.perDrain + (n + 1) = (newest - opts.perDrain + n) + 1
        BY <4>2
      <4>4. got'[n + 1] = got'[n] + 1
        BY <4>1, <4>3
      <4> QED
        BY <4>4
    <3>3. CASE ~clean /\ tpl \in Restarting
      <4>1. got # << >>
        BY <2>3
      <4>2. CASE field = Nil
        <5>1. got[n] <= last /\ got[n] \in Nat
          BY <1>1, <1>2, <2>3, <4>1, <4>2 DEF IInv, InStep
        <5>2. got'[n + 1] = last + 1
          <6>1. newest = last + opts.perDrain /\ at = 0
            BY <1>3, <1>4, <4>2
          <6>2. last \in Int /\ opts.perDrain \in Int
            BY <1>2
          <6> QED
            BY <3>1, <6>1, <6>2
        <5>3. (got'[n + 1] - 1) % opts.perDrain = 0
          <6>1. PICK k \in Nat : last = k * opts.perDrain
            BY DEF IInv, Filled
          <6>2. last % opts.perDrain = 0
            BY <1>2, <6>1, ProductDivides
          <6>3. got'[n + 1] - 1 = last
            BY <1>2, <5>2
          <6> QED
            BY <6>2, <6>3
        <5> QED
          BY <1>2, <3>1, <3>3, <5>1, <5>2, <5>3 DEF Restarting
      <4>3. CASE field # Nil
        <5>1. got[n] = last - opts.perDrain + at
          BY <1>1, <2>3, <4>1, <4>3 DEF IInv, InStep, at
        <5> QED
          BY <1>2, <1>3, <1>4, <3>1, <4>3, <5>1
      <4> QED
        BY <4>2, <4>3
    <3> QED
      BY <3>2, <3>3
  <2> QED
    BY <1>11, <2>1, <2>2, <2>3
<1>19. StagedWrites'
  <2> SUFFICES ASSUME tpl = "custom", field' # Nil, prior' # Nil
               PROVE  prior'.n + opts.serverPage = field'.n
    BY <1>1 DEF StagedWrites
  <2>1. CASE next.done
    BY <1>10, <2>1 DEF IInv, StagedWrites
  <2>2. CASE ~next.done
    <3>1. tpl \notin Paged /\ Unit = opts.serverPage
      BY DEF Paged, Unit, Offsets
    <3>2. field # Nil /\ prior'.n = at
      BY <1>3, <1>10, <2>2, <3>1
    <3>3. Position(field') = field'.n
      BY <3>1 DEF Position
    <3> QED
      BY <1>10, <2>2, <3>1, <3>2, <3>3
  <2> QED
    BY <2>1, <2>2
<1> QED
  BY <1>14, <1>15, <1>16, <1>17, <1>18, <1>19 DEF IInv

(* A page that fails delivers nothing and moves the field nowhere, but back *)
(* to the start for a template whose terminate_when does not see it.         *)
LEMMA FailKeeps ==
  ASSUME IInv, Fail
  PROVE  IInv'
<1> DEFINE newest == Replenish(Server(Param).fresh)
           next == Advance([count |-> 0, next |-> Nil, more |-> Nil])
<1>1. /\ pc = "page" /\ pages < MaxPages /\ pages' = pages + 1 /\ clean' = FALSE
      /\ last' = last \/ last' = newest
      /\ tpl' = tpl /\ opts' = opts /\ got' = got /\ drains' = drains
  BY DEF Fail
<1>2. /\ Options /\ Asking(field) /\ Counters /\ opts.perDrain \in Nat \ {0} /\ last \in Nat
      /\ pages \in 0 .. MaxPages /\ MaxPages \in Nat
      /\ Position(field) \in 0 .. opts.perDrain
  BY BoundsAssumption, AskingParts DEF IInv, Options, Counters
<1>3. /\ newest = (IF field = Nil THEN last + opts.perDrain ELSE last)
      /\ newest \in Nat /\ newest >= opts.perDrain /\ \E k \in Nat : newest = k * opts.perDrain
  BY Refilled
<1>4. /\ prior' = prior /\ (field' = field \/ (tpl \in Restarting /\ field' = Nil))
      /\ pc' \in {"idle", "page"} /\ outcome' \in {"none", "complete", "broke", "cap"}
      /\ pc' = "page" => outcome' = "none"
  <2>1. outcome = "none" /\ pc = "page"
    BY <1>1 DEF IInv, InStep
  <2>2. /\ next.prior = prior
        /\ IF next.done THEN next.field = field ELSE tpl \in Restarting /\ next.field = Nil
    BY <1>2, FailedMoves
  <2>3. PICK verdict \in Verdicts :
          CASE verdict = "retry" -> UNCHANGED <<field, prior, pc, outcome>>
            [] verdict = "break" -> End("broke") /\ UNCHANGED <<field, prior>>
            [] OTHER -> Turn([count |-> 0, next |-> Nil, more |-> Nil])
    BY DEF Fail
  <2>4. CASE verdict = "retry"
    BY <2>1, <2>3, <2>4
  <2>5. CASE verdict = "break"
    BY <2>3, <2>5 DEF End
  <2>6. CASE verdict # "retry" /\ verdict # "break"
    <3>1. /\ field' = next.field /\ prior' = next.prior
          /\ IF next.done THEN pc' = "idle" /\ outcome' = "complete" ELSE pc' = pc /\ outcome' = outcome
      BY <2>3, <2>6 DEF Turn, End
    <3> HIDE DEF next
    <3> QED
      BY <2>1, <2>2, <3>1
  <2> QED
    BY <2>4, <2>5, <2>6
<1> HIDE DEF newest, next
<1>5. last' \in Nat /\ last' >= last /\ (field # Nil => last' = last)
  BY <1>1, <1>2, <1>3
<1>6. Options' /\ Asking(field)' /\ Counters' /\ Filled'
  <2>1. Options'
    BY <1>1, <1>2 DEF Options
  <2>2. Asking(field')
    <3>1. Asking(Nil)
      BY DEF Asking
    <3> QED
      BY <1>2, <1>4, <3>1
  <2>3. Asking(field)'
    BY <1>1, <2>2 DEF Asking, Wire, Position
  <2>4. pages' \in 0 .. MaxPages
    BY <1>1, <1>2
  <2>5. Counters'
    BY <1>1, <1>2, <1>4, <1>5, <2>4 DEF Counters
  <2>6. Filled'
    <3>1. \E k \in Nat : last' = k * opts.perDrain
      BY <1>1, <1>3 DEF IInv, Filled
    <3>2. field' # Nil => last' >= opts.perDrain
      BY <1>4, <1>5 DEF IInv, Filled
    <3> QED
      BY <1>1, <3>1, <3>2 DEF Filled
  <2> QED
    BY <2>1, <2>3, <2>5, <2>6
<1>7. InStep'
  <2> SUFFICES ASSUME pc' = "page"
               PROVE  InStep'
    BY DEF InStep
  <2>1. Position(field)' = Position(field')
    BY <1>1 DEF Position
  <2>2. ASSUME tpl \notin Restarting
        PROVE  Len(got) = Position(field') /\ \A i \in 1 .. Len(got) : got[i] = last' - opts.perDrain + i
    <3>1. field' = field /\ Len(got) = Position(field) /\ \A i \in 1 .. Len(got) : got[i] = last - opts.perDrain + i
      BY <1>1, <1>4, <2>2 DEF IInv, InStep
    <3>2. CASE field = Nil
      <4>1. Len(got) = 0
        BY <1>2, <3>1, <3>2, AskingParts
      <4> QED
        BY <3>1, <4>1
    <3>3. CASE field # Nil
      BY <1>5, <3>1, <3>3
    <3> QED
      BY <3>2, <3>3
  <2>3. ASSUME got # << >>
        PROVE  IF field' = Nil THEN got[Len(got)] <= last'
               ELSE got[Len(got)] = last' - opts.perDrain + Position(field')
    <3>1. IF field = Nil THEN got[Len(got)] <= last ELSE got[Len(got)] = last - opts.perDrain + Position(field)
      BY <1>1, <2>3 DEF IInv, InStep
    <3>2. got[Len(got)] \in Nat
      <4>1. got \in Seq(Nat \ {0})
        BY <1>2 DEF Counters
      <4> QED
        BY <2>3, <4>1
    <3>3. got[Len(got)] <= last
      BY <1>2, <3>1, <3>2
    <3>4. CASE field' = Nil
      BY <1>2, <1>5, <3>2, <3>3, <3>4
    <3>5. CASE field' # Nil
      BY <1>4, <1>5, <3>1, <3>5
    <3> QED
      BY <3>4, <3>5
  <2> QED
    BY <1>1, <1>4, <2>1, <2>2, <2>3 DEF InStep
<1>8. Complete' /\ PromptEnd'
  BY <1>1 DEF Complete, PromptEnd
<1>9. NothingSkipped'
  BY <1>1 DEF IInv, NothingSkipped
<1>10. StagedWrites'
  BY <1>1, <1>4 DEF IInv, StagedWrites, Restarting
<1> QED
  BY <1>6, <1>7, <1>8, <1>9, <1>10 DEF IInv

(* A drain begins with the fields wiped, and ends at the page cap. *)
LEMMA StartKeeps ==
  ASSUME IInv, StartDrain
  PROVE  IInv'
<1>1. /\ pc' = "page" /\ field' = Nil /\ prior' = Nil /\ pages' = 0 /\ outcome' = "none" /\ got' = << >>
      /\ clean' = TRUE /\ drains' = drains + 1 /\ drains < MaxDrains
      /\ tpl' = tpl /\ opts' = opts /\ last' = last
  BY DEF StartDrain
<1>2. /\ opts.page \in Nat \ {0} /\ opts.serverPage \in Nat \ {0} /\ opts.perDrain \in Nat \ {0}
      /\ drains \in 0 .. MaxDrains /\ MaxDrains \in Nat /\ MaxPages \in Nat
      /\ Len(<< >>) = 0 /\ << >> \in Seq(Nat \ {0})
  BY BoundsAssumption DEF IInv, Options, Counters
<1>3. Options' /\ Filled'
  BY <1>1 DEF IInv, Options, Filled
<1>4. Asking(field)'
  BY <1>1 DEF Asking
<1>5. Counters'
  <2>1. drains' \in 0 .. MaxDrains /\ 0 \in 0 .. MaxPages
    BY <1>1, <1>2
  <2> QED
    BY <1>1, <1>2, <2>1, Parts DEF IInv, Counters
<1>6. InStep'
  <2>1. Position(field)' = 0
    BY <1>1 DEF Position
  <2>2. pages' * Unit' = 0
    BY <1>1, <1>2 DEF Unit
  <2> QED
    BY <1>1, <1>2, <2>1, <2>2 DEF InStep
<1>7. Complete' /\ NothingSkipped' /\ StagedWrites'
  BY <1>1, <1>2 DEF Complete, NothingSkipped, StagedWrites
<1>8. PromptEnd'
  BY <1>1 DEF PromptEnd
<1> QED
  BY <1>3, <1>4, <1>5, <1>6, <1>7, <1>8 DEF IInv

LEMMA CapKeeps ==
  ASSUME IInv, CapReached
  PROVE  IInv'
<1>1. /\ pc' = "idle" /\ outcome' = "cap" /\ field' = field /\ prior' = prior /\ pages' = pages /\ got' = got
      /\ clean' = clean /\ drains' = drains /\ tpl' = tpl /\ opts' = opts /\ last' = last
  BY DEF CapReached, End
<1>2. Options' /\ Filled' /\ Counters'
  BY <1>1 DEF IInv, Options, Filled, Counters
<1>3. Asking(field)'
  BY <1>1 DEF IInv, Asking, Wire, Position
<1>4. InStep' /\ Complete'
  BY <1>1 DEF InStep, Complete
<1>5. PromptEnd' /\ NothingSkipped' /\ StagedWrites'
  BY <1>1 DEF IInv, PromptEnd, NothingSkipped, StagedWrites
<1> QED
  BY <1>2, <1>3, <1>4, <1>5 DEF IInv
-----------------------------------------------------------------------------
(* The invariant holds at first, and every step keeps it. *)
LEMMA InitIInv ==
  ASSUME Init
  PROVE  IInv
<1>1. /\ tpl \in Templates
      /\ opts \in [page : 1 .. MaxPageSize, serverPage : 1 .. MaxPageSize, perDrain : 1 .. MaxCollection]
      /\ (tpl = "simple_get_object" => opts.perDrain = 1)
      /\ last = 0 /\ field = Nil /\ prior = Nil /\ pc = "idle" /\ pages = 0 /\ outcome = "none"
      /\ got = << >> /\ clean = TRUE /\ drains = 0
  BY DEF Init
<1>2. /\ MaxPageSize \in Nat \ {0} /\ MaxCollection \in Nat \ {0} /\ MaxPages \in Nat /\ MaxDrains \in Nat
      /\ Len(<< >>) = 0 /\ << >> \in Seq(Nat \ {0})
  BY BoundsAssumption
<1>3. Options
  <2>1. 1 .. MaxPageSize \subseteq Nat \ {0} /\ 1 .. MaxCollection \subseteq Nat \ {0}
    BY <1>2
  <2> QED
    BY <1>1, <2>1, TemplatesAssumption DEF Options
<1>4. opts.page \in Nat \ {0} /\ opts.serverPage \in Nat \ {0} /\ opts.perDrain \in Nat \ {0}
  BY <1>3 DEF Options
<1>5. Asking(field) /\ InStep
  BY <1>1 DEF Asking, InStep
<1>6. Counters
  <2>1. 0 \in 0 .. MaxPages /\ 0 \in 0 .. MaxDrains
    BY <1>2
  <2> QED
    BY <1>1, <1>2, <2>1, Parts DEF Counters
<1>7. Filled
  <2>1. 0 = 0 * opts.perDrain /\ 0 \in Nat
    BY <1>4
  <2> QED
    BY <1>1, <2>1 DEF Filled
<1>8. Complete /\ NothingSkipped /\ StagedWrites
  BY <1>1, <1>2 DEF Complete, NothingSkipped, StagedWrites
<1>9. PromptEnd
  BY <1>1 DEF PromptEnd
<1> QED
  BY <1>3, <1>5, <1>6, <1>7, <1>8, <1>9 DEF IInv

LEMMA NextIInv ==
  ASSUME IInv, [Next]_vars
  PROVE  IInv'
<1>1. CASE Next
  BY <1>1, StartKeeps, PageKeeps, FailKeeps, CapKeeps DEF Next
<1>2. CASE UNCHANGED vars
  <2>1. /\ tpl' = tpl /\ opts' = opts /\ last' = last /\ field' = field /\ prior' = prior /\ pc' = pc
        /\ pages' = pages /\ outcome' = outcome /\ got' = got /\ clean' = clean /\ drains' = drains
    BY <1>2 DEF vars
  <2>2. Options' /\ Filled' /\ Counters'
    BY <2>1 DEF IInv, Options, Filled, Counters
  <2>3. Asking(field)' /\ InStep'
    BY <2>1 DEF IInv, Asking, InStep, Wire, Position, Unit
  <2>4. Complete' /\ PromptEnd' /\ NothingSkipped' /\ StagedWrites'
    BY <2>1 DEF IInv, Complete, PromptEnd, NothingSkipped, StagedWrites, Collection
  <2> QED
    BY <2>2, <2>3, <2>4 DEF IInv
<1> QED
  BY <1>1, <1>2

(* The invariant, for every template. *)
THEOREM Invariance == Spec => []IInv
<1>1. Init => IInv
  BY InitIInv
<1>2. IInv /\ [Next]_vars => IInv'
  BY NextIInv
<1> QED
  BY <1>1, <1>2, PTL DEF Spec

(* Fields, positions and deliveries are of their types. *)
THEOREM TypeCorrect == Spec => []TypeOK
<1>1. IInv => TypeOK
  <2> SUFFICES ASSUME IInv
               PROVE  TypeOK
    OBVIOUS
  <2>1. field \in [kind : Kinds, n : Nat]
    BY AskingParts DEF IInv
  <2> QED
    BY <2>1 DEF IInv, Options, Counters, TypeOK
<1> QED
  BY Invariance, <1>1, PTL

(* A drain that no failure disturbed and that its pagination ended has     *)
(* delivered the whole collection, in order and once: for every template,   *)
(* whatever the page sizes and the collection.                               *)
THEOREM DrainsAreComplete == Spec => []Complete
<1>1. IInv => Complete
  BY DEF IInv
<1> QED
  BY Invariance, <1>1, PTL

(* A drain none of whose pages failed asks for no page beyond the           *)
(* collection; a counter that goes by the size of its pages asks for one,   *)
(* and only when the collection ends on a page's edge.                       *)
THEOREM DrainsEndPromptly == Spec => []PromptEnd
<1>1. IInv => PromptEnd
  BY DEF IInv
<1> QED
  BY Invariance, <1>1, PTL

(* However its pages fail and whatever becomes of them, a drain delivers   *)
(* nothing twice and skips nothing, but where scroll_id and oauth2_relay    *)
(* start again at the head of a later collection.                            *)
THEOREM DrainsSkipNothing == Spec => []NothingSkipped
<1>1. IInv => NothingSkipped
  BY DEF IInv
<1> QED
  BY Invariance, <1>1, PTL

(* A custom variant's writes are staged: the second field is one page behind. *)
THEOREM WritesAreStaged == Spec => []StagedWrites
<1>1. IInv => StagedWrites
  BY DEF IInv
<1> QED
  BY Invariance, <1>1, PTL
==============================================================================
