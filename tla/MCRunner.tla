------------------------------ MODULE MCRunner ------------------------------
(***************************************************************************)
(* Small sets of documents for checking Runner with TLC.                   *)
(***************************************************************************)
EXTENDS Runner

R == [producer |-> FALSE, gated |-> FALSE, fanOut |-> FALSE, loop |-> FALSE,
      cache |-> FALSE, extract |-> FALSE, onStatus |-> "none"]

P == [R EXCEPT !.producer = TRUE]

NoPaging == [kind |-> "none", override |-> FALSE, response |-> TRUE, step |-> 1]

Cursor == [NoPaging EXCEPT !.kind = "cursor_token"]

D(reqs, errMode, pag) ==
  [reqs |-> reqs, errMode |-> errMode, auth |-> FALSE, pag |-> pag]

Login == [R EXCEPT !.cache = TRUE, !.gated = TRUE]

(* A single paginated producer, in each error mode. *)
PlainDocs ==
  {D(<<[P EXCEPT !.extract = TRUE]>>, m, Cursor) : m \in {"standard", "warn", "fail"}}

(* Every on_status verb on a producer behind a cached login step, with    *)
(* and without cached OAuth2; the token comes from the login's body.      *)
VerbDocs ==
  {[D(<<Login, [P EXCEPT !.onStatus = v]>>, "standard",
      [Cursor EXCEPT !.response = FALSE]) EXCEPT !.auth = a] :
     v \in Verbs, a \in BOOLEAN}

(* Every pagination variant, over pages that may be refused. *)
PagingDocs ==
  {D(<<[P EXCEPT !.onStatus = "empty_events"]>>, "warn",
     [Cursor EXCEPT !.kind = k, !.override = o, !.response = r]) :
     k \in {"none", "next_url", "counter", "custom"}, o \in BOOLEAN, r \in BOOLEAN}

(* A polling step before the producer. *)
LoopDocs ==
  {D(<<[R EXCEPT !.loop = TRUE, !.onStatus = "empty_events"], P>>, m, Cursor) :
     m \in {"standard", "warn"}}

(* A producer before a step that may fail. *)
LateDocs == {D(<<P, R>>, "warn", Cursor)}

SyncDocs == PlainDocs \cup VerbDocs \cup PagingDocs \cup LoopDocs \cup LateDocs

(* A fan-out producer before a step that may fail. *)
FanOutDocs ==
  {D(<<[P EXCEPT !.fanOut = TRUE, !.onStatus = vm[1], !.extract = TRUE],
       [R EXCEPT !.onStatus = "skip"]>>, vm[2], Cursor) :
     vm \in {<<"skip", "standard">>, <<"invalidate_cache", "warn">>}}

OnePageDocs == {D(<<P>>, "standard", Cursor)}

AsyncDocs == FanOutDocs \cup OnePageDocs
=============================================================================
