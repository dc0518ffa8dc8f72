# Verification of skopos

skopos pulls events from HTTP APIs described by a YAML document: a `Runner`
(package `client`) drains one API in sessions, delivers the events to a `Sink`
and keeps its position in a `Store`. The contract that matters to an operator is
*at least once*: an event the server offered is either in the sink, durably, or
will be asked for again. This directory holds TLA+ models of the parts of the
program that this contract rests on, TLC configurations that check them on small
instances, and TLAPS proofs that hold for every size.

    tlc -config RunnerSync.cfg MCRunner.tla      # model-check one configuration
    tlapm RunnerProofs.tla                       # check the proofs of a module

PROJECT.json lists the runs, the mutants that show that each property can fail,
the source lines every definition models, the hazards, the disagreements between
code and documentation, and the theorems.

## 1. The system

| Component | State | Operations | Interacts with |
|---|---|---|---|
| **Runner** (`client/runner.go`, `fanout.go`) | per drain: page counter, iteration verdict, scope | `Drain`, `runIteration`, `runRequest`, `runFanOut`, deferred teardown | everything below |
| **Emitter** (`client/emitter.go`) | bounded channel, consumer goroutine, first error | `emit`, `consume`, `close` | Runner (producer), Sink (consumer) |
| **Scope** (`client/state.go`, `progress.go`, `extract.go`) | `state`, `cache`, `extract`, `steps`, `events`, response | `newScope`, `resetPerDrainScratch`, `applyProgress`, `runExtracts`, `snapshot` | Runner, Store |
| **Pagination** (`client/pagination.go`) | none of its own: writes scratch fields of the scope | `advance` of five variants | Runner, Scope |
| **Cache and OAuth2** (`client/cache.go`, `auth.go`) | cache slots and their expiry | `cacheGet`, `cacheStore`, `oauth2Token`, `dropReachableCaches` | Runner, token endpoint, clock |
| **Exchange** (`client/http.go`, `bodypath.go`) | none | `executeRequest`, decode chain | HTTP server, Cache |
| **Store** (`client/filestore.go`, `state.go`) | snapshot file, temporary files, mutex | `Load`, `Save` | Runner, file system |
| **Sink** (`client/sink.go`) | writer, mutex | `Emit`, `Flush` | Emitter, Runner, file |
| **Values, predicates** (`client/value.go`, `predicate.go`) | none | `evalValue`, `evalPredicate` | Scope |
| **CLI** (`cmd/skopos`) | run loop, fleet of runners, counters | `run`, `runFleet`, `driveFleetRun` | Runner, signals, shared Sink, state files |
| **Schema** (`schema/`) | none | `Parse`, `Marshal*`, `Validate` | the rules Runner relies on |
| **Test server** (`internal/testserver`) | an event store, per-endpoint scripts | one handler per template | stands for the real APIs |

What is hard in this code, and what the properties are aimed at:

- *Commit order.* The teardown closes the emitter, flushes the sink and saves the
  snapshot, each step may fail, and the process may die between any two. The
  saved position must never be ahead of the durable events.
- *Two goroutines.* With `SinkBuffer > 0` the consumer delivers events while the
  page loop fetches, applies `progress:` and tears down; errors travel back
  through a mutex-protected field that `emit` looks at before a channel send.
- *Verdicts.* An exchange ends in one of many ways, crossed with `on_status:`
  verbs, three error modes, fan-out and polling loops. Each combination decides
  what is emitted, what is written, whether the page is retried or skipped.
- *Termination.* Retries, servers that repeat themselves and polling loops have
  to be cut off, by the page cap or by cancellation.
- *Persistence over restarts*: which fields survive, the temporary-file
  protocol, the life of a cached token.
- *Positions.* What a state field holds goes through an expression, a query
  string, a server, a response, JSON on disk and back; the end of a collection is
  recognised by rules on the client side only.
- *Two readings of one document.* The validator decides statically what the
  runtime resolves dynamically; YAML and JSON have a decoder each, written by hand.
- *Several runners* sharing a sink, a store, a signal.

## 2. Modules

| Module | Models |
|---|---|
| `Delivery` | what the emitter interface promises, as four counters and flags |
| `Emitter` | the buffered emitter: channel, consumer, error, producer |
| `EmitterProofs` | its invariants, and that it implements `Delivery` |
| `Runner` | `Drain` over any document, any server, either emitter, with crashes and restarts |
| `RunnerProofs` | its type correctness and safety properties |
| `MCRunner` | small sets of documents for TLC |
| `Store` | what a `Store` promises a Runner: an atomic register |
| `FileStore` | Load and Save on a file system, with crashes, under several runners |
| `FileStoreProofs` | that the file is always whole, and that `FileStore` implements `Store` |
| `MCFileStore` | runners, processes and the path they share, for TLC |
| `AuthCache` | a cached token in time, from the token endpoint to the API |
| `AuthCacheProofs` | how late a token may be sent |
| `Values` | runtime values: conversions, arithmetic, comparison, reducers, JSON |
| `Terms` | expressions, predicates, references, body paths, extracts over a scope |
| `Validate` | the validator's rules |
| `Document` | a document from validation through drains, crash and restart |
| `MCDocument` | 1500 documents and their answers, for TLC |
| `DocumentProofs` | that accepted documents meet no fault, and the lifetimes of what a scope holds, for every document |
| `Paging` | the pagination variants against the servers of the templates |
| `MCPaging` | every template, for TLC |
| `PagingProofs` | that a drain delivers the collection, for every template and size |
| `Checkpoint` | the `progress:` recipes against a source that grows |
| `MCCheckpoint` | the recipes that are safe, and one that is not, for TLC |
| `CheckpointProofs` | that safe recipes lose nothing and no mark moves back, for every source |
| `Fleet` | the command's run loop: runs that share sinks, files, a signal |
| `MCFleet` | configurations, for TLC |
| `FleetProofs` | its safety properties, for any number of runs, sinks and files |
| `Codec` | the codecs of Value, Predicate, Path, DecodeChain |
| `MCCodec` | texts of a request step, for TLC |

`Runner` uses `Emitter`'s operators; `Emitter` implements `Delivery`, `FileStore`
implements `Store`. `Terms` extends `Values`, `Validate` extends `Terms`, `Document`
extends `Validate`; `Checkpoint` extends `Values`. `Runner` and `Document` are two
views of one loop: `Runner` has every failure and both goroutines and no data,
`Document` has the data and no failing exchange, sink or store. What either takes for
granted of the other is what the other checks: `Runner`'s nondeterministic
evaluation failures and terminations include all of `Document`'s.

### Emitter

`ch`, `closed`, `cons`, `cur`, `err` are the fields of `asyncEmitter`: the
channel's buffer, whether it was closed, the consumer's position, the event in
its hands, the first error. The atomic steps are the channel operations and the
accesses under `mu`. `Send`, `CloseChannel`, `Receive`, `SinkEmit`,
`SinkEmitFails` and `Exit` take the event as a parameter and leave the
producer's control state alone, so that `Runner` uses them through `INSTANCE`;
the same module closes them with the most general producer. `emit` is two steps,
`EmitCheck` and `EmitSend`, because the consumer may record an error in between:
that event is accepted and dropped, and the error surfaces at the next `emit` or
at `close`, which is what `Delivery` allows.

`Capacity` stands for `Runner.SinkBuffer`; `MaxEvents` bounds the events handed
over (6 in the run, with a buffer of 2: the buffer fills, drains and refills and
an error may fall on any event).

### Runner

The page loop is one state machine; `pc` names the place in `Drain`:

| `pc` | in the code |
|---|---|
| `idle` | no drain; `StartDrain` is Load, newScope, newEmitter and the scratch wipe |
| `top` | the `ctx.Err()` and `MaxPages` checks, `pages++`, per-iteration reset |
| `step` | `runIteration`'s loop over `requests:` and `runRequest` |
| `item` | `runFanOut`'s loop over the items |
| `emit`, `send` | `em.emit` for each event of an accepted page |
| `progress`, `advance` | `applyProgress`, `plan.advance` |
| `close`, `wait`, `flush`, `save` | the deferred teardown |

`it` is what `runIteration` keeps and returns (`kind` is its `iterKind`); `st` is
the scope. Data is reduced to what the properties tell apart. A producer response
carries fresh event numbers, so an event served a second time counts as a second
event. `mark` stands for the persistent fields written by `progress:`: it is the
set of events of the pages those fields summarise; `ext` is the same for a field
written by `extract:` on the producer. `cursor` is the pagination's scratch field,
`0` when unset. `cached` says whether a reachable cache slot is populated, which
is all that `invalidate_cache` asks. `base`, `lost`, `it.wrote` and `it.polls` are
observations for the properties: the code does not have them.

`it.evs` is everything the producer's steps of this iteration fetched, and stays
when a later verdict refuses the page: it is still in scope, as `steps.<id>.*` and
`extract.*`. `Events` is what is located and emitted (nothing, unless the iteration
was accepted), `InScope` what a `progress:` that runs can see. A `warn` goes on through
`emit` and `progress` as an accepted page does, and it is `ApplyProgress`'s own guard, as
in the code (`runner.go:349`), that keeps `progress:` from running over it.

The server, the clock and the values of predicates are not modelled: where the
code branches on them both branches are there (an exchange may end in any of
executeRequest's outcomes, `if:` and `terminate_when:` may go either way, a token may or
may not be in the response). What the code derives from its own state is not left
open: whether pagination's source resolves after a refused page, a counter's
short-page rule, the degradation of `invalidate_cache`, the dispatch on
`error.mode`.

`Faults` selects the failures a configuration allows: `status`, `transport`
(everything `executeRequest` returns without a status), `eval` (an expression that
cannot be evaluated), `emit`, `flush`, `save`, `load`, `crash`, `cancel`. After a
crash any prefix of the unflushed sink output may survive; Save is atomic here (a
rename in `FileStore.Save`).

`Emitter`'s operators come in through
`E == INSTANCE Emitter WITH Capacity <- SinkBuffer, ...`: with `SinkBuffer = 0` none
of them is enabled and `EmitSync` is the synchronous emitter.

### Store, FileStore

A drain is one `Load` and one Save, and its snapshot is the set of drains whose
progress it contains: those it loaded and itself. That is all the properties ask of
a snapshot, and it makes a lost update visible. `pc` of a runner names the system
call that `Save` makes next (`create`, `write`, `sync`, `close`, `rename`), or
`cleanup`, or `return`; `Free` is the mutex. The file system is external: a file's
content survives a power loss once synced, and the renamed directory entry (`at`)
reaches the disk (`atDisk`) at any later time, because Save does not sync the
directory. So a power loss may take the path back to an earlier snapshot, but always
to a whole one; `Store` says the same of its register (`SPowerLoss`). `Kill` ends all
runners of one process.

`Runner` takes `Save` as one step that may fail, and `Store` is the specification of
that step: a Save that returns nil took effect, one that returns an error did not,
one cut off by a crash did or did not.

### AuthCache

`slot` is `scope.cache`: a token number and its resolved `expires_at`. The two call
sites differ in where the slot is looked at: `applyOAuth2` at every request, a cached
login step once an iteration, the requests after it reading the token by reference
(`GoOn`). Time is a clock that ticks between drains and while a message is under way;
each message takes up to `Latency`, and the client's own computation none. The token
endpoint and the API are external: a token lives from the moment it is issued, the
answer states its lifetime (`stated`) or does not, and the API may take it back. The
client counts what the answer says from the moment it stores it: its expiry is late
by the age of the answer. `Invalidated` is `dropReachableCaches`; `StartDrain` is the new
scope with its empty cache. `last`, `looked`, `dropped`, `life` and `stated` are
observations. A grant without a `cache:` block, absolute expiry times and several
slots are left out.

### Values, Terms, Validate, Document

A value is a record of its Go type, a number, and for a string the kind of text it is,
because all that the code asks of a string is which parser takes it. An expression is a
node with its operands, nested at most `MaxDepth` deep (`Nodes`); what is computed of one is a
recursive function over these nodes, so that it can be reasoned about. `Validate!IsDocument`
says of what form parsing leaves a document, and `Formed` how many operands each form has. Durations and times
count nanoseconds with a small `NanosPerSecond`; `ExponentFrom` stands for 10^6, where
`FormatFloat(x, 'g', -1, 64)` goes over to exponents. `Terms!Eval` and `Holds` are
`evalValue` and `evalPredicate`, node by node; they return a value, `Error` (the data do not
fit) or `Ill` (the document is wrong, whatever the data: an unknown namespace or verb, a
pattern that does not compile, a group that the pattern lacks, a value without a form): the
code returns an error in both cases, the distinction is what `AcceptedRuns` is about.
`Validate!Accepts` is the conjunction of the validator's rules, without the wording.

`Document`'s `pc` follows `Drain`: `seed` and `wipe` (one field at a time, in any
order, as a map is ranged over), `page`, `chain` (one request of the chain a step),
`items`, `progress`, `advance`, `save`. `scope` has the namespaces of the Go struct. A
data error ends a step as `error.mode` says; the deferred Save runs once there is a scope.
Every exchange gets any of `Responses`: a full one, an empty one, which is what an
expression can tell apart, and rows of which some lack the events or have a null for them.
An exchange under an OAuth2 grant with a `cache:` block also draws
one of `Tokens`, the token endpoint's answer, over which `TokenStore` evaluates the grant's
`expires_at`: the code does so at every exchange that fetches a token, and here every
exchange may be one (when a token is kept is in `AuthCache`). Statuses, sinks and expiry are
in the other modules.

### Paging

Servers are functions: what the handler of `internal/testserver` answers to the value
that the template's slot sends, page by page, from an event store that is filled anew
when `IsDrainStart` says so. Values on the wire carry their kind, so that a
cursor, a URL and a page number cannot be confused. `Page` is one accepted iteration with
the variant's `advance`; `Fail` one that the chain refused, retried, emptied or skipped
in warn mode, with what `advance` then makes of it.

### Checkpoint

The source has one event a second, published in order, at most `delay` seconds late; the
API answers half-open ranges. A drain is `Request`, `Accept` for every page, `Flush`,
`Save`; the answer may be up to `Flight` seconds old when it is accepted. What is
written is computed with `Values` and what is loaded has been through `ScalarThroughJSON`:
a time comes back as a string, a number as a float. `Safe` is the table that comes
out of it:

| recipe (docs/api-methods.md) | loses nothing |
|---|---|
| high-water mark (5.2) | alone or under a cursor |
| `{now: true}`, less `look` (5.3) | unpaged, and `look` at least the publication delay plus the flight of an answer |
| the same as unix seconds | unpaged, with neither delay nor flight |
| sliding window (5.4) | unpaged, and a source without delay |

Each line is tight: TLC finds a lost event for every recipe outside it.

### Fleet

One configuration is refused or resolved, each entry built, one goroutine run for each.
A drain is what the others see of it: `Load`, the mutex, a line in two pieces, `Flush`,
`Save`. A file keeps its whole lines and whether one was torn; a sink over a
buffering writer keeps pieces until `Flush` writes and then forgets them, two steps,
because Flush takes no mutex. A write may fail before a line (`WriteFails`), inside one
(`WriteTears`, which leaves half a line in the file or in the buffer) or in a buffering
writer's Flush with any part of the buffer written (`FlushFails`); `Save` runs after any of them.
`broken` is the error that `json.Encoder` and `bufio.Writer` keep: such a sink never writes
again. State paths are names of files, and two names may be
one file. `mine` is the only observation. What happens inside a drain is in
`Runner`, inside a Save in `FileStore`.

### Codec

A text is one tree that both syntaxes can spell; `Decode*` takes the syntax as a parameter
and differs only where the code or its library does:

| | yaml.v3 | encoding/json |
|---|---|---|
| a null element of a list (`Kept`) | is dropped: the list is shorter, and `add`, `concat`, `and` may be refused | calls the codec |
| a null field that is not a pointer (`Element`) | is left as it was: absent | calls the codec: the explicit null |
| a number or a bool where a string or a path is wanted (`StringOf`, `PathOf`) | its text | refused |
| a word such as `yes` where a bool is wanted (`BoolOf`) | a bool | refused |
| a float as a Value | its text | refused |

These are the libraries' rules (`StringOf`, `BoolOf`, `Kept`, `Element` are marked external), as the
structs and the codecs in `schema/` meet them. A string is a sequence
of tokens, enough to tell words, `$`, `\`, `{` and what `${...}` may hold. `Marshal*` gives the
canonical tree or `Broken`. `Reread` reads it back in either syntax.

## 3. What the runs check

| Run | distinct states | bounds |
|---|---|---|
| `emitter` | 309 | buffer 2, 6 events |
| `runner_sync` | 335 000 | 29 documents, 2 pages, 2 drains, 1 event a page |
| `runner_async` | 191 000 | buffer 1, 3 documents, 2 pages, 2 drains, 3 events |
| `filestore` | 31 000 | 3 runners, 2 stores, 2 drains |
| `auth_cache` | 3 900 000 | 2 tokens, 2 drains of 2 iterations, time 6 |
| `paging` | 225 000 | 11 templates, page sizes to 3, collections to 4, 6 pages, 2 drains |
| `checkpoint` | 12 700 | the 12 safe recipes, 3 seconds, 2 faults |
| `document` | 1 117 000 | 1500 documents, expressions nested 7 deep at most, 3 answers, 2 token answers, a step fires again once, 2 pages, 2 drains |
| `fleet` | 513 000 | 20 configurations, 2 runs, 2 drains of 1 event |
| `codec` | 31 000 | 4700 texts, 2 syntaxes |

**`emitter`** The buffer fills, drains and refills, and an error may fall on any event.
`InOrder`: the sink holds the first accepted events, no gap, swap or duplicate.
`SendUnblocks`: the producer is never stuck, even behind a failed sink. `Implements`:
`Delivery`. (`DrainedOnReturn`, `BoundedLag` and `NothingAfterError` are consequences that
are proved, not run.)

**`runner_sync`** Synchronous emitter, all faults: 29 documents that cover each error
mode, each `on_status:` verb behind a gated and cached login step with and without cached
OAuth2, each pagination variant with default and own `terminate_when:`, and a polling
step. `CleanReturn`: a nil return means everything was delivered, flushed and saved.
`RefusedPageLeavesNoTrace`: after `invalidate`, `break`, `fatal` or `warn` `progress:` has not
run, neither over the events that earlier steps of the refused chain had fetched nor over
none, and for all but `warn` the cursor is where it was. (Its mutant runs `progress:`
whatever the verdict.) `DrainReturns`: every
drain without a polling step ends, retries included. `CancelStops`: a cancelled
drain ends, polling or not. Two drains are what it takes to see a snapshot loaded after a
failure; two pages, a retry or an advance and then the cap.

**`runner_async`** Buffer of one, up to three events: the consumer holds one, the buffer
one, the producer blocks on the third. A plain producer and a fan-out producer (two items,
one dropped and one kept) before a step that may be skipped. `AtLeastOnce`: the
persisted watermark covers durable events only, through crashes and failed saves.
`QuietSink`: from Flush on the consumer is gone and the queue empty.

**`filestore`** Two runners of one process on one store, a third in another process on the
same path; any call may fail, either process may be killed, the machine may lose power once.
`NeverCorrupt`: whatever is at the path, or would be after a power loss, is complete
and synced. `SoleWriterKeepsAll`: with the single writer that the contract asks for,
every Save that returned nil is in the file. `SaveReturns`: no way out of Save keeps
the mutex. `ImplementsStore`: all stores on a path together are one atomic register.
Two drains are enough for a kill that leaves a temporary file beside the next Save, and
for an interleaving of two Saves.

**`auth_cache`** Buffer 2, latency 1, lifetimes 3 and 5, a default of 4 that is too long
for the one and too short for the other: tokens expire in the slot, in use and between
drains. `BufferSuffices`: with a buffer of two latencies OAuth2 never sends a token
that dies on the way. `DiesOnlyIfLate`: what is left of that for a login step's token,
which is used without another look at its expiry. (It does die there: the run reaches
it.) `DroppedNotReused`: a token dropped by `invalidate_cache` is gone.

**`paging`** All bundled templates that page, with every page size of the client and of
the server, so that pages are exact, short and larger than the collection. `Complete`:
a drain that its own pagination ended, none of whose pages failed, has the whole
collection in order. `PromptEnd`: a drain without a failed page asks for no page beyond the
collection. The counter that ends by its own rule (`offset`, `post_json_body`) takes a full
page to mean another (`pagination.go:281`): it asks once more when, and only when, the
collection ends on a page's edge. The bound is exact in both cases, so that a rule that sees
the end a page late (its mutant waits for an empty page) breaks it. `NothingSkipped`: whatever fails, is
retried or taken for empty, there is no gap and no repetition between two delivered events,
but for `scroll_id` and `oauth2_relay`, whose own `terminate_when` lets a failed page
start the next collection. `StagedWrites`: the entries of a custom `advance:` see the
page before.

**`checkpoint`** Every recipe of the table above with lags up to a second, two faults
(failed exchange or crash). `NothingBehind`: no event below the saved mark is missing
from the flushed output. `MarkLegible`: no request carries a mark the API cannot
read, before or after a restart. `MarkMonotone`: the saved mark never moves back.
`EventuallyDelivered`: every event reaches storage.

**`document`** One document with a login, a list and a fan-out step, and at each of
its 46 sites every path, value, predicate or block of a small vocabulary, sound or not;
three in five are rejected. `AcceptedRuns`: an accepted document meets no fault of
its own at run time. What the validator does not ask is spelled out in the property, each
fault by its name and only for a document that has what leads to it: the alias of a
`fan_out` in the step's own `if:` or `over:` (`ReadsOwnAlias`), and, by `Unchecked`, a value
left out inside another or in a comparison, a `format:` or `coerce:` verb that there is not, a
pattern that does not compile, a `capture:` beyond the groups. `PaginationStartsOver`, `ResumesFromSnapshot`, `IterationsSeeOnlyState`: the three
lifetimes of what a scope holds, over crashes and the random order of maps.

**`fleet`** Fleets with derived and given state paths, with and without a buffering
writer, an output of their own, the same output twice, two spellings of one state file;
refused configurations of every kind; single runs, once and repeating, with and without
state. `LinesWhole`, `SavedIsWritten` (at-least-once through a shared sink),
`ResumesOwn`, `SummaryTrue`, `ExitTellsTruth`, `SignalEnds`. The conditions in the first
three are needed: without each TLC finds a torn or lost line, or a stolen checkpoint. They
are conditions on the user (below). Under them `LinesWhole` says that nothing is ever written
after half a line: one is in the file while it is being written, or for good as the last
thing of a sink whose writer failed (a later process that appends writes behind it; the model has one
process). `SavedIsWritten` holds whichever write fails, with one exception that is
part of the property: Save runs after the failed Flush of a buffering writer
(`runner.go:258-264`), and the checkpoint is then ahead of the output. The error that Drain returns
is counted and makes the exit status, unless a signal arrived first, which hides it.

**`codec`** Every form of a value over every leaf, over composed operands, with missing,
null, extra and misspelled keys; every form of a predicate and of a path; decode
chains; and nulls, numbers, bools and floats wherever a value, a string, a path or a list
element may stand. `SameRules`, for texts without a null: what JSON reads YAML reads as the same,
and what JSON refuses YAML refuses too, but for a float or a scalar of the wrong type (`Loose`).
`RoundTrips`: what was read can be written unless something is missing from it (`LeftOut`:
an absent value or predicate, a slice of a literal), and reads back, in either syntax,
as the same but for what the written form loses (`Loses`): a literal that holds a `${` or an
escape is written bare and read as what it spells; the null default of `${p|null}` is
read as no default; in YAML any other null goes too; `decode: []` becomes no decode. JSON keeps the
nulls of lists and fields.

### Where code and documentation disagree

Two runs check a sentence of the documentation and TLC finds the behaviour of the code
that contradicts it (quoted in PROJECT.json, "findings").

| Run | Statement | What the code does |
|---|---|---|
| `loss_async` | state never records progress past an event that has not reached the sink (`docs/runtime.md:84-89`) | a buffered page is summarised when it is enqueued; Save runs even if the consumer's `Sink.Emit` or Flush failed |
| `numeric_mark` | a high-water mark works the same over a numeric id (`docs/api-methods.md:1279-1282`) | a number is a float64 and from seven digits on goes into the query as `1.234567e+06` |

The following came up while modelling. The models do what the code does; no run is kept
for them.

| Statement | What the code does |
|---|---|
| a failure before the flush leaves persistent state unchanged (`docs/runtime.md:84-86`) | `extract:` to `state.*` is written before the page is emitted and saved by the teardown |
| `warn`: `progress:` does not fire (`docs/runtime.md:302`) | a failed fan-out item is dropped, progress fires over the others |
| without a cache `invalidate_cache` degrades to `empty_events` (`docs/runtime.md:290-292`) | not in a fan-out: the page is retried until `MaxPages` |
| `MaxPages` bounds one drain (`docs/runtime.md:180-182`) | a request's `terminate_when` loop counts nothing |
| a FileStore shared in one process does not lose snapshots (`filestore.go:34-36`) | the mutex is free between Load and Save: the later Save replaces the earlier one's snapshot |
| cache slots live as long as the Runner (`docs/runtime.md:358`) | they are in the scope, and every drain makes a new one |
| the default store's state lives as long as the process (`state.go:48-49`, `docs/stores.md:144`) | each Drain without a Store makes its own (`runner.go:213`) |
| a window slides on after completion (`docs/api-methods.md:629-634`) | `progress:` fires on every accepted page: under a counter the window moves while its pages are counted, and events are lost |
| a Sink is safe for concurrent runners (`sink.go:25-27`) | Flush takes no mutex: a buffering writer under a fleet may repeat or drop what it holds |
| state files must be unique (`cmd_run_fleet.go:164-168`) | compared as text: `s.json` and `./s.json` are two |
| | two entries of a fleet whose `out` names one file (or standard output) get a sink and a mutex each: their lines may interleave |
| an interrupted run swallows the context error (`docs/usage.md:681`) | any error of the drain is swallowed once the context is done |
| a mapping without a discriminator decodes as Object (`docs/schema.md:898-899`) | it is an error |
| YAML null is the zero literal (`docs/schema.md:896`) | yaml.v3 never calls the codec: a null element of a list is dropped (`{add: [1, null]}` is refused), a null field is absent and cannot be written |
| JSON has the same rules as YAML (`value.go:953`) | `decode: null`, floats, numbers and bools where a string or a path is wanted (`{literal_string: 7}`, `{ref: true}`) and `yes` for a bool are accepted by YAML and refused by JSON |
| | a literal that holds `${` is written as a plain string and read back as an interpolation; the null default of `${p\|null}` is lost when written |
| an unrecognised `format:` verb is tried as a time layout at run time (`validate.go:52-55`) | it is an error there (`value.go:612`): the document is accepted and every evaluation fails |

On two points the documentation says both what the code does and its opposite: whether
`invalidate_cache` advances the pagination (`docs/runtime.md` section 8) or retries the page
(section 6, and the code), and whether a transport error in `warn` mode advances (section 6
says no, then yes; the code does).

`AtLeastOnce` is therefore stated with the proviso `~lost` (no Flush failed, no
buffered Emit failed), and `DrainReturns` for documents without a polling step.

## 4. Fairness

`Emitter`: weak fairness of the blocked send, of the two halves of `close` and of the
consumer. That is the Go scheduler, plus a `Sink.Emit` that returns. Nothing obliges the
producer to go on.

`Runner`: weak fairness of the Drain goroutine and of the consumer. HTTP exchanges
return because the client has a timeout (`runner.go:181-185`, or the context), Emit,
Flush and Save because files do. No fairness on cancellation, crashes, faults or on
the start of another drain.

`FileStore`: weak fairness of each runner's Save (system calls return, and a drain that
loaded reaches its deferred Save), strong fairness of taking the mutex, since Go's
`sync.Mutex` goes into its starvation mode for a goroutine that waits. None for Load,
kills and power losses.

`Checkpoint`: weak fairness of the clock, of the source and of the drain as a whole; failures
and crashes are bounded and need not happen. `Fleet`: weak fairness of every goroutine's
drain and of its loop (an exchange ends, a timer fires, a mutex is granted in turn), of
resolving, building and the end. The signal need not come.

`AuthCache`, `Paging`, `Document` and `Codec` state no liveness. Their runs do not check for
deadlock where the system stops: after the last drain, a rejected document, the exit of
the process, a text that was read back.

## 5. What is proved

TLAPS checks these for every set of documents, page cap, buffer size, set of faults
and bound; the assumptions are those stated in the modules (documents are
records of the right shape; numbers are naturals).

`EmitterProofs`: the invariant says that the events are, in order, those the sink has,
the one in the consumer's hands, those in the channel; and that the sequence has no
gap as long as no error was recorded. From it follow `SinkInOrder`, `Drained`,
`LagBounded`, `ErrorIsFinal`, `TypeCorrect` and the step simulation of `Refinement`.

`RunnerProofs`: `IInv` is the conjunction of

- `TypeOK`;
- `ChanInv`: the consumer runs only between `StartDrain` and the end of `wait`, and
  a synchronous runner never touches the channel;
- `PageInv`: how far the current page is emitted, and that it is entirely emitted
  when `progress:` runs. Without it nothing links the watermark to the emission;
- `TraceInv`: what the current verdict allows the scope to have changed since `base`;
- `ReturnInv`: what a nil result implies at each point of the teardown;
- `DeliveryInv`: every event of the watermark is durable, in the sink, in the
  consumer's hands or in the channel, unless something was `lost`; and what is on
  disk is durable.

`TypeCorrect`, `ProgressIsDurable` (`AtLeastOnce`), `TeardownIsQuiet` (`QuietSink`),
`NilHidesNothing` (`CleanReturn`) and `RefusalLeavesNoTrace` follow. `AtLeastOnce` is not
inductive: a queued event of the watermark is not durable, and only the teardown
order (the queue is empty at Flush, Flush is before Save) makes it so.

`FileStoreProofs`, for any number of runners, stores and drains: the invariant says that
each drain in a Save owns its file, which nobody else writes, and that a file gets the
path's name, or may still get it, only whole and synced (a power loss must not undo
that: a synced file keeps its content). `TypeCorrect`, `SnapshotIsWhole` and `Refinement` follow; for
`SoleWriterIsSafe` the invariant adds that the sole writer's view is what the file held
when it loaded.

`AuthCacheProofs`, for every latency, buffer and set of lifetimes: `SlotTimely` (the
slot's expiry is at most one latency after the token's death), which rests on
`AnswerTimely` about the answer under way, and `UseTimely` (a token in use had its
buffer left when it was looked up, or was new). `DeathIsLate` is arithmetic on the
latter; `BufferIsEnough` adds that OAuth2 sends a token at most one latency after
looking it up; `DroppedIsGone` is the tracking part of the invariant.

`FleetProofs`, for any configurations with any number of runs, any naming of state files, and
any numbers of events and drains. The invariant
speaks of entries only once they are resolved (`StageInv`), and says of them that

- `MutexInv`: a run is in the middle of a line exactly while it holds its sink's mutex;
- `PlainInv`: in an unbuffered file of one sink the line begun is the holder's, or the last
  of a sink that is `broken`;
- `BrokenInv`: the run that has a broken sink for itself has an error to show, or a signal came;
- `BufferInv`: a buffer that one run has for itself is whole lines, and at most the head of
  the one being written, and it is empty between two drains;
- `WrittenInv`: as long as no buffering writer of its own failed, every event up to a run's position is in the file or in the buffer, those up
  to the saved position in the file;
- `OwnStateInv`: a state file that no other name reaches holds what its run saved last;
- `CountInv`, `OutcomeInv`, `SummaryInv`, `ExitInv`: the counter is ahead of the lines of its
  run by the one being written; what a drain without an error has done; what the summary and
  the exit status took from that.

`LinesStayWhole`, `SavedWasWritten`, `ResumesItsOwn`, `SummaryIsTrue` and `ExitIsTrue` follow.
None is inductive by itself: `LinesWhole` needs to know who may be writing, `SavedIsWritten`
where a line is before Flush. Which lines a flush makes of a buffer's pieces (`Poured`) is a
recursive function, and what is claimed of it is proved by induction: `SetInduction`
states induction over a set instead of a predicate, which the provers can use. The assumptions
say of what form a configuration is and that every state path in it names a file.

`CheckpointProofs`, for every recipe, source, clock, publication lag, flight, page size and
number of faults. `Kinds` says what form a mark has (a time, as written or as the
snapshot gives it back, or a number of the source or the clock), and the lemmas about
`Values` say what such a mark reads as, that it reads the same after the snapshot, and what
`ReduceExtreme`, the subtraction and the verbs make of it. `MarksBehind` ties marks read off
the clock to it; `Forward`: a drain's mark is no older than the saved one; `Coverage`: for a
recipe that `Safe` allows, every event before the saved mark is durable, every event before
the drain's mark and before the cursor is accepted, and the page under way reaches to the lag
and the flight behind the clock. `SafeRecipesLoseNothing` (`NothingBehind` while a safe recipe
runs) and `NothingIsLost` (the same, from the hypothesis that only safe recipes are run, which
is what the run does) follow, and `MarkNeverBack` (`MarkMonotone`) for all recipes. `MarksStayLegible`
has as its condition what the run `numeric_mark` shows to be needed: the clock is below
`ExponentFrom`, or the mark is a time that is not turned into unix seconds. The assumptions are
those of the module: the look-back is longer than the run, a page holds at least one event, and
a second is a positive number of nanoseconds.

`PagingProofs`, for every subset of the templates, both page sizes, every collection, page
cap, and way to fail. `InStep` is the heart: between two pages the field's place in the
collection (`Position`) is the number of events delivered, and these are the collection's
first; after a failed page this is weaker for `scroll_id` and `oauth2_relay`, which may have gone
back to the start. With it go the form of the field (`Asking`) and how often the store was
filled (`Filled`). `Served` says of each handler that it answers the field's place, `Moved` of each
`advance` that it writes the place where the page ended, or stops at the end of the
collection; the rest of the proof hardly distinguishes templates. `DrainsAreComplete`,
`DrainsEndPromptly`, `DrainsSkipNothing` and `WritesAreStaged` are the run's four
properties, without a further hypothesis.

`DocumentProofs`, for every document that parsing can give (any number of fields, requests,
entries and branches, expressions of any depth), every answer of the server, page cap and
number of drains. The argument has three layers.

- *Expressions.* A result is `Sane` when it is a value, an error about the data, the fault of
  the step's own alias, or one of the faults that the expression's own nodes have (`Lapses`). `AnswerSane` takes the forms of `evalValue` and
  `evalPredicate` one by one: if a node passed `checkValue` or `checkPredicate` and its
  operands are sane, so is it; for a reference this is a case for each namespace, `checkPathRef`
  against `resolveNamespaceRef`. `EvalSane` is the induction on the depth: `SetInduction` over
  the set of depths at which the claim holds. `EvalAlike` says that an expression that
  reads no `state` has the same value in two scopes that differ in nothing else.
- *Blocks.* What each rule of the validator is worth to the step that relies on it: authentication
  and its arms, decode chains, caches, extracts (which may only add names to the
  scope), fan-out, progress, and each pagination variant. The scope that the validator assumes at
  a site (names extracted so far, the alias) is compared with what is bound when
  the run gets there.
- *The run.* `IInv` is `Placed` (where the run is, and that the snapshot holds no field that
  pagination writes), `Bound` (what is bound where), `Opening` (what the drain has seeded, laid over
  and wiped so far) and `AcceptedRuns`; one lemma for each action. `PaginationStartsOver` is
  not inductive: it speaks of the first request, and follows from the invariant that every
  field wiped so far starts over; that the wipe does not take a stored field needs the
  validator's rule that the two lifetimes share no field, through `Snapshot`.

`AcceptedNeverFaults`, `EachDrainStartsOver`, `EachDrainResumes` and `EachIterationFresh` are the
four properties of the run, without a further hypothesis; `RunTyped` is `TypeOK`. The assumptions
are `IsDocument` of each document, positive bounds, and that `MaxDepth` is a number.

The proof found what the instance of the run had not: a comparison in a predicate whose value
is left out passes `checkPredicate` (it asks `checkValue`, which lets an absent value pass)
and fails in `evalPredicate` when it is reached. TLC confirmed it once such a predicate was in
the vocabulary. It is now part of `Unchecked`, as for a value inside another.

Each of these four invariants was checked with TLC on the bounds of its run before it
was proved (that of `Checkpoint` over the unsafe recipes too; that of `Document` without
`doc \in Documents` and `Accepts(doc)`, which no step changes and TLC would evaluate anew in
every state).

Liveness (`SendUnblocks`, `DrainReturns`, `CancelStops`, `SaveReturns`, `EventuallyDelivered`,
`SignalEnds`) is model-checked only: the prover has neither fairness nor ENABLED. So are
`SameRules` and `RoundTrips` of `Codec`, which recurses over texts with RECURSIVE operators, for
which the prover has no SMT backend, and which are about what a recursive definition computes
on every tree. `LossAsync.cfg` and `NumericMark.cfg` show behaviours, which a proof would not.

## 6. Not modelled

- Tracing and redaction: formatting, without influence on a drain.
- The bytes of an exchange: URL and header construction, signatures, decompression, CSV
  and zip contents. `Document` has what each stage accepts and what an evaluation may
  fail on.
- The struct fields of a document that yaml.v3 and encoding/json decode by their tags, and
  `IsSecret`.
- Dates and regular expressions beyond the few texts of `Values` and `Terms`.
- `init`, `template`, `validate`, `version`, flags and the configuration file: one pass
  of terminal and file I/O.
- The generators: one pass over the types, at build time.
- The test server's login, fan-out, CSV and export scenarios: their pages are what
  `Document`'s `Responses` stand for.
- The memory model: fields without a mutex (`MemoryStore` in two concurrent Drains) are
  ruled out by `runner.go:38-39` and are not modelled.

PROJECT.json, "components", says for each part what is there and what is not.

## 7. Plan

Modelled as planned: `Emitter`, `Runner`, `FileStore`, `AuthCache`, `Values`, `Terms`,
`Validate`, `Document`, `Paging`, `Checkpoint`, `Fleet`, `Codec`. Proved: every safety and action
property that a run checks, those of `Codec` excepted. What remains, in this order:

1. `Checkpoint`: that `Safe` is tight, as theorems about the step that loses the event.
2. `Codec`: its decoders as recursive functions over texts of bounded depth, as `Terms` has
   them, and `SameRules` by induction on the depth.
3. `AuthCache`: several slots.
