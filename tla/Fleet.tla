-------------------------------- MODULE Fleet --------------------------------
(***************************************************************************)
(* The run loop of the command line: one Runner, or a fleet of them, each  *)
(* in a goroutine of its own (cmd/skopos/cmd_run.go, cmd_run_fleet.go),    *)
(* with what they share: the JSONLSink (client/sink.go), the state files,  *)
(* the signal and the counters of the summary.                             *)
(*                                                                         *)
(* A Drain is its use of these: Load, the events one by one, Flush, Save.  *)
(* What happens inside it is in Runner, inside a Save in FileStore.  A     *)
(* source numbers its events; a drain delivers the next of them.  A line   *)
(* goes to the writer in two pieces, and a file keeps which lines are in   *)
(* it, not their order.  The writer is a file, or a writer with a buffer   *)
(* and a Flush of its own, as a program that uses the library may pass to  *)
(* NewJSONLSink.  It may fail at any piece: json.Encoder keeps the first   *)
(* error of its writer, and a bufio.Writer does for Write and Flush, so    *)
(* that such a sink never writes again.                                    *)
(***************************************************************************)
EXTENDS Integers, Sequences, FiniteSets, Functions, SequencesExt

CONSTANTS
  Configs,       \* the configurations, after the flags are laid over the file
  DeriveState,   \* deriveStateName under state_dir: from an input's path to a state path
  FileOf,        \* the file that a state path names: two paths may name one
  EventsPerDrain,\* bound: events of a drain
  MaxDrains      \* bound: drains of a run

(* A configuration: mode "fleet" or "single", once, interval and out of    *)
(* the top level, whether there is a state_dir, the entries of runs: (for  *)
(* "single" one, of the flags), and whether the writers buffer.  A path    *)
(* left out is "".                                                         *)
EntrySpace == [input : STRING, state : STRING, out : STRING, once : BOOLEAN, interval : BOOLEAN]
ConfigSpace ==
  [mode : {"fleet", "single"}, once : BOOLEAN, interval : BOOLEAN, out : STRING,
   stateDir : BOOLEAN, buffered : BOOLEAN, runs : Seq(EntrySpace) \ {<< >>}]
ASSUME ConfigsAssumption ==
  Configs \subseteq ConfigSpace /\ \A c \in Configs : c.mode = "single" => Len(c.runs) = 1

(* Every state path that a configuration gives or derives names a file. *)
ASSUME PathsAssumption ==
  \A c \in Configs : \A i \in DOMAIN c.runs :
    /\ c.runs[i].state \in DOMAIN FileOf \cup {""}
    /\ c.mode = "fleet" /\ c.stateDir => DeriveState[c.runs[i].input] \in DOMAIN FileOf
ASSUME BoundsAssumption == EventsPerDrain \in Nat \ {0} /\ MaxDrains \in Nat \ {0}

VARIABLES
  config,    \* the configuration
  phase,     \* "resolve", "build", "drive", "summary", "exited"
  entries,   \* what resolveFleetEntries made of the entries
  built,     \* the entries whose Runner is built
  cancelled, \* the signal arrived
  exit,      \* the status of the process
  summary,   \* the table printed at the end
  pc,        \* per run: where its goroutine is
  at,        \* per run: the last event of its source that was emitted
  failed,    \* per run: its drain has an error
  sent,      \* per run: events of this drain
  counted, drains, errors, \* per run: the counters of fleetRun
  saved,     \* per state file: the position it holds
  mine,      \* ghost, per run: the position its last good Save wrote
  lock,      \* per sink: the run that holds its mutex, or 0
  file,      \* per output: its whole lines, the line begun, whether a line was torn
  buf,       \* per sink: the pieces that the writer still holds
  broken     \* per sink: its encoder or its writer keeps an error

drainVars == <<pc, at, failed, sent, counted, drains, errors, saved, mine, lock, file, buf, broken>>
vars == <<config, phase, entries, built, cancelled, exit, summary, drainVars>>

Runs == DOMAIN config.runs
Files == Range(FileOf)
Entry(r) == entries[r]
File(r) == FileOf[Entry(r).state]

(* The shared sink is 0, a run with an out of its own has a sink of its own. *)
Sinks == {0} \cup Runs
SinkOf(r) == IF Entry(r).out = "" THEN 0 ELSE r

(* Every sink opens its own output, to append; two may open one. *)
Outputs == {config.out} \cup {config.runs[r].out : r \in Runs}
Output(s) == IF s = 0 THEN config.out ELSE Entry(s).out

NoLine == [run |-> 0, event |-> 0]
Blank == [lines |-> {}, begun |-> NoLine, torn |-> FALSE]

Init ==
  /\ config \in Configs
  /\ phase = "resolve" /\ entries = << >> /\ built = 0 /\ cancelled = FALSE /\ exit = -1 /\ summary = << >>
  /\ pc = [r \in Runs |-> "idle"] /\ failed = [r \in Runs |-> FALSE]
  /\ at = [r \in Runs |-> 0] /\ sent = [r \in Runs |-> 0]
  /\ counted = [r \in Runs |-> 0] /\ drains = [r \in Runs |-> 0] /\ errors = [r \in Runs |-> 0]
  /\ saved = [f \in Files |-> 0] /\ mine = [r \in Runs |-> 0]
  /\ lock = [s \in Sinks |-> 0] /\ file = [o \in Outputs |-> Blank] /\ buf = [s \in Sinks |-> << >>]
  /\ broken = [s \in Sinks |-> FALSE]
-----------------------------------------------------------------------------
(* runRun and resolveFleetEntries: what a run inherits, and what refuses   *)
(* the whole configuration before anything is opened.                      *)
Resolved(c, ent) ==
  [input |-> ent.input, out |-> ent.out,
   state |-> IF ent.state = "" /\ c.mode = "fleet" /\ c.stateDir THEN DeriveState[ent.input] ELSE ent.state,
   repeats |-> ~(ent.once \/ c.once) /\ (ent.interval \/ c.interval)]

(* Mutant: two runs may have one state path. *)
RefusedUnlessNamed(c, res) ==
  \/ c.once /\ c.interval
  \/ \E r \in DOMAIN res : res[r].input = ""
  \/ c.mode = "fleet" /\ \E r \in DOMAIN res : res[r].state = "" \/ (c.runs[r].once /\ c.runs[r].interval)

Refused(c, res) ==
  \/ c.once /\ c.interval
  \/ \E r \in DOMAIN res : res[r].input = ""
  \/ c.mode = "fleet" /\ \E r \in DOMAIN res :
       \/ c.runs[r].once /\ c.runs[r].interval
       \/ res[r].state = ""
       \/ \E q \in DOMAIN res \ {r} : res[q].state = res[r].state \/ res[q].input = res[r].input

Exit(status) == phase' = "exited" /\ exit' = status

Resolve ==
  LET res == [r \in Runs |-> Resolved(config, config.runs[r])] IN
  /\ phase = "resolve"
  /\ IF Refused(config, res) THEN Exit(1) /\ UNCHANGED entries
     ELSE phase' = "build" /\ entries' = res /\ UNCHANGED exit
  /\ UNCHANGED <<config, built, cancelled, summary, drainVars>>

(* buildFleetRun, one entry after the other; all are built before any starts. *)
Build ==
  /\ phase = "build" /\ built' = built + 1
  /\ IF built + 1 = Cardinality(Runs)
     THEN phase' = "drive" /\ pc' = [r \in Runs |-> "start"]
     ELSE UNCHANGED <<phase, pc>>
  /\ UNCHANGED <<config, entries, cancelled, exit, summary, at, failed, sent, counted, drains, errors, saved, mine, lock, file, buf, broken>>

(* The document does not load or validate, a file cannot be opened, the    *)
(* preflight of the state path fails.                                       *)
BuildFails ==
  /\ phase = "build" /\ Exit(1)
  /\ UNCHANGED <<config, entries, built, cancelled, summary, drainVars>>

(* SIGINT or SIGTERM. *)
Signal ==
  /\ phase = "drive" /\ ~cancelled /\ cancelled' = TRUE
  /\ UNCHANGED <<config, phase, entries, built, exit, summary, drainVars>>
-----------------------------------------------------------------------------
(* One Drain.  Its goroutine goes on until the process exits; Stands: what *)
(* its steps leave alone.                                                  *)
Goes(r, from, to) == phase \in {"drive", "summary"} /\ pc[r] = from /\ pc' = [pc EXCEPT ![r] = to]
Stands == UNCHANGED <<config, phase, entries, built, cancelled, exit, summary>>

(* Without a path every Drain has a new MemoryStore. *)
Loaded(r) == IF Entry(r).state = "" THEN 0 ELSE saved[File(r)]

StartDrain(r) ==
  /\ Goes(r, "start", "page") /\ Stands
  /\ drains' = [drains EXCEPT ![r] = @ + 1]
  /\ at' = [at EXCEPT ![r] = Loaded(r)] /\ sent' = [sent EXCEPT ![r] = 0] /\ failed' = [failed EXCEPT ![r] = FALSE]
  /\ UNCHANGED <<counted, errors, saved, mine, lock, file, buf, broken>>

(* Load fails: neither Flush nor Save is reached. *)
LoadFails(r) ==
  /\ Goes(r, "start", "returned") /\ Stands /\ Entry(r).state # ""
  /\ drains' = [drains EXCEPT ![r] = @ + 1] /\ failed' = [failed EXCEPT ![r] = TRUE]
  /\ UNCHANGED <<at, sent, counted, errors, saved, mine, lock, file, buf, broken>>

(* The page loop ends: no more events, or an error, of an exchange or of   *)
(* the context.                                                             *)
EndPages(r, fails) ==
  /\ Goes(r, "page", "flush") /\ Stands
  /\ failed' = [failed EXCEPT ![r] = fails]
  /\ UNCHANGED <<at, sent, counted, drains, errors, saved, mine, lock, file, buf, broken>>

(* countingSink.Emit counts, then JSONLSink.Emit waits for the mutex. *)
CountEvent(r) ==
  /\ Goes(r, "page", "lock") /\ Stands
  /\ sent[r] < EventsPerDrain /\ sent' = [sent EXCEPT ![r] = @ + 1]
  /\ counted' = [counted EXCEPT ![r] = @ + 1]
  /\ UNCHANGED <<at, failed, drains, errors, saved, mine, lock, file, buf, broken>>

(* Mutant: Emit does not take the mutex. *)
LockUnchecked(r) ==
  /\ Goes(r, "lock", "head") /\ Stands
  /\ lock' = [lock EXCEPT ![SinkOf(r)] = r]
  /\ UNCHANGED <<at, failed, sent, counted, drains, errors, saved, mine, file, buf, broken>>

Lock(r) ==
  /\ Goes(r, "lock", "head") /\ Stands
  /\ lock[SinkOf(r)] = 0 /\ lock' = [lock EXCEPT ![SinkOf(r)] = r]
  /\ UNCHANGED <<at, failed, sent, counted, drains, errors, saved, mine, file, buf, broken>>

(* A piece reaches a file.  A line is whole when its two pieces meet. *)
Append1(f, piece) ==
  IF piece.part = "head" THEN [f EXCEPT !.begun = piece.line, !.torn = @ \/ f.begun # NoLine]
  ELSE [lines |-> IF f.begun = piece.line THEN f.lines \cup {piece.line} ELSE f.lines,
        begun |-> NoLine, torn |-> f.torn \/ f.begun # piece.line]

Put(r, part) ==
  LET s == SinkOf(r)
      piece == [line |-> [run |-> r, event |-> at[r] + 1], part |-> part]
  IN IF config.buffered THEN buf' = [buf EXCEPT ![s] = Append(@, piece)] /\ UNCHANGED file
     ELSE file' = [file EXCEPT ![Output(s)] = Append1(@, piece)] /\ UNCHANGED buf

WriteHead(r) ==
  /\ Goes(r, "head", "tail") /\ Stands /\ ~broken[SinkOf(r)] /\ Put(r, "head")
  /\ UNCHANGED <<at, failed, sent, counted, drains, errors, saved, mine, lock, broken>>

WriteTail(r) ==
  /\ Goes(r, "tail", "page") /\ Stands /\ Put(r, "tail")
  /\ at' = [at EXCEPT ![r] = @ + 1] /\ lock' = [lock EXCEPT ![SinkOf(r)] = 0]
  /\ UNCHANGED <<failed, sent, counted, drains, errors, saved, mine, broken>>

Breaks(s, b) == broken' = [broken EXCEPT ![s] = b]

(* Mutant: the mutex is not released on the error path. *)
WriteFailsHolding(r) ==
  /\ Goes(r, "head", "flush") /\ Stands
  /\ failed' = [failed EXCEPT ![r] = TRUE]
  /\ \E b \in {broken[SinkOf(r)], TRUE} : Breaks(SinkOf(r), b)
  /\ UNCHANGED <<at, sent, counted, drains, errors, saved, mine, lock, file, buf>>

(* Encode fails before anything of the line is written: the event does not *)
(* marshal, the writer fails, or the encoder or its writer keeps an error. *)
WriteFails(r) ==
  /\ Goes(r, "head", "flush") /\ Stands
  /\ failed' = [failed EXCEPT ![r] = TRUE] /\ lock' = [lock EXCEPT ![SinkOf(r)] = 0]
  /\ \E b \in {broken[SinkOf(r)], TRUE} : Breaks(SinkOf(r), b)
  /\ UNCHANGED <<at, sent, counted, drains, errors, saved, mine, file, buf>>

(* The writer fails with a part of the line written. *)
WriteTears(r) ==
  /\ Goes(r, "tail", "flush") /\ Stands
  /\ failed' = [failed EXCEPT ![r] = TRUE] /\ lock' = [lock EXCEPT ![SinkOf(r)] = 0]
  /\ Breaks(SinkOf(r), TRUE)
  /\ UNCHANGED <<at, sent, counted, drains, errors, saved, mine, file, buf>>
-----------------------------------------------------------------------------
(* JSONLSink.Flush, without the mutex.  A buffering writer writes what it  *)
(* has, then empties its buffer; a file is synced.                         *)

(* Mutant: Flush only syncs. *)
FlushSyncs(r) ==
  /\ Goes(r, "flush", "save") /\ Stands
  /\ UNCHANGED <<at, failed, sent, counted, drains, errors, saved, mine, lock, file, buf, broken>>

(* The pieces reach a file in their order. *)
Poured(f, pieces) ==
  LET after[i \in 0 .. Len(pieces)] == IF i = 0 THEN f ELSE Append1(after[i - 1], pieces[i])
  IN after[Len(pieces)]

FlushWrites(r) ==
  LET s == SinkOf(r) IN
  /\ Goes(r, "flush", IF config.buffered THEN "reset" ELSE "save") /\ Stands
  /\ ~(config.buffered /\ broken[s])
  /\ file' = [file EXCEPT ![Output(s)] = Poured(@, buf[s])]
  /\ UNCHANGED <<at, failed, sent, counted, drains, errors, saved, mine, lock, buf, broken>>

(* The sync of a file fails, or the buffering writer's Flush with a part   *)
(* of its buffer written; what is left in it never is.  Drain keeps the    *)
(* error and saves all the same.                                           *)
FlushFails(r) ==
  LET s == SinkOf(r) IN
  /\ Goes(r, "flush", "save") /\ Stands
  /\ failed' = [failed EXCEPT ![r] = TRUE]
  /\ IF ~config.buffered THEN UNCHANGED <<file, broken>>
     ELSE \E n \in 0 .. (IF broken[s] THEN 0 ELSE Len(buf[s])) :
       /\ file' = [file EXCEPT ![Output(s)] = Poured(@, SubSeq(buf[s], 1, n))]
       /\ Breaks(s, TRUE)
  /\ UNCHANGED <<at, sent, counted, drains, errors, saved, mine, lock, buf>>

FlushResets(r) ==
  /\ Goes(r, "reset", "save") /\ Stands
  /\ buf' = [buf EXCEPT ![SinkOf(r)] = << >>]
  /\ UNCHANGED <<at, failed, sent, counted, drains, errors, saved, mine, lock, file, broken>>

SaveReturns(r) ==
  /\ Goes(r, "save", "returned") /\ Stands
  /\ mine' = [mine EXCEPT ![r] = at[r]]
  /\ saved' = IF Entry(r).state = "" THEN saved ELSE [saved EXCEPT ![File(r)] = at[r]]
  /\ UNCHANGED <<at, failed, sent, counted, drains, errors, lock, file, buf, broken>>

SaveFails(r) ==
  /\ Goes(r, "save", "returned") /\ Stands /\ Entry(r).state # ""
  /\ failed' = [failed EXCEPT ![r] = TRUE]
  /\ UNCHANGED <<at, sent, counted, drains, errors, saved, mine, lock, file, buf, broken>>
-----------------------------------------------------------------------------
(* driveFleetRun and the loop of runRun. *)
OneShot(r) == config.mode = "single" /\ ~Entry(r).repeats

(* An error of a drain is dropped once the signal has arrived; otherwise   *)
(* it is counted, and the run goes on.                                     *)
Returned(r) ==
  /\ Goes(r, "returned", IF cancelled \/ ~Entry(r).repeats THEN "done" ELSE "sleep") /\ Stands
  /\ errors' = [errors EXCEPT ![r] = IF failed[r] /\ ~cancelled THEN @ + 1 ELSE @]
  /\ UNCHANGED <<at, failed, sent, counted, drains, saved, mine, lock, file, buf, broken>>

(* The interval passes, or the context is done first. *)
Wake(r) ==
  /\ Goes(r, "sleep", "start") /\ Stands /\ drains[r] < MaxDrains
  /\ UNCHANGED <<at, failed, sent, counted, drains, errors, saved, mine, lock, file, buf, broken>>

Interrupted(r) ==
  /\ Goes(r, "sleep", "done") /\ Stands /\ cancelled
  /\ UNCHANGED <<at, failed, sent, counted, drains, errors, saved, mine, lock, file, buf, broken>>

(* wg.Wait, then the summary. *)
Finished == \A r \in Runs : pc[r] = "done"

(* Mutant: the summary does not wait for a run that sleeps. *)
SummaryEarly ==
  /\ phase = "drive" /\ config.mode = "fleet" /\ \A r \in Runs : pc[r] \in {"sleep", "done"}
  /\ phase' = "summary"
  /\ summary' = [r \in Runs |-> [drains |-> drains[r], events |-> counted[r], errors |-> errors[r]]]
  /\ UNCHANGED <<config, entries, built, cancelled, exit, drainVars>>

Summary ==
  /\ phase = "drive" /\ config.mode = "fleet" /\ Finished
  /\ phase' = "summary"
  /\ summary' = [r \in Runs |-> [drains |-> drains[r], events |-> counted[r], errors |-> errors[r]]]
  /\ UNCHANGED <<config, entries, built, cancelled, exit, drainVars>>

(* A fleet ends well whatever its drains returned. *)
ExitFleet ==
  /\ phase = "summary" /\ Exit(0)
  /\ UNCHANGED <<config, entries, built, cancelled, summary, drainVars>>

(* Mutant: a single run always ends well. *)
ExitSingleQuiet ==
  /\ phase = "drive" /\ config.mode = "single" /\ Finished /\ Exit(0)
  /\ UNCHANGED <<config, entries, built, cancelled, summary, drainVars>>

(* A single run reports the error of a one-shot Drain, unless the signal   *)
(* had arrived when Drain returned.                                        *)
ExitSingle ==
  /\ phase = "drive" /\ config.mode = "single" /\ Finished
  /\ Exit(IF OneShot(1) /\ errors[1] > 0 THEN 1 ELSE 0)
  /\ UNCHANGED <<config, entries, built, cancelled, summary, drainVars>>

Drain(r) ==
  \/ StartDrain(r) \/ LoadFails(r) \/ EndPages(r, FALSE) \/ EndPages(r, TRUE)
  \/ CountEvent(r) \/ Lock(r) \/ WriteHead(r) \/ WriteTail(r) \/ WriteFails(r) \/ WriteTears(r)
  \/ FlushWrites(r) \/ FlushFails(r) \/ FlushResets(r) \/ SaveReturns(r) \/ SaveFails(r)
Drive(r) == Returned(r) \/ Wake(r) \/ Interrupted(r)

Next ==
  \/ Resolve \/ Build \/ BuildFails \/ Signal \/ Summary \/ ExitFleet \/ ExitSingle
  \/ \E r \in Runs : Drain(r) \/ Drive(r)

Spec == Init /\ [][Next]_vars

(* The scheduler runs every goroutine, an exchange ends (the client has a  *)
(* timeout, pagination a cap), a mutex is granted in turn, the timer of an *)
(* interval fires.  Nothing says that the signal comes or a step fails.    *)
(* A run beyond Runs never moves.                                          *)
RunIds == 1..Max({Len(c.runs) : c \in Configs})
FairSpec ==
  /\ Spec /\ WF_vars(Resolve) /\ WF_vars(Build) /\ WF_vars(Summary) /\ WF_vars(ExitFleet) /\ WF_vars(ExitSingle)
  /\ \A r \in RunIds : WF_vars(r \in Runs /\ Drain(r)) /\ WF_vars(r \in Runs /\ Drive(r))
-----------------------------------------------------------------------------
(* Properties.                                                             *)

SharesSink(r) == \E q \in Runs \ {r} : SinkOf(q) = SinkOf(r)
SharesOutput(r) == \E q \in Runs \ {r} : SinkOf(q) # SinkOf(r) /\ Output(SinkOf(q)) = Output(SinkOf(r))
SharesState(r) == \E q \in Runs \ {r} : Entry(q).state # "" /\ File(q) = File(r)
Aliased(r) == \E q \in Runs : Entry(q).state # "" /\ Entry(q).state # Entry(r).state /\ File(q) = File(r)
Prepared == phase \in {"drive", "summary", "exited"} /\ entries # << >> /\ built = Cardinality(Runs)

(* "Concurrent Emit calls are serialised ... so output stays line-aligned" *)
(* (sink.go).  It does, on two conditions that the code leaves to its      *)
(* user: the writer under a shared sink does not buffer, because Flush is  *)
(* outside the mutex, and no two outs name one output.  Nothing is ever    *)
(* written after half a line: one is in the file only while its Emit holds *)
(* the mutex, or as the last that a sink wrote whose writer failed.        *)
LinesWhole ==
  Prepared => \A r \in Runs :
    ~(config.buffered /\ SharesSink(r)) /\ ~SharesOutput(r) =>
      LET out == file[Output(SinkOf(r))] IN
      /\ ~out.torn
      /\ out.begun # NoLine => lock[SinkOf(r)] # 0 \/ broken[SinkOf(r)]

(* A drain that ends with an error is counted when it has returned, unless *)
(* the signal arrived before that.                                         *)
Reported(r) ==
  errors[r] > 0 \/ cancelled \/ (failed[r] /\ pc[r] \in {"flush", "save", "returned"})

(* At-least-once through the fleet: what the state file of a run says is   *)
(* behind it has reached its output, whatever the other runs do to the     *)
(* sink, whichever write fails and whenever the process stops.  The one    *)
(* way to lose is a buffering writer that fails, since Save runs after a   *)
(* failed Flush (runner.go:258-264): an error of the run tells so then,    *)
(* but for one that a signal hid.  A run that shares a buffering sink, an  *)
(* output or, under another name, a state file is not promised this.       *)
SavedIsWritten ==
  Prepared => \A r \in Runs :
    Entry(r).state # "" /\ ~Aliased(r) /\ ~SharesOutput(r) /\ ~(config.buffered /\ SharesSink(r))
      => \/ \A e \in 1..saved[File(r)] : [run |-> r, event |-> e] \in file[Output(SinkOf(r))].lines
         \/ config.buffered /\ broken[SinkOf(r)] /\ Reported(r)

(* A drain goes on from what its own run saved last: no run of the fleet   *)
(* reads the checkpoint of another.  resolveFleetEntries compares paths as *)
(* text, so it holds only if no two spell one file.                        *)
ResumesOwn ==
  [][\A r \in Runs : pc[r] = "start" /\ pc'[r] = "page" /\ Entry(r).state # "" /\ ~Aliased(r)
       => at'[r] = mine[r]]_vars

(* The summary is the last word: the counters it printed are final, no run *)
(* is still at work, and no line was written that it does not count.       *)
SummaryTrue ==
  summary # << >> => \A r \in Runs :
    /\ summary[r] = [drains |-> drains[r], events |-> counted[r], errors |-> errors[r]]
    /\ pc[r] = "done"
    /\ Cardinality({l \in UNION {file[o].lines : o \in Outputs} : l.run = r}) <= summary[r].events

(* A one-shot run that exits 0 without having been told to stop has        *)
(* written every event it took and saved its progress (cmd_run.go).        *)
ExitTellsTruth ==
  exit = 0 /\ config.mode = "single" /\ OneShot(1) /\ ~cancelled =>
    /\ \A e \in (at[1] - sent[1] + 1)..at[1] : [run |-> 1, event |-> e] \in file[Output(SinkOf(1))].lines
    /\ mine[1] = at[1]

(* A signal ends the process, whatever the runs are doing: sleeping, in a  *)
(* drain, or waiting for a sink another run holds.                         *)
SignalEnds == cancelled ~> phase = "exited"
=============================================================================
