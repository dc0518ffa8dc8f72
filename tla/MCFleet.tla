------------------------------- MODULE MCFleet -------------------------------
(***************************************************************************)
(* Fleet for TLC.  "a" and "b" are inputs whose base names differ, "b" and *)
(* "c" have one base name and derive one state path; "s" and "t" are two   *)
(* spellings of one state file.                                            *)
(***************************************************************************)
EXTENDS Fleet

Paths == [a |-> "da", b |-> "db", c |-> "db"]
Spelled == [da |-> "fa", db |-> "fb", s |-> "f", t |-> "f"]

Run(input, state, out, once, interval) ==
  [input |-> input, state |-> state, out |-> out, once |-> once, interval |-> interval]
Plain(input) == Run(input, "", "", FALSE, FALSE)

FleetOf(once, interval, stateDir, buffered, runs) ==
  [mode |-> "fleet", once |-> once, interval |-> interval, out |-> "-",
   stateDir |-> stateDir, buffered |-> buffered, runs |-> runs]
SingleOf(once, interval, buffered, run) ==
  [mode |-> "single", once |-> once, interval |-> interval, out |-> "-",
   stateDir |-> FALSE, buffered |-> buffered, runs |-> <<run>>]

MCConfigs ==
  \* derived states, one shared sink, with and without a buffer
  { FleetOf(FALSE, TRUE, TRUE, buffered, <<Plain("a"), Run("b", "", "", TRUE, FALSE)>>) : buffered \in BOOLEAN }
  \* a sink of its own; an out that is the shared output; two spellings of one state
  \cup { FleetOf(FALSE, TRUE, FALSE, TRUE, <<Run("a", "s", "", FALSE, FALSE), Run("b", "da", "o", TRUE, FALSE)>>),
         FleetOf(FALSE, TRUE, TRUE, FALSE, <<Plain("a"), Run("b", "", "-", TRUE, FALSE)>>),
         FleetOf(FALSE, TRUE, FALSE, FALSE, <<Run("a", "s", "", FALSE, FALSE), Run("b", "t", "", TRUE, FALSE)>>) }
  \* refused: one derived state, one state, one input, no state, once with interval
  \cup { FleetOf(FALSE, FALSE, TRUE, FALSE, <<Plain("b"), Plain("c")>>),
         FleetOf(FALSE, TRUE, FALSE, FALSE, <<Run("a", "s", "", FALSE, FALSE), Run("b", "s", "", FALSE, FALSE)>>),
         FleetOf(FALSE, FALSE, FALSE, FALSE, <<Run("a", "s", "", FALSE, FALSE), Run("a", "da", "", FALSE, FALSE)>>),
         FleetOf(FALSE, FALSE, FALSE, FALSE, <<Plain("a"), Plain("b")>>),
         FleetOf(TRUE, TRUE, TRUE, FALSE, <<Plain("a"), Plain("b")>>),
         FleetOf(FALSE, FALSE, TRUE, FALSE, <<Plain("a"), Run("b", "", "", TRUE, TRUE)>>) }
  \* one Runner: one-shot, repeating, with and without a state file
  \cup { SingleOf(once, ~once, buffered, Run("a", state, "", FALSE, FALSE)) :
           once \in BOOLEAN, buffered \in BOOLEAN, state \in {"", "s"} }
  \cup { SingleOf(FALSE, FALSE, FALSE, Run("", "s", "", FALSE, FALSE)) }
=============================================================================
