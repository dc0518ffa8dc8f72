------------------------------ MODULE Delivery ------------------------------
(***************************************************************************)
(* What the emitter interface of client/emitter.go promises the Drain     *)
(* loop, without saying how: events are accepted one at a time, handed to *)
(* the Sink in the order they were accepted, delivery stops for good at   *)
(* the first Sink.Emit error, and close returns only once nothing that    *)
(* was accepted can still reach the Sink.                                 *)
(*                                                                         *)
(* Events are numbered in the order in which emit accepted them, so the   *)
(* whole history of a drain is two counters.                              *)
(***************************************************************************)
EXTENDS Naturals

VARIABLES
  accepted,   \* how many events emit has accepted
  delivered,  \* how many of them Sink.Emit has taken: the first ones
  failed,     \* Sink.Emit has returned an error
  returned    \* close has returned

dvars == <<accepted, delivered, failed, returned>>

DInit ==
  /\ accepted = 0
  /\ delivered = 0
  /\ failed = FALSE
  /\ returned = FALSE

(* emit returned nil. *)
Accept ==
  /\ ~returned
  /\ accepted' = accepted + 1
  /\ UNCHANGED <<delivered, failed, returned>>

(* Sink.Emit took the next event in line. *)
Deliver ==
  /\ ~returned /\ ~failed
  /\ delivered < accepted
  /\ delivered' = delivered + 1
  /\ UNCHANGED <<accepted, failed, returned>>

(* Sink.Emit refused the next event in line: it and all later ones are    *)
(* dropped.                                                                *)
Fail ==
  /\ ~returned /\ ~failed
  /\ delivered < accepted
  /\ failed' = TRUE
  /\ UNCHANGED <<accepted, delivered, returned>>

(* close returned: everything accepted was delivered, or the error is     *)
(* reported.                                                               *)
Return ==
  /\ ~returned
  /\ failed \/ delivered = accepted
  /\ returned' = TRUE
  /\ UNCHANGED <<accepted, delivered, failed>>

DNext == Accept \/ Deliver \/ Fail \/ Return

DSpec == DInit /\ [][DNext]_dvars
=============================================================================
