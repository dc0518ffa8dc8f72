------------------------------- MODULE Store --------------------------------
(***************************************************************************)
(* What the Store interface of client/state.go promises its Runners,      *)
(* without files: a register that Load reads and Save replaces as a whole. *)
(* A Save that reports success has taken effect, one that reports an      *)
(* error never does, and one cut short by a crash did or did not.  A      *)
(* power loss may take the register back to an earlier value, as a whole. *)
(*                                                                         *)
(* A snapshot is the set of drains whose progress it contains; drain d    *)
(* saves what it loaded and itself.                                        *)
(***************************************************************************)
CONSTANTS Runners, Drains

VARIABLES
  value,    \* the snapshot Load returns
  settled,  \* the snapshot a power loss goes back to
  view,     \* what each runner loaded
  outcome   \* of each drain's Save: "none", "installed", "ok" or "error"

svars == <<value, settled, view, outcome>>

SInit ==
  /\ value = {}
  /\ settled = {}
  /\ view = [r \in Runners |-> {}]
  /\ outcome = [d \in Drains |-> "none"]

SLoad(r) ==
  /\ view' = [view EXCEPT ![r] = value]
  /\ UNCHANGED <<value, settled, outcome>>

(* The Save of drain d, by runner r, takes effect. *)
SInstall(r, d) ==
  /\ outcome[d] = "none"
  /\ value' = view[r] \cup {d}
  /\ outcome' = [outcome EXCEPT ![d] = "installed"]
  /\ UNCHANGED <<settled, view>>

SReturnOK(d) ==
  /\ outcome[d] = "installed"
  /\ outcome' = [outcome EXCEPT ![d] = "ok"]
  /\ UNCHANGED <<value, settled, view>>

SReturnError(d) ==
  /\ outcome[d] = "none"
  /\ outcome' = [outcome EXCEPT ![d] = "error"]
  /\ UNCHANGED <<value, settled, view>>

SSettle == settled' = value /\ UNCHANGED <<value, view, outcome>>

SPowerLoss == value' = settled /\ UNCHANGED <<settled, view, outcome>>

SNext ==
  \/ \E r \in Runners : SLoad(r)
  \/ \E r \in Runners, d \in Drains : SInstall(r, d)
  \/ \E d \in Drains : SReturnOK(d) \/ SReturnError(d)
  \/ SSettle \/ SPowerLoss

SSpec == SInit /\ [][SNext]_svars
=============================================================================
