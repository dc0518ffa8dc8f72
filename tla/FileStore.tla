----------------------------- MODULE FileStore ------------------------------
(***************************************************************************)
(* FileStore (client/filestore.go) under several Runners: Load reads the  *)
(* snapshot file, Save replaces it by create temp, write, sync, close,    *)
(* rename, each of which may fail, while a process may be killed and the   *)
(* machine may lose power.                                                 *)
(*                                                                         *)
(* Every drain is one Load and one Save.  Drains are numbered, and drain  *)
(* d's snapshot is what d loaded plus d itself: the set of the drains     *)
(* whose progress it contains.  The temporary file of drain d is file d.  *)
(*                                                                         *)
(* External: the file system.  A file's content survives a power loss     *)
(* once it was synced, and until then anything from nothing to all of it  *)
(* may; rename replaces the directory entry atomically, and since nobody   *)
(* syncs the directory it reaches the disk at some later time.             *)
(***************************************************************************)
EXTENDS Integers

CONSTANTS
  Runners,    \* goroutines calling Drain with a FileStore on the path
  Stores,     \* *FileStore objects on that path
  StoreOf,    \* the store each runner uses
  MaxDrains,  \* bound: drains started
  Faults      \* which failures may happen: of a call, a process, the machine

ASSUME StoreOfAssumption == StoreOf \in [Runners -> Stores]
ASSUME MaxDrainsAssumption == MaxDrains \in Nat
ASSUME FaultsAssumption == Faults \subseteq {"io", "kill", "power"}

Drains == 1 .. MaxDrains

VARIABLES
  pc,       \* where each runner is
  own,      \* the drain each runner is in, or was in last
  view,     \* the snapshot it loaded
  drains,   \* drains started
  at,       \* the file the path names, 0 if it does not exist
  atDisk,   \* the same on disk
  temps,    \* the files that have their temporary name
  data,     \* how much of each file's snapshot was written
  synced,   \* whether that is on disk
  has,      \* the snapshot each file is to hold
  outcome,  \* ghost: of each drain's Save
  users,    \* ghost: runners that have loaded
  powered   \* ghost: the machine has lost power

files == <<at, atDisk, temps, data, synced, has>>
vars == <<pc, own, view, drains, files, outcome, users, powered>>

Init ==
  /\ pc = [r \in Runners |-> "idle"]
  /\ own = [r \in Runners |-> 0]
  /\ view = [r \in Runners |-> {}]
  /\ drains = 0
  /\ at = 0 /\ atDisk = 0
  /\ temps = {}
  /\ data = [d \in Drains |-> "absent"]
  /\ synced = [d \in Drains |-> FALSE]
  /\ has = [d \in Drains |-> {}]
  /\ outcome = [d \in Drains |-> "none"]
  /\ users = {}
  /\ powered = FALSE
-----------------------------------------------------------------------------
(* f.mu is held from a Save's first step to its return. *)
Free(r) ==
  \A q \in Runners : StoreOf[q] = StoreOf[r] => pc[q] \in {"idle", "drain"}

Goto(r, l) == pc' = [pc EXCEPT ![r] = l]

(* What Load makes of file f: a missing file and an empty one are the     *)
(* zero Snapshot.                                                          *)
Contents(f) ==
  IF f # 0 /\ data[f] = "whole" THEN has[f] ELSE {}

(* Load, under the mutex.  The read goes on in the file it has opened, so *)
(* that a rename by another process does not disturb it.  A Load that     *)
(* fails (a read error, a file that does not parse) ends the drain and    *)
(* changes nothing.                                                        *)
Load(r) ==
  /\ pc[r] = "idle" /\ Free(r) /\ drains < MaxDrains
  /\ at # 0 => data[at] # "partial"
  /\ drains' = drains + 1
  /\ own' = [own EXCEPT ![r] = drains + 1]
  /\ view' = [view EXCEPT ![r] = Contents(at)]
  /\ users' = users \cup {r}
  /\ Goto(r, "drain")
  /\ UNCHANGED <<files, outcome, powered>>

(* Save: lock, encode. *)
SaveBegin(r) ==
  /\ pc[r] = "drain" /\ Free(r)
  /\ has' = [has EXCEPT ![own[r]] = view[r] \cup {own[r]}]
  /\ Goto(r, "create")
  /\ UNCHANGED <<own, view, drains, at, atDisk, temps, data, synced, outcome, users, powered>>

(* Mutant: the snapshot file itself is created anew and written. *)
CreateInPlace(r) ==
  /\ pc[r] = "create"
  /\ at' = own[r]
  /\ data' = [data EXCEPT ![own[r]] = "empty"]
  /\ Goto(r, "write")
  /\ UNCHANGED <<own, view, drains, atDisk, temps, synced, has, outcome, users, powered>>

(* A new file with a name of its own. *)
CreateTemp(r) ==
  /\ pc[r] = "create"
  /\ temps' = temps \cup {own[r]}
  /\ data' = [data EXCEPT ![own[r]] = "empty"]
  /\ Goto(r, "write")
  /\ UNCHANGED <<own, view, drains, at, atDisk, synced, has, outcome, users, powered>>

(* Mutant: the temporary file is not synced. *)
WriteUnsynced(r) ==
  /\ pc[r] = "write"
  /\ data' = [data EXCEPT ![own[r]] = "whole"]
  /\ Goto(r, "close")
  /\ UNCHANGED <<own, view, drains, at, atDisk, temps, synced, has, outcome, users, powered>>

(* The write that succeeds writes all of it. *)
Write(r) ==
  /\ pc[r] = "write"
  /\ data' = [data EXCEPT ![own[r]] = "whole"]
  /\ Goto(r, "sync")
  /\ UNCHANGED <<own, view, drains, at, atDisk, temps, synced, has, outcome, users, powered>>

Sync(r) ==
  /\ pc[r] = "sync"
  /\ synced' = [synced EXCEPT ![own[r]] = TRUE]
  /\ Goto(r, "close")
  /\ UNCHANGED <<own, view, drains, at, atDisk, temps, data, has, outcome, users, powered>>

Close(r) ==
  /\ pc[r] = "close"
  /\ Goto(r, "rename")
  /\ UNCHANGED <<own, view, drains, files, outcome, users, powered>>

Rename(r) ==
  /\ pc[r] = "rename"
  /\ at' = own[r]
  /\ temps' = temps \ {own[r]}
  /\ outcome' = [outcome EXCEPT ![own[r]] = "installed"]
  /\ Goto(r, "return")
  /\ UNCHANGED <<own, view, drains, atDisk, data, synced, has, users, powered>>

(* Encoding, MkdirAll or CreateTemp fails: there is nothing to clean up.  *)
CreateFails(r) ==
  /\ "io" \in Faults
  /\ pc[r] = "create"
  /\ Goto(r, "return")
  /\ UNCHANGED <<own, view, drains, files, outcome, users, powered>>

(* Mutant: the error path returns with the mutex held. *)
WriteFailsLocked(r) ==
  /\ "io" \in Faults
  /\ pc[r] = "write"
  /\ Goto(r, "locked")
  /\ UNCHANGED <<own, view, drains, files, outcome, users, powered>>

(* A failed write may have written a part. *)
WriteFails(r) ==
  /\ "io" \in Faults
  /\ pc[r] = "write"
  /\ \E part \in {"empty", "partial"} : data' = [data EXCEPT ![own[r]] = part]
  /\ Goto(r, "cleanup")
  /\ UNCHANGED <<own, view, drains, at, atDisk, temps, synced, has, outcome, users, powered>>

InstallFails(r) ==
  /\ "io" \in Faults
  /\ pc[r] \in {"sync", "close", "rename"}
  /\ Goto(r, "cleanup")
  /\ UNCHANGED <<own, view, drains, files, outcome, users, powered>>

(* cleanup removes the temporary file and ignores the error. *)
Cleanup(r) ==
  /\ pc[r] = "cleanup"
  /\ temps' \in {temps, temps \ {own[r]}}
  /\ Goto(r, "return")
  /\ UNCHANGED <<own, view, drains, at, atDisk, data, synced, has, outcome, users, powered>>

(* Mutant: the error of the call that failed is lost. *)
ReturnNil(r) ==
  /\ pc[r] = "return"
  /\ outcome' = [outcome EXCEPT ![own[r]] = "ok"]
  /\ Goto(r, "idle")
  /\ UNCHANGED <<own, view, drains, files, users, powered>>

(* Save returns and unlocks. *)
Return(r) ==
  /\ pc[r] = "return"
  /\ outcome' = [outcome EXCEPT ![own[r]] = IF @ = "installed" THEN "ok" ELSE "error"]
  /\ Goto(r, "idle")
  /\ UNCHANGED <<own, view, drains, files, users, powered>>

Save(r) ==
  \/ SaveBegin(r) \/ CreateTemp(r) \/ Write(r) \/ Sync(r) \/ Close(r) \/ Rename(r)
  \/ CreateFails(r) \/ WriteFails(r) \/ InstallFails(r) \/ Cleanup(r) \/ Return(r)
-----------------------------------------------------------------------------
(* The environment. *)

(* The process that store s belongs to is killed. *)
Kill(s) ==
  /\ "kill" \in Faults
  /\ \E r \in Runners : StoreOf[r] = s /\ pc[r] # "idle"
  /\ pc' = [r \in Runners |-> IF StoreOf[r] = s THEN "idle" ELSE pc[r]]
  /\ UNCHANGED <<own, view, drains, files, outcome, users, powered>>

(* The operating system writes the directory back. *)
WriteBack ==
  /\ at # atDisk
  /\ atDisk' = at
  /\ UNCHANGED <<pc, own, view, drains, at, temps, data, synced, has, outcome, users, powered>>

PowerLoss ==
  /\ "power" \in Faults /\ ~powered
  /\ pc' = [r \in Runners |-> "idle"]
  /\ at' = atDisk
  /\ \E part \in {"empty", "partial", "whole"} :
       data' = [d \in Drains |->
                  IF data[d] = "whole" /\ ~synced[d] THEN part ELSE data[d]]
  /\ powered' = TRUE
  /\ UNCHANGED <<own, view, drains, atDisk, temps, synced, has, outcome, users>>

Done ==
  /\ drains = MaxDrains /\ \A r \in Runners : pc[r] = "idle"
  /\ UNCHANGED vars

Next ==
  \/ \E r \in Runners : Load(r) \/ Save(r)
  \/ \E s \in Stores : Kill(s)
  \/ WriteBack \/ PowerLoss \/ Done

Spec == Init /\ [][Next]_vars

(* System calls return, and a runner that has loaded goes on to its       *)
(* deferred Save.  sync.Mutex is fair to a goroutine that keeps waiting.  *)
FairSpec ==
  Spec /\ \A r \in Runners : WF_vars(Save(r)) /\ SF_vars(SaveBegin(r))
-----------------------------------------------------------------------------
(* Properties. *)

TypeOK ==
  /\ pc \in [Runners -> {"idle", "drain", "create", "write", "sync", "close",
                         "rename", "cleanup", "return"}]
  /\ own \in [Runners -> 0 .. MaxDrains]
  /\ view \in [Runners -> SUBSET Drains]
  /\ drains \in 0 .. MaxDrains
  /\ at \in 0 .. MaxDrains /\ atDisk \in 0 .. MaxDrains
  /\ temps \subseteq Drains
  /\ data \in [Drains -> {"absent", "empty", "partial", "whole"}]
  /\ synced \in [Drains -> BOOLEAN]
  /\ has \in [Drains -> SUBSET Drains]
  /\ outcome \in [Drains -> {"none", "installed", "ok", "error"}]
  /\ users \subseteq Runners
  /\ powered \in BOOLEAN

(* filestore.go:86-88, "a partial write can't leave the operator with a   *)
(* corrupt state file": whatever fails, is killed or loses power, and     *)
(* however many stores write the path, the file there is complete, now    *)
(* and after a power loss.                                                 *)
NeverCorrupt ==
  \A f \in {at, atDisk} \ {0} : data[f] = "whole" /\ synced[f]

SoleWriter == \A q, r \in users : q = r

(* With the single writer the contract asks for (filestore.go:38-40), the *)
(* snapshot on file contains every drain whose Save reported success,     *)
(* through failed saves and killed processes.                              *)
SoleWriterKeepsAll ==
  SoleWriter /\ ~powered =>
    \A d \in Drains : outcome[d] = "ok" => d \in Contents(at)

(* Every Save returns: no error path keeps the mutex. *)
SaveReturns == \A r \in Runners : (pc[r] # "idle") ~> (pc[r] = "idle")

(* The file store is the atomic store the Runner relies on. *)
S == INSTANCE Store WITH
       value   <- Contents(at),
       settled <- Contents(atDisk)

ImplementsStore == S!SSpec
=============================================================================
