-------------------------- MODULE FileStoreProofs ---------------------------
(***************************************************************************)
(* What FileStore guarantees for any number of runners, processes and     *)
(* drains: the snapshot file is never torn, a sole writer loses nothing,  *)
(* and the whole implements the atomic Store.                              *)
(*                                                                         *)
(* The argument is about ownership: until its rename a file belongs to    *)
(* one Save, which alone writes it; from then on nobody does.             *)
(***************************************************************************)
EXTENDS FileStore, TLAPS

(* The steps of a Save before its rename, cleanup included. *)
Unrenamed == {"drain", "create", "write", "sync", "close", "rename", "cleanup"}

(* Each runner in a drain has a drain of its own. *)
OwnInv ==
  /\ \A r \in Runners : own[r] <= drains
  /\ \A r \in Runners : pc[r] # "idle" => own[r] # 0 /\ r \in users
  /\ \A q, r \in Runners : q # r /\ own[q] = own[r] => own[q] = 0

(* What is known of the file of a Save at each of its steps. *)
SaveInv ==
  \A r \in Runners :
    /\ pc[r] \in Unrenamed => outcome[own[r]] = "none"
    /\ pc[r] = "return" => outcome[own[r]] \in {"none", "installed"}
    /\ pc[r] \in {"sync", "close", "rename"} => data[own[r]] = "whole"
    /\ pc[r] = "rename" => synced[own[r]]
    /\ pc[r] = "close" => synced[own[r]]
    /\ pc[r] \in Unrenamed \ {"drain"} => has[own[r]] = view[r] \cup {own[r]}

(* Drains that have not begun have no outcome. *)
FreshInv == \A d \in Drains : d > drains => outcome[d] = "none"

(* The path names files that were renamed to it. *)
NamedInv ==
  \A f \in {at, atDisk} \ {0} : outcome[f] \in {"installed", "ok"}

(* With a sole writer the file on the path has everything installed, and  *)
(* the Save in progress starts from no less.                               *)
SoleInv ==
  SoleWriter /\ ~powered =>
    /\ \A d \in Drains : outcome[d] \in {"installed", "ok"} => d \in Contents(at)
    /\ \A r \in Runners : pc[r] \in Unrenamed => Contents(at) \subseteq view[r]

IInv ==
  /\ TypeOK
  /\ OwnInv
  /\ SaveInv
  /\ FreshInv
  /\ NamedInv
  /\ NeverCorrupt
  /\ SoleInv
-----------------------------------------------------------------------------
(* The initial state. *)
LEMMA InitIInv == Init => IInv
  <1> SUFFICES ASSUME Init PROVE IInv
    OBVIOUS
  <1> USE StoreOfAssumption, MaxDrainsAssumption DEF Init, Drains
  <1>1. TypeOK
    <2>1. {} \in SUBSET Drains /\ 0 \in 0 .. MaxDrains
      OBVIOUS
    <2>2. view \in [Runners -> SUBSET Drains] /\ has \in [Drains -> SUBSET Drains]
      BY <2>1
    <2>3. own \in [Runners -> 0 .. MaxDrains] /\ drains \in 0 .. MaxDrains
      BY <2>1
    <2> QED
      BY <2>1, <2>2, <2>3 DEF TypeOK
  <1>2. OwnInv
    BY DEF OwnInv
  <1>3. SaveInv
    <2> SUFFICES ASSUME NEW r \in Runners
                 PROVE  pc[r] = "idle"
      BY DEF SaveInv, Unrenamed
    <2> QED
      OBVIOUS
  <1>4. FreshInv /\ NamedInv /\ NeverCorrupt
    BY DEF FreshInv, NamedInv, NeverCorrupt
  <1>5. SoleInv
    BY DEF SoleInv, Unrenamed
  <1> QED
    BY <1>1, <1>2, <1>3, <1>4, <1>5 DEF IInv

(* A step is a runner's, the environment's or a stutter. *)
LEMMA NextCases ==
  ASSUME [Next]_vars
  PROVE  \/ \E r \in Runners : \/ Load(r) \/ SaveBegin(r) \/ CreateTemp(r) \/ Write(r)
                               \/ Sync(r) \/ Close(r) \/ Rename(r) \/ CreateFails(r)
                               \/ WriteFails(r) \/ InstallFails(r) \/ Cleanup(r) \/ Return(r)
         \/ \E s \in Stores : Kill(s)
         \/ WriteBack \/ PowerLoss
         \/ UNCHANGED vars
  BY DEF Next, Save, Done

(* The file of a Save before its rename is not on the path. *)
LEMMA PrivateFile ==
  ASSUME IInv, NEW r \in Runners, pc[r] \in Unrenamed
  PROVE  /\ own[r] \in Drains
         /\ outcome[own[r]] = "none"
         /\ at # own[r] /\ atDisk # own[r]
  <1>1. own[r] \in 0 .. MaxDrains /\ own[r] # 0
    BY DEF IInv, TypeOK, OwnInv, Unrenamed
  <1>2. own[r] \in Drains
    BY <1>1, MaxDrainsAssumption DEF Drains
  <1>3. outcome[own[r]] = "none"
    BY DEF IInv, SaveInv
  <1>4. \A f \in {at, atDisk} : f # 0 => outcome[f] # "none"
    BY DEF IInv, NamedInv
  <1> QED
    BY <1>1, <1>2, <1>3, <1>4

(* What the rename installs is the whole snapshot. *)
LEMMA ReadyFile ==
  ASSUME IInv, NEW r \in Runners, pc[r] = "rename"
  PROVE  data[own[r]] = "whole" /\ synced[own[r]] /\ has[own[r]] = view[r] \cup {own[r]}
  BY DEF IInv, SaveInv, Unrenamed

(* Type correctness. *)
LEMMA NextTypeOK == IInv /\ [Next]_vars => TypeOK'
  <1> SUFFICES ASSUME IInv, [Next]_vars
               PROVE  TypeOK'
    OBVIOUS
  <1> USE StoreOfAssumption, MaxDrainsAssumption
  <1> USE DEF IInv, TypeOK, OwnInv, Drains, Goto, files, Contents
  <1>1. ASSUME NEW r \in Runners, Load(r)
        PROVE  TypeOK'
    BY <1>1 DEF Load
  <1>2. ASSUME NEW r \in Runners, SaveBegin(r)
        PROVE  TypeOK'
    BY <1>2 DEF SaveBegin
  <1>3. ASSUME NEW r \in Runners, CreateTemp(r)
        PROVE  TypeOK'
    <2>1. own[r] \in Drains
      BY <1>3 DEF CreateTemp
    <2>2. temps' \subseteq Drains
      BY <1>3, <2>1 DEF CreateTemp
    <2>3. data' \in [Drains -> {"absent", "empty", "partial", "whole"}]
      BY <1>3, <2>1 DEF CreateTemp
    <2>4. pc' \in [Runners -> {"idle", "drain", "create", "write", "sync", "close",
                              "rename", "cleanup", "return"}]
      BY <1>3 DEF CreateTemp
    <2> QED
      BY <1>3, <2>2, <2>3, <2>4 DEF CreateTemp
  <1>4. ASSUME NEW r \in Runners, Write(r)
        PROVE  TypeOK'
    BY <1>4 DEF Write
  <1>5. ASSUME NEW r \in Runners, Sync(r)
        PROVE  TypeOK'
    BY <1>5 DEF Sync
  <1>6. ASSUME NEW r \in Runners, Close(r)
        PROVE  TypeOK'
    BY <1>6 DEF Close
  <1>7. ASSUME NEW r \in Runners, Rename(r)
        PROVE  TypeOK'
    BY <1>7 DEF Rename
  <1>8. ASSUME NEW r \in Runners, CreateFails(r)
        PROVE  TypeOK'
    BY <1>8 DEF CreateFails
  <1>9. ASSUME NEW r \in Runners, WriteFails(r)
        PROVE  TypeOK'
    BY <1>9 DEF WriteFails
  <1>10. ASSUME NEW r \in Runners, InstallFails(r)
        PROVE  TypeOK'
    BY <1>10 DEF InstallFails
  <1>11. ASSUME NEW r \in Runners, Cleanup(r)
        PROVE  TypeOK'
    BY <1>11 DEF Cleanup
  <1>12. ASSUME NEW r \in Runners, Return(r)
        PROVE  TypeOK'
    BY <1>12 DEF Return
  <1>13. ASSUME NEW s \in Stores, Kill(s)
         PROVE  TypeOK'
    BY <1>13 DEF Kill
  <1>14. CASE WriteBack
    BY <1>14 DEF WriteBack
  <1>15. CASE PowerLoss
    BY <1>15 DEF PowerLoss
  <1>16. CASE UNCHANGED vars
    BY <1>16 DEF vars
  <1> QED
    BY NextCases, <1>1, <1>2, <1>3, <1>4, <1>5, <1>6, <1>7, <1>8, <1>9, <1>10, <1>11, <1>12, <1>13, <1>14, <1>15, <1>16

(* Every drain has one runner. *)
LEMMA NextOwnInv == IInv /\ [Next]_vars => OwnInv'
  <1> SUFFICES ASSUME IInv, [Next]_vars
               PROVE  OwnInv'
    OBVIOUS
  <1> USE StoreOfAssumption, MaxDrainsAssumption
  <1> USE DEF IInv, TypeOK, OwnInv, Drains, Goto, files, Contents
  <1>1. ASSUME NEW r \in Runners, Load(r)
        PROVE  OwnInv'
    BY <1>1 DEF Load
  <1>2. ASSUME NEW r \in Runners, SaveBegin(r)
        PROVE  OwnInv'
    BY <1>2 DEF SaveBegin
  <1>3. ASSUME NEW r \in Runners, CreateTemp(r)
        PROVE  OwnInv'
    BY <1>3 DEF CreateTemp
  <1>4. ASSUME NEW r \in Runners, Write(r)
        PROVE  OwnInv'
    BY <1>4 DEF Write
  <1>5. ASSUME NEW r \in Runners, Sync(r)
        PROVE  OwnInv'
    BY <1>5 DEF Sync
  <1>6. ASSUME NEW r \in Runners, Close(r)
        PROVE  OwnInv'
    BY <1>6 DEF Close
  <1>7. ASSUME NEW r \in Runners, Rename(r)
        PROVE  OwnInv'
    BY <1>7 DEF Rename
  <1>8. ASSUME NEW r \in Runners, CreateFails(r)
        PROVE  OwnInv'
    BY <1>8 DEF CreateFails
  <1>9. ASSUME NEW r \in Runners, WriteFails(r)
        PROVE  OwnInv'
    BY <1>9 DEF WriteFails
  <1>10. ASSUME NEW r \in Runners, InstallFails(r)
        PROVE  OwnInv'
    BY <1>10 DEF InstallFails
  <1>11. ASSUME NEW r \in Runners, Cleanup(r)
        PROVE  OwnInv'
    BY <1>11 DEF Cleanup
  <1>12. ASSUME NEW r \in Runners, Return(r)
        PROVE  OwnInv'
    BY <1>12 DEF Return
  <1>13. ASSUME NEW s \in Stores, Kill(s)
         PROVE  OwnInv'
    BY <1>13 DEF Kill
  <1>14. CASE WriteBack
    BY <1>14 DEF WriteBack
  <1>15. CASE PowerLoss
    BY <1>15 DEF PowerLoss
  <1>16. CASE UNCHANGED vars
    BY <1>16 DEF vars
  <1> QED
    BY NextCases, <1>1, <1>2, <1>3, <1>4, <1>5, <1>6, <1>7, <1>8, <1>9, <1>10, <1>11, <1>12, <1>13, <1>14, <1>15, <1>16

(* Drains that have not begun. *)
LEMMA NextFreshInv == IInv /\ [Next]_vars => FreshInv'
  <1> SUFFICES ASSUME IInv, [Next]_vars
               PROVE  FreshInv'
    OBVIOUS
  <1> USE StoreOfAssumption, MaxDrainsAssumption
  <1> USE DEF IInv, TypeOK, OwnInv, FreshInv, Drains, Goto, files, Contents
  <1>1. ASSUME NEW r \in Runners, Load(r)
        PROVE  FreshInv'
    BY <1>1 DEF Load
  <1>2. ASSUME NEW r \in Runners, SaveBegin(r)
        PROVE  FreshInv'
    BY <1>2 DEF SaveBegin
  <1>3. ASSUME NEW r \in Runners, CreateTemp(r)
        PROVE  FreshInv'
    BY <1>3 DEF CreateTemp
  <1>4. ASSUME NEW r \in Runners, Write(r)
        PROVE  FreshInv'
    BY <1>4 DEF Write
  <1>5. ASSUME NEW r \in Runners, Sync(r)
        PROVE  FreshInv'
    BY <1>5 DEF Sync
  <1>6. ASSUME NEW r \in Runners, Close(r)
        PROVE  FreshInv'
    BY <1>6 DEF Close
  <1>7. ASSUME NEW r \in Runners, Rename(r)
        PROVE  FreshInv'
    BY <1>7 DEF Rename
  <1>8. ASSUME NEW r \in Runners, CreateFails(r)
        PROVE  FreshInv'
    BY <1>8 DEF CreateFails
  <1>9. ASSUME NEW r \in Runners, WriteFails(r)
        PROVE  FreshInv'
    BY <1>9 DEF WriteFails
  <1>10. ASSUME NEW r \in Runners, InstallFails(r)
        PROVE  FreshInv'
    BY <1>10 DEF InstallFails
  <1>11. ASSUME NEW r \in Runners, Cleanup(r)
        PROVE  FreshInv'
    BY <1>11 DEF Cleanup
  <1>12. ASSUME NEW r \in Runners, Return(r)
        PROVE  FreshInv'
    BY <1>12 DEF Return
  <1>13. ASSUME NEW s \in Stores, Kill(s)
         PROVE  FreshInv'
    BY <1>13 DEF Kill
  <1>14. CASE WriteBack
    BY <1>14 DEF WriteBack
  <1>15. CASE PowerLoss
    BY <1>15 DEF PowerLoss
  <1>16. CASE UNCHANGED vars
    BY <1>16 DEF vars
  <1> QED
    BY NextCases, <1>1, <1>2, <1>3, <1>4, <1>5, <1>6, <1>7, <1>8, <1>9, <1>10, <1>11, <1>12, <1>13, <1>14, <1>15, <1>16

(* The steps of a Save. *)
LEMMA NextSaveInv == IInv /\ [Next]_vars => SaveInv'
  <1> SUFFICES ASSUME IInv, [Next]_vars
               PROVE  SaveInv'
    OBVIOUS
  <1> USE StoreOfAssumption, MaxDrainsAssumption
  <1> USE DEF IInv, TypeOK, OwnInv, SaveInv, FreshInv, Unrenamed, Drains, Goto, files
  <1>1. ASSUME NEW r \in Runners, Load(r)
        PROVE  SaveInv'
    BY <1>1 DEF Load
  <1>2. ASSUME NEW r \in Runners, SaveBegin(r)
        PROVE  SaveInv'
    BY <1>2 DEF SaveBegin
  <1>3. ASSUME NEW r \in Runners, CreateTemp(r)
        PROVE  SaveInv'
    BY <1>3 DEF CreateTemp
  <1>4. ASSUME NEW r \in Runners, Write(r)
        PROVE  SaveInv'
    BY <1>4 DEF Write
  <1>5. ASSUME NEW r \in Runners, Sync(r)
        PROVE  SaveInv'
    BY <1>5 DEF Sync
  <1>6. ASSUME NEW r \in Runners, Close(r)
        PROVE  SaveInv'
    BY <1>6 DEF Close
  <1>7. ASSUME NEW r \in Runners, Rename(r)
        PROVE  SaveInv'
    BY <1>7 DEF Rename
  <1>8. ASSUME NEW r \in Runners, CreateFails(r)
        PROVE  SaveInv'
    BY <1>8 DEF CreateFails
  <1>9. ASSUME NEW r \in Runners, WriteFails(r)
        PROVE  SaveInv'
    BY <1>9 DEF WriteFails
  <1>10. ASSUME NEW r \in Runners, InstallFails(r)
        PROVE  SaveInv'
    BY <1>10 DEF InstallFails
  <1>11. ASSUME NEW r \in Runners, Cleanup(r)
        PROVE  SaveInv'
    BY <1>11 DEF Cleanup
  <1>12. ASSUME NEW r \in Runners, Return(r)
        PROVE  SaveInv'
    BY <1>12 DEF Return
  <1>13. ASSUME NEW s \in Stores, Kill(s)
         PROVE  SaveInv'
    BY <1>13 DEF Kill
  <1>14. CASE WriteBack
    BY <1>14 DEF WriteBack
  <1>15. CASE PowerLoss
    BY <1>15 DEF PowerLoss
  <1>16. CASE UNCHANGED vars
    BY <1>16 DEF vars
  <1> QED
    BY NextCases, <1>1, <1>2, <1>3, <1>4, <1>5, <1>6, <1>7, <1>8, <1>9, <1>10, <1>11, <1>12, <1>13, <1>14, <1>15, <1>16

(* The file on the path belongs to nobody. *)
LEMMA NextNamedInv == IInv /\ [Next]_vars => (NamedInv /\ NeverCorrupt)'
  <1> SUFFICES ASSUME IInv, [Next]_vars
               PROVE  (NamedInv /\ NeverCorrupt)'
    OBVIOUS
  <1> USE StoreOfAssumption, MaxDrainsAssumption
  <1> USE DEF IInv, TypeOK, OwnInv, SaveInv, NamedInv, NeverCorrupt, Unrenamed, Drains, Goto, files
  <1>1. ASSUME NEW r \in Runners, Load(r)
        PROVE  (NamedInv /\ NeverCorrupt)'
    BY <1>1 DEF Load
  <1>2. ASSUME NEW r \in Runners, SaveBegin(r)
        PROVE  (NamedInv /\ NeverCorrupt)'
    BY <1>2 DEF SaveBegin
  <1>3. ASSUME NEW r \in Runners, CreateTemp(r)
        PROVE  (NamedInv /\ NeverCorrupt)'
    <2>1. pc[r] \in Unrenamed
      BY <1>3 DEF CreateTemp
    <2>2. at # own[r] /\ atDisk # own[r]
      BY <2>1, PrivateFile
    <2>3. \A f \in Drains : f # own[r] => data'[f] = data[f]
      BY <1>3 DEF CreateTemp
    <2>4. UNCHANGED <<at, atDisk, synced, outcome>>
      BY <1>3 DEF CreateTemp
    <2> QED
      BY <2>2, <2>3, <2>4
  <1>4. ASSUME NEW r \in Runners, Write(r)
        PROVE  (NamedInv /\ NeverCorrupt)'
    BY <1>4 DEF Write
  <1>5. ASSUME NEW r \in Runners, Sync(r)
        PROVE  (NamedInv /\ NeverCorrupt)'
    BY <1>5 DEF Sync
  <1>6. ASSUME NEW r \in Runners, Close(r)
        PROVE  (NamedInv /\ NeverCorrupt)'
    BY <1>6 DEF Close
  <1>7. ASSUME NEW r \in Runners, Rename(r)
        PROVE  (NamedInv /\ NeverCorrupt)'
    BY <1>7 DEF Rename
  <1>8. ASSUME NEW r \in Runners, CreateFails(r)
        PROVE  (NamedInv /\ NeverCorrupt)'
    BY <1>8 DEF CreateFails
  <1>9. ASSUME NEW r \in Runners, WriteFails(r)
        PROVE  (NamedInv /\ NeverCorrupt)'
    <2>1. pc[r] \in Unrenamed
      BY <1>9 DEF WriteFails
    <2>2. at # own[r] /\ atDisk # own[r]
      BY <2>1, PrivateFile
    <2>3. \A f \in Drains : f # own[r] => data'[f] = data[f]
      BY <1>9 DEF WriteFails
    <2>4. UNCHANGED <<at, atDisk, synced, outcome>>
      BY <1>9 DEF WriteFails
    <2> QED
      BY <2>2, <2>3, <2>4
  <1>10. ASSUME NEW r \in Runners, InstallFails(r)
        PROVE  (NamedInv /\ NeverCorrupt)'
    BY <1>10 DEF InstallFails
  <1>11. ASSUME NEW r \in Runners, Cleanup(r)
        PROVE  (NamedInv /\ NeverCorrupt)'
    BY <1>11 DEF Cleanup
  <1>12. ASSUME NEW r \in Runners, Return(r)
        PROVE  (NamedInv /\ NeverCorrupt)'
    BY <1>12 DEF Return
  <1>13. ASSUME NEW s \in Stores, Kill(s)
         PROVE  (NamedInv /\ NeverCorrupt)'
    BY <1>13 DEF Kill
  <1>14. CASE WriteBack
    BY <1>14 DEF WriteBack
  <1>15. CASE PowerLoss
    BY <1>15 DEF PowerLoss
  <1>16. CASE UNCHANGED vars
    BY <1>16 DEF vars
  <1> QED
    BY NextCases, <1>1, <1>2, <1>3, <1>4, <1>5, <1>6, <1>7, <1>8, <1>9, <1>10, <1>11, <1>12, <1>13, <1>14, <1>15, <1>16

(* A sole writer builds on what is there. *)
LEMMA NextSoleInv == IInv /\ [Next]_vars => SoleInv'
  <1> SUFFICES ASSUME IInv, [Next]_vars
               PROVE  SoleInv'
    OBVIOUS
  <1> USE StoreOfAssumption, MaxDrainsAssumption
  <1> USE DEF IInv, TypeOK, OwnInv, SaveInv, FreshInv, NamedInv, NeverCorrupt, SoleInv, SoleWriter, Contents, Unrenamed, Drains, Goto, files
  <1>1. ASSUME NEW r \in Runners, Load(r)
        PROVE  SoleInv'
    BY <1>1 DEF Load
  <1>2. ASSUME NEW r \in Runners, SaveBegin(r)
        PROVE  SoleInv'
    BY <1>2 DEF SaveBegin
  <1>3. ASSUME NEW r \in Runners, CreateTemp(r)
        PROVE  SoleInv'
    BY <1>3 DEF CreateTemp
  <1>4. ASSUME NEW r \in Runners, Write(r)
        PROVE  SoleInv'
    BY <1>4 DEF Write
  <1>5. ASSUME NEW r \in Runners, Sync(r)
        PROVE  SoleInv'
    BY <1>5 DEF Sync
  <1>6. ASSUME NEW r \in Runners, Close(r)
        PROVE  SoleInv'
    BY <1>6 DEF Close
  <1>7. ASSUME NEW r \in Runners, Rename(r)
        PROVE  SoleInv'
    <2> SUFFICES ASSUME SoleWriter', ~powered'
                 PROVE  /\ \A d \in Drains : outcome'[d] \in {"installed", "ok"}
                                             => d \in Contents(at)'
                        /\ \A q \in Runners : pc'[q] \in Unrenamed
                                             => Contents(at)' \subseteq view'[q]
      OBVIOUS
    <2>1. SoleWriter /\ ~powered
      BY <1>7 DEF Rename
    <2>2. own[r] \in Drains /\ data[own[r]] = "whole" /\ has[own[r]] = view[r] \cup {own[r]}
      BY <1>7, PrivateFile, ReadyFile DEF Rename
    <2>3. Contents(at)' = view[r] \cup {own[r]}
      BY <1>7, <2>2 DEF Rename
    <2>4. Contents(at) \subseteq view[r]
      BY <1>7, <2>1 DEF Rename
    <2>5. \A d \in Drains : outcome'[d] \in {"installed", "ok"} => d \in Contents(at)'
      BY <1>7, <2>1, <2>3, <2>4 DEF Rename
    <2>6. \A q \in Runners : pc'[q] \notin Unrenamed
      BY <1>7, <2>1 DEF Rename
    <2> QED
      BY <2>5, <2>6
  <1>8. ASSUME NEW r \in Runners, CreateFails(r)
        PROVE  SoleInv'
    BY <1>8 DEF CreateFails
  <1>9. ASSUME NEW r \in Runners, WriteFails(r)
        PROVE  SoleInv'
    BY <1>9 DEF WriteFails
  <1>10. ASSUME NEW r \in Runners, InstallFails(r)
        PROVE  SoleInv'
    BY <1>10 DEF InstallFails
  <1>11. ASSUME NEW r \in Runners, Cleanup(r)
        PROVE  SoleInv'
    BY <1>11 DEF Cleanup
  <1>12. ASSUME NEW r \in Runners, Return(r)
        PROVE  SoleInv'
    BY <1>12 DEF Return
  <1>13. ASSUME NEW s \in Stores, Kill(s)
         PROVE  SoleInv'
    BY <1>13 DEF Kill
  <1>14. CASE WriteBack
    BY <1>14 DEF WriteBack
  <1>15. CASE PowerLoss
    BY <1>15 DEF PowerLoss
  <1>16. CASE UNCHANGED vars
    BY <1>16 DEF vars
  <1> QED
    BY NextCases, <1>1, <1>2, <1>3, <1>4, <1>5, <1>6, <1>7, <1>8, <1>9, <1>10, <1>11, <1>12, <1>13, <1>14, <1>15, <1>16

(* The inductive invariant. *)
THEOREM Invariance == Spec => []IInv
  <1>1. Init => IInv
    BY InitIInv
  <1>2. IInv /\ [Next]_vars => IInv'
    BY NextTypeOK, NextOwnInv, NextFreshInv, NextSaveInv, NextNamedInv, NextSoleInv DEF IInv
  <1> QED
    BY <1>1, <1>2, PTL DEF Spec
-----------------------------------------------------------------------------
(* Type correctness: of each runner's place in Save, of the mutex, and of *)
(* the files the path and its directory entry on disk refer to.           *)
THEOREM TypeCorrect == Spec => []TypeOK
  <1>1. IInv => TypeOK
    BY DEF IInv
  <1> QED
    BY <1>1, Invariance, PTL

(* No crash, failure or rival writer ever leaves a torn snapshot under    *)
(* the path.                                                               *)
THEOREM SnapshotIsWhole == Spec => []NeverCorrupt
  <1>1. IInv => NeverCorrupt
    BY DEF IInv
  <1> QED
    BY <1>1, Invariance, PTL

(* A sole writer's acknowledged drains are all in the snapshot file. *)
THEOREM SoleWriterIsSafe == Spec => []SoleWriterKeepsAll
  <1>1. IInv => SoleWriterKeepsAll
    BY DEF IInv, SoleInv, SoleWriterKeepsAll
  <1> QED
    BY <1>1, Invariance, PTL

(* Every step of the file protocol is a step of the atomic store, or      *)
(* changes nothing the store shows.                                        *)
THEOREM Refinement == Spec => ImplementsStore
  <1> USE StoreOfAssumption, MaxDrainsAssumption
  <1>1. Init => S!SInit
    BY DEF Init, S!SInit, Contents
  <1>2. ASSUME IInv, [Next]_vars
        PROVE  [S!SNext]_(S!svars)
    <2> USE <1>2 DEF IInv, TypeOK, Drains, Goto
    <2> DEFINE Stutter == UNCHANGED <<Contents(at), Contents(atDisk), view, outcome>>
    <2>1. Stutter => UNCHANGED S!svars
      BY DEF S!svars
    <2>2. ASSUME NEW r \in Runners, Load(r)
          PROVE  S!SLoad(r)
      BY <2>2 DEF Load, S!SLoad, files, Contents
    <2>3. ASSUME NEW r \in Runners,
                 SaveBegin(r) \/ CreateTemp(r) \/ Write(r) \/ WriteFails(r)
          PROVE  Stutter
      <3>1. pc[r] \in Unrenamed
        BY <2>3 DEF Unrenamed, SaveBegin, CreateTemp, Write, WriteFails
      <3>2. at # own[r] /\ atDisk # own[r]
        BY <3>1, PrivateFile
      <3>3. \A f \in Drains : f # own[r] => data'[f] = data[f] /\ has'[f] = has[f]
        BY <2>3 DEF SaveBegin, CreateTemp, Write, WriteFails
      <3>4. UNCHANGED <<at, atDisk, view, outcome>>
        BY <2>3 DEF SaveBegin, CreateTemp, Write, WriteFails
      <3> QED
        BY <3>2, <3>3, <3>4 DEF Contents
    <2>4. ASSUME NEW r \in Runners,
                 Sync(r) \/ Close(r) \/ CreateFails(r) \/ InstallFails(r) \/ Cleanup(r)
          PROVE  Stutter
      BY <2>4 DEF Sync, Close, CreateFails, InstallFails, Cleanup, files, Contents
    <2>5. ASSUME NEW r \in Runners, Rename(r)
          PROVE  \E d \in Drains : S!SInstall(r, d)
      <3>1. /\ own[r] \in Drains /\ outcome[own[r]] = "none"
            /\ data[own[r]] = "whole" /\ has[own[r]] = view[r] \cup {own[r]}
        BY <2>5, PrivateFile, ReadyFile DEF Rename, Unrenamed
      <3>2. Contents(at)' = view[r] \cup {own[r]}
        BY <2>5, <3>1 DEF Rename, Contents
      <3>3. UNCHANGED <<Contents(atDisk), view>>
        BY <2>5 DEF Rename, Contents
      <3>4. outcome' = [outcome EXCEPT ![own[r]] = "installed"]
        BY <2>5 DEF Rename
      <3> QED
        BY <3>1, <3>2, <3>3, <3>4 DEF S!SInstall
    <2>6. ASSUME NEW r \in Runners, Return(r)
          PROVE  \E d \in Drains : S!SReturnOK(d) \/ S!SReturnError(d)
      <3>1. own[r] \in Drains /\ outcome[own[r]] \in {"none", "installed"}
        BY <2>6 DEF OwnInv, SaveInv, Return
      <3>2. UNCHANGED <<Contents(at), Contents(atDisk), view>>
        BY <2>6 DEF Return, files, Contents
      <3>3. CASE outcome[own[r]] = "installed"
        BY <2>6, <3>1, <3>2, <3>3 DEF Return, S!SReturnOK
      <3>4. CASE outcome[own[r]] = "none"
        BY <2>6, <3>1, <3>2, <3>4 DEF Return, S!SReturnError
      <3> QED
        BY <3>1, <3>3, <3>4
    <2>7. ASSUME NEW s \in Stores, Kill(s)
          PROVE  Stutter
      BY <2>7 DEF Kill, files, Contents
    <2>8. CASE WriteBack
      BY <2>8 DEF WriteBack, S!SNext, S!SSettle, Contents
    <2>9. CASE PowerLoss
      <3>1. atDisk # 0 => data'[atDisk] = data[atDisk]
        BY <2>9 DEF PowerLoss, NeverCorrupt
      <3>2. UNCHANGED Contents(atDisk) /\ Contents(at)' = Contents(atDisk)
        BY <2>9, <3>1 DEF PowerLoss, Contents
      <3> QED
        BY <2>9, <3>2 DEF PowerLoss, S!SNext, S!SPowerLoss
    <2>10. CASE UNCHANGED vars
      BY <2>1, <2>10 DEF vars, files, Contents
    <2> QED
      BY <2>1, <2>2, <2>3, <2>4, <2>5, <2>6, <2>7, <2>8, <2>9, <2>10, NextCases
      DEF S!SNext
  <1> QED
    BY <1>1, <1>2, Invariance, PTL DEF Spec, ImplementsStore, S!SSpec
=============================================================================
