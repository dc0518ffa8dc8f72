---------------------------- MODULE MCFileStore -----------------------------
(* Runners, processes and paths for checking FileStore with TLC. *)
EXTENDS FileStore

CONSTANTS r1, r2, r3, s1, s2

(* Two runners of one process and one of another, on the same path. *)
SharedByTwo == [r \in Runners |-> IF r = r3 THEN s2 ELSE s1]
=============================================================================
