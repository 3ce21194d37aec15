--------------------------- MODULE MCOciLifecycle ---------------------------
(* Small instances of OciLifecycle for TLC. *)
EXTENDS OciLifecycle, TLC

\* OCIDs are interchangeable, and so are operations.
Ocids == Permutations(Pub) \cup Permutations(Priv) \cup Permutations(Task)
=============================================================================
