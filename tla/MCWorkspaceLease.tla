-------------------------- MODULE MCWorkspaceLease --------------------------
(* Small instances of WorkspaceLease for TLC.                               *)
EXTENDS WorkspaceLease, TLC

(* Handlers, pod names and lease addresses are interchangeable; used only   *)
(* by the run that checks no liveness.                                      *)
Symmetric == Permutations(Handler) \cup Permutations(Key) \cup Permutations(Lease)

=============================================================================
