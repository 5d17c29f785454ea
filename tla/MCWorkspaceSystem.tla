-------------------------- MODULE MCWorkspaceSystem --------------------------
(* Small instances of WorkspaceSystem for TLC.                              *)
EXTENDS WorkspaceSystem, TLC

Symmetric == Permutations(Handler)

=============================================================================
