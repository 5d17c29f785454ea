-------------------------- MODULE MCAuthenticator --------------------------
(* Small instances of Authenticator for TLC.                                *)
EXTENDS Authenticator, TLC

CONSTANTS alice, bob

TwoUsers == <<alice, bob>>
OneUser == <<alice>>

Symmetric == Permutations(Conn)

=============================================================================
