---------------------------- MODULE WorkspaceUse ----------------------------
(***************************************************************************)
(* What every channel handler promises about the workspace it uses,        *)
(* whichever backend it streams through and however its goroutines         *)
(* interleave: it streams only while it holds the lease and only what the  *)
(* client asked for, it takes away the input of a client that still writes *)
(* only when the output has ended and the backend has no half-close, and   *)
(* the client learns of the end when the lease has been given back.        *)
(* Session, ProxySession and Forwarding implement it.                      *)
(***************************************************************************)
CONSTANTS Ask,          \* what a client may ask of a workspace
          Allowed       \* what of it is granted

VARIABLES client,       \* it writes, has ended its input, or is gone
          asked,        \* what it asks for
          lease,        \* the handler's lease
          attached,     \* what streams between the client and the pod
          halfClose,    \* the backend keeps the input open after the output
          outputEnded,  \* the pod's output has ended
          inputEnded,   \* the pod was told that no more input comes
          told          \* the client was told the end

ends == <<halfClose, outputEnded, inputEnded>>
uvars == <<client, asked, lease, attached, ends, told>>

UseInit == /\ client = "writes" /\ asked \in Ask
           /\ lease = "none" /\ attached = {}
           /\ halfClose \in BOOLEAN /\ outputEnded = FALSE
           /\ inputEnded = FALSE /\ told = FALSE

ClientEnds == /\ \/ client = "writes" /\ client' \in {"ended", "gone"}
                 \/ client = "ended" /\ client' = "gone"
              /\ UNCHANGED <<asked, lease, attached, ends, told>>

(* The lease is taken once, and only for somebody who still waits.  The     *)
(* stream may start with it.                                                *)
Take == /\ lease = "none" /\ ~told
        /\ lease' = "held"
        /\ attached' \in {{}, {asked} \cap Allowed}
        /\ UNCHANGED <<client, asked, ends, told>>

Attach == /\ lease = "held" /\ attached = {} /\ asked \in Allowed
          /\ attached' = {asked}
          /\ UNCHANGED <<client, asked, lease, ends, told>>

(* Whoever ends the stream: the pod, the handler or a cancellation.         *)
Detach == /\ attached # {}
          /\ attached' = {}
          /\ UNCHANGED <<client, asked, lease, ends, told>>

OutputEnds == /\ ~outputEnded
              /\ outputEnded' = TRUE
              /\ UNCHANGED <<client, asked, lease, attached, halfClose, inputEnded, told>>

(* With half-close the end of the output does not end the input.            *)
EndInput == /\ client # "writes" \/ attached = {} \/ (outputEnded /\ ~halfClose)
            /\ inputEnded' = TRUE
            /\ UNCHANGED <<client, asked, lease, attached, halfClose, outputEnded, told>>

Release == /\ lease = "held" /\ attached = {}
           /\ lease' = "released"
           /\ told' \in {told, TRUE}
           /\ UNCHANGED <<client, asked, attached, ends>>

Tell == /\ ~told /\ lease # "held"
        /\ told' = TRUE
        /\ UNCHANGED <<client, asked, lease, attached, ends>>

UseNext == ClientEnds \/ Take \/ Attach \/ Detach \/ OutputEnds \/ EndInput \/ Release \/ Tell

UseSafety == UseInit /\ [][UseNext]_uvars

(* What follows for any of them: the pod serves a client only under its     *)
(* lease and only as asked, and once the client has been told the end the   *)
(* lease is free and stays so.                                              *)
UseInv == /\ attached # {} => lease = "held" /\ attached = {asked} /\ asked \in Allowed
          /\ told => lease # "held"
Stays == told => UNCHANGED <<lease, attached, told>>
UseStays == [][Stays]_uvars

=============================================================================
