--------------------------- MODULE MCProxySession ---------------------------
EXTENDS ProxySession

(* Both kinds of start, with and without a reply, a terminal and a resize.  *)
MCRequests == {[type |-> t, wantReply |-> TRUE] : t \in {"pty", "shell"}}
                \cup {[type |-> t, wantReply |-> FALSE] : t \in {"shell", "sftp", "window"}}
=============================================================================
