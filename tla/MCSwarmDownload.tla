--------------------------- MODULE MCSwarmDownload ---------------------------
(* Small instances of SwarmDownload for TLC. *)
EXTENDS SwarmDownload

AnyReply == [p \in Peers |-> ReplyKinds]
=============================================================================
