----------------------------- MODULE MsgQueueMC -----------------------------
(* The values of MsgQueue's constants for TLC. *)
EXTENDS MsgQueue

UpToTwo == {<<>>} \cup {<<m>> : m \in Msgs} \cup {<<m, n>> : m \in Msgs, n \in Msgs}
=============================================================================
