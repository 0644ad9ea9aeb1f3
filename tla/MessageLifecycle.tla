-------------------------- MODULE MessageLifecycle --------------------------
(***************************************************************************)
(* What db.MessageStore promises about the result of a message (the        *)
(* comment of StoreMessages, server/db/store.go:127-133): a success        *)
(* overwrites any result, a failure only an empty one, everything else is  *)
(* dropped; a message never loses its row.                                 *)
(***************************************************************************)
CONSTANT Msgs
VARIABLE status     \* "absent", "none", "ok" or "failed", by message

LInit == status = [m \in Msgs |-> "absent"]

\* The changes the contract allows to the result of one message.
Allowed(s, t) ==
    \/ t = s
    \/ s = "absent"
    \/ s = "none" /\ t \in {"ok", "failed"}
    \/ s = "failed" /\ t = "ok"

\* One transaction: any number of messages change, each as the contract allows.
LNext == /\ status' \in [Msgs -> {"absent", "none", "ok", "failed"}]
         /\ \A m \in Msgs : Allowed(status[m], status'[m])

LSpec == LInit /\ [][LNext]_status
=============================================================================
