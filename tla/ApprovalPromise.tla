---------------------------- MODULE ApprovalPromise ----------------------------
(***************************************************************************)
(* What the gates, the answers and the resume promise together about one   *)
(* tool call: it is asked for once, answered once, and runs at most once   *)
(* and only when it was allowed.  A call that need not ask runs on the     *)
(* permission an earlier call was given.                                   *)
(***************************************************************************)
CONSTANT Calls

VARIABLE consent   \* what has become of each call

Init == consent = [c \in Calls |-> "new"]

Ask(c) == consent[c] = "new" /\ consent' = [consent EXCEPT ![c] = "asked"]

\* One answer settles some of the open requests and no other call.
Answer(word) ==
    \E settled \in SUBSET {c \in Calls : consent[c] = "asked"} :
        /\ settled # {}
        /\ consent' = [c \in Calls |-> IF c \in settled THEN word ELSE consent[c]]

Run(c) ==
    /\ \/ consent[c] = "allowed"
       \/ consent[c] = "new" /\ \E d \in Calls : consent[d] \in {"allowed", "ran"}
    /\ consent' = [consent EXCEPT ![c] = "ran"]

Next == \/ \E c \in Calls : Ask(c) \/ Run(c)
        \/ \E word \in {"allowed", "refused"} : Answer(word)

Spec == Init /\ [][Next]_consent
=============================================================================
