-------------------------- MODULE WorkflowPromise --------------------------
(***************************************************************************)
(* What a workflow run promises to whoever drew the graph, without retries,*)
(* rows, chains or agent runs: a node is begun only when every node it     *)
(* depends on is done, is begun once, stays done once done, and the run is *)
(* announced complete when everything is done and never taken back.        *)
(***************************************************************************)
CONSTANTS Nodes, Trigger, Pred

VARIABLES begun, done, complete

Init == begun = {} /\ done = {} /\ complete = FALSE

Start ==
  /\ begun = {}
  /\ begun' = {Trigger} /\ done' = {Trigger}
  /\ UNCHANGED complete

(* A node that needs nobody, an output, is done as it is begun. *)
Begin(n) ==
  /\ n \notin begun /\ ~ complete
  /\ Pred[n] # {} /\ Pred[n] \subseteq done
  /\ begun' = begun \cup {n}
  /\ done' \in {done, done \cup {n}}
  /\ UNCHANGED complete

(* One approval may settle several gates. *)
Finish ==
  /\ \E S \in SUBSET (begun \ done) : S # {} /\ done' = done \cup S
  /\ UNCHANGED <<begun, complete>>

Announce ==
  /\ done = Nodes
  /\ complete' = TRUE
  /\ UNCHANGED <<begun, done>>

Next == Start \/ (\E n \in Nodes : Begin(n)) \/ Finish \/ Announce

Spec == Init /\ [][Next]_<<begun, done, complete>>
=============================================================================
