------------------------- MODULE MCWorkflowEngine -------------------------
(* Graphs on which TLC checks WorkflowEngine. *)
EXTENDS WorkflowEngine, TLC

CONSTANTS t, a, g, h, o

\* Callers that make up a key for every call: two are enough, since only the last
\* counts, and neither is special.
FreshKeys == [x \in Transitions |-> Tokens]

\* The calls that may set a run going or end it, at any time; that leaves out reject.
BusyKeys == [x \in Transitions |-> IF x = "reject" THEN {} ELSE Tokens]

TokenSymmetry == Permutations(Tokens)

\* t -> {a, g} -> h: an agent and a gate in parallel and a join.
GateNodes == {t, a, g, h}
GateKind == (t :> "trigger") @@ (a :> "agent") @@ (g :> "approval") @@ (h :> "goal_handoff")
GatePred == (t :> {}) @@ (a :> {t}) @@ (g :> {t}) @@ (h :> {a, g})

\* t -> {a, o(output)} -> h: an agent beside an output, whose nested stepRun meets
\* the loop around it, and a join.
OutputNodes == {t, a, o, h}
OutputKind == (t :> "trigger") @@ (a :> "agent") @@ (o :> "output") @@ (h :> "goal_handoff")
OutputPred == (t :> {}) @@ (a :> {t}) @@ (o :> {t}) @@ (h :> {a, o})

\* t -> {a, g} -> o: an agent and a gate in parallel, and an output.
JoinNodes == {t, a, g, o}
JoinKind == (t :> "trigger") @@ (a :> "agent") @@ (g :> "approval") @@ (o :> "output")
JoinPred == (t :> {}) @@ (a :> {t}) @@ (g :> {t}) @@ (o :> {a, g})
=============================================================================
