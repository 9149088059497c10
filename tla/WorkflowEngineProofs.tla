------------------------ MODULE WorkflowEngineProofs ------------------------
(***************************************************************************)
(* For every graph, every number of attempts, every caller and in both     *)
(* modes of the ports: IInv is inductive, so the engine's state is well    *)
(* typed and a completed run has every node done.                          *)
(***************************************************************************)
EXTENDS WorkflowEngine, TLAPS

\* The trigger's row and the three fixed chains exist.
LEMMA Constants ==
  /\ <<Trigger, 1>> \in Keys
  /\ StartChain \in Chains /\ TransitionChain \in Chains /\ SweepChain \in Chains
  /\ \A k \in Keys : Hook(k) \in Chains
  /\ \A k \in Keys : k = <<k[1], k[2]>> /\ k[1] \in Nodes /\ k[2] \in Attempts
  /\ Attempts \subseteq Nat /\ 1 \in Attempts
BY GraphAssumption, BoundAssumption DEF Keys, Attempts, Chains

\* A key and a later one of the same node differ; a latest row has none above it.
LEMMA Successor ==
  ASSUME NEW k \in Keys, k[2] < MaxAttempts
  PROVE  <<k[1], k[2] + 1>> \in Keys
BY BoundAssumption DEF Keys, Attempts

-----------------------------------------------------------------------------
(* Moving a chain keeps the types of the chains. *)
LEMMA GotoType ==
  ASSUME TypeOK, NEW c \in Chains, NEW p \in Points, NEW k \in Keys,
         NEW fs \in Seq(SUBSET Nodes), Goto(c, p, k, fs)
  PROVE  /\ pc' \in [Chains -> Points]
         /\ at' \in [Chains -> Keys]
         /\ frames' \in [Chains -> Seq(SUBSET Nodes)]
BY Constants DEF TypeOK, Goto

(* A dispatch writes one row and at most one agent run, and moves its chain. *)
LEMMA DispatchType ==
  ASSUME TypeOK, NEW c \in Chains, NEW k \in Keys, NEW fs \in Seq(SUBSET Nodes),
         DispatchNode(c, k, fs)
  PROVE  /\ nodeRun' \in [Keys -> RowStatuses]
         /\ childRun' \in [Keys -> ChildStatuses]
         /\ pc' \in [Chains -> Points]
         /\ at' \in [Chains -> Keys]
         /\ frames' \in [Chains -> Seq(SUBSET Nodes)]
         /\ rejected' \in BOOLEAN
<1> USE DEF TypeOK, RowStatuses, ChildStatuses
<1>0. Resume(fs) \in Points /\ {"idle", "spawnfail", "gate", "goal", "step"} \subseteq Points
  BY DEF Resume, Points
<1>1. CASE nodeRun[k] # "absent"
  <2>1. Goto(c, "idle", at[c], <<>>) /\ at[c] \in Keys /\ <<>> \in Seq(SUBSET Nodes)
    BY <1>1 DEF DispatchNode, Throw
  <2> QED BY <1>0, <1>1, <2>1, GotoType DEF DispatchNode
<1>2. CASE nodeRun[k] = "absent"
  <2>1. CASE DispatchAgent(c, k, fs)
    BY <1>0, <1>2, <2>1, GotoType DEF DispatchAgent, DispatchNode
  <2>2. CASE DispatchApproval(c, k, fs)
    BY <1>0, <1>2, <2>2, GotoType DEF DispatchApproval, DispatchNode
  <2>3. CASE DispatchGoalHandoff(c, k, fs)
    BY <1>0, <1>2, <2>3, GotoType DEF DispatchGoalHandoff, DispatchNode
  <2>4. CASE DispatchOutput(c, k, fs)
    BY <1>0, <1>2, <2>4, GotoType DEF DispatchOutput, DispatchNode
  <2> QED BY <1>2, <2>1, <2>2, <2>3, <2>4 DEF DispatchNode
<1> QED BY <1>1, <1>2

-----------------------------------------------------------------------------
(* What a step may do to a row.  EngineRows is what every step but those of *)
(* a transition does; RowMoves is what any step does.                       *)

FirstStatus(k) ==
  CASE Kind[k[1]] = "agent" -> "running"
    [] Kind[k[1]] = "approval" -> "awaiting_approval"
    [] Kind[k[1]] = "goal_handoff" -> "pending"
    [] OTHER -> "completed"

Same(k) == nodeRun'[k] = nodeRun[k]
Created(k) == nodeRun[k] = "absent" /\ nodeRun'[k] = FirstStatus(k)
Finished(k) ==
  nodeRun[k] \in {"running", "pending"} /\ nodeRun'[k] \in {"completed", "failed"}
Raised(k) ==
  Kind[k[1]] = "approval" /\ nodeRun[k] # "absent" /\ nodeRun'[k] = "awaiting_approval"
Resolved(k) ==
  \/ nodeRun[k] = "awaiting_approval" /\ nodeRun'[k] \in {"completed", "failed"}
  \/ nodeRun[k] = "failed" /\ nodeRun'[k] = "skipped"

EngineRows ==
  \A k \in Keys : Same(k) \/ (k[2] = 1 /\ Created(k)) \/ Finished(k) \/ Raised(k)

RowMoves ==
  \A k \in Keys : Same(k) \/ Created(k) \/ Finished(k) \/ Raised(k) \/ Resolved(k)

\* Chain c may take from "pending" only the row of its own goal.
PendingKept(c) ==
  \A k \in Keys : nodeRun[k] = "pending" =>
    nodeRun'[k] = "pending" \/ (pc[c] = "goal" /\ k = at[c])

(* The latest attempt at a node is the only one. *)
LEMMA LatestUnique ==
  ASSUME TypeOK, NEW n \in Nodes, NEW a \in Attempts, NEW b \in Attempts,
         IsLatest(<<n, a>>), IsLatest(<<n, b>>)
  PROVE  a = b
<1>1. a \in Nat /\ b \in Nat
  BY Constants
<1>2. ~ a > b /\ ~ b > a
  BY DEF IsLatest
<1> QED BY <1>1, <1>2

(* A run is not completed while the latest attempt at some node is not.    *)
LEMMA UnfinishedNode ==
  ASSUME TypeOK, CompletedMeansAllDone, NEW k \in Keys, IsLatest(k),
         nodeRun[k] \notin DoneStatuses
  PROVE  runStatus # "completed"
<1> SUFFICES ASSUME runStatus = "completed" PROVE FALSE
  OBVIOUS
<1>1. k[1] \in Nodes /\ k[2] \in Attempts /\ k = <<k[1], k[2]>>
  BY Constants
<1>2. PICK a \in Attempts : IsLatest(<<k[1], a>>) /\ nodeRun[<<k[1], a>>] \in DoneStatuses
  BY <1>1 DEF CompletedMeansAllDone
<1>3. a = k[2]
  BY <1>1, <1>2, LatestUnique
<1> QED BY <1>1, <1>2, <1>3

(* A completed run stays so when no row appears and no done row is undone. *)
LEMMA DoneKept ==
  ASSUME CompletedMeansAllDone, runStatus' = "completed" => runStatus = "completed",
         \A k \in Keys : nodeRun[k] = "absent" <=> nodeRun'[k] = "absent",
         \A k \in Keys : nodeRun[k] \in DoneStatuses => nodeRun'[k] \in DoneStatuses
  PROVE  CompletedMeansAllDone'
<1> SUFFICES ASSUME runStatus' = "completed", NEW n \in Nodes
             PROVE  \E a \in Attempts : IsLatest(<<n, a>>)' /\ nodeRun'[<<n, a>>] \in DoneStatuses
  BY DEF CompletedMeansAllDone
<1>1. PICK a \in Attempts : IsLatest(<<n, a>>) /\ nodeRun[<<n, a>>] \in DoneStatuses
  BY DEF CompletedMeansAllDone
<1>2. \A b \in Attempts : <<n, b>> \in Keys
  BY DEF Keys
<1>3. IsLatest(<<n, a>>)'
  BY <1>1, <1>2 DEF IsLatest
<1> QED BY <1>1, <1>2, <1>3

(* KindInv lives on the rows and the agent runs only. *)
LEMMA KindKept ==
  ASSUME KindInv, RowMoves,
         \A k \in Keys : childRun'[k] # "none" => childRun[k] # "none" \/ Kind[k[1]] = "agent"
  PROVE  KindInv'
BY DEF KindInv, RowMoves, Same, Created, FirstStatus, Finished, Raised, Resolved

(* No step of the engine itself settles the row a retry is about to follow. *)
LEMMA RetryKept ==
  ASSUME IInv, EngineRows, RowMoves,
         pc'[TransitionChain] = "retry" =>
           pc[TransitionChain] = "retry" /\ at'[TransitionChain] = at[TransitionChain]
  PROVE  RetryInv'
<1> SUFFICES ASSUME pc'[TransitionChain] = "retry" PROVE RetryInv'
  BY DEF RetryInv
<1> DEFINE k == at[TransitionChain]
<1>1. at'[TransitionChain] = k /\ k \in Keys
  BY Constants DEF IInv, TypeOK
<1>2. IsLatest(k) /\ k[2] < MaxAttempts /\ nodeRun[k] \in {"failed", "awaiting_approval"}
  BY DEF IInv, RetryInv
<1>3. nodeRun'[k] \in {"failed", "awaiting_approval"}
  BY <1>1, <1>2 DEF EngineRows, Same, Created, Finished, Raised
<1>4. k[1] \in Nodes /\ k[2] \in Attempts /\ k = <<k[1], k[2]>> /\ Attempts \subseteq Nat
  BY <1>1, Constants
<1>5. ASSUME NEW b \in Attempts, b > k[2]
      PROVE  nodeRun'[<<k[1], b>>] = "absent"
  <2>1. <<k[1], b>> \in Keys /\ nodeRun[<<k[1], b>>] = "absent"
    BY <1>2, <1>4, <1>5 DEF IsLatest, Keys
  <2>2. b # 1
    BY <1>4, <1>5 DEF Attempts
  <2> QED BY <2>1, <2>2 DEF EngineRows, Same, Created, Finished, Raised
<1> QED BY <1>1, <1>2, <1>3, <1>5 DEF RetryInv, IsLatest

(* The chains that do not move keep what they count on; the one that moves *)
(* must find it at its next await.                                         *)
LEMMA ChainMoves ==
  ASSUME IInv, RowMoves, NEW c \in Chains, NEW p \in Points, NEW k \in Keys,
         NEW fs \in Seq(SUBSET Nodes), Goto(c, p, k, fs), PendingKept(c),
         p \in {"stat", "spawnfail"} => Kind[k[1]] = "agent",
         p = "gate" => Kind[k[1]] = "approval" /\ nodeRun'[k] # "absent",
         p = "goal" => nodeRun[k] = "absent" /\ nodeRun'[k] = "pending",
         p = "loop" => fs # <<>>
  PROVE  ChainInv'
<1>1. /\ pc'[c] = p /\ (p # "idle" => at'[c] = k) /\ frames'[c] = fs
      /\ \A d \in Chains \ {c} : pc'[d] = pc[d] /\ at'[d] = at[d] /\ frames'[d] = frames[d]
  BY DEF Goto, IInv, TypeOK
<1>2. \A d \in Chains : at[d] \in Keys
  BY DEF IInv, TypeOK
<1>3. \A j \in Keys : nodeRun[j] # "absent" => nodeRun'[j] # "absent"
  BY DEF RowMoves, Same, Created, FirstStatus, Finished, Raised, Resolved
<1>4. \A d \in Chains \ {c} : pc[d] = "goal" =>
        nodeRun[at[d]] = "pending" /\ nodeRun'[at[d]] = "pending"
  BY <1>2 DEF IInv, ChainInv, PendingKept
<1>5. ASSUME NEW d \in Chains
      PROVE  /\ pc'[d] \in {"stat", "spawnfail"} => Kind[at'[d][1]] = "agent"
             /\ pc'[d] = "gate" => Kind[at'[d][1]] = "approval" /\ nodeRun'[at'[d]] # "absent"
             /\ pc'[d] = "goal" => nodeRun'[at'[d]] = "pending"
             /\ pc'[d] = "loop" => frames'[d] # <<>>
  <2>1. CASE d = c
    BY <1>1, <2>1
  <2>2. CASE d # c
    BY <1>1, <1>2, <1>3, <1>4, <2>2 DEF IInv, ChainInv
  <2> QED BY <2>1, <2>2
<1>6. ASSUME NEW d \in Chains, NEW e \in Chains,
             pc'[d] = "goal", pc'[e] = "goal", at'[d] = at'[e]
      PROVE  d = e
  <2>1. CASE d # c /\ e # c
    BY <1>1, <1>6, <2>1 DEF IInv, ChainInv
  <2>2. CASE d = c /\ e # c
    BY <1>1, <1>4, <1>6, <2>2
  <2>3. CASE d # c /\ e = c
    BY <1>1, <1>4, <1>6, <2>3
  <2> QED BY <2>1, <2>2, <2>3
<1> QED BY <1>5, <1>6 DEF ChainInv

\* What ChainInv says of chains that do not move survives a write of rows.
LEMMA ChainsStay ==
  ASSUME IInv, RowMoves, UNCHANGED <<pc, at, frames>>,
         \A k \in Keys : nodeRun[k] = "pending" => nodeRun'[k] = "pending"
  PROVE  ChainInv'
<1>1. \A d \in Chains : at[d] \in Keys
  BY DEF IInv, TypeOK
<1>2. \A j \in Keys : nodeRun[j] # "absent" => nodeRun'[j] # "absent"
  BY DEF RowMoves, Same, Created, FirstStatus, Finished, Raised, Resolved
<1> QED BY <1>1, <1>2 DEF IInv, ChainInv

-----------------------------------------------------------------------------
(* The steps of stepRun and of the dispatches. *)

\* Everything but the row and agent run of k stays as it is.
LEMMA DispatchRows ==
  ASSUME TypeOK, NEW c \in Chains, NEW k \in Keys, NEW fs, DispatchNode(c, k, fs)
  PROVE  /\ \A j \in Keys : j # k => nodeRun'[j] = nodeRun[j] /\ childRun'[j] = childRun[j]
         /\ Same(k) \/ Created(k)
         /\ childRun'[k] # "none" => childRun[k] # "none" \/ Kind[k[1]] = "agent"
<1> USE DEF TypeOK, Same, Created, FirstStatus
<1>1. CASE nodeRun[k] # "absent"
  BY <1>1 DEF DispatchNode
<1>2. CASE nodeRun[k] = "absent" /\ Kind[k[1]] = "agent" /\ DispatchAgent(c, k, fs)
  BY <1>2 DEF DispatchAgent
<1>3. CASE nodeRun[k] = "absent" /\ Kind[k[1]] = "approval" /\ DispatchApproval(c, k, fs)
  BY <1>3 DEF DispatchApproval
<1>4. CASE nodeRun[k] = "absent" /\ Kind[k[1]] = "goal_handoff" /\ DispatchGoalHandoff(c, k, fs)
  BY <1>4 DEF DispatchGoalHandoff
<1>5. CASE nodeRun[k] = "absent" /\ Kind[k[1]] = "output" /\ DispatchOutput(c, k, fs)
  BY <1>5 DEF DispatchOutput
<1> QED BY <1>1, <1>2, <1>3, <1>4, <1>5 DEF DispatchNode

\* Where the dispatching chain is next.
LEMMA DispatchMoves ==
  ASSUME IInv, NEW c \in Chains, NEW k \in Keys, NEW fs \in Seq(SUBSET Nodes),
         DispatchNode(c, k, fs)
  PROVE  /\ ChainInv'
         /\ pc'[c] # "retry"
         /\ \A d \in Chains \ {c} : pc'[d] = pc[d] /\ at'[d] = at[d]
<1>0. RowMoves /\ PendingKept(c)
  BY DispatchRows DEF RowMoves, PendingKept, IInv, Same, Created
<1>1. TypeOK /\ at[c] \in Keys /\ <<>> \in Seq(SUBSET Nodes)
  BY DEF IInv, TypeOK
<1> DEFINE p == Resume(fs)
<1>2. p \in Points /\ p \notin {"stat", "spawnfail", "gate", "goal", "retry"} /\ (p = "loop" => fs # <<>>)
  BY DEF Resume, Points
<1>3. {"idle", "spawnfail", "gate", "goal", "step"} \subseteq Points
  BY DEF Points
<1>4. CASE nodeRun[k] # "absent"
  <2>1. Goto(c, "idle", at[c], <<>>)
    BY <1>4 DEF DispatchNode, Throw
  <2> QED BY <1>0, <1>1, <1>3, <2>1, ChainMoves DEF Goto, TypeOK
<1>5. CASE nodeRun[k] = "absent" /\ Kind[k[1]] = "agent" /\ DispatchAgent(c, k, fs)
  <2>1. CASE Goto(c, p, k, fs)
    BY <1>0, <1>1, <1>2, <2>1, ChainMoves DEF Goto, TypeOK
  <2>2. CASE Goto(c, "spawnfail", k, fs)
    BY <1>0, <1>1, <1>3, <1>5, <2>2, ChainMoves DEF Goto, TypeOK
  <2> QED BY <1>5, <2>1, <2>2 DEF DispatchAgent
<1>6. CASE nodeRun[k] = "absent" /\ Kind[k[1]] = "approval" /\ DispatchApproval(c, k, fs)
  <2>1. Goto(c, "gate", k, fs) /\ nodeRun'[k] # "absent"
    BY <1>1, <1>6 DEF DispatchApproval, TypeOK
  <2> QED BY <1>0, <1>1, <1>3, <1>6, <2>1, ChainMoves DEF Goto, TypeOK
<1>7. CASE nodeRun[k] = "absent" /\ Kind[k[1]] = "goal_handoff" /\ DispatchGoalHandoff(c, k, fs)
  <2>1. Goto(c, "goal", k, fs) /\ nodeRun'[k] = "pending"
    BY <1>1, <1>7 DEF DispatchGoalHandoff, TypeOK
  <2> QED BY <1>0, <1>1, <1>3, <1>7, <2>1, ChainMoves DEF Goto, TypeOK
<1>8. CASE nodeRun[k] = "absent" /\ Kind[k[1]] = "output" /\ DispatchOutput(c, k, fs)
  <2>1. Goto(c, "step", k, fs)
    BY <1>8 DEF DispatchOutput
  <2> QED BY <1>0, <1>1, <1>3, <2>1, ChainMoves DEF Goto, TypeOK
<1> QED BY <1>4, <1>5, <1>6, <1>7, <1>8 DEF DispatchNode

(* A dispatch in a run that is neither unsaved nor completed is safe.      *)
LEMMA DispatchKeeps ==
  ASSUME IInv, NEW c \in Chains, NEW k \in Keys, NEW fs \in Seq(SUBSET Nodes),
         DispatchNode(c, k, fs), EngineStep, UNCHANGED runStatus,
         runStatus \notin {"none", "completed"}, k[2] = 1 \/ c = TransitionChain
  PROVE  IInv'
<1>0. TypeOK
  BY DEF IInv
<1>1. TypeOK'
  <2>1. /\ nodeRun' \in [Keys -> RowStatuses] /\ childRun' \in [Keys -> ChildStatuses]
        /\ pc' \in [Chains -> Points] /\ at' \in [Chains -> Keys]
        /\ frames' \in [Chains -> Seq(SUBSET Nodes)] /\ rejected' \in BOOLEAN
    BY <1>0, DispatchType
  <2> QED BY <1>0, <2>1 DEF TypeOK, EngineStep
<1>2. FreshInv' /\ CompletedMeansAllDone'
  BY DEF FreshInv, CompletedMeansAllDone
<1>3. RowMoves
  BY <1>0, DispatchRows DEF RowMoves, Same
<1>4. KindInv'
  BY <1>0, <1>3, DispatchRows, KindKept DEF IInv
<1>5. RetryInv'
  <2>1. CASE c = TransitionChain
    BY <2>1, DispatchMoves DEF RetryInv
  <2>2. CASE c # TransitionChain
    <3>1. EngineRows
      BY <1>0, <2>2, DispatchRows DEF EngineRows, Same
    <3> QED BY <1>3, <2>2, <3>1, Constants, DispatchMoves, RetryKept
  <2> QED BY <2>1, <2>2
<1>6. ChainInv'
  BY DispatchMoves
<1> QED BY <1>1, <1>2, <1>4, <1>5, <1>6 DEF IInv

(* A step that changes no row and no agent run, and moves one chain to a   *)
(* point where it counts on nothing.                                       *)
LEMMA ChainOnly ==
  ASSUME IInv, NEW c \in Chains, NEW p \in {"idle", "publish", "step", "loop", "listed", "scan"},
         NEW k \in Keys, NEW fs \in Seq(SUBSET Nodes), Goto(c, p, k, fs),
         p = "loop" => fs # <<>>, UNCHANGED <<nodeRun, childRun>>,
         runStatus # "none", runStatus' \in RunStatuses \ {"none"},
         runStatus' = "completed" => runStatus = "completed" \/ AllDone,
         lastToken' \in Tokens \cup {"null"}, UNCHANGED <<envelope, file>>,
         todo' \subseteq Keys, recovered' \in BOOLEAN, rejected' \in BOOLEAN,
         faults' \in 0 .. MaxFaults
  PROVE  IInv'
<1>0. TypeOK /\ p \in Points
  BY DEF IInv, Points
<1>1. TypeOK'
  <2>1. /\ pc' \in [Chains -> Points] /\ at' \in [Chains -> Keys]
        /\ frames' \in [Chains -> Seq(SUBSET Nodes)]
    BY <1>0, GotoType
  <2> QED BY <1>0, <2>1 DEF TypeOK
<1>2. FreshInv'
  BY DEF FreshInv
<1>3. CompletedMeansAllDone'
  BY DEF IInv, CompletedMeansAllDone, AllDone, LatestIn, IsLatest
<1>4. RowMoves /\ EngineRows /\ PendingKept(c)
  BY DEF RowMoves, EngineRows, PendingKept, Same
<1>5. KindInv'
  BY DEF IInv, KindInv
<1>6. ChainInv'
  BY <1>0, <1>4, ChainMoves
<1>7. RetryInv'
  <2>1. pc'[TransitionChain] = "retry" =>
          pc[TransitionChain] = "retry" /\ at'[TransitionChain] = at[TransitionChain]
    BY <1>0, Constants DEF Goto, TypeOK
  <2> QED BY <1>4, <2>1, RetryKept
<1> QED BY <1>1, <1>2, <1>3, <1>5, <1>6, <1>7 DEF IInv

\* A chain that returns to its caller keeps the invariant.
LEMMA ReturnKeeps ==
  ASSUME IInv, NEW c \in Chains, NEW fs \in Seq(SUBSET Nodes), Return(c, fs),
         UNCHANGED <<nodeRun, childRun, rejected>>, EngineStep,
         runStatus # "none", runStatus' \in RunStatuses \ {"none"},
         runStatus' = "completed" => runStatus = "completed" \/ AllDone
  PROVE  IInv'
<1> DEFINE p == IF fs = <<>> THEN IF c = SweepChain THEN "scan" ELSE "idle" ELSE "loop"
<1>1. TypeOK /\ at[c] \in Keys
  BY DEF IInv, TypeOK
<1>2. /\ lastToken' \in Tokens \cup {"null"} /\ UNCHANGED <<envelope, file>>
      /\ todo' \subseteq Keys /\ recovered' \in BOOLEAN /\ rejected' \in BOOLEAN
      /\ faults' \in 0 .. MaxFaults
  BY <1>1 DEF TypeOK, EngineStep
<1>3. Goto(c, p, at[c], fs) /\ p \in {"idle", "publish", "step", "loop", "listed", "scan"}
      /\ (p = "loop" => fs # <<>>)
  BY DEF Return
<1> HIDE DEF p
<1> QED BY <1>1, <1>2, <1>3, ChainOnly

\* The dispatch of what remains of a loop keeps it.
LEMMA RestKeeps ==
  ASSUME IInv, NEW c \in Chains, NEW remaining \in SUBSET Nodes,
         NEW fs \in Seq(SUBSET Nodes), DispatchRest(c, remaining, fs), EngineStep,
         runStatus = "running"
  PROVE  IInv'
<1>1. CASE MaybeComplete /\ Return(c, fs) /\ UNCHANGED <<nodeRun, childRun, rejected>>
  <2>1. runStatus' \in RunStatuses \ {"none"}
        /\ (runStatus' = "completed" => runStatus = "completed" \/ AllDone)
    BY <1>1 DEF MaybeComplete, RunStatuses
  <2> QED BY <1>1, <2>1, ReturnKeeps
<1>2. ASSUME NEW n \in remaining, UNCHANGED runStatus,
             DispatchNode(c, <<n, 1>>, <<remaining \ {n}>> \o fs)
      PROVE  IInv'
  <2>1. <<n, 1>> \in Keys
    BY Constants DEF Keys
  <2>2. <<remaining \ {n}>> \o fs \in Seq(SUBSET Nodes)
    OBVIOUS
  <2> QED BY <1>2, <2>1, <2>2, DispatchKeeps
<1> QED BY <1>1, <1>2 DEF DispatchRest

\* A stepRun keeps it.
LEMMA StepRunKeeps ==
  ASSUME IInv, NEW c \in Chains, StepRun(c)
  PROVE  IInv'
<1>1. TypeOK /\ frames[c] \in Seq(SUBSET Nodes) /\ runStatus \in RunStatuses
  BY DEF IInv, TypeOK
<1>2. runStatus # "none"
  BY DEF StepRun, IInv, FreshInv
<1>3. Ready \in SUBSET Nodes
  BY DEF Ready
<1>4. CASE runStatus = "running"
  BY <1>1, <1>3, <1>4, RestKeeps DEF StepRun
<1>5. CASE runStatus # "running"
  <2>1. /\ Return(c, frames[c]) /\ UNCHANGED <<runStatus, nodeRun, childRun, rejected>>
        /\ EngineStep
    BY <1>5 DEF StepRun
  <2> QED BY <1>1, <1>2, <2>1, ReturnKeeps
<1> QED BY <1>4, <1>5

\* The next turn of a loop keeps it.
LEMMA LoopKeeps ==
  ASSUME IInv, NEW c \in Chains, Loop(c)
  PROVE  IInv'
<1>1. TypeOK /\ frames[c] \in Seq(SUBSET Nodes) /\ runStatus \in RunStatuses
      /\ frames[c] # <<>>
  BY DEF IInv, TypeOK, ChainInv, Loop
<1>2. runStatus # "none"
  BY DEF Loop, IInv, FreshInv
<1>3. Head(frames[c]) \in SUBSET Nodes /\ Tail(frames[c]) \in Seq(SUBSET Nodes)
  BY <1>1
<1>4. CASE runStatus = "running"
  BY <1>1, <1>3, <1>4, RestKeeps DEF Loop
<1>5. CASE runStatus # "running"
  <2>1. /\ Return(c, Tail(frames[c])) /\ UNCHANGED <<runStatus, nodeRun, childRun, rejected>>
        /\ EngineStep
    BY <1>5 DEF Loop
  <2> QED BY <1>1, <1>2, <1>3, <2>1, ReturnKeeps
<1> QED BY <1>4, <1>5

-----------------------------------------------------------------------------
(* The slices that finish, fail or raise the row of a chain.               *)

\* Presence and done rows survive every row change that creates none.
LEMMA RowsKept ==
  ASSUME IInv, EngineRows, \A k \in Keys : ~ Created(k) \/ Same(k),
         \A k \in Keys : Raised(k) => Same(k),
         runStatus' = "completed" => runStatus = "completed"
  PROVE  CompletedMeansAllDone'
<1>1. \A k \in Keys : nodeRun[k] = "absent" <=> nodeRun'[k] = "absent"
  BY DEF EngineRows, Same, Finished, Raised
<1>2. \A k \in Keys : nodeRun[k] \in DoneStatuses => nodeRun'[k] \in DoneStatuses
  BY DEF EngineRows, Same, Finished, Raised, DoneStatuses
<1> QED BY <1>1, <1>2, DoneKept DEF IInv

\* The row k of an agent or goal goes from active to completed or failed.
LEMMA FinishKeeps ==
  ASSUME IInv, NEW k \in Keys, NEW s \in {"completed", "failed"},
         (Kind[k[1]] = "agent" /\ nodeRun[k] \in ActiveStatuses) \/ nodeRun[k] = "pending",
         nodeRun' = [nodeRun EXCEPT ![k] = s],
         runStatus' \in {runStatus, "paused"}
  PROVE  /\ EngineRows /\ RowMoves /\ CompletedMeansAllDone'
         /\ runStatus # "none" /\ runStatus' # "none"
         /\ nodeRun' \in [Keys -> RowStatuses]
         /\ \A j \in Keys : j # k => nodeRun'[j] = nodeRun[j]
<1>1. nodeRun \in [Keys -> RowStatuses]
  BY DEF IInv, TypeOK
<1>2. nodeRun[k] \in {"running", "pending"} /\ runStatus # "none"
  BY DEF IInv, KindInv, FreshInv, ActiveStatuses
<1>3. nodeRun'[k] = s /\ \A j \in Keys : j # k => nodeRun'[j] = nodeRun[j]
  BY <1>1
<1>4. EngineRows /\ RowMoves
  BY <1>2, <1>3 DEF EngineRows, RowMoves, Same, Finished
<1>5. \A j \in Keys : (~ Created(j) \/ Same(j)) /\ (Raised(j) => Same(j))
  BY <1>2, <1>3 DEF Created, Same, Raised
<1>6. CompletedMeansAllDone'
  BY <1>4, <1>5, RowsKept
<1> QED BY <1>1, <1>2, <1>3, <1>4, <1>6 DEF RowStatuses

\* The parts put together, for a step of the engine that moves chain c.
LEMMA EngineKeeps ==
  ASSUME IInv, TypeOK', CompletedMeansAllDone', EngineRows, RowMoves,
         runStatus' # "none", NEW c \in Chains,
         NEW p \in {"idle", "publish", "loop", "scan", "stat"},
         NEW k \in Keys, NEW fs \in Seq(SUBSET Nodes), Goto(c, p, k, fs),
         p = "loop" => fs # <<>>, p = "stat" => Kind[k[1]] = "agent",
         PendingKept(c),
         \A j \in Keys : childRun'[j] # "none" => childRun[j] # "none"
  PROVE  IInv'
<1>1. FreshInv'
  BY DEF FreshInv
<1>2. KindInv'
  BY KindKept DEF IInv
<1>3. ChainInv'
  BY ChainMoves DEF Points
<1>4. pc'[TransitionChain] = "retry" =>
        pc[TransitionChain] = "retry" /\ at'[TransitionChain] = at[TransitionChain]
  BY Constants DEF Goto, TypeOK, IInv
<1> QED BY <1>1, <1>2, <1>3, <1>4, RetryKept DEF IInv

\* The same for a step that moves no chain.
LEMMA QuietKeeps ==
  ASSUME IInv, TypeOK', CompletedMeansAllDone', EngineRows, RowMoves,
         runStatus' # "none", UNCHANGED <<pc, at, frames>>,
         \A k \in Keys : nodeRun[k] = "pending" => nodeRun'[k] = "pending",
         \A j \in Keys : childRun'[j] # "none" => childRun[j] # "none"
  PROVE  IInv'
<1>1. FreshInv'
  BY DEF FreshInv
<1>2. KindInv'
  BY KindKept DEF IInv
<1>3. ChainInv'
  BY ChainsStay
<1> QED BY <1>1, <1>2, <1>3, RetryKept DEF IInv

\* Rows that stay as they are.
LEMMA NoRowKeeps ==
  ASSUME IInv, UNCHANGED nodeRun, runStatus' = "completed" => runStatus = "completed"
  PROVE  EngineRows /\ RowMoves /\ CompletedMeansAllDone' /\ \A c \in Chains : PendingKept(c)
<1>1. EngineRows /\ RowMoves /\ \A c \in Chains : PendingKept(c)
  BY DEF EngineRows, RowMoves, PendingKept, Same
<1> QED BY <1>1, DoneKept DEF IInv

\* Where a slice leaves its chain: in the loop around it or before stepRun.
LEMMA SettleType ==
  ASSUME IInv, NEW c \in Chains, Settle(c)
  PROVE  \E p \in {"publish", "loop"} :
           /\ Goto(c, p, at[c], frames[c])
           /\ p = "loop" => frames[c] # <<>>
           /\ p \in Points /\ at[c] \in Keys /\ frames[c] \in Seq(SUBSET Nodes)
<1>1. at[c] \in Keys /\ frames[c] \in Seq(SUBSET Nodes)
  BY DEF IInv, TypeOK
<1> QED BY <1>1 DEF Settle, Resume, Points

\* A spawn that throws keeps it.
LEMMA SpawnFailedKeeps ==
  ASSUME IInv, NEW c \in Chains, SpawnFailed(c)
  PROVE  IInv'
<1>1. PICK p \in {"publish", "loop"} :
         /\ Goto(c, p, at[c], frames[c])
         /\ p = "loop" => frames[c] # <<>>
         /\ p \in Points /\ at[c] \in Keys /\ frames[c] \in Seq(SUBSET Nodes)
  BY SettleType DEF SpawnFailed
<1>2. Kind[at[c][1]] = "agent" /\ runStatus # "none"
  BY DEF SpawnFailed, IInv, ChainInv, FreshInv
<1>3. /\ EngineRows /\ RowMoves /\ CompletedMeansAllDone' /\ runStatus' # "none"
      /\ nodeRun' \in [Keys -> RowStatuses] /\ runStatus' \in RunStatuses
      /\ PendingKept(c)
  <2>1. CASE nodeRun[at[c]] \in ActiveStatuses
    <3>1. nodeRun[at[c]] # "pending"
      BY <1>1, <1>2 DEF IInv, KindInv
    <3>2. FailNode(at[c])
      BY <2>1 DEF SpawnFailed
    <3> QED BY <1>1, <1>2, <2>1, <3>1, <3>2, FinishKeeps DEF FailNode, PendingKept, RunStatuses
  <2>2. CASE nodeRun[at[c]] \notin ActiveStatuses
    BY <1>2, <2>2, NoRowKeeps DEF SpawnFailed, rowVars, IInv, TypeOK
  <2> QED BY <2>1, <2>2
<1>4. TypeOK'
  <2>1. pc' \in [Chains -> Points] /\ at' \in [Chains -> Keys] /\ frames' \in [Chains -> Seq(SUBSET Nodes)]
    BY <1>1, GotoType DEF IInv
  <2> QED BY <1>3, <2>1 DEF TypeOK, IInv, SpawnFailed, EngineStep
<1> QED BY <1>1, <1>3, <1>4, EngineKeeps DEF SpawnFailed

\* A gate written after its await keeps it.
LEMMA GateRaisedKeeps ==
  ASSUME IInv, NEW c \in Chains, GateRaised(c)
  PROVE  IInv'
<1>1. PICK p \in {"publish", "loop"} :
         /\ Goto(c, p, at[c], frames[c])
         /\ p = "loop" => frames[c] # <<>>
         /\ p \in Points /\ at[c] \in Keys /\ frames[c] \in Seq(SUBSET Nodes)
  BY SettleType DEF GateRaised
<1>2. Kind[at[c][1]] = "approval" /\ nodeRun[at[c]] # "absent"
  BY DEF GateRaised, IInv, ChainInv
<1>3. /\ nodeRun'[at[c]] = "awaiting_approval" /\ nodeRun' \in [Keys -> RowStatuses]
      /\ \A j \in Keys : j # at[c] => nodeRun'[j] = nodeRun[j]
  BY <1>1 DEF IInv, TypeOK, GateRaised, RowStatuses
<1>4. EngineRows /\ RowMoves
  BY <1>2, <1>3 DEF EngineRows, RowMoves, Same, Raised
<1>5. PendingKept(c)
  BY <1>1, <1>2, <1>3 DEF PendingKept, IInv, KindInv
<1>6. CompletedMeansAllDone' /\ runStatus' # "none"
  BY DEF CompletedMeansAllDone, GateRaised
<1>7. TypeOK'
  <2>1. pc' \in [Chains -> Points] /\ at' \in [Chains -> Keys] /\ frames' \in [Chains -> Seq(SUBSET Nodes)]
    BY <1>1, GotoType DEF IInv
  <2> QED BY <1>3, <2>1 DEF TypeOK, IInv, GateRaised, EngineStep, RunStatuses
<1> QED BY <1>1, <1>4, <1>5, <1>6, <1>7, EngineKeeps DEF GateRaised

\* A goal row written after its await keeps it.
LEMMA GoalStartedKeeps ==
  ASSUME IInv, NEW c \in Chains, GoalStarted(c)
  PROVE  IInv'
<1>1. PICK p \in {"publish", "loop"} :
         /\ Goto(c, p, at[c], frames[c])
         /\ p = "loop" => frames[c] # <<>>
         /\ p \in Points /\ at[c] \in Keys /\ frames[c] \in Seq(SUBSET Nodes)
  BY SettleType DEF GoalStarted
<1>2. nodeRun[at[c]] = "pending" /\ pc[c] = "goal"
  BY DEF GoalStarted, IInv, ChainInv
<1>3. PICK s \in {"completed", "failed"} : nodeRun' = [nodeRun EXCEPT ![at[c]] = s]
  BY DEF GoalStarted, FailNode
<1>4. runStatus' \in {runStatus, "paused"}
  BY DEF GoalStarted, FailNode
<1>5. /\ EngineRows /\ RowMoves /\ CompletedMeansAllDone' /\ runStatus' # "none"
      /\ nodeRun' \in [Keys -> RowStatuses]
      /\ \A j \in Keys : j # at[c] => nodeRun'[j] = nodeRun[j]
  BY <1>1, <1>2, <1>3, <1>4, FinishKeeps
<1>6. PendingKept(c)
  BY <1>2, <1>5 DEF PendingKept
<1>7. TypeOK'
  <2>1. pc' \in [Chains -> Points] /\ at' \in [Chains -> Keys] /\ frames' \in [Chains -> Seq(SUBSET Nodes)]
    BY <1>1, GotoType DEF IInv
  <2> QED BY <1>4, <1>5, <2>1 DEF TypeOK, IInv, GoalStarted, EngineStep, RunStatuses
<1> QED BY <1>1, <1>5, <1>6, <1>7, EngineKeeps DEF GoalStarted

\* The end of a node, written after the await of its file, keeps it.
LEMMA FinishNodeKeeps ==
  ASSUME IInv, NEW c \in Chains, FinishNode(c)
  PROVE  IInv'
<1>1. PICK p \in {"publish", "idle", "scan"} : Goto(c, p, at[c], <<>>)
  BY DEF FinishNode, Return
<1>2. Kind[at[c][1]] = "agent" /\ at[c] \in Keys /\ runStatus # "none"
  BY DEF FinishNode, IInv, ChainInv, TypeOK, FreshInv
<1>3. /\ EngineRows /\ RowMoves /\ CompletedMeansAllDone' /\ runStatus' # "none"
      /\ nodeRun' \in [Keys -> RowStatuses] /\ runStatus' \in RunStatuses
      /\ PendingKept(c)
  <2>1. CASE nodeRun[at[c]] \in ActiveStatuses
    <3>1. nodeRun[at[c]] # "pending"
      BY <1>2 DEF IInv, KindInv
    <3>2. PICK s \in {"completed", "failed"} : nodeRun' = [nodeRun EXCEPT ![at[c]] = s]
      BY <2>1 DEF FinishNode, FailNode
    <3>3. runStatus' \in {runStatus, "paused"}
      BY <2>1 DEF FinishNode, FailNode
    <3> QED BY <1>2, <2>1, <3>1, <3>2, <3>3, FinishKeeps DEF PendingKept, RunStatuses, IInv, TypeOK
  <2>2. CASE nodeRun[at[c]] \notin ActiveStatuses
    BY <1>2, <2>2, NoRowKeeps DEF FinishNode, rowVars, IInv, TypeOK
  <2> QED BY <2>1, <2>2
<1>4. <<>> \in Seq(SUBSET Nodes) /\ p \in Points
  BY DEF Points
<1>5. TypeOK'
  <2>1. pc' \in [Chains -> Points] /\ at' \in [Chains -> Keys] /\ frames' \in [Chains -> Seq(SUBSET Nodes)]
    BY <1>1, <1>2, <1>4, GotoType DEF IInv
  <2> QED BY <1>3, <2>1 DEF TypeOK, IInv, FinishNode, EngineStep
<1> QED BY <1>1, <1>2, <1>3, <1>4, <1>5, EngineKeeps DEF FinishNode

-----------------------------------------------------------------------------
(* startRun and the transitions. *)

\* The start of the run keeps it.
LEMMA StartRunKeeps ==
  ASSUME IInv, StartRun
  PROVE  IInv'
<1> DEFINE k0 == <<Trigger, 1>>
<1>1. /\ k0 \in Keys /\ Kind[k0[1]] = "trigger" /\ k0[2] = 1
      /\ StartChain \in Chains /\ "publish" \in Points /\ <<>> \in Seq(SUBSET Nodes)
  BY Constants, GraphAssumption DEF Points
<1>2. \A k \in Keys : nodeRun[k] = "absent" /\ childRun[k] = "none"
  BY DEF StartRun, IInv, FreshInv
<1>3. /\ nodeRun'[k0] = "completed" /\ nodeRun' \in [Keys -> RowStatuses]
      /\ \A k \in Keys : k # k0 => nodeRun'[k] = nodeRun[k]
  BY <1>1 DEF IInv, TypeOK, StartRun, RowStatuses
<1>4. RowMoves /\ PendingKept(StartChain)
  BY <1>1, <1>2, <1>3 DEF RowMoves, PendingKept, Same, Created, FirstStatus
<1>5. Goto(StartChain, "publish", k0, <<>>)
  BY DEF StartRun
<1>6. FreshInv' /\ CompletedMeansAllDone'
  BY DEF StartRun, FreshInv, CompletedMeansAllDone
<1>7. KindInv'
  BY <1>4, KindKept DEF IInv, StartRun
<1>8. ChainInv'
  BY <1>1, <1>4, <1>5, ChainMoves
<1>9. RetryInv'
  <2>1. pc'[TransitionChain] # "retry"
    BY <1>5, Constants DEF Goto, StartRun, IInv, FreshInv, TypeOK
  <2> QED BY <2>1 DEF RetryInv
<1>10. TypeOK'
  <2>1. pc' \in [Chains -> Points] /\ at' \in [Chains -> Keys] /\ frames' \in [Chains -> Seq(SUBSET Nodes)]
    BY <1>1, <1>5, GotoType DEF IInv
  <2> QED BY <1>3, <2>1 DEF TypeOK, IInv, StartRun, RunStatuses
<1> QED BY <1>6, <1>7, <1>8, <1>9, <1>10 DEF IInv

\* A transition finds its chain idle, and leaves the run neither unsaved nor
\* completed; it may move its chain to one of the points given.
LEMMA CommandKeeps ==
  ASSUME IInv, NEW action, NEW token \in Tokens, Transition(action, token), RowMoves,
         nodeRun' \in [Keys -> RowStatuses],
         runStatus' \in RunStatuses \ {"none", "completed"},
         \A k \in Keys : nodeRun[k] = "pending" => nodeRun'[k] = "pending",
         \/ UNCHANGED <<pc, at, frames>>
         \/ Then("publish", at[TransitionChain])
         \/ \E k \in Keys : Then("publish", k)
         \/ \E k \in Keys : /\ Then("retry", k) /\ UNCHANGED nodeRun
                             /\ IsLatest(k) /\ nodeRun[k] = "failed" /\ k[2] < MaxAttempts
  PROVE  IInv'
<1>1. /\ TransitionChain \in Chains /\ {"publish", "retry"} \subseteq Points
      /\ <<>> \in Seq(SUBSET Nodes) /\ TypeOK
      /\ at[TransitionChain] \in Keys /\ pc[TransitionChain] = "idle"
  <2>1. TransitionChain \in Chains /\ {"publish", "retry"} \subseteq Points
        /\ <<>> \in Seq(SUBSET Nodes) /\ TypeOK
    BY Constants DEF Points, IInv
  <2> QED BY <2>1 DEF TypeOK, Transition
<1>2. FreshInv' /\ CompletedMeansAllDone'
  BY DEF FreshInv, CompletedMeansAllDone
<1>3. KindInv'
  BY KindKept DEF IInv, Transition
<1>4. PendingKept(TransitionChain)
  BY DEF PendingKept
<1>5. lastToken' \in Tokens /\ UNCHANGED <<envelope, file, childRun, todo, recovered, rejected, faults>>
  BY DEF Transition
<1>6. CASE UNCHANGED <<pc, at, frames>>
  <2>1. ChainInv'
    BY <1>6, ChainsStay
  <2>2. RetryInv' /\ TypeOK'
    BY <1>1, <1>5, <1>6 DEF RetryInv, TypeOK
  <2> QED BY <1>2, <1>3, <2>1, <2>2 DEF IInv
<1>7. ASSUME NEW p \in {"publish", "retry"}, NEW k \in Keys, Then(p, k),
             p = "retry" => /\ UNCHANGED nodeRun /\ IsLatest(k)
                            /\ nodeRun[k] = "failed" /\ k[2] < MaxAttempts
      PROVE  IInv'
  <2>1. Goto(TransitionChain, p, k, <<>>)
    BY <1>7 DEF Then
  <2>2. ChainInv'
    BY <1>1, <1>4, <2>1, ChainMoves
  <2>3. TypeOK'
    <3>1. pc' \in [Chains -> Points] /\ at' \in [Chains -> Keys] /\ frames' \in [Chains -> Seq(SUBSET Nodes)]
      BY <1>1, <2>1, GotoType
    <3> QED BY <1>1, <1>5, <3>1 DEF TypeOK
  <2>4. pc'[TransitionChain] = p /\ at'[TransitionChain] = k
    BY <1>1, <2>1 DEF Goto, TypeOK
  <2>5. RetryInv'
    BY <1>7, <2>4 DEF RetryInv, IsLatest
  <2> QED BY <1>2, <1>3, <2>2, <2>3, <2>5 DEF IInv
<1> QED BY <1>1, <1>6, <1>7

\* The five transitions keep it.
LEMMA TransitionsKeep ==
  ASSUME IInv, NEW token \in Tokens, Command(token)
  PROVE  IInv'
<1>1. nodeRun \in [Keys -> RowStatuses]
  BY DEF IInv, TypeOK
<1>2. \A k \in LatestFailed : k \in Keys /\ IsLatest(k) /\ nodeRun[k] = "failed"
  BY DEF LatestFailed, LatestWith
<1>3. {"running", "paused", "failed"} \subseteq RunStatuses \ {"none", "completed"}
  BY DEF RunStatuses
<1>4. ASSUME NEW s \in {"completed", "failed"}, ResolveGates(s)
      PROVE  /\ RowMoves /\ nodeRun' \in [Keys -> RowStatuses]
             /\ \A k \in Keys : nodeRun[k] = "pending" => nodeRun'[k] = "pending"
  <2>1. \A k \in Keys : nodeRun'[k] = IF k \in LatestWith("awaiting_approval") THEN s ELSE nodeRun[k]
    BY <1>4 DEF ResolveGates
  <2>2. nodeRun' \in [Keys -> RowStatuses]
    BY <1>1, <1>4 DEF ResolveGates, RowStatuses
  <2>3. RowMoves
    BY <2>1 DEF RowMoves, Same, Resolved, LatestWith
  <2> QED BY <2>1, <2>2, <2>3 DEF LatestWith
<1>5. CASE Approve(token)
  BY <1>3, <1>4, <1>5, CommandKeeps DEF Approve
<1>6. CASE Reject(token)
  BY <1>3, <1>4, <1>6, CommandKeeps DEF Reject
<1>7. CASE Abort(token)
  <2>1. RowMoves
    BY <1>7 DEF Abort, RowMoves, Same
  <2> QED BY <1>1, <1>3, <1>7, <2>1, CommandKeeps DEF Abort
<1>8. CASE Retry(token)
  <2>1. RowMoves
    BY <1>8 DEF Retry, RowMoves, Same
  <2> QED BY <1>1, <1>2, <1>3, <1>8, <2>1, CommandKeeps DEF Retry
<1>9. CASE Skip(token)
  <2>1. PICK k \in LatestFailed : nodeRun' = [nodeRun EXCEPT ![k] = "skipped"] /\ Then("publish", k)
    BY <1>9 DEF Skip
  <2>2. /\ RowMoves /\ nodeRun' \in [Keys -> RowStatuses]
        /\ \A j \in Keys : nodeRun[j] = "pending" => nodeRun'[j] = "pending"
    BY <1>1, <1>2, <2>1 DEF RowMoves, Same, Resolved, RowStatuses
  <2> QED BY <1>2, <1>3, <1>9, <2>1, <2>2, CommandKeeps DEF Skip
<1> QED BY <1>5, <1>6, <1>7, <1>8, <1>9 DEF Command

\* The dispatch a retry makes after its await keeps it.
LEMMA RetryDispatchKeeps ==
  ASSUME IInv, RetryDispatch
  PROVE  IInv'
<1> DEFINE k == <<at[TransitionChain][1], at[TransitionChain][2] + 1>>
<1>1. /\ at[TransitionChain] \in Keys /\ IsLatest(at[TransitionChain])
      /\ at[TransitionChain][2] < MaxAttempts
      /\ nodeRun[at[TransitionChain]] \in {"failed", "awaiting_approval"}
      /\ pc[TransitionChain] = "retry"
  BY Constants DEF RetryDispatch, IInv, TypeOK, RetryInv
<1>2. k \in Keys /\ TransitionChain \in Chains /\ <<>> \in Seq(SUBSET Nodes)
  BY <1>1, Successor, Constants
<1>3. runStatus \notin {"none", "completed"}
  BY <1>1, <1>2, UnfinishedNode DEF IInv, FreshInv, DoneStatuses
<1> QED BY <1>2, <1>3, DispatchKeeps DEF RetryDispatch

-----------------------------------------------------------------------------
(* The agent runs, the sweep and the faults. *)

\* The row of an agent fails if it is still active.
LEMMA FailIfActiveKeeps ==
  ASSUME IInv, NEW k \in Keys, Kind[k[1]] = "agent", FailIfActive(k)
  PROVE  /\ EngineRows /\ RowMoves /\ CompletedMeansAllDone'
         /\ nodeRun' \in [Keys -> RowStatuses] /\ runStatus' \in RunStatuses
         /\ runStatus # "none" => runStatus' # "none"
         /\ \A j \in Keys : nodeRun[j] = "pending" => nodeRun'[j] = "pending"
<1>1. CASE nodeRun[k] \in ActiveStatuses
  <2>1. nodeRun[k] # "pending"
    BY DEF IInv, KindInv
  <2> QED BY <1>1, <2>1, FinishKeeps DEF FailIfActive, FailNode, RunStatuses
<1>2. CASE nodeRun[k] \notin ActiveStatuses
  BY <1>2, NoRowKeeps DEF FailIfActive, rowVars, IInv, TypeOK
<1> QED BY <1>1, <1>2

\* The events of an agent run keep it.
LEMMA ChildKeeps ==
  ASSUME IInv, NEW k \in Keys, ChildNext(k)
  PROVE  IInv'
<1>1. TypeOK
  BY DEF IInv
<1>2. childRun[k] # "none" \/ nodeRun[k] \in ActiveStatuses
  BY DEF ChildNext, ChildStarts, ChildRejected, WriteOutput, Advance, ChildCompletes,
         ChildFails, ChildFailsUnhooked, CancelRun, TurnStops
<1>3. runStatus # "none"
  BY <1>2 DEF IInv, FreshInv, ActiveStatuses
<1>4. childRun[k] # "none" => Kind[k[1]] = "agent"
  BY DEF IInv, KindInv
<1>5. CASE ChildStarts(k) \/ WriteOutput(k) \/ Advance(k) \/ ChildFailsUnhooked(k) \/ TurnStops(k)
  <2>1. UNCHANGED <<runStatus, nodeRun, pc, at, frames>> /\ ChildStep
    BY <1>5 DEF ChildStarts, WriteOutput, Advance, ChildFailsUnhooked, TurnStops
  <2>2. /\ childRun' \in [Keys -> ChildStatuses]
        /\ \A j \in Keys : childRun'[j] # "none" => childRun[j] # "none"
    BY <1>1, <1>5 DEF ChildStarts, WriteOutput, Advance, ChildFailsUnhooked, TurnStops,
       TypeOK, ChildStatuses
  <2>3. envelope' \subseteq Keys /\ file' \subseteq Keys
    BY <1>1, <1>5, Constants DEF ChildStarts, WriteOutput, Advance, ChildFailsUnhooked, TurnStops,
       TypeOK
  <2>4. TypeOK'
    BY <1>1, <2>1, <2>2, <2>3 DEF TypeOK, ChildStep
  <2> QED BY <1>3, <2>1, <2>2, <2>4, NoRowKeeps, QuietKeeps
<1>6. CASE ChildRejected(k) \/ ChildFails(k) \/ CancelRun(k)
  <2>1. FailIfActive(k) /\ ChildStep /\ UNCHANGED <<envelope, file, pc, at, frames>>
        /\ childRun[k] # "none"
    BY <1>6 DEF ChildRejected, ChildFails, CancelRun
  <2>2. /\ childRun' \in [Keys -> ChildStatuses]
        /\ \A j \in Keys : childRun'[j] # "none" => childRun[j] # "none"
    BY <1>1, <1>6 DEF ChildRejected, ChildFails, CancelRun, TypeOK, ChildStatuses
  <2>3. /\ EngineRows /\ RowMoves /\ CompletedMeansAllDone'
        /\ nodeRun' \in [Keys -> RowStatuses] /\ runStatus' \in RunStatuses
        /\ runStatus' # "none"
        /\ \A j \in Keys : nodeRun[j] = "pending" => nodeRun'[j] = "pending"
    BY <1>3, <1>4, <2>1, FailIfActiveKeeps
  <2>4. TypeOK'
    BY <1>1, <2>1, <2>2, <2>3 DEF TypeOK, ChildStep
  <2> QED BY <2>1, <2>2, <2>3, <2>4, QuietKeeps
<1>7. CASE ChildCompletes(k)
  <2>1. /\ Kind[k[1]] = "agent" /\ Hook(k) \in Chains
        /\ "stat" \in Points /\ <<>> \in Seq(SUBSET Nodes)
    BY <1>4, <1>7, Constants DEF ChildCompletes, Points
  <2>2. /\ childRun' \in [Keys -> ChildStatuses]
        /\ \A j \in Keys : childRun'[j] # "none" => childRun[j] # "none"
    BY <1>1, <1>7 DEF ChildCompletes, TypeOK, ChildStatuses
  <2>3. UNCHANGED <<runStatus, nodeRun, envelope, file>> /\ ChildStep
    BY <1>7 DEF ChildCompletes
  <2>4. /\ EngineRows /\ RowMoves /\ CompletedMeansAllDone'
        /\ \A c \in Chains : PendingKept(c)
    BY <2>3, NoRowKeeps
  <2>5. CASE Goto(Hook(k), "stat", k, <<>>)
    <3>1. pc' \in [Chains -> Points] /\ at' \in [Chains -> Keys] /\ frames' \in [Chains -> Seq(SUBSET Nodes)]
      BY <1>1, <2>1, <2>5, GotoType
    <3>2. TypeOK'
      BY <1>1, <2>2, <2>3, <3>1 DEF TypeOK, ChildStep
    <3> QED BY <1>3, <2>1, <2>2, <2>3, <2>4, <2>5, <3>2, EngineKeeps
  <2>6. CASE UNCHANGED <<pc, at, frames>>
    <3>1. TypeOK'
      BY <1>1, <2>2, <2>3, <2>6 DEF TypeOK, ChildStep
    <3> QED BY <1>3, <2>2, <2>3, <2>4, <2>6, <3>1, QuietKeeps
  <2> QED BY <1>7, <2>5, <2>6 DEF ChildCompletes
<1> QED BY <1>5, <1>6, <1>7 DEF ChildNext

\* The sweep keeps it.
LEMMA SweepKeeps ==
  ASSUME IInv, SweepStart \/ RecoverRun \/ SweepStep \/ \E k \in Keys : SweepChild(k)
  PROVE  IInv'
<1>1. TypeOK /\ SweepChain \in Chains /\ at[SweepChain] \in Keys /\ <<>> \in Seq(SUBSET Nodes)
  <2>1. TypeOK /\ SweepChain \in Chains /\ <<>> \in Seq(SUBSET Nodes)
    BY Constants DEF IInv
  <2> QED BY <2>1 DEF TypeOK
<1>2. runStatus # "none"
  BY <1>1 DEF SweepStart, RecoverRun, SweepStep, SweepChild, IInv, FreshInv
<1>3. CASE SweepStart \/ RecoverRun
  <2>1. PICK p \in {"listed", "scan"} : Goto(SweepChain, p, at[SweepChain], <<>>)
    BY <1>3 DEF SweepStart, RecoverRun
  <2>2. /\ UNCHANGED <<runStatus, lastToken, nodeRun, envelope, file, childRun, rejected, faults>>
        /\ todo' \subseteq Keys /\ recovered' \in BOOLEAN
    BY <1>1, <1>3 DEF SweepStart, RecoverRun, TypeOK
  <2> QED BY <1>1, <1>2, <2>1, <2>2, ChainOnly DEF TypeOK
<1>4. CASE SweepStep
  <2>1. PICK p \in {"idle", "step"} : Goto(SweepChain, p, at[SweepChain], <<>>)
    BY <1>4 DEF SweepStep
  <2>2. UNCHANGED <<runStatus, lastToken, nodeRun, envelope, file, childRun, todo, rejected, faults>>
        /\ recovered' \in BOOLEAN
    BY <1>4 DEF SweepStep
  <2> QED BY <1>1, <1>2, <2>1, <2>2, ChainOnly DEF TypeOK
<1>5. ASSUME NEW k \in Keys, SweepChild(k)
      PROVE  IInv'
  <2>1. UNCHANGED <<lastToken, envelope, file, childRun, rejected, faults>>
        /\ todo' \subseteq Keys /\ recovered' \in BOOLEAN
    BY <1>1, <1>5 DEF SweepChild, TypeOK
  <2>2. childRun[k] # "none" => Kind[k[1]] = "agent"
    BY DEF IInv, KindInv
  <2>3. CASE childRun[k] = "completed" /\ nodeRun[k] \in ActiveStatuses
    <3>1. Goto(SweepChain, "stat", k, <<>>) /\ UNCHANGED rowVars /\ "stat" \in Points
      BY <1>5, <2>3 DEF SweepChild, Points
    <3>2. EngineRows /\ RowMoves /\ CompletedMeansAllDone' /\ PendingKept(SweepChain)
      BY <1>1, <3>1, NoRowKeeps DEF rowVars
    <3>3. TypeOK'
      <4>1. pc' \in [Chains -> Points] /\ at' \in [Chains -> Keys] /\ frames' \in [Chains -> Seq(SUBSET Nodes)]
        BY <1>1, <3>1, GotoType
      <4> QED BY <1>1, <2>1, <3>1, <4>1 DEF TypeOK, rowVars
    <3> QED BY <1>1, <1>2, <2>1, <2>2, <2>3, <3>1, <3>2, <3>3, EngineKeeps DEF rowVars
  <2>4. CASE ~ (childRun[k] = "completed" /\ nodeRun[k] \in ActiveStatuses)
    <3>1. UNCHANGED <<pc, at, frames>>
      BY <1>5, <2>4 DEF SweepChild
    <3>2. /\ EngineRows /\ RowMoves /\ CompletedMeansAllDone'
          /\ nodeRun' \in [Keys -> RowStatuses] /\ runStatus' \in RunStatuses
          /\ runStatus' # "none"
          /\ \A j \in Keys : nodeRun[j] = "pending" => nodeRun'[j] = "pending"
      <4>1. CASE childRun[k] \in {"aborting", "failed"}
        BY <1>2, <1>5, <2>2, <4>1, FailIfActiveKeeps DEF SweepChild
      <4>2. CASE childRun[k] \notin {"aborting", "failed"}
        BY <1>1, <1>2, <1>5, <4>2, NoRowKeeps DEF SweepChild, rowVars, TypeOK
      <4> QED BY <4>1, <4>2
    <3>3. TypeOK'
      BY <1>1, <2>1, <3>1, <3>2 DEF TypeOK
    <3> QED BY <2>1, <3>1, <3>2, <3>3, QuietKeeps
  <2> QED BY <2>3, <2>4
<1> QED BY <1>3, <1>4, <1>5

\* An effect that throws keeps it.
LEMMA PortFaultKeeps ==
  ASSUME IInv, NEW c \in Chains, PortFault(c)
  PROVE  IInv'
<1>1. TypeOK /\ at[c] \in Keys /\ <<>> \in Seq(SUBSET Nodes) /\ runStatus # "none"
  BY DEF IInv, TypeOK, PortFault, FreshInv
<1>2. faults' \in 0 .. MaxFaults
  BY <1>1, BoundAssumption DEF TypeOK, PortFault
<1>3. Goto(c, "idle", at[c], <<>>)
  BY DEF PortFault, Throw
<1>4. UNCHANGED <<runStatus, lastToken, nodeRun, envelope, file, childRun, todo, recovered, rejected>>
  BY DEF PortFault
<1> QED BY <1>1, <1>2, <1>3, <1>4, ChainOnly DEF TypeOK

\* A crash keeps it.
LEMMA CrashKeeps ==
  ASSUME IInv, Crash
  PROVE  IInv'
<1>1. TypeOK /\ <<Trigger, 1>> \in Keys
  BY Constants DEF IInv
<1>2. /\ \A c \in Chains : pc'[c] = "idle"
      /\ pc' \in [Chains -> Points] /\ at' \in [Chains -> Keys]
      /\ frames' \in [Chains -> Seq(SUBSET Nodes)]
  BY <1>1 DEF Crash, Points
<1>3. /\ childRun' \in [Keys -> ChildStatuses]
      /\ \A k \in Keys : childRun'[k] # "none" => childRun[k] # "none"
  <2>1. PICK dead \in SUBSET {k \in Keys : childRun[k] = "live"},
             ended \in {{}} \cup {{k} : k \in {j \in Keys : childRun[j] = "live"}} :
          childRun' = [k \in Keys |->
            CASE childRun[k] = "requested" -> "none"
              [] k \in ended -> "completed"
              [] k \in dead \ ended -> "orphan"
              [] childRun[k] = "aborting" -> "failed"
              [] OTHER -> childRun[k]]
    BY DEF Crash
  <2>2. \A k \in Keys : /\ k \in ended \/ k \in dead => childRun[k] = "live"
                        /\ childRun[k] \in ChildStatuses
    BY <1>1 DEF TypeOK
  <2>3. ASSUME NEW k \in Keys
        PROVE  childRun'[k] \in ChildStatuses /\ (childRun'[k] # "none" => childRun[k] # "none")
    BY <2>1, <2>2 DEF ChildStatuses
  <2> QED BY <2>1, <2>3
<1>4. faults' \in 0 .. MaxFaults
  BY <1>1, BoundAssumption DEF TypeOK, Crash
<1>5. UNCHANGED <<runStatus, nodeRun, lastToken, envelope, file, rejected>> /\ runStatus # "none"
      /\ todo' = {} /\ recovered' = FALSE
  BY DEF Crash
<1>6. TypeOK'
  BY <1>1, <1>2, <1>3, <1>4, <1>5 DEF TypeOK
<1>7. FreshInv' /\ ChainInv' /\ RetryInv'
  BY <1>2, <1>5, Constants DEF FreshInv, ChainInv, RetryInv
<1>8. KindInv'
  BY <1>3, <1>5 DEF IInv, KindInv
<1>9. CompletedMeansAllDone'
  BY <1>5, NoRowKeeps
<1> QED BY <1>6, <1>7, <1>8, <1>9 DEF IInv

-----------------------------------------------------------------------------
\* The state before the run exists.
LEMMA InitIInv == Init => IInv
<1> SUFFICES ASSUME Init PROVE IInv
  OBVIOUS
<1>1. TypeOK
  <2>1. <<Trigger, 1>> \in Keys /\ 0 \in 0 .. MaxFaults
    BY Constants, BoundAssumption
  <2>2. frames \in [Chains -> Seq(SUBSET Nodes)]
    BY DEF Init
  <2> QED BY <2>1, <2>2
          DEF Init, TypeOK, RunStatuses, RowStatuses, ChildStatuses, Points
<1>2. FreshInv /\ KindInv /\ ChainInv /\ RetryInv /\ CompletedMeansAllDone
  BY Constants DEF Init, FreshInv, KindInv, ChainInv, RetryInv, CompletedMeansAllDone
<1> QED BY <1>1, <1>2 DEF IInv

\* Every step of the engine keeps it.
LEMMA NextIInv == IInv /\ [Next]_vars => IInv'
<1> SUFFICES ASSUME IInv, [Next]_vars PROVE IInv'
  OBVIOUS
<1>1. CASE StartRun
  BY <1>1, StartRunKeeps
<1>2. CASE \E token \in Tokens : Command(token)
  BY <1>2, TransitionsKeep
<1>3. CASE RetryDispatch
  BY <1>3, RetryDispatchKeeps
<1>4. CASE \E c \in Chains : ChainStep(c)
  BY <1>4, StepRunKeeps, LoopKeeps, SpawnFailedKeeps, GateRaisedKeeps,
     GoalStartedKeeps, FinishNodeKeeps DEF ChainStep
<1>5. CASE \E k \in Keys : ChildNext(k)
  BY <1>5, ChildKeeps
<1>6. CASE SweepStart \/ RecoverRun \/ SweepStep \/ \E k \in Keys : SweepChild(k)
  BY <1>6, SweepKeeps
<1>7. CASE \E c \in Chains : PortFault(c)
  BY <1>7, PortFaultKeeps
<1>8. CASE Crash
  BY <1>8, CrashKeeps
<1>9. CASE UNCHANGED vars
  <2>1. TypeOK' /\ FreshInv' /\ KindInv'
    BY <1>9 DEF vars, IInv, TypeOK, FreshInv, KindInv
  <2>2. ChainInv' /\ RetryInv' /\ CompletedMeansAllDone'
    BY <1>9 DEF vars, IInv, ChainInv, RetryInv, CompletedMeansAllDone, IsLatest
  <2> QED BY <2>1, <2>2 DEF IInv
<1> QED BY <1>1, <1>2, <1>3, <1>4, <1>5, <1>6, <1>7, <1>8, <1>9 DEF Next

(* Every reachable state satisfies the inductive invariant: for every      *)
(* graph validateWorkflowGraph accepts, every caller of transition, live   *)
(* or yielding ports, and any number of attempts, crashes and port faults. *)
THEOREM Invariance == Spec => []IInv
<1>1. Init => IInv
  BY InitIInv
<1>2. IInv /\ [Next]_vars => IInv'
  BY NextIInv
<1> QED BY <1>1, <1>2, PTL DEF Spec

(* The rows, the chains and the agent runs only take the values the code   *)
(* declares for them.                                                      *)
THEOREM TypeCorrect == Spec => []TypeOK
<1>1. IInv => TypeOK
  BY DEF IInv
<1> QED BY <1>1, Invariance, PTL

(* A run that reads `completed` has the latest attempt at every node       *)
(* completed or skipped.                                                   *)
THEOREM CompletedIsDone == Spec => []CompletedMeansAllDone
<1>1. IInv => CompletedMeansAllDone
  BY DEF IInv
<1> QED BY <1>1, Invariance, PTL

-----------------------------------------------------------------------------
(* How rows change, step by step. *)

\* Agents' rows are settled for good by every action that writes rows.
LEMMA AgentRowStep ==
  ASSUME IInv, Next, NEW k \in AgentKeys
  PROVE  /\ nodeRun[k] \in DoneStatuses => nodeRun'[k] = nodeRun[k]
         /\ nodeRun[k] = "failed" => nodeRun'[k] \in {"failed", "skipped"}
<1>1. k \in Keys /\ Kind[k[1]] = "agent" /\ TypeOK
  BY DEF AgentKeys, IInv
<1> DEFINE Goal ==
      /\ nodeRun[k] \in DoneStatuses => nodeRun'[k] = nodeRun[k]
      /\ nodeRun[k] = "failed" => nodeRun'[k] \in {"failed", "skipped"}
<1> SUFFICES Goal
  OBVIOUS
<1>2. ASSUME NEW c \in Chains, NEW j \in Keys, NEW fs, DispatchNode(c, j, fs)
      PROVE  Goal
  BY <1>1, <1>2, DispatchRows DEF Same, Created, DoneStatuses
<1>3. ASSUME NEW j \in Keys, FailNode(j), nodeRun[j] \in ActiveStatuses
      PROVE  Goal
  BY <1>1, <1>3 DEF FailNode, TypeOK, ActiveStatuses, DoneStatuses
<1>4. CASE StartRun
  BY <1>1, <1>4 DEF StartRun, IInv, FreshInv, DoneStatuses
<1>5. ASSUME NEW token \in Tokens, Command(token)
      PROVE  Goal
  <2>1. nodeRun[k] # "awaiting_approval"
    BY <1>1 DEF IInv, KindInv
  <2>2. CASE Approve(token) \/ Reject(token)
    BY <1>1, <2>1, <2>2 DEF Approve, Reject, ResolveGates, LatestWith
  <2>3. CASE Abort(token) \/ Retry(token)
    BY <2>3 DEF Abort, Retry
  <2>4. CASE Skip(token)
    BY <1>1, <2>4 DEF Skip, LatestFailed, LatestWith, TypeOK, DoneStatuses
  <2> QED BY <1>5, <2>2, <2>3, <2>4 DEF Command
<1>6. CASE RetryDispatch
  <2>1. at[TransitionChain] \in Keys /\ at[TransitionChain][2] < MaxAttempts
    BY <1>6, Constants DEF RetryDispatch, IInv, TypeOK, RetryInv
  <2> QED BY <1>2, <1>6, <2>1, Successor, Constants DEF RetryDispatch
<1>7. ASSUME NEW c \in Chains, ChainStep(c)
      PROVE  Goal
  <2>1. at[c] \in Keys
    BY <1>1 DEF TypeOK
  <2>2. ASSUME NEW remaining \in SUBSET Nodes, NEW fs, DispatchRest(c, remaining, fs)
        PROVE  Goal
    <3>1. CASE UNCHANGED nodeRun
      BY <3>1
    <3>2. ASSUME NEW n \in remaining, DispatchNode(c, <<n, 1>>, <<remaining \ {n}>> \o fs)
          PROVE  Goal
      <4>1. <<n, 1>> \in Keys
        BY Constants DEF Keys
      <4> QED BY <1>2, <3>2, <4>1
    <3> QED BY <2>2, <3>1, <3>2 DEF DispatchRest
  <2>3. CASE StepRun(c)
    <3>1. Ready \in SUBSET Nodes
      BY DEF Ready
    <3> QED BY <2>2, <2>3, <3>1 DEF StepRun
  <2>4. CASE Loop(c)
    <3>1. frames[c] \in Seq(SUBSET Nodes) /\ frames[c] # <<>>
      BY <1>1, <2>4 DEF Loop, IInv, ChainInv, TypeOK
    <3>2. Head(frames[c]) \in SUBSET Nodes
      BY <3>1
    <3> QED BY <2>2, <2>4, <3>2 DEF Loop
  <2>5. CASE SpawnFailed(c)
    BY <1>3, <2>1, <2>5 DEF SpawnFailed, rowVars
  <2>6. CASE GateRaised(c)
    BY <1>1, <2>1, <2>6 DEF GateRaised, IInv, ChainInv, TypeOK
  <2>7. CASE GoalStarted(c)
    BY <1>1, <2>1, <2>7 DEF GoalStarted, FailNode, IInv, ChainInv, TypeOK, DoneStatuses
  <2>8. CASE FinishNode(c)
    BY <1>1, <1>3, <2>1, <2>8 DEF FinishNode, rowVars, TypeOK, ActiveStatuses, DoneStatuses
  <2> QED BY <1>7, <2>3, <2>4, <2>5, <2>6, <2>7, <2>8 DEF ChainStep
<1>8. ASSUME NEW j \in Keys, ChildNext(j) \/ SweepChild(j)
      PROVE  Goal
  <2>1. FailIfActive(j) => Goal
    BY <1>3 DEF FailIfActive, rowVars
  <2> QED BY <1>8, <2>1 DEF ChildNext, ChildStarts, ChildRejected, WriteOutput, Advance,
          ChildCompletes, ChildFails, ChildFailsUnhooked, CancelRun, TurnStops, SweepChild,
          rowVars
<1>9. CASE SweepStart \/ RecoverRun \/ SweepStep \/ Crash \/ \E c \in Chains : PortFault(c)
  BY <1>9 DEF SweepStart, RecoverRun, SweepStep, Crash, PortFault
<1> QED BY <1>4, <1>5, <1>6, <1>7, <1>8, <1>9 DEF Next

(* However hook, sweep and late calls overlap, the row of an agent keeps   *)
(* the first outcome it was given; a person may only skip a failed one.    *)
THEOREM AgentRowsAreFinal == Spec => AgentRowsFinal
<1>1. IInv /\ [Next]_vars =>
        [\A k \in AgentKeys :
           /\ nodeRun[k] \in DoneStatuses => nodeRun'[k] = nodeRun[k]
           /\ nodeRun[k] = "failed" => nodeRun'[k] \in {"failed", "skipped"}]_vars
  BY AgentRowStep
<1> QED BY <1>1, Invariance, PTL DEF Spec, AgentRowsFinal
=============================================================================
