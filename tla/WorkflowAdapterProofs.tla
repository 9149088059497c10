------------------------ MODULE WorkflowAdapterProofs ------------------------
(***************************************************************************)
(* What the engine guarantees beyond WorkflowEngineProofs: for every       *)
(* reading of the port, that a retry never starts beside an agent nobody   *)
(* has stopped and that a row in progress has somebody to settle it; for   *)
(* the shipped adapter (~ PortYields), that nodes begin in order, that     *)
(* done work stays done, that a stuck run can be acted on, and that the    *)
(* engine implements WorkflowPromise.                                      *)
(*                                                                         *)
(* The actions are taken apart once, into what a step may do to a row, an  *)
(* agent run, a chain and the status (Steps); every invariant below is     *)
(* proved from that.                                                       *)
(***************************************************************************)
EXTENDS WorkflowEngineProofs

\* Where a row that appears comes from: the start, a loop of stepRun, or a retry.
Origin(k) ==
  \/ k = <<Trigger, 1>> /\ runStatus = "none"
  \/ /\ k[2] = 1 /\ runStatus = "running"
     /\ \/ k[1] \in Ready
        \/ \E c \in Chains : pc[c] = "loop" /\ frames[c] # <<>> /\ k[1] \in Head(frames[c])
  \/ /\ pc[TransitionChain] = "retry" /\ runStatus # "completed"
     /\ k = <<at[TransitionChain][1], at[TransitionChain][2] + 1>>

\* Chain c takes n out of what stepRun found ready, or out of its innermost loop.
Taken(c, n) ==
  \E R \in SUBSET Nodes, outer \in Seq(SUBSET Nodes) :
    /\ n \in R /\ frames'[c] = <<R \ {n}>> \o outer
    /\ \/ pc[c] \in {"publish", "step"} /\ R = Ready /\ outer = frames[c]
       \/ /\ pc[c] = "loop" /\ frames[c] # <<>>
          /\ R = Head(frames[c]) /\ outer = Tail(frames[c])

\* A row appears alone, is finished, is raised by its own gate, or is resolved by a
\* transition, which finds it the latest and, from the panel, moves the run on.
RowStep(k) ==
  \/ Same(k)
  \/ Created(k) /\ Origin(k) /\ \A j \in Keys : j # k => Same(j)
  \/ Finished(k) /\ \A j \in Keys : j # k => Same(j)
  \/ Raised(k) /\ \E c \in Chains : pc[c] = "gate" /\ k = at[c]
  \/ Resolved(k) /\ IsLatest(k) /\ Calm /\ (UiOnly => runStatus' # runStatus)

\* An agent run is requested with its row and moves towards an end; a running row
\* is settled by a chain that saw its run end, or when its run fails or is cancelled.
AgentMoves(k) ==
  \/ childRun[k] \in {"requested", "live"} /\ childRun'[k] # "requested"
  \/ childRun[k] \in {"orphan", "aborting"} /\ childRun'[k] = "failed"

ChildMove(k) ==
  /\ \/ childRun'[k] = childRun[k]
     \/ childRun'[k] = "requested" /\ nodeRun[k] = "absent" /\ nodeRun'[k] = "running"
     \/ AgentMoves(k)
  /\ nodeRun[k] = "running" /\ nodeRun'[k] # "running" =>
       \/ \E c \in Chains : pc[c] \in {"stat", "spawnfail"} /\ at[c] = k
       \/ childRun'[k] \in {"none", "aborting", "failed"}

Stays(c) == pc'[c] = pc[c] /\ at'[c] = at[c] /\ frames'[c] = frames[c]

\* What the loops of a chain that moves have left to dispatch.
FramesMove(c) ==
  \/ frames'[c] \in {<<>>, frames[c]}
  \/ frames'[c] = Tail(frames[c]) /\ frames[c] # <<>>
  \/ \E n \in Nodes : Taken(c, n)

\* A chain that is under way, or that begins when it may, moves alone to a point
\* where what it counts on holds.
ChainMove(c) ==
  \/ Stays(c)
  \/ pc'[c] = "idle" /\ frames'[c] = <<>>
  \/ /\ pc[c] # "idle" \/ Calm
     /\ \A d \in Chains \ {c} : Stays(d)
     /\ pc'[c] = "stat" => childRun'[at'[c]] = "completed"
     /\ pc'[c] = "spawnfail" =>
          /\ nodeRun[at'[c]] = "absent" /\ nodeRun'[at'[c]] # "absent"
          /\ childRun'[at'[c]] = childRun[at'[c]]
     /\ pc'[c] = "gate" => nodeRun'[at'[c]] = "awaiting_approval"
     /\ pc'[c] = "retry" => nodeRun'[at'[c]] = "failed" /\ runStatus' = "running"
     /\ FramesMove(c)

\* The status follows the rows: the end of the last stepRun, a failure, a gate, or
\* a transition.
StatusStep ==
  \/ runStatus' = runStatus
  \/ runStatus = "none" /\ runStatus' = "running"
  \/ runStatus = "running" /\ runStatus' = "completed" /\ AllDone /\ UNCHANGED nodeRun
  \/ runStatus' = "paused" /\ \E k \in Keys : Finished(k) /\ nodeRun'[k] = "failed"
  \/ /\ runStatus' = "awaiting_approval"
     /\ \E c \in Chains : pc[c] = "gate" /\ nodeRun'[at[c]] = "awaiting_approval"
  \/ /\ Calm /\ runStatus # "none" /\ runStatus' \in {"running", "paused", "failed"}
     /\ UiOnly => runStatus \in {"awaiting_approval", "paused"}
     /\ runStatus' = "paused" =>
          /\ UiOnly => runStatus = "awaiting_approval"
          /\ ResolveGates("failed")

Steps ==
  /\ \A k \in Keys : RowStep(k) /\ ChildMove(k)
  /\ \A c \in Chains : ChainMove(c)
  /\ StatusStep

-----------------------------------------------------------------------------
(* The actions, taken apart. *)

\* A move leaves the other chains where they are.
LEMMA GotoSteps ==
  ASSUME TypeOK, NEW c \in Chains, NEW p, NEW k, NEW fs, Goto(c, p, k, fs)
  PROVE  /\ pc'[c] = p /\ frames'[c] = fs /\ (p # "idle" => at'[c] = k)
         /\ \A d \in Chains \ {c} : Stays(d)
BY DEF TypeOK, Goto, Stays

\* A chain that goes back to its caller, or on with its loops.
LEMMA ReturnSteps ==
  ASSUME TypeOK, NEW c \in Chains, NEW fs \in Seq(SUBSET Nodes), Return(c, fs), pc[c] # "idle",
         \/ fs = frames[c]
         \/ fs = Tail(frames[c]) /\ frames[c] # <<>> /\ pc[c] = "loop"
         \/ fs = <<>>
  PROVE  \A d \in Chains : ChainMove(d)
<1> DEFINE p == IF fs = <<>> THEN IF c = SweepChain THEN "scan" ELSE "idle" ELSE "loop"
<1>1. Goto(c, p, at[c], fs)
  BY DEF Return
<1>2. /\ pc'[c] = p /\ frames'[c] = fs
      /\ \A d \in Chains \ {c} : Stays(d)
  BY <1>1, GotoSteps
<1>3. FramesMove(c)
  BY <1>2 DEF FramesMove
<1> QED BY <1>2, <1>3 DEF ChainMove

\* A chain that moves without rows, agent runs or loops.
LEMMA PlainSteps ==
  ASSUME TypeOK, NEW c \in Chains, NEW k,
         NEW p \in {"idle", "publish", "step", "listed", "scan"}, Goto(c, p, k, <<>>),
         pc[c] # "idle" \/ Calm
  PROVE  \A d \in Chains : ChainMove(d)
<1>1. /\ pc'[c] = p /\ frames'[c] = <<>>
      /\ \A d \in Chains \ {c} : Stays(d)
  BY GotoSteps
<1> QED BY <1>1 DEF ChainMove, FramesMove

\* The dispatch of a row, up to its first await.
LEMMA DispatchSteps ==
  ASSUME IInv, NEW c \in Chains, NEW k \in Keys, NEW fs \in Seq(SUBSET Nodes),
         DispatchNode(c, k, fs), Origin(k), runStatus # "none", pc[c] # "idle"
  PROVE  /\ \A j \in Keys : RowStep(j) /\ ChildMove(j)
         /\ \A d \in Chains \ {c} : Stays(d)
         /\ \/ pc'[c] = "idle" /\ frames'[c] = <<>>
            \/ /\ nodeRun[k] = "absent" /\ nodeRun'[k] # "absent"
               /\ \A j \in Keys : j # k => Same(j)
               /\ at'[c] = k /\ frames'[c] = fs
               /\ \/ pc'[c] = Resume(fs) \/ pc'[c] = "goal"
                  \/ pc'[c] = "spawnfail" /\ childRun'[k] = childRun[k]
                  \/ pc'[c] = "gate" /\ nodeRun'[k] = "awaiting_approval"
                  \/ pc'[c] = "step" /\ Kind[k[1]] = "output"
<1>0. TypeOK
  BY DEF IInv
<1>1. /\ \A j \in Keys : j # k => nodeRun'[j] = nodeRun[j] /\ childRun'[j] = childRun[j]
      /\ Same(k) \/ Created(k)
  BY <1>0, DispatchRows
<1>2. \A j \in Keys : RowStep(j)
  BY <1>1 DEF RowStep, Same
<1>4. Resume(fs) # "idle"
  BY DEF Resume
<1>5. CASE nodeRun[k] # "absent"
  <2>1. Goto(c, "idle", at[c], <<>>) /\ UNCHANGED <<nodeRun, childRun>>
    BY <1>5 DEF DispatchNode, Throw
  <2>2. pc'[c] = "idle" /\ frames'[c] = <<>> /\ \A d \in Chains \ {c} : Stays(d)
    BY <1>0, <2>1, GotoSteps
  <2> QED BY <2>1, <2>2 DEF ChildMove, RowStep, Same
<1>6. CASE nodeRun[k] = "absent"
  <2>1. ASSUME NEW p \in {Resume(fs), "spawnfail", "gate", "goal", "step"}, Goto(c, p, k, fs)
        PROVE  /\ pc'[c] = p /\ at'[c] = k /\ frames'[c] = fs
               /\ \A d \in Chains \ {c} : Stays(d)
    BY <1>0, <1>4, <2>1, GotoSteps
  <2>2. \A j \in Keys : j # k => Same(j)
    BY <1>1 DEF Same
  <2>3. ASSUME childRun'[k] = childRun[k] \/ (childRun'[k] = "requested" /\ nodeRun'[k] = "running")
        PROVE  \A j \in Keys : ChildMove(j)
    BY <1>1, <1>6, <2>3 DEF ChildMove, Same
  <2>4. CASE Kind[k[1]] = "agent" /\ DispatchAgent(c, k, fs)
    <3>1. nodeRun'[k] = "running"
      BY <1>0, <2>4 DEF DispatchAgent, TypeOK
    <3>2. CASE childRun' = [childRun EXCEPT ![k] = "requested"] /\ Goto(c, Resume(fs), k, fs)
      <4>1. childRun'[k] = "requested"
        BY <1>0, <3>2 DEF TypeOK
      <4> QED BY <1>2, <1>6, <2>1, <2>2, <2>3, <3>1, <3>2, <4>1
    <3>3. CASE Goto(c, "spawnfail", k, fs) /\ UNCHANGED childRun
      BY <1>2, <1>6, <2>1, <2>2, <2>3, <3>1, <3>3
    <3> QED BY <2>4, <3>2, <3>3 DEF DispatchAgent
  <2>5. CASE Kind[k[1]] = "approval" /\ DispatchApproval(c, k, fs)
    <3>1. nodeRun'[k] = "awaiting_approval"
      BY <1>0, <2>5 DEF DispatchApproval, TypeOK
    <3> QED BY <1>2, <1>6, <2>1, <2>2, <2>3, <2>5, <3>1 DEF DispatchApproval
  <2>6. CASE Kind[k[1]] = "goal_handoff" /\ DispatchGoalHandoff(c, k, fs)
    <3>1. nodeRun'[k] = "pending"
      BY <1>0, <2>6 DEF DispatchGoalHandoff, TypeOK
    <3> QED BY <1>2, <1>6, <2>1, <2>2, <2>3, <2>6, <3>1 DEF DispatchGoalHandoff
  <2>7. CASE Kind[k[1]] = "output" /\ DispatchOutput(c, k, fs)
    <3>1. nodeRun'[k] = "completed"
      BY <1>0, <2>7 DEF DispatchOutput, TypeOK
    <3> QED BY <1>2, <1>6, <2>1, <2>2, <2>3, <2>7, <3>1 DEF DispatchOutput
  <2> QED BY <1>6, <2>4, <2>5, <2>6, <2>7 DEF DispatchNode
<1> QED BY <1>5, <1>6

\* What a step does that leaves rows and agent runs alone.
LEMMA RowsStay ==
  ASSUME UNCHANGED <<nodeRun, childRun>>
  PROVE  \A j \in Keys : RowStep(j) /\ ChildMove(j)
BY DEF RowStep, ChildMove, Same

\* The step that settles the running or pending row of k.
LEMMA FinishSteps ==
  ASSUME IInv, NEW k \in Keys, NEW s \in {"completed", "failed"},
         nodeRun' = [nodeRun EXCEPT ![k] = s],
         \/ nodeRun[k] = "pending" /\ UNCHANGED childRun
         \/ /\ nodeRun[k] \in ActiveStatuses /\ Kind[k[1]] = "agent"
            /\ \/ \E c \in Chains : pc[c] \in {"stat", "spawnfail"} /\ at[c] = k /\ UNCHANGED childRun
               \/ childRun'[k] \in {"none", "aborting", "failed"},
         \A j \in Keys : ChildMove(j) \/ childRun'[j] = childRun[j] \/ AgentMoves(j),
         runStatus' = runStatus \/ (runStatus' = "paused" /\ s = "failed")
  PROVE  /\ \A j \in Keys : RowStep(j) /\ ChildMove(j)
         /\ StatusStep
<1>1. nodeRun[k] \in {"running", "pending"}
  BY DEF IInv, KindInv, ActiveStatuses
<1>2. nodeRun'[k] = s /\ \A j \in Keys : j # k => nodeRun'[j] = nodeRun[j]
  BY DEF IInv, TypeOK
<1>3. Finished(k) /\ \A j \in Keys : j # k => Same(j)
  BY <1>1, <1>2 DEF Finished, Same
<1>4. \A j \in Keys : RowStep(j)
  BY <1>3 DEF RowStep
<1>5. StatusStep
  BY <1>2, <1>3 DEF StatusStep
<1>6. \A j \in Keys : ChildMove(j)
  BY <1>1, <1>2 DEF ChildMove
<1> QED BY <1>4, <1>5, <1>6

\* What remains of a loop.
LEMMA RestSteps ==
  ASSUME IInv, NEW c \in Chains, NEW R \in SUBSET Nodes, NEW fs \in Seq(SUBSET Nodes),
         DispatchRest(c, R, fs), runStatus = "running",
         \/ pc[c] \in {"publish", "step"} /\ R = Ready /\ fs = frames[c]
         \/ pc[c] = "loop" /\ frames[c] # <<>> /\ R = Head(frames[c]) /\ fs = Tail(frames[c])
  PROVE  Steps
<1>0. TypeOK /\ pc[c] # "idle"
  BY DEF IInv
<1>1. CASE MaybeComplete /\ Return(c, fs) /\ UNCHANGED <<nodeRun, childRun, rejected>>
  <2>1. \A d \in Chains : ChainMove(d)
    BY <1>0, <1>1, ReturnSteps
  <2>2. StatusStep
    BY <1>1 DEF MaybeComplete, StatusStep
  <2> QED BY <1>1, <2>1, <2>2, RowsStay DEF Steps
<1>2. ASSUME NEW n \in R, UNCHANGED runStatus, DispatchNode(c, <<n, 1>>, <<R \ {n}>> \o fs)
      PROVE  Steps
  <2> DEFINE k == <<n, 1>>
  <2> DEFINE rest == <<R \ {n}>> \o fs
  <2>1. k \in Keys /\ rest \in Seq(SUBSET Nodes) /\ rest # <<>> /\ k[1] = n /\ k[2] = 1
    BY Constants DEF Keys
  <2>2. Origin(k) /\ DispatchNode(c, k, rest) /\ runStatus # "none"
    BY <1>2, <2>1 DEF Origin
  <2>8. frames'[c] = rest => Taken(c, k[1])
    BY <2>1 DEF Taken
  <2>3. Resume(rest) = "loop"
    BY <2>1 DEF Resume
  <2>4. /\ \A j \in Keys : RowStep(j) /\ ChildMove(j)
        /\ \A d \in Chains \ {c} : Stays(d)
        /\ \/ pc'[c] = "idle" /\ frames'[c] = <<>>
           \/ /\ nodeRun[k] = "absent" /\ nodeRun'[k] # "absent"
              /\ \A j \in Keys : j # k => Same(j)
              /\ at'[c] = k /\ frames'[c] = rest
              /\ \/ pc'[c] = Resume(rest) \/ pc'[c] = "goal"
                 \/ pc'[c] = "spawnfail" /\ childRun'[k] = childRun[k]
                 \/ pc'[c] = "gate" /\ nodeRun'[k] = "awaiting_approval"
                 \/ pc'[c] = "step" /\ Kind[k[1]] = "output"
    <3> HIDE DEF k, rest
    <3> QED BY <1>0, <2>1, <2>2, DispatchSteps
  <2>5. StatusStep
    BY <1>2 DEF StatusStep
  <2>6. ChainMove(c)
    <3>1. CASE pc'[c] = "idle" /\ frames'[c] = <<>>
      BY <3>1 DEF ChainMove
    <3>2. CASE /\ nodeRun[k] = "absent" /\ nodeRun'[k] # "absent"
               /\ \A j \in Keys : j # k => Same(j)
               /\ at'[c] = k /\ frames'[c] = rest
               /\ \/ pc'[c] = "loop" \/ pc'[c] = "goal"
                  \/ pc'[c] = "spawnfail" /\ childRun'[k] = childRun[k]
                  \/ pc'[c] = "gate" /\ nodeRun'[k] = "awaiting_approval"
                  \/ pc'[c] = "step" /\ Kind[k[1]] = "output"
      <4>1. FramesMove(c)
        BY <1>2, <2>1, <2>8, <3>2 DEF FramesMove
      <4> QED BY <1>0, <2>4, <3>2, <4>1 DEF ChainMove
    <3> QED BY <2>3, <2>4, <3>1, <3>2
  <2>7. \A d \in Chains : ChainMove(d)
    BY <2>4, <2>6 DEF ChainMove
  <2> QED BY <2>4, <2>5, <2>7 DEF Steps
<1> QED BY <1>1, <1>2 DEF DispatchRest

\* stepRun and its loops.
LEMMA StepRunSteps ==
  ASSUME IInv, NEW c \in Chains, StepRun(c) \/ Loop(c)
  PROVE  Steps
<1>0. TypeOK /\ frames[c] \in Seq(SUBSET Nodes)
  BY DEF IInv, TypeOK
<1>1. CASE StepRun(c) /\ runStatus = "running"
  <2>1. Ready \in SUBSET Nodes
    BY DEF Ready
  <2> QED BY <1>0, <1>1, <2>1, RestSteps DEF StepRun
<1>2. CASE Loop(c) /\ runStatus = "running"
  <2>1. frames[c] # <<>>
    BY <1>2 DEF IInv, ChainInv, Loop
  <2>2. Head(frames[c]) \in SUBSET Nodes /\ Tail(frames[c]) \in Seq(SUBSET Nodes)
    BY <1>0, <2>1
  <2> QED BY <1>2, <2>1, <2>2, RestSteps DEF Loop
<1>3. CASE runStatus # "running"
  <2>1. UNCHANGED <<runStatus, nodeRun, childRun, rejected>> /\ pc[c] # "idle"
    BY <1>3 DEF StepRun, Loop
  <2>2. \E fs \in Seq(SUBSET Nodes) :
          /\ Return(c, fs)
          /\ \/ fs = frames[c]
             \/ fs = Tail(frames[c]) /\ frames[c] # <<>> /\ pc[c] = "loop"
    <3>1. CASE StepRun(c)
      BY <1>0, <1>3, <3>1 DEF StepRun
    <3>2. CASE Loop(c)
      <4>1. frames[c] # <<>>
        BY <3>2 DEF IInv, ChainInv, Loop
      <4>2. Tail(frames[c]) \in Seq(SUBSET Nodes)
        BY <1>0, <4>1
      <4> QED BY <1>3, <3>2, <4>1, <4>2 DEF Loop
    <3> QED BY <3>1, <3>2
  <2>3. \A d \in Chains : ChainMove(d)
    BY <1>0, <2>1, <2>2, ReturnSteps
  <2> QED BY <2>1, <2>3, RowsStay DEF Steps, StatusStep
<1> QED BY <1>1, <1>2, <1>3

\* A slice that ends where its dispatch goes on.
LEMMA SettleSteps ==
  ASSUME IInv, NEW c \in Chains, Settle(c), pc[c] # "idle"
  PROVE  \A d \in Chains : ChainMove(d)
<1>1. TypeOK
  BY DEF IInv
<1>2. Goto(c, Resume(frames[c]), at[c], frames[c]) /\ Resume(frames[c]) # "idle"
  BY DEF Settle, Resume
<1>3. /\ pc'[c] = Resume(frames[c]) /\ frames'[c] = frames[c]
      /\ \A d \in Chains \ {c} : Stays(d)
  BY <1>1, <1>2, GotoSteps
<1>4. FramesMove(c) /\ pc'[c] \in {"publish", "loop"}
  BY <1>3 DEF FramesMove, Resume
<1> QED BY <1>3, <1>4 DEF ChainMove

\* The second slices of the dispatches, and the end of a node.
LEMMA SliceSteps ==
  ASSUME IInv, NEW c \in Chains,
         SpawnFailed(c) \/ GateRaised(c) \/ GoalStarted(c) \/ FinishNode(c)
  PROVE  Steps
<1> DEFINE k == at[c]
<1>0. TypeOK /\ k \in Keys /\ pc[c] # "idle" /\ UNCHANGED childRun
  BY DEF IInv, TypeOK, SpawnFailed, GateRaised, GoalStarted, FinishNode
<1>6. <<>> \in Seq(SUBSET Nodes)
  OBVIOUS
<1>2. CASE SpawnFailed(c)
  <2>1. \A d \in Chains : ChainMove(d)
    BY <1>0, <1>2, SettleSteps DEF SpawnFailed
  <2>2. Kind[k[1]] = "agent"
    BY <1>2 DEF IInv, ChainInv, SpawnFailed
  <2>3. CASE nodeRun[k] \in ActiveStatuses
    BY <1>0, <1>2, <2>1, <2>2, <2>3, FinishSteps DEF SpawnFailed, FailNode, Steps
  <2>4. CASE nodeRun[k] \notin ActiveStatuses
    BY <1>0, <1>2, <2>1, <2>4, RowsStay DEF SpawnFailed, rowVars, Steps, StatusStep
  <2> QED BY <2>3, <2>4
<1>3. CASE GateRaised(c)
  <2>1. \A d \in Chains : ChainMove(d)
    BY <1>0, <1>3, SettleSteps DEF GateRaised
  <2>2. Kind[k[1]] = "approval" /\ nodeRun[k] # "absent"
    BY <1>3 DEF IInv, ChainInv, GateRaised
  <2>3. nodeRun'[k] = "awaiting_approval" /\ \A j \in Keys : j # k => nodeRun'[j] = nodeRun[j]
    BY <1>0, <1>3 DEF GateRaised, TypeOK
  <2>4. nodeRun[k] # "running"
    BY <1>0, <2>2 DEF IInv, KindInv
  <2>5. \A j \in Keys : RowStep(j) /\ ChildMove(j)
    BY <1>0, <1>3, <2>2, <2>3, <2>4 DEF RowStep, ChildMove, Same, Raised, GateRaised
  <2>6. StatusStep
    BY <1>3, <2>3 DEF GateRaised, StatusStep
  <2> QED BY <2>1, <2>5, <2>6 DEF Steps
<1>4. CASE GoalStarted(c)
  <2>1. \A d \in Chains : ChainMove(d)
    BY <1>0, <1>4, SettleSteps DEF GoalStarted
  <2>2. nodeRun[k] = "pending"
    BY <1>4 DEF IInv, ChainInv, GoalStarted
  <2>3. PICK s \in {"completed", "failed"} :
          /\ nodeRun' = [nodeRun EXCEPT ![k] = s]
          /\ runStatus' = runStatus \/ (runStatus' = "paused" /\ s = "failed")
    BY <1>4 DEF GoalStarted, FailNode
  <2> QED BY <1>0, <2>1, <2>2, <2>3, FinishSteps DEF Steps
<1>5. CASE FinishNode(c)
  <2>1. pc[c] = "stat" /\ Kind[k[1]] = "agent"
    BY <1>5 DEF IInv, ChainInv, FinishNode
  <2>2. CASE nodeRun[k] \notin ActiveStatuses
    <3>1. Return(c, <<>>) /\ UNCHANGED rowVars
      BY <1>5, <2>2 DEF FinishNode
    <3>2. \A d \in Chains : ChainMove(d)
      BY <1>0, <1>6, <3>1, ReturnSteps
    <3> QED BY <1>0, <3>1, <3>2, RowsStay DEF rowVars, Steps, StatusStep
  <2>3. CASE nodeRun[k] \in ActiveStatuses
    <3>1. PICK s \in {"completed", "failed"} :
            /\ nodeRun' = [nodeRun EXCEPT ![k] = s]
            /\ runStatus' = runStatus \/ (runStatus' = "paused" /\ s = "failed")
            /\ Goto(c, "publish", k, <<>>) \/ Return(c, <<>>)
      BY <1>5, <2>3 DEF FinishNode, FailNode
    <3>2. \A d \in Chains : ChainMove(d)
      <4>1. CASE Goto(c, "publish", k, <<>>)
        BY <1>0, <4>1, PlainSteps
      <4>2. CASE Return(c, <<>>)
        BY <1>0, <1>6, <4>2, ReturnSteps
      <4> QED BY <3>1, <4>1, <4>2
    <3> QED BY <1>0, <2>1, <2>3, <3>1, <3>2, FinishSteps DEF Steps
  <2> QED BY <2>2, <2>3
<1> QED BY <1>2, <1>3, <1>4, <1>5

\* The start of the run.
LEMMA StartRunSteps ==
  ASSUME IInv, StartRun
  PROVE  Steps
<1> DEFINE k0 == <<Trigger, 1>>
<1>1. /\ TypeOK /\ k0 \in Keys /\ StartChain \in Chains
      /\ Kind[k0[1]] = "trigger"
  BY Constants, GraphAssumption DEF IInv
<1>2. /\ \A k \in Keys : nodeRun[k] = "absent" /\ childRun[k] = "none"
      /\ Calm
  BY DEF StartRun, IInv, FreshInv, Calm, Idle
<1>3. /\ nodeRun'[k0] = "completed" /\ \A k \in Keys : k # k0 => nodeRun'[k] = nodeRun[k]
      /\ UNCHANGED <<childRun, rejected>>
      /\ runStatus = "none" /\ runStatus' = "running"
  BY <1>1 DEF StartRun, TypeOK
<1>4. \A d \in Chains : ChainMove(d)
  BY <1>1, <1>2, PlainSteps DEF StartRun
<1>5. \A k \in Keys : RowStep(k)
  BY <1>1, <1>2, <1>3 DEF RowStep, Same, Created, FirstStatus, Origin
<1>6. \A k \in Keys : ChildMove(k)
  BY <1>2, <1>3 DEF ChildMove
<1> QED BY <1>3, <1>4, <1>5, <1>6 DEF Steps, StatusStep

\* The rows a transition resolves.
LEMMA ResolveSteps ==
  ASSUME Calm, UiOnly => runStatus' # runStatus, UNCHANGED childRun,
         \/ \E s \in {"completed", "failed"} : ResolveGates(s)
         \/ \E k \in LatestFailed : nodeRun' = [nodeRun EXCEPT ![k] = "skipped"]
         \/ UNCHANGED nodeRun,
         TypeOK
  PROVE  \A j \in Keys : RowStep(j) /\ ChildMove(j)
<1>1. CASE \E s \in {"completed", "failed"} : ResolveGates(s)
  <2>1. PICK s \in {"completed", "failed"} :
          \A j \in Keys : nodeRun'[j] = IF j \in LatestWith("awaiting_approval")
                                        THEN s ELSE nodeRun[j]
    BY <1>1 DEF ResolveGates
  <2> QED BY <2>1 DEF RowStep, ChildMove, Same, Resolved, LatestWith
<1>2. CASE \E k \in LatestFailed : nodeRun' = [nodeRun EXCEPT ![k] = "skipped"]
  <2>1. PICK k \in LatestFailed :
          \A j \in Keys : nodeRun'[j] = IF j = k THEN "skipped" ELSE nodeRun[j]
    BY <1>2 DEF TypeOK
  <2>2. IsLatest(k) /\ nodeRun[k] = "failed"
    BY DEF LatestFailed, LatestWith
  <2> QED BY <2>1, <2>2 DEF RowStep, ChildMove, Same, Resolved
<1>3. CASE UNCHANGED nodeRun
  BY <1>3, RowsStay
<1> QED BY <1>1, <1>2, <1>3

\* The five transitions.
LEMMA CommandSteps ==
  ASSUME IInv, NEW token \in Tokens, Command(token)
  PROVE  Steps
<1>1. /\ TypeOK /\ TransitionChain \in Chains
      /\ at[TransitionChain] \in Keys
      /\ \A k \in LatestFailed : k \in Keys /\ IsLatest(k) /\ nodeRun[k] = "failed"
  <2>1. TypeOK /\ TransitionChain \in Chains
    BY Constants DEF IInv
  <2> QED BY <2>1 DEF TypeOK, LatestFailed, LatestWith
<1>2. PICK action \in Transitions : Transition(action, token)
  BY DEF Command, Approve, Reject, Abort, Retry, Skip, Transitions
<1>3. /\ Calm /\ runStatus # "none" /\ UNCHANGED <<childRun, rejected>>
      /\ UiOnly => runStatus \in {"awaiting_approval", "paused"}
  BY <1>2 DEF Transition, Offered
<1>5. CASE Approve(token)
  <2>1. \A d \in Chains : ChainMove(d)
    BY <1>1, <1>3, <1>5, PlainSteps DEF Approve, Then
  <2>2. \A j \in Keys : RowStep(j) /\ ChildMove(j)
    BY <1>1, <1>3, <1>5, ResolveSteps DEF Approve
  <2> QED BY <1>3, <1>5, <2>1, <2>2 DEF Approve, Steps, StatusStep
<1>6. CASE Reject(token)
  <2>1. \A d \in Chains : ChainMove(d)
    BY <1>6 DEF Reject, ChainMove, Stays
  <2>2. UiOnly => runStatus = "awaiting_approval"
    BY <1>6 DEF Reject, Transition, Offered
  <2>3. \A j \in Keys : RowStep(j) /\ ChildMove(j)
    BY <1>1, <1>3, <1>6, <2>2, ResolveSteps DEF Reject
  <2> QED BY <1>3, <1>6, <2>1, <2>2, <2>3 DEF Reject, Steps, StatusStep
<1>7. CASE Abort(token)
  <2>1. \A d \in Chains : ChainMove(d)
    BY <1>7 DEF Abort, ChainMove, Stays
  <2>2. \A j \in Keys : RowStep(j) /\ ChildMove(j)
    BY <1>3, <1>7, RowsStay DEF Abort
  <2> QED BY <1>3, <1>7, <2>1, <2>2 DEF Abort, Steps, StatusStep
<1>8. CASE Retry(token)
  <2>1. PICK k \in LatestFailed : Goto(TransitionChain, "retry", k, <<>>)
    BY <1>8 DEF Retry, Then
  <2>2. runStatus' = "running" /\ UNCHANGED nodeRun
    BY <1>8 DEF Retry
  <2>3. /\ pc'[TransitionChain] = "retry" /\ frames'[TransitionChain] = <<>>
        /\ at'[TransitionChain] = k
        /\ \A d \in Chains \ {TransitionChain} : Stays(d)
    BY <1>1, <2>1, GotoSteps
  <2>4. \A d \in Chains : ChainMove(d)
    BY <1>1, <1>3, <2>2, <2>3 DEF ChainMove, FramesMove
  <2>5. \A j \in Keys : RowStep(j) /\ ChildMove(j)
    BY <1>3, <2>2, RowsStay
  <2> QED BY <1>3, <2>2, <2>4, <2>5 DEF Steps, StatusStep
<1>9. CASE Skip(token)
  <2>1. PICK k \in LatestFailed :
          nodeRun' = [nodeRun EXCEPT ![k] = "skipped"] /\ Goto(TransitionChain, "publish", k, <<>>)
    BY <1>9 DEF Skip, Then
  <2>2. runStatus' = "running"
    BY <1>9 DEF Skip
  <2>3. \A d \in Chains : ChainMove(d)
    BY <1>1, <1>3, <2>1, PlainSteps
  <2>4. \A j \in Keys : RowStep(j) /\ ChildMove(j)
    BY <1>1, <1>3, <2>1, <2>2, ResolveSteps
  <2> QED BY <1>3, <2>2, <2>3, <2>4 DEF Steps, StatusStep
<1> QED BY <1>5, <1>6, <1>7, <1>8, <1>9 DEF Command

\* The dispatch of a retry.
LEMMA RetryDispatchSteps ==
  ASSUME IInv, RetryDispatch
  PROVE  Steps
<1> DEFINE c == TransitionChain
<1> DEFINE k == <<at[c][1], at[c][2] + 1>>
<1> DEFINE fs == <<>>
<1>1. /\ at[c] \in Keys /\ IsLatest(at[c]) /\ at[c][2] < MaxAttempts
      /\ nodeRun[at[c]] \in {"failed", "awaiting_approval"}
      /\ pc[c] = "retry" /\ c \in Chains
  BY Constants DEF RetryDispatch, IInv, TypeOK, RetryInv
<1>2. k \in Keys /\ fs \in Seq(SUBSET Nodes) /\ Resume(fs) = "publish"
  BY <1>1, Successor, Constants DEF Resume
<1>3. runStatus \notin {"none", "completed"}
  BY <1>1, <1>2, UnfinishedNode DEF IInv, FreshInv, DoneStatuses
<1>4. Origin(k) /\ DispatchNode(c, k, fs) /\ UNCHANGED runStatus
  BY <1>1, <1>3 DEF Origin, RetryDispatch
<1> HIDE DEF k, c, fs
<1>5. /\ \A j \in Keys : RowStep(j) /\ ChildMove(j)
      /\ \A d \in Chains \ {c} : Stays(d)
      /\ \/ pc'[c] = "idle" /\ frames'[c] = <<>>
         \/ /\ nodeRun[k] = "absent" /\ nodeRun'[k] # "absent"
            /\ \A j \in Keys : j # k => Same(j)
            /\ at'[c] = k /\ frames'[c] = fs
            /\ \/ pc'[c] = Resume(fs) \/ pc'[c] = "goal"
               \/ pc'[c] = "spawnfail" /\ childRun'[k] = childRun[k]
               \/ pc'[c] = "gate" /\ nodeRun'[k] = "awaiting_approval"
               \/ pc'[c] = "step" /\ Kind[k[1]] = "output"
  <2>1. pc[c] # "idle"
    BY <1>1
  <2> QED BY <1>1, <1>2, <1>3, <1>4, <2>1, DispatchSteps
<1>6. ChainMove(c)
  BY <1>1, <1>2, <1>5 DEF ChainMove, FramesMove, fs
<1>7. \A d \in Chains : ChainMove(d)
  BY <1>5, <1>6 DEF ChainMove
<1> QED BY <1>4, <1>5, <1>7 DEF Steps, StatusStep

\* The events of an agent run.
LEMMA ChildSteps ==
  ASSUME IInv, NEW k \in Keys, ChildNext(k)
  PROVE  Steps
<1>1. TypeOK
  BY DEF IInv
<1>2. CASE \/ ChildStarts(k) \/ WriteOutput(k) \/ Advance(k) \/ ChildFailsUnhooked(k)
           \/ TurnStops(k) \/ ChildCompletes(k)
  <2>1. UNCHANGED <<runStatus, nodeRun>>
    BY <1>2 DEF ChildStarts, WriteOutput, Advance, ChildFailsUnhooked, TurnStops, ChildCompletes
  <2>2. \A j \in Keys : childRun'[j] = childRun[j] \/ AgentMoves(j)
    BY <1>1, <1>2 DEF ChildStarts, WriteOutput, Advance, ChildFailsUnhooked, TurnStops,
       ChildCompletes, TypeOK, AgentMoves
  <2>3. \A j \in Keys : RowStep(j) /\ ChildMove(j)
    BY <2>1, <2>2 DEF RowStep, ChildMove, Same
  <2>4. \A d \in Chains : ChainMove(d)
    <3>1. CASE UNCHANGED <<pc, at, frames>>
      BY <3>1 DEF ChainMove, Stays
    <3>2. CASE ChildCompletes(k) /\ Goto(Hook(k), "stat", k, <<>>)
      <4>1. Hook(k) \in Chains /\ Calm /\ childRun'[k] = "completed"
        BY <1>1, <3>2, Constants DEF ChildCompletes, TypeOK
      <4>2. /\ pc'[Hook(k)] = "stat" /\ at'[Hook(k)] = k /\ frames'[Hook(k)] = <<>>
            /\ \A d \in Chains \ {Hook(k)} : Stays(d)
        BY <1>1, <3>2, <4>1, GotoSteps
      <4> QED BY <4>1, <4>2 DEF ChainMove, FramesMove
    <3> QED BY <1>2, <3>1, <3>2 DEF ChildStarts, WriteOutput, Advance, ChildFailsUnhooked,
            TurnStops, ChildCompletes
  <2> QED BY <1>1, <2>1, <2>3, <2>4 DEF Steps, StatusStep
<1>3. CASE ChildRejected(k) \/ ChildFails(k) \/ CancelRun(k)
  <2>1. /\ FailIfActive(k) /\ UNCHANGED <<pc, at, frames>>
        /\ childRun[k] \in {"requested", "live", "orphan"}
        /\ \E s \in {"none", "aborting", "failed"} :
              /\ childRun' = [childRun EXCEPT ![k] = s]
              /\ childRun[k] = "orphan" => s = "failed"
    BY <1>3 DEF ChildRejected, ChildFails, CancelRun
  <2>2. /\ Kind[k[1]] = "agent" /\ childRun'[k] \in {"none", "aborting", "failed"}
        /\ AgentMoves(k)
        /\ \A j \in Keys : j # k => childRun'[j] = childRun[j]
    BY <1>1, <2>1 DEF IInv, KindInv, TypeOK, AgentMoves
  <2>3. \A d \in Chains : ChainMove(d)
    BY <2>1 DEF ChainMove, Stays
  <2>4. (\A j \in Keys : RowStep(j) /\ ChildMove(j)) /\ StatusStep
    <3>1. CASE nodeRun[k] \in ActiveStatuses
      BY <2>1, <2>2, <3>1, FinishSteps DEF FailIfActive, FailNode
    <3>2. CASE nodeRun[k] \notin ActiveStatuses
      <4>1. UNCHANGED <<runStatus, nodeRun>>
        BY <2>1, <3>2 DEF FailIfActive, rowVars
      <4> QED BY <2>1, <2>2, <4>1 DEF RowStep, ChildMove, Same, StatusStep
    <3> QED BY <3>1, <3>2
  <2> QED BY <1>1, <2>3, <2>4 DEF Steps
<1> QED BY <1>2, <1>3 DEF ChildNext

\* The sweep.
LEMMA SweepSteps ==
  ASSUME IInv, SweepStart \/ RecoverRun \/ SweepStep \/ \E k \in Keys : SweepChild(k)
  PROVE  Steps
<1>1. /\ TypeOK /\ SweepChain \in Chains /\ UNCHANGED childRun
      /\ pc[SweepChain] # "idle" \/ Calm
  BY Constants DEF IInv, SweepStart, RecoverRun, SweepStep, SweepChild
<1>2. at[SweepChain] \in Keys
  BY <1>1 DEF TypeOK
<1>3. CASE SweepStart \/ RecoverRun \/ SweepStep
  <2>1. PICK p \in {"idle", "publish", "step", "listed", "scan"} :
          Goto(SweepChain, p, at[SweepChain], <<>>)
    BY <1>3 DEF SweepStart, RecoverRun, SweepStep
  <2>2. \A d \in Chains : ChainMove(d)
    BY <1>1, <2>1, PlainSteps
  <2>3. UNCHANGED <<runStatus, nodeRun>>
    BY <1>3 DEF SweepStart, RecoverRun, SweepStep
  <2> QED BY <1>1, <2>2, <2>3, RowsStay DEF Steps, StatusStep
<1>4. ASSUME NEW k \in Keys, SweepChild(k)
      PROVE  Steps
  <2>1. \A d \in Chains : ChainMove(d)
    <3>1. CASE UNCHANGED <<pc, at, frames>>
      BY <3>1 DEF ChainMove, Stays
    <3>2. CASE childRun[k] = "completed" /\ Goto(SweepChain, "stat", k, <<>>)
      <4>1. /\ pc'[SweepChain] = "stat" /\ at'[SweepChain] = k /\ frames'[SweepChain] = <<>>
            /\ \A d \in Chains \ {SweepChain} : Stays(d)
        BY <1>1, <3>2, GotoSteps
      <4> QED BY <1>1, <3>2, <4>1 DEF ChainMove, FramesMove
    <3> QED BY <1>4, <3>1, <3>2 DEF SweepChild
  <2>2. (\A j \in Keys : RowStep(j) /\ ChildMove(j)) /\ StatusStep
    <3>1. CASE childRun[k] \in {"aborting", "failed"} /\ nodeRun[k] \in ActiveStatuses
      <4>1. Kind[k[1]] = "agent" /\ childRun'[k] \in {"aborting", "failed"} /\ FailNode(k)
        BY <1>1, <1>4, <3>1 DEF IInv, KindInv, SweepChild, FailIfActive
      <4> QED BY <1>1, <3>1, <4>1, FinishSteps DEF FailNode
    <3>2. CASE UNCHANGED <<runStatus, nodeRun>>
      BY <1>1, <3>2, RowsStay DEF StatusStep
    <3> QED BY <1>4, <3>1, <3>2 DEF SweepChild, FailIfActive, rowVars
  <2> QED BY <1>1, <2>1, <2>2 DEF Steps
<1> QED BY <1>3, <1>4

\* The faults.
LEMMA FaultSteps ==
  ASSUME IInv, Crash \/ \E c \in Chains : PortFault(c)
  PROVE  Steps
<1>1. TypeOK /\ UNCHANGED <<runStatus, nodeRun, rejected>>
  BY DEF IInv, Crash, PortFault
<1>2. CASE Crash
  <2>1. \A d \in Chains : ChainMove(d)
    BY <1>2 DEF Crash, ChainMove
  <2>2. PICK dead \in SUBSET {k \in Keys : childRun[k] = "live"},
             ended \in {{}} \cup {{k} : k \in {j \in Keys : childRun[j] = "live"}} :
          childRun' = [k \in Keys |->
            CASE childRun[k] = "requested" -> "none"
              [] k \in ended -> "completed"
              [] k \in dead \ ended -> "orphan"
              [] childRun[k] = "aborting" -> "failed"
              [] OTHER -> childRun[k]]
    BY <1>2 DEF Crash
  <2>3. \A k \in Keys : k \in ended \/ k \in dead => childRun[k] = "live"
    OBVIOUS
  <2>4. \A j \in Keys : childRun'[j] = childRun[j] \/ AgentMoves(j)
    BY <2>2, <2>3 DEF AgentMoves
  <2>5. \A j \in Keys : RowStep(j) /\ ChildMove(j)
    BY <1>1, <2>4 DEF RowStep, ChildMove, Same
  <2> QED BY <1>1, <2>1, <2>5 DEF Steps, StatusStep
<1>3. ASSUME NEW c \in Chains, PortFault(c)
      PROVE  Steps
  <2>1. Goto(c, "idle", at[c], <<>>) /\ pc[c] # "idle" /\ UNCHANGED childRun
    BY <1>3 DEF PortFault, Throw
  <2>2. \A d \in Chains : ChainMove(d)
    BY <1>1, <2>1, PlainSteps
  <2> QED BY <1>1, <2>1, <2>2, RowsStay DEF Steps, StatusStep
<1> QED BY <1>2, <1>3

\* Every step of the engine, taken apart.
LEMMA NextSteps == IInv /\ [Next]_vars => Steps
<1> SUFFICES ASSUME IInv, [Next]_vars PROVE Steps
  OBVIOUS
<1>1. CASE StartRun
  BY <1>1, StartRunSteps
<1>2. CASE \E token \in Tokens : Command(token)
  BY <1>2, CommandSteps
<1>3. CASE RetryDispatch
  BY <1>3, RetryDispatchSteps
<1>4. CASE \E c \in Chains : ChainStep(c)
  BY <1>4, StepRunSteps, SliceSteps DEF ChainStep
<1>5. CASE \E k \in Keys : ChildNext(k)
  BY <1>5, ChildSteps
<1>6. CASE SweepStart \/ RecoverRun \/ SweepStep \/ \E k \in Keys : SweepChild(k)
  BY <1>6, SweepSteps
<1>7. CASE Crash \/ \E c \in Chains : PortFault(c)
  BY <1>7, FaultSteps
<1>8. CASE UNCHANGED vars
  BY <1>8, RowsStay DEF vars, Steps, ChainMove, Stays, StatusStep
<1> QED BY <1>1, <1>2, <1>3, <1>4, <1>5, <1>6, <1>7, <1>8 DEF Next

-----------------------------------------------------------------------------
(* Agents that are not stopped work alone, whatever happens at an await. *)

\* Of the attempts in K at one node, all but the latest have failed.
FailedBelow(K) ==
  \A k, j \in K : k[1] = j[1] /\ k[2] < j[2] /\ nodeRun[j] # "absent" => nodeRun[k] = "failed"

\* An agent nobody has stopped runs only behind a running row; a chain that finishes a row saw its
\* run complete, one that reports a spawn never had one.
ChildInv ==
  /\ \A k \in Keys :
       /\ childRun[k] \in {"requested", "live"} => nodeRun[k] = "running"
       /\ nodeRun[k] = "absent" => childRun[k] = "none"
  /\ \A c \in Chains :
       /\ pc[c] = "stat" => childRun[at[c]] = "completed"
       /\ pc[c] = "spawnfail" => nodeRun[at[c]] # "absent" /\ childRun[at[c]] = "none"
  /\ FailedBelow(AgentKeys)

\* No row disappears.
LEMMA RowsRemain ==
  ASSUME TypeOK, Steps, NEW k \in Keys, nodeRun[k] # "absent"
  PROVE  nodeRun'[k] # "absent"
BY DEF Steps, RowStep, Same, Created, FirstStatus, Finished, Raised, Resolved

\* A row that appears above another attempt is the retry of it.
LEMMA AppearsAbove ==
  ASSUME IInv, Steps, NEW j \in Keys, nodeRun[j] = "absent", nodeRun'[j] # "absent",
         NEW k \in Keys, k[1] = j[1], k[2] < j[2]
  PROVE  /\ at[TransitionChain] \in Keys /\ IsLatest(at[TransitionChain])
         /\ at[TransitionChain][1] = j[1] /\ k[2] <= at[TransitionChain][2]
         /\ at[TransitionChain][2] < j[2]
         /\ pc[TransitionChain] = "retry"
         /\ \A i \in Keys : i # j => Same(i)
<1>1. TypeOK /\ k[2] \in Nat /\ k[2] >= 1 /\ j[2] \in Nat /\ TransitionChain \in Chains
  BY Constants DEF IInv, Attempts
<1>2. Created(j) /\ Origin(j) /\ \A i \in Keys : i # j => Same(i)
  BY DEF Steps, RowStep, Same, Finished, Raised, Resolved
<1>3. j[2] # 1 /\ j # <<Trigger, 1>>
  BY <1>1
<1>4. pc[TransitionChain] = "retry" /\ j = <<at[TransitionChain][1], at[TransitionChain][2] + 1>>
  BY <1>2, <1>3 DEF Origin
<1>5. at[TransitionChain] \in Keys /\ IsLatest(at[TransitionChain])
  BY <1>1, <1>4 DEF IInv, TypeOK, RetryInv
<1>6. at[TransitionChain][2] \in Nat
  BY <1>5, Constants
<1> QED BY <1>1, <1>2, <1>4, <1>5, <1>6

\* A run that does not move is at the same status after the step.
LEMMA SettledChild ==
  ASSUME ChildInv, Steps, NEW k \in Keys, nodeRun[k] # "absent",
         childRun[k] \in {"none", "completed", "failed"}
  PROVE  childRun'[k] = childRun[k]
BY DEF ChildInv, Steps, ChildMove, AgentMoves

\* Every step keeps it.
LEMMA ChildStepInv ==
  ASSUME IInv, TypeOK', ChildInv, Steps
  PROVE  ChildInv'
<1>1. TypeOK /\ \A c \in Chains : at[c] \in Keys
  BY DEF IInv, TypeOK
<1>2. ASSUME NEW k \in Keys, childRun'[k] \in {"requested", "live"}
      PROVE  nodeRun'[k] = "running"
  <2>1. ChildMove(k)
    BY DEF Steps
  <2>2. CASE nodeRun[k] = "running"
    <3>1. ~ \E c \in Chains : pc[c] \in {"stat", "spawnfail"} /\ at[c] = k
      <4> SUFFICES ASSUME NEW c \in Chains, pc[c] \in {"stat", "spawnfail"}, at[c] = k
                   PROVE  FALSE
        OBVIOUS
      <4>1. childRun[k] \in {"completed", "none"}
        BY DEF ChildInv
      <4>2. childRun'[k] = childRun[k]
        BY <2>2, <4>1, SettledChild
      <4> QED BY <1>2, <4>1, <4>2
    <3> QED BY <1>2, <2>1, <2>2, <3>1 DEF ChildMove
  <2>3. CASE nodeRun[k] # "running"
    BY <1>2, <2>1, <2>3 DEF ChildMove, AgentMoves, ChildInv
  <2> QED BY <2>2, <2>3
<1>3. ASSUME NEW k \in Keys, nodeRun'[k] = "absent"
      PROVE  childRun'[k] = "none"
  <2>1. nodeRun[k] = "absent"
    BY <1>1, <1>3, RowsRemain
  <2> QED BY <1>3, <2>1 DEF ChildInv, Steps, ChildMove, AgentMoves
<1>4. ASSUME NEW c \in Chains, pc'[c] = "stat"
      PROVE  childRun'[at'[c]] = "completed"
  <2>1. CASE Stays(c)
    <3>1. childRun[at[c]] = "completed" /\ at'[c] = at[c]
      BY <1>4, <2>1 DEF Stays, ChildInv
    <3>2. nodeRun[at[c]] # "absent"
      BY <1>1, <3>1 DEF ChildInv
    <3> QED BY <1>1, <3>1, <3>2, SettledChild
  <2>2. CASE ~ Stays(c)
    BY <1>4, <2>2 DEF Steps, ChainMove
  <2> QED BY <2>1, <2>2
<1>5. ASSUME NEW c \in Chains, pc'[c] = "spawnfail"
      PROVE  nodeRun'[at'[c]] # "absent" /\ childRun'[at'[c]] = "none"
  <2>1. CASE Stays(c)
    <3>1. nodeRun[at[c]] # "absent" /\ childRun[at[c]] = "none" /\ at'[c] = at[c]
      BY <1>5, <2>1 DEF Stays, ChildInv
    <3> QED BY <1>1, <3>1, SettledChild, RowsRemain
  <2>2. CASE ~ Stays(c)
    <3>1. /\ nodeRun[at'[c]] = "absent" /\ nodeRun'[at'[c]] # "absent"
          /\ childRun'[at'[c]] = childRun[at'[c]]
      BY <1>5, <2>2 DEF Steps, ChainMove
    <3>2. at'[c] \in Keys
      BY DEF TypeOK
    <3> QED BY <3>1, <3>2 DEF ChildInv
  <2> QED BY <2>1, <2>2
<1>6. FailedBelow(AgentKeys)'
  <2> SUFFICES ASSUME NEW k \in AgentKeys, NEW j \in AgentKeys,
                      k[1] = j[1], k[2] < j[2], nodeRun'[j] # "absent"
               PROVE  nodeRun'[k] = "failed"
    BY DEF FailedBelow, AgentKeys
  <2>1. k \in Keys /\ j \in Keys /\ Kind[k[1]] = "agent" /\ Kind[j[1]] = "agent"
    BY DEF AgentKeys
  <2>2. CASE nodeRun[j] # "absent"
    <3>1. nodeRun[k] = "failed"
      BY <2>2 DEF ChildInv, FailedBelow
    <3>2. ~ IsLatest(k)
      BY <2>1, <2>2, Constants DEF IsLatest
    <3> QED BY <2>1, <3>1, <3>2 DEF Steps, RowStep, Same, Created, Finished, Raised, Resolved
  <2>3. CASE nodeRun[j] = "absent"
    <3> DEFINE r == at[TransitionChain]
    <3>1. /\ r \in Keys /\ IsLatest(r) /\ r[1] = j[1] /\ k[2] <= r[2] /\ r[2] < j[2]
          /\ pc[TransitionChain] = "retry"
          /\ \A i \in Keys : i # j => Same(i)
      BY <2>1, <2>3, AppearsAbove
    <3>2. r \in AgentKeys /\ nodeRun[r] = "failed"
      BY <2>1, <3>1 DEF AgentKeys, IInv, RetryInv, KindInv
    <3>3. nodeRun[k] = "failed"
      <4>1. CASE k[2] = r[2]
        BY <2>1, <3>1, <3>2, <4>1, Constants
      <4>2. CASE k[2] < r[2]
        BY <3>1, <3>2, <4>2 DEF ChildInv, FailedBelow
      <4>3. k[2] \in Nat /\ r[2] \in Nat
        BY <2>1, <3>1, Constants
      <4> QED BY <3>1, <4>1, <4>2, <4>3
    <3>4. k # j
      BY <2>1, Constants
    <3> QED BY <2>1, <3>1, <3>3, <3>4 DEF Same
  <2> QED BY <2>2, <2>3
<1> QED BY <1>2, <1>3, <1>4, <1>5, <1>6 DEF ChildInv

(* Agent runs, rows and chains keep together at every await. *)
THEOREM ChildInvariance == Spec => []ChildInv
<1>1. Init => ChildInv
  BY Constants DEF Init, ChildInv, FailedBelow, AgentKeys
<1>2. IInv /\ IInv' /\ ChildInv /\ [Next]_vars => ChildInv'
  BY NextSteps, ChildStepInv DEF IInv
<1> QED BY <1>1, <1>2, Invariance, PTL DEF Spec

(* However retries, hooks, cancellations and late calls overlap, at an await *)
(* of any length and through crashes: an agent is started at a node only     *)
(* when the earlier ones have ended or have been told to.                    *)
THEOREM AgentsWorkAlone == Spec => []OneLiveRunPerNode
<1>1. IInv /\ ChildInv => OneLiveRunPerNode
  <2> SUFFICES ASSUME IInv, ChildInv, NEW n \in Nodes, NEW i \in Attempts, NEW j \in Attempts,
                      i < j, childRun[<<n, i>>] \in AtWork, childRun[<<n, j>>] \in AtWork
               PROVE  childRun[<<n, i>>] = "aborting"
    BY DEF OneLiveRunPerNode
  <2>1. <<n, i>> \in AgentKeys /\ <<n, j>> \in AgentKeys
    BY DEF AgentKeys, Keys, IInv, KindInv, AtWork
  <2>2. nodeRun[<<n, j>>] # "absent"
    BY <2>1 DEF AgentKeys, ChildInv, AtWork
  <2>3. nodeRun[<<n, i>>] = "failed"
    BY <2>1, <2>2 DEF ChildInv, FailedBelow
  <2> QED BY <2>1, <2>3 DEF AgentKeys, ChildInv, AtWork
<1> QED BY <1>1, Invariance, ChildInvariance, PTL

-----------------------------------------------------------------------------
(* A row in progress is watched, as long as there was no fault. *)

\* The hook of an agent run is under way only when the run has completed.
HookInv == \A k \in Keys : pc[Hook(k)] # "idle" => childRun[k] = "completed"

Watched(k) ==
  /\ nodeRun[k] = "pending" => Suspended(k, {"goal"})
  /\ nodeRun[k] = "running" =>
       childRun[k] \in {"requested", "live", "failed"} \/ Suspended(k, {"spawnfail", "stat"})

\* What a step does for it: a chain that leaves the await of a row settles the row, a
\* row that appears is watched, an agent that completes leaves its row to its hook, and
\* a hook begins only then.
Settles(c) ==
  pc[c] \in {"goal", "spawnfail", "stat"} =>
    (pc'[c] = pc[c] /\ at'[c] = at[c]) \/ nodeRun'[at[c]] \notin {"pending", "running"}

Appears(k) == nodeRun[k] = "absent" => Watched(k)'

Leaves(k) ==
  (nodeRun[k] = "running" /\ nodeRun'[k] = "running" /\ childRun[k] \in {"requested", "live", "failed"})
    => childRun'[k] \in {"requested", "live", "failed"} \/ Suspended(k, {"stat"})'

HookBegins(k) == pc[Hook(k)] = "idle" /\ pc'[Hook(k)] # "idle" => childRun'[k] = "completed"

WatchStep ==
  /\ \A c \in Chains : Settles(c)
  /\ \A k \in Keys : Appears(k) /\ Leaves(k) /\ HookBegins(k)

\* The chains are told apart by what they are for.
LEMMA Hooks ==
  ASSUME NEW k \in Keys
  PROVE  /\ Hook(k) \in Chains
         /\ Hook(k) \notin {StartChain, TransitionChain, SweepChain}
         /\ \A j \in Keys : Hook(j) = Hook(k) => j = k
BY Constants DEF Hook, StartChain, TransitionChain, SweepChain

\* A chain under way moves, and leaves the await of no row.
LEMMA MovesOn ==
  ASSUME TypeOK, NEW c \in Chains, pc[c] \notin {"goal", "spawnfail", "stat"},
         pc[c] # "idle" \/ c \in {StartChain, TransitionChain, SweepChain},
         \A d \in Chains \ {c} : Stays(d)
  PROVE  (\A d \in Chains : Settles(d)) /\ \A k \in Keys : HookBegins(k)
BY Hooks DEF Settles, HookBegins, Stays

\* Rows that do not change.
LEMMA RowsUntouched ==
  ASSUME TypeOK, UNCHANGED nodeRun,
         \A k \in Keys : childRun'[k] = childRun[k] \/ childRun'[k] \in {"requested", "live", "failed"}
  PROVE  \A k \in Keys : Appears(k) /\ Leaves(k)
BY DEF Appears, Leaves, Watched

\* A dispatch, up to its first await.
LEMMA DispatchWatch ==
  ASSUME IInv, NEW c \in Chains, NEW k \in Keys, NEW fs \in Seq(SUBSET Nodes),
         DispatchNode(c, k, fs), pc[c] \in {"publish", "step", "loop", "retry"}
  PROVE  WatchStep
<1>0. TypeOK
  BY DEF IInv
<1>1. \A j \in Keys : j # k => nodeRun'[j] = nodeRun[j] /\ childRun'[j] = childRun[j]
  BY <1>0, DispatchRows
<1>2. \A j \in Keys : j # k => Appears(j) /\ Leaves(j)
  BY <1>1 DEF Appears, Leaves, Watched
<1>3. ASSUME NEW p, NEW j, NEW gs, Goto(c, p, j, gs)
      PROVE  (\A d \in Chains : Settles(d)) /\ \A i \in Keys : HookBegins(i)
  BY <1>0, <1>3, GotoSteps, MovesOn
<1>4. CASE nodeRun[k] # "absent"
  <2>1. Goto(c, "idle", at[c], <<>>) /\ UNCHANGED <<nodeRun, childRun>>
    BY <1>4 DEF DispatchNode, Throw
  <2> QED BY <1>0, <1>3, <2>1, RowsUntouched DEF WatchStep
<1>5. ASSUME nodeRun[k] = "absent", NEW p \in Points \ {"idle"}, Goto(c, p, k, fs),
             \/ nodeRun'[k] \notin {"pending", "running"}
             \/ nodeRun'[k] = "pending" /\ p = "goal"
             \/ nodeRun'[k] = "running" /\ (p = "spawnfail" \/ childRun'[k] = "requested")
      PROVE  WatchStep
  <2>1. pc'[c] = p /\ at'[c] = k
    BY <1>0, <1>5, GotoSteps
  <2>2. Watched(k)'
    BY <1>5, <2>1 DEF Watched, Suspended
  <2>3. Appears(k) /\ Leaves(k)
    BY <1>5, <2>2 DEF Appears, Leaves
  <2> QED BY <1>2, <1>3, <1>5, <2>3 DEF WatchStep
<1>6. CASE nodeRun[k] = "absent"
  <2>0. Resume(fs) \in Points \ {"idle"} /\ {"spawnfail", "gate", "goal", "step"} \subseteq Points \ {"idle"}
    BY DEF Resume, Points
  <2>1. CASE Kind[k[1]] = "agent" /\ DispatchAgent(c, k, fs)
    <3>1. nodeRun'[k] = "running"
      BY <1>0, <2>1 DEF DispatchAgent, TypeOK
    <3>2. CASE childRun' = [childRun EXCEPT ![k] = "requested"] /\ Goto(c, Resume(fs), k, fs)
      <4>1. childRun'[k] = "requested"
        BY <1>0, <3>2 DEF TypeOK
      <4> QED BY <1>5, <1>6, <2>0, <3>1, <3>2, <4>1
    <3>3. CASE Goto(c, "spawnfail", k, fs)
      BY <1>5, <1>6, <2>0, <3>1, <3>3
    <3> QED BY <2>1, <3>2, <3>3 DEF DispatchAgent
  <2>2. CASE Kind[k[1]] = "approval" /\ DispatchApproval(c, k, fs)
    <3>1. nodeRun'[k] = "awaiting_approval" /\ Goto(c, "gate", k, fs)
      BY <1>0, <2>2 DEF DispatchApproval, TypeOK
    <3> QED BY <1>5, <1>6, <2>0, <3>1
  <2>3. CASE Kind[k[1]] = "goal_handoff" /\ DispatchGoalHandoff(c, k, fs)
    <3>1. nodeRun'[k] = "pending" /\ Goto(c, "goal", k, fs)
      BY <1>0, <2>3 DEF DispatchGoalHandoff, TypeOK
    <3> QED BY <1>5, <1>6, <2>0, <3>1
  <2>4. CASE Kind[k[1]] = "output" /\ DispatchOutput(c, k, fs)
    <3>1. nodeRun'[k] = "completed" /\ Goto(c, "step", k, fs)
      BY <1>0, <2>4 DEF DispatchOutput, TypeOK
    <3> QED BY <1>5, <1>6, <2>0, <3>1
  <2> QED BY <1>6, <2>1, <2>2, <2>3, <2>4 DEF DispatchNode
<1> QED BY <1>4, <1>6

\* stepRun and its loops.
LEMMA LoopsWatch ==
  ASSUME IInv, NEW c \in Chains, StepRun(c) \/ Loop(c)
  PROVE  WatchStep
<1>0. TypeOK /\ frames[c] \in Seq(SUBSET Nodes) /\ pc[c] \in {"publish", "step", "loop"}
  BY DEF IInv, TypeOK, StepRun, Loop
<1>1. ASSUME NEW fs, Return(c, fs), UNCHANGED <<nodeRun, childRun>>
      PROVE  WatchStep
  <2>1. (\A d \in Chains : Settles(d)) /\ \A k \in Keys : HookBegins(k)
    BY <1>0, <1>1, GotoSteps, MovesOn DEF Return
  <2> QED BY <1>0, <1>1, <2>1, RowsUntouched DEF WatchStep
<1>2. ASSUME NEW R \in SUBSET Nodes, NEW fs \in Seq(SUBSET Nodes), DispatchRest(c, R, fs)
      PROVE  WatchStep
  <2>1. ASSUME NEW n \in R, DispatchNode(c, <<n, 1>>, <<R \ {n}>> \o fs)
        PROVE  WatchStep
    <3>1. <<n, 1>> \in Keys /\ <<R \ {n}>> \o fs \in Seq(SUBSET Nodes)
      BY Constants DEF Keys
    <3> QED BY <1>0, <2>1, <3>1, DispatchWatch
  <2> QED BY <1>1, <1>2, <2>1 DEF DispatchRest
<1>3. CASE StepRun(c)
  <2>1. Ready \in SUBSET Nodes
    BY DEF Ready
  <2> QED BY <1>0, <1>1, <1>2, <1>3, <2>1 DEF StepRun
<1>4. CASE Loop(c)
  <2>1. frames[c] # <<>>
    BY <1>4 DEF IInv, ChainInv, Loop
  <2>2. Head(frames[c]) \in SUBSET Nodes /\ Tail(frames[c]) \in Seq(SUBSET Nodes)
    BY <1>0, <2>1
  <2> QED BY <1>1, <1>2, <1>4, <2>2 DEF Loop
<1> QED BY <1>3, <1>4

\* The row of k is settled, or was, and at most the chain at it moves.
LEMMA SettledWatch ==
  ASSUME IInv, NEW k \in Keys, nodeRun'[k] \notin {"pending", "running"},
         \A j \in Keys : j # k => nodeRun'[j] = nodeRun[j] /\ childRun'[j] = childRun[j],
         \/ UNCHANGED <<pc, at, frames>>
         \/ \E c \in Chains : at[c] = k /\ pc[c] # "idle" /\ \A d \in Chains \ {c} : Stays(d)
  PROVE  WatchStep
<1>1. \A j \in Keys : Appears(j) /\ Leaves(j)
  <2>1. Appears(k) /\ Leaves(k)
    BY DEF Appears, Leaves, Watched
  <2>2. \A j \in Keys : j # k => Appears(j) /\ Leaves(j)
    BY DEF Appears, Leaves, Watched
  <2> QED BY <2>1, <2>2
<1>2. (\A d \in Chains : Settles(d)) /\ \A j \in Keys : HookBegins(j)
  BY Hooks DEF Settles, HookBegins, Stays
<1> QED BY <1>1, <1>2 DEF WatchStep

\* The second slices of the dispatches, and the end of a node.
LEMMA SlicesWatch ==
  ASSUME IInv, NEW c \in Chains,
         SpawnFailed(c) \/ GateRaised(c) \/ GoalStarted(c) \/ FinishNode(c)
  PROVE  WatchStep
<1> DEFINE k == at[c]
<1>1. TypeOK /\ k \in Keys /\ pc[c] # "idle" /\ UNCHANGED childRun
  BY DEF IInv, TypeOK, SpawnFailed, GateRaised, GoalStarted, FinishNode
<1>2. \A d \in Chains \ {c} : Stays(d)
  <2>1. CASE Settle(c)
    BY <1>1, <2>1, GotoSteps DEF Settle
  <2>2. CASE Goto(c, "publish", k, <<>>)
    BY <1>1, <2>2, GotoSteps
  <2>3. CASE Return(c, <<>>)
    BY <1>1, <2>3, GotoSteps DEF Return
  <2> QED BY <2>1, <2>2, <2>3 DEF SpawnFailed, GateRaised, GoalStarted, FinishNode
<1>3. nodeRun'[k] \notin {"pending", "running"}
  BY <1>1 DEF SpawnFailed, GateRaised, GoalStarted, FinishNode, FailNode, rowVars, ActiveStatuses,
     TypeOK
<1>4. \A j \in Keys : j # k => nodeRun'[j] = nodeRun[j] /\ childRun'[j] = childRun[j]
  BY <1>1 DEF SpawnFailed, GateRaised, GoalStarted, FinishNode, FailNode, rowVars, TypeOK
<1> HIDE DEF k
<1> QED BY <1>1, <1>2, <1>3, <1>4, SettledWatch DEF k

\* The start of the run.
LEMMA StartWatch ==
  ASSUME IInv, StartRun
  PROVE  WatchStep
<1>1. /\ TypeOK /\ <<Trigger, 1>> \in Keys /\ StartChain \in Chains /\ pc[StartChain] = "idle"
  BY Constants DEF IInv, FreshInv, StartRun
<1>2. \A d \in Chains \ {StartChain} : Stays(d)
  BY <1>1, GotoSteps DEF StartRun
<1>3. (\A d \in Chains : Settles(d)) /\ \A k \in Keys : HookBegins(k)
  BY <1>1, <1>2, MovesOn
<1>4. \A k \in Keys : nodeRun'[k] \in {"absent", "completed"}
  BY <1>1 DEF IInv, FreshInv, StartRun, TypeOK
<1> QED BY <1>3, <1>4 DEF WatchStep, Appears, Leaves, Watched

\* The transitions.
LEMMA CommandWatch ==
  ASSUME IInv, NEW token \in Tokens, Command(token)
  PROVE  WatchStep
<1>1. TypeOK /\ TransitionChain \in Chains /\ UNCHANGED childRun
  BY Constants DEF IInv, Command, Approve, Reject, Abort, Retry, Skip, Transition
<1>2. pc[TransitionChain] = "idle"
  BY DEF Command, Approve, Reject, Abort, Retry, Skip, Transition
<1>3. \A d \in Chains \ {TransitionChain} : Stays(d)
  BY <1>1, GotoSteps DEF Command, Approve, Reject, Abort, Retry, Skip, Then, Stays
<1>4. (\A d \in Chains : Settles(d)) /\ \A k \in Keys : HookBegins(k)
  BY <1>1, <1>2, <1>3, MovesOn
<1>5. \A k \in Keys : nodeRun'[k] = nodeRun[k] \/ (nodeRun[k] # "absent" /\ nodeRun'[k] \notin {"pending", "running"})
  <2>1. CASE Approve(token) \/ Reject(token)
    BY <1>1, <2>1 DEF Approve, Reject, ResolveGates, LatestWith
  <2>2. CASE Abort(token) \/ Retry(token)
    BY <2>2 DEF Abort, Retry
  <2>3. CASE Skip(token)
    BY <1>1, <2>3 DEF Skip, LatestFailed, LatestWith, TypeOK
  <2> QED BY <2>1, <2>2, <2>3 DEF Command
<1> QED BY <1>1, <1>4, <1>5 DEF WatchStep, Appears, Leaves, Watched

\* The events of an agent run.
LEMMA ChildWatch ==
  ASSUME IInv, ChildInv, HookInv, NEW k \in Keys, ChildNext(k)
  PROVE  WatchStep
<1>1. TypeOK
  BY DEF IInv
<1>2. CASE ChildStarts(k) \/ WriteOutput(k) \/ Advance(k) \/ ChildFailsUnhooked(k) \/ TurnStops(k)
  <2>1. /\ UNCHANGED <<nodeRun, pc, at, frames>>
        /\ \A j \in Keys : childRun'[j] = childRun[j] \/ childRun'[j] \in {"live", "failed"}
    BY <1>1, <1>2 DEF ChildStarts, WriteOutput, Advance, ChildFailsUnhooked, TurnStops, TypeOK
  <2> QED BY <1>1, <2>1, RowsUntouched DEF WatchStep, Settles, HookBegins
<1>3. CASE ChildRejected(k) \/ ChildFails(k) \/ CancelRun(k)
  <2>1. /\ FailIfActive(k) /\ UNCHANGED <<pc, at, frames>>
        /\ \A j \in Keys : j # k => childRun'[j] = childRun[j]
    BY <1>1, <1>3 DEF ChildRejected, ChildFails, CancelRun, TypeOK
  <2>2. /\ nodeRun'[k] \notin {"pending", "running"}
        /\ \A j \in Keys : j # k => nodeRun'[j] = nodeRun[j]
    BY <1>1, <2>1 DEF FailIfActive, FailNode, rowVars, ActiveStatuses, TypeOK
  <2> QED BY <2>1, <2>2, SettledWatch
<1>4. CASE ChildCompletes(k)
  <2>1. /\ childRun[k] = "live" /\ childRun'[k] = "completed" /\ UNCHANGED nodeRun
        /\ nodeRun[k] = "running" /\ Hook(k) \in Chains
        /\ \A j \in Keys : j # k => childRun'[j] = childRun[j]
    BY <1>1, <1>4, Constants DEF ChildCompletes, TypeOK, ChildInv
  <2>2. Goto(Hook(k), "stat", k, <<>>)
    BY <1>4, <2>1 DEF ChildCompletes, ActiveStatuses
  <2>3. /\ pc'[Hook(k)] = "stat" /\ at'[Hook(k)] = k
        /\ \A d \in Chains \ {Hook(k)} : Stays(d)
    BY <1>1, <2>1, <2>2, GotoSteps
  <2>4. pc[Hook(k)] = "idle"
    BY <2>1 DEF HookInv
  <2>5. \A d \in Chains : Settles(d)
    BY <2>3, <2>4 DEF Settles, Stays
  <2>6. \A j \in Keys : HookBegins(j)
    BY <2>1, <2>3, Hooks DEF HookBegins, Stays
  <2>7. \A j \in Keys : j # k => Appears(j) /\ Leaves(j)
    BY <2>1 DEF Appears, Leaves, Watched
  <2>8. Appears(k) /\ Leaves(k)
    BY <2>1, <2>3 DEF Appears, Leaves, Suspended
  <2> QED BY <2>5, <2>6, <2>7, <2>8 DEF WatchStep
<1> QED BY <1>2, <1>3, <1>4 DEF ChildNext

\* The sweep.
LEMMA SweepWatch ==
  ASSUME IInv, SweepStart \/ RecoverRun \/ SweepStep \/ \E k \in Keys : SweepChild(k)
  PROVE  WatchStep
<1>1. /\ TypeOK /\ SweepChain \in Chains /\ UNCHANGED childRun
      /\ pc[SweepChain] \in {"idle", "listed", "scan"}
  BY Constants DEF IInv, SweepStart, RecoverRun, SweepStep, SweepChild
<1>2. \A d \in Chains \ {SweepChain} : Stays(d)
  BY <1>1, GotoSteps DEF SweepStart, RecoverRun, SweepStep, SweepChild, Stays
<1>3. (\A d \in Chains : Settles(d)) /\ \A k \in Keys : HookBegins(k)
  BY <1>1, <1>2, MovesOn
<1>4. \A k \in Keys : nodeRun'[k] = nodeRun[k] \/ (nodeRun[k] # "absent" /\ nodeRun'[k] = "failed")
  BY <1>1 DEF SweepStart, RecoverRun, SweepStep, SweepChild, FailIfActive, FailNode, rowVars,
     ActiveStatuses, TypeOK
<1> QED BY <1>1, <1>3, <1>4 DEF WatchStep, Appears, Leaves, Watched

\* The steps that are no fault.
LEMMA NextWatch ==
  ASSUME IInv, ChildInv, HookInv, Next, faults' = faults
  PROVE  WatchStep
<1>1. TypeOK
  BY DEF IInv
<1>2. CASE RetryDispatch
  <2>1. at[TransitionChain] \in Keys /\ at[TransitionChain][2] < MaxAttempts /\ TransitionChain \in Chains
    BY <1>2, Constants DEF RetryDispatch, IInv, TypeOK, RetryInv
  <2>2. <<>> \in Seq(SUBSET Nodes)
    OBVIOUS
  <2> QED BY <1>2, <2>1, <2>2, Successor, DispatchWatch DEF RetryDispatch
<1>3. CASE Crash \/ \E c \in Chains : PortFault(c)
  BY <1>1, <1>3 DEF Crash, PortFault, TypeOK
<1>4. ASSUME NEW c \in Chains, ChainStep(c)
      PROVE  WatchStep
  BY <1>4, LoopsWatch, SlicesWatch DEF ChainStep
<1> QED BY <1>2, <1>3, <1>4, StartWatch, CommandWatch, ChildWatch, SweepWatch DEF Next

\* A step that is no fault leaves every row watched.
LEMMA WatchedKept ==
  ASSUME IInv, Steps, WatchStep, NEW k \in Keys, Watched(k)
  PROVE  Watched(k)'
<1>1. TypeOK /\ nodeRun[k] \in RowStatuses
  BY DEF IInv, TypeOK
<1>2. CASE nodeRun[k] = "absent"
  BY <1>2 DEF WatchStep, Appears
<1>3. CASE nodeRun[k] # "absent"
  <2>1. nodeRun'[k] \in {"pending", "running"} => nodeRun'[k] = nodeRun[k]
    BY <1>3 DEF Steps, RowStep, Same, Created, Finished, Raised, Resolved
  <2>2. ASSUME nodeRun'[k] \in {"pending", "running"}, NEW c \in Chains,
               pc[c] \in {"goal", "spawnfail", "stat"}, at[c] = k
        PROVE  pc'[c] = pc[c] /\ at'[c] = k
    BY <2>2 DEF WatchStep, Settles
  <2>3. CASE nodeRun'[k] = "pending"
    BY <2>1, <2>2, <2>3 DEF Watched, Suspended
  <2>4. CASE nodeRun'[k] = "running" /\ childRun[k] \in {"requested", "live", "failed"}
    <3>1. childRun'[k] \in {"requested", "live", "failed"} \/ Suspended(k, {"stat"})'
      BY <2>1, <2>4 DEF WatchStep, Leaves
    <3> QED BY <2>4, <3>1 DEF Watched, Suspended
  <2>5. CASE nodeRun'[k] = "running" /\ Suspended(k, {"spawnfail", "stat"})
    BY <2>2, <2>5 DEF Watched, Suspended
  <2> QED BY <2>1, <2>3, <2>4, <2>5 DEF Watched
<1> QED BY <1>2, <1>3

LEMMA HookStep ==
  ASSUME IInv, ChildInv, HookInv, [Next]_vars, Steps
  PROVE  HookInv'
<1> SUFFICES ASSUME NEW k \in Keys, pc'[Hook(k)] # "idle" PROVE childRun'[k] = "completed"
  BY DEF HookInv
<1>1. CASE Next /\ faults' = faults /\ pc[Hook(k)] = "idle"
  BY <1>1, NextWatch DEF WatchStep, HookBegins
<1>2. CASE pc[Hook(k)] # "idle"
  <2>1. childRun[k] = "completed"
    BY <1>2 DEF HookInv
  <2>2. nodeRun[k] # "absent"
    BY <2>1 DEF ChildInv
  <2> QED BY <2>1, <2>2, SettledChild
<1>3. CASE Crash \/ \E c \in Chains : PortFault(c)
  <2>1. Hook(k) \in Chains /\ TypeOK
    BY Hooks DEF IInv
  <2> QED BY <1>2, <1>3, <2>1 DEF Crash, PortFault, Throw, Goto, TypeOK
<1>4. CASE UNCHANGED vars
  BY <1>2, <1>4 DEF vars
<1>5. Next /\ faults' # faults => Crash \/ \E c \in Chains : PortFault(c)
  BY DEF Next, StartRun, Command, Approve, Reject, Abort, Retry, Skip, Transition, RetryDispatch,
     EngineStep, ChainStep, StepRun, Loop, SpawnFailed, GateRaised, GoalStarted, FinishNode,
     ChildNext, ChildStep, ChildStarts, ChildRejected, WriteOutput, Advance, ChildCompletes,
     ChildFails, ChildFailsUnhooked, CancelRun, TurnStops, SweepStart, RecoverRun, SweepStep,
     SweepChild
<1> QED BY <1>1, <1>2, <1>3, <1>4, <1>5

WatchInv == HookInv /\ (faults = 0 => \A k \in Keys : Watched(k))

(* However hooks, cancellations, retries, sweeps and late calls overlap, at *)
(* an await of any length: until there is a fault, no row of a node is left  *)
(* pending or running with neither an agent nor a call that comes back to it. *)
THEOREM NothingIsForgotten == Spec => []InProgressIsWatched
<1>1. Init => WatchInv
  BY Constants, Hooks DEF Init, WatchInv, HookInv, Watched
<1>2. IInv /\ IInv' /\ ChildInv /\ WatchInv /\ [Next]_vars => WatchInv'
  <2> SUFFICES ASSUME IInv, IInv', ChildInv, WatchInv, [Next]_vars PROVE WatchInv'
    OBVIOUS
  <2>1. Steps /\ HookInv'
    BY NextSteps, HookStep DEF WatchInv
  <2>2. ASSUME faults' = 0, NEW k \in Keys PROVE Watched(k)'
    <3>1. CASE Next
      <4>1. faults = 0
        BY <2>2, <3>1 DEF Next, StartRun, Command, Approve, Reject, Abort, Retry, Skip,
           Transition, RetryDispatch,
           EngineStep, ChainStep, StepRun, Loop, SpawnFailed, GateRaised, GoalStarted, FinishNode,
           ChildNext, ChildStep, ChildStarts, ChildRejected, WriteOutput, Advance, ChildCompletes,
           ChildFails, ChildFailsUnhooked, CancelRun, TurnStops, SweepStart, RecoverRun, SweepStep,
           SweepChild, PortFault, Crash, IInv, TypeOK
      <4>2. WatchStep /\ Watched(k)
        BY <2>2, <3>1, <4>1, NextWatch DEF WatchInv
      <4> QED BY <2>1, <4>2, WatchedKept
    <3>2. CASE UNCHANGED vars
      BY <2>2, <3>2 DEF vars, WatchInv, Watched, Suspended
    <3> QED BY <3>1, <3>2
  <2> QED BY <2>1, <2>2 DEF WatchInv
<1>3. WatchInv => InProgressIsWatched
  BY DEF WatchInv, Watched, InProgressIsWatched
<1> QED BY <1>1, <1>2, <1>3, Invariance, ChildInvariance, PTL DEF Spec

-----------------------------------------------------------------------------
(* The shipped adapter: one chain at a time. *)

\* Nothing else is under way while a chain is.
Alone == \A c, d \in Chains : pc[c] # "idle" /\ pc[d] # "idle" => c = d

\* The row a suspended chain will write or follow has not moved.
RowsHeld ==
  \A c \in Chains :
    /\ pc[c] = "gate" => nodeRun[at[c]] = "awaiting_approval"
    /\ pc[c] = "retry" => nodeRun[at[c]] = "failed"

CanBegin(n) ==
  Kind[n] # "trigger" /\ Pred[n] # {} /\ \A p \in Pred[n] : LatestIn(p, DoneStatuses)

\* What the loops of a chain still have to dispatch was ready, and its predecessors
\* are done yet.
LoopInv == \A c \in Chains : \A i \in DOMAIN frames[c] : \A n \in frames[c][i] : CanBegin(n)

AdapterInv == Alone /\ FailedBelow(Keys) /\ RowsHeld /\ LoopInv /\ NodeAfterPreds

\* Pushing and popping a frame.
LEMMA PushedFrame ==
  ASSUME NEW S, NEW A \in S, NEW s \in Seq(S), NEW i \in DOMAIN (<<A>> \o s)
  PROVE  \/ i = 1 /\ (<<A>> \o s)[i] = A
         \/ i # 1 /\ i - 1 \in DOMAIN s /\ (<<A>> \o s)[i] = s[i - 1]
OBVIOUS

LEMMA PoppedFrame ==
  ASSUME NEW S, NEW s \in Seq(S), s # <<>>, NEW i \in DOMAIN Tail(s)
  PROVE  i + 1 \in DOMAIN s /\ Tail(s)[i] = s[i + 1]
OBVIOUS

LEMMA TopFrame ==
  ASSUME NEW S, NEW s \in Seq(S), s # <<>>
  PROVE  1 \in DOMAIN s /\ Head(s) = s[1]
OBVIOUS

\* A done row stays done.
LEMMA DoneRowKept ==
  ASSUME Steps, NEW k \in Keys, nodeRun[k] \in DoneStatuses, ~ Suspended(k, {"gate"})
  PROVE  nodeRun'[k] \in DoneStatuses
BY DEF Steps, RowStep, Same, Created, Finished, Raised, Resolved, DoneStatuses, Suspended

\* A node that is done stays done: no attempt is made above a done one.
LEMMA DoneNodeKept ==
  ASSUME IInv, RowsHeld, Steps, NEW n \in Nodes, LatestIn(n, DoneStatuses)
  PROVE  LatestIn(n, DoneStatuses)'
<1>1. PICK a \in Attempts : IsLatest(<<n, a>>) /\ nodeRun[<<n, a>>] \in DoneStatuses
  BY DEF LatestIn
<1> DEFINE k == <<n, a>>
<1>2. k \in Keys /\ k[1] = n /\ k[2] = a /\ TransitionChain \in Chains /\ TypeOK
  BY Constants DEF Keys, IInv
<1>3. nodeRun'[k] \in DoneStatuses
  BY <1>1, <1>2, DoneRowKept DEF RowsHeld, Suspended, DoneStatuses
<1>4. ASSUME NEW b \in Attempts, b > a, nodeRun'[<<n, b>>] # "absent"
      PROVE  FALSE
  <2> DEFINE j == <<n, b>>
  <2> DEFINE r == at[TransitionChain]
  <2>1. j \in Keys /\ j[1] = n /\ j[2] = b /\ nodeRun[j] = "absent" /\ k[2] < j[2]
    BY <1>1, <1>2, <1>4, Constants DEF Keys, IsLatest
  <2> HIDE DEF j, k
  <2>2. r \in Keys /\ IsLatest(r) /\ r[1] = n /\ pc[TransitionChain] = "retry"
    BY <1>2, <1>4, <2>1, AppearsAbove DEF j
  <2>3. nodeRun[r] = "failed"
    BY <1>2, <2>2 DEF RowsHeld
  <2>4. r = <<n, r[2]>> /\ r[2] \in Attempts
    BY <2>2, Constants
  <2>5. r[2] = a
    BY <1>1, <1>2, <2>2, <2>4, LatestUnique DEF k
  <2> QED BY <1>1, <2>3, <2>4, <2>5 DEF DoneStatuses
<1>5. IsLatest(k)'
  <2>1. nodeRun'[k] # "absent"
    BY <1>3 DEF DoneStatuses
  <2>2. \A b \in Attempts : b > a => nodeRun'[<<n, b>>] = "absent"
    BY <1>4
  <2> QED BY <1>2, <2>1, <2>2 DEF IsLatest
<1> QED BY <1>3, <1>5 DEF LatestIn

\* What could begin still can.
LEMMA CanBeginKept ==
  ASSUME IInv, RowsHeld, Steps, NEW n \in Nodes, CanBegin(n)
  PROVE  CanBegin(n)'
<1>1. Pred[n] \subseteq Nodes
  BY GraphAssumption
<1> QED BY <1>1, DoneNodeKept DEF CanBegin

\* What stepRun finds ready can begin.
LEMMA ReadyCanBegin ==
  ASSUME NEW n \in Ready
  PROVE  n \in Nodes /\ CanBegin(n) /\ ~ Handled(n)
BY DEF Ready, CanBegin

\* The parts of AdapterInv, step by step.
LEMMA AloneStep ==
  ASSUME ~ PortYields, Alone, Steps
  PROVE  Alone'
<1> SUFFICES ASSUME NEW c \in Chains, NEW d \in Chains, pc'[c] # "idle", pc'[d] # "idle", c # d
             PROVE  FALSE
  BY DEF Alone
<1>1. ~ Stays(c) => pc[d] = pc'[d] /\ (pc[c] # "idle" \/ Calm)
  BY DEF Steps, ChainMove, Stays
<1>2. ~ Stays(d) => pc[c] = pc'[c] /\ (pc[d] # "idle" \/ Calm)
  BY DEF Steps, ChainMove, Stays
<1> QED BY <1>1, <1>2 DEF Alone, Stays, Calm, Idle

\* Under the adapter a transition finds no chain under way.
LEMMA BusyRows ==
  ASSUME ~ PortYields, IInv, Steps, RowsHeld, NEW c \in Chains, pc[c] # "idle",
         NEW k \in Keys
  PROVE  \/ Same(k) \/ Created(k) \/ Finished(k)
         \/ Raised(k) /\ nodeRun[k] = "awaiting_approval"
BY DEF Calm, Idle, Steps, RowStep, RowsHeld

LEMMA RowsHeldStep ==
  ASSUME ~ PortYields, IInv, Alone, RowsHeld, Steps
  PROVE  RowsHeld'
<1> SUFFICES ASSUME NEW c \in Chains
             PROVE  /\ pc'[c] = "gate" => nodeRun'[at'[c]] = "awaiting_approval"
                    /\ pc'[c] = "retry" => nodeRun'[at'[c]] = "failed"
  BY DEF RowsHeld
<1>1. CASE Stays(c)
  <2>1. CASE pc[c] \in {"gate", "retry"}
    <3>1. at[c] \in Keys /\ nodeRun[at[c]] \in {"awaiting_approval", "failed"}
      BY <2>1 DEF RowsHeld, IInv, TypeOK
    <3>2. nodeRun'[at[c]] = nodeRun[at[c]]
      BY <2>1, <3>1, BusyRows DEF Same, Created, Finished, Raised
    <3> QED BY <1>1, <2>1, <3>2 DEF Stays, RowsHeld
  <2>2. CASE pc[c] \notin {"gate", "retry"}
    BY <1>1, <2>2 DEF Stays
  <2> QED BY <2>1, <2>2
<1>2. CASE ~ Stays(c)
  BY <1>2 DEF Steps, ChainMove
<1> QED BY <1>1, <1>2

LEMMA FailedBelowStep ==
  ASSUME IInv, FailedBelow(Keys), RowsHeld, Steps
  PROVE  FailedBelow(Keys)'
<1> SUFFICES ASSUME NEW k \in Keys, NEW j \in Keys,
                    k[1] = j[1], k[2] < j[2], nodeRun'[j] # "absent"
             PROVE  nodeRun'[k] = "failed"
  BY DEF FailedBelow
<1>1. k[2] \in Nat /\ j[2] \in Nat /\ k = <<k[1], k[2]>> /\ j = <<j[1], j[2]>> /\ k # j
      /\ j[2] \in Attempts
  BY Constants
<1>2. CASE nodeRun[j] # "absent"
  <2>1. nodeRun[k] = "failed"
    BY <1>2 DEF FailedBelow
  <2>2. ~ IsLatest(k)
    BY <1>1, <1>2 DEF IsLatest
  <2>3. ~ \E c \in Chains : pc[c] = "gate" /\ k = at[c]
    BY <2>1 DEF RowsHeld
  <2> QED BY <2>1, <2>2, <2>3 DEF Steps, RowStep, Same, Created, Finished, Raised, Resolved
<1>3. CASE nodeRun[j] = "absent"
  <2> DEFINE r == at[TransitionChain]
  <2>1. /\ r \in Keys /\ IsLatest(r) /\ r[1] = j[1] /\ k[2] <= r[2] /\ r[2] < j[2]
        /\ pc[TransitionChain] = "retry"
        /\ \A i \in Keys : i # j => Same(i)
    BY <1>3, AppearsAbove
  <2>2. nodeRun[r] = "failed" /\ r[2] \in Nat /\ r = <<r[1], r[2]>>
    BY <2>1, Constants DEF RowsHeld
  <2>3. nodeRun[k] = "failed"
    <3>1. CASE k[2] = r[2]
      BY <1>1, <2>1, <2>2, <3>1
    <3>2. CASE k[2] < r[2]
      BY <2>1, <2>2, <3>2 DEF FailedBelow
    <3> QED BY <1>1, <2>1, <2>2, <3>1, <3>2
  <2> QED BY <1>1, <2>1, <2>3 DEF Same
<1> QED BY <1>2, <1>3

LEMMA LoopStep ==
  ASSUME IInv, RowsHeld, LoopInv, Steps
  PROVE  LoopInv'
<1> SUFFICES ASSUME NEW c \in Chains, NEW i \in DOMAIN frames'[c], NEW n \in frames'[c][i]
             PROVE  CanBegin(n)'
  BY DEF LoopInv
<1>1. /\ frames[c] \in Seq(SUBSET Nodes)
      /\ \A j \in DOMAIN frames[c] : frames[c][j] \subseteq Nodes
  <2>1. frames[c] \in Seq(SUBSET Nodes)
    BY DEF IInv, TypeOK
  <2> QED BY <2>1
<1>2. ASSUME NEW j \in DOMAIN frames[c], n \in frames[c][j]
      PROVE  CanBegin(n)'
  BY <1>1, <1>2, CanBeginKept DEF LoopInv
<1>3. CASE frames'[c] = frames[c]
  BY <1>2, <1>3
<1>4. CASE frames'[c] = <<>>
  BY <1>4
<1>5. CASE frames'[c] = Tail(frames[c]) /\ frames[c] # <<>>
  BY <1>1, <1>2, <1>5, PoppedFrame
<1>6. ASSUME NEW m \in Nodes, Taken(c, m)
      PROVE  CanBegin(n)'
  <2>1. PICK R \in SUBSET Nodes, outer \in Seq(SUBSET Nodes) :
          /\ m \in R /\ frames'[c] = <<R \ {m}>> \o outer
          /\ \/ R = Ready /\ outer = frames[c]
             \/ frames[c] # <<>> /\ R = Head(frames[c]) /\ outer = Tail(frames[c])
    BY <1>6, Zenon DEF Taken
  <2>3. R \ {m} \in SUBSET Nodes
    OBVIOUS
  <2>4. \/ i = 1 /\ frames'[c][i] = R \ {m}
        \/ i - 1 \in DOMAIN outer /\ frames'[c][i] = outer[i - 1]
    BY <2>1, <2>3, PushedFrame
  <2>5. CASE R = Ready /\ outer = frames[c]
    <3>1. CASE n \in R
      BY <2>5, <3>1, ReadyCanBegin, CanBeginKept
    <3>2. CASE i - 1 \in DOMAIN outer /\ n \in outer[i - 1]
      BY <1>2, <2>5, <3>2
    <3> QED BY <2>4, <3>1, <3>2
  <2>6. CASE frames[c] # <<>> /\ R = Head(frames[c]) /\ outer = Tail(frames[c])
    <3>1. CASE n \in R
      BY <1>1, <1>2, <2>6, <3>1, TopFrame
    <3>2. CASE i - 1 \in DOMAIN outer /\ n \in outer[i - 1]
      BY <1>1, <1>2, <2>6, <3>2, PoppedFrame
    <3> QED BY <2>4, <3>1, <3>2
  <2> QED BY <2>1, <2>5, <2>6
<1>7. Stays(c) \/ frames'[c] = <<>> \/ FramesMove(c)
  BY DEF Steps, ChainMove
<1> QED BY <1>3, <1>4, <1>5, <1>6, <1>7 DEF Stays, FramesMove

LEMMA NodeAfterPredsStep ==
  ASSUME IInv, RowsHeld, LoopInv, NodeAfterPreds, Steps
  PROVE  NodeAfterPreds'
<1> SUFFICES ASSUME NEW n \in Nodes, Kind[n] # "trigger", Handled(n)', NEW p \in Pred[n]
             PROVE  LatestIn(p, DoneStatuses)'
  BY DEF NodeAfterPreds
<1>1. p \in Nodes /\ TypeOK /\ TransitionChain \in Chains
  BY GraphAssumption, Constants DEF IInv
<1>2. CASE Handled(n)
  BY <1>1, <1>2, DoneNodeKept DEF NodeAfterPreds
<1>3. CASE CanBegin(n)
  BY <1>1, <1>3, DoneNodeKept DEF CanBegin
<1>4. CASE ~ Handled(n)
  <2>1. PICK a \in Attempts : nodeRun'[<<n, a>>] # "absent"
    BY DEF Handled
  <2> DEFINE k == <<n, a>>
  <2>2. k \in Keys /\ k[1] = n /\ nodeRun[k] = "absent"
    BY <1>4, <2>1 DEF Keys, Handled
  <2>3. Origin(k)
    BY <2>1, <2>2 DEF Steps, RowStep, Same, Finished, Raised, Resolved
  <2>4. CASE k[1] \in Ready
    BY <1>3, <2>2, <2>4, ReadyCanBegin
  <2>5. CASE \E c \in Chains : pc[c] = "loop" /\ frames[c] # <<>> /\ k[1] \in Head(frames[c])
    <3>1. PICK c \in Chains : frames[c] # <<>> /\ n \in Head(frames[c])
      BY <2>2, <2>5
    <3>2. frames[c] \in Seq(SUBSET Nodes)
      BY <1>1 DEF TypeOK
    <3> QED BY <1>3, <3>1, <3>2, TopFrame DEF LoopInv
  <2>6. CASE pc[TransitionChain] = "retry" /\ k[1] = at[TransitionChain][1]
    <3>1. at[TransitionChain] \in Keys /\ nodeRun[at[TransitionChain]] # "absent"
      BY <1>1, <2>6 DEF TypeOK, IInv, RetryInv
    <3> QED BY <1>4, <2>2, <2>6, <3>1, Constants DEF Handled
  <2>7. k # <<Trigger, 1>>
    BY <2>2, GraphAssumption
  <2> QED BY <2>2, <2>3, <2>4, <2>5, <2>6, <2>7 DEF Origin
<1> QED BY <1>2, <1>4

\* Every step keeps it.
LEMMA AdapterStep ==
  ASSUME ~ PortYields, IInv, AdapterInv, Steps
  PROVE  AdapterInv'
BY AloneStep, FailedBelowStep, RowsHeldStep, LoopStep, NodeAfterPredsStep DEF AdapterInv

(* With the shipped adapter only one chain is ever under way, and it finds *)
(* what it left: no attempt above a row it holds, no predecessor undone.   *)
THEOREM AdapterInvariance ==
  ASSUME ~ PortYields
  PROVE  Spec => []AdapterInv
<1>1. Init => AdapterInv
  <2>1. Init => Alone /\ RowsHeld
    BY DEF Init, Alone, RowsHeld
  <2>2. Init => FailedBelow(Keys) /\ NodeAfterPreds
    BY DEF Init, FailedBelow, NodeAfterPreds, Handled, Keys
  <2>3. Init => LoopInv
    BY DEF Init, LoopInv
  <2> QED BY <2>1, <2>2, <2>3 DEF AdapterInv
<1>2. IInv /\ AdapterInv /\ [Next]_vars => AdapterInv'
  BY NextSteps, AdapterStep
<1> QED BY <1>1, <1>2, Invariance, PTL DEF Spec

(* With the shipped adapter, for every graph, caller and number of faults: *)
(* a node has a row only when all its predecessors are done.               *)
THEOREM NodesInOrder ==
  ASSUME ~ PortYields
  PROVE  Spec => []NodeAfterPreds
<1>1. AdapterInv => NodeAfterPreds
  BY DEF AdapterInv
<1> QED BY <1>1, AdapterInvariance, PTL

(* No step undoes done work, for every graph, caller, port behaviour and   *)
(* number of faults: whoever resolves, finishes or fails a row has found   *)
(* it unsettled, but for the chain that posts the card of a gate.          *)
THEOREM DoneStaysDone == Spec => DoneIsFinal
<1>1. IInv /\ [Next]_vars =>
        [\A k \in Keys : nodeRun[k] \in DoneStatuses /\ ~ Suspended(k, {"gate"})
           => nodeRun'[k] \in DoneStatuses]_vars
  BY NextSteps, DoneRowKept
<1> QED BY <1>1, Invariance, PTL DEF Spec, DoneIsFinal

(* With the shipped adapter that chain finds the gate as its dispatch left *)
(* it, so that done work stays done without exception.                     *)
THEOREM CardsAreInTime ==
  ASSUME ~ PortYields
  PROVE  Spec => [](\A k \in Keys : nodeRun[k] \in DoneStatuses => ~ Suspended(k, {"gate"}))
<1>1. AdapterInv => \A k \in Keys : nodeRun[k] \in DoneStatuses => ~ Suspended(k, {"gate"})
  BY DEF AdapterInv, RowsHeld, Suspended, DoneStatuses
<1> QED BY <1>1, AdapterInvariance, PTL

-----------------------------------------------------------------------------
(* What the run panel offers is there to act on. *)

\* An awaiting run has an open gate; a paused one has a failure, another than the
\* one a retry is about to follow.
PanelInv ==
  /\ runStatus = "awaiting_approval" =>
       pc[TransitionChain] # "retry" /\ LatestWith("awaiting_approval") # {}
  /\ runStatus = "paused" =>
       \E j \in LatestWith("failed") :
         pc[TransitionChain] = "retry" => j[1] # at[TransitionChain][1]

\* Under FailedBelow, a row that has not failed is the latest.
LEMMA UnfailedIsLatest ==
  ASSUME FailedBelow(Keys), NEW k \in Keys, nodeRun[k] \notin {"absent", "failed"}
  PROVE  IsLatest(k)
<1>1. k[1] \in Nodes /\ k[2] \in Attempts /\ k = <<k[1], k[2]>> /\ Attempts \subseteq Nat
  BY Constants
<1>2. ASSUME NEW b \in Attempts, b > k[2], nodeRun[<<k[1], b>>] # "absent"
      PROVE  FALSE
  <2> DEFINE j == <<k[1], b>>
  <2>1. j \in Keys /\ j[1] = k[1] /\ j[2] = b /\ k[2] < b
    BY <1>1, <1>2 DEF Keys
  <2> QED BY <1>2, <2>1 DEF FailedBelow
<1> QED BY <1>2 DEF IsLatest

\* A latest row stays the latest unless a retry of its node is under way.
LEMMA LatestKept ==
  ASSUME IInv, Steps, NEW k \in Keys, IsLatest(k),
         pc[TransitionChain] = "retry" => at[TransitionChain][1] # k[1]
  PROVE  IsLatest(k)'
<1>1. TypeOK /\ k[1] \in Nodes /\ k[2] \in Attempts /\ Attempts \subseteq Nat
  BY Constants DEF IInv
<1>2. ASSUME NEW b \in Attempts, b > k[2], nodeRun'[<<k[1], b>>] # "absent"
      PROVE  FALSE
  <2> DEFINE j == <<k[1], b>>
  <2>1. j \in Keys /\ j[1] = k[1] /\ j[2] = b /\ nodeRun[j] = "absent" /\ k[2] < j[2]
    BY <1>1, <1>2 DEF Keys, IsLatest
  <2> HIDE DEF j
  <2>2. nodeRun'[j] # "absent"
    BY <1>2 DEF j
  <2> QED BY <2>1, <2>2, AppearsAbove
<1>3. nodeRun'[k] # "absent"
  BY <1>1, RowsRemain DEF IsLatest
<1> QED BY <1>2, <1>3 DEF IsLatest

\* A retry that is under way after the step was so before it, or has just set the
\* run running.
LEMMA RetryUnderWay ==
  ASSUME Steps, pc'[TransitionChain] = "retry", runStatus' # "running"
  PROVE  pc[TransitionChain] = "retry" /\ at'[TransitionChain] = at[TransitionChain]
BY Constants DEF Steps, ChainMove, Stays

\* Every step keeps it.
LEMMA PanelStep ==
  ASSUME UiOnly, ~ PortYields, IInv, AdapterInv, PanelInv, Steps
  PROVE  PanelInv'
<1>0. TypeOK /\ TransitionChain \in Chains /\ \A c \in Chains : at[c] \in Keys
  <2>1. TypeOK /\ TransitionChain \in Chains
    BY Constants DEF IInv
  <2> QED BY <2>1 DEF TypeOK
<1>1. CASE runStatus' = "awaiting_approval" /\ runStatus = "awaiting_approval"
  <2>1. pc[TransitionChain] # "retry" /\ pc'[TransitionChain] # "retry"
    BY <1>1, RetryUnderWay DEF PanelInv
  <2>2. PICK j \in Keys : IsLatest(j) /\ nodeRun[j] = "awaiting_approval"
    BY <1>1 DEF PanelInv, LatestWith
  <2>3. nodeRun'[j] = "awaiting_approval"
    BY <1>1, <2>2 DEF Steps, RowStep, Same, Created, Finished, Raised
  <2>4. IsLatest(j)'
    BY <2>1, <2>2, LatestKept
  <2> QED BY <1>1, <2>1, <2>3, <2>4 DEF PanelInv, LatestWith
<1>2. CASE runStatus' = "awaiting_approval" /\ runStatus # "awaiting_approval"
  <2>1. PICK c \in Chains, k \in Keys :
          pc[c] = "gate" /\ k = at[c] /\ nodeRun'[k] = "awaiting_approval"
    BY <1>0, <1>2 DEF Steps, StatusStep
  <2>2. pc[TransitionChain] # "retry" /\ pc'[TransitionChain] # "retry"
    BY <1>0, <1>2, <2>1, RetryUnderWay DEF AdapterInv, Alone
  <2>3. nodeRun[k] = "awaiting_approval"
    BY <2>1 DEF AdapterInv, RowsHeld
  <2>4. IsLatest(k)'
    BY <2>2, <2>3, UnfailedIsLatest, LatestKept DEF AdapterInv
  <2> QED BY <1>2, <2>1, <2>2, <2>4 DEF PanelInv, LatestWith
<1>3. CASE runStatus' = "paused" /\ runStatus = "paused"
  <2>1. PICK j \in Keys : /\ IsLatest(j) /\ nodeRun[j] = "failed"
                          /\ pc[TransitionChain] = "retry" => j[1] # at[TransitionChain][1]
    BY <1>3 DEF PanelInv, LatestWith
  <2>2. ~ \E c \in Chains : pc[c] = "gate" /\ j = at[c]
    BY <2>1 DEF AdapterInv, RowsHeld
  <2>3. nodeRun'[j] = "failed"
    BY <1>3, <2>1, <2>2 DEF Steps, RowStep, Same, Created, Finished
  <2>4. IsLatest(j)'
    BY <2>1, LatestKept
  <2> QED BY <1>3, <2>1, <2>3, <2>4, RetryUnderWay DEF PanelInv, LatestWith
<1>4. CASE runStatus' = "paused" /\ runStatus # "paused" /\ \E k \in Keys : Finished(k) /\ nodeRun'[k] = "failed"
  <2>1. PICK k \in Keys : Finished(k) /\ nodeRun'[k] = "failed"
    BY <1>4
  <2>2. IsLatest(k) /\ k[1] \in Nodes /\ k[2] \in Attempts /\ k = <<k[1], k[2]>>
    BY <2>1, UnfailedIsLatest, Constants DEF Finished, AdapterInv
  <2>3. pc[TransitionChain] = "retry" => at[TransitionChain][1] # k[1]
    <3> SUFFICES ASSUME pc[TransitionChain] = "retry", at[TransitionChain][1] = k[1] PROVE FALSE
      OBVIOUS
    <3> DEFINE r == at[TransitionChain]
    <3>1. /\ r \in Keys /\ IsLatest(r) /\ nodeRun[r] = "failed"
          /\ r = <<k[1], r[2]>> /\ r[2] \in Attempts
      BY <1>0, Constants DEF IInv, RetryInv, AdapterInv, RowsHeld
    <3>2. r[2] = k[2]
      BY <1>0, <2>2, <3>1, LatestUnique
    <3> QED BY <2>1, <2>2, <3>1, <3>2 DEF Finished
  <2>4. IsLatest(k)'
    BY <2>2, <2>3, LatestKept
  <2>5. pc'[TransitionChain] = "retry" => k[1] # at'[TransitionChain][1]
    BY <1>4, <2>3, RetryUnderWay
  <2> QED BY <1>4, <2>1, <2>4, <2>5 DEF PanelInv, LatestWith
<1>5. CASE /\ runStatus' = "paused" /\ Calm /\ runStatus = "awaiting_approval"
           /\ ResolveGates("failed")
  <2>1. PICK j \in Keys : j \in LatestWith("awaiting_approval") /\ IsLatest(j)
    BY <1>5 DEF PanelInv, LatestWith
  <2>2. nodeRun'[j] = "failed"
    BY <1>5, <2>1 DEF ResolveGates
  <2>3. pc[TransitionChain] # "retry" /\ pc'[TransitionChain] # "retry"
    BY <1>0, <1>5, RetryUnderWay DEF PanelInv
  <2>4. IsLatest(j)'
    BY <2>1, <2>3, LatestKept
  <2> QED BY <1>5, <2>2, <2>3, <2>4 DEF PanelInv, LatestWith
<1>6. CASE runStatus' \notin {"awaiting_approval", "paused"}
  BY <1>6 DEF PanelInv
<1> QED BY <1>1, <1>2, <1>3, <1>4, <1>5, <1>6 DEF Steps, StatusStep

(* With the shipped adapter, and calls made only where the run panel offers *)
(* them: a run that awaits an approval has an open gate, and a paused one a *)
(* failed node to retry or skip.                                            *)
THEOREM StuckIsActionable ==
  ASSUME UiOnly, ~ PortYields
  PROVE  Spec => []StuckRunIsActionable
<1>1. Init => PanelInv
  BY DEF Init, PanelInv
<1>2. IInv /\ AdapterInv /\ PanelInv /\ [Next]_vars => PanelInv'
  BY NextSteps, PanelStep
<1>3. PanelInv => StuckRunIsActionable
  BY DEF PanelInv, StuckRunIsActionable
<1> QED BY <1>1, <1>2, <1>3, Invariance, AdapterInvariance, PTL DEF Spec

-----------------------------------------------------------------------------
(* The engine keeps the promise of WorkflowPromise. *)

Begun == {n \in Nodes : Handled(n)}
Done == {n \in Nodes : LatestIn(n, DoneStatuses)}
Complete == runStatus = "completed"

\* What is done was begun, stays done, and what was begun stays begun.
LEMMA ProgressKept ==
  ASSUME IInv, RowsHeld, Steps
  PROVE  /\ Done \subseteq Begun /\ Done \subseteq Done' /\ Done' \subseteq Begun'
         /\ Begun \subseteq Begun'
<1>1. TypeOK
  BY DEF IInv
<1>2. Done \subseteq Begun /\ Done' \subseteq Begun'
  BY DEF Done, Begun, LatestIn, IsLatest, Handled
<1>3. Done \subseteq Done'
  BY DoneNodeKept DEF Done
<1>4. Begun \subseteq Begun'
  BY <1>1, RowsRemain DEF Begun, Handled, Keys
<1> QED BY <1>2, <1>3, <1>4

\* The run completes with all its nodes done, or its completion does not change.
LEMMA CompleteStep ==
  ASSUME UiOnly, IInv, AdapterInv, Steps
  PROVE  Complete' = Complete \/ (Complete' /\ Done = Nodes /\ UNCHANGED nodeRun)
<1>1. TypeOK /\ CompletedMeansAllDone /\ \A c \in Chains : at[c] \in Keys
  BY DEF IInv, TypeOK
<1>2. ASSUME NEW k \in Keys, nodeRun[k] \in {"pending", "running", "awaiting_approval"}
      PROVE  runStatus # "completed"
  BY <1>1, <1>2, UnfailedIsLatest, UnfinishedNode DEF AdapterInv, DoneStatuses
<1>3. CASE runStatus' = "completed" /\ AllDone /\ UNCHANGED nodeRun
  BY <1>3 DEF AllDone, Done, Complete
<1>4. CASE runStatus' = "paused" /\ \E k \in Keys : Finished(k)
  BY <1>2, <1>4 DEF Finished, Complete
<1>5. CASE runStatus' = "awaiting_approval" /\ \E c \in Chains : pc[c] = "gate"
  BY <1>1, <1>2, <1>5 DEF AdapterInv, RowsHeld, Complete
<1> QED BY <1>3, <1>4, <1>5 DEF Steps, StatusStep, Complete

\* A node that is begun may begin: the trigger first, another after its predecessors.
LEMMA BeginStep ==
  ASSUME UiOnly, IInv, AdapterInv, Steps, Begun' # Begun
  PROVE  /\ Complete' = Complete
         /\ Promise!Start \/ \E n \in Nodes : Promise!Begin(n)
<1>1. /\ TypeOK /\ TransitionChain \in Chains
      /\ Begun \subseteq Begun' /\ Done \subseteq Done' /\ Done' \subseteq Begun'
      /\ Done \subseteq Begun
  BY ProgressKept, Constants DEF IInv, AdapterInv
<1>2. PICK n \in Nodes : ~ Handled(n) /\ Handled(n)'
  BY <1>1 DEF Begun
<1>3. PICK a \in Attempts : nodeRun'[<<n, a>>] # "absent"
  BY <1>2 DEF Handled
<1> DEFINE k == <<n, a>>
<1>4. k \in Keys /\ k[1] = n /\ k[2] = a /\ nodeRun[k] = "absent"
  BY <1>2, <1>3 DEF Keys, Handled
<1>5. Origin(k) /\ \A j \in Keys : j # k => Same(j)
  BY <1>3, <1>4 DEF Steps, RowStep, Same, Finished, Raised, Resolved
<1>6. \A m \in Nodes : m # n => (Handled(m)' <=> Handled(m))
  BY <1>4, <1>5 DEF Handled, Same, Keys
<1>7. Begun' = Begun \cup {n} /\ n \notin Begun
  BY <1>2, <1>6 DEF Begun
<1>8. \A m \in Nodes : m # n => (LatestIn(m, DoneStatuses)' <=> LatestIn(m, DoneStatuses))
  BY <1>4, <1>5 DEF LatestIn, IsLatest, Same, Keys
<1>9. Done' \in {Done, Done \cup {n}}
  <2>1. n \notin Done' => Done' = Done
    BY <1>1, <1>7, <1>8 DEF Done
  <2>2. n \in Done' => Done' = Done \cup {n}
    BY <1>1, <1>8 DEF Done
  <2> QED BY <2>1, <2>2
<1>10. nodeRun' # nodeRun
  BY <1>3, <1>4
<1>11. Complete' = Complete
  BY <1>10, CompleteStep
<1>12. CASE k = <<Trigger, 1>> /\ runStatus = "none"
  <2>1. Begun = {} /\ Done = {}
    BY <1>1, <1>12 DEF IInv, FreshInv, Begun, Handled, Keys
  <2>2. nodeRun'[k] = "completed"
    <3>1. Created(k)
      BY <1>3, <1>4 DEF Steps, RowStep, Same, Finished, Raised, Resolved
    <3> QED BY <1>4, <1>12, <3>1, GraphAssumption DEF Created, FirstStatus
  <2>3. IsLatest(k)'
    <3>1. ASSUME NEW b \in Attempts, b > a
          PROVE  nodeRun'[<<n, b>>] = "absent"
      <4>1. nodeRun[<<n, b>>] = "absent"
        BY <1>2 DEF Handled
      <4>2. <<n, b>> \in Keys /\ <<n, b>> # k
        BY <3>1, Constants DEF Keys
      <4> QED BY <1>5, <4>1, <4>2 DEF Same
    <3> QED BY <1>3, <1>4, <3>1 DEF IsLatest
  <2>4. n \in Done'
    BY <2>2, <2>3 DEF Done, LatestIn, DoneStatuses
  <2>5. n = Trigger
    BY <1>12
  <2> QED BY <1>7, <1>9, <1>11, <2>1, <2>4, <2>5 DEF Promise!Start, Begun, Done, Complete
<1>13. CASE CanBegin(n) /\ runStatus = "running"
  <2>1. Pred[n] # {} /\ Pred[n] \subseteq Done /\ ~ Complete
    BY <1>13, GraphAssumption DEF CanBegin, Done, Complete
  <2> QED BY <1>7, <1>9, <1>11, <2>1 DEF Promise!Begin, Begun, Done, Complete
<1>14. CASE n \in Ready /\ runStatus = "running"
  BY <1>13, <1>14, ReadyCanBegin
<1>15. CASE \E c \in Chains : frames[c] # <<>> /\ n \in Head(frames[c]) /\ runStatus = "running"
  <2>1. PICK c \in Chains : frames[c] # <<>> /\ n \in Head(frames[c])
    BY <1>15
  <2>2. frames[c] \in Seq(SUBSET Nodes)
    BY <1>1 DEF TypeOK
  <2> QED BY <1>13, <1>15, <2>1, <2>2, TopFrame DEF AdapterInv, LoopInv
<1>16. CASE pc[TransitionChain] = "retry" /\ n = at[TransitionChain][1]
  <2>1. at[TransitionChain] \in Keys /\ nodeRun[at[TransitionChain]] # "absent"
    BY <1>1, <1>16 DEF TypeOK, IInv, RetryInv
  <2> QED BY <1>2, <1>16, <2>1, Constants DEF Handled
<1> QED BY <1>4, <1>5, <1>12, <1>14, <1>15, <1>16 DEF Origin

\* Every step is one of the promise's, or none of its concern.
LEMMA PromiseStep ==
  ASSUME UiOnly, IInv, AdapterInv, Steps
  PROVE  [Promise!Next]_<<Begun, Done, Complete>>
<1>1. /\ Begun \subseteq Begun' /\ Done \subseteq Done' /\ Done' \subseteq Begun'
      /\ Done \subseteq Begun
  BY ProgressKept DEF AdapterInv
<1>2. CASE Begun' # Begun
  BY <1>2, BeginStep DEF Promise!Next
<1>3. CASE Begun' = Begun /\ Complete' = Complete
  <2>1. CASE Done' = Done
    BY <1>3, <2>1
  <2>2. CASE Done' # Done
    <3> DEFINE S == Done' \ Done
    <3>1. S \in SUBSET (Begun \ Done) /\ S # {} /\ Done' = Done \cup S
      BY <1>1, <1>3, <2>2
    <3>2. Promise!Finish
      BY <1>3, <3>1 DEF Promise!Finish, Begun, Done, Complete
    <3> QED BY <3>2 DEF Promise!Next
  <2> QED BY <2>1, <2>2
<1>4. CASE Begun' = Begun /\ Complete' # Complete
  <2>1. Complete' /\ Done = Nodes /\ UNCHANGED nodeRun
    BY <1>4, CompleteStep
  <2>2. Done' = Done
    BY <2>1 DEF Done, LatestIn, IsLatest
  <2>3. Promise!Announce
    BY <1>4, <2>1, <2>2 DEF Promise!Announce, Begun, Done, Complete
  <2> QED BY <2>3 DEF Promise!Next
<1> QED BY <1>2, <1>3, <1>4

(* With the shipped adapter, and calls made only where the run panel offers *)
(* them, the engine implements WorkflowPromise: a node begins once and when *)
(* what it depends on is done, stays done, and a run that is announced      *)
(* complete is, for good.                                                   *)
THEOREM EngineKeepsPromise ==
  ASSUME UiOnly, ~ PortYields
  PROVE  Spec => PromiseKept
<1>1. Init => Promise!Init
  <2> SUFFICES ASSUME Init PROVE Promise!Init
    OBVIOUS
  <2>1. \A n \in Nodes : ~ Handled(n)
    BY DEF Init, Handled, Keys
  <2>2. \A n \in Nodes : ~ LatestIn(n, DoneStatuses)
    BY <2>1 DEF LatestIn, IsLatest, Handled
  <2>3. runStatus # "completed"
    BY DEF Init
  <2> QED BY <2>1, <2>2, <2>3 DEF Promise!Init
<1>2. IInv /\ AdapterInv /\ [Next]_vars => [Promise!Next]_<<Begun, Done, Complete>>
  BY NextSteps, PromiseStep
<1> QED BY <1>1, <1>2, Invariance, AdapterInvariance, PTL
        DEF Spec, PromiseKept, Promise!Spec, Begun, Done, Complete
=============================================================================
