--------------------------- MODULE WorkflowEngine ---------------------------
(***************************************************************************)
(* The workflow engine of packages/orchestrator/src/services/              *)
(* workflow-engine.ts: one workflow run, the rows it keeps for every       *)
(* attempt at a node, the agent runs it spawns, and every call that can    *)
(* touch it: startRun, the run-completed hook, workflow.advance, the five  *)
(* transitions and the scheduler's safety sweep.  Runs never share state,  *)
(* so one run stands for all of them.                                      *)
(*                                                                         *)
(* The engine is asynchronous JavaScript.  A call is a CHAIN of slices:    *)
(* the code between two awaits runs without interruption and is one action *)
(* here; pc[c] is the await at which chain c is suspended.  Consecutive    *)
(* awaits with no engine state read or written between them are one await. *)
(* When PortYields holds, anything may happen at an await, which is the    *)
(* contract of the WorkflowEffects port.  When it does not, the module     *)
(* models the shipped adapter (workflow-effects-live.ts), whose methods    *)
(* resolve without leaving the microtask queue: a chain then runs to its   *)
(* end before the next outside event, and only a child run that fails      *)
(* before its first I/O and the death of the process can come in between.  *)
(***************************************************************************)
EXTENDS Integers, Sequences, FiniteSets

CONSTANTS
  Nodes,        \* the main-flow nodes of the graph snapshot
  Trigger,      \* its trigger node
  Kind,         \* node -> kind
  Pred,         \* node -> sources of its incoming main edges
  MaxAttempts,  \* bound on the attempts at a node: Retry stops there
  Tokens,       \* idempotency keys
  KeysFor,      \* transition -> the keys its callers send with it; the panel
                \* sends one key per run and action (use-workflows.ts)
  UiOnly,       \* TRUE: callers issue a transition only where the run panel offers it
  PortYields,   \* TRUE: other events may run at every await (see above)
  MaxFaults     \* bound on process crashes and port exceptions

Kinds == {"trigger", "agent", "approval", "goal_handoff", "output"}
Transitions == {"approve", "reject", "abort", "retry", "skip"}

(* What validateWorkflowGraph accepts: one trigger and no cycle.  It does  *)
(* not ask that every node be reachable.                                   *)
ASSUME GraphAssumption ==
  /\ Trigger \in Nodes
  /\ Kind \in [Nodes -> Kinds]
  /\ \A n \in Nodes : Kind[n] = "trigger" <=> n = Trigger
  /\ Pred \in [Nodes -> SUBSET Nodes]
  /\ \A S \in SUBSET Nodes : S # {} => \E n \in S : Pred[n] \cap S = {}

ASSUME BoundAssumption ==
  /\ MaxAttempts \in Nat \ {0}
  /\ MaxFaults \in Nat
  /\ KeysFor \in [Transitions -> SUBSET Tokens]
  /\ UiOnly \in BOOLEAN /\ PortYields \in BOOLEAN

Attempts == 1 .. MaxAttempts
Keys == Nodes \X Attempts      \* UNIQUE (workflow_run_id, node_id, attempt)

RunStatuses == {"none", "running", "awaiting_approval", "paused", "completed", "failed"}
RowStatuses == {"absent", "pending", "running", "awaiting_approval",
                "completed", "skipped", "failed"}
ActiveStatuses == {"pending", "running", "awaiting_approval"}
DoneStatuses == {"completed", "skipped"}

(* The agent run behind a node: "requested" until its row in the runs      *)
(* table is saved, "live" in any non-terminal status, "orphan" when the    *)
(* process died under it (its row stays non-terminal and nobody runs it),  *)
(* "aborting" when it was cancelled while its turn was under way, until    *)
(* the turn is over, "failed" when it has failed or was cancelled.         *)
ChildStatuses == {"none", "requested", "live", "orphan", "aborting", "completed", "failed"}
ChildTerminal == {"aborting", "completed", "failed"}

StartChain == <<"start", Trigger, 1>>
TransitionChain == <<"transition", Trigger, 1>>   \* transitionTails: one at a time
SweepChain == <<"sweep", Trigger, 1>>             \* tickInFlight: one at a time
Hook(k) == <<"hook", k[1], k[2]>>                 \* run-completed hook of k's child
Chains == {StartChain, TransitionChain, SweepChain} \cup {Hook(k) : k \in Keys}

(* "publish": awaiting, stepRun comes next; "step": about to enter stepRun *)
(* in the same slice; "loop": awaiting inside stepRun's for loop; "listed": *)
(* the sweep has the run on its list and is busy with the runs before it.  *)
Points == {"idle", "publish", "step", "loop", "retry", "spawnfail", "gate",
           "goal", "stat", "listed", "scan"}

VARIABLES
  runStatus,   \* workflow_runs.status
  lastToken,   \* workflow_runs.last_transition_token
  nodeRun,     \* key -> workflow_node_runs.status, or "absent"
  envelope,    \* keys whose row carries an outputJson saved by workflow.advance
  file,        \* keys whose agent has written the output file of its node
  childRun,    \* key -> status of the agent run with the row's child_run_id
  pc, at,      \* chain -> its await, and the key it is working on
  frames,      \* chain -> one set of nodes still to dispatch per open stepRun
  todo, recovered,  \* the sweep's list of rows to check, and its flag
  rejected,    \* a call of the engine has ended with a UNIQUE violation
  faults

rowVars == <<runStatus, nodeRun>>
vars == <<runStatus, lastToken, nodeRun, envelope, file, childRun,
          pc, at, frames, todo, recovered, rejected, faults>>

TypeOK ==
  /\ runStatus \in RunStatuses
  /\ lastToken \in Tokens \cup {"null"}
  /\ nodeRun \in [Keys -> RowStatuses]
  /\ envelope \subseteq Keys
  /\ file \subseteq Keys
  /\ childRun \in [Keys -> ChildStatuses]
  /\ pc \in [Chains -> Points]
  /\ at \in [Chains -> Keys]
  /\ frames \in [Chains -> Seq(SUBSET Nodes)]
  /\ todo \subseteq Keys
  /\ recovered \in BOOLEAN
  /\ rejected \in BOOLEAN
  /\ faults \in 0 .. MaxFaults

Init ==
  /\ runStatus = "none"
  /\ lastToken = "null"
  /\ nodeRun = [k \in Keys |-> "absent"]
  /\ envelope = {}
  /\ file = {}
  /\ childRun = [k \in Keys |-> "none"]
  /\ pc = [c \in Chains |-> "idle"]
  /\ at = [c \in Chains |-> <<Trigger, 1>>]
  /\ frames = [c \in Chains |-> <<>>]
  /\ todo = {}
  /\ recovered = FALSE
  /\ rejected = FALSE
  /\ faults = 0

-----------------------------------------------------------------------------
(* The derived state: latestNodeRuns and what stepRun and maybeComplete    *)
(* make of it.                                                             *)

IsLatest(k) ==
  /\ nodeRun[k] # "absent"
  /\ \A b \in Attempts : b > k[2] => nodeRun[<<k[1], b>>] = "absent"

LatestIn(n, S) == \E a \in Attempts : IsLatest(<<n, a>>) /\ nodeRun[<<n, a>>] \in S

Handled(n) == \E a \in Attempts : nodeRun[<<n, a>>] # "absent"

LatestWith(s) == {k \in Keys : IsLatest(k) /\ nodeRun[k] = s}

\* A definition whose name is another's with a suffix (Ready_AnyPred, here, of
\* Ready) is that operator with a plausible fault in it.  No definition uses it:
\* it is what a property has to tell from the code.
Ready_AnyPred ==
  {n \in Nodes : Kind[n] # "trigger" /\ ~ Handled(n)
                 /\ \E p \in Pred[n] : LatestIn(p, DoneStatuses)}

Ready ==
  {n \in Nodes : /\ Kind[n] # "trigger"
                 /\ ~ Handled(n)
                 /\ Pred[n] # {}
                 /\ \A p \in Pred[n] : LatestIn(p, DoneStatuses)}

AllDone_OfTheDispatched == \A n \in Nodes : Handled(n) => LatestIn(n, DoneStatuses)

AllDone == \A n \in Nodes : LatestIn(n, DoneStatuses)

(* anyActive needs no conjunct of its own: every row belongs to a node of  *)
(* the main flow, so AllDone leaves none active.                           *)
MaybeComplete == runStatus' = IF AllDone THEN "completed" ELSE runStatus

LatestFailed_OrRunning == LatestWith("failed") \cup LatestWith("running")

LatestFailed ==
  {k \in LatestWith("failed") : \A j \in LatestWith("failed") : j[2] <= k[2]}

-----------------------------------------------------------------------------
(* How a chain moves.                                                      *)

Idle == \A c \in Chains : pc[c] = "idle"
Calm == PortYields \/ Idle                           \* an outside event may begin
Turn(c) == \A d \in Chains \ {c} : pc[d] # "step"    \* no other slice is open
BetweenSlices == \A c \in Chains : pc[c] # "step"

Goto(c, p, k, fs) ==
  /\ pc' = [pc EXCEPT ![c] = p]
  /\ at' = [at EXCEPT ![c] = IF p = "idle" THEN <<Trigger, 1>> ELSE k]
  /\ frames' = [frames EXCEPT ![c] = fs]

(* stepRun returns: to the loop of the stepRun around it, else to the      *)
(* caller, which for the sweep is recoverRun.                              *)
Return(c, fs) ==
  LET caller == IF c = SweepChain THEN "scan" ELSE "idle"
  IN  Goto(c, IF fs = <<>> THEN caller ELSE "loop", at[c], fs)

(* After a dispatch stepRun goes on with its loop; the retry of a node     *)
(* goes on to stepRun.                                                     *)
Resume(fs) == IF fs = <<>> THEN "publish" ELSE "loop"

(* An exception leaves the chain where it is thrown.                       *)
Throw(c) == Goto(c, "idle", at[c], <<>>)

(* dispatchNode and the first slice of the dispatchX it selects.  fs holds *)
(* what the enclosing loops still have to dispatch.                        *)
DispatchAgent(c, k, fs) ==
  /\ nodeRun' = [nodeRun EXCEPT ![k] = "running"]
  /\ \/ /\ childRun' = [childRun EXCEPT ![k] = "requested"]
        /\ Goto(c, Resume(fs), k, fs)
     \/ /\ Goto(c, "spawnfail", k, fs)     \* spawnAgentNode rejects
        /\ UNCHANGED childRun

DispatchApproval(c, k, fs) ==
  /\ nodeRun' = [nodeRun EXCEPT ![k] = "awaiting_approval"]
  /\ Goto(c, "gate", k, fs)
  /\ UNCHANGED childRun

DispatchGoalHandoff(c, k, fs) ==
  /\ nodeRun' = [nodeRun EXCEPT ![k] = "pending"]
  /\ Goto(c, "goal", k, fs)
  /\ UNCHANGED childRun

DispatchOutput(c, k, fs) ==
  /\ nodeRun' = [nodeRun EXCEPT ![k] = "completed"]
  /\ Goto(c, "step", k, fs)
  /\ UNCHANGED childRun

DispatchNode(c, k, fs) ==
  IF nodeRun[k] # "absent"
  THEN /\ Throw(c) /\ rejected' = TRUE
       /\ UNCHANGED <<nodeRun, childRun>>
  ELSE /\ UNCHANGED rejected
       /\ \/ Kind[k[1]] = "agent" /\ DispatchAgent(c, k, fs)
          \/ Kind[k[1]] = "approval" /\ DispatchApproval(c, k, fs)
          \/ Kind[k[1]] = "goal_handoff" /\ DispatchGoalHandoff(c, k, fs)
          \/ Kind[k[1]] = "output" /\ DispatchOutput(c, k, fs)

(* The for loop of stepRun over `remaining`, fs being the loops around it. *)
DispatchRest(c, remaining, fs) ==
  \/ /\ remaining = {}
     /\ MaybeComplete
     /\ Return(c, fs)
     /\ UNCHANGED <<nodeRun, childRun, rejected>>
  \/ \E n \in remaining :
       /\ DispatchNode(c, <<n, 1>>, <<remaining \ {n}>> \o fs)
       /\ UNCHANGED runStatus

EngineStep == UNCHANGED <<lastToken, envelope, file, todo, recovered, faults>>

StepRun(c) ==
  /\ pc[c] \in {"publish", "step"} /\ Turn(c)
  /\ IF runStatus = "running"
     THEN DispatchRest(c, Ready, frames[c])
     ELSE Return(c, frames[c]) /\ UNCHANGED <<runStatus, nodeRun, childRun, rejected>>
  /\ EngineStep

(* Back in the loop: "an approval paused the run" ends it.                 *)
Loop(c) ==
  /\ pc[c] = "loop" /\ Turn(c)
  /\ IF runStatus = "running"
     THEN DispatchRest(c, Head(frames[c]), Tail(frames[c]))
     ELSE /\ Return(c, Tail(frames[c]))
          /\ UNCHANGED <<runStatus, nodeRun, childRun, rejected>>
  /\ EngineStep

-----------------------------------------------------------------------------
(* The second slices of the dispatches.                                    *)

FailNode_Swapped(k) ==
  /\ nodeRun' = [nodeRun EXCEPT ![k] = "paused"]
  /\ runStatus' = "failed"

FailNode(k) ==
  /\ nodeRun' = [nodeRun EXCEPT ![k] = "failed"]
  /\ runStatus' = "paused"

Settle(c) == Goto(c, Resume(frames[c]), at[c], frames[c])

SpawnFailed_WhileRunning(c) ==
  /\ pc[c] = "spawnfail" /\ Turn(c)
  /\ IF runStatus = "running" /\ nodeRun[at[c]] \in ActiveStatuses
     THEN FailNode(at[c]) ELSE UNCHANGED rowVars
  /\ Settle(c)
  /\ EngineStep /\ UNCHANGED <<childRun, rejected>>

SpawnFailed(c) ==
  /\ pc[c] = "spawnfail" /\ Turn(c)
  /\ IF nodeRun[at[c]] \in ActiveStatuses THEN FailNode(at[c]) ELSE UNCHANGED rowVars
  /\ Settle(c)
  /\ EngineStep /\ UNCHANGED <<childRun, rejected>>

(* The row is rebuilt from the copy made at dispatch, whatever it became.  *)
GateRaised(c) ==
  /\ pc[c] = "gate" /\ Turn(c)
  /\ nodeRun' = [nodeRun EXCEPT ![at[c]] = "awaiting_approval"]
  /\ runStatus' = "awaiting_approval"
  /\ Settle(c)
  /\ EngineStep /\ UNCHANGED <<childRun, rejected>>

GoalStarted(c) ==
  /\ pc[c] = "goal" /\ Turn(c)
  /\ \/ /\ nodeRun' = [nodeRun EXCEPT ![at[c]] = "completed"]
        /\ UNCHANGED runStatus
     \/ FailNode(at[c])                    \* startGoal rejects
  /\ Settle(c)
  /\ EngineStep /\ UNCHANGED <<childRun, rejected>>

(* The attempts at a node have one output path: a file any of their agents *)
(* has written is what statOutput finds.                                   *)
Produced(k) == k \in envelope \/ \E b \in Attempts : <<k[1], b>> \in file

FinishNode_StaleRow(c) ==
  /\ pc[c] = "stat" /\ Turn(c)
  /\ LET k == at[c]
     IN  \/ /\ Produced(k)
            /\ nodeRun' = [nodeRun EXCEPT ![k] = "completed"]
            /\ Goto(c, "publish", k, <<>>)
            /\ UNCHANGED runStatus
         \/ /\ ~ Produced(k)
            /\ FailNode(k)
            /\ Return(c, <<>>)
  /\ EngineStep /\ UNCHANGED <<childRun, rejected>>

(* onNodeComplete after statOutput, on the row read again.                 *)
FinishNode(c) ==
  /\ pc[c] = "stat" /\ Turn(c)
  /\ LET k == at[c]
     IN  IF nodeRun[k] \notin ActiveStatuses
         THEN Return(c, <<>>) /\ UNCHANGED rowVars
         ELSE \/ /\ Produced(k)
                 /\ nodeRun' = [nodeRun EXCEPT ![k] = "completed"]
                 /\ Goto(c, "publish", k, <<>>)
                 /\ UNCHANGED runStatus
              \/ /\ ~ Produced(k)          \* output_not_written
                 /\ FailNode(k)
                 /\ Return(c, <<>>)
  /\ EngineStep /\ UNCHANGED <<childRun, rejected>>

-----------------------------------------------------------------------------
(* startRun: the run and its completed trigger row in one transaction.     *)
StartRun ==
  /\ runStatus = "none"
  /\ runStatus' = "running"
  /\ nodeRun' = [nodeRun EXCEPT ![<<Trigger, 1>>] = "completed"]
  /\ Goto(StartChain, "publish", <<Trigger, 1>>, <<>>)
  /\ UNCHANGED <<lastToken, envelope, file, childRun, todo, recovered, rejected, faults>>

(* transition: a key equal to the last one changes nothing; the others are *)
(* taken one at a time, in whatever status the run is.                     *)
Offered(action) ==
  runStatus = IF action \in {"approve", "reject"} THEN "awaiting_approval" ELSE "paused"

Transition(action, token) ==
  /\ runStatus # "none"
  /\ UiOnly => Offered(action)
  /\ Calm /\ BetweenSlices /\ pc[TransitionChain] = "idle"
  /\ token \in KeysFor[action] \ {lastToken}
  /\ lastToken' = token
  /\ UNCHANGED <<envelope, file, childRun, todo, recovered, rejected, faults>>

ResolveGates(status) ==
  nodeRun' = [k \in Keys |-> IF k \in LatestWith("awaiting_approval")
                             THEN status ELSE nodeRun[k]]

Then(p, k) == Goto(TransitionChain, p, k, <<>>)

Approve(token) ==
  /\ Transition("approve", token)
  /\ ResolveGates("completed")
  /\ runStatus' = "running"
  /\ Then("publish", at[TransitionChain])

Reject(token) ==
  /\ Transition("reject", token)
  /\ ResolveGates("failed")
  /\ runStatus' = "paused"
  /\ UNCHANGED <<pc, at, frames>>

Abort(token) ==
  /\ Transition("abort", token)
  /\ runStatus' = "failed"
  /\ UNCHANGED <<nodeRun, pc, at, frames>>

Retry_StaysPaused(token) ==
  /\ Transition("retry", token)
  /\ \E k \in LatestFailed :
       /\ k[2] < MaxAttempts
       /\ Then("retry", k)
  /\ UNCHANGED <<runStatus, nodeRun>>

Retry(token) ==
  /\ Transition("retry", token)
  /\ \E k \in LatestFailed :
       /\ k[2] < MaxAttempts
       /\ Then("retry", k)
  /\ runStatus' = "running"
  /\ UNCHANGED nodeRun

RetryDispatch ==
  LET c == TransitionChain
      k == <<at[c][1], at[c][2] + 1>>
  IN  /\ pc[c] = "retry" /\ Turn(c)
      /\ DispatchNode(c, k, <<>>)
      /\ EngineStep /\ UNCHANGED runStatus

Skip(token) ==
  /\ Transition("skip", token)
  /\ \E k \in LatestFailed :
       /\ nodeRun' = [nodeRun EXCEPT ![k] = "skipped"]
       /\ Then("publish", k)
  /\ runStatus' = "running"

-----------------------------------------------------------------------------
(* The agent run behind a node (external to the engine).                   *)

ChildStep == UNCHANGED <<lastToken, todo, recovered, rejected, faults>>

(* createRun saves the row of the run.                                     *)
ChildStarts(k) ==
  /\ childRun[k] = "requested"
  /\ childRun' = [childRun EXCEPT ![k] = "live"]
  /\ ChildStep /\ UNCHANGED <<runStatus, nodeRun, envelope, file, pc, at, frames>>

FailIfActive_UnlessCompleted(k) ==
  IF nodeRun[k] # "completed" THEN FailNode(k) ELSE UNCHANGED rowVars

FailIfActive(k) ==
  IF nodeRun[k] \in ActiveStatuses THEN FailNode(k) ELSE UNCHANGED rowVars

(* createRun rejects (no such member, retired): spawnAgentNode's catch     *)
(* reports it to onNodeComplete.                                           *)
ChildRejected(k) ==
  /\ childRun[k] = "requested" /\ BetweenSlices
  /\ childRun' = [childRun EXCEPT ![k] = "none"]
  /\ FailIfActive(k)
  /\ ChildStep /\ UNCHANGED <<envelope, file, pc, at, frames>>

(* A cancelled turn is signalled to stop, and a tool call that is under    *)
(* way, or a turn nested in it, does not look at the signal.               *)
WriteOutput(k) ==
  /\ childRun[k] \in {"live", "aborting"} /\ Calm /\ BetweenSlices
  /\ file' = file \cup {k}
  /\ ChildStep /\ UNCHANGED <<runStatus, nodeRun, envelope, childRun, pc, at, frames>>

(* advance: a call still under way may land after its run has ended.       *)
Advance(k) ==
  /\ childRun[k] \in {"live", "aborting"} \/ (PortYields /\ childRun[k] = "completed")
  /\ Calm /\ BetweenSlices
  /\ nodeRun[k] \in ActiveStatuses
  /\ envelope' = envelope \cup {k}
  /\ ChildStep /\ UNCHANGED <<runStatus, nodeRun, file, childRun, pc, at, frames>>

(* The run ends: its row is saved and the hook runs to its first await in  *)
(* the same slice (handleAgentRunCompleted, onNodeComplete).               *)
ChildCompletes(k) ==
  /\ childRun[k] = "live" /\ Calm /\ BetweenSlices
  /\ childRun' = [childRun EXCEPT ![k] = "completed"]
  /\ IF nodeRun[k] \in ActiveStatuses
     THEN Goto(Hook(k), "stat", k, <<>>)
     ELSE UNCHANGED <<pc, at, frames>>
  /\ ChildStep /\ UNCHANGED <<runStatus, nodeRun, envelope, file>>

(* A run whose agent cannot be resolved fails before its first I/O.        *)
ChildFails(k) ==
  /\ \/ childRun[k] = "live" /\ Calm
     \/ childRun[k] = "requested"
  /\ BetweenSlices
  /\ childRun' = [childRun EXCEPT ![k] = "failed"]
  /\ FailIfActive(k)
  /\ ChildStep /\ UNCHANGED <<envelope, file, pc, at, frames>>

(* A resume after user input that fails marks the run failed and calls no  *)
(* hook (goal-system.ts).                                                  *)
ChildFailsUnhooked(k) ==
  /\ childRun[k] = "live" /\ Calm /\ BetweenSlices
  /\ childRun' = [childRun EXCEPT ![k] = "failed"]
  /\ ChildStep /\ UNCHANGED <<runStatus, nodeRun, envelope, file, pc, at, frames>>

(* cancelRun, by a person: the row is saved, the turn is told to stop and  *)
(* the hook fails the node, in one slice.  The turn itself goes on.        *)
CancelRun(k) ==
  /\ childRun[k] \in {"live", "orphan"} /\ Calm /\ BetweenSlices
  /\ childRun' = [childRun EXCEPT ![k] = IF @ = "live" THEN "aborting" ELSE "failed"]
  /\ FailIfActive(k)
  /\ ChildStep /\ UNCHANGED <<envelope, file, pc, at, frames>>

(* The cancelled turn is over.  If it calls the hook again, for a status   *)
(* it has saved over the cancellation, it finds the node settled.          *)
TurnStops(k) ==
  /\ childRun[k] = "aborting"
  /\ childRun' = [childRun EXCEPT ![k] = "failed"]
  /\ ChildStep /\ UNCHANGED <<runStatus, nodeRun, envelope, file, pc, at, frames>>

-----------------------------------------------------------------------------
(* sweep and recoverRun.  A run that is not `running` is only reminded of, *)
(* which changes no state of the run.                                      *)

SweepStart ==
  /\ runStatus = "running" /\ Calm /\ BetweenSlices
  /\ pc[SweepChain] = "idle"
  /\ Goto(SweepChain, "listed", at[SweepChain], <<>>)
  /\ UNCHANGED <<runStatus, lastToken, nodeRun, envelope, file, childRun,
                 todo, recovered, rejected, faults>>

(* recoverRun begins, whatever the run has become since it was listed.     *)
RecoverRun ==
  /\ pc[SweepChain] = "listed" /\ Turn(SweepChain)
  /\ todo' = {k \in Keys : nodeRun[k] = "running"}
  /\ recovered' = FALSE
  /\ Goto(SweepChain, "scan", at[SweepChain], <<>>)
  /\ UNCHANGED <<runStatus, lastToken, nodeRun, envelope, file, childRun, rejected, faults>>

SweepChild_CompletedOnly(k) ==
  LET c == SweepChain
  IN  /\ pc[c] = "scan" /\ Turn(c)
      /\ k \in todo
      /\ todo' = todo \ {k}
      /\ recovered' = (recovered \/ childRun[k] = "completed")
      /\ IF childRun[k] = "completed" /\ nodeRun[k] \in ActiveStatuses
         THEN Goto(c, "stat", k, <<>>)
         ELSE UNCHANGED <<pc, at, frames>>
      /\ UNCHANGED rowVars
      /\ UNCHANGED <<lastToken, envelope, file, childRun, rejected, faults>>

(* getRunStatus answered for row k; the engine re-drives onNodeComplete    *)
(* when the child has ended.                                               *)
SweepChild(k) ==
  LET c == SweepChain
  IN  /\ pc[c] = "scan" /\ Turn(c)
      /\ k \in todo
      /\ todo' = todo \ {k}
      /\ recovered' = (recovered \/ childRun[k] \in ChildTerminal)
      /\ IF childRun[k] = "completed" /\ nodeRun[k] \in ActiveStatuses
         THEN Goto(c, "stat", k, <<>>)
         ELSE UNCHANGED <<pc, at, frames>>
      /\ IF childRun[k] \in {"aborting", "failed"} THEN FailIfActive(k) ELSE UNCHANGED rowVars
      /\ UNCHANGED <<lastToken, envelope, file, childRun, rejected, faults>>

SweepStep_NoStep ==
  LET c == SweepChain
  IN  /\ pc[c] = "scan" /\ Turn(c)
      /\ todo = {}
      /\ Goto(c, "idle", at[c], <<>>)
      /\ UNCHANGED <<runStatus, lastToken, nodeRun, envelope, file, childRun,
                     todo, recovered, rejected, faults>>

(* Nothing recovered: stepRun, once.                                       *)
SweepStep ==
  LET c == SweepChain
  IN  /\ pc[c] = "scan" /\ Turn(c)
      /\ todo = {}
      /\ recovered' = ~ recovered
      /\ Goto(c, IF recovered THEN "idle" ELSE "step", at[c], <<>>)
      /\ UNCHANGED <<runStatus, lastToken, nodeRun, envelope, file, childRun,
                     todo, rejected, faults>>

-----------------------------------------------------------------------------
(* Faults.                                                                 *)

(* A port throws where the engine does not catch it: the chain ends there. *)
PortFault(c) ==
  /\ faults < MaxFaults /\ Turn(c)
  /\ pc[c] \in {"publish", "loop", "retry", "gate", "stat", "listed", "scan"}
  /\ faults' = faults + 1
  /\ Throw(c)
  /\ UNCHANGED <<runStatus, lastToken, nodeRun, envelope, file, childRun,
                 todo, recovered, rejected>>

(* The process dies and is started again.  Chains, hooks and requested     *)
(* runs are gone; a live run goes on only if it was waiting for a person;  *)
(* one run may have saved its end and not reached its hook.                *)
Crash ==
  /\ faults < MaxFaults
  /\ runStatus # "none"
  /\ faults' = faults + 1
  /\ \E dead \in SUBSET {k \in Keys : childRun[k] = "live"},
        ended \in {{}} \cup {{k} : k \in {j \in Keys : childRun[j] = "live"}} :
       childRun' = [k \in Keys |->
         CASE childRun[k] = "requested" -> "none"
           [] k \in ended -> "completed"
           [] k \in dead \ ended -> "orphan"
           [] childRun[k] = "aborting" -> "failed"
           [] OTHER -> childRun[k]]
  /\ pc' = [c \in Chains |-> "idle"]
  /\ at' = [c \in Chains |-> <<Trigger, 1>>]
  /\ frames' = [c \in Chains |-> <<>>]
  /\ todo' = {} /\ recovered' = FALSE
  /\ UNCHANGED <<runStatus, lastToken, nodeRun, envelope, file, rejected>>

-----------------------------------------------------------------------------
ChainStep(c) ==
  \/ StepRun(c) \/ Loop(c)
  \/ SpawnFailed(c) \/ GateRaised(c) \/ GoalStarted(c) \/ FinishNode(c)

Command(token) ==
  \/ Approve(token) \/ Reject(token) \/ Abort(token) \/ Retry(token) \/ Skip(token)

ChildNext(k) ==
  \/ ChildStarts(k) \/ ChildRejected(k) \/ WriteOutput(k) \/ Advance(k)
  \/ ChildCompletes(k) \/ ChildFails(k) \/ ChildFailsUnhooked(k)
  \/ CancelRun(k) \/ TurnStops(k)

Next ==
  \/ StartRun
  \/ \E token \in Tokens : Command(token)
  \/ RetryDispatch
  \/ \E c \in Chains : ChainStep(c)
  \/ \E k \in Keys : ChildNext(k)
  \/ SweepStart \/ RecoverRun \/ SweepStep
  \/ \E k \in Keys : SweepChild(k)
  \/ \E c \in Chains : PortFault(c)
  \/ Crash

Spec == Init /\ [][Next]_vars

AgentKeys == {k \in Keys : Kind[k[1]] = "agent"}

(* The event loop resumes every chain; it takes timers and finished I/O in *)
(* the order they fall due, so the scheduler's tick and the end of an      *)
(* agent run, each ready again and again, get their turn.  That agent runs *)
(* end is assumed: the model and tool loop is bounded by its iterations.   *)
Fairness ==
  /\ \A c \in Chains : WF_vars(ChainStep(c))
  /\ WF_vars(RetryDispatch) /\ WF_vars(RecoverRun) /\ WF_vars(SweepStep)
  /\ SF_vars(SweepStart)
  /\ \A k \in AgentKeys : /\ WF_vars(SweepChild(k))
                          /\ WF_vars(ChildStarts(k) \/ ChildRejected(k))
                          /\ SF_vars(ChildCompletes(k) \/ ChildFails(k))

FairSpec == Spec /\ Fairness

-----------------------------------------------------------------------------
(* Properties.                                                             *)

(* A run is `completed` only when the latest attempt at every node is      *)
(* completed or skipped, whatever was retried, clobbered or resolved late. *)
CompletedMeansAllDone ==
  runStatus = "completed" =>
    \A n \in Nodes : \E a \in Attempts :
      IsLatest(<<n, a>>) /\ nodeRun[<<n, a>>] \in DoneStatuses

(* A node with a row has all its predecessors done: no chain dispatches on *)
(* a list of ready nodes that an overlapping call has made stale.          *)
NodeAfterPreds ==
  \A n \in Nodes : (Kind[n] # "trigger" /\ Handled(n)) =>
    \A p \in Pred[n] : LatestIn(p, DoneStatuses)

(* Two agents work on a node only if the earlier one was cancelled and its *)
(* turn is not over: a retry never starts beside an agent that nobody has  *)
(* stopped and that would write the same file.                             *)
AtWork == {"requested", "live", "aborting"}

OneLiveRunPerNode ==
  \A n \in Nodes : \A i, j \in Attempts :
    (i < j /\ childRun[<<n, i>>] \in AtWork /\ childRun[<<n, j>>] \in AtWork)
      => childRun[<<n, i>>] = "aborting"

(* Without a fault a row in progress has somebody who will settle it: an   *)
(* agent at work or one whose failure only the sweep will see, or a chain  *)
(* that comes back from the await at which it was left.  This whatever     *)
(* became of the run, its gates and its other nodes during that await.     *)
Suspended(k, points) == \E c \in Chains : pc[c] \in points /\ at[c] = k

InProgressIsWatched ==
  faults = 0 =>
    \A k \in Keys :
      /\ nodeRun[k] = "pending" => Suspended(k, {"goal"})
      /\ nodeRun[k] = "running" =>
           childRun[k] \in {"requested", "live", "failed"} \/ Suspended(k, {"spawnfail", "stat"})

(* An agent's row is settled once: completed and skipped for good, failed  *)
(* until it is skipped, though hook and sweep may both be finishing it.    *)
AgentRowsFinal ==
  [][\A k \in AgentKeys :
       /\ nodeRun[k] \in DoneStatuses => nodeRun'[k] = nodeRun[k]
       /\ nodeRun[k] = "failed" => nodeRun'[k] \in {"failed", "skipped"}]_vars

(* Done work stays done, whoever calls and whatever resumes.  Only a gate  *)
(* that was approved while its card was still being posted is raised again *)
(* by the chain that posts it.                                             *)
DoneIsFinal ==
  [][\A k \in Keys : nodeRun[k] \in DoneStatuses /\ ~ Suspended(k, {"gate"})
       => nodeRun'[k] \in DoneStatuses]_vars

(* The run panel offers approve and reject for an awaiting run, and retry  *)
(* and skip for a paused one: there is then a row for them to act on.      *)
StuckRunIsActionable ==
  /\ runStatus = "awaiting_approval" => LatestWith("awaiting_approval") # {}
  /\ runStatus = "paused" => LatestWith("failed") # {}

(* The sweep catches every completion whose hook was lost.                 *)
SweepRecovers ==
  \A k \in AgentKeys :
    (runStatus = "running" /\ nodeRun[k] = "running" /\ childRun[k] \in ChildTerminal)
      ~> (runStatus # "running" \/ nodeRun[k] # "running")

(* What a crash, or an exception between two writes, can leave of the node *)
(* a run is at: an agent nobody runs, a goal nobody is starting, a gate or *)
(* a failure the run does not show.                                        *)
Abandoned(k) ==
  /\ IsLatest(k)
  /\ \/ nodeRun[k] = "running" /\ childRun[k] \in {"none", "orphan"}
     \/ nodeRun[k] \in {"pending", "awaiting_approval", "failed"}

(* A running run that has no failure and no gate before it comes to        *)
(* completion, to a gate or to a pause.  After a fault, and only then, it  *)
(* may stall, and only on a node the fault has abandoned: whatever is      *)
(* ready is dispatched, and a run with nothing left to do completes, by    *)
(* the sweep if nothing else.                                              *)
Clear == LatestWith("failed") \cup LatestWith("awaiting_approval") = {}

StallExplained ==
  (runStatus = "running" /\ Clear)
    ~> (runStatus # "running" \/ (faults > 0 /\ \E k \in Keys : Abandoned(k)))

(* The engine keeps the promise of WorkflowPromise.                        *)
Promise == INSTANCE WorkflowPromise WITH
  begun <- {n \in Nodes : Handled(n)},
  done <- {n \in Nodes : LatestIn(n, DoneStatuses)},
  complete <- (runStatus = "completed")

PromiseKept == Promise!Spec

-----------------------------------------------------------------------------
(* What does not hold.                                                     *)

(* A running run of any procedure comes to completion, to a gate or to a   *)
(* pause: it does not stall with nobody asked to do anything.              *)
StallCovered == (runStatus = "running") ~> (runStatus # "running")

(* No engine call ends in a constraint violation: "already dispatched/     *)
(* handled this node" holds of every node stepRun goes on to dispatch.     *)
NoRejection == ~ rejected

-----------------------------------------------------------------------------
(* Why CompletedMeansAllDone holds at any await (WorkflowEngineProofs).    *)

\* Before startRun has saved the run there is nothing to resume, settle or finish.
FreshInv ==
  runStatus = "none" =>
    /\ \A k \in Keys : nodeRun[k] = "absent" /\ childRun[k] = "none"
    /\ \A c \in Chains : pc[c] = "idle"

\* Each unsettled status belongs to one kind of node, each agent run to an agent.
KindInv ==
  \A k \in Keys :
    /\ nodeRun[k] = "running" => Kind[k[1]] = "agent"
    /\ nodeRun[k] = "pending" => Kind[k[1]] = "goal_handoff"
    /\ nodeRun[k] = "awaiting_approval" => Kind[k[1]] = "approval"
    /\ childRun[k] # "none" => Kind[k[1]] = "agent"

\* What a suspended chain may still count on when it resumes.
ChainInv ==
  \A c \in Chains :
    /\ pc[c] \in {"stat", "spawnfail"} => Kind[at[c][1]] = "agent"
    /\ pc[c] = "gate" => Kind[at[c][1]] = "approval" /\ nodeRun[at[c]] # "absent"
    /\ pc[c] = "goal" => nodeRun[at[c]] = "pending"
    /\ pc[c] = "loop" => frames[c] # <<>>
    /\ \A d \in Chains : (pc[c] = "goal" /\ pc[d] = "goal" /\ at[c] = at[d]) => c = d

\* A retry that has not dispatched yet keeps its node unfinished.
RetryInv ==
  pc[TransitionChain] = "retry" =>
    LET k == at[TransitionChain]
    IN  /\ IsLatest(k) /\ k[2] < MaxAttempts
        /\ nodeRun[k] \in {"failed", "awaiting_approval"}

(* The inductive invariant: what else must hold for no step of any chain   *)
(* to unsettle a node of a completed run.                                  *)
IInv ==
  TypeOK /\ FreshInv /\ KindInv /\ ChainInv /\ RetryInv /\ CompletedMeansAllDone
=============================================================================
