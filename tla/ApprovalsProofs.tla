---------------------------- MODULE ApprovalsProofs ----------------------------
(***************************************************************************)
(* For every set of calls, scopes, shapes and crashes, careful answers or   *)
(* not: the state of the approvals is well typed, a call whose own request *)
(* is open does not execute, and the note an answer leaves for a running   *)
(* turn is heard as long as the run has not ended.                         *)
(***************************************************************************)
EXTENDS Approvals, FiniteSetTheorems, TLAPS

\* Calls that have not passed their gate have no row, no step and no execution, and
\* a step that waits has not been executed.
CallsInv ==
    /\ flight \cap unused = {}
    /\ \A c \in flight \cup unused :
          row[c] = "none" /\ step[c] = "none" /\ ran[c] = 0
    /\ \A c \in Calls : step[c] = "waiting" => ran[c] = 0

\* Only a turn under way is registered.
CtrlInv == ctrl # None => exec[ctrl].pc \in InTurn

UInv == TypeOK /\ CallsInv /\ ReplaysAreAnswered /\ CtrlInv

-----------------------------------------------------------------------------
(* Steps that leave the calls alone and move executors only.               *)

ExecType == [pc : {"idle", "resuming"} \cup InTurn, todo : SUBSET Calls,
             batch : SUBSET Calls, aborted : BOOLEAN]

\* An executor that is assigned well-typed fields leaves the table of executors well typed.
LEMMA SlotTypes ==
  /\ Idle \in ExecType /\ Thinking \in ExecType
  /\ Idle.todo = {} /\ Thinking.todo = {}
  /\ Idle.pc = "idle" /\ Thinking.pc = "thinking"
  /\ \A p \in {"idle", "resuming"} \cup InTurn : [Idle EXCEPT !.pc = p] \in ExecType
  /\ \A p \in {"idle", "resuming"} \cup InTurn, t \in SUBSET Calls :
        /\ [Idle EXCEPT !.pc = p, !.todo = t] \in ExecType
        /\ [Idle EXCEPT !.pc = p, !.todo = t].pc = p
        /\ [Idle EXCEPT !.pc = p, !.todo = t].todo = t
BY DEF Idle, Thinking, ExecType, InTurn

\* The initial state.
LEMMA InitUInv == Init => UInv
<1> SUFFICES ASSUME Init PROVE UInv
  OBVIOUS
<1> USE ApprovalsAssumption DEF Init
<1>1. TypeOK
  <2>1. Idle \in ExecType
    BY SlotTypes
  <2>2. 0 \in 0..2 /\ 0 \in 0..MaxCrashes
    OBVIOUS
  <2> QED BY <2>1, <2>2 DEF TypeOK, ExecType, Statuses
<1>2. CallsInv /\ ReplaysAreAnswered /\ CtrlInv
  BY DEF CallsInv, ReplaysAreAnswered, CtrlInv, Idle
<1> QED BY <1>1, <1>2 DEF UInv

\* What is waiting and answered can be replayed.
LEMMA AwaitedAreAnswered ==
  ASSUME UInv, NEW rows
  PROVE  /\ AwaitingReplay(rows) \subseteq Calls
         /\ \A c \in AwaitingReplay(rows) : rows[c] # "pending" /\ c \notin flight \cup unused
BY DEF UInv, CallsInv, AwaitingReplay

\* What a replay changes of the calls.
StepsOK == /\ step \in [Calls -> {"none", "waiting", "ok", "blocked"}]
           /\ ran \in [Calls -> 0..2]
           /\ allowed \subseteq Scopes
           /\ CallsInv

moveUnchanged == <<shape, row, asks, result, unused, flight, crashes>>

\* What leaves the calls alone leaves their steps alone.
LEMMA StepsStay ==
  ASSUME UInv, UNCHANGED turnUnchanged
  PROVE  StepsOK' /\ UNCHANGED moveUnchanged
BY DEF UInv, TypeOK, CallsInv, StepsOK, turnUnchanged, moveUnchanged

\* One executor changes; rows and results do not.
LEMMA MoveKeeps ==
  ASSUME UInv, NEW e \in Execs, NEW x \in ExecType, SetExec(e, x),
         \A c \in x.todo : row[c] # "pending" /\ c \notin flight \cup unused,
         UNCHANGED moveUnchanged, StepsOK', status' \in Statuses, deferred' \in BOOLEAN,
         ended' \in BOOLEAN,
         \/ ctrl' = None
         \/ ctrl' = e /\ x.pc \in InTurn
         \/ ctrl' = ctrl /\ (ctrl = e => x.pc \in InTurn)
  PROVE  UInv'
<1> USE DEF UInv, SetExec, moveUnchanged, StepsOK
<1>1. TypeOK'
  BY DEF TypeOK, ExecType
<1>2. CallsInv'
  OBVIOUS
<1>3. ReplaysAreAnswered'
  BY DEF TypeOK, ReplaysAreAnswered
<1>4. CtrlInv'
  BY ApprovalsAssumption DEF TypeOK, CtrlInv
<1> QED BY <1>1, <1>2, <1>3, <1>4

\* The start of a turn keeps the invariant (executeDirectTurn).
LEMMA BeginKeeps ==
  ASSUME UInv, NEW e \in Execs, NEW nested \in BOOLEAN, BeginTurn(e, nested),
         nested \/ ctrl # e \/ ~Terminal(status),
         UNCHANGED moveUnchanged, StepsOK', deferred' \in BOOLEAN, ended' \in BOOLEAN
  PROVE  UInv'
<1>1. status' \in Statuses
  BY DEF BeginTurn, UInv, TypeOK, Statuses
<1>2. CASE Terminal(status)
  <2>1. SetExec(e, Idle) /\ (ctrl' = None \/ (ctrl' = ctrl /\ ctrl # e))
    BY <1>2 DEF BeginTurn
  <2> QED BY <1>1, <2>1, SlotTypes, MoveKeeps
<1>3. CASE ~Terminal(status)
  <2>1. SetExec(e, Thinking) /\ (ctrl' = None \/ ctrl' = e)
    BY <1>3 DEF BeginTurn
  <2>2. Thinking.pc \in InTurn
    BY SlotTypes DEF InTurn
  <2> QED BY <1>1, <2>1, <2>2, SlotTypes, MoveKeeps
<1> QED BY <1>2, <1>3

\* The pause of a turn, which saves the run waiting or goes on with a deferred
\* answer, keeps it.
LEMMA PauseKeeps ==
  ASSUME UInv, NEW e \in Execs, Pause(e), exec[e].pc \in InTurn,
         UNCHANGED turnUnchanged, ended' \in BOOLEAN
  PROVE  UInv'
<1>0. deferred \in BOOLEAN /\ status \in Statuses
  BY DEF UInv, TypeOK
<1>1. CASE deferred /\ AwaitingReplay(row) = {}
  BY <1>1, StepsStay, BeginKeeps DEF Pause
<1>2. CASE deferred /\ AwaitingReplay(row) # {}
  <2> DEFINE x == [Idle EXCEPT !.pc = "again", !.todo = AwaitingReplay(row)]
  <2>0. AwaitingReplay(row) \in SUBSET Calls /\ "again" \in InTurn
    BY AwaitedAreAnswered DEF InTurn
  <2>1. x \in ExecType /\ x.pc \in InTurn /\ x.todo = AwaitingReplay(row)
    <3>1. /\ "again" \in {"idle", "resuming"} \cup InTurn
          /\ AwaitingReplay(row) \in SUBSET Calls
      BY <2>0
    <3>2. x \in ExecType /\ x.pc = "again" /\ x.todo = AwaitingReplay(row)
      BY <3>1, SlotTypes
    <3> QED BY <2>0, <3>2
  <2>2. SetExec(e, x) /\ UNCHANGED <<status, ctrl>> /\ deferred' = FALSE
    BY <1>2 DEF Pause
  <2> HIDE DEF x
  <2> QED BY <1>0, <2>1, <2>2, AwaitedAreAnswered, StepsStay, MoveKeeps
<1>3. CASE ~deferred
  <2>1. SetExec(e, Idle) /\ ctrl' = None /\ status' \in Statuses /\ deferred' \in BOOLEAN
    BY <1>0, <1>3 DEF Pause, Leave, Statuses
  <2> QED BY <2>1, SlotTypes, StepsStay, MoveKeeps
<1> QED BY <1>1, <1>2, <1>3

-----------------------------------------------------------------------------
(* The steps of a turn.                                                    *)

\* An executor that leaves its turn keeps it.
LEMMA LeaveKeeps ==
  ASSUME UInv, NEW e \in Execs, Leave(e), UNCHANGED turnUnchanged,
         status' \in Statuses, deferred' \in BOOLEAN, ended' \in BOOLEAN
  PROVE  UInv'
BY SlotTypes, StepsStay, MoveKeeps DEF Leave

\* A turn that stays one, with nothing to replay.
LEMMA GoOnKeeps ==
  ASSUME UInv, NEW e \in Execs, NEW p \in InTurn, SetExec(e, [Idle EXCEPT !.pc = p]),
         UNCHANGED turnUnchanged, UNCHANGED <<status, ctrl, deferred>>, ended' \in BOOLEAN
  PROVE  UInv'
<1> DEFINE x == [Idle EXCEPT !.pc = p]
<1>1. x \in ExecType /\ x.pc \in InTurn /\ x.todo = {}
  BY SlotTypes DEF Idle
<1>2. status' \in Statuses /\ deferred' \in BOOLEAN
  BY DEF UInv, TypeOK
<1> HIDE DEF x
<1> QED BY <1>1, <1>2, StepsStay, MoveKeeps DEF x

\* The ends of a turn keep it: Finish, Settle, Publish, TurnThrows.
LEMMA TurnEndsKeepUInv ==
  ASSUME UInv, NEW e \in Execs,
         \/ StepEnd(e) \/ Finish(e) \/ Settle(e) \/ Publish(e) \/ TurnThrows(e)
  PROVE  UInv'
<1>0. /\ status \in Statuses /\ deferred \in BOOLEAN /\ ended \in BOOLEAN
      /\ {"thinking", "acting", "settling", "publishing"} \subseteq InTurn
      /\ {"completed", "failed", "cancelled", "waiting_for_approval"} \subseteq Statuses
  BY DEF UInv, TypeOK, InTurn, Statuses
<1>1. CASE StepEnd(e)
  <2>1. exec[e].pc \in InTurn /\ UNCHANGED turnUnchanged /\ ended' \in BOOLEAN
    BY <1>0, <1>1 DEF StepEnd
  <2>2. \/ Pause(e)
        \/ SetExec(e, [Idle EXCEPT !.pc = "thinking"]) /\ UNCHANGED <<status, ctrl, deferred>>
    BY <1>1 DEF StepEnd, Thinking
  <2> QED BY <1>0, <2>1, <2>2, PauseKeeps, GoOnKeeps
<1>2. CASE Finish(e)
  <2>1. exec[e].pc \in InTurn /\ UNCHANGED turnUnchanged /\ ended' \in BOOLEAN
    BY <1>0, <1>2 DEF Finish
  <2>2. \/ Pause(e)
        \/ Leave(e) /\ UNCHANGED <<status, deferred>>
        \/ SetExec(e, [Idle EXCEPT !.pc = "settling"]) /\ UNCHANGED <<status, ctrl, deferred>>
    BY <1>2 DEF Finish
  <2> QED BY <1>0, <2>1, <2>2, PauseKeeps, LeaveKeeps, GoOnKeeps
<1>3. CASE Settle(e) \/ Publish(e) \/ TurnThrows(e)
  <2>1. UNCHANGED turnUnchanged /\ ended' \in BOOLEAN /\ UNCHANGED deferred
    BY <1>0, <1>3 DEF Settle, Publish, TurnThrows, Terminal
  <2>2. \/ Leave(e) /\ status' \in Statuses
        \/ SetExec(e, [Idle EXCEPT !.pc = "publishing"]) /\ UNCHANGED <<status, ctrl, deferred>>
    BY <1>0, <1>3 DEF Settle, Publish, TurnThrows
  <2> QED BY <1>0, <2>1, <2>2, LeaveKeeps, GoOnKeeps
<1> QED BY <1>1, <1>2, <1>3

\* A model step, which puts new calls in flight, keeps it.
LEMMA ModelStepKeepsUInv ==
  ASSUME UInv, NEW e \in Execs, NEW batch \in SUBSET unused, ModelStep(e, batch)
  PROVE  UInv'
<1> USE DEF UInv, ModelStep, SetExec, storeVars
<1>1. flight' \subseteq flight \cup batch /\ unused' = unused \ batch
  OBVIOUS
<1>2. TypeOK'
  <2>1. result' \in [Calls -> {"none", "ran", "waits", "blocked"}]
    BY DEF TypeOK
  <2>2. [exec[e] EXCEPT !.pc = "acting", !.batch = batch] \in ExecType
    BY DEF TypeOK, ExecType, InTurn
  <2>3. exec' \in [Execs -> ExecType]
    BY <2>2 DEF TypeOK, ExecType
  <2> QED BY <1>1, <2>1, <2>3 DEF TypeOK, ExecType
<1>3. CallsInv'
  BY <1>1 DEF TypeOK, CallsInv
<1>4. \A x \in Execs : exec'[x].todo = exec[x].todo
  BY DEF TypeOK
<1>5. ReplaysAreAnswered'
  BY <1>1, <1>4 DEF ReplaysAreAnswered
<1>6. CtrlInv'
  BY DEF TypeOK, CtrlInv, InTurn
<1> QED BY <1>2, <1>3, <1>5, <1>6

\* The two gates, which execute a call or record that it waits, keep it.
LEMMA GateKeepsUInv ==
  ASSUME UInv, NEW c \in Calls, Gate(c)
  PROVE  UInv'
<1> USE DEF UInv, AtGate
<1>0. /\ c \in flight /\ flight' = flight \ {c}
      /\ UNCHANGED <<shape, status, unused, exec, ctrl, deferred, crashes, ended>>
  BY DEF Gate, GatePasses, GateAsks
<1>1. CASE GatePasses(c)
  <2>1. /\ UNCHANGED <<row, asks>> /\ allowed' \subseteq allowed
        /\ \/ UNCHANGED <<ran, step>> /\ result' = [result EXCEPT ![c] = "blocked"]
           \/ Execute(c) /\ result' = [result EXCEPT ![c] = "ran"]
    BY <1>1 DEF GatePasses
  <2>2. TypeOK'
    BY <1>0, <2>1 DEF TypeOK, Execute
  <2>3. CallsInv'
    BY <1>0, <2>1 DEF TypeOK, CallsInv, Execute
  <2> QED BY <1>0, <2>1, <2>2, <2>3 DEF ReplaysAreAnswered, CtrlInv
<1>2. CASE GateAsks(c)
  <2> DEFINE same == {d \in Pending : shape.scope[d] = shape.scope[c]}
  <2>1. PICK id \in IF same = {} THEN {c} ELSE same :
            /\ row' = IF id = c THEN [row EXCEPT ![c] = "pending"] ELSE row
            /\ IF id = c \/ c \in shape.outer
               THEN /\ step' = [step EXCEPT ![c] = "waiting"]
                    /\ asks' = [asks EXCEPT ![c] = id]
               ELSE UNCHANGED <<step, asks>>
    BY <1>2 DEF GateAsks
  <2>2. id \in Calls /\ UNCHANGED <<allowed, ran>> /\ result' = [result EXCEPT ![c] = "waits"]
    BY <1>2 DEF GateAsks, Pending
  <2> HIDE DEF same
  <2>3. TypeOK'
    BY <1>0, <2>1, <2>2 DEF TypeOK
  <2>4. CallsInv'
    BY <1>0, <2>1, <2>2 DEF TypeOK, CallsInv
  <2>5. ReplaysAreAnswered'
    BY <1>0, <2>1 DEF TypeOK, ReplaysAreAnswered
  <2> QED BY <1>0, <2>3, <2>4, <2>5 DEF CtrlInv
<1> QED BY <1>1, <1>2 DEF Gate

-----------------------------------------------------------------------------
(* Answers, the replay, cancellation and crashes.                          *)

\* An approval with its siblings, and the resume it causes, keep it.
LEMMA ApproveKeepsUInv ==
  ASSUME UInv, NEW c \in Calls, NEW how \in Approved, Approve(c, how)
  PROVE  UInv'
<1> DEFINE rows == [d \in Calls |-> IF d \in SettledWith(c, how) THEN how ELSE row[d]]
<1>1. /\ row' = rows /\ allowed' \in SUBSET Scopes
      /\ UNCHANGED <<shape, status, step, asks, result, unused, flight, ctrl, ran,
                     crashes, ended>>
  BY ApprovalsAssumption DEF Approve, UInv, TypeOK, ShapeType
<1>2. \A d \in Calls : row[d] # "pending" => rows[d] = row[d]
  BY DEF SettledWith, Pending
<1>3. row' \in [Calls -> {"none", "pending", "once", "always", "family",
                          "rejected", "deleted"}]
  BY <1>1 DEF UInv, TypeOK, Approved
<1>4. \A d \in Calls : row'[d] = "pending" => row[d] = "pending"
  BY <1>1 DEF Approved
<1>5. CallsInv'
  BY <1>1, <1>2 DEF UInv, TypeOK, CallsInv
<1>6. \/ deferred' = TRUE /\ UNCHANGED exec
      \/ /\ UNCHANGED deferred
         /\ \E e \in Execs : /\ exec[e] = Idle
                             /\ SetExec(e, [Idle EXCEPT !.pc = "resuming",
                                                        !.todo = AwaitingReplay(rows)])
      \/ UNCHANGED <<deferred, exec>>
  BY DEF Approve, ResumeApproved
<1> HIDE DEF rows
<1>7. CASE deferred' \in BOOLEAN /\ UNCHANGED exec
  <2>1. TypeOK'
    BY <1>1, <1>3, <1>7 DEF UInv, TypeOK
  <2> QED BY <1>1, <1>4, <1>5, <1>7, <2>1 DEF UInv, TypeOK, ReplaysAreAnswered, CtrlInv
<1>8. ASSUME NEW e \in Execs, exec[e] = Idle, UNCHANGED deferred,
             SetExec(e, [Idle EXCEPT !.pc = "resuming", !.todo = AwaitingReplay(rows)])
      PROVE  UInv'
  <2> DEFINE x == [Idle EXCEPT !.pc = "resuming", !.todo = AwaitingReplay(rows)]
  <2>1. /\ AwaitingReplay(rows) \in SUBSET Calls
        /\ \A d \in AwaitingReplay(rows) : rows[d] # "pending" /\ d \notin flight \cup unused
    BY AwaitedAreAnswered
  <2>2. x \in ExecType /\ x.todo = AwaitingReplay(rows)
    BY <2>1, SlotTypes
  <2>3. exec' = [exec EXCEPT ![e] = x]
    BY <1>8 DEF SetExec
  <2> HIDE DEF x
  <2>4. TypeOK'
    BY <1>1, <1>3, <1>8, <2>2, <2>3 DEF UInv, TypeOK, ExecType
  <2>5. ReplaysAreAnswered'
    BY <1>1, <1>4, <2>1, <2>2, <2>3 DEF UInv, TypeOK, ReplaysAreAnswered
  <2>6. ctrl # e
    <3>1. exec[e].pc = "idle"
      BY <1>8, SlotTypes
    <3> QED BY <3>1, ApprovalsAssumption DEF UInv, CtrlInv, InTurn
  <2>7. CtrlInv'
    BY <1>1, <2>3, <2>6 DEF UInv, TypeOK, CtrlInv
  <2> QED BY <1>5, <2>4, <2>5, <2>7 DEF UInv
<1> QED BY <1>6, <1>7, <1>8 DEF UInv, TypeOK

\* A rejection, which deletes the rows and fails the run, keeps it.
LEMMA RejectKeepsUInv ==
  ASSUME UInv, NEW c \in Calls, Reject(c)
  PROVE  UInv'
<1>1. TypeOK'
  BY DEF UInv, TypeOK, Reject, Statuses
<1>2. CallsInv'
  BY DEF UInv, TypeOK, CallsInv, Reject, Pending
<1>3. ReplaysAreAnswered' /\ CtrlInv'
  BY DEF UInv, TypeOK, ReplaysAreAnswered, CtrlInv, Reject
<1> QED BY <1>1, <1>2, <1>3 DEF UInv

\* A cancellation keeps it.
LEMMA CancelKeepsUInv ==
  ASSUME UInv, Cancel
  PROVE  UInv'
<1>1. TypeOK'
  <2>1. exec' \in [Execs -> ExecType]
    BY DEF UInv, TypeOK, Cancel, ExecType
  <2> QED BY <2>1 DEF UInv, TypeOK, Cancel, Statuses, ExecType
<1>2. CallsInv'
  BY DEF UInv, TypeOK, CallsInv, Cancel, Pending
<1>3. \A e \in Execs : exec'[e].todo = exec[e].todo
  BY DEF UInv, TypeOK, Cancel
<1>4. ReplaysAreAnswered'
  BY <1>3 DEF UInv, TypeOK, ReplaysAreAnswered, Cancel
<1>5. CtrlInv'
  BY DEF CtrlInv, Cancel
<1> QED BY <1>1, <1>2, <1>4, <1>5 DEF UInv

\* A crash, which clears the memory of the process, keeps it.
LEMMA CrashKeepsUInv ==
  ASSUME UInv, Crash
  PROVE  UInv'
<1>1. TypeOK'
  <2>1. exec' \in [Execs -> ExecType]
    BY SlotTypes DEF Crash
  <2>2. crashes' \in 0..MaxCrashes
    BY ApprovalsAssumption DEF UInv, TypeOK, Crash
  <2> QED BY <2>1, <2>2 DEF UInv, TypeOK, Crash, storeVars, ExecType
<1>2. CallsInv'
  BY DEF UInv, CallsInv, Crash, storeVars
<1>3. ReplaysAreAnswered' /\ CtrlInv'
  BY SlotTypes DEF ReplaysAreAnswered, CtrlInv, Crash
<1> QED BY <1>1, <1>2, <1>3 DEF UInv

\* The replay of approved calls keeps it: what it executes has been answered.
LEMMA ReplayKeepsUInv ==
  ASSUME UInv, NEW e \in Execs, NEW c \in Calls, Replay(e, c)
  PROVE  UInv'
<1>1. /\ exec[e].pc \in {"resuming", "again"} /\ c \in exec[e].todo
      /\ c \notin flight \cup unused
      /\ UNCHANGED moveUnchanged /\ UNCHANGED deferred /\ UNCHANGED ended
  BY DEF Replay, UInv, ReplaysAreAnswered, moveUnchanged
<1>2. StepsOK'
  <2>1. CASE status = "cancelled"
    BY <1>1, <2>1 DEF UInv, TypeOK, CallsInv, StepsOK, Replay, moveUnchanged
  <2>2. CASE status # "cancelled"
    BY <1>1, <2>2 DEF UInv, TypeOK, CallsInv, StepsOK, Replay, Execute, moveUnchanged
  <2> QED BY <2>1, <2>2
<1>3. deferred' \in BOOLEAN /\ ended' \in BOOLEAN
  BY <1>1 DEF UInv, TypeOK
<1>4. CASE exec[e].todo = {c}
  <2>1. BeginTurn(e, exec[e].pc = "again")
    BY <1>4 DEF Replay
  <2>2. (exec[e].pc = "again") \in BOOLEAN /\ (exec[e].pc = "again" \/ ctrl # e)
    BY <1>1, ApprovalsAssumption DEF UInv, CtrlInv, InTurn
  <2> QED BY <1>1, <1>2, <1>3, <2>1, <2>2, BeginKeeps
<1>5. CASE exec[e].todo # {c}
  <2> DEFINE x == [exec[e] EXCEPT !.todo = @ \ {c}]
  <2>1. SetExec(e, x) /\ UNCHANGED <<status, ctrl>>
    BY <1>5 DEF Replay
  <2>2. x \in ExecType /\ x.pc = exec[e].pc /\ x.todo \subseteq exec[e].todo
    BY DEF UInv, TypeOK, ExecType
  <2>3. \A d \in x.todo : row[d] # "pending" /\ d \notin flight \cup unused
    BY <2>2 DEF UInv, ReplaysAreAnswered
  <2>4. ctrl = e => x.pc \in InTurn
    BY <2>2, ApprovalsAssumption DEF UInv, CtrlInv
  <2>5. status' \in Statuses
    BY <2>1 DEF UInv, TypeOK
  <2> HIDE DEF x
  <2> QED BY <1>1, <1>2, <1>3, <2>1, <2>2, <2>3, <2>4, <2>5, MoveKeeps
<1> QED BY <1>4, <1>5

\* The start of the run keeps it.
LEMMA CreateKeepsUInv ==
  ASSUME UInv, NEW e \in Execs, CreateRun(e)
  PROVE  UInv'
<1>1. /\ BeginTurn(e, FALSE) /\ ~Terminal(status)
      /\ UNCHANGED turnUnchanged /\ UNCHANGED <<deferred, ended>>
  BY DEF CreateRun, Terminal, turnUnchanged
<1>2. deferred' \in BOOLEAN /\ ended' \in BOOLEAN
  BY <1>1 DEF UInv, TypeOK
<1> QED BY <1>1, <1>2, StepsStay, BeginKeeps

\* Every step keeps the invariant.
LEMMA NextKeepsUInv == UInv /\ [Next]_vars => UInv'
<1> SUFFICES ASSUME UInv, [Next]_vars PROVE UInv'
  OBVIOUS
<1>1. CASE UNCHANGED vars
  BY <1>1 DEF UInv, TypeOK, CallsInv, ReplaysAreAnswered, CtrlInv, vars
<1>2. CASE Next
  BY <1>2, CreateKeepsUInv, ModelStepKeepsUInv, TurnEndsKeepUInv, GateKeepsUInv,
     ApproveKeepsUInv, RejectKeepsUInv, CancelKeepsUInv, CrashKeepsUInv, ReplayKeepsUInv
     DEF Next, TurnGoesOn, Replays
<1> QED BY <1>1, <1>2

\* UInv holds in every reachable state, for all values of the constants: calls that
\* never passed a gate have no history, what a replay holds is answered, only a turn
\* under way is registered for answers.
THEOREM UInvHolds == Spec => []UInv
BY InitUInv, NextKeepsUInv, PTL DEF Spec

\* In every instance the state is well typed.
THEOREM TypeCorrect == Spec => []TypeOK
<1>1. UInv => TypeOK
  BY DEF UInv
<1> QED BY <1>1, UInvHolds, PTL

\* The only steps that execute a call.
LEMMA WhatRuns ==
  ASSUME UInv, Next, NEW c \in Calls, Runs(c)
  PROVE  \/ GatePasses(c)
         \/ \E e \in Execs : Replay(e, c)
<1>0. ran[c] \in 0..2
  BY DEF UInv, TypeOK
<1>1. ASSUME UNCHANGED ran PROVE FALSE
  BY <1>0, <1>1 DEF Runs
<1>2. ASSUME NEW d \in Calls, Execute(d) PROVE d = c
  BY <1>0, <1>2 DEF Execute, Runs, UInv, TypeOK
<1>3. ASSUME NEW e \in Execs, CreateRun(e) \/ TurnGoesOn(e) PROVE FALSE
  BY <1>1, <1>3 DEF CreateRun, TurnGoesOn, ModelStep, StepEnd, Finish, Settle, Publish,
     TurnThrows, turnUnchanged
<1>4. ASSUME NEW e \in Execs, NEW d \in Calls, Replay(e, d) PROVE d = c
  BY <1>1, <1>2, <1>4 DEF Replay
<1>5. ASSUME NEW d \in Calls, Gate(d) \/ Reject(d) PROVE GatePasses(d) /\ d = c
  BY <1>1, <1>2, <1>5 DEF Gate, GatePasses, GateAsks, Reject
<1>6. ASSUME NEW d \in Calls, NEW how \in Approved, Approve(d, how) PROVE FALSE
  BY <1>1, <1>6 DEF Approve
<1>7. ASSUME Cancel \/ Crash PROVE FALSE
  BY <1>1, <1>7 DEF Cancel, Crash
<1> QED BY <1>3, <1>4, <1>5, <1>6, <1>7 DEF Next, Replays

\* For every number of calls, chains and crashes and every shape: a call whose own
\* request is open does not execute.
THEOREM OpenRequestsStayPut == Spec => OpenRequestsDoNotRun
<1>1. UInv /\ [Next]_vars => [\A c \in Calls : Runs(c) => row[c] # "pending"]_vars
  <2> SUFFICES ASSUME UInv, Next, NEW c \in Calls, Runs(c) PROVE row[c] # "pending"
    BY DEF vars
  <2>1. CASE GatePasses(c)
    BY <2>1 DEF GatePasses, AtGate, UInv, CallsInv
  <2>2. CASE \E e \in Execs : Replay(e, c)
    BY <2>2 DEF Replay, UInv, ReplaysAreAnswered
  <2> QED BY <2>1, <2>2, WhatRuns
<1> QED BY <1>1, UInvHolds, PTL DEF Spec, OpenRequestsDoNotRun

-----------------------------------------------------------------------------
(* The note of a running turn is heard.                                    *)

TurnListens(e) == exec[e].pc \in {"thinking", "acting", "again"}

\* A call on its way to the gate belongs to a turn that waits for it.
FlightsAreAwaited ==
    \A c \in flight : \E e \in Execs : exec[e].pc = "acting" /\ c \in exec[e].batch

\* A note has a listener, and a run saved waiting under it is going to be resumed.
NoteInv ==
    deferred => /\ \E e \in Execs : Listens(e)
                /\ status = "waiting_for_approval" =>
                      Pending # {} \/ \E e \in Execs : exec[e].pc = "resuming"

\* As long as a run has not ended: a request that is open while a turn is registered
\* was made by a turn that has still to pause, whatever the registered one has
\* looked at already.
LiveInv ==
    /\ ~Terminal(status)
    /\ FlightsAreAwaited
    /\ ctrl # None /\ Pending # {} => \E e \in Execs : TurnListens(e)
    /\ NoteInv

HearInv ==
    /\ status = "none" => Busy = {} /\ flight = {} /\ Pending = {} /\ ~deferred
    /\ \A e \in Execs : exec[e].aborted => ended
    /\ ~ended => LiveInv

\* A run that was created stays created, and one that has ended has ended for good.
LEMMA RunsStay ==
  ASSUME UInv, HearInv, Next
  PROVE  status' # "none" /\ (ended => ended')
<1>1. ended \in BOOLEAN /\ status \in Statuses
  BY DEF UInv, TypeOK
<1>2. CASE status = "none"
  <2>1. /\ \A e \in Execs : exec[e].pc = "idle"
        /\ \A c \in Calls : c \notin flight /\ row[c] # "pending"
    BY <1>2 DEF HearInv, Busy, Pending
  <2>2. PICK e \in Execs : CreateRun(e)
    BY <1>2, <2>1 DEF Next, TurnGoesOn, ModelStep, StepEnd, Finish, Settle, Publish, TurnThrows,
       Replays, Replay, Gate, GatePasses, GateAsks, AtGate, Reject, Approve, MayAnswer, Cancel, Crash
  <2> QED BY <2>2 DEF CreateRun, BeginTurn, Terminal
<1>3. CASE status # "none"
  <2>1. ASSUME NEW e \in Execs, CreateRun(e) \/ TurnGoesOn(e) \/ Replays(e)
        PROVE  status' # "none" /\ (ended => ended')
    BY <1>1, <1>3, <2>1 DEF CreateRun, BeginTurn, TurnGoesOn, ModelStep, StepEnd, Finish, Settle,
       Publish, TurnThrows, Pause, Leave, turnUnchanged, Replays, Replay, storeVars
  <2>2. ASSUME NEW c \in Calls, Gate(c) \/ Reject(c)
        PROVE  status' # "none" /\ (ended => ended')
    BY <1>3, <2>2 DEF Gate, GatePasses, GateAsks, AtGate, Reject
  <2>3. ASSUME NEW c \in Calls, NEW how \in Approved, Approve(c, how)
        PROVE  status' # "none" /\ (ended => ended')
    BY <1>3, <2>3 DEF Approve
  <2>4. CASE Cancel \/ Crash
    BY <1>3, <2>4 DEF Cancel, Crash, storeVars
  <2> QED BY <2>1, <2>2, <2>3, <2>4 DEF Next
<1> QED BY <1>2, <1>3

\* One chain moves and no request is made or answered: a listener goes on listening,
\* looks at the note, or leaves a run that another chain resumes.
LEMMA ChainMovesHear ==
  ASSUME UInv, HearInv, ~ended', ended' = ended, NEW e \in Execs, NEW x \in ExecType,
         SetExec(e, x), ~x.aborted, UNCHANGED <<row, flight>>,
         status' # "none", ~Terminal(status'),
         exec[e].pc = "acting" => exec[e].batch \cap flight = {},
         ctrl' # None /\ Pending # {} =>
            \/ x.pc \in {"thinking", "acting", "again"}
            \/ ctrl' = ctrl /\ ~TurnListens(e),
         deferred' => /\ deferred
                      /\ \/ x.pc \in {"resuming", "thinking", "acting", "again"}
                         \/ ~Listens(e)
                         \/ status = "waiting_for_approval" /\ Pending = {} /\ exec[e].pc # "resuming",
         deferred' /\ status' = "waiting_for_approval" /\ Pending = {} =>
            status = "waiting_for_approval" /\ (exec[e].pc = "resuming" => x.pc = "resuming")
  PROVE  HearInv'
<1>1. exec'[e] = x /\ \A f \in Execs : f # e => exec'[f] = exec[f]
  BY DEF UInv, TypeOK, SetExec
<1>2. Pending' = Pending /\ LiveInv
  BY DEF Pending, HearInv
<1>3. \A f \in Execs : exec'[f].aborted => ended'
  BY <1>1 DEF HearInv
<1>4. FlightsAreAwaited'
  <2> SUFFICES ASSUME NEW c \in flight
               PROVE  \E f \in Execs : exec'[f].pc = "acting" /\ c \in exec'[f].batch
    BY DEF FlightsAreAwaited
  <2>1. PICK f \in Execs : exec[f].pc = "acting" /\ c \in exec[f].batch
    BY <1>2 DEF LiveInv, FlightsAreAwaited
  <2>2. f # e
    BY <2>1
  <2> QED BY <1>1, <2>1, <2>2
<1>5. ctrl' # None /\ Pending # {} => \E f \in Execs : TurnListens(f)'
  BY <1>1, <1>2 DEF LiveInv, TurnListens
<1>6. NoteInv'
  <2> SUFFICES ASSUME deferred'
               PROVE  /\ \E f \in Execs : Listens(f)'
                      /\ status' = "waiting_for_approval" =>
                            Pending # {} \/ \E f \in Execs : exec'[f].pc = "resuming"
    BY <1>2 DEF NoteInv
  <2>1. \E f \in Execs : Listens(f)'
    BY <1>1, <1>2 DEF LiveInv, NoteInv, Listens
  <2>2. status' = "waiting_for_approval" =>
           Pending # {} \/ \E f \in Execs : exec'[f].pc = "resuming"
    BY <1>1, <1>2 DEF LiveInv, NoteInv
  <2> QED BY <2>1, <2>2
<1> QED BY <1>2, <1>3, <1>4, <1>5, <1>6 DEF HearInv, LiveInv

\* The turns keep HearInv: a pause looks at the note, a turn that settles left none.
LEMMA TurnsHear ==
  ASSUME UInv, HearInv, ~ended', ended' = ended, NEW e \in Execs,
         CreateRun(e) \/ StepEnd(e) \/ Finish(e) \/ Settle(e) \/ Publish(e) \/ TurnThrows(e)
  PROVE  HearInv'
<1>1. /\ LiveInv /\ UNCHANGED <<row, flight>> /\ deferred \in BOOLEAN /\ status \in Statuses
      /\ \A f \in Execs : ~exec[f].aborted
  BY DEF HearInv, CreateRun, StepEnd, Finish, Settle, Publish, TurnThrows, turnUnchanged,
     UInv, TypeOK
<1>2. /\ Idle \in ExecType /\ Thinking \in ExecType /\ ~Idle.aborted /\ ~Thinking.aborted
      /\ Thinking.pc = "thinking" /\ ~Terminal(status)
      /\ \A p \in {"idle", "resuming"} \cup InTurn :
            [Idle EXCEPT !.pc = p] \in ExecType /\ ~[Idle EXCEPT !.pc = p].aborted
      /\ \A p \in {"idle", "resuming"} \cup InTurn, t \in SUBSET Calls :
            /\ [Idle EXCEPT !.pc = p, !.todo = t] \in ExecType
            /\ [Idle EXCEPT !.pc = p, !.todo = t].pc = p
            /\ ~[Idle EXCEPT !.pc = p, !.todo = t].aborted
      /\ {"thinking", "acting", "again", "settling", "publishing"} \subseteq InTurn
  BY <1>1, SlotTypes DEF LiveInv, Idle, Thinking, ExecType, InTurn
<1>3. ASSUME Pause(e), exec[e].pc \in {"thinking", "acting"}, status # "none",
             exec[e].pc = "acting" => exec[e].batch \cap flight = {}
      PROVE  HearInv'
  <2>1. CASE deferred /\ AwaitingReplay(row) = {}
    <3>1. SetExec(e, Thinking) /\ status' = "running" /\ ctrl' = None /\ ~deferred'
      BY <1>2, <1>3, <2>1 DEF Pause, BeginTurn
    <3> QED BY <1>1, <1>2, <1>3, <3>1, ChainMovesHear DEF Terminal
  <2>2. CASE deferred /\ AwaitingReplay(row) # {}
    <3> DEFINE x == [Idle EXCEPT !.pc = "again", !.todo = AwaitingReplay(row)]
    <3>1. x \in ExecType /\ x.pc = "again" /\ ~x.aborted
      BY <1>2 DEF AwaitingReplay
    <3>2. SetExec(e, x) /\ UNCHANGED <<status, ctrl>> /\ ~deferred'
      BY <2>2, <1>3 DEF Pause
    <3> HIDE DEF x
    <3> QED BY <1>1, <1>2, <1>3, <3>1, <3>2, ChainMovesHear
  <2>3. CASE ~deferred
    <3>1. SetExec(e, Idle) /\ status' = "waiting_for_approval" /\ ctrl' = None /\ ~deferred'
      BY <1>3, <2>3 DEF Pause, Leave
    <3> QED BY <1>1, <1>2, <1>3, <3>1, ChainMovesHear DEF Terminal
  <2> QED BY <2>1, <2>2, <2>3
<1>4. CASE CreateRun(e)
  <2>1. /\ SetExec(e, Thinking) /\ status' = "running" /\ ctrl' = e /\ deferred' = deferred
        /\ Busy = {} /\ Pending = {} /\ ~deferred
    BY <1>2, <1>4 DEF CreateRun, BeginTurn, HearInv
  <2> QED BY <1>1, <1>2, <2>1, ChainMovesHear DEF Terminal, Busy
<1>5. exec[e].pc # "idle" => status # "none"
  BY DEF HearInv, Busy
<1>6. CASE StepEnd(e)
  <2>1. CASE Pause(e)
    BY <1>3, <1>5, <1>6, <2>1 DEF StepEnd
  <2>2. CASE SetExec(e, Thinking) /\ UNCHANGED <<status, ctrl, deferred>> /\ Pending = {}
    BY <1>1, <1>2, <1>5, <1>6, <2>2, ChainMovesHear DEF StepEnd
  <2> QED BY <1>6, <2>1, <2>2 DEF StepEnd
<1>7. CASE Finish(e)
  <2>1. CASE Pause(e)
    BY <1>3, <1>5, <1>7, <2>1 DEF Finish
  <2>2. CASE Leave(e) /\ UNCHANGED <<status, deferred>> /\ status # "running" /\ Pending = {}
    <3>1. status = "waiting_for_approval" /\ exec[e].pc = "thinking"
      BY <1>1, <1>2, <1>5, <1>7, <2>2 DEF Finish, Terminal, Statuses
    <3> QED BY <1>1, <1>2, <1>5, <2>2, <3>1, ChainMovesHear DEF Leave
  <2>3. CASE SetExec(e, [Idle EXCEPT !.pc = "settling"]) /\ UNCHANGED <<status, ctrl, deferred>>
             /\ Pending = {} /\ ~deferred
    BY <1>1, <1>2, <1>5, <1>7, <2>3, ChainMovesHear DEF Finish
  <2> QED BY <1>7, <2>1, <2>2, <2>3 DEF Finish
<1>8. CASE Settle(e)
  <2>1. exec[e].pc = "settling" /\ UNCHANGED deferred /\ ~Terminal(status') /\ ~Listens(e)
    BY <1>8 DEF Settle, Listens
  <2>2. \/ SetExec(e, Idle) /\ ctrl' = None /\ status' = "waiting_for_approval" /\ Pending # {}
        \/ SetExec(e, [Idle EXCEPT !.pc = "publishing"]) /\ UNCHANGED <<status, ctrl>> /\ Pending = {}
    BY <1>2, <1>8, <2>1 DEF Settle, Leave, Terminal
  <2>3. CASE SetExec(e, Idle) /\ ctrl' = None /\ status' = "waiting_for_approval" /\ Pending # {}
    BY <1>1, <1>2, <2>1, <2>3, ChainMovesHear
  <2>4. CASE SetExec(e, [Idle EXCEPT !.pc = "publishing"]) /\ UNCHANGED <<status, ctrl>>
             /\ Pending = {}
    <3>1. exec[e].pc # "acting" /\ exec[e].pc # "resuming" /\ status # "none"
      BY <1>5, <2>1
    <3>2. [Idle EXCEPT !.pc = "publishing"] \in ExecType /\ ~[Idle EXCEPT !.pc = "publishing"].aborted
      BY <1>2
    <3> QED BY <1>1, <1>2, <2>1, <2>4, <3>1, <3>2, ChainMovesHear
  <2> QED BY <2>2, <2>3, <2>4
<1>9. CASE Publish(e) \/ TurnThrows(e)
  BY <1>9 DEF Publish, TurnThrows, Terminal
<1> QED BY <1>4, <1>6, <1>7, <1>8, <1>9

\* The model's calls are awaited by the turn that makes them.
LEMMA ModelStepHears ==
  ASSUME UInv, HearInv, ~ended', NEW e \in Execs, NEW batch \in SUBSET unused,
         ModelStep(e, batch)
  PROVE  HearInv'
<1>1. /\ LiveInv /\ exec[e].pc = "thinking" /\ flight' \subseteq flight \cup batch
      /\ exec' = [exec EXCEPT ![e] = [exec[e] EXCEPT !.pc = "acting", !.batch = batch]]
      /\ UNCHANGED <<status, row, ctrl, deferred, ended>>
  BY DEF ModelStep, HearInv, SetExec, storeVars
<1>2. /\ exec'[e].pc = "acting" /\ exec'[e].batch = batch /\ exec'[e].aborted = exec[e].aborted
      /\ \A f \in Execs : f # e => exec'[f] = exec[f]
  BY <1>1 DEF UInv, TypeOK
<1>3. Pending' = Pending /\ status # "none"
  BY <1>1 DEF Pending, HearInv, Busy
<1>4. FlightsAreAwaited'
  <2> SUFFICES ASSUME NEW c \in flight \cup batch
               PROVE  \E f \in Execs : exec'[f].pc = "acting" /\ c \in exec'[f].batch
    BY <1>1 DEF FlightsAreAwaited
  <2>1. CASE c \in batch
    BY <1>2, <2>1
  <2>2. CASE c \in flight
    <3>1. PICK f \in Execs : exec[f].pc = "acting" /\ c \in exec[f].batch
      BY <1>1, <2>2 DEF LiveInv, FlightsAreAwaited
    <3> QED BY <1>1, <1>2, <3>1
  <2> QED BY <2>1, <2>2
<1>5. \E f \in Execs : TurnListens(f)' /\ Listens(f)'
  BY <1>2 DEF TurnListens, Listens
<1>6. NoteInv'
  BY <1>1, <1>2, <1>3, <1>5 DEF LiveInv, NoteInv
<1> QED BY <1>1, <1>2, <1>3, <1>4, <1>5, <1>6 DEF HearInv, LiveInv

\* A request that a gate makes is one of a turn that is still going to pause.
LEMMA GateHears ==
  ASSUME UInv, HearInv, ~ended', NEW c \in Calls, Gate(c)
  PROVE  HearInv'
<1>1. /\ c \in flight /\ flight' = flight \ {c}
      /\ UNCHANGED <<status, exec, ctrl, deferred, ended>>
  BY DEF Gate, GatePasses, GateAsks, AtGate
<1>2. Pending \subseteq Pending'
  BY DEF Gate, GatePasses, GateAsks, Pending, UInv, TypeOK
<1>3. LiveInv /\ status # "none"
  BY <1>1 DEF HearInv
<1>4. FlightsAreAwaited' /\ \E e \in Execs : TurnListens(e)'
  BY <1>1, <1>3 DEF LiveInv, FlightsAreAwaited, TurnListens
<1>5. NoteInv'
  BY <1>1, <1>2, <1>3 DEF LiveInv, NoteInv, Listens
<1> QED BY <1>1, <1>3, <1>4, <1>5 DEF HearInv, LiveInv

\* An approval leaves its note to a turn that listens, or resumes the run.
LEMMA ApproveHears ==
  ASSUME UInv, HearInv, ~ended', NEW c \in Calls, NEW how \in Approved, Approve(c, how)
  PROVE  HearInv'
<1> DEFINE rows == [d \in Calls |-> IF d \in SettledWith(c, how) THEN how ELSE row[d]]
<1>1. /\ row[c] = "pending" /\ row' = rows /\ ResumeApproved(rows)
      /\ UNCHANGED <<status, flight, ctrl, ended>>
  BY DEF Approve, MayAnswer
<1>2. /\ LiveInv /\ c \in Pending /\ status # "none" /\ Pending' \subseteq Pending
      /\ status \in Statuses /\ deferred \in BOOLEAN
  BY <1>1 DEF HearInv, Pending, Approved, UInv, TypeOK
<1> HIDE DEF rows
<1>3. CASE status = "running" /\ ctrl # None /\ deferred' = TRUE /\ UNCHANGED exec
  <2>1. \E e \in Execs : TurnListens(e)' /\ Listens(e)'
    BY <1>2, <1>3 DEF LiveInv, TurnListens, Listens
  <2>2. FlightsAreAwaited'
    BY <1>1, <1>2, <1>3 DEF LiveInv, FlightsAreAwaited
  <2> QED BY <1>1, <1>2, <1>3, <2>1, <2>2 DEF HearInv, LiveInv, NoteInv
<1>4. CASE UNCHANGED deferred /\ \E e \in Execs : exec[e] = Idle
             /\ SetExec(e, [Idle EXCEPT !.pc = "resuming", !.todo = AwaitingReplay(rows)])
  <2> DEFINE x == [Idle EXCEPT !.pc = "resuming", !.todo = AwaitingReplay(rows)]
  <2>0. x.pc = "resuming" /\ ~x.aborted
    BY DEF Idle
  <2> HIDE DEF x
  <2>1. PICK e \in Execs : exec[e] = Idle /\ SetExec(e, x)
    BY <1>4 DEF x
  <2>2. /\ exec[e].pc = "idle" /\ exec'[e].pc = "resuming" /\ ~exec'[e].aborted
        /\ \A f \in Execs : f # e => exec'[f] = exec[f]
    BY <2>0, <2>1, SlotTypes DEF SetExec, UInv, TypeOK
  <2>3. FlightsAreAwaited'
    <3> SUFFICES ASSUME NEW d \in flight
                 PROVE  \E f \in Execs : exec'[f].pc = "acting" /\ d \in exec'[f].batch
      BY <1>1 DEF FlightsAreAwaited
    <3>1. PICK f \in Execs : exec[f].pc = "acting" /\ d \in exec[f].batch
      BY <1>2 DEF LiveInv, FlightsAreAwaited
    <3> QED BY <2>2, <3>1
  <2>4. ctrl # None => \E f \in Execs : TurnListens(f)'
    <3> SUFFICES ASSUME ctrl # None PROVE \E f \in Execs : TurnListens(f)'
      OBVIOUS
    <3>1. PICK f \in Execs : TurnListens(f)
      BY <1>2 DEF LiveInv
    <3>2. f # e
      BY <2>2, <3>1 DEF TurnListens
    <3> QED BY <2>2, <3>1, <3>2 DEF TurnListens
  <2>5. Listens(e)'
    BY <2>2 DEF Listens
  <2>6. \A f \in Execs : exec'[f].aborted => ended'
    BY <1>1, <2>2 DEF HearInv
  <2> QED BY <1>1, <1>2, <2>2, <2>3, <2>4, <2>5, <2>6 DEF HearInv, LiveInv, NoteInv
<1>5. CASE status \notin {"running", "waiting_for_approval"}
  BY <1>2, <1>5 DEF LiveInv, Terminal, Statuses
<1> QED BY <1>1, <1>3, <1>4, <1>5 DEF ResumeApproved

\* A replay that goes on goes on listening, and its last step begins a turn.
LEMMA ReplayHears ==
  ASSUME UInv, HearInv, ~ended', NEW e \in Execs, NEW c \in Calls, Replay(e, c)
  PROVE  HearInv'
<1>1. /\ LiveInv /\ UNCHANGED <<row, flight, deferred, ended>> /\ ~exec[e].aborted
      /\ exec[e].pc \in {"resuming", "again"} /\ exec[e] \in ExecType
  BY DEF Replay, HearInv, UInv, TypeOK, ExecType
<1>2. ~Terminal(status) /\ status # "none"
  BY <1>1 DEF LiveInv, HearInv, Busy
<1>3. CASE exec[e].todo = {c}
  <2>1. SetExec(e, Thinking) /\ status' = "running" /\ ctrl' \in {None, e}
    BY <1>2, <1>3 DEF Replay, BeginTurn
  <2>2. Thinking \in ExecType /\ Thinking.pc = "thinking" /\ ~Thinking.aborted
    BY SlotTypes DEF Thinking, Idle
  <2>3. ~Terminal(status')
    BY <2>1 DEF Terminal
  <2>4. exec[e].pc # "acting" /\ status' # "waiting_for_approval" /\ status' # "none"
    BY <1>1, <2>1
  <2> QED BY <1>1, <2>1, <2>2, <2>3, <2>4, ChainMovesHear
<1>4. CASE exec[e].todo # {c}
  <2> DEFINE x == [exec[e] EXCEPT !.todo = @ \ {c}]
  <2>1. x \in ExecType /\ x.pc = exec[e].pc /\ ~x.aborted
    BY <1>1 DEF ExecType
  <2>2. SetExec(e, x) /\ UNCHANGED <<status, ctrl>>
    BY <1>4 DEF Replay
  <2> HIDE DEF x
  <2>3. exec[e].pc # "acting" /\ x.pc \in {"resuming", "thinking", "acting", "again"}
    BY <1>1, <2>1
  <2>4. TurnListens(e) => x.pc \in {"thinking", "acting", "again"}
    BY <2>1 DEF TurnListens
  <2> QED BY <1>1, <1>2, <2>1, <2>2, <2>3, <2>4, ChainMovesHear
<1> QED BY <1>3, <1>4

\* A crash takes the note with the turns it was left for.
LEMMA CrashHears ==
  ASSUME UInv, HearInv, ~ended', Crash
  PROVE  HearInv'
<1>1. /\ UNCHANGED <<status, row, ended>> /\ status # "none" /\ flight' = {}
      /\ ctrl' = None /\ ~deferred' /\ \A e \in Execs : exec'[e] = Idle
  BY DEF Crash, storeVars
<1>2. ~Terminal(status')
  BY <1>1 DEF HearInv, LiveInv
<1> QED BY <1>1, <1>2 DEF HearInv, LiveInv, FlightsAreAwaited, NoteInv, Idle

\* Every step keeps HearInv.
LEMMA NextHears == UInv /\ HearInv /\ [Next]_vars => HearInv'
<1> SUFFICES ASSUME UInv, HearInv, [Next]_vars PROVE HearInv'
  OBVIOUS
<1>0. ended \in BOOLEAN
  BY DEF UInv, TypeOK
<1>1. CASE UNCHANGED vars
  BY <1>1 DEF vars, HearInv, LiveInv, FlightsAreAwaited, NoteInv, Listens, TurnListens,
     Pending, Busy
<1>2. CASE Next /\ ended'
  BY <1>2, RunsStay DEF HearInv
<1>3. CASE Next /\ ~ended'
  <2>1. ~ended
    BY <1>3, RunsStay
  <2>2. ASSUME NEW e \in Execs, CreateRun(e) \/ TurnGoesOn(e) \/ Replays(e) PROVE HearInv'
    <3>1. CASE \E batch \in SUBSET unused : ModelStep(e, batch)
      BY <1>3, <3>1, ModelStepHears
    <3>2. CASE Replays(e)
      BY <1>3, <3>2, ReplayHears DEF Replays
    <3>3. CASE CreateRun(e) \/ StepEnd(e) \/ Finish(e) \/ Settle(e) \/ Publish(e) \/ TurnThrows(e)
      <4>1. ended' = ended
        BY <1>0, <1>3, <2>1, <3>3 DEF CreateRun, StepEnd, Finish, Settle, Publish, TurnThrows
      <4> QED BY <1>3, <3>3, <4>1, TurnsHear
    <3> QED BY <2>2, <3>1, <3>2, <3>3 DEF TurnGoesOn
  <2>3. ASSUME NEW c \in Calls, Gate(c) \/ Reject(c) PROVE HearInv'
    BY <1>3, <2>3, GateHears DEF Reject
  <2>4. ASSUME NEW c \in Calls, NEW how \in Approved, Approve(c, how) PROVE HearInv'
    BY <1>3, <2>4, ApproveHears
  <2>5. CASE Cancel \/ Crash
    BY <1>3, <2>5, CrashHears DEF Cancel
  <2> QED BY <1>3, <2>2, <2>3, <2>4, <2>5 DEF Next
<1> QED BY <1>0, <1>1, <1>2, <1>3

\* A note left for a running turn finds a chain that will look at it, as long as the
\* run has not ended: for any number of calls and chains, answers at any moment, calls
\* side by side and crashes (agent-turn.ts and resumeAfterApproval together).
THEOREM NotesAreHeard == Spec => []DeferredIsHeard
<1>1. Init => HearInv
  <2> SUFFICES ASSUME Init PROVE HearInv
    OBVIOUS
  <2>1. /\ \A e \in Execs : exec[e].pc = "idle" /\ ~exec[e].aborted
        /\ \A c \in Calls : row[c] # "pending"
        /\ flight = {} /\ ~deferred /\ ctrl = None /\ status = "none"
    BY DEF Init, Idle
  <2> QED BY <2>1 DEF HearInv, LiveInv, FlightsAreAwaited, NoteInv, Busy, Pending, Terminal
<1>2. HearInv => DeferredIsHeard
  BY DEF HearInv, LiveInv, NoteInv, DeferredIsHeard
<1> QED BY <1>1, <1>2, NextHears, UInvHolds, PTL DEF Spec
=============================================================================
