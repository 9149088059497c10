------------------------------- MODULE Approvals -------------------------------
(***************************************************************************)
(* The approval of tool calls in one direct run: the gates a call passes,  *)
(* the approval rows, the answers of people, the turns that execute the    *)
(* run, the resume after an answer with its replay of the waiting steps,   *)
(* cancellation, and a crash of the process.                               *)
(*                                                                         *)
(* An executor is one promise chain that drives the run: createRun or a    *)
(* resume, followed by the turns it nests.  Nothing in the code limits a   *)
(* run to one of them, so the model gives each a slot of Execs.            *)
(***************************************************************************)
EXTENDS Naturals, FiniteSets

CONSTANTS
    Calls,      \* tool call identifiers, each used by one call of the model
    Scopes,     \* canonical approval scopes
    Family,     \* the family an allow_family answer of a scope covers
    Execs,      \* executor slots (a bound: at most this many chains at a time)
    None,       \* no controller, no approval
    Shapes,     \* the circumstances of a run, see ShapeType
    MaxCrashes  \* a bound on process crashes

(***************************************************************************)
(* scope  the canonical scope of each call                                 *)
(* outer  the calls that the permission gate of tool-service.ts stops; the *)
(*        others are stopped by the policy gate inside ToolServiceImpl     *)
(* early  people answer a card as soon as it shows up, not only when the   *)
(*        run already waits                                                *)
(* width  how many calls the model makes in one step                       *)
(***************************************************************************)
ShapeType == [scope : [Calls -> Scopes], outer : SUBSET Calls,
              early : BOOLEAN, width : Nat]

ASSUME ApprovalsAssumption ==
    /\ Shapes \subseteq ShapeType
    /\ IsFiniteSet(Calls)
    /\ None \notin Calls /\ None \notin Execs
    /\ MaxCrashes \in Nat
    /\ Family \in [Scopes -> Scopes]

VARIABLES
    shape,      \* the circumstances, chosen once
    status,     \* runs.status of the run
    row,        \* the approval row each call created, if any
    step,       \* output.status of the run step of each call
    asks,       \* approvalId in the output of a waiting step
    result,     \* what the model got back from each call
    unused,     \* calls the model has not made yet
    flight,     \* calls between the run check of invoke and their gate
    exec,       \* each executor: where it is, what it replays, its last step
    ctrl,       \* runAbortControllers: whose controller is registered
    deferred,   \* deferredApprovalResumes has the run
    allowed,    \* ApprovedRunScopeTracker: one-shot scopes of the run
    ran,        \* how often each tool call has executed (capped at 2)
    crashes,
    ended       \* history: the run has been saved with a terminal status

storeVars == <<status, row, step, asks>>
vars == <<shape, status, row, step, asks, result, unused, flight, exec, ctrl,
          deferred, allowed, ran, crashes, ended>>

Statuses == {"none", "running", "waiting_for_approval", "completed", "failed",
             "cancelled"}
Terminal(s) == s \in {"completed", "failed", "cancelled"}

Idle == [pc |-> "idle", todo |-> {}, batch |-> {}, aborted |-> FALSE]
Thinking == [Idle EXCEPT !.pc = "thinking"]
InTurn == {"thinking", "acting", "settling", "publishing", "again"}

TypeOK ==
    /\ shape \in Shapes
    /\ status \in Statuses
    /\ row \in [Calls -> {"none", "pending", "once", "always", "family",
                          "rejected", "deleted"}]
    /\ step \in [Calls -> {"none", "waiting", "ok", "blocked"}]
    /\ asks \in [Calls -> Calls \cup {None}]
    /\ result \in [Calls -> {"none", "ran", "waits", "blocked"}]
    /\ unused \subseteq Calls
    /\ flight \subseteq Calls
    /\ exec \in [Execs -> [pc : {"idle", "resuming"} \cup InTurn,
                           todo : SUBSET Calls, batch : SUBSET Calls,
                           aborted : BOOLEAN]]
    /\ ctrl \in Execs \cup {None}
    /\ deferred \in BOOLEAN
    /\ allowed \subseteq Scopes
    /\ ran \in [Calls -> 0..2]
    /\ crashes \in 0..MaxCrashes
    /\ ended \in BOOLEAN

Init ==
    /\ shape \in Shapes
    /\ status = "none"
    /\ row = [c \in Calls |-> "none"]
    /\ step = [c \in Calls |-> "none"]
    /\ asks = [c \in Calls |-> None]
    /\ result = [c \in Calls |-> "none"]
    /\ unused = Calls
    /\ flight = {}
    /\ exec = [e \in Execs |-> Idle]
    /\ ctrl = None
    /\ deferred = FALSE
    /\ allowed = {}
    /\ ran = [c \in Calls |-> 0]
    /\ crashes = 0
    /\ ended = FALSE

-----------------------------------------------------------------------------
(* The rows, the grants and the list of steps to replay.                   *)

Pending == {c \in Calls : row[c] = "pending"}
Approved == {"once", "always", "family"}

\* A persisted grant of any call covers the scope.
Granted(s) ==
    \E d \in Calls : \/ row[d] = "always" /\ shape.scope[d] = s
                     \/ row[d] = "family" /\ Family[shape.scope[d]] = Family[s]

\* Fault: the rows are not looked at.
AwaitingReplay_AllWaiting(rows) == {c \in Calls : step[c] = "waiting"}

\* The waiting steps whose own call has no pending row.
AwaitingReplay(rows) ==
    {c \in Calls : step[c] = "waiting" /\ rows[c] # "pending"}

SetExec(e, x) == exec' = [exec EXCEPT ![e] = x]

\* Fault: the result of a replay is saved with a run's status.
Execute_RunStatus(c) ==
    /\ ran' = [ran EXCEPT ![c] = IF @ < 2 THEN @ + 1 ELSE 2]
    /\ step' = [step EXCEPT ![c] = "completed"]

\* The tool of c executes.
Execute(c) ==
    /\ ran' = [ran EXCEPT ![c] = IF @ < 2 THEN @ + 1 ELSE 2]
    /\ step' = [step EXCEPT ![c] = "ok"]

-----------------------------------------------------------------------------
(* A turn.                                                                 *)

\* Fault: a run that has ended is begun again.
BeginTurn_AnyStatus(e, nested) ==
    SetExec(e, Thinking) /\ status' = "running" /\ ctrl' = (IF nested THEN None ELSE e)

(***************************************************************************)
(* executeDirectTurn up to its first await: nothing for a run that has     *)
(* ended, else the run is saved running and a new controller replaces the  *)
(* registered one.  A nested turn is returned from inside the try block of *)
(* the turn before it, whose finally clause then unregisters the           *)
(* controller of the nested turn.                                          *)
(***************************************************************************)
BeginTurn(e, nested) ==
    /\ IF Terminal(status)
       THEN SetExec(e, Idle) /\ UNCHANGED status
       ELSE SetExec(e, Thinking) /\ status' = "running"
    /\ ctrl' = IF nested THEN None
               ELSE IF Terminal(status) THEN ctrl ELSE e

\* The turn of e returns: its finally clause unregisters the controller.
Leave(e) == SetExec(e, Idle) /\ ctrl' = None

\* createRun saves the run and starts its first turn.
CreateRun(e) ==
    /\ status = "none"
    /\ BeginTurn(e, FALSE)
    /\ UNCHANGED <<shape, row, step, asks, result, unused, flight, deferred,
                   allowed, ran, crashes, ended>>

\* The model makes the calls of one step; ToolServiceImpl.invoke returns at
\* once for a run that was cancelled or has failed, while the calls the
\* permission gate looks at first get past it.
ModelStep(e, batch) ==
    /\ exec[e].pc = "thinking" /\ ~exec[e].aborted
    /\ batch # {} /\ Cardinality(batch) <= shape.width
    /\ LET refused == IF status \in {"cancelled", "failed"}
                      THEN batch \ shape.outer ELSE {}
       IN /\ flight' = flight \cup (batch \ refused)
          /\ result' = [c \in Calls |-> IF c \in refused THEN "blocked"
                                        ELSE result[c]]
    /\ unused' = unused \ batch
    /\ SetExec(e, [exec[e] EXCEPT !.pc = "acting", !.batch = batch])
    /\ UNCHANGED <<storeVars, shape, ctrl, deferred, allowed, ran, crashes, ended>>

\* Where the gate of a call decides, after its await.
AtGate(c) ==
    /\ c \in flight
    /\ flight' = flight \ {c}
    /\ UNCHANGED <<shape, status, unused, exec, ctrl, deferred, crashes, ended>>

\* Fault: the policy gate asks nobody.
Permitted_Open(c) == c \notin shape.outer \/ shape.scope[c] \in allowed

\* The permission gate only looks whether a one-shot scope is there; the
\* policy gate consumes it, and otherwise accepts a persisted grant.
Permitted(c) ==
    \/ shape.scope[c] \in allowed
    \/ c \notin shape.outer /\ Granted(shape.scope[c])

GatePasses(c) ==
    /\ AtGate(c)
    /\ Permitted(c)
    /\ IF c \in shape.outer /\ status \in {"cancelled", "failed"}
       THEN result' = [result EXCEPT ![c] = "blocked"] /\ UNCHANGED <<ran, step>>
       ELSE result' = [result EXCEPT ![c] = "ran"] /\ Execute(c)
    /\ allowed' = IF c \in shape.outer THEN allowed
                  ELSE allowed \ {shape.scope[c]}
    /\ UNCHANGED <<row, asks>>

(***************************************************************************)
(* requestApproval: a pending row of the same scope is shared, else the    *)
(* call gets a row of its own.  The policy gate records a waiting step     *)
(* only for the call that owns the row, the permission gate for every call.*)
(***************************************************************************)
GateAsks(c) ==
    /\ AtGate(c)
    /\ ~Permitted(c)
    /\ LET same == {d \in Pending : shape.scope[d] = shape.scope[c]}
       IN \E id \in IF same = {} THEN {c} ELSE same :
            /\ row' = IF id = c THEN [row EXCEPT ![c] = "pending"] ELSE row
            /\ IF id = c \/ c \in shape.outer
               THEN /\ step' = [step EXCEPT ![c] = "waiting"]
                    /\ asks' = [asks EXCEPT ![c] = id]
               ELSE UNCHANGED <<step, asks>>
    /\ result' = [result EXCEPT ![c] = "waits"]
    /\ UNCHANGED <<allowed, ran>>

\* Faults: the turn goes on beside the resume; the note is dropped.
Pause_GoesOn(e) ==
    status' = "waiting_for_approval" /\ SetExec(e, Thinking) /\ UNCHANGED <<ctrl, deferred>>
Pause_DropsNote(e) ==
    status' = "waiting_for_approval" /\ Leave(e) /\ deferred' = FALSE

\* A turn that pauses for an approval: an answer that came in the meantime
\* is acted on, otherwise the run is saved waiting, whatever its row says.
Pause(e) ==
    IF deferred
    THEN /\ deferred' = FALSE
         /\ IF AwaitingReplay(row) = {}
            THEN BeginTurn(e, TRUE)
            ELSE /\ SetExec(e, [Idle EXCEPT !.pc = "again", !.todo = AwaitingReplay(row)])
                 /\ UNCHANGED <<status, ctrl>>
    ELSE /\ status' = "waiting_for_approval"
         /\ Leave(e)
         /\ UNCHANGED deferred

turnUnchanged == <<shape, row, step, asks, result, unused, flight, allowed, ran,
                   crashes>>

\* The calls of a step have returned: the loop pauses when one of them waits
\* or the run has a pending approval.
StepEnd(e) ==
    /\ exec[e].pc = "acting" /\ ~exec[e].aborted
    /\ exec[e].batch \cap flight = {}
    /\ IF Pending # {} \/ \E c \in exec[e].batch : result[c] = "waits"
       THEN Pause(e)
       ELSE SetExec(e, Thinking) /\ UNCHANGED <<status, ctrl, deferred>>
    /\ UNCHANGED <<turnUnchanged, ended>>

\* Fault: the note is not looked for.
Finish_NoNote(e) ==
    /\ exec[e].pc = "thinking" /\ ~exec[e].aborted
    /\ IF Pending # {}
       THEN Pause(e)
       ELSE /\ SetExec(e, [Idle EXCEPT !.pc = "settling"])
            /\ UNCHANGED <<status, ctrl, deferred>>
    /\ UNCHANGED <<turnUnchanged, ended>>

\* The model answers without calls: the loop looks for a pending approval, the
\* turn for a run that is no longer running and for an answer to act on.
Finish(e) ==
    /\ exec[e].pc = "thinking" /\ ~exec[e].aborted
    /\ IF Pending # {}
       THEN Pause(e)
       ELSE IF status # "running"
            THEN Leave(e) /\ UNCHANGED <<status, deferred>>
            ELSE IF deferred
                 THEN Pause(e)
                 ELSE /\ SetExec(e, [Idle EXCEPT !.pc = "settling"])
                      /\ UNCHANGED <<status, ctrl, deferred>>
    /\ UNCHANGED <<turnUnchanged, ended>>

\* After the artifacts were looked up: pending approvals again, then the outcome,
\* which a visible reply still has to be published for.
Settle(e) ==
    /\ exec[e].pc = "settling"
    /\ \/ /\ Pending # {}
          /\ status' = "waiting_for_approval"
          /\ Leave(e)
       \/ /\ Pending = {} /\ status = "cancelled"
          /\ Leave(e) /\ UNCHANGED status
       \/ /\ Pending = {} /\ status # "cancelled"
          /\ \/ status' \in {"completed", "failed"} /\ Leave(e)
             \/ /\ SetExec(e, [Idle EXCEPT !.pc = "publishing"])
                /\ UNCHANGED <<status, ctrl>>
    /\ ended' = (ended \/ Terminal(status'))
    /\ UNCHANGED <<turnUnchanged, deferred>>

\* The reply is published and the run completed, whatever its row says.
Publish(e) ==
    /\ exec[e].pc = "publishing"
    /\ status' = "completed"
    /\ Leave(e)
    /\ ended' = (ended \/ Terminal(status'))
    /\ UNCHANGED <<turnUnchanged, deferred>>

\* The model call throws: an abort after a cancellation, or another error.
TurnThrows(e) ==
    /\ exec[e].pc = "thinking" \/ (exec[e].pc = "acting" /\ exec[e].aborted)
    /\ status' = IF status = "cancelled" THEN "cancelled" ELSE "failed"
    /\ Leave(e)
    /\ ended' = (ended \/ Terminal(status'))
    /\ UNCHANGED <<turnUnchanged, deferred>>

-----------------------------------------------------------------------------
(* Answers, and the resume that follows them.                              *)

MayAnswer(c) ==
    /\ row[c] = "pending"
    /\ shape.early \/ status = "waiting_for_approval"

\* The pending rows an approval of c settles with it.
SettledWith(c, how) ==
    {d \in Pending : IF how = "family"
                     THEN Family[shape.scope[d]] = Family[shape.scope[c]]
                     ELSE shape.scope[d] = shape.scope[c]}

(***************************************************************************)
(* resumeAfterApproval up to its first await: a run that is running under  *)
(* a registered controller is left a note; a waiting run, or one no        *)
(* controller is registered for, is resumed by a new chain, which computes *)
(* the list of steps to replay once.                                       *)
(***************************************************************************)
ResumeApproved(rows) ==
    \/ /\ status = "running" /\ ctrl # None
       /\ deferred' = TRUE /\ UNCHANGED exec
    \/ /\ status = "waiting_for_approval" \/ (status = "running" /\ ctrl = None)
       /\ \E e \in Execs :
            /\ exec[e] = Idle
            /\ SetExec(e, [Idle EXCEPT !.pc = "resuming", !.todo = AwaitingReplay(rows)])
       /\ UNCHANGED deferred
    \/ /\ status \notin {"running", "waiting_for_approval"}
       /\ UNCHANGED <<deferred, exec>>

\* resolveApproval with an approval.  The scope that allow_family allows once is
\* no scope of a call.
Approve(c, how) ==
    /\ MayAnswer(c)
    /\ LET rows == [d \in Calls |-> IF d \in SettledWith(c, how) THEN how ELSE row[d]]
       IN row' = rows /\ ResumeApproved(rows)
    /\ allowed' = IF how = "family" THEN allowed ELSE allowed \cup {shape.scope[c]}
    /\ UNCHANGED <<shape, status, step, asks, result, unused, flight, ctrl, ran,
                   crashes, ended>>

\* Fault: the run is not ended.
Reject_RunStays(c) ==
    /\ MayAnswer(c)
    /\ row' = [d \in Calls |-> IF d \in Pending THEN "deleted" ELSE row[d]]
    /\ UNCHANGED <<shape, status, step, asks, result, unused, flight, exec, ctrl,
                   deferred, allowed, ran, crashes, ended>>

\* resolveApproval with a rejection: every pending row of the run is deleted
\* and the run is saved failed.
Reject(c) ==
    /\ MayAnswer(c)
    /\ row' = [d \in Calls |-> IF d \in Pending THEN "deleted" ELSE row[d]]
    /\ status' = "failed"
    /\ ended' = TRUE
    /\ UNCHANGED <<shape, step, asks, result, unused, flight, exec, ctrl, deferred,
                   allowed, ran, crashes>>

(***************************************************************************)
(* replayApprovedToolSteps invokes the next step of the list past both     *)
(* gates; a cancelled run blocks it, a failed one does not.  Whoever asked *)
(* for it, and whether the step still waits, is not looked at.  The last   *)
(* one is followed by the next turn.                                       *)
(***************************************************************************)
Replay(e, c) ==
    /\ exec[e].pc \in {"resuming", "again"}
    /\ c \in exec[e].todo
    /\ IF status = "cancelled"
       THEN /\ step' = [step EXCEPT ![c] = IF @ = "waiting" THEN "blocked" ELSE @]
            /\ UNCHANGED <<ran, allowed>>
       ELSE Execute(c) /\ allowed' = allowed \ {shape.scope[c]}
    /\ IF exec[e].todo = {c}
       THEN BeginTurn(e, exec[e].pc = "again")
       ELSE /\ SetExec(e, [exec[e] EXCEPT !.todo = @ \ {c}])
            /\ UNCHANGED <<status, ctrl>>
    /\ UNCHANGED <<shape, row, asks, result, unused, flight, deferred, crashes, ended>>

\* cancelRun: the rows are rejected and the registered controller aborted.
Cancel ==
    /\ status \in {"running", "waiting_for_approval"}
    /\ status' = "cancelled"
    /\ deferred' = FALSE
    /\ row' = [d \in Calls |-> IF d \in Pending THEN "rejected" ELSE row[d]]
    /\ exec' = [e \in Execs |-> IF e = ctrl THEN [exec[e] EXCEPT !.aborted = TRUE]
                                ELSE exec[e]]
    /\ ctrl' = None
    /\ ended' = TRUE
    /\ UNCHANGED <<shape, step, asks, result, unused, flight, allowed, ran, crashes>>

\* The process dies: what the database holds is left.
Crash ==
    /\ crashes < MaxCrashes
    /\ status # "none"
    /\ crashes' = crashes + 1
    /\ exec' = [e \in Execs |-> Idle]
    /\ flight' = {}
    /\ ctrl' = None
    /\ deferred' = FALSE
    /\ allowed' = {}
    /\ UNCHANGED <<storeVars, shape, result, unused, ran, ended>>

-----------------------------------------------------------------------------
TurnGoesOn(e) ==
    \/ \E batch \in SUBSET unused : ModelStep(e, batch)
    \/ StepEnd(e) \/ Finish(e) \/ Settle(e) \/ Publish(e) \/ TurnThrows(e)

Gate(c) == GatePasses(c) \/ GateAsks(c)
Replays(e) == \E c \in Calls : Replay(e, c)

Next ==
    \/ \E e \in Execs : CreateRun(e) \/ TurnGoesOn(e) \/ Replays(e)
    \/ \E c \in Calls : Gate(c) \/ Reject(c)
    \/ \E c \in Calls, how \in Approved : Approve(c, how)
    \/ Cancel
    \/ Crash

\* Promise chains go on as long as the process lives: the model call returns or
\* throws, gates decide, tools return.  People need not answer.
Fairness ==
    /\ \A e \in Execs : WF_vars(TurnGoesOn(e)) /\ WF_vars(Replays(e))
    /\ \A c \in Calls : WF_vars(Gate(c))

Spec == Init /\ [][Next]_vars
FairSpec == Spec /\ Fairness

-----------------------------------------------------------------------------
(* Properties.                                                             *)

\* One request at a time: people answer a waiting run only, and the calls of a
\* step cannot ask for two different scopes.
Careful == /\ ~shape.early
           /\ \/ shape.width = 1
              \/ \A c, d \in Calls : shape.scope[c] = shape.scope[d]

Runs(c) == ran'[c] > ran[c]

\* What an executor is about to replay has been answered and is not with its
\* gate any more.
ReplaysAreAnswered ==
    \A e \in Execs : \A c \in exec[e].todo :
        row[c] # "pending" /\ c \notin flight \cup unused

\* A call whose own request is still open never executes, however answers, turns,
\* cancellations and crashes interleave (approval.ts, the gates and the replay
\* of spirit-service-base.ts together).
OpenRequestsDoNotRun == [][\A c \in Calls : Runs(c) => row[c] # "pending"]_vars

\* Whatever executes was allowed by a person: the request its step waits for was
\* approved, or its scope was allowed once for the run or for good.
RunIsApproved(c) == IF asks[c] = None THEN Permitted(c) ELSE row[asks[c]] \in Approved
OnlyApprovedCallsRun == [][\A c \in Calls : Runs(c) => RunIsApproved(c)]_vars

Busy == {e \in Execs : exec[e].pc # "idle"}

\* With one request at a time, one promise chain drives the run: the resume of an
\* answer never meets the turn that asked (resumeAfterApproval, agent-turn.ts).
OneExecutor == Careful => Cardinality(Busy) <= 1

\* With one request at a time, a run that has ended never becomes live again,
\* although every save of the turn overwrites the status.
EndIsEnd == [][Careful /\ Terminal(status) => Terminal(status')]_vars

\* With one request at a time and no crash, a run that waits for an approval has
\* one that can be answered, or is being resumed: nobody waits for nothing.
WaitingIsActionable ==
    Careful /\ crashes = 0 /\ status = "waiting_for_approval" => Pending # {} \/ Busy # {}

\* The note left for a running turn (deferredApprovalResumes) finds a chain that
\* will look at it, whatever chains there are, as long as the run has not ended.
\* After an end this fails: a chain that a cancellation does not reach can save the
\* run live again, and an answer to a call the cancelled turn left at its gate may
\* then meet a turn that has looked already.
Listens(e) == exec[e].pc \in {"resuming", "thinking", "acting", "again"}
DeferredIsHeard == deferred /\ ~ended => \E e \in Execs : Listens(e)

\* In a process that does not crash, the step of an approved call is replayed or
\* blocked sooner or later, unless the run has ended meanwhile; this at any
\* moment of the answer and with calls side by side.
Undisturbed == crashes = 0 /\ ~ended
AnswersReachTheirCall ==
    \A c \in Calls :
        (Undisturbed /\ row[c] \in Approved /\ step[c] = "waiting")
        ~> (step[c] # "waiting" \/ ~Undisturbed)

\* What has become of each call, in the words of ApprovalPromise, which has none
\* for a call that the replay and the gates have executed twice.
Consent ==
    [c \in Calls |->
        LET r == IF asks[c] = None THEN "none" ELSE row[asks[c]]
        IN IF ran[c] > 1 THEN "ran twice" ELSE IF ran[c] = 1 THEN "ran"
           ELSE IF r = "pending" THEN "asked"
           ELSE IF r \in Approved THEN "allowed"
           ELSE IF r = "none" THEN "new" ELSE "refused"]

Promise == INSTANCE ApprovalPromise WITH consent <- Consent

\* With one request at a time, gates, answers, resumes, cancellations and crashes
\* implement the promise.
PromiseKept == Promise!Init /\ [][Careful => [Promise!Next]_Consent]_vars

=============================================================================
