-------------------------------- MODULE Goals --------------------------------
(***************************************************************************)
(* The goal of a direct channel together with a run of its agent: the      *)
(* questions the run asks, the card that asks for the approval of a plan,  *)
(* the turns that wait for an answer, the answers, and the resume after    *)
(* the last one.  Members and workflows move the board meanwhile.          *)
(*                                                                         *)
(* As in Approvals, an executor is one promise chain that drives the run,  *)
(* and what its turns do beside asking is left to the model.               *)
(***************************************************************************)
EXTENDS GoalBoard

CONSTANTS
    Questions,  \* identifiers, each used by one question
    Execs,      \* executor slots (a bound: at most this many chains at a time)
    None,       \* no executor
    Shapes,     \* the circumstances of a run, see ShapeType
    MaxCrashes  \* a bound on process crashes

(***************************************************************************)
(* early    people answer a question as soon as it shows up, not only when *)
(*          the turn that asked it has paused                              *)
(* asks     the questions the run can ask                                  *)
(* updates  the statuses that tasks are updated to                         *)
(***************************************************************************)
ShapeType == [early : BOOLEAN, asks : SUBSET Questions, updates : SUBSET TaskStatuses]

ASSUME GoalsAssumption ==
    /\ Shapes \subseteq ShapeType
    /\ None \notin Execs
    /\ MaxCrashes \in Nat

VARIABLES
    shape,      \* the circumstances, chosen once
    status,     \* runs.status of the run
    question,   \* interactive_questions.status, an answer being yes or no
    about,      \* the plan version a question of the goal was asked under, or 0
    cards,      \* the questions that ask for the approval of a plan
    exec,       \* each executor: where it is, whether a call of its step asked
    ctrl,       \* runAbortControllers: whose controller is registered
    crashes

runVars == <<shape, status, question, about, cards, exec, ctrl, crashes>>
vars == <<boardVars, runVars>>

Statuses == {"none", "running", "waiting_for_input", "completed", "failed", "cancelled"}
Terminal == {"completed", "failed", "cancelled"}
Answered == {"yes", "no"}

Idle == [pc |-> "idle", asked |-> FALSE, aborted |-> FALSE]
At(pc) == [Idle EXCEPT !.pc = pc]

TypeOK ==
    /\ BoardTypeOK
    /\ shape \in Shapes
    /\ status \in Statuses
    /\ question \in [Questions -> {"none", "pending", "superseded"} \cup Answered]
    /\ about \in [Questions -> 0..MaxVersion]
    /\ cards \subseteq Questions
    /\ exec \in [Execs -> [pc : {"idle", "thinking", "acting", "publishing", "resuming"},
                           asked : BOOLEAN, aborted : BOOLEAN]]
    /\ ctrl \in Execs \cup {None}
    /\ crashes \in 0..MaxCrashes

Init ==
    /\ BoardInit
    /\ shape \in Shapes
    /\ status = "none"
    /\ question = [q \in Questions |-> "none"]
    /\ about = [q \in Questions |-> 0]
    /\ cards = {}
    /\ exec = [e \in Execs |-> Idle]
    /\ ctrl = None
    /\ crashes = 0

-----------------------------------------------------------------------------
Pending == {q \in Questions : question[q] = "pending"}
Busy == {e \in Execs : exec[e].pc # "idle"}

SetExec(e, x) == exec' = [exec EXCEPT ![e] = x]

\* Fault: the questions about the plan before stay open.
SupersedeOld_Stay == UNCHANGED question

\* start and create dismiss the pending questions of the goal.
SupersedeOld ==
    question' = [q \in Questions |-> IF q \in Pending /\ about[q] # 0
                                     THEN "superseded" ELSE question[q]]

\* The board moves: members through the API and agents with their tools, or
\* a workflow or another agent of the channel plans the goal.
MoveBoard ==
    \/ BoardStep(shape.updates) /\ UNCHANGED runVars
    \/ /\ Create \/ \E p \in Plans : Replan(p)
       /\ SupersedeOld
       /\ UNCHANGED <<shape, status, about, cards, exec, ctrl, crashes>>

-----------------------------------------------------------------------------
(* A turn.                                                                 *)

\* executeDirectTurn up to its first await.
BeginTurn(e) ==
    IF status \in Terminal
    THEN SetExec(e, Idle) /\ UNCHANGED <<status, ctrl>>
    ELSE SetExec(e, At("thinking")) /\ status' = "running" /\ ctrl' = e

\* The turn of e returns: its finally clause unregisters the controller.
Leave(e) == SetExec(e, Idle) /\ ctrl' = None

turnUnchanged == UNCHANGED <<boardVars, shape, question, about, cards, crashes>>

CreateRun(e) ==
    /\ status = "none"
    /\ BeginTurn(e)
    /\ turnUnchanged

ModelStep(e) ==
    /\ exec[e].pc = "thinking" /\ ~exec[e].aborted
    /\ SetExec(e, At("acting"))
    /\ turnUnchanged /\ UNCHANGED <<status, ctrl>>

\* A call of the step is at its tool.  A cancelled run is refused at once.
Calls(e) == exec[e].pc = "acting" /\ status # "cancelled"

\* The question is saved, and the run as waiting for it; v is the plan version
\* it is about, 0 for a question without a goal.  The call throws at its end.
Posts(e, q, v) ==
    /\ q \in shape.asks /\ question[q] = "none"
    /\ about' = [about EXCEPT ![q] = v]
    /\ status' = "waiting_for_input"
    /\ SetExec(e, [exec[e] EXCEPT !.asked = TRUE])
    /\ UNCHANGED <<shape, ctrl, crashes>>

\* question.ask, with or without the goal's id.
Ask(e, q) ==
    /\ Calls(e)
    /\ \E v \in {0, version} : Posts(e, q, v)
    /\ question' = [question EXCEPT ![q] = "pending"]
    /\ UNCHANGED <<cards, boardVars>>

\* goal.start: an open card of the run is waited for, an answered one answers
\* the call, a running goal needs none.
AsksForPlan(e, q, p) ==
    /\ Calls(e)
    /\ \A c \in cards : question[c] = "superseded"
    /\ goal # "running"
    /\ Replan(p)
    /\ Posts(e, q, version')
    /\ question' = [c \in Questions |-> IF c = q THEN "pending"
                                        ELSE IF c \in Pending /\ about[c] # 0
                                        THEN "superseded" ELSE question[c]]
    /\ cards' = cards \cup {q}

WaitsForCard(e) ==
    /\ Calls(e)
    /\ cards \cap Pending # {}
    /\ SetExec(e, [exec[e] EXCEPT !.asked = TRUE])
    /\ turnUnchanged /\ UNCHANGED <<status, ctrl>>

\* The turn of e ends in waitForInput, which saves the run as waiting, whatever
\* its row says.
WaitForInput(e) == Leave(e) /\ status' = "waiting_for_input"

\* The calls of the step have returned: the loop pauses when one of them asked or
\* a question of the run is open.
StepEnd(e) ==
    /\ exec[e].pc = "acting" /\ ~exec[e].aborted
    /\ IF exec[e].asked \/ Pending # {}
       THEN WaitForInput(e)
       ELSE SetExec(e, At("thinking")) /\ UNCHANGED <<status, ctrl>>
    /\ turnUnchanged

\* The model answers without calls: the loop looks for an open question, the turn
\* for a run that is no longer running, and the reply is looked after.
Finish(e) ==
    /\ exec[e].pc = "thinking" /\ ~exec[e].aborted
    /\ IF Pending # {}
       THEN WaitForInput(e)
       ELSE IF status # "running"
            THEN Leave(e) /\ UNCHANGED status
            ELSE SetExec(e, At("publishing")) /\ UNCHANGED <<status, ctrl>>
    /\ turnUnchanged

\* The reply is published and the run ended; a cancellation is noticed unless it
\* comes last.
Publish(e) ==
    /\ exec[e].pc = "publishing"
    /\ \/ status' \in {"completed", "failed"}
       \/ status = "cancelled" /\ UNCHANGED status
    /\ Leave(e)
    /\ turnUnchanged

\* The model call throws: an abort after a cancellation, or another error.
TurnThrows(e) ==
    /\ exec[e].pc = "thinking" \/ (exec[e].pc = "acting" /\ exec[e].aborted)
    /\ status' = IF status = "cancelled" THEN "cancelled" ELSE "failed"
    /\ Leave(e)
    /\ turnUnchanged

-----------------------------------------------------------------------------
(* Answers, and the resume that follows the last one.                      *)

\* What a person can answer or dismiss.
MayResolve(q) ==
    /\ question[q] = "pending"
    /\ shape.early \/ (status = "waiting_for_input" /\ Busy = {})

\* Faults: the run goes on after any answer; the questions are counted before
\* the answer is saved.
AllResolved_Any(state) == \E q \in Questions : state[q] \in Answered
AllResolved_Before(state) == \A q \in Questions : question[q] # "pending"

AllResolved(state) == \A q \in Questions : state[q] # "pending"

\* resumeAfterInput: a new chain, which starts with the replay of approved steps.
Resume(state) ==
    IF status = "waiting_for_input" /\ AllResolved(state)
    THEN /\ \E e \in Execs : exec[e].pc = "idle" /\ SetExec(e, At("resuming"))
         /\ UNCHANGED status
    ELSE UNCHANGED <<exec, status>>

\* An answer that does not stop the plan.  The yes to a card implements the goal
\* as it is now; that it cannot be is swallowed.
Answer(q, a) ==
    /\ MayResolve(q)
    /\ a = "no" => q \notin cards
    /\ question' = [question EXCEPT ![q] = a]
    /\ IF q \in cards /\ Implementable THEN Implement ELSE UNCHANGED boardVars
    /\ Resume(question')
    /\ UNCHANGED <<shape, about, cards, ctrl, crashes>>

\* "No, stop" to a card dismisses the other questions of the run; a waiting run
\* is failed.
RejectPlan(q) ==
    /\ MayResolve(q) /\ q \in cards
    /\ question' = [c \in Questions |-> IF c = q THEN "no"
                                        ELSE IF c \in Pending THEN "superseded"
                                        ELSE question[c]]
    /\ status' = IF status = "waiting_for_input" THEN "failed" ELSE status
    /\ UNCHANGED <<boardVars, shape, about, cards, exec, ctrl, crashes>>

\* supersede, by the API: nothing is resumed.
Dismiss(q) ==
    /\ MayResolve(q)
    /\ question' = [question EXCEPT ![q] = "superseded"]
    /\ UNCHANGED <<boardVars, shape, status, about, cards, exec, ctrl, crashes>>

\* The replay of the resumed chain is followed by a turn, or it throws, and the
\* run that still waits is failed.
Resumes(e) ==
    /\ exec[e].pc = "resuming"
    /\ \/ BeginTurn(e)
       \/ /\ SetExec(e, Idle)
          /\ status' = IF status = "waiting_for_input" THEN "failed" ELSE status
          /\ UNCHANGED ctrl
    /\ turnUnchanged

-----------------------------------------------------------------------------
\* cancelRun: the questions are dismissed and the registered controller aborted.
CancelRun ==
    /\ status \in {"running", "waiting_for_input"}
    /\ status' = "cancelled"
    /\ question' = [q \in Questions |-> IF q \in Pending THEN "superseded"
                                        ELSE question[q]]
    /\ exec' = [e \in Execs |-> IF e = ctrl THEN [exec[e] EXCEPT !.aborted = TRUE]
                                ELSE exec[e]]
    /\ ctrl' = None
    /\ UNCHANGED <<boardVars, shape, about, cards, crashes>>

\* The process dies: what the database holds is left.
Crash ==
    /\ crashes < MaxCrashes
    /\ status # "none"
    /\ crashes' = crashes + 1
    /\ exec' = [e \in Execs |-> Idle]
    /\ ctrl' = None
    /\ UNCHANGED <<boardVars, shape, status, question, about, cards>>

-----------------------------------------------------------------------------
Turn(e) ==
    \/ CreateRun(e) \/ ModelStep(e) \/ WaitsForCard(e) \/ StepEnd(e)
    \/ Finish(e) \/ Publish(e) \/ TurnThrows(e) \/ Resumes(e)
    \/ \E q \in Questions : Ask(e, q) \/ \E p \in Plans : AsksForPlan(e, q, p)

Next ==
    \/ MoveBoard
    \/ \E e \in Execs : Turn(e)
    \/ \E q \in Questions : RejectPlan(q) \/ Dismiss(q) \/ \E a \in Answered : Answer(q, a)
    \/ CancelRun
    \/ Crash

Spec == Init /\ [][Next]_vars

-----------------------------------------------------------------------------
(* Properties.                                                             *)

\* An open question about the plan is about the plan on the board: a yes never
\* implements a plan that has been replaced since the card was posted (start and
\* create of goal-system.ts, goal.start).
OpenQuestionsAreCurrent ==
    \A q \in Pending : about[q] # 0 => about[q] = version

\* "Only resume once *every* question this run posted has been resolved": where
\* people answer runs that have paused, the model is never asked for a step, nor is
\* a resume under way, while a question of the run is open (goal-system.ts:654).
NoPartialResume ==
    ~shape.early => \A e \in Execs : exec[e].pc \in {"thinking", "publishing", "resuming"}
                                => Pending = {}

\* Where people answer runs that have paused, and dismiss nothing, a run that
\* waits has a question to answer or is being resumed, unless the process died
\* between the last answer and the resume.
WaitingHasQuestion ==
    ~shape.early /\ crashes = 0 /\ status = "waiting_for_input" =>
        \/ Pending # {}
        \/ Busy # {}
        \/ \E q \in Questions : question[q] = "superseded"

=============================================================================
