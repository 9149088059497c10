------------------------------ MODULE GoalBoard ------------------------------
(***************************************************************************)
(* A goal and its tasks (goal-system.ts and the goals repository): the     *)
(* plan that is started, approved, paused, resumed and stopped, and the    *)
(* status updates of tasks, which cascade to the tasks that depend on them *)
(* and move the goal.  It is the goal of a direct channel, which is        *)
(* planned again on the same row; a group goal is one that is not.         *)
(***************************************************************************)
EXTENDS Naturals, FiniteSets

CONSTANTS
    MaxTasks,   \* a bound on the tasks of a plan
    MaxVersion  \* a bound on the plans made for the goal

ASSUME BoardAssumption == MaxTasks \in Nat \ {0} /\ MaxVersion \in Nat

VARIABLES
    goal,       \* goals.status
    version,    \* goals.plan_version, 0 before the first plan
    task,       \* goal_tasks.status, "none" where the plan has no task
    dep,        \* depends_on_task_id, 0 for none
    approved    \* history: implement() was called for the plan on the board

boardVars == <<goal, version, task, dep, approved>>

Task == 1..MaxTasks
Tasks == {t \in Task : task[t] # "none"}
GoalStatuses == {"planning", "running", "completed", "suspended", "cancelled"}
TaskStatuses == {"pending", "in_progress", "completed", "blocked", "cancelled",
                 "failed", "blocked_by_failure"}

BoardTypeOK ==
    /\ goal \in GoalStatuses \cup {"none"}
    /\ version \in 0..MaxVersion
    /\ task \in [Task -> TaskStatuses \cup {"none"}]
    /\ dep \in [Task -> 0..MaxTasks]
    /\ approved \in BOOLEAN

BoardInit ==
    /\ goal = "none"
    /\ version = 0
    /\ task = [t \in Task |-> "none"]
    /\ dep = [t \in Task |-> 0]
    /\ approved = FALSE

-----------------------------------------------------------------------------
(* The plan.                                                               *)

\* validatePlanTasks: at least one task, each depending on an earlier one or none.
Plans == {p \in [size : Task, dep : [Task -> 0..MaxTasks]] :
            \A t \in Task : IF t <= p.size THEN p.dep[t] < t ELSE p.dep[t] = 0}

\* The goal gets a new version, and is planned.
NewVersion ==
    /\ version < MaxVersion
    /\ version' = version + 1
    /\ goal' = "planning"
    /\ approved' = FALSE

\* start: the tasks of the plan replace those of the goal, whatever its status.
Replan(p) ==
    /\ NewVersion
    /\ dep' = p.dep
    /\ task' = [t \in Task |-> IF t > p.size THEN "none"
                               ELSE IF p.dep[t] = 0 THEN "pending" ELSE "blocked"]

\* create: a goal without tasks yet, refused while one is running.
Create ==
    /\ goal # "running"
    /\ NewVersion
    /\ task' = [t \in Task |-> "none"]
    /\ dep' = [t \in Task |-> 0]

Implementable == goal = "planning" /\ Tasks # {}

Implement ==
    /\ Implementable
    /\ goal' = "running"
    /\ approved' = TRUE
    /\ UNCHANGED <<version, task, dep>>

SetGoalStatus(from, next) ==
    /\ goal \in from
    /\ goal' = next
    /\ UNCHANGED <<version, task, dep, approved>>

PauseGoal == SetGoalStatus({"planning", "running"}, "suspended")
ResumeGoal == SetGoalStatus({"suspended"}, "running")
StopGoal == SetGoalStatus(GoalStatuses \ {"completed", "cancelled"}, "cancelled")

-----------------------------------------------------------------------------
(* The status of a task.                                                   *)

\* Sets closed under depending on a member of theirs.
Closed == {S \in SUBSET Tasks : \A u \in Tasks : dep[u] \in S => u \in S}

\* The tasks that depend on t, directly or through others.
Downstream(t) ==
    {u \in Tasks : \A S \in Closed : (\A d \in Tasks : dep[d] = t => d \in S) => u \in S}

Startable(t, s) ==
    s \in {"in_progress", "completed"} /\ dep[t] # 0 => task[dep[t]] = "completed"

\* Fault: a task that is reopened takes only the pending ones back.
Cascade_PendingOnly(t, s) ==
    [u \in Task |->
        IF u = t THEN s
        ELSE IF s = "completed"
        THEN IF dep[u] = t /\ task[u] = "blocked" THEN "pending" ELSE task[u]
        ELSE IF u \in Downstream(t) /\ task[u] = "pending" THEN "blocked" ELSE task[u]]

\* What an update of t to s makes of every task.
Cascade(t, s) ==
    [u \in Task |->
        IF u = t THEN s
        ELSE IF s = "completed"
        THEN IF dep[u] = t /\ task[u] = "blocked" THEN "pending" ELSE task[u]
        ELSE IF u \notin Downstream(t) THEN task[u]
        ELSE IF s \in {"failed", "cancelled"}
        THEN IF task[u] \in {"completed", "cancelled", "failed"} THEN task[u]
             ELSE "blocked_by_failure"
        ELSE IF task[u] \in {"pending", "in_progress"} THEN "blocked" ELSE task[u]]

All(tasks, s) == \A t \in Tasks : tasks[t] = s

\* Faults: the goal takes the status of its failed task; a completed goal is not
\* opened again.
Synced_Failed(tasks) ==
    IF \E t \in Tasks : tasks[t] = "failed" THEN "failed" ELSE goal
Synced_Final(tasks) ==
    IF goal = "cancelled" THEN goal
    ELSE IF All(tasks, "completed") THEN "completed"
    ELSE IF All(tasks, "cancelled") THEN "cancelled"
    ELSE IF \E t \in Tasks : tasks[t] \in {"failed", "blocked_by_failure"}
    THEN "suspended"
    ELSE IF goal = "completed" THEN goal ELSE "running"

\* syncGoalStatus: what the tasks make of a goal that was not stopped.
Synced(tasks) ==
    IF goal = "cancelled" THEN goal
    ELSE IF All(tasks, "completed") THEN "completed"
    ELSE IF All(tasks, "cancelled") THEN "cancelled"
    ELSE IF \E t \in Tasks : tasks[t] \in {"failed", "blocked_by_failure"}
    THEN "suspended"
    ELSE "running"

\* updateTask, by anybody, in any status of the goal.  Its caller gives the
\* handover summary that a completed task with dependents must have.
UpdateTask(t, s) ==
    /\ t \in Tasks
    /\ Startable(t, s)
    /\ task' = Cascade(t, s)
    /\ goal' = Synced(task')
    /\ UNCHANGED <<version, dep, approved>>

-----------------------------------------------------------------------------
\* What members and agents do to the board of a goal as it is, with the statuses
\* they give to tasks.
BoardStep(updates) ==
    \/ Implement \/ PauseGoal \/ ResumeGoal \/ StopGoal
    \/ \E t \in Task, s \in updates : UpdateTask(t, s)

BoardNext == BoardStep(TaskStatuses) \/ Create \/ \E p \in Plans : Replan(p)

BoardSpec == BoardInit /\ [][BoardNext]_boardVars

-----------------------------------------------------------------------------
(* Properties.                                                             *)

\* Nobody is at work on a task whose dependency is not done, whatever is
\* reopened, failed or planned again meanwhile (updateGoalTaskStatus).
StartedTasksAreReady ==
    \A t \in Tasks : task[t] = "in_progress" /\ dep[t] # 0 => task[dep[t]] = "completed"

\* The goal says completed exactly when every task of its plan is, unless it was
\* stopped: the status is not computed but kept up to date (syncGoalStatus).
CompletedIsDone ==
    goal = "completed" <=> (goal # "cancelled" /\ Tasks # {} /\ All(task, "completed"))

\* A goal that is resumed had its plan approved (goal-system.ts:209).
ResumedWasApproved == [][ResumeGoal => approved]_boardVars

=============================================================================
