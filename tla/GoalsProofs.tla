----------------------------- MODULE GoalsProofs -----------------------------
(***************************************************************************)
(* For any number of tasks, questions, executors, plans and crashes: the   *)
(* board of a goal is consistent, an open question is about the plan on    *)
(* the board, and a run is not resumed before its last answer.             *)
(***************************************************************************)
EXTENDS Goals, TLAPS

\* A task depends on an earlier one or on none.
PlanOK == \A t \in Task : dep[t] < t

BoardInv == BoardTypeOK /\ PlanOK /\ StartedTasksAreReady /\ CompletedIsDone

-----------------------------------------------------------------------------
(* The board.                                                              *)

\* A task that depends on t is downstream of it.
LEMMA DependentsAreDownstream ==
  ASSUME NEW t \in Task, NEW u \in Tasks, dep[u] = t
  PROVE  u \in Downstream(t)
BY DEF Downstream

\* An update gives every other task a status of its own, starts none of them, and
\* neither completes one nor takes its completion back.
LEMMA CascadeFacts ==
  ASSUME BoardTypeOK, NEW t \in Tasks, NEW s \in TaskStatuses
  PROVE  /\ Cascade(t, s) \in [Task -> TaskStatuses \cup {"none"}]
         /\ \A u \in Task : Cascade(t, s)[u] # "none" <=> task[u] # "none"
         /\ Cascade(t, s)[t] = s
         /\ \A u \in Task \ {t} :
              /\ Cascade(t, s)[u] = "completed" <=> task[u] = "completed"
              /\ Cascade(t, s)[u] = "in_progress" =>
                    /\ task[u] = "in_progress"
                    /\ s = "completed" \/ u \notin Downstream(t)
<1>1. t \in Task /\ s # "none"
  BY DEF Tasks, TaskStatuses
<1>2. \A u \in Downstream(t) : task[u] # "none"
  BY DEF Downstream, Tasks
<1> DEFINE c == Cascade(t, s)
<1>3. c = [u \in Task |-> c[u]]
  BY DEF Cascade
<1>4. c[t] = s
  BY <1>1 DEF Cascade
<1>5. ASSUME NEW u \in Task \ {t}
      PROVE  \/ c[u] = task[u] /\ (s = "completed" \/ u \notin Downstream(t))
             \/ c[u] \in {"pending", "blocked", "blocked_by_failure"}
                /\ task[u] \notin {"none", "completed"}
             \/ c[u] = task[u] /\ task[u] # "in_progress"
  <2>1. CASE s = "completed"
    BY <2>1 DEF Cascade
  <2>2. CASE s # "completed" /\ u \notin Downstream(t)
    BY <2>2 DEF Cascade
  <2>3. CASE s # "completed" /\ u \in Downstream(t)
    BY <1>2, <2>3 DEF Cascade
  <2> QED BY <2>1, <2>2, <2>3
<1>6. \A u \in Task : task[u] \in TaskStatuses \cup {"none"}
  BY DEF BoardTypeOK
<1>7. \A u \in Task : c[u] \in TaskStatuses \cup {"none"}
  BY <1>4, <1>5, <1>6 DEF TaskStatuses
<1>8. c \in [Task -> TaskStatuses \cup {"none"}]
  BY <1>3, <1>7
<1>9. task[t] # "none"
  BY DEF Tasks
<1> HIDE DEF c
<1>10. /\ c \in [Task -> TaskStatuses \cup {"none"}]
       /\ \A u \in Task : c[u] # "none" <=> task[u] # "none"
       /\ c[t] = s
       /\ \A u \in Task \ {t} :
            /\ c[u] = "completed" <=> task[u] = "completed"
            /\ c[u] = "in_progress" =>
                  /\ task[u] = "in_progress"
                  /\ s = "completed" \/ u \notin Downstream(t)
  BY <1>1, <1>4, <1>5, <1>8, <1>9
<1> QED BY <1>10 DEF c

\* A board without tasks has its type.
LEMMA NoTasksTyped ==
  /\ 0 \in 0..MaxTasks /\ 0 \in 0..MaxVersion
  /\ [t \in Task |-> "none"] \in [Task -> TaskStatuses \cup {"none"}]
  /\ [t \in Task |-> 0] \in [Task -> 0..MaxTasks]
<1>1. 0 \in 0..MaxTasks /\ 0 \in 0..MaxVersion
  BY BoardAssumption
<1>2. "none" \in TaskStatuses \cup {"none"}
  OBVIOUS
<1> QED BY <1>1, <1>2

\* The initial state.
LEMMA BoardInitially == BoardInit => BoardInv
<1> SUFFICES ASSUME BoardInit PROVE BoardInv
  OBVIOUS
<1>1. Tasks = {} /\ goal = "none"
  BY DEF BoardInit, Tasks
<1>2. BoardTypeOK
  BY NoTasksTyped DEF BoardInit, BoardTypeOK
<1>3. PlanOK
  BY BoardAssumption DEF BoardInit, PlanOK, Task
<1> QED BY <1>1, <1>2, <1>3 DEF BoardInv, StartedTasksAreReady, CompletedIsDone

\* An update keeps the invariant: the tasks it starts are ready, those it leaves
\* started depend on none it takes back, and the goal follows its tasks.
LEMMA UpdateKeepsBoard ==
  ASSUME BoardInv, NEW t \in Task, NEW s \in TaskStatuses, UpdateTask(t, s)
  PROVE  BoardInv'
<1> DEFINE new == Cascade(t, s)
<1>1. /\ t \in Tasks /\ task' = new /\ goal' = Synced(new) /\ Startable(t, s)
      /\ dep' = dep /\ version' = version /\ approved' = approved
  BY DEF UpdateTask
<1>2. BoardTypeOK /\ PlanOK
  BY DEF BoardInv
<1>3. /\ new \in [Task -> TaskStatuses \cup {"none"}]
      /\ \A u \in Task : new[u] # "none" <=> task[u] # "none"
      /\ new[t] = s
      /\ \A u \in Task \ {t} :
           /\ new[u] = "completed" <=> task[u] = "completed"
           /\ new[u] = "in_progress" =>
                 /\ task[u] = "in_progress"
                 /\ s = "completed" \/ u \notin Downstream(t)
  BY <1>1, <1>2, CascadeFacts
<1>4. Tasks' = Tasks
  BY <1>1, <1>3 DEF Tasks
<1>5. BoardTypeOK'
  <2>1. goal' \in GoalStatuses \cup {"none"}
    BY <1>1, <1>2 DEF Synced, BoardTypeOK, GoalStatuses
  <2> QED BY <1>1, <1>2, <1>3, <2>1 DEF BoardTypeOK
<1>6. PlanOK'
  BY <1>1, <1>2 DEF PlanOK
<1>7. StartedTasksAreReady'
  <2> SUFFICES ASSUME NEW u \in Tasks, new[u] = "in_progress", dep[u] # 0
               PROVE  new[dep[u]] = "completed"
    BY <1>1, <1>4 DEF StartedTasksAreReady
  <2>1. u \in Task /\ dep[u] \in Task /\ dep[u] # u
    BY <1>2, BoardAssumption DEF Tasks, BoardTypeOK, PlanOK, Task
  <2>2. CASE u = t
    <3>1. s = "in_progress"
      BY <1>3, <2>2
    <3>2. task[dep[u]] = "completed"
      BY <1>1, <2>2, <3>1 DEF Startable
    <3> QED BY <1>3, <2>1, <2>2, <3>2
  <2>3. CASE u # t
    <3>1. /\ task[u] = "in_progress"
          /\ s = "completed" \/ u \notin Downstream(t)
      BY <1>3, <2>1, <2>3
    <3>2. task[dep[u]] = "completed"
      BY <3>1 DEF BoardInv, StartedTasksAreReady
    <3>3. CASE dep[u] = t
      BY <1>3, <3>1, <3>3, DependentsAreDownstream
    <3>4. CASE dep[u] # t
      BY <1>3, <2>1, <3>2, <3>4
    <3> QED BY <3>3, <3>4
  <2> QED BY <2>2, <2>3
<1>8. CompletedIsDone'
  <2>1. CompletedIsDone' <=>
          (goal' = "completed" <=> (goal' # "cancelled" /\ Tasks # {} /\ All(new, "completed")))
    BY <1>1, <1>4 DEF CompletedIsDone, All
  <2>2. Tasks # {}
    BY <1>1
  <2>3. CASE goal = "cancelled"
    BY <1>1, <2>1, <2>3 DEF Synced
  <2>4. CASE goal # "cancelled" /\ All(new, "completed")
    BY <1>1, <2>1, <2>2, <2>4 DEF Synced
  <2>5. CASE goal # "cancelled" /\ ~All(new, "completed")
    BY <1>1, <2>1, <2>5 DEF Synced
  <2> QED BY <2>3, <2>4, <2>5
<1> QED BY <1>5, <1>6, <1>7, <1>8 DEF BoardInv

\* Planning the goal anew keeps the invariant: no task is started or done.
LEMMA PlanningKeepsBoard ==
  ASSUME BoardInv, Create \/ \E p \in Plans : Replan(p)
  PROVE  BoardInv' /\ version' = version + 1 /\ version' \in 0..MaxVersion
<1> USE BoardAssumption
<1>1. NewVersion
  BY DEF Create, Replan
<1>2. /\ goal' = "planning" /\ version' = version + 1
      /\ version' \in 0..MaxVersion /\ approved' = FALSE
  BY <1>1 DEF NewVersion, BoardInv, BoardTypeOK
<1>3. CASE Create
  <2>1. task' = [t \in Task |-> "none"] /\ dep' = [t \in Task |-> 0]
    BY <1>3 DEF Create
  <2>2. Tasks' = {}
    BY <2>1 DEF Tasks
  <2>3. BoardTypeOK'
    BY <1>2, <2>1, NoTasksTyped DEF BoardTypeOK, GoalStatuses
  <2>4. PlanOK'
    BY <2>1 DEF PlanOK, Task
  <2> QED BY <1>2, <2>2, <2>3, <2>4 DEF BoardInv, StartedTasksAreReady, CompletedIsDone
<1>4. CASE \E p \in Plans : Replan(p)
  <2>1. PICK p \in Plans : Replan(p)
    BY <1>4
  <2>2. /\ p.size \in Task /\ p.dep \in [Task -> 0..MaxTasks]
        /\ \A t \in Task : IF t <= p.size THEN p.dep[t] < t ELSE p.dep[t] = 0
    BY DEF Plans
  <2>3. /\ dep' = p.dep
        /\ task' = [t \in Task |-> IF t > p.size THEN "none"
                                   ELSE IF p.dep[t] = 0 THEN "pending" ELSE "blocked"]
    BY <2>1 DEF Replan
  <2>4. BoardTypeOK'
    BY <1>2, <2>2, <2>3 DEF BoardTypeOK, GoalStatuses, TaskStatuses
  <2>5. PlanOK'
    BY <2>2, <2>3 DEF PlanOK, Task
  <2>6. \A t \in Task : task'[t] \in {"none", "pending", "blocked"}
    BY <2>3
  <2>7. StartedTasksAreReady'
    BY <2>6 DEF StartedTasksAreReady, Tasks
  <2>8. CompletedIsDone'
    BY <1>2, <2>6 DEF CompletedIsDone, Tasks, All
  <2> QED BY <1>2, <2>4, <2>5, <2>7, <2>8 DEF BoardInv
<1> QED BY <1>3, <1>4

\* Every step of the board keeps the invariant.
LEMMA StepKeepsBoard ==
  ASSUME BoardInv, NEW updates \in SUBSET TaskStatuses, BoardStep(updates)
  PROVE  BoardInv' /\ version' = version
<1>1. CASE Implement \/ PauseGoal \/ ResumeGoal \/ StopGoal
  <2>1. /\ goal \notin {"completed", "cancelled"}
        /\ goal' \in {"running", "suspended", "cancelled"}
        /\ UNCHANGED <<version, task, dep>>
        /\ approved' \in BOOLEAN
    BY <1>1 DEF Implement, Implementable, PauseGoal, ResumeGoal, StopGoal,
                SetGoalStatus, GoalStatuses, BoardInv, BoardTypeOK
  <2>2. Tasks' = Tasks
    BY <2>1 DEF Tasks
  <2>3. BoardTypeOK' /\ PlanOK'
    BY <2>1 DEF BoardInv, BoardTypeOK, PlanOK, GoalStatuses
  <2>4. StartedTasksAreReady'
    BY <2>1, <2>2 DEF BoardInv, StartedTasksAreReady
  <2>5. CompletedIsDone'
    BY <2>1, <2>2 DEF BoardInv, CompletedIsDone, All
  <2> QED BY <2>1, <2>3, <2>4, <2>5 DEF BoardInv
<1>2. CASE \E t \in Task, s \in updates : UpdateTask(t, s)
  BY <1>2, UpdateKeepsBoard DEF UpdateTask
<1> QED BY <1>1, <1>2 DEF BoardStep

-----------------------------------------------------------------------------
(* The run.                                                                *)

\* Where people answer runs that have paused, one chain drives the run, and only
\* its step can have a question open.
OneChain == ~shape.early => \A e, f \in Busy : e = f

\* A run that was never started has no chain and no question.
NotStarted == status = "none" => Busy = {} /\ Pending = {}

RunTypeOK ==
    /\ shape \in Shapes
    /\ status \in Statuses
    /\ question \in [Questions -> {"none", "pending", "superseded"} \cup Answered]
    /\ about \in [Questions -> 0..MaxVersion]
    /\ cards \subseteq Questions
    /\ exec \in [Execs -> [pc : {"idle", "thinking", "acting", "publishing", "resuming"},
                           asked : BOOLEAN, aborted : BOOLEAN]]
    /\ ctrl \in Execs \cup {None}
    /\ crashes \in 0..MaxCrashes

RunInv == RunTypeOK /\ NotStarted /\ OneChain /\ NoPartialResume
GInv == BoardInv /\ RunInv /\ OpenQuestionsAreCurrent

PCs == {"idle", "thinking", "acting", "publishing", "resuming"}

\* The initial state.
LEMMA Initially == Init => GInv
<1> SUFFICES ASSUME Init PROVE GInv
  OBVIOUS
<1>1. Pending = {} /\ Busy = {}
  BY DEF Init, Pending, Busy, Idle
<1>2. \A e \in Execs : exec[e].pc = "idle"
  BY DEF Init, Idle
<1>3. RunTypeOK
  BY NoTasksTyped, GoalsAssumption DEF Init, RunTypeOK, Statuses, Idle
<1>4. BoardInv
  BY BoardInitially DEF Init
<1> QED BY <1>1, <1>2, <1>3, <1>4 DEF GInv, RunInv, NotStarted, OneChain,
           NoPartialResume, OpenQuestionsAreCurrent

(***************************************************************************)
(* A chain that takes a step keeps the invariant of the run when it was at *)
(* work, or nobody was, when it moves on only with no question open, and   *)
(* when questions are opened by a step only.                               *)
(***************************************************************************)
LEMMA ChainKeepsRun ==
  ASSUME RunInv, RunTypeOK', NEW e \in Execs, NEW x, SetExec(e, x),
         UNCHANGED shape, status' # "none",
         ~shape.early => exec[e].pc # "idle" \/ Busy = {},
         x.pc \in PCs,
         ~shape.early /\ x.pc \notin {"idle", "acting"} => Pending' = {},
         Pending' \subseteq Pending \/ exec[e].pc = "acting"
  PROVE  RunInv'
<1>1. exec' = [exec EXCEPT ![e] = x] /\ exec \in [Execs -> [pc : PCs, asked : BOOLEAN, aborted : BOOLEAN]]
  BY DEF SetExec, RunInv, RunTypeOK, PCs
<1>2. \A f \in Execs : exec'[f] = IF f = e THEN x ELSE exec[f]
  BY <1>1
<1>3. NotStarted'
  BY DEF NotStarted
<1>4. ASSUME ~shape.early, NEW f \in Busy', f # e
      PROVE  FALSE
  <2>1. f \in Busy
    BY <1>2, <1>4 DEF Busy
  <2>2. e \in Busy
    BY <1>4, <2>1 DEF Busy
  <2> QED BY <1>4, <2>1, <2>2 DEF RunInv, OneChain
<1>5. OneChain'
  BY <1>4 DEF OneChain
<1>6. NoPartialResume'
  <2> SUFFICES ASSUME ~shape.early, NEW f \in Execs,
                      exec'[f].pc \in {"thinking", "publishing", "resuming"}
               PROVE  Pending' = {}
    BY DEF NoPartialResume
  <2>1. f = e
    BY <1>4 DEF Busy
  <2> QED BY <1>2, <2>1
<1> QED BY <1>3, <1>5, <1>6 DEF RunInv

\* What happens to the questions and the status alone keeps the invariant, when it
\* opens none.
LEMMA AnswersKeepRun ==
  ASSUME RunInv, RunTypeOK', UNCHANGED <<shape, exec>>, Pending' \subseteq Pending,
         status' = "none" => status = "none"
  PROVE  RunInv'
<1>1. Busy' = Busy
  BY DEF Busy
<1> QED BY <1>1 DEF RunInv, NotStarted, OneChain, NoPartialResume

\* A board that nothing happens to keeps its invariant.
LEMMA BoardAtRest == BoardInv /\ UNCHANGED boardVars => BoardInv' /\ version' = version
BY DEF BoardInv, boardVars, BoardTypeOK, PlanOK, StartedTasksAreReady, CompletedIsDone,
       Tasks, All

\* The records that the chains take, and the slots they leave.
LEMMA ExecTyped ==
  ASSUME RunTypeOK, NEW e \in Execs
  PROVE  /\ \A pc \in PCs : At(pc) \in [pc : PCs, asked : BOOLEAN, aborted : BOOLEAN]
         /\ \A pc \in PCs : At(pc).pc = pc
         /\ Idle.pc = "idle"
         /\ Idle \in [pc : PCs, asked : BOOLEAN, aborted : BOOLEAN]
         /\ exec[e] \in [pc : PCs, asked : BOOLEAN, aborted : BOOLEAN]
         /\ \A x \in [pc : PCs, asked : BOOLEAN, aborted : BOOLEAN] :
              SetExec(e, x) => exec' \in [Execs -> [pc : PCs, asked : BOOLEAN, aborted : BOOLEAN]]
         /\ e \in Execs \cup {None} /\ None \in Execs \cup {None}
<1>1. exec \in [Execs -> [pc : PCs, asked : BOOLEAN, aborted : BOOLEAN]]
  BY DEF RunTypeOK, PCs
<1>2. Idle.pc = "idle" /\ Idle \in [pc : PCs, asked : BOOLEAN, aborted : BOOLEAN]
  BY DEF Idle, PCs
<1>3. ASSUME NEW pc \in PCs
      PROVE  At(pc) \in [pc : PCs, asked : BOOLEAN, aborted : BOOLEAN] /\ At(pc).pc = pc
  BY <1>2 DEF At
<1>4. ASSUME NEW x \in [pc : PCs, asked : BOOLEAN, aborted : BOOLEAN], SetExec(e, x)
      PROVE  exec' \in [Execs -> [pc : PCs, asked : BOOLEAN, aborted : BOOLEAN]]
  BY <1>1, <1>4 DEF SetExec
<1> QED BY <1>1, <1>2, <1>3, <1>4

(***************************************************************************)
(* A turn or a resume that leaves the questions and the board alone: it    *)
(* was at work, or the run had not been started, and it goes on to think,  *)
(* publish or resume only when no question is open.                        *)
(***************************************************************************)
LEMMA QuietTurn ==
  ASSUME GInv, NEW e \in Execs, turnUnchanged,
         NEW x \in [pc : PCs, asked : BOOLEAN, aborted : BOOLEAN], SetExec(e, x),
         status' \in Statuses \ {"none"}, ctrl' \in Execs \cup {None},
         exec[e].pc # "idle" \/ status = "none",
         x.pc \notin {"idle", "acting"} => (shape.early \/ Pending = {})
  PROVE  GInv'
<1>1. BoardInv' /\ version' = version
  BY BoardAtRest DEF GInv, turnUnchanged
<1>2. UNCHANGED <<shape, question, about, cards, crashes>> /\ Pending' = Pending
  BY DEF turnUnchanged, Pending
<1>3. RunTypeOK /\ RunInv
  BY DEF GInv, RunInv
<1>4. RunTypeOK'
  BY <1>2, <1>3, ExecTyped DEF RunTypeOK, PCs
<1>5. ~shape.early => exec[e].pc # "idle" \/ Busy = {}
  BY <1>3 DEF RunInv, NotStarted
<1>6. RunInv'
  BY <1>2, <1>3, <1>4, <1>5, ChainKeepsRun
<1>7. OpenQuestionsAreCurrent'
  BY <1>1, <1>2 DEF GInv, OpenQuestionsAreCurrent
<1> QED BY <1>1, <1>6, <1>7 DEF GInv

\* The turns that begin, step, end and throw.
LEMMA TurnsKeepInv ==
  ASSUME GInv, NEW e \in Execs,
         CreateRun(e) \/ ModelStep(e) \/ WaitsForCard(e) \/ StepEnd(e) \/ Finish(e)
            \/ Publish(e) \/ TurnThrows(e) \/ Resumes(e)
  PROVE  GInv'
<1> DEFINE Rec == [pc : PCs, asked : BOOLEAN, aborted : BOOLEAN]
<1>1. RunTypeOK /\ RunInv /\ NotStarted
  BY DEF GInv, RunInv
<1>2. /\ \A pc \in PCs : At(pc) \in Rec /\ At(pc).pc = pc
      /\ Idle.pc = "idle" /\ Idle \in Rec /\ exec[e] \in Rec
      /\ e \in Execs \cup {None} /\ None \in Execs \cup {None}
  BY <1>1, ExecTyped
<1>3. /\ At("thinking") \in Rec /\ At("thinking").pc = "thinking"
      /\ At("acting") \in Rec /\ At("acting").pc = "acting"
      /\ At("publishing") \in Rec /\ At("publishing").pc = "publishing"
      /\ [exec[e] EXCEPT !.asked = TRUE] \in Rec
      /\ [exec[e] EXCEPT !.asked = TRUE].pc = exec[e].pc
  <2>1. "thinking" \in PCs /\ "acting" \in PCs /\ "publishing" \in PCs
    BY DEF PCs
  <2>2. /\ [exec[e] EXCEPT !.asked = TRUE] \in Rec
        /\ [exec[e] EXCEPT !.asked = TRUE].pc = exec[e].pc
    BY <1>2
  <2> QED BY <1>2, <2>1, <2>2
<1>4. exec[e].pc # "idle" => status # "none"
  BY <1>1 DEF NotStarted, Busy
<1>5. /\ status \in Statuses /\ ctrl \in Execs \cup {None}
      /\ "running" \in Statuses \ {"none"} /\ "waiting_for_input" \in Statuses \ {"none"}
      /\ "completed" \in Statuses \ {"none"} /\ "failed" \in Statuses \ {"none"}
      /\ "cancelled" \in Statuses \ {"none"}
  BY <1>1 DEF RunTypeOK, Statuses
<1>6. exec[e].pc \in {"thinking", "publishing", "resuming"} => shape.early \/ Pending = {}
  BY <1>1 DEF RunInv, NoPartialResume
<1>7. CASE CreateRun(e)
  <2>1. status \notin Terminal /\ Pending = {}
    BY <1>1, <1>7 DEF CreateRun, Terminal, NotStarted
  <2>2. turnUnchanged /\ SetExec(e, At("thinking")) /\ status' = "running" /\ ctrl' = e
    BY <1>7, <2>1 DEF CreateRun, BeginTurn
  <2>3. status = "none"
    BY <1>7 DEF CreateRun
  <2> QED BY <1>2, <1>3, <1>5, <2>1, <2>2, <2>3, QuietTurn
<1>8. CASE ModelStep(e)
  <2>1. /\ turnUnchanged /\ SetExec(e, At("acting")) /\ status' = status /\ ctrl' = ctrl
        /\ exec[e].pc = "thinking"
    BY <1>8 DEF ModelStep
  <2> QED BY <1>3, <1>4, <1>5, <2>1, QuietTurn
<1>9. CASE WaitsForCard(e)
  <2>1. /\ turnUnchanged /\ SetExec(e, [exec[e] EXCEPT !.asked = TRUE])
        /\ status' = status /\ ctrl' = ctrl /\ exec[e].pc = "acting"
    BY <1>9 DEF WaitsForCard, Calls
  <2> QED BY <1>3, <1>4, <1>5, <2>1, QuietTurn
<1>10. CASE StepEnd(e)
  <2>1. turnUnchanged /\ exec[e].pc = "acting"
    BY <1>10 DEF StepEnd
  <2>2. CASE exec[e].asked \/ Pending # {}
    <3>1. SetExec(e, Idle) /\ status' = "waiting_for_input" /\ ctrl' = None
      BY <1>10, <2>2 DEF StepEnd, WaitForInput, Leave
    <3> QED BY <1>2, <1>5, <2>1, <3>1, QuietTurn
  <2>3. CASE ~exec[e].asked /\ Pending = {}
    <3>1. SetExec(e, At("thinking")) /\ status' = status /\ ctrl' = ctrl
      BY <1>10, <2>3 DEF StepEnd
    <3> QED BY <1>3, <1>4, <1>5, <2>1, <2>3, <3>1, QuietTurn
  <2> QED BY <2>2, <2>3
<1>11. CASE Finish(e)
  <2>1. turnUnchanged /\ exec[e].pc = "thinking"
    BY <1>11 DEF Finish
  <2>2. CASE Pending # {}
    <3>1. SetExec(e, Idle) /\ status' = "waiting_for_input" /\ ctrl' = None
      BY <1>11, <2>2 DEF Finish, WaitForInput, Leave
    <3> QED BY <1>2, <1>5, <2>1, <3>1, QuietTurn
  <2>3. CASE Pending = {} /\ status # "running"
    <3>1. SetExec(e, Idle) /\ status' = status /\ ctrl' = None
      BY <1>11, <2>3 DEF Finish, Leave
    <3> QED BY <1>2, <1>4, <1>5, <2>1, <3>1, QuietTurn
  <2>4. CASE Pending = {} /\ status = "running"
    <3>1. SetExec(e, At("publishing")) /\ status' = status /\ ctrl' = ctrl
      BY <1>11, <2>4 DEF Finish
    <3> QED BY <1>3, <1>4, <1>5, <2>1, <2>4, <3>1, QuietTurn
  <2> QED BY <2>2, <2>3, <2>4
<1>12. CASE Publish(e)
  <2>1. /\ turnUnchanged /\ SetExec(e, Idle) /\ ctrl' = None
        /\ exec[e].pc = "publishing" /\ status' \in {"completed", "failed", "cancelled"}
    BY <1>12 DEF Publish, Leave
  <2> QED BY <1>2, <1>5, <2>1, QuietTurn
<1>13. CASE TurnThrows(e)
  <2>1. /\ turnUnchanged /\ SetExec(e, Idle) /\ ctrl' = None
        /\ exec[e].pc # "idle" /\ status' \in {"failed", "cancelled"}
    BY <1>13 DEF TurnThrows, Leave
  <2> QED BY <1>2, <1>5, <2>1, QuietTurn
<1>14. CASE Resumes(e)
  <2>1. turnUnchanged /\ exec[e].pc = "resuming"
    BY <1>14 DEF Resumes
  <2>2. \/ /\ SetExec(e, Idle) /\ ctrl' = ctrl
           /\ status' = status \/ status' = "failed"
        \/ SetExec(e, At("thinking")) /\ status' = "running" /\ ctrl' = e
    BY <1>14 DEF Resumes, BeginTurn
  <2>3. CASE SetExec(e, Idle) /\ ctrl' = ctrl /\ (status' = status \/ status' = "failed")
    BY <1>2, <1>4, <1>5, <2>1, <2>3, QuietTurn
  <2>4. CASE SetExec(e, At("thinking")) /\ status' = "running" /\ ctrl' = e
    BY <1>2, <1>3, <1>5, <1>6, <2>1, <2>4, QuietTurn
  <2> QED BY <2>2, <2>3, <2>4
<1> QED BY <1>7, <1>8, <1>9, <1>10, <1>11, <1>12, <1>13, <1>14

\* A call that posts a question: its step stays where it was, and the question is
\* about the plan the board has then.
LEMMA PostKeepsInv ==
  ASSUME GInv, NEW e \in Execs, NEW q \in Questions, NEW v \in 0..MaxVersion,
         Calls(e), Posts(e, q, v), v = 0 \/ v = version', cards' \subseteq Questions,
         BoardInv',
         NEW rest \in SUBSET Questions, rest \subseteq Pending,
         question' = [c \in Questions |-> IF c = q THEN "pending"
                                          ELSE IF c \in rest
                                          THEN "superseded" ELSE question[c]],
         version' = version \/ \A c \in Pending \ rest : about[c] = 0
  PROVE  GInv'
<1> DEFINE x == [exec[e] EXCEPT !.asked = TRUE]
<1>1. RunTypeOK /\ RunInv /\ exec[e].pc = "acting" /\ exec[e].pc \in PCs
  BY DEF GInv, RunInv, Calls, PCs
<1>2. /\ SetExec(e, x) /\ about' = [about EXCEPT ![q] = v]
      /\ status' = "waiting_for_input" /\ UNCHANGED <<shape, ctrl, crashes>>
  BY DEF Posts
<1>3. exec[e] \in [pc : PCs, asked : BOOLEAN, aborted : BOOLEAN]
  BY <1>1, ExecTyped
<1>4. x \in [pc : PCs, asked : BOOLEAN, aborted : BOOLEAN] /\ x.pc = exec[e].pc
  BY <1>3
<1>5. exec' \in [Execs -> [pc : PCs, asked : BOOLEAN, aborted : BOOLEAN]]
  BY <1>1, <1>2, <1>4, ExecTyped
<1>6. about' \in [Questions -> 0..MaxVersion]
  BY <1>1, <1>2 DEF RunTypeOK
<1>7. question' \in [Questions -> {"none", "pending", "superseded"} \cup Answered]
  BY <1>1 DEF RunTypeOK
<1>8. RunTypeOK'
  BY <1>1, <1>2, <1>5, <1>6, <1>7 DEF RunTypeOK, PCs, Statuses
<1>9. RunInv'
  BY <1>1, <1>2, <1>4, <1>8, ChainKeepsRun DEF PCs
<1>10. OpenQuestionsAreCurrent'
  <2> SUFFICES ASSUME NEW c \in Pending', about'[c] # 0 PROVE about'[c] = version'
    BY DEF OpenQuestionsAreCurrent
  <2>1. c \in Questions
    BY DEF Pending
  <2>2. CASE c = q
    BY <1>1, <1>2, <2>1, <2>2 DEF RunTypeOK
  <2>3. CASE c # q
    <3>1. c \in Pending \ rest /\ about'[c] = about[c]
      BY <1>1, <1>2, <2>1, <2>3 DEF RunTypeOK, Pending
    <3> QED BY <3>1 DEF GInv, OpenQuestionsAreCurrent
  <2> QED BY <2>2, <2>3
<1> QED BY <1>9, <1>10 DEF GInv

\* question.ask and goal.start.
LEMMA AsksKeepInv ==
  ASSUME GInv, NEW e \in Execs, NEW q \in Questions,
         Ask(e, q) \/ \E p \in Plans : AsksForPlan(e, q, p)
  PROVE  GInv'
<1>1. BoardInv /\ version \in 0..MaxVersion /\ RunTypeOK
  BY DEF GInv, RunInv, BoardInv, BoardTypeOK
<1>2. CASE Ask(e, q)
  <2>1. PICK v \in {0, version} : Posts(e, q, v)
    BY <1>2 DEF Ask
  <2>2. Calls(e) /\ question' = [question EXCEPT ![q] = "pending"] /\ cards' = cards
        /\ UNCHANGED boardVars
    BY <1>2 DEF Ask
  <2>3. BoardInv' /\ version' = version
    BY <1>1, <2>2, BoardAtRest
  <2> DEFINE rest == {}
  <2>4. question' = [c \in Questions |-> IF c = q THEN "pending"
                                         ELSE IF c \in rest
                                         THEN "superseded" ELSE question[c]]
    BY <1>1, <2>2 DEF RunTypeOK
  <2>5. v \in 0..MaxVersion /\ (v = 0 \/ v = version')
    BY <1>1, <2>3, NoTasksTyped
  <2>6. cards' \subseteq Questions
    BY <1>1, <2>2 DEF RunTypeOK
  <2>7. rest \in SUBSET Questions /\ rest \subseteq Pending
    OBVIOUS
  <2> HIDE DEF rest
  <2> QED BY <2>1, <2>2, <2>3, <2>4, <2>5, <2>6, <2>7, PostKeepsInv
<1>3. CASE \E p \in Plans : AsksForPlan(e, q, p)
  <2>1. PICK p \in Plans : AsksForPlan(e, q, p)
    BY <1>3
  <2> DEFINE rest == {c \in Pending : about[c] # 0}
  <2>2. Calls(e) /\ Replan(p) /\ Posts(e, q, version') /\ cards' = cards \cup {q}
    BY <2>1 DEF AsksForPlan
  <2>3. BoardInv' /\ version' \in 0..MaxVersion
    BY <1>1, <2>2, PlanningKeepsBoard
  <2>4. question' = [c \in Questions |-> IF c = q THEN "pending"
                                         ELSE IF c \in rest
                                         THEN "superseded" ELSE question[c]]
    BY <2>1 DEF AsksForPlan
  <2>5. rest \in SUBSET Questions /\ rest \subseteq Pending
        /\ \A c \in Pending \ rest : about[c] = 0
    BY DEF Pending
  <2>6. cards' \subseteq Questions
    BY <1>1, <2>2 DEF RunTypeOK
  <2> HIDE DEF rest
  <2> QED BY <2>2, <2>3, <2>4, <2>5, <2>6, PostKeepsInv
<1> QED BY <1>2, <1>3

\* The board moves, and with a new plan its open questions are dismissed.
LEMMA BoardMovesKeepInv ==
  ASSUME GInv, MoveBoard
  PROVE  GInv'
<1>1. BoardInv /\ RunInv /\ RunTypeOK
  BY DEF GInv, RunInv
<1>2. CASE BoardStep(shape.updates) /\ UNCHANGED runVars
  <2>1. shape.updates \in SUBSET TaskStatuses
    BY <1>1, GoalsAssumption DEF RunTypeOK, ShapeType
  <2>2. BoardInv' /\ version' = version
    BY <1>1, <1>2, <2>1, StepKeepsBoard
  <2>3. UNCHANGED <<shape, status, question, about, cards, exec, ctrl, crashes>>
        /\ Pending' = Pending
    BY <1>2 DEF runVars, Pending
  <2>4. RunTypeOK'
    BY <1>1, <2>3 DEF RunTypeOK
  <2>5. RunInv'
    BY <1>1, <2>3, <2>4, AnswersKeepRun
  <2>6. OpenQuestionsAreCurrent'
    BY <2>2, <2>3 DEF GInv, OpenQuestionsAreCurrent
  <2> QED BY <2>2, <2>5, <2>6 DEF GInv
<1>3. CASE /\ Create \/ \E p \in Plans : Replan(p)
           /\ SupersedeOld
           /\ UNCHANGED <<shape, status, about, cards, exec, ctrl, crashes>>
  <2>1. BoardInv'
    BY <1>1, <1>3, PlanningKeepsBoard
  <2>2. question' \in [Questions -> {"none", "pending", "superseded"} \cup Answered]
    BY <1>1, <1>3 DEF SupersedeOld, RunTypeOK
  <2>3. \A q \in Pending' : q \in Pending /\ about[q] = 0
    BY <1>3 DEF SupersedeOld, Pending
  <2>4. RunTypeOK'
    BY <1>1, <1>3, <2>2 DEF RunTypeOK
  <2>5. RunInv'
    BY <1>1, <1>3, <2>3, <2>4, AnswersKeepRun
  <2>6. OpenQuestionsAreCurrent'
    BY <1>3, <2>3 DEF OpenQuestionsAreCurrent
  <2> QED BY <2>1, <2>5, <2>6 DEF GInv
<1> QED BY <1>2, <1>3 DEF MoveBoard

-----------------------------------------------------------------------------
(* Answers, cancellation and crashes.                                      *)

\* A person's answer that opens no question and moves no plan.
LEMMA AnswerKeepsInv ==
  ASSUME GInv, NEW q \in Questions, NEW a \in Answered, Answer(q, a)
  PROVE  GInv'
<1>1. BoardInv /\ RunInv /\ RunTypeOK
  BY DEF GInv, RunInv
<1>2. /\ question' = [question EXCEPT ![q] = a] /\ MayResolve(q) /\ Resume(question')
      /\ UNCHANGED <<shape, about, cards, ctrl, crashes>>
  BY DEF Answer
<1>3. BoardInv' /\ version' = version
  <2>1. CASE Implement
    <3>1. BoardStep({})
      BY <2>1 DEF BoardStep
    <3> QED BY <1>1, <3>1, StepKeepsBoard
  <2>2. CASE UNCHANGED boardVars
    BY <1>1, <2>2, BoardAtRest
  <2> QED BY <2>1, <2>2 DEF Answer
<1>4. Pending' \subseteq Pending
      /\ question' \in [Questions -> {"none", "pending", "superseded"} \cup Answered]
  BY <1>1, <1>2 DEF Pending, Answered, RunTypeOK
<1>5. OpenQuestionsAreCurrent'
  BY <1>2, <1>3, <1>4 DEF GInv, OpenQuestionsAreCurrent
<1>6. CASE UNCHANGED <<exec, status>>
  <2>1. RunTypeOK'
    BY <1>1, <1>2, <1>4, <1>6 DEF RunTypeOK
  <2>2. RunInv'
    BY <1>1, <1>2, <1>4, <1>6, <2>1, AnswersKeepRun
  <2> QED BY <1>3, <1>5, <2>2 DEF GInv
<1>7. CASE /\ status = "waiting_for_input" /\ AllResolved(question')
           /\ \E e \in Execs : exec[e].pc = "idle" /\ SetExec(e, At("resuming"))
           /\ UNCHANGED status
  <2>1. PICK e \in Execs : exec[e].pc = "idle" /\ SetExec(e, At("resuming"))
    BY <1>7
  <2>2. Pending' = {}
    BY <1>7 DEF AllResolved, Pending
  <2>3. /\ At("resuming") \in [pc : PCs, asked : BOOLEAN, aborted : BOOLEAN]
        /\ At("resuming").pc = "resuming" /\ "resuming" \in PCs
    BY <1>1, ExecTyped DEF PCs
  <2>4. exec' \in [Execs -> [pc : PCs, asked : BOOLEAN, aborted : BOOLEAN]]
    BY <1>1, <2>1, <2>3, ExecTyped
  <2>5. RunTypeOK'
    BY <1>1, <1>2, <1>4, <1>7, <2>4 DEF RunTypeOK, PCs
  <2>6. ~shape.early => Busy = {}
    BY <1>2 DEF MayResolve
  <2>7. UNCHANGED shape /\ status' # "none"
    BY <1>2, <1>7
  <2>8. RunInv'
    BY <1>1, <1>4, <2>1, <2>2, <2>3, <2>5, <2>6, <2>7, ChainKeepsRun
  <2> QED BY <1>3, <1>5, <2>8 DEF GInv
<1> QED BY <1>2, <1>6, <1>7 DEF Resume

\* A rejection or a dismissal.
LEMMA DismissalsKeepInv ==
  ASSUME GInv, NEW q \in Questions, RejectPlan(q) \/ Dismiss(q)
  PROVE  GInv'
<1>1. BoardInv /\ RunInv /\ RunTypeOK
  BY DEF GInv, RunInv
<1>2. /\ question' \in [Questions -> {"none", "pending", "superseded"} \cup Answered]
      /\ Pending' \subseteq Pending
      /\ UNCHANGED <<shape, about, cards, exec, ctrl, crashes>> /\ UNCHANGED boardVars
      /\ status' \in Statuses /\ (status' = "none" => status = "none")
  BY <1>1 DEF RejectPlan, Dismiss, RunTypeOK, Answered, Pending, Statuses
<1>3. BoardInv' /\ version' = version
  BY <1>1, <1>2, BoardAtRest
<1>4. RunTypeOK'
  BY <1>1, <1>2 DEF RunTypeOK
<1>5. RunInv'
  BY <1>1, <1>2, <1>4, AnswersKeepRun
<1>6. OpenQuestionsAreCurrent'
  BY <1>2, <1>3 DEF GInv, OpenQuestionsAreCurrent
<1> QED BY <1>3, <1>5, <1>6 DEF GInv

\* A cancellation or a crash: no chain becomes busy.
LEMMA StopsKeepInv ==
  ASSUME GInv, CancelRun \/ Crash
  PROVE  GInv'
<1>1. BoardInv /\ RunInv /\ RunTypeOK
  BY DEF GInv, RunInv
<1>2. /\ question' \in [Questions -> {"none", "pending", "superseded"} \cup Answered]
      /\ Pending' \subseteq Pending
      /\ UNCHANGED <<shape, about, cards>> /\ UNCHANGED boardVars
      /\ status' \in Statuses /\ status' # "none" /\ ctrl' = None
      /\ crashes' \in 0..MaxCrashes
  <2>1. CASE CancelRun
    BY <1>1, <2>1 DEF CancelRun, RunTypeOK, Pending, Statuses
  <2>2. CASE Crash
    BY <1>1, <2>2, GoalsAssumption DEF Crash, RunTypeOK, Pending
  <2> QED BY <2>1, <2>2
<1>3. \A e \in Execs : /\ exec'[e].pc \in {exec[e].pc, "idle"}
                       /\ exec'[e] \in [pc : PCs, asked : BOOLEAN, aborted : BOOLEAN]
  <2>1. CASE CancelRun
    <3>1. \A e \in Execs : exec[e] \in [pc : PCs, asked : BOOLEAN, aborted : BOOLEAN]
      BY <1>1, ExecTyped
    <3> QED BY <2>1, <3>1 DEF CancelRun
  <2>2. CASE Crash
    BY <1>1, <2>2, ExecTyped DEF Crash
  <2> QED BY <2>1, <2>2
<1>4. exec' \in [Execs -> [pc : PCs, asked : BOOLEAN, aborted : BOOLEAN]]
  BY <1>3 DEF CancelRun, Crash
<1>5. RunTypeOK'
  BY <1>1, <1>2, <1>4 DEF RunTypeOK, PCs
<1>6. Busy' \subseteq Busy
  BY <1>3 DEF Busy
<1>7. RunInv'
  BY <1>1, <1>2, <1>3, <1>5, <1>6 DEF RunInv, NotStarted, OneChain, NoPartialResume
<1>8. BoardInv' /\ version' = version
  BY <1>1, <1>2, BoardAtRest
<1>9. OpenQuestionsAreCurrent'
  BY <1>2, <1>8 DEF GInv, OpenQuestionsAreCurrent
<1> QED BY <1>7, <1>8, <1>9 DEF GInv

-----------------------------------------------------------------------------
(* The theorems.                                                           *)

\* Every step keeps the invariant.
LEMMA StepsKeepInv ==
  ASSUME GInv, [Next]_vars
  PROVE  GInv'
<1>1. CASE MoveBoard
  BY <1>1, BoardMovesKeepInv
<1>2. ASSUME NEW e \in Execs, Turn(e)
      PROVE  GInv'
  BY <1>2, TurnsKeepInv, AsksKeepInv DEF Turn
<1>3. ASSUME NEW q \in Questions,
             RejectPlan(q) \/ Dismiss(q) \/ \E a \in Answered : Answer(q, a)
      PROVE  GInv'
  BY <1>3, DismissalsKeepInv, AnswerKeepsInv
<1>4. CASE CancelRun \/ Crash
  BY <1>4, StopsKeepInv
<1>5. CASE UNCHANGED vars
  <2>1. BoardInv' /\ version' = version
    BY <1>5, BoardAtRest DEF GInv, vars
  <2>2. UNCHANGED <<shape, status, question, about, cards, exec, ctrl, crashes>>
        /\ Pending' = Pending
    BY <1>5 DEF vars, runVars, Pending
  <2>3. RunTypeOK'
    BY <2>2 DEF GInv, RunInv, RunTypeOK
  <2>4. RunInv'
    BY <2>2, <2>3, AnswersKeepRun DEF GInv
  <2>5. OpenQuestionsAreCurrent'
    BY <2>1, <2>2 DEF GInv, OpenQuestionsAreCurrent
  <2> QED BY <2>1, <2>4, <2>5 DEF GInv
<1> QED BY <1>1, <1>2, <1>3, <1>4, <1>5 DEF Next

\* The invariant holds throughout.
THEOREM GoalsInvariance == Spec => []GInv
BY Initially, StepsKeepInv, PTL DEF Spec

\* The variables of the board and the run keep their types.
THEOREM GoalTypes == Spec => []TypeOK
<1>1. GInv => TypeOK
  BY DEF GInv, BoardInv, RunInv, RunTypeOK, TypeOK
<1> QED BY <1>1, GoalsInvariance, PTL

\* Nobody is at work on a task whose dependency is not done, and the goal says
\* completed exactly when its tasks are, for plans of any size and shape.
THEOREM BoardIsConsistent == Spec => [](StartedTasksAreReady /\ CompletedIsDone)
<1>1. GInv => StartedTasksAreReady /\ CompletedIsDone
  BY DEF GInv, BoardInv
<1> QED BY <1>1, GoalsInvariance, PTL

\* The goal says completed exactly when every task of its plan is, unless it was
\* stopped: syncGoalStatus is called wherever it has to be, for any plan.
THEOREM BoardStatusIsRight == Spec => []CompletedIsDone
<1>1. StartedTasksAreReady /\ CompletedIsDone => CompletedIsDone
  OBVIOUS
<1> QED BY <1>1, BoardIsConsistent, PTL

\* An open question about the plan is about the plan on the board.
THEOREM QuestionsFollowThePlan == Spec => []OpenQuestionsAreCurrent
<1>1. GInv => OpenQuestionsAreCurrent
  BY DEF GInv
<1> QED BY <1>1, GoalsInvariance, PTL

\* A paused run is not resumed before its last answer.
THEOREM ResumeIsLast == Spec => []NoPartialResume
<1>1. GInv => NoPartialResume
  BY DEF GInv, RunInv
<1> QED BY <1>1, GoalsInvariance, PTL

\* Questions, turns, answers and crashes move the board by its own steps only.
THEOREM RunsKeepToTheBoard == Spec => BoardSpec
<1>1. Init => BoardInit
  BY DEF Init
<1>2. ASSUME GInv, [Next]_vars
      PROVE  [BoardNext]_boardVars
  <2> SUFFICES ASSUME Next PROVE BoardNext \/ UNCHANGED boardVars
    BY <1>2 DEF vars
  <2>1. CASE MoveBoard
    <3>1. shape.updates \in SUBSET TaskStatuses
      BY <1>2, GoalsAssumption DEF GInv, RunInv, RunTypeOK, ShapeType
    <3>2. BoardStep(shape.updates) => BoardStep(TaskStatuses)
      BY <3>1 DEF BoardStep
    <3> QED BY <2>1, <3>2 DEF MoveBoard, BoardNext
  <2>2. ASSUME NEW e \in Execs, Turn(e) PROVE BoardNext \/ UNCHANGED boardVars
    BY <2>2 DEF Turn, CreateRun, ModelStep, WaitsForCard, StepEnd, Finish, Publish,
                TurnThrows, Resumes, Ask, AsksForPlan, turnUnchanged, BoardNext
  <2>3. ASSUME NEW q \in Questions,
               RejectPlan(q) \/ Dismiss(q) \/ \E a \in Answered : Answer(q, a)
        PROVE  BoardNext \/ UNCHANGED boardVars
    BY <2>3 DEF RejectPlan, Dismiss, Answer, BoardNext, BoardStep
  <2>4. CASE CancelRun \/ Crash
    BY <2>4 DEF CancelRun, Crash
  <2> QED BY <2>1, <2>2, <2>3, <2>4 DEF Next
<1> QED BY <1>1, <1>2, GoalsInvariance, PTL DEF Spec, BoardSpec

-----------------------------------------------------------------------------
(* A run that waits has something to wait for.                             *)

Open == Pending # {} \/ \E q \in Questions : question[q] = "superseded"

\* What a chain may be doing while the run is saved waiting for input.
MayWait(x) == x.pc \in {"idle", "resuming"} \/ (x.pc = "acting" /\ x.asked)

\* Where people answer runs that have paused: a step that asked has its question
\* until the turn pauses, and no turn goes on beside a run saved as waiting.
WaitInv ==
    ~shape.early /\ crashes = 0 =>
        /\ \A e \in Execs : exec[e].asked => exec[e].pc = "acting" /\ Open
        /\ status = "waiting_for_input" =>
              /\ \A e \in Execs : MayWait(exec[e])
              /\ Busy # {} \/ Open

\* One chain takes a step, or a new one starts.
LEMMA ChainKeepsWaiting ==
  ASSUME RunTypeOK, OneChain, WaitInv, NEW e \in Execs, NEW x, SetExec(e, x),
         UNCHANGED <<shape, crashes>>,
         exec[e].pc # "idle" \/ Busy = {},
         Open => Open',
         x.asked => x.pc = "acting" /\ Open',
         status' = "waiting_for_input" => MayWait(x) /\ (x.pc = "idle" => Open')
  PROVE  WaitInv'
<1> SUFFICES ASSUME ~shape.early, crashes = 0
             PROVE  /\ \A f \in Execs : exec'[f].asked => exec'[f].pc = "acting" /\ Open'
                    /\ status' = "waiting_for_input" =>
                          /\ \A f \in Execs : MayWait(exec'[f])
                          /\ Busy' # {} \/ Open'
  BY DEF WaitInv, MayWait
<1>1. \A f \in Execs : exec'[f] = IF f = e THEN x ELSE exec[f]
  BY DEF SetExec, RunTypeOK
<1>2. \A f \in Execs : f # e => exec[f].pc = "idle"
  BY DEF OneChain, Busy
<1>3. ASSUME NEW f \in Execs
      PROVE  exec'[f].asked => exec'[f].pc = "acting" /\ Open'
  BY <1>1 DEF WaitInv
<1>4. ASSUME status' = "waiting_for_input"
      PROVE  /\ \A f \in Execs : MayWait(exec'[f])
             /\ Busy' # {} \/ Open'
  <2>1. MayWait(x) /\ (x.pc = "idle" => Open')
    BY <1>4
  <2>2. \A f \in Execs : MayWait(exec'[f])
    BY <1>1, <1>2, <2>1 DEF MayWait
  <2>3. x.pc # "idle" => e \in Busy'
    BY <1>1 DEF Busy
  <2> QED BY <2>1, <2>2, <2>3
<1> QED BY <1>3, <1>4

\* The steps of a chain.
LEMMA TurnsKeepWaiting ==
  ASSUME GInv, WaitInv, NEW e \in Execs, Turn(e)
  PROVE  WaitInv'
<1>1. RunTypeOK /\ OneChain /\ NotStarted
  BY DEF GInv, RunInv
<1>2. /\ \A pc \in PCs : At(pc).pc = pc /\ ~At(pc).asked
      /\ Idle.pc = "idle" /\ ~Idle.asked
  BY DEF At, Idle
<1> SUFFICES ASSUME ~shape.early, crashes = 0
             PROVE  WaitInv'
  <2>1. UNCHANGED <<shape, crashes>>
    BY DEF Turn, CreateRun, ModelStep, WaitsForCard, StepEnd, Finish, Publish,
           TurnThrows, Resumes, Ask, AsksForPlan, Posts, turnUnchanged
  <2> QED BY <2>1 DEF WaitInv
<1>3. ASSUME turnUnchanged
      PROVE  UNCHANGED <<shape, crashes>> /\ Pending' = Pending /\ Open' = Open
  BY <1>3 DEF turnUnchanged, Open, Pending
<1>4. /\ exec[e].asked => exec[e].pc = "acting" /\ Open
      /\ status = "waiting_for_input" => MayWait(exec[e])
  BY DEF WaitInv
<1>5. CASE CreateRun(e)
  <2>1. SetExec(e, At("thinking")) /\ status' = "running" /\ turnUnchanged /\ Busy = {}
    BY <1>1, <1>5 DEF CreateRun, BeginTurn, Terminal, NotStarted
  <2> QED BY <1>1, <1>2, <1>3, <2>1, ChainKeepsWaiting DEF PCs
<1>6. CASE ModelStep(e)
  <2>1. /\ SetExec(e, At("acting")) /\ status' = status /\ turnUnchanged
        /\ exec[e].pc = "thinking"
    BY <1>6 DEF ModelStep
  <2>2. status' # "waiting_for_input"
    BY <1>4, <2>1 DEF MayWait
  <2> QED BY <1>1, <1>2, <1>3, <2>1, <2>2, ChainKeepsWaiting DEF PCs
<1>7. CASE WaitsForCard(e) \/ \E q \in Questions : Ask(e, q) \/ \E p \in Plans : AsksForPlan(e, q, p)
  <2> DEFINE x == [exec[e] EXCEPT !.asked = TRUE]
  <2>1. /\ SetExec(e, x) /\ UNCHANGED <<shape, crashes>>
        /\ exec[e].pc = "acting"
    BY <1>7 DEF WaitsForCard, Ask, AsksForPlan, Posts, Calls, turnUnchanged
  <2>2. x.pc = "acting" /\ x.asked
    BY <1>1, <2>1 DEF RunTypeOK
  <2>3. Pending' # {}
    <3>1. CASE WaitsForCard(e)
      BY <3>1 DEF WaitsForCard, turnUnchanged, Pending
    <3>2. ASSUME NEW q \in Questions, Ask(e, q) \/ \E p \in Plans : AsksForPlan(e, q, p)
          PROVE  Pending' # {}
      BY <1>1, <3>2 DEF Ask, AsksForPlan, Pending, RunTypeOK
    <3> QED BY <1>7, <3>1, <3>2
  <2>4. Open' /\ MayWait(x) /\ x.pc # "idle"
    BY <2>2, <2>3 DEF Open, MayWait
  <2> HIDE DEF x
  <2> QED BY <1>1, <2>1, <2>2, <2>4, ChainKeepsWaiting
<1>8. CASE StepEnd(e)
  <2>1. turnUnchanged /\ exec[e].pc = "acting"
    BY <1>8 DEF StepEnd
  <2>2. CASE exec[e].asked \/ Pending # {}
    <3>1. SetExec(e, Idle) /\ Open
      BY <1>4, <1>8, <2>2 DEF StepEnd, WaitForInput, Leave, Open
    <3> QED BY <1>1, <1>2, <1>3, <2>1, <3>1, ChainKeepsWaiting DEF MayWait
  <2>3. CASE ~(exec[e].asked \/ Pending # {})
    <3>1. SetExec(e, At("thinking")) /\ status' = status
      BY <1>8, <2>3 DEF StepEnd
    <3>2. status' # "waiting_for_input"
      BY <1>4, <2>1, <2>3, <3>1 DEF MayWait
    <3> QED BY <1>1, <1>2, <1>3, <2>1, <3>1, <3>2, ChainKeepsWaiting DEF PCs
  <2> QED BY <2>2, <2>3
<1>9. CASE Finish(e)
  <2>1. turnUnchanged /\ exec[e].pc = "thinking" /\ status # "waiting_for_input"
    BY <1>4, <1>9 DEF Finish, MayWait
  <2>2. CASE Pending # {}
    <3>1. SetExec(e, Idle) /\ Open
      BY <1>9, <2>2 DEF Finish, WaitForInput, Leave, Open
    <3> QED BY <1>1, <1>2, <1>3, <2>1, <3>1, ChainKeepsWaiting DEF MayWait
  <2>3. CASE Pending = {}
    <3>1. (SetExec(e, Idle) \/ SetExec(e, At("publishing"))) /\ status' = status
      BY <1>9, <2>3 DEF Finish, Leave
    <3>2. status' # "waiting_for_input"
      BY <2>1, <3>1
    <3> QED BY <1>1, <1>2, <1>3, <2>1, <3>1, <3>2, ChainKeepsWaiting DEF PCs
  <2> QED BY <2>2, <2>3
<1>10. CASE Publish(e) \/ TurnThrows(e)
  <2>1. /\ turnUnchanged /\ exec[e].pc # "idle" /\ SetExec(e, Idle)
        /\ status' # "waiting_for_input"
    BY <1>10 DEF Publish, TurnThrows, Leave
  <2> QED BY <1>1, <1>2, <1>3, <2>1, ChainKeepsWaiting
<1>11. CASE Resumes(e)
  <2>1. /\ turnUnchanged /\ exec[e].pc = "resuming"
        /\ SetExec(e, Idle) \/ SetExec(e, At("thinking"))
        /\ status' # "waiting_for_input"
    BY <1>11 DEF Resumes, BeginTurn, Terminal
  <2> QED BY <1>1, <1>2, <1>3, <2>1, ChainKeepsWaiting DEF PCs
<1> QED BY <1>5, <1>6, <1>7, <1>8, <1>9, <1>10, <1>11 DEF Turn

\* The board, the people and the faults.
LEMMA OthersKeepWaiting ==
  ASSUME GInv, WaitInv,
         \/ MoveBoard \/ CancelRun \/ Crash \/ UNCHANGED vars
         \/ \E q \in Questions : RejectPlan(q) \/ Dismiss(q) \/ \E a \in Answered : Answer(q, a)
  PROVE  WaitInv'
<1>1. RunTypeOK /\ OneChain
  BY DEF GInv, RunInv
<1>2. ASSUME UNCHANGED <<shape, exec, crashes>>,
             ~shape.early => (Open => Open') \/ Busy = {},
             status' = "waiting_for_input" =>
                status = "waiting_for_input" /\ (~shape.early => (Open => Open'))
      PROVE  WaitInv'
  <2>1. Busy' = Busy
    BY <1>2 DEF Busy
  <2>2. Busy = {} => \A e \in Execs : exec[e].pc # "acting"
    BY DEF Busy
  <2> QED BY <1>2, <2>1, <2>2 DEF WaitInv, MayWait
<1>3. CASE MoveBoard \/ UNCHANGED vars
  <2>1. UNCHANGED <<shape, exec, crashes, status>>
    BY <1>3 DEF MoveBoard, runVars, vars
  <2>2. Open => Open'
    <3>1. CASE UNCHANGED question
      BY <3>1 DEF Open, Pending
    <3>2. CASE SupersedeOld
      BY <3>2 DEF SupersedeOld, Open, Pending
    <3> QED BY <1>3, <3>1, <3>2 DEF MoveBoard, runVars, vars
  <2> QED BY <1>2, <2>1, <2>2
<1>4. ASSUME NEW q \in Questions, RejectPlan(q)
      PROVE  WaitInv'
  <2>1. /\ UNCHANGED <<shape, exec, crashes>>
        /\ ~shape.early => Busy = {} /\ status = "waiting_for_input"
        /\ status' = IF status = "waiting_for_input" THEN "failed" ELSE status
    BY <1>4 DEF RejectPlan, MayResolve
  <2> QED BY <1>2, <2>1
<1>5. ASSUME NEW q \in Questions, Dismiss(q)
      PROVE  WaitInv'
  <2>1. UNCHANGED <<shape, exec, crashes, status>>
    BY <1>5 DEF Dismiss
  <2>2. Open'
    BY <1>1, <1>5 DEF Dismiss, Open, RunTypeOK
  <2> QED BY <1>2, <2>1, <2>2
<1>6. ASSUME NEW q \in Questions, NEW a \in Answered, Answer(q, a)
      PROVE  WaitInv'
  <2>1. /\ UNCHANGED <<shape, crashes>> /\ Resume(question')
        /\ ~shape.early => Busy = {} /\ status = "waiting_for_input"
    BY <1>6 DEF Answer, MayResolve
  <2> SUFFICES ASSUME ~shape.early, crashes = 0 PROVE WaitInv'
    BY <2>1 DEF WaitInv
  <2>2. CASE AllResolved(question')
    <3>1. PICK e \in Execs : exec[e].pc = "idle" /\ SetExec(e, At("resuming"))
      BY <2>1, <2>2 DEF Resume
    <3>2. /\ exec' = [exec EXCEPT ![e] = At("resuming")]
          /\ At("resuming").pc = "resuming" /\ ~At("resuming").asked
      BY <3>1 DEF SetExec, At, Idle
    <3>3. \A f \in Execs : exec[f].pc = "idle" /\ ~exec[f].asked
      BY <2>1 DEF Busy, WaitInv
    <3>4. \A f \in Execs : exec'[f].pc \in {"idle", "resuming"} /\ ~exec'[f].asked
      BY <1>1, <3>2, <3>3 DEF RunTypeOK
    <3>5. e \in Busy'
      BY <1>1, <3>2 DEF Busy, RunTypeOK
    <3> QED BY <3>4, <3>5 DEF WaitInv, MayWait
  <2>3. CASE ~AllResolved(question')
    <3>1. UNCHANGED <<exec, status>> /\ Pending' # {}
      BY <2>1, <2>3 DEF Resume, AllResolved, Pending
    <3> QED BY <1>2, <2>1, <3>1 DEF Open
  <2> QED BY <2>2, <2>3
<1>7. CASE CancelRun
  <2>1. UNCHANGED <<shape, crashes>> /\ status' = "cancelled"
    BY <1>7 DEF CancelRun
  <2>2. \A e \in Execs : exec'[e].pc = exec[e].pc /\ exec'[e].asked = exec[e].asked
    BY <1>1, <1>7 DEF CancelRun, RunTypeOK
  <2>3. Open => Open'
    BY <1>7 DEF CancelRun, Open, Pending
  <2> QED BY <2>1, <2>2, <2>3 DEF WaitInv
<1>8. CASE Crash
  <2>1. crashes' # 0
    BY <1>1, <1>8, GoalsAssumption DEF Crash, RunTypeOK
  <2> QED BY <2>1 DEF WaitInv
<1> QED BY <1>3, <1>4, <1>5, <1>6, <1>7, <1>8

\* Without a crash, a run that waits for input has a question somebody can answer,
\* a chain at work, or a question that was dismissed.
THEOREM WaitersCanGoOn == Spec => []WaitingHasQuestion
<1>1. Init => WaitInv
  BY DEF Init, WaitInv, Idle
<1>2. GInv /\ WaitInv /\ [Next]_vars => WaitInv'
  BY TurnsKeepWaiting, OthersKeepWaiting DEF Next
<1>3. WaitInv => WaitingHasQuestion
  BY DEF WaitInv, WaitingHasQuestion, Open
<1> QED BY <1>1, <1>2, <1>3, GoalsInvariance, PTL DEF Spec

=============================================================================
