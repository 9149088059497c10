# A formal model of Ujima Agents

This directory is a verification project for the code in `src/`: TLA+ modules translated from the source, TLC
configurations that check them on small instances, and theorems that TLAPS checks for every value of the constants.
`PROJECT.json` is its index: components, runs, the source lines each definition stands for, mutants, findings, hazards and
theorems. Paths below are relative to `src/`; `engine:450` is a line of
`packages/orchestrator/src/services/workflow-engine.ts`.

Ujima runs teams of AI agents for an organisation. One Node.js process (the API server or the CLI, through
`packages/runtime-core` and `packages/orchestrator`) holds all the state that matters in a SQLite database and in the
memory of a few services. It is single-threaded, so nothing happens *inside* a synchronous stretch of code, but anything
may happen at an `await`: another request, a timer, the end of an agent's run, the death of the process. Those are the
interleavings modelled here.

## Inventory

| Part | State | Operations | What is hard | What makes it correct |
|---|---|---|---|---|
| Workflow engine (`workflow-engine.ts`, `shared/src/workflows.ts`) | a run, one row per (node, attempt), the output files, the last idempotency key, a tail of transitions per run, the reminders sent | `startRun`, `onNodeComplete`, `advance`, `transition` (approve, reject, abort, retry, skip), `sweep` | hook, sweep and transition overlap; rows read before an await and written after it; nested `stepRun`; lost hooks | order of nodes, no agent beside one that is not stopped, settled rows stay settled, `completed` means done, a stuck run can be acted on and a row in progress has somebody who will settle it |
| Workflow effects (`workflow-effects-live.ts`) | none | starting agents and goals, cards, reminders, output files | un-awaited starts that fail in a later microtask | every start is answered |
| Agent run lifecycle (`spirit-direct-run.ts`, `spirit-agent-run.ts`, `spirit-service-base.ts`, `agent-turn.ts`) | rows of the `runs` table, the registered abort controller of each run | create, execute, wait for approval or input, resume, cancel, terminal hook | un-awaited resumes, every save overwrites the status, nested turns, restart | one chain drives a run, a terminal status is final, who waits can be answered |
| Approvals and tool gates (`approval.ts`, `tool-approval-gate.ts`, `tool-service-impl.ts`) | approval rows, waiting run steps, one-shot scopes, notes for a running turn | request (shared by scope), resolve with its siblings, grant, replay | an answer that meets the turn that asked; several requests in one step; restart between request and answer | a tool runs only under a grant and once, each answer reaches its call |
| Wake dispatch, pending alerts (`wake-dispatcher.ts`, `pending-member-alerts.ts`) | wake intents, the read cursor of each run, a mutex per thread or member | wake, queue, drain after a run | stale looks at who is active; marked dispatched before the wake runs; two hooks drain together | turns are taken, no alert starts two runs, none stays queued unwatched |
| Goals and questions (`goal-system.ts`, `repositories/goals.ts`, `child-task-service.ts`) | a goal, its plan version, tasks with dependencies, questions to people | plan, approve, pause, resume, stop, update a task with its cascade; ask, answer, dismiss, resume the run | a plan replaced under an open question; cascades over tasks in any status; several questions of one run | nobody works on what is not ready, the goal agrees with its tasks, a yes is about the plan it was asked for |
| MCP pool (`mcp-client/src/pool.ts`) | connections, pending connections, the `current` of each wrapper | get, call, respawn, close all | two callers repairing one connection; a start that fails under several | one process is shared, every call ends |
| Scheduler (`scheduler.ts`, `scheduler-domain.ts`, `scheduled-jobs.ts`) | jobs with `nextRunAt`, status and counter; `tickInFlight` | create, pause, resume, edit, delete; tick, execute | a job is saved from a copy taken before its execution was awaited; crash between execution and save | a job runs when due, once per occurrence, at its own expression's minutes |
| Agent loop (`agent-core`, `agent-runtime`) | step counter, token budget | model step, tool calls side by side | mostly sequential | pauses when a call of the step waits |
| Conversation (`conversation.ts`, `mirror-guard.ts`) | messages, per-window counters | post, mirror | mirrored posts that mirror back | no echo |
| Graph validator, cron (`shared/src/workflows.ts`, `scheduler.ts`) | none | pure | boundaries | agreement with what the engine and the scheduler take for granted |
| Storage (`context-store`, `runtime-core/src/repositories`) | SQLite tables | transactions, upserts | an upsert inserts a deleted row again | transactions are atomic (assumed) |
| The rest: config sync, settings, connectors, notifications, permissions, memory, attachments, event bus, LLM clients, licence, HTTP API, web, CLI, SDK | | | I/O, presentation, decision tables | see "Not modelled" and `PROJECT.json` |

How they call each other: the API, the agents' tools and the scheduler call the workflow engine; the engine starts agent
runs and goals through its `WorkflowEffects` port; when an agent run ends, its terminal hook calls the engine back and
drains the pending alerts of the thread; the scheduler's tick runs due jobs, then sweeps goals, then sweeps workflow runs,
which is the only recovery there is. A tool call of a run passes the gates, which may save the run as waiting for an
approval; `question.ask` and `goal.start` save it as waiting for input; the resolution of the row, from the API, resumes it.

## Modules

| Module | Stands for |
|---|---|
| `WorkflowEngine` | the engine, with the agent runs, files, callers and faults around it |
| `WorkflowPromise` | what a workflow run promises to whoever drew the graph, with no rows, retries or calls in it |
| `Approvals` | a run whose tool calls are approved: gates, rows, answers, turns, resume and replay, cancellation, crash |
| `ApprovalPromise` | what the gates and answers promise about a call: asked once, answered once, run once and only if allowed |
| `PendingAlerts` | the members of one thread: wakes, mutex, queue of wake intents, runs, drains |
| `GoalBoard` | one goal, its plan and its tasks |
| `Goals` | `GoalBoard` with a run that plans it and asks questions, and the people who answer |
| `ConnectionPool` | one entry of the MCP pool, its callers and its server processes |
| `Scheduler` | the table of jobs, the tick that executes them, and the calls that edit the table |
| `MC...` | graphs, audiences, shapes, expressions and symmetry TLC checks the module of that name on |
| `WorkflowEngineProofs`, `ApprovalsProofs`, `PendingAlertsProofs`, `GoalsProofs`, `ConnectionPoolProofs`, `SchedulerProofs` | theorems about the module of that name |
| `WorkflowAdapterProofs` | theorems about `WorkflowEngine` with the shipped adapter, among them the refinement of `WorkflowPromise`; extends `WorkflowEngineProofs` |
| `ApprovalsCarefulProofs` | theorems about `Approvals` where one request is open at a time, among them the refinement of `ApprovalPromise` |

`Goals` composes the board with a run by extending it; `WorkflowPromise` and `ApprovalPromise` are instantiated with a
refinement mapping by the modules they abstract. The other components meet in the life of an agent run, which each module
has as far as its component sees it: the engine a run that ends or fails, `PendingAlerts` a run that reads, pauses and
ends, `Approvals` and `Goals` the turns themselves.

Definitions with a suffix (`Ready_AnyPred`) are plausible faults, one for each property, named by `mutants` in
`PROJECT.json`; no other definition uses them.

### WorkflowEngine

Runs of the engine share no state with each other, so one run is modelled. Its variables are the database's
(`runStatus`, `lastToken`, `nodeRun` with `"absent"` for a missing row, `envelope` for the rows whose `outputJson` came
from `workflow.advance`), the file system's (`file`), the rows of the agent runs (`childRun`), and the process's memory:
each engine call under way is a *chain*.

- A chain is the hook of one agent run, the start of the run, the current transition (`transitionTails` admits one at a
  time per run) or the sweep (`tickInFlight` admits one). The code between two awaits is one action; `pc[c]` says at which
  await chain `c` is, `at[c]` which row it is working on, and `frames[c]` what each open `for` loop of a `stepRun` still
  has to dispatch. `frames` is a stack because an output node makes `dispatchOutput` call `stepRun` again from within the
  loop (`engine:1022`).
- `DispatchAgent/Approval/GoalHandoff/Output` are the part of the dispatch functions up to their first await, and
  `SpawnFailed`, `GateRaised`, `GoalStarted` the part after it; `FinishNode` is `onNodeComplete` after `statOutput`, with
  the row it reads again; `GateRaised` and `GoalStarted` write the row from the copy they made before, as the code does.
- `PortYields` chooses between the two readings of the port. TRUE is its contract: an effect is a promise and anything
  may happen before it settles. FALSE is the adapter that is shipped, whose methods never leave the microtask queue; then
  a chain runs to its end before the next outside event, except that an agent run that was requested may be rejected or
  fail before its first I/O, and the process may die.
- The environment: an agent run is *requested* until `createRun` saved it, then *live*; it writes its file, calls
  `advance`, completes, fails, or fails in `resumeRun` without a hook (`goal-system.ts:664`). `CancelRun` is a person's
  `cancelRun`: the row is saved, the abort signalled and the hook called, in one slice, so that the node has failed and can
  be retried while the turn is still *aborting* and may write its file or call `advance`; `TurnStops` is its end. After a
  crash a run is an *orphan* (its row is non-terminal and nobody runs it) unless it was waiting for a person.
- `file` says which attempts have written the node's output file. The attempts share one path, so `Produced` asks for any of
  them. Nodes whose paths a graph makes equal (an explicit `outputPath`, an output node behind two agents) are left out.
- A caller sends a transition with a key from `KeysFor`. With `UiOnly` it sends only what the run panel offers; without
  it, anything at any time, as the API and the agents' tool do. The engine remembers only the last key, so two keys are
  enough to have a fresh one always.
- Left out, since no property needs them: prompts, summaries, cards, reminders and their counters, durations, and the
  distinction between a failed row's reasons. A queued transition is taken when the chain of the one before it is idle;
  with `PortYields` it is then judged against the panel at that time rather than when the button was pressed.

### Scheduler

`job` is the table (`NoRow` for no row), `now` the minute, and `Unset` (0) a NULL `nextRunAt`, which sorts first and is due
as in SQLite. A cron expression is the set of wall-clock minutes it matches; `NextCron` is `computeNextCronRun`: the first
match after the minute the clock shows, or none within `Horizon` (525600 in the code). `Wall` and `Instant` are what a
JavaScript `Date` makes of local time: its fields are those of the clock on the wall, which at `BackAt` is set back by
`Repeated` minutes, once (the end of daylight saving time), and setting a field gives a time that is shown twice its first
showing. So in the second showing the next time of a frequent job lies in the past: a job that is created, resumed or
executed then is due at once, and again at each tick until the hour is over (see Observations); one whose next time was
computed before goes on after the hour. The hour left out in spring needs nothing: wall minutes are numbered as they are
shown. The tick's `due` list is `copy`, the row of each job still to do
*as it was read*; every save is `Save(j, copy with changes)`, since `saveScheduledJob` writes all columns and inserts a row
that is not there.

- `TickStart` lists what is due; `Unscheduled`, `Refused` and `Begin` take the first job of the list, and
  `Succeeded`/`Failed` end the execution of the current one; `LoopDone` and `TickEnd` enclose `onTick`, the sweeps of goals
  and workflows. No tick starts during another (`tickInFlight`). That ticks recur under these fairness assumptions
  is what the sweep's fairness in `WorkflowEngine` rests on.
- `pc` is `executing` while a heartbeat (`createRun` awaits the whole run) or a self-improvement review is under way, and
  `posted` while a message is: the latter never leaves the microtask queue. `Calm` says when an outside call may come.
- `Create`, `Patch`, `Delete`, `Retire` (`deleteMember`) and `RetireByConfig` are the calls; `Patch` covers both PATCH routes.
- `succeeded` is a history variable: the occurrences whose success was saved. `deleted` is one too. `OccurrenceOnce` is
  about the minutes the clock shows once (`ShownOnce`), before, between and after.
- Faults: `Crash`, and `StoreFault`, a database error in the `catch` block's own save, which ends the tick's loop.
- Left out: prompts, names, counters, events, and the loop's check of `running` (a stop is a crash between two jobs).
  A job has a channel; without one its execution does nothing. The parsing of the five cron fields is not modelled.

### Approvals

One direct run and the tool calls its model may make. `status`, `row`, `step` and `asks` are the database's (the run, an
approval row per call that created one, the run step of each call, the `approvalId` in its output); `allowed`
(`ApprovedRunScopeTracker`), `deferred` (`deferredApprovalResumes`), `ctrl` (`runAbortControllers`) and the executors are
the process's. An *executor* is one promise chain that drives the run: `createRun`, or a resume with its replay, followed
by the turns it nests. Nothing in the code limits a run to one, so `Execs` is a bound, and that one is enough is a property.

- `BeginTurn` is `executeDirectTurn` up to its first await, `StepEnd`, `Finish`, `Settle`, `Publish` and `TurnThrows` the
  ways on from there, each with the save it makes whatever the row says by then. `Leave` is the `finally` clause; a nested
  turn is returned from inside the `try` of the one before it, hence `BeginTurn(e, TRUE)` ends without a controller.
- A call made in `ModelStep` is in `flight` until its gate decides (`GatePasses`, `GateAsks`). There are two gates: the
  permission gate of `tool-service.ts` (`shape.outer`), which looks at one-shot scopes only, and the policy gate inside
  `ToolServiceImpl`, which consumes them and accepts persisted grants. A call stopped by one is taken not to meet the other.
- `Approve` settles the pending rows its scope or family covers and then does what `resumeAfterApproval` does up to its
  first await; `Reject` deletes the run's rows and fails it; `Cancel` rejects them and aborts the registered controller.
- `Replay` is one step of `replayApprovedToolSteps`, in any order. A failed run's steps are replayed, a cancelled one's not.
- `shape`, chosen at the start, says which calls there are, how many are made side by side and whether people answer
  before the run waits. *Careful* shapes have one request at a time; several properties hold only there, which is a
  statement about the code (see Findings and Observations).
- Left out: auto-review, requests for attachments, spirits of a supervisor, whole-run allowances, token budgets.
  `ended` is a history variable.

### PendingAlerts

An alert is a member and a message it is woken for. `wake` is the promise chain of `wakeMember`: *asked* until its first
look at the active runs, *inline* until it has the mutex, *turn* while `createRun` is awaited inside it. `intent` is the
row of `wake_intents`, `run` the run the alert started, `cursor` how far it has read, `hooks` the ends of runs whose
drain is still to come, which may take long because the hook first waits for the run of a delegate.

- `Look` and `Enter` are the two looks at the active runs; `Queue` is the insert that ignores a row which is there
  already. `Drain` drops what the ending run has read past, marks the earliest alert of each member (or of the thread)
  that is not busy, and wakes it in a later microtask; `DrainCancelled` clears the queue.
- `Calm`: wakes are microtasks, so a message, a person or a language model is heard when none can go on.
- The mode is that of the thread: in a thread of two one run at a time, in a group one of each member.
- After a `Crash` active runs are `lost`: their rows stay active and nobody runs them.
- Left out: the supervisor and its debounce, mention budgets, delegates' handback, runs other callers start; the order in
  which the mutex admits (any waiting wake may enter) and its entries, which are never removed. `started` and `heard` are
  history variables.

### GoalBoard and Goals

`GoalBoard` is the goal of a direct channel, which is planned again on the same row (`Replan`), with its tasks in an array
and the one dependency each may have. `Cascade` is `updateGoalTaskStatus` with what it does downstream and `Synced` is
`syncGoalStatus`. `UpdateTask` may come in any status of the goal and from anybody. A group goal is one that is never
planned again.

`Goals` adds one run and the questions it asks, in the way of `Approvals`: executors, a registered controller, and
`status`. `AsksForPlan` is `goal.start`: the plan is written, the old questions superseded and the new card posted in one
stretch without awaits. `about` is the plan version a question belongs to (0: none). `Answer` saves the answer, implements
the plan on a yes (that it cannot be implemented is swallowed, as in the code), and resumes the run if nothing is open.
`RejectPlan` is "No, stop", `Dismiss` the API's supersede. `MoveBoard` is everything else that moves the board: members,
other agents, workflows, and this run's own calls to the goal tools.

Left out: titles, assignees and other plan edits, nudges and notices, the output a task update writes to a workflow step,
and the interval between the end of a reply and its publication, which is folded into `Publish`. The handover summary
a completed task with dependents needs is supplied by the caller. Goal tools carry `bypassPermission`, so no gate is met,
and the replay at the start of a resume has nothing to do. `approved` is a history variable.

### ConnectionPool

One key of the pool. A process and the wrapper `spawn` makes around it have the same number; `cur[w]` is the wrapper's
`current`, so wrappers form chains, and `End` follows one. `conn` and `pending` are the entries of the two maps. A caller's
`frames` are the wrappers whose `try` its call is inside: an error or a closed result repairs the innermost one it
applies to (`SwapAt`, `Respawn`), and the call is sent again.

- `Get` takes the connection and calls in one step, since no await lies between. `Connected` and `ConnectFails` settle the
  promise of one start, for all who await it.
- A process that died counts as open until a call finds out (`FlaggedOpen`). What the client library throws on a client
  whose transport is gone is left open: recognised as a closed connection (`ThrewClosed`) or not (`ThrewOther`).
- `CloseAll` counts as a fault, as do lost processes, timeouts and failed starts, all bounded by `MaxFaults`.
- Left out: the queue that makes calls on one connection serial (`connection.ts:104`). A queued call meets an error of its
  own when its turn comes, so several calls may each be told that the same connection is closed if the client library
  says so of a call sent after the close, which is left open.
- Also left out: `listTools`, which is a call without the check of its result, the retry of a start with another npm cache,
  which is part of the start, and `closeOne`, `has` and `size`, which the program does not use.

## Runs

| Run | Instance | Checks | Shows |
|---|---|---|---|
| `wf_panel` | trigger, then an agent beside a gate, then a join; panel only, shipped adapter, 1 fault, 2 attempts, fairness | `TypeOK`, `StuckRunIsActionable`, `NodeAfterPreds`, `PromiseKept`, `SweepRecovers`, `StallExplained` | a paused run always has a failed row and an awaiting run a gate to act on; no node begins before its predecessors; the engine implements `WorkflowPromise`; a lost hook is made up for by the sweep; a run with no failed and no gated branch stalls only after a fault, on a node the fault has abandoned |
| `wf_ports` | trigger, then an agent beside a gate, then an output; effects that suspend at every await, approve, retry, skip and abort in any status, cancelled turns that go on, 2 attempts, no fault | `CompletedMeansAllDone`, `InProgressIsWatched`, `OneLiveRunPerNode`, `AgentRowsFinal`, `DoneIsFinal` | overlapping hooks, sweeps and transitions settle an agent's row once, undo nothing that is done, leave nothing in progress that nobody will settle, start no agent beside one that nobody has stopped, and never complete a run too early; a gate that is written back after its await holds the run up again |
| `ap_runs` | three calls of two scopes at either gate, one at a time or side by side, answers to a waiting run or at any moment, 2 executors, 1 crash, fairness | `TypeOK`, `OneExecutor`, `WaitingIsActionable`, `DeferredIsHeard`, `OpenRequestsDoNotRun`, `EndIsEnd`, `AnswersReachTheirCall`, `PromiseKept` | an open request never executes; one chain drives the run; a waiting run can be answered; answers reach their call; the whole implements `ApprovalPromise`, at most one execution included |
| `alerts` | three messages to two agents, a thread of two and a group, 1 fault, fairness | `TypeOK`, `DeliveredOnce`, `TurnTaking`, `QueueIsWatched`, `QueueDrains`, `DispatchedAlertsAreHeard` | stale looks and overlapping drains neither start two runs nor leave an alert in the queue |
| `goals` | two tasks, two plans, two questions, 2 executors, 1 crash | `TypeOK`, `StartedTasksAreReady`, `CompletedIsDone`, `OpenQuestionsAreCurrent`, `NoPartialResume`, `WaitingHasQuestion` | cascades keep the board consistent under any updates; a yes is about the plan on the board; a run resumes after its last question |
| `pool` | two callers, 3 faults, 11 processes, fairness | `TypeOK`, `OneProcess`, `SentOnce`, `EveryCallEnds` | a start is shared; no call is sent twice before something has failed, whatever its tool answers; every call ends |
| `sched_jobs` | a message job and a heartbeat of one member, 2 expressions, 4 minutes of which the clock shows two twice, 1 fault, fairness | `TypeOK`, `OccurrenceOnce`, `ActiveRowsFollowTheirCron`, `DueJobsMoveOn` | edits, stale overwrites, failures and crashes never repeat a recorded occurrence (of a minute shown once), never leave an active job at a minute that is not its own, and never leave a due job stuck |
| `wf_stall`, `wf_outputs`, `ap_shared`, `alerts_dropped`, `goals_gate` | see Findings | `StallCovered`, `NoRejection`, `OnlyApprovedCallsRun`, `DroppedAlertsAreHeard`, `ResumedWasApproved` | violations |

### Bounds

- Engine: small graphs with one node of each kind that matters. One fault is enough for the hazards listed, each of which
  needs one loss and then what the code does about it; two attempts let a stale chain of attempt 1 meet attempt 2.
  `wf_ports` leaves out rejections and faults, which with suspending effects make the instance too large; each of its
  properties is also a theorem, for faults and every transition (`InProgressIsWatched` only without faults, after which it
  is false). `TokenSymmetry` permutes the callers' keys, which have no identity; the run has no liveness property.
  `NodeAfterPreds` is checked for the panel's calls; `NodesInOrder` proves it for every caller. `StallExplained` starts
  from a run with no failed or gated branch (`Clear`), because from others it may stall without a fault, which is `wf_stall`.
  An output beside another successor is not in a passing run: that is `wf_outputs`.
- Approvals: three calls let two share a scope beside a third, so that an answer settles some requests, leaves others, and
  a resumed run asks again. A second executor is enough to see that one is not the only one. `CarefulShapes` vary who asks;
  `HastyShapes` vary when and how many at a time.
- Alerts: the first message makes a member busy, the second queues behind it, the third while the queue is drained.
- Goals: two tasks are the shortest chain. Boards with all seven task statuses are combined with one question, and two
  questions with fewer updates, since each pair of hazards needs only one of the two. `ExecSymmetry` permutes executors,
  which are slots without identity; the run has no liveness property. Chains of three tasks are left to the theorems.
- Pool: with three faults, a repair, the failure of that repair and an interference by the other caller fit into one
  behaviour, and 11 processes are more than such behaviours start: `MaxProcs` never keeps a repair
  waiting, which `EveryCallEnds` would show.
- Scheduler: one expression matches nearly every minute and the other has a gap that exceeds `Horizon`, so that a job is
  found without a next time and a failing one keeps its own. The clock shows minutes 0 and 1 twice, the second time at 2 and
  3: a job can be executed before, during and after the repetition, fall behind while another is executed, be
  edited, and come due again. Minute 4 is the one shown once on which `OccurrenceOnce` bites.

Deadlock is checked only for the scheduler: everything else may really stop, when its runs are over.

### Fairness

- Engine: weak for every chain's next step, since the event loop resumes every promise that settled; weak for the start of a
  requested run; strong for the start of a sweep, since the timer fires every tick and only another call that is
  under way puts it off; strong for the end of an agent run, which the loop's iteration bound and the provider's timeouts
  bring about. Nothing is assumed of people (transitions), of `WriteOutput` and `Advance`, or of faults.
- Scheduler: weak for the clock, the timer, the steps of the tick, and the end of an execution, bounded in the same way.
  `DueJobsMoveOn` needs the last: an execution that never ends holds `tickInFlight`.
- Approvals: weak for each executor's turn, each executor's replay and each gate: model calls return or throw, tools
  return. People need not answer, cancel or reject.
- Alerts: weak for a step of some wake, of some hook, and for the end of some turn; people need not answer a run that
  waits for them, and the liveness properties say so.
- Pool: weak for the end of each call and of each start, which the client and `callTool` bound by timeouts, and for the
  respawn that follows a close.
- Goals: none; everything checked there is safety.

## Findings

Each is a violation run whose counterexample follows the code; `PROJECT.json` quotes the statement it contradicts.

- `wf_stall` (`engine:691`): retry and skip set the run `running` whatever the other branches are; with a failed or
  gated second branch nothing is ready, nothing completes, and neither panel, queue nor sweep sees the run any more.
- `wf_outputs` (`engine:1022`): an output node listed before another successor dispatches it in its nested `stepRun`; the
  outer loop dispatches it again and the UNIQUE key rejects the call. The shipped adapter and one call alone are enough.
- `ap_shared` (`spirit-service-base.ts:340`): of three calls side by side at the permission gate, two share a request; when
  the third is approved the sharing one is replayed past both gates while its request is still open.
- `alerts_dropped` (`pending-member-alerts.ts:150`): in a group, the end of the run of one member drops the queued alert of
  another, because it was the first member's run that had read the message.
- `goals_gate` (`goal-system.ts:213`): a goal paused while it is planned and then resumed runs without an approval.

## Observations

Behaviours met while modelling that no run is spent on. The models contain those marked (m).

Workflows and jobs:

- The panel's key for a second retry equals that of the first (`apps/web/.../use-workflows.ts:222`), so the engine takes it
  for a repeat and does nothing. (m, with such keys in `KeysFor`)
- When the process dies under an agent no child ever ends, and the sweep has nothing to recover (`engine:762`). (m)
- A cancelled turn is only signalled: its tool call under way may still write the node's file, or call `advance`,
  beside the retry (`spirit-direct-run.ts:295`). `OneLiveRunPerNode` therefore excepts it. (m)
- The attempts at a node share a path and only the file's existence is asked for (`engine:493`): when an attempt has written
  its file and then fails or is cancelled, the retry that writes nothing is completed on that file. `workflow-engine.test.ts:406`
  says "fails + pauses when an agent produces no output (auto-advance verify)", `workflow-effects-live.test.ts:157` "pauses +
  notifies when the agent writes no output"; both hold of the first attempt. (m)
- With effects that suspend, a gate approved before its card is posted is written back as awaiting (`engine:915`), which
  `DoneIsFinal` excepts, and a node may be dispatched after its predecessor was reset (`engine:453`), so that `NodeAfterPreds`
  is about the shipped adapter. (m)
- In the second showing of the hour that is repeated at the end of daylight saving time the next time of a frequent job is in
  the past (`scheduler.ts:12`), and the job is executed again at every tick until the hour is over. `scheduler.test.ts:34`
  says "returns the next cron boundary strictly after the reference time". (m)
- A job deleted, or paused, while it is executed comes back when the tick saves its copy (`scheduler.ts:216`); the
  running agent's own `schedule cancel` is enough, and is answered `removed: true`. (m)

Approvals:

- With several requests open, a run that one rejection has failed is saved waiting again by its turn (`agent-turn.ts:983`), and
  one cancelled while its reply is published is saved completed. (m)
- The `finally` clause of an outer turn unregisters the controller of the turn nested in it (`agent-turn.ts:1015`): a later
  answer finds no controller and starts a second chain, and a cancellation aborts nothing. (m)
- Two approvals in quick succession start two chains that replay the same steps. (m)
- A chain that a cancellation does not reach may save the cancelled run live again. The answer to a call that the cancelled
  turn left at its gate then leaves its note (`deferred`) to a turn that has already looked, and nobody hears it: `DeferredIsHeard` is
  about runs that have not ended. It takes four calls, one more than `ap_runs` has. (m)
- A one-shot permission is consumed after its replay (`tool-service-impl.ts:370`), so another call may use it first. (m)
- A crash between the saved approval and the end of the replay leaves a waiting run with nothing to answer, and a crash in a
  turn leaves a run `running` for good. (m)

Alerts:

- An alert already marked dispatched cannot be queued again: the insert ignores it. In a thread of two it is lost when
  its wake finds the thread busy. (m)
- After a crash, an active row blocks its thread or member, and nothing drains pending intents at start-up. (m)
- A successor whose `createRun` fails is only announced; what was behind it has no run to drain it. (m)
- The slow hook of a cancelled run clears intents queued behind a newer run. (m)

Goals:

- Any task update while a plan is unapproved sets the goal running through `syncGoalStatus`, and undoes a pause. (m)
- In a chain 1, 2, 3 with 1 and 2 completed, reopening 1 blocks 3, and completing 1 again unblocks only its direct
  dependents, so 3 stays blocked unless 2 is updated again. Dependents `blocked_by_failure` stay so after the
  failed task is retried, and suspend the goal again at each update; completed and cancelled tasks together never
  complete it. (m)
- A question superseded last leaves its run waiting with nothing to answer; an early answer starts a second chain; a question
  asked by a call of a run that has failed saves it waiting again. (m)
- "No, stop" does not stop a goal that somebody has implemented meanwhile. (m)
- Goals handed over by a workflow get no approval question.

Pool:

- The wrapper "retries once. Second failure is surfaced to the caller — we don't loop", says `pool.ts:139-143`; but the retry goes
  through the wrapper of the new process (`pool.ts:173`), which retries itself, so a call is sent again for every process that
  dies under it. (m)
- The repair of one caller may close the process on which another is trying again, whose wrapper then repairs itself too:
  one failure, three tries. With three callers there is no bound in the model: two take turns coming back and closing the
  process the third has started. `EveryCallEnds` and the theorem `FailuresBoundRetries` are about two callers. (m)
- Two respawns do not look at `pending`; both start a process, and the second replaces the first, which nobody closes. (m)
- `closeAll` leaves pending starts alone, and the calls it interrupts respawn. (m)
- A connection that broke with an error nobody recognises stays in the pool as open. (m)

## Proofs

From the named assumptions on the constants (their types, and for the engine one trigger and no cycle), so for
every graph, caller, set of calls, audience, plan and number of faults. What a theorem assumes beyond them is a condition
on a constant that its statement names: `~PortYields`, `UiOnly`, `Pair`.

`WorkflowEngineProofs`, from `GraphAssumption` and `BoundAssumption`, for both readings of the port:

- `Invariance`: `Spec => []IInv`, and from it `TypeCorrect` and `CompletedIsDone`;
- `AgentRowsAreFinal`: an agent's row keeps its first outcome, except that a failed one may be skipped.

`CompletedMeansAllDone` is not inductive: a completed run could be unsettled by a chain that resumes late. `IInv` adds
what rules this out. `ChainInv` says what a suspended chain may count on: a `gate` chain is at an approval row that exists,
a `goal` chain is alone at a row that is still `pending`, a `loop` has a frame. `KindInv` ties each unsettled status to one
kind of node, so the row a `goal` chain rewrites cannot be one that another chain settles. `RetryInv` says that the row a
retry is about to replace is still the latest and unfinished, hence that a new attempt never hides a done one. `FreshInv`
is the state before the run exists. The proof has a lemma per action (`...Keeps`); `DispatchKeeps`, `ChainOnly`,
`EngineKeeps` and `QuietKeeps` are shared by the actions that dispatch, only move a chain, write a row, or touch none of
the invariant's variables.

`WorkflowAdapterProofs` goes on from `Invariance`. The actions are taken apart once: `NextSteps` says that a step of the
specification is one of `Steps`, that is, what it may do to a row, an agent run, a chain, the status and the record of
rejections, and when. The invariants below are proved from `Steps` without looking at the actions again.

- `AgentsWorkAlone` (`OneLiveRunPerNode`), for both readings of the port, from `ChildInv`: an agent run that nobody has
  stopped has a row that is `running`, and such a row is the latest of its node. What it leaves open is the turn that was
  cancelled and is not over.
- `NothingIsForgotten` (`InProgressIsWatched`), also for both readings, in behaviours without a fault. It is inductive only
  together with `HookInv`: the hook of an agent run is under way only once that run has completed, so that an agent that
  completes finds its hook's chain free, and nobody else's row loses the chain it waits for. The proof asks of each step
  four things (a chain that leaves an await settles its row, a row that appears is watched, an agent that completes
  hands its row to its hook, a hook begins only then) and shows once that they are enough (`WatchedKept`).
- `DoneStaysDone` (`DoneIsFinal`), also for both readings: a step that takes a row out of a done status can only be that of the
  chain which is posting the gate's card, since what else writes a row asks for its status first or holds a row nobody else
  settles (`DoneRowKept`). `CardsAreInTime` adds that with the shipped adapter (`~PortYields`) this exception is never met.
- `NodesInOrder` (`NodeAfterPreds`) assumes `~PortYields`, the adapter that is shipped.
  `AdapterInv` uses that one engine call is under way at a time (`Alone`): attempts below the latest have failed
  (`FailedBelow`), the row a chain is working on is as its dispatch left it (`RowsHeld`), and what a loop has still to dispatch can
  begin (`LoopInv`). With effects that suspend it is false: a predecessor may be reset before the loop comes to the node.
- `StuckIsActionable` (`StuckRunIsActionable`) and `EngineKeepsPromise` (`PromiseKept`) assume also `UiOnly`: transitions come
  from the run panel, which offers only what fits the status. `PanelInv` says that a paused run has a failure other than
  the one a retry is about to follow. Other callers can move a run on without a row to show for it. For the
  refinement, `BeginStep` and `CompleteStep` say which step of `WorkflowPromise` a step of the engine is.

`ApprovalsProofs`, from `ApprovalsAssumption`: `TypeCorrect`, and `OpenRequestsStayPut`: no call executes while its own
request is open, careful shapes or not. The list of steps to replay is computed at the answer and used after awaits; the
invariant `UInv` says that what is on such a list has been answered and cannot be asked for again (`ReplaysAreAnswered`),
which needs that a call is with its gate, or not made yet, only while it has neither row nor step (`CallsInv`).

`NotesAreHeard` (`DeferredIsHeard`), also for every shape: the note an answer leaves for a running turn has a turn or a
resume to hear it. A note is written while a controller is registered, but the registered turn may have looked
already, so its being there is not enough. `HearInv` says why somebody else is: a request that is open while a turn is
registered was made by a turn that has still to pause (`LiveInv`), since the call it belongs to is one its turn waits
for (`FlightsAreAwaited`); and a run saved as waiting under a note has an open request or is about to be resumed
(`NoteInv`).

`ApprovalsCarefulProofs` goes on from there for careful shapes: `OneChainDrives`, `WaitersCanBeAnswered`, `EndIsFinal` and
`GatesKeepPromise`, that rows, steps and executions together implement `ApprovalPromise`. The invariant is `CInv`. An
answer starts a chain of its own, so that at most one is busy (`OneChain`) needs that no chain is at work while a request
is open, but for the turn that is about to pause on it (`ExecOK`); that needs all requests which are open or about to be
opened to have one scope, so that one answer settles all of them (`RunOK`); and what is replayed must be answered, its
step waiting, and not be with its gate (`CallOK`). For the refinement the mapping is written call by call (`Word`): each
lemma says which words its step moves, and an answer moves all that are `asked` at once.

`PendingAlertsProofs`, from `AlertsAssumption`: `AlertTypes`, `AlertsStartOnce`, `RunsTakeTurns` and `QueueStaysWatched`,
from `AInv`. Its part `FreshInv` says that an alert that is queued or on its way to the mutex has not started a run, and
that a queued one has no wake. `QueueIsWatched` is kept by the drain because a turn it skips is busy or has just been
given a wake, and by a wake that loses its second look because the run it lost to will end and drain again.

`GoalsProofs`, from `BoardAssumption` and `GoalsAssumption`: `GoalsInvariance` (`GInv`) and from it `GoalTypes`,
`BoardIsConsistent`, `QuestionsFollowThePlan` and `ResumeIsLast`; and `RunsKeepToTheBoard`, that the composition
implements `BoardSpec`: a run and its answers change the board by the board's own steps only; `BoardStatusIsRight` states
`CompletedIsDone` by itself. `BoardInv` is the two properties
with `PlanOK`, that tasks depend on earlier tasks of the plan; the cascade keeps them because whoever works downstream
of a task that is no longer completed is blocked, wherever in the chain. `RunInv` has `OneChain`, that where people answer
paused runs no two executors are busy, without which `NoPartialResume` is not inductive. `WaitersCanGoOn`
(`WaitingHasQuestion`) rests on `WaitInv`: a step that asked keeps its question open until its turn pauses, and beside a
run saved as waiting there are only pauses and resumes.

`ConnectionPoolProofs`, from `PoolAssumption`: `CallersShareOne` (`OneProcess`) and `CallsAreSentOnce` (`SentOnce`), from
`PoolInv`: before the first failure every wrapper is its own `current`, a live process is the entry or the pending start,
never both, and nobody is inside a wrapper's repair, so a call is sent once. `PoolTypes` (`TypeOK`) holds under failures too.
There `End` follows chains of wrappers, and that its equation has a solution at all needs an argument: `current` of a wrapper
is only ever set to a process started later (`ChainsRise`), so chains end. `ChainsEnd` proves it without induction over data:
the wrappers reached from one are a nonempty set, which has a last element (`LastOne`, from the well-foundedness of `<`), and
that one is its own `current`. `WiringInv` adds what keeps chains rising: processes are started in order, and a caller that
repairs something holds a process older than the one it waits for.

`FailuresBoundRetries` says what is left of the single retry the source announces: between two callers (`Pair`) a failure
makes a call be sent again at most twice (`RetriesAreFaults`). It bounds the tries of a call by what may still go wrong for
it. `TidyInv`, for any number of callers, says where things lie: the wrappers on one process form one line (`Lines`), those
of one call stand side by side on it and are older than its process or the one it repairs (`CallTidy`), and a start repairs
one wrapper at most; `RepairedEnds` says how ends move when it succeeds. `DebtInv` does the counting. The `Debt` of a call is
its tries, one for a repair under way, the dead processes it will meet on its way back (`Lost`), and the dead ones from where
the other caller would close the process it has or starts (`Threats`). A repair under way takes the place of a lost process
and becomes the next try, a close by the other caller turns a threat into a loss, and only a failure adds, one to each. What
threatens is among the dead processes somebody is on or may come to (`Haunted`), of which there are never more than failures;
that bounds the debt of a call that begins late. With three callers a repair of one can renew the threats to another, and the
argument and the bound fail together.

`SchedulerProofs`, from `ScheduleAssumption` and `NoRowAssumption`: `ScheduleInvariance` (`Spec => []SInv`) and from it
`ScheduleTypes`, `OccurrencesRunOnce` and `JobsFollowTheirCron`. Neither property is inductive, because the tick
overwrites rows with copies of any age: `SInv` says of the *copies* what is wanted of the rows. `ListInv`: what is still
listed was active and due at the tick's time. `RecordedInv`: no row and no copy is at or before an occurrence recorded for
it, if the clock shows that minute once. It survives an edit and a save because `NextCron` gives a time after every minute
shown once that is not after its argument (`NextCronLater`), although not after its argument itself.
`EditKeeps` and `SaveKeeps` do this for all calls and all saves.

### Only model-checked

Only liveness, which is out of the prover's reach: `SweepRecovers`, `StallExplained`, `DueJobsMoveOn`,
`AnswersReachTheirCall`, `QueueDrains`, `DispatchedAlertsAreHeard`, `EveryCallEnds`.

The strengthened invariants (`AdapterInv`, `PanelInv`, `HearInv`, `WiringInv`, `DebtInv` and the others) were checked by
TLC on small instances before they were proved.

## Not modelled

- *Graph validator, cron fields, permission and policy tables, licence, configuration merging*: pure functions of small
  inputs with unit tests; a model would repeat them.
- *Conversation, memory, self-improvement, attachments, language model clients, connectors, notifications, event bus*:
  storage, I/O and formats. What a message sets going is in `PendingAlerts`.
- *Task sessions, spirits of a supervisor, auto-review, auto-continuation, compaction*: variants of the modelled run whose
  decisions are the model's answers.
- *Web app, CLI, SDK, editor extension, HTTP routes*: presentation and parsing, which is most of the lines of the repository.
  What they contribute to a protocol (which actions a panel offers, with which keys, when a card can be answered) is in the
  modules. It is the reason why the modelled code is a small part of all lines, though it holds most of the decisions
  that concurrent requests, timers and crashes can upset.
- *Storage*: a SQLite transaction is atomic, and a synchronous stretch of code is.
