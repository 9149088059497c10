----------------------------- MODULE Scheduler -----------------------------
(***************************************************************************)
(* The job scheduler of packages/orchestrator/src/services/scheduler.ts    *)
(* with the calls that edit its table: create, patch, delete and the       *)
(* retirement of a member.  A tick reads every due job, executes them one  *)
(* after the other and writes each back from the copy it read.             *)
(*                                                                         *)
(* Executing a heartbeat awaits the whole agent run (createRun awaits      *)
(* advanceRun), and a self-improvement review a model call: meanwhile the  *)
(* clock moves and every call may be made, by the running agent's own      *)
(* tools too.  A message is posted without leaving the microtask queue, so *)
(* that only a failure or the death of the process comes in between.       *)
(***************************************************************************)
EXTENDS Integers, FiniteSets

CONSTANTS
  Jobs,        \* ids; a job's id is made up at its creation and never used again
  Members,
  TypesOf,     \* job -> the types that its callers give it
  Crons,       \* cron expressions that parse
  Match,       \* expression -> the minutes of the wall clock it matches
  Horizon,     \* how many minutes ahead a match is looked for: 525600 in the code
  BackAt,      \* the minute at which the wall clock is set back, once ...
  Repeated,    \* ... by so many minutes, which it then shows again: 60 in most zones
  LastMinute,  \* bound on the clock
  MaxFaults,   \* bound on process crashes and database errors
  NoRow        \* no such row in scheduled_jobs

Types == {"schedule", "heartbeat", "self_improvement"}

ASSUME ScheduleAssumption ==
  /\ TypesOf \in [Jobs -> SUBSET Types]
  /\ Match \in [Crons -> SUBSET Nat]
  /\ BackAt \in Nat /\ Repeated \in 0 .. BackAt
  /\ Horizon \in Nat /\ LastMinute \in Nat \ {0} /\ MaxFaults \in Nat

Unset == 0       \* nextRunAt undefined; NULL sorts before every time, and is due

Statuses == {"active", "paused"}   \* paused: any status but active
Rows == [owner : Members, type : Types, cron : Crons, status : Statuses, next : Nat]

ASSUME NoRowAssumption == NoRow \notin Rows

VARIABLES
  now,        \* the minute it is
  job,        \* scheduled_jobs
  deleted,    \* jobs that have been deleted
  retired,    \* members with a retiredAt
  pc,         \* the tick: at an await, or "loop" in the middle of a slice
  tickNow,    \* its `now`
  copy,       \* its due list: the row of each job still to do, as it was read
  current,    \* the job it is executing
  succeeded,  \* <<job, nextRunAt>> of the executions recorded as successful
  faults

vars == <<now, job, deleted, retired, pc, tickNow, copy, current, succeeded, faults>>

Listed == {j \in Jobs : copy[j] # NoRow}
NoCopies == [j \in Jobs |-> NoRow]

TypeOK ==
  /\ now \in Nat /\ tickNow \in Nat
  /\ job \in [Jobs -> Rows \cup {NoRow}]
  /\ copy \in [Jobs -> Rows \cup {NoRow}]
  /\ deleted \subseteq Jobs
  /\ retired \subseteq Members
  /\ pc \in {"idle", "loop", "posted", "executing", "onTick"}
  /\ current \subseteq Jobs
  /\ succeeded \subseteq Jobs \X Nat
  /\ faults \in 0 .. MaxFaults

Init ==
  /\ now = 1 /\ tickNow = 1
  /\ job = NoCopies
  /\ copy = NoCopies
  /\ deleted = {} /\ retired = {} /\ current = {} /\ succeeded = {}
  /\ pc = "idle"
  /\ faults = 0

-----------------------------------------------------------------------------
(* The fields of a Date are those of the wall clock.  Its minutes are      *)
(* numbered as they are shown, so that a clock set forward leaves no gap.  *)
Wall(m) == IF m < BackAt THEN m ELSE m - Repeated

(* Setting a field of a Date: a time the clock shows twice is the first.   *)
Instant(w) == IF w < BackAt THEN w ELSE w + Repeated

First(c, S) ==
  LET matches == S \cap Match[c]
  IN  IF matches = {} THEN Unset ELSE Instant(CHOOSE w \in matches : \A u \in matches : w <= u)

NextCron_AtOrAfter(c, m) == First(c, Wall(m) .. (Wall(m) + Horizon - 1))

(* computeNextCronRun: the first match after the time the clock shows at m *)
NextCron(c, m) == First(c, (Wall(m) + 1) .. (Wall(m) + Horizon))

(* resolveScheduledJobNextRunAt, for a patch that gives a cron or not.     *)
PatchedNext_IfCronGiven(old, given, cron, status) ==
  IF status = "active" /\ given THEN NextCron(cron, now) ELSE old.next

PatchedNext(old, given, cron, status) ==
  IF status = "active" /\ (given \/ old.status # "active")
  THEN NextCron(cron, now) ELSE old.next

-----------------------------------------------------------------------------
(* The calls that edit the table.                                          *)

Calm == pc \in {"idle", "executing", "onTick"}   \* an outside event may come
TickRests == UNCHANGED <<pc, tickNow, copy, current, succeeded, faults>>

Minute ==
  /\ now < LastMinute
  /\ now' = now + 1
  /\ TickRests /\ UNCHANGED <<job, deleted, retired>>

Create(j, m, c, ty) ==
  /\ Calm /\ job[j] = NoRow /\ j \notin deleted
  /\ NextCron(c, now) # Unset           \* 'Invalid cron expression.'
  /\ job' = [job EXCEPT ![j] = [owner |-> m, type |-> ty, cron |-> c,
                                status |-> "active", next |-> NextCron(c, now)]]
  /\ TickRests /\ UNCHANGED <<now, deleted, retired>>

Patch(j, given, c, s, ty) ==
  /\ Calm /\ job[j] # NoRow
  /\ LET old == job[j]
         cron == IF given THEN c ELSE old.cron
         next == PatchedNext(old, given, cron, s)
     IN  /\ (given \/ (s = "active" /\ old.status # "active")) => next # Unset
         /\ job' = [job EXCEPT ![j] = [owner |-> old.owner, type |-> ty, cron |-> cron,
                                       status |-> s, next |-> next]]
  /\ TickRests /\ UNCHANGED <<now, deleted, retired>>

(* DELETE /schedules/:id, and `cancel` of the agents' schedule tool.       *)
Delete(j) ==
  /\ Calm /\ job[j] # NoRow
  /\ job' = [job EXCEPT ![j] = NoRow]
  /\ deleted' = deleted \cup {j}
  /\ TickRests /\ UNCHANGED <<now, retired>>

(* deleteMember: the member is retired and its jobs are deleted.           *)
Retire(m) ==
  /\ Calm
  /\ retired' = retired \cup {m}
  /\ LET owned == {j \in Jobs : job[j] # NoRow /\ job[j].owner = m}
     IN  /\ job' = [j \in Jobs |-> IF j \in owned THEN NoRow ELSE job[j]]
         /\ deleted' = deleted \cup owned
  /\ TickRests /\ UNCHANGED now

(* The configuration no longer lists the member: its jobs stay.            *)
RetireByConfig(m) ==
  /\ Calm /\ m \notin retired
  /\ retired' = retired \cup {m}
  /\ TickRests /\ UNCHANGED <<now, job, deleted>>

-----------------------------------------------------------------------------
(* The tick.                                                               *)

Due(row) == row # NoRow /\ row.status = "active" /\ row.next <= now

(* tickInFlight: no tick starts before the last one has ended.             *)
TickStart ==
  /\ pc = "idle"
  /\ tickNow' = now
  /\ copy' = [j \in Jobs |-> IF Due(job[j]) THEN job[j] ELSE NoRow]
  /\ pc' = "loop"
  /\ UNCHANGED <<now, job, deleted, retired, current, succeeded, faults>>

IsFirst(j) ==
  /\ pc = "loop" /\ j \in Listed
  /\ \A i \in Listed : copy[j].next <= copy[i].next

LoopOn(j) ==
  /\ pc' = "loop"
  /\ copy' = [copy EXCEPT ![j] = NoRow]
  /\ current' = {}
  /\ UNCHANGED <<now, deleted, retired, tickNow, faults>>

(* saveScheduledJob is an upsert of every column, hence of the copy.       *)
Save(j, row) == job' = [job EXCEPT ![j] = row]

(* A job without a next time only gets one.                                *)
Unscheduled(j) ==
  /\ IsFirst(j) /\ copy[j].next = Unset
  /\ LET next == NextCron(copy[j].cron, tickNow)
     IN  IF next = Unset THEN UNCHANGED job
                         ELSE Save(j, [copy[j] EXCEPT !.next = next])
  /\ LoopOn(j) /\ UNCHANGED succeeded

SaveFailure_KeepsNext(j, permanent) ==
  /\ Save(j, [copy[j] EXCEPT !.status = IF permanent THEN "paused" ELSE @])
  /\ LoopOn(j) /\ UNCHANGED succeeded

SaveFailure_Errored(j, permanent) ==
  LET next == NextCron(copy[j].cron, tickNow)
  IN  /\ Save(j, [copy[j] EXCEPT !.status = IF permanent THEN "error" ELSE @,
                                 !.next = IF next = Unset THEN @ ELSE next])
      /\ LoopOn(j) /\ UNCHANGED succeeded

SaveFailure(j, permanent) ==
  LET next == NextCron(copy[j].cron, tickNow)
  IN  /\ Save(j, [copy[j] EXCEPT !.status = IF permanent THEN "paused" ELSE @,
                                 !.next = IF next = Unset THEN @ ELSE next])
      /\ LoopOn(j) /\ UNCHANGED succeeded

(* Jobs have a channel here; without one there is nothing to execute.      *)
OwnerServes(row) == row.type = "self_improvement" \/ row.owner \notin retired

(* executeJob fails before it has done anything: no such channel, not      *)
(* allowed to write there, the owner retired.                              *)
Refused(j) ==
  /\ IsFirst(j) /\ copy[j].next # Unset
  /\ \E permanent \in BOOLEAN :
       /\ permanent => copy[j].type = "schedule"
       /\ (copy[j].type = "schedule" /\ copy[j].owner \in retired) => permanent
       /\ SaveFailure(j, permanent)

Begin(j) ==
  /\ IsFirst(j) /\ copy[j].next # Unset
  /\ OwnerServes(copy[j])
  /\ pc' = IF copy[j].type = "schedule" THEN "posted" ELSE "executing"
  /\ current' = {j}
  /\ UNCHANGED <<now, job, deleted, retired, tickNow, copy, succeeded, faults>>

Succeeded(j) ==
  /\ j \in current
  /\ Save(j, [copy[j] EXCEPT !.next = NextCron(copy[j].cron, tickNow)])
  /\ succeeded' = succeeded \cup {<<j, copy[j].next>>}
  /\ LoopOn(j)

(* The execution rejects, or the save of its success throws once.          *)
Failed(j) ==
  /\ j \in current
  /\ SaveFailure(j, FALSE)

LoopDone ==
  /\ pc = "loop" /\ Listed = {}
  /\ pc' = "onTick"
  /\ UNCHANGED <<now, job, deleted, retired, tickNow, copy, current, succeeded, faults>>

(* onTick, the sweeps of the goals and of the workflows, has ended.        *)
TickEnd ==
  /\ pc = "onTick"
  /\ pc' = "idle"
  /\ UNCHANGED <<now, job, deleted, retired, tickNow, copy, current, succeeded, faults>>

-----------------------------------------------------------------------------
(* Faults.                                                                 *)

Drop == copy' = NoCopies /\ current' = {}

(* The save of a failure throws too: the tick gives up its list.           *)
StoreFault ==
  /\ faults < MaxFaults /\ faults' = faults + 1
  /\ pc \in {"loop", "posted", "executing"} /\ Listed # {}
  /\ pc' = "onTick"
  /\ Drop
  /\ UNCHANGED <<now, job, deleted, retired, tickNow, succeeded>>

(* The process dies and is started again.                                  *)
Crash ==
  /\ faults < MaxFaults /\ faults' = faults + 1
  /\ pc # "idle"
  /\ pc' = "idle"
  /\ Drop
  /\ UNCHANGED <<now, job, deleted, retired, tickNow, succeeded>>

-----------------------------------------------------------------------------
Edit ==
  \/ \E j \in Jobs, m \in Members, c \in Crons : \E ty \in TypesOf[j] : Create(j, m, c, ty)
  \/ \E j \in Jobs, given \in BOOLEAN, c \in Crons, s \in Statuses :
       \E ty \in TypesOf[j] : Patch(j, given, c, s, ty)
  \/ \E j \in Jobs : Delete(j)
  \/ \E m \in Members : Retire(m) \/ RetireByConfig(m)

Take(j) == Unscheduled(j) \/ Refused(j) \/ Begin(j)

Next ==
  \/ Minute \/ Edit
  \/ TickStart \/ LoopDone \/ TickEnd
  \/ \E j \in Jobs : Take(j) \/ Succeeded(j) \/ Failed(j)
  \/ StoreFault \/ Crash

Spec == Init /\ [][Next]_vars

(* Time passes, the timer fires again and again, and whatever the tick     *)
(* awaits ends: an agent run is bounded by its iterations, a model call by *)
(* its time-out.  Nothing is assumed of the people and agents who edit.    *)
FairSpec ==
  /\ Spec
  /\ WF_vars(Minute)
  /\ WF_vars(TickStart) /\ WF_vars(LoopDone) /\ WF_vars(TickEnd)
  /\ WF_vars(\E j \in Jobs : Take(j))
  /\ WF_vars(\E j \in Jobs : Succeeded(j) \/ Failed(j))

-----------------------------------------------------------------------------
(* Properties.                                                             *)

(* An occurrence that was recorded as executed is not executed again: not  *)
(* after an edit, an overwritten edit, a failure, or a crash.  It is known *)
(* by its time alone, so that the rule ends where the clock is set back:   *)
(* only a minute the clock shows twice may be executed twice.              *)
ShownOnce(t) == t < BackAt - Repeated \/ BackAt + Repeated <= t

OccurrenceOnce ==
  \A j \in current : ShownOnce(copy[j].next) => <<j, copy[j].next>> \notin succeeded

FollowsCron(row) ==
  (row # NoRow /\ row.status = "active" /\ row.next # Unset) => Wall(row.next) \in Match[row.cron]

(* An active job is due when the clock shows a minute its own expression   *)
(* matches, though the expression is edited while it is paused or executed *)
(* and a stale copy may be written over the edit.                          *)
ActiveRowsFollowTheirCron == \A j \in Jobs : FollowsCron(job[j])

(* A due job does not stay due, whatever the jobs before it in the list do *)
(* and however its own executions fail: not beyond the minutes in which    *)
(* the clock has been set back, either.                                    *)
Occurrences == {Instant(w) : w \in UNION {Match[c] : c \in Crons}}

DueJobsMoveOn ==
  \A j \in Jobs, n \in Occurrences \cap (1 .. LastMinute) :
    (Due(job[j]) /\ job[j].next = n)
      ~> (job[j] = NoRow \/ job[j].status # "active" \/ job[j].next # n)

-----------------------------------------------------------------------------
(* Why they hold (SchedulerProofs).                                        *)

\* What the tick knows of the rows it copied, however old they are.
ListInv ==
  /\ tickNow <= now
  /\ pc \in {"idle", "onTick"} => Listed = {}
  /\ pc \notin {"posted", "executing"} => current = {}
  /\ \A j \in current : j \in Listed /\ copy[j].next # Unset
  /\ \A j \in Listed : copy[j].status = "active" /\ copy[j].next <= tickNow

Later(row, n) == (row # NoRow /\ row.next # Unset) => n < row.next

\* Neither a row nor a copy leads back to an occurrence that was recorded.
RecordedInv ==
  \A r \in succeeded :
    /\ r[2] <= tickNow
    /\ ShownOnce(r[2]) => Later(job[r[1]], r[2]) /\ Later(copy[r[1]], r[2])

(* The inductive invariant: a copy that overwrites an edit is itself a row *)
(* that follows its expression and lies after all that was recorded.       *)
SInv ==
  /\ TypeOK /\ ListInv /\ RecordedInv
  /\ \A j \in Jobs : FollowsCron(job[j]) /\ FollowsCron(copy[j])
=============================================================================
