----------------------------- MODULE PendingAlerts -----------------------------
(***************************************************************************)
(* The alerts of the agents of one thread: a message wakes the members it  *)
(* targets, a wake starts a run or queues a durable wake intent when the   *)
(* thread or the member is busy, and the end of a run drains the queue.    *)
(*                                                                         *)
(* In a thread of two (mode "serialized") one run is active at a time, in  *)
(* a group (mode "parallel") one run of each member.                       *)
(***************************************************************************)
EXTENDS Naturals, FiniteSets

CONSTANTS
    Members,    \* the agents of the thread
    MaxMsg,     \* a bound on the messages posted
    Audience,   \* a bound: the sets of members each message may wake
    Modes,      \* the kinds of thread looked at
    MaxFaults   \* a bound on crashes and failed creations of a run

ASSUME AlertsAssumption ==
    /\ Modes \subseteq {"serialized", "parallel"}
    /\ MaxMsg \in Nat
    /\ Audience \in [1..MaxMsg -> SUBSET SUBSET Members]
    /\ MaxFaults \in Nat

VARIABLES
    mode,     \* resolveWakeSequencing of the thread
    posted,   \* number of messages in the thread, the time of the latest one
    wake,     \* where the promise chain that wakes for an alert stands
    intent,   \* wake_intents row of an alert; "cleared": dropped by a cancellation
    run,      \* the run an alert has started
    cursor,   \* interruptCursorByRunId of that run, 0 when there is none
    hooks,    \* runs whose run-completed hook has not come to the drain yet
    started,  \* history: how often an alert has started a run (capped at 2)
    heard,    \* history: alerts whose member has had the message in a prompt
    faults

vars == <<mode, posted, wake, intent, run, cursor, hooks, started, heard, faults>>

\* An alert: a member, and a message it may be woken for.
Alerts == {a \in Members \X (1..MaxMsg) : \E targets \in Audience[a[2]] : a[1] \in targets}
Outcomes == {"waiting", "ended", "cancelled"}

TypeOK ==
    /\ mode \in Modes
    /\ posted \in 0..MaxMsg
    /\ wake \in [Alerts -> {"none", "asked", "inline", "turn"}]
    /\ intent \in [Alerts -> {"none", "pending", "dispatched", "dropped", "cleared"}]
    /\ run \in [Alerts -> {"none", "active", "lost"} \cup Outcomes]
    /\ cursor \in [Alerts -> 0..MaxMsg]
    /\ hooks \subseteq Alerts \X Outcomes
    /\ started \in [Alerts -> 0..2]
    /\ heard \subseteq Alerts
    /\ faults \in 0..MaxFaults

Init ==
    /\ mode \in Modes
    /\ posted = 0
    /\ wake = [a \in Alerts |-> "none"]
    /\ intent = [a \in Alerts |-> "none"]
    /\ run = [a \in Alerts |-> "none"]
    /\ cursor = [a \in Alerts |-> 0]
    /\ hooks = {}
    /\ started = [a \in Alerts |-> 0]
    /\ heard = {}
    /\ faults = 0

-----------------------------------------------------------------------------
(* The wake of an alert.                                                   *)

\* Fault: cancelled runs are listed as well.
Live_OrCancelled(a) == run[a] \in {"active", "waiting", "lost", "cancelled"}

\* Runs listActiveRuns lists; a run whose process has died is one of them.
Live(a) == run[a] \in {"active", "waiting", "lost"}

\* Alerts that share the mutex and the turn: those of the thread, or of a member.
SameTurn(a, b) == mode = "serialized" \/ a[1] = b[1]
Blocked(a) == \E b \in Alerts : SameTurn(a, b) /\ Live(b)

Pending == {a \in Alerts : intent[a] = "pending"}

\* The mutex lets the wake of a in.
Admitted(a) ==
    /\ wake[a] = "inline"
    /\ ~\E b \in Alerts : SameTurn(a, b) /\ wake[b] = "turn"

\* The wakes under way are microtasks: messages, people and language models are
\* heard when there is none. The turn of a cancelled run holds the mutex until
\* its abort comes through, and a hook may wait for the run of a delegate.
Calm ==
    \A a \in Alerts :
        /\ wake[a] # "asked" /\ ~Admitted(a)
        /\ wake[a] = "turn" => run[a] \in {"active", "cancelled"}

\* A message wakes some members; in a thread of two there is one to wake.
Post(targets) ==
    /\ Calm
    /\ posted < MaxMsg
    /\ targets \in Audience[posted + 1] /\ targets # {}
    /\ mode = "serialized" => Cardinality(targets) = 1
    /\ posted' = posted + 1
    /\ wake' = [a \in Alerts |-> IF a[1] \in targets /\ a[2] = posted + 1
                                 THEN "asked" ELSE wake[a]]
    /\ UNCHANGED <<mode, intent, run, cursor, hooks, started, heard, faults>>

\* The wake ends in the queue; an alert that has been there before has a row
\* already, and the insert is ignored.
Queue(a) ==
    /\ wake' = [wake EXCEPT ![a] = "none"]
    /\ intent' = [intent EXCEPT ![a] = IF @ = "none" THEN "pending" ELSE @]

\* After handleAlert, which finds no supervisor: the first look at the runs.
Look(a) ==
    /\ wake[a] = "asked"
    /\ IF Blocked(a)
       THEN Queue(a)
       ELSE wake' = [wake EXCEPT ![a] = "inline"] /\ UNCHANGED intent
    /\ UNCHANGED <<mode, posted, run, cursor, hooks, started, heard, faults>>

\* createRun saves the run; its prompt holds every message posted so far.
StartRun(a) ==
    /\ wake' = [wake EXCEPT ![a] = "turn"]
    /\ run' = [run EXCEPT ![a] = "active"]
    /\ started' = [started EXCEPT ![a] = IF @ < 2 THEN @ + 1 ELSE 2]
    /\ heard' = heard \cup {b \in Alerts : b[1] = a[1] /\ b[2] <= posted}

\* Fault: the runs are not looked at again inside the mutex.
Enter_NoRecheck(a) ==
    /\ Admitted(a)
    /\ StartRun(a)
    /\ UNCHANGED <<mode, posted, intent, cursor, hooks, faults>>

\* Inside the mutex: the second look, and the run, created in the same slice.
Enter(a) ==
    /\ Admitted(a)
    /\ IF Blocked(a)
       THEN Queue(a) /\ UNCHANGED <<run, started, heard>>
       ELSE StartRun(a) /\ UNCHANGED intent
    /\ UNCHANGED <<mode, posted, cursor, hooks, faults>>

\* createRun throws: the failure is only announced.
CreateFails(a) ==
    /\ Admitted(a) /\ ~Blocked(a)
    /\ faults < MaxFaults
    /\ faults' = faults + 1
    /\ wake' = [wake EXCEPT ![a] = "none"]
    /\ UNCHANGED <<mode, posted, intent, run, cursor, hooks, started, heard>>

\* createRun returns when its turn has paused or ended: the mutex is free.
Release(a) ==
    /\ wake[a] = "turn" /\ run[a] # "active"
    /\ wake' = [wake EXCEPT ![a] = "none"]
    /\ UNCHANGED <<mode, posted, intent, run, cursor, hooks, started, heard, faults>>

-----------------------------------------------------------------------------
(* The run of an alert.                                                    *)

\* Between two steps the run loads what was posted since, for its own member,
\* and records how far it has read.
Read(a) ==
    /\ Calm
    /\ run[a] = "active" /\ cursor[a] < posted
    /\ cursor' = [cursor EXCEPT ![a] = posted]
    /\ heard' = heard \cup {b \in Alerts : b[1] = a[1] /\ b[2] <= posted}
    /\ UNCHANGED <<mode, posted, wake, intent, run, hooks, started, faults>>

\* A run is saved with an outcome, and its hook is called.
Outcome(a, s) ==
    /\ Calm
    /\ run' = [run EXCEPT ![a] = s]
    /\ hooks' = hooks \cup {<<a, s>>}
    /\ UNCHANGED <<mode, posted, wake, intent, cursor, started, heard, faults>>

\* The turn ends, by a last text or a terminating tool, or pauses for a person.
TurnEnds(a) == run[a] = "active" /\ \E s \in {"ended", "waiting"} : Outcome(a, s)

\* A person rejects, or cancels; or answers, and the run goes on, outside the mutex.
Rejected(a) == run[a] = "waiting" /\ Outcome(a, "ended")
Cancel(a) == Live(a) /\ Outcome(a, "cancelled")
Resume(a) ==
    /\ Calm
    /\ run[a] = "waiting"
    /\ run' = [run EXCEPT ![a] = "active"]
    /\ UNCHANGED <<mode, posted, wake, intent, cursor, hooks, started, heard, faults>>

-----------------------------------------------------------------------------
(* The drain.                                                              *)

Earliest(S) == {a \in S : \A b \in S : a[2] <= b[2]}

\* Fault: members with a run are woken too.
Selection_Busy(runnable) ==
    {a \in runnable : a \in Earliest({b \in runnable : SameTurn(a, b)})}

\* The alerts a drain wakes: the earliest one of each member without a run, or
\* the earliest one of the thread if it has no run.
Selection(runnable) ==
    {a \in runnable : ~Blocked(a) /\ a \in Earliest({b \in runnable : SameTurn(a, b)})}

\* Faults: the rows stay pending; the word of the wake is saved in the row.
Settle_NoMark(read, chosen) ==
    intent' = [a \in Alerts |-> IF a \in read THEN "dropped" ELSE intent[a]]
Settle_WakeWord(read, chosen) ==
    intent' = [a \in Alerts |-> IF a \in read THEN "dropped"
                                ELSE IF a \in chosen THEN "asked" ELSE intent[a]]

\* The rows a drain has read past are dropped, those it wakes marked.
Settle(read, chosen) ==
    intent' = [a \in Alerts |-> IF a \in read THEN "dropped"
                                ELSE IF a \in chosen THEN "dispatched" ELSE intent[a]]

\* Fault: the end of a cancelled run neither clears the queue nor wakes anybody.
DrainCancelled_Keeps(a) ==
    /\ <<a, "cancelled">> \in hooks
    /\ hooks' = hooks \ {<<a, "cancelled">>}
    /\ cursor' = [cursor EXCEPT ![a] = 0]
    /\ UNCHANGED <<mode, posted, wake, intent, run, started, heard, faults>>

\* The hook of a cancelled run drops the whole queue of the thread.
DrainCancelled(a) ==
    /\ <<a, "cancelled">> \in hooks
    /\ hooks' = hooks \ {<<a, "cancelled">>}
    /\ cursor' = [cursor EXCEPT ![a] = 0]
    /\ intent' = [b \in Alerts |-> IF b \in Pending THEN "cleared" ELSE intent[b]]
    /\ UNCHANGED <<mode, posted, wake, run, started, heard, faults>>

\* The hook of any other run drops what lies before the cursor of the run,
\* whoever it is for, and wakes the next ones in microtasks of their own.
Drain(a, s) ==
    /\ <<a, s>> \in hooks /\ s # "cancelled"
    /\ hooks' = hooks \ {<<a, s>>}
    /\ cursor' = [cursor EXCEPT ![a] = 0]
    /\ LET read == {b \in Pending : b[2] <= cursor[a]}
           chosen == Selection(Pending \ read)
       IN /\ Settle(read, chosen)
          /\ wake' = [b \in Alerts |-> IF b \in chosen THEN "asked" ELSE wake[b]]
    /\ UNCHANGED <<mode, posted, run, started, heard, faults>>

\* The process dies; the rows are left, and those of active runs with them.
Crash ==
    /\ Calm
    /\ faults < MaxFaults
    /\ faults' = faults + 1
    /\ wake' = [a \in Alerts |-> "none"]
    /\ run' = [a \in Alerts |-> IF run[a] = "active" THEN "lost" ELSE run[a]]
    /\ cursor' = [a \in Alerts |-> 0]
    /\ hooks' = {}
    /\ UNCHANGED <<mode, posted, intent, started, heard>>

-----------------------------------------------------------------------------
WakeStep(a) == Look(a) \/ Enter(a) \/ Release(a)
HookStep(a) == DrainCancelled(a) \/ \E s \in Outcomes : Drain(a, s)

Next ==
    \/ \E targets \in SUBSET Members : Post(targets)
    \/ \E a \in Alerts :
          \/ WakeStep(a) \/ CreateFails(a) \/ HookStep(a)
          \/ Read(a) \/ TurnEnds(a) \/ Rejected(a) \/ Cancel(a) \/ Resume(a)
    \/ Crash

\* Promise chains go on and turns come to an end; people need not answer.
Fairness ==
    /\ WF_vars(\E a \in Alerts : WakeStep(a))
    /\ WF_vars(\E a \in Alerts : HookStep(a))
    /\ WF_vars(\E a \in Alerts : TurnEnds(a))

Spec == Init /\ [][Next]_vars
FairSpec == Spec /\ Fairness

-----------------------------------------------------------------------------
(* Properties.                                                             *)

\* An alert starts at most one run, however often it is queued, drained by
\* overlapping hooks and woken again.
DeliveredOnce == \A a \in Alerts : started[a] <= 1

\* One run at a time in a thread of two, and of each member of a group, although
\* wakes look at the runs long before they enter the mutex and a resumed run is
\* outside of it ("the *same* agent must not start two runs", index.ts:711).
TurnTaking == \A a, b \in Alerts : a # b /\ SameTurn(a, b) => ~(Live(a) /\ Live(b))

\* Who will look at the queue for alert a: the hook of a run, a run of its turn,
\* or a wake of its turn that is under way.
Watched(a) ==
    \/ hooks # {}
    \/ Blocked(a)
    \/ \E b \in Alerts : SameTurn(a, b) /\ wake[b] \in {"asked", "inline"}

\* Without a fault, no alert is left in the queue with nobody to look at it.
QueueIsWatched == faults = 0 => \A a \in Pending : Watched(a)

\* Without a fault, a queued alert leaves the queue, unless a person is waited for.
QueueDrains ==
    \A a \in Alerts :
        a \in Pending ~> (a \notin Pending \/ faults > 0 \/ \E b \in Alerts : run[b] = "waiting")

\* Where nobody cancels, an alert that is dropped because a run has read past it
\* has been heard by its own member, or may be by a run of its that goes on.
DroppedAlertsAreHeard ==
    \A a \in Alerts :
        intent[a] = "dropped" /\ (\A b \in Alerts : run[b] # "cancelled") =>
            a \in heard \/ \E b \in Alerts : b[1] = a[1] /\ Live(b)

\* In a group, the member of an alert taken from the queue gets to hear it, even
\* when the wake loses the race against another one and is not queued again.
DispatchedAlertsAreHeard ==
    \A a \in Alerts :
        (mode = "parallel" /\ intent[a] = "dispatched")
        ~> (a \in heard \/ faults > 0 \/ \E b \in Alerts : run[b] = "waiting")
=============================================================================
