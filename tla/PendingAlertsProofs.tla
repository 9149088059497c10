-------------------------- MODULE PendingAlertsProofs --------------------------
(***************************************************************************)
(* For any members, messages, audiences, kinds of thread and faults: an    *)
(* alert starts one run at most, runs take turns, and without a fault the  *)
(* queue is always watched.                                                *)
(***************************************************************************)
EXTENDS PendingAlerts, WellFoundedInduction, TLAPS

\* An alert that is queued or on its way has not started a run, and one of a
\* message still to come has no history at all.
FreshInv ==
    \A a \in Alerts :
        /\ started[a] <= 1
        /\ wake[a] \in {"asked", "inline"} \/ intent[a] = "pending" => started[a] = 0
        /\ intent[a] = "pending" => wake[a] = "none"
        /\ a[2] > posted => /\ started[a] = 0 /\ wake[a] = "none"
                            /\ intent[a] = "none"

AInv == TypeOK /\ FreshInv /\ TurnTaking /\ QueueIsWatched

-----------------------------------------------------------------------------
(* The set of alerts, and the relation SameTurn.                           *)

\* Alerts are pairs of a member and a message number.
LEMMA AlertPairs ==
  \A a \in Alerts : a \in Members \X (1..MaxMsg) /\ a[1] \in Members /\ a[2] \in Nat
BY AlertsAssumption DEF Alerts

\* Sharing a turn is an equivalence.
LEMMA TurnsAreClasses ==
  /\ \A a : SameTurn(a, a)
  /\ \A a, b : SameTurn(a, b) => SameTurn(b, a)
  /\ \A a, b, c : SameTurn(a, b) /\ SameTurn(b, c) => SameTurn(a, c)
BY DEF SameTurn

\* Alerts of one turn are blocked together.
LEMMA BlockedTogether ==
  ASSUME NEW a \in Alerts, NEW b \in Alerts, SameTurn(a, b), Blocked(a)
  PROVE  Blocked(b)
BY TurnsAreClasses DEF Blocked

\* A set of alerts that is not empty has an earliest one.
LEMMA EarliestExists ==
  ASSUME NEW S \in SUBSET Alerts, S # {}
  PROVE  Earliest(S) # {}
<1> DEFINE T == {a[2] : a \in S}
<1>1. T \subseteq Nat /\ T # {}
  BY AlertPairs
<1>2. PICK n \in T : \A m \in T : ~(<<m, n>> \in OpToRel(<, Nat))
  BY <1>1, NatLessThanWellFounded, WFMin
<1>3. \A m \in T : n <= m
  <2> SUFFICES ASSUME NEW m \in T PROVE n <= m
    OBVIOUS
  <2>1. m \in Nat /\ n \in Nat
    BY <1>1
  <2>2. ~(m < n)
    BY <1>2, <2>1, Zenon DEF OpToRel
  <2> QED BY <2>1, <2>2
<1>4. PICK a \in S : a[2] = n
  OBVIOUS
<1>5. a \in Earliest(S)
  BY <1>3, <1>4 DEF Earliest
<1> QED BY <1>5

\* A drain wakes some alert of the turn of every alert it leaves, unless that turn
\* is taken.
LEMMA SelectionServes ==
  ASSUME NEW R \in SUBSET Alerts, NEW c \in R
  PROVE  Blocked(c) \/ \E b \in Selection(R) : b \in R /\ SameTurn(c, b)
<1> DEFINE S == {b \in R : SameTurn(c, b)}
<1>1. c \in S /\ S \in SUBSET Alerts
  BY TurnsAreClasses
<1>2. PICK b \in S : b \in Earliest(S)
  BY <1>1, EarliestExists DEF Earliest
<1>3. SameTurn(c, b) /\ SameTurn(b, c) /\ b \in R
  BY <1>2, TurnsAreClasses
<1>4. {d \in R : SameTurn(b, d)} = S
  BY <1>3, TurnsAreClasses
<1>5. CASE Blocked(b)
  BY <1>3, <1>5, BlockedTogether
<1>6. CASE ~Blocked(b)
  <2>1. b \in Selection(R)
    BY <1>2, <1>3, <1>4, <1>6, TurnsAreClasses DEF Selection, Earliest
  <2> QED BY <2>1, <1>3
<1> QED BY <1>5, <1>6

-----------------------------------------------------------------------------
(* Each action keeps the invariant.                                        *)

\* The initial state.
LEMMA InitAInv == Init => AInv
<1> SUFFICES ASSUME Init PROVE AInv
  OBVIOUS
<1> USE AlertsAssumption DEF Init
<1>1. TypeOK
  BY DEF TypeOK
<1>2. FreshInv
  BY DEF FreshInv
<1>3. TurnTaking /\ QueueIsWatched
  BY DEF TurnTaking, QueueIsWatched, Live, Pending
<1> QED BY <1>1, <1>2, <1>3 DEF AInv

\* A message wakes alerts that have no history.
LEMMA PostStep ==
  ASSUME AInv, NEW targets \in SUBSET Members, Post(targets)
  PROVE  AInv'
<1> USE AlertsAssumption, AlertPairs DEF AInv, Post
<1>1. TypeOK'
  BY DEF TypeOK
<1>2. FreshInv'
  BY DEF FreshInv, TypeOK
<1>3. TurnTaking'
  BY DEF TurnTaking, Live, SameTurn
<1>4. QueueIsWatched'
  <2>1. \A a \in Alerts : wake[a] \in {"asked", "inline"} => wake'[a] \in {"asked", "inline"}
    BY DEF TypeOK
  <2> QED BY <2>1 DEF QueueIsWatched, Pending, Watched, Blocked, Live, SameTurn
<1> QED BY <1>1, <1>2, <1>3, <1>4

\* A wake that finds its turn taken ends in the queue, which the run of the turn
\* watches.
LEMMA QueueKeepsInv ==
  ASSUME AInv, NEW a \in Alerts, wake[a] \in {"asked", "inline"}, Blocked(a), Queue(a),
         UNCHANGED <<mode, posted, run, cursor, hooks, started, heard, faults>>
  PROVE  AInv'
<1> USE DEF AInv, Queue
<1>1. TypeOK'
  BY DEF TypeOK
<1>2. FreshInv'
  BY AlertPairs DEF FreshInv, TypeOK
<1>3. TurnTaking'
  BY DEF TurnTaking, Live, SameTurn
<1>4. QueueIsWatched'
  <2> SUFFICES ASSUME faults' = 0, NEW c \in Pending' PROVE Watched(c)'
    BY DEF QueueIsWatched
  <2>1. c \in Alerts
    BY DEF Pending
  <2>2. CASE SameTurn(a, c)
    BY <2>1, <2>2, BlockedTogether DEF Watched, Blocked, Live, SameTurn
  <2>3. CASE ~SameTurn(a, c)
    <3>1. c # a /\ ~SameTurn(c, a)
      BY <2>3, TurnsAreClasses
    <3>2. Watched(c)
      BY <3>1 DEF QueueIsWatched, Pending, TypeOK
    <3> QED BY <3>1, <3>2 DEF Watched, Blocked, Live, SameTurn, TypeOK
  <2> QED BY <2>2, <2>3
<1> QED BY <1>1, <1>2, <1>3, <1>4

\* The first look.
LEMMA LookStep ==
  ASSUME AInv, NEW a \in Alerts, Look(a)
  PROVE  AInv'
<1>1. CASE Blocked(a)
  BY <1>1, QueueKeepsInv DEF Look
<1>2. CASE ~Blocked(a)
  <2> USE <1>2 DEF AInv, Look
  <2>1. TypeOK'
    BY DEF TypeOK
  <2>2. FreshInv'
    BY AlertPairs DEF FreshInv, TypeOK
  <2>3. TurnTaking'
    BY DEF TurnTaking, Live, SameTurn
  <2>4. QueueIsWatched'
    BY DEF QueueIsWatched, Pending, Watched, Blocked, Live, SameTurn, TypeOK
  <2> QED BY <2>1, <2>2, <2>3, <2>4
<1> QED BY <1>1, <1>2

\* The second look, and the run.
LEMMA EnterStep ==
  ASSUME AInv, NEW a \in Alerts, Enter(a)
  PROVE  AInv'
<1>1. CASE Blocked(a)
  BY <1>1, QueueKeepsInv DEF Enter, Admitted
<1>2. CASE ~Blocked(a)
  <2> USE <1>2 DEF AInv, Enter, Admitted, StartRun
  <2>1. TypeOK'
    BY DEF TypeOK
  <2>2. FreshInv'
    BY AlertPairs DEF FreshInv, TypeOK
  <2>3. TurnTaking'
    <3>1. \A b \in Alerts : SameTurn(a, b) => ~Live(b)
      BY DEF Blocked
    <3>2. \A b \in Alerts : b # a => (Live(b)' <=> Live(b))
      BY DEF Live, TypeOK
    <3>3. \A b, c : SameTurn(b, c)' <=> SameTurn(b, c)
      BY DEF SameTurn
    <3> QED BY <3>1, <3>2, <3>3, TurnsAreClasses DEF TurnTaking
  <2>4. QueueIsWatched'
    <3> SUFFICES ASSUME faults' = 0, NEW c \in Pending' PROVE Watched(c)'
      BY DEF QueueIsWatched
    <3>1. c \in Pending /\ c \in Alerts /\ Watched(c)
      BY DEF QueueIsWatched, Pending
    <3>2. CASE SameTurn(c, a)
      <4>1. Live(a)' /\ SameTurn(c, a)'
        BY <3>2 DEF Live, SameTurn, TypeOK
      <4> QED BY <4>1 DEF Watched, Blocked
    <3>3. CASE ~SameTurn(c, a)
      <4>1. \A b \in Alerts : b # a => (Live(b)' <=> Live(b)) /\ wake'[b] = wake[b]
        BY DEF Live, TypeOK
      <4> QED BY <3>1, <3>3, <4>1 DEF Watched, Blocked, SameTurn
    <3> QED BY <3>2, <3>3
  <2> QED BY <2>1, <2>2, <2>3, <2>4
<1> QED BY <1>1, <1>2

\* A failed creation is a fault; the release of the mutex and a read change nothing
\* the invariant speaks of.
LEMMA QuietStep ==
  ASSUME AInv, NEW a \in Alerts, CreateFails(a) \/ Release(a) \/ Read(a)
  PROVE  AInv'
<1> USE AlertPairs, AlertsAssumption DEF AInv
<1>1. CASE CreateFails(a)
  <2> USE <1>1 DEF CreateFails, Admitted
  <2>1. TypeOK'
    BY DEF TypeOK
  <2>2. FreshInv'
    BY DEF FreshInv, TypeOK
  <2>3. TurnTaking'
    BY DEF TurnTaking, Live, SameTurn
  <2>4. QueueIsWatched'
    BY DEF QueueIsWatched, TypeOK
  <2> QED BY <2>1, <2>2, <2>3, <2>4
<1>2. CASE Release(a)
  <2> USE <1>2 DEF Release
  <2>1. TypeOK'
    BY DEF TypeOK
  <2>2. FreshInv'
    BY DEF FreshInv, TypeOK
  <2>3. TurnTaking'
    BY DEF TurnTaking, Live, SameTurn
  <2>4. QueueIsWatched'
    BY DEF QueueIsWatched, Pending, Watched, Blocked, Live, SameTurn, TypeOK
  <2> QED BY <2>1, <2>2, <2>3, <2>4
<1>3. CASE Read(a)
  <2> USE <1>3 DEF Read
  <2>1. TypeOK'
    BY DEF TypeOK
  <2>2. FreshInv'
    BY DEF FreshInv
  <2>3. TurnTaking' /\ QueueIsWatched'
    BY DEF TurnTaking, QueueIsWatched, Pending, Watched, Blocked, Live, SameTurn
  <2> QED BY <2>1, <2>2, <2>3
<1> QED BY <1>1, <1>2, <1>3

\* A run that pauses, ends or goes on has been live, and calls its hook if it may
\* be live no more.
LEMMA RunStep ==
  ASSUME AInv, NEW a \in Alerts,
         TurnEnds(a) \/ Rejected(a) \/ Cancel(a) \/ Resume(a)
  PROVE  AInv'
<1> USE AlertPairs, AlertsAssumption DEF AInv
<1>1. CASE TurnEnds(a) \/ Rejected(a) \/ Cancel(a)
  <2>1. PICK s \in Outcomes : Outcome(a, s) /\ Live(a)
    BY <1>1 DEF TurnEnds, Rejected, Cancel, Outcomes, Live
  <2> USE <2>1 DEF Outcome
  <2>2. TypeOK'
    BY DEF TypeOK
  <2>3. FreshInv'
    BY DEF FreshInv
  <2>4. TurnTaking'
    <3>1. \A b \in Alerts : Live(b)' => Live(b)
      BY DEF Live, TypeOK
    <3> QED BY <3>1 DEF TurnTaking, SameTurn
  <2>5. QueueIsWatched'
    BY DEF QueueIsWatched, Watched, Pending
  <2> QED BY <2>2, <2>3, <2>4, <2>5
<1>2. CASE Resume(a)
  <2> USE <1>2 DEF Resume
  <2>1. TypeOK'
    BY DEF TypeOK
  <2>2. FreshInv'
    BY DEF FreshInv
  <2>3. \A b \in Alerts : Live(b)' <=> Live(b)
    BY DEF Live, TypeOK
  <2>4. TurnTaking'
    BY <2>3 DEF TurnTaking, SameTurn
  <2>5. QueueIsWatched'
    BY <2>3 DEF QueueIsWatched, Pending, Watched, Blocked, SameTurn
  <2> QED BY <2>1, <2>2, <2>4, <2>5
<1> QED BY <1>1, <1>2

\* The hook of a cancelled run empties the queue.
LEMMA DrainCancelledStep ==
  ASSUME AInv, NEW a \in Alerts, DrainCancelled(a)
  PROVE  AInv'
<1> USE AlertPairs, AlertsAssumption DEF AInv, DrainCancelled
<1>1. TypeOK'
  BY DEF TypeOK, Pending
<1>2. FreshInv'
  BY DEF FreshInv, TypeOK, Pending
<1>3. TurnTaking'
  BY DEF TurnTaking, Live, SameTurn
<1>4. QueueIsWatched'
  BY DEF QueueIsWatched, Pending, TypeOK
<1> QED BY <1>1, <1>2, <1>3, <1>4

\* The hook of another run leaves an alert in the queue only if its turn is taken
\* or a wake of its turn is under way.
LEMMA DrainStep ==
  ASSUME AInv, NEW a \in Alerts, NEW s \in Outcomes, Drain(a, s)
  PROVE  AInv'
<1> DEFINE read == {b \in Pending : b[2] <= cursor[a]}
           runnable == Pending \ read
           chosen == Selection(runnable)
<1>1. /\ hooks' = hooks \ {<<a, s>>}
      /\ cursor' = [cursor EXCEPT ![a] = 0]
      /\ intent' = [b \in Alerts |-> IF b \in read THEN "dropped"
                                     ELSE IF b \in chosen THEN "dispatched" ELSE intent[b]]
      /\ wake' = [b \in Alerts |-> IF b \in chosen THEN "asked" ELSE wake[b]]
      /\ UNCHANGED <<mode, posted, run, started, heard, faults>>
  BY DEF Drain, Settle
<1>2. /\ read \subseteq Pending /\ runnable \subseteq Pending
      /\ chosen \subseteq runnable /\ Pending \subseteq Alerts
  BY DEF Pending, Selection
<1>3. \A b \in Pending : intent[b] = "pending" /\ b \in Alerts
  BY DEF Pending
<1>4. \A c \in runnable : Blocked(c) \/ \E b \in chosen : b \in runnable /\ SameTurn(c, b)
  <2>1. runnable \in SUBSET Alerts
    BY <1>2
  <2> QED BY <2>1, SelectionServes
<1>5. \A c \in Alerts : intent'[c] = "pending" => c \in runnable /\ c \notin chosen
  BY <1>1, <1>2 DEF Pending, TypeOK
<1> HIDE DEF read, runnable, chosen
<1> USE AlertPairs, AlertsAssumption DEF AInv
<1>6. TypeOK'
  BY <1>1 DEF TypeOK
<1>7. FreshInv'
  BY <1>1, <1>2, <1>3, <1>5 DEF FreshInv, TypeOK
<1>8. TurnTaking'
  BY <1>1 DEF TurnTaking, Live, SameTurn
<1>9. QueueIsWatched'
  <2> SUFFICES ASSUME NEW c \in Pending' PROVE Watched(c)'
    BY DEF QueueIsWatched
  <2>1. c \in Alerts /\ c \in runnable
    BY <1>5 DEF Pending
  <2>2. CASE Blocked(c)
    BY <1>1, <2>2 DEF Watched, Blocked, Live, SameTurn
  <2>3. CASE ~Blocked(c)
    <3>1. PICK b \in chosen : b \in Alerts /\ SameTurn(c, b)
      BY <1>2, <1>4, <2>1, <2>3
    <3>2. wake'[b] = "asked" /\ SameTurn(c, b)'
      BY <1>1, <3>1 DEF SameTurn
    <3> QED BY <3>1, <3>2 DEF Watched
  <2> QED BY <2>2, <2>3
<1> QED BY <1>6, <1>7, <1>8, <1>9

\* A crash leaves the rows, and counts as a fault.
LEMMA CrashStep ==
  ASSUME AInv, Crash
  PROVE  AInv'
<1> USE AlertPairs, AlertsAssumption DEF AInv, Crash
<1>1. TypeOK'
  BY DEF TypeOK
<1>2. FreshInv'
  BY DEF FreshInv, TypeOK
<1>3. TurnTaking'
  <2>1. \A b \in Alerts : Live(b)' <=> Live(b)
    BY DEF Live, TypeOK
  <2> QED BY <2>1 DEF TurnTaking, SameTurn
<1>4. QueueIsWatched'
  BY DEF QueueIsWatched, TypeOK
<1> QED BY <1>1, <1>2, <1>3, <1>4

-----------------------------------------------------------------------------
(* The theorems.                                                           *)

\* The invariant is inductive, and holds in every reachable state.
THEOREM AlertsInvariance == Spec => []AInv
<1>1. AInv /\ [Next]_vars => AInv'
  <2> SUFFICES ASSUME AInv, [Next]_vars PROVE AInv'
    OBVIOUS
  <2>1. CASE \E targets \in SUBSET Members : Post(targets)
    BY <2>1, PostStep
  <2>2. ASSUME NEW a \in Alerts, WakeStep(a) \/ CreateFails(a) \/ Read(a)
        PROVE  AInv'
    BY <2>2, LookStep, EnterStep, QuietStep DEF WakeStep
  <2>3. ASSUME NEW a \in Alerts, HookStep(a)
        PROVE  AInv'
    BY <2>3, DrainCancelledStep, DrainStep DEF HookStep
  <2>4. ASSUME NEW a \in Alerts, TurnEnds(a) \/ Rejected(a) \/ Cancel(a) \/ Resume(a)
        PROVE  AInv'
    BY <2>4, RunStep
  <2>5. CASE Crash
    BY <2>5, CrashStep
  <2>6. CASE UNCHANGED vars
    BY <2>6 DEF vars, AInv, TypeOK, FreshInv, TurnTaking, QueueIsWatched, Pending, Watched,
                Blocked, Live, SameTurn
  <2> QED BY <2>1, <2>2, <2>3, <2>4, <2>5, <2>6 DEF Next
<1> QED BY <1>1, InitAInv, PTL DEF Spec

\* The variables of a thread's alerts keep their types.
THEOREM AlertTypes == Spec => []TypeOK
BY AlertsInvariance, PTL DEF AInv

\* However often an alert is queued, drained by overlapping hooks and woken again,
\* it starts at most one run.
THEOREM AlertsStartOnce == Spec => []DeliveredOnce
<1>1. AInv => DeliveredOnce
  BY DEF AInv, FreshInv, DeliveredOnce
<1> QED BY <1>1, AlertsInvariance, PTL

\* Runs take turns, one in a thread of two and one of each member of a group.
THEOREM RunsTakeTurns == Spec => []TurnTaking
BY AlertsInvariance, PTL DEF AInv

\* Without a fault, an alert in the queue has a hook, a run or a wake of its turn
\* that will look at the queue.
THEOREM QueueStaysWatched == Spec => []QueueIsWatched
BY AlertsInvariance, PTL DEF AInv
=============================================================================
