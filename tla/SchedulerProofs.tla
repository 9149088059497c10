--------------------------- MODULE SchedulerProofs ---------------------------
(***************************************************************************)
(* For every set of jobs, expressions, horizon and number of faults: the   *)
(* scheduler's state is well typed, active jobs follow their expressions   *)
(* and no recorded occurrence is executed again.                           *)
(***************************************************************************)
EXTENDS Scheduler, WellFoundedInduction, TLAPS

\* A row's next time is later than every minute up to m that is shown once.
LaterThanOnce(row, m) == \A n \in Nat : n <= m /\ ShownOnce(n) => Later(row, n)

\* A set of numbers that is not empty has a least element.
LEMMA Least ==
  ASSUME NEW S \in SUBSET Nat, S # {}
  PROVE  \E t \in S : \A u \in S : t <= u
<1>1. PICK t \in S : \A u \in S : ~ (<<u, t>> \in OpToRel(<, Nat))
  BY NatLessThanWellFounded, WFMin
<1>2. \A u \in S : ~ (u < t)
  BY <1>1 DEF OpToRel
<1> QED BY <1>2

\* The wall clock is back to a minute's first showing, or at its only one.
LEMMA WallOfInstant ==
  ASSUME NEW w \in Nat
  PROVE  Instant(w) \in Nat /\ Wall(Instant(w)) = w /\ w <= Instant(w)
BY ScheduleAssumption DEF Instant, Wall

(* What computeNextCronRun returns: nothing, or a match of the wall clock  *)
(* that is later than every minute before m which the clock shows once.    *)
LEMMA NextCronLater ==
  ASSUME NEW c \in Crons, NEW m \in Nat
  PROVE  /\ NextCron(c, m) \in Nat
         /\ NextCron(c, m) # Unset =>
              /\ Wall(NextCron(c, m)) \in Match[c]
              /\ \A n \in Nat : n <= m /\ ShownOnce(n) => n < NextCron(c, m)
<1> DEFINE ahead == (Wall(m) + 1) .. (Wall(m) + Horizon)
           matches == ahead \cap Match[c]
<1>1. matches \in SUBSET Nat /\ Wall(m) \in Nat
  BY ScheduleAssumption DEF Wall
<1>2. CASE matches = {}
  BY <1>2 DEF NextCron, First, Unset
<1>3. CASE matches # {}
  <2>1. \E w \in matches : \A u \in matches : w <= u
    BY <1>1, <1>3, Least
  <2>2. NextCron(c, m) = Instant(CHOOSE w \in matches : \A u \in matches : w <= u)
    BY <1>3 DEF NextCron, First
  <2>3. PICK w \in matches : NextCron(c, m) = Instant(w)
    BY <2>1, <2>2
  <2>4. w \in Nat /\ w \in Match[c] /\ Wall(m) < w
    BY <1>1, <2>3, ScheduleAssumption
  <2>5. ASSUME NEW n \in Nat, n <= m, ShownOnce(n)
        PROVE  n < Instant(w)
    BY <2>4, <2>5, ScheduleAssumption DEF ShownOnce, Instant, Wall
  <2> QED BY <2>3, <2>4, <2>5, WallOfInstant
<1> QED BY <1>2, <1>3

-----------------------------------------------------------------------------
\* The empty table.
LEMMA InitSInv == Init => SInv
<1> SUFFICES ASSUME Init PROVE SInv
  OBVIOUS
<1> USE DEF Init, NoCopies
<1>1. TypeOK
  BY ScheduleAssumption DEF TypeOK
<1>2. ListInv /\ RecordedInv
  BY DEF ListInv, Listed, RecordedInv
<1>3. \A j \in Jobs : FollowsCron(job[j]) /\ FollowsCron(copy[j])
  BY DEF FollowsCron
<1> QED BY <1>1, <1>2, <1>3 DEF SInv

(* The calls touch the table only, and write rows that follow their own    *)
(* expressions and lie in the future, or were there before.                *)
LEMMA EditKeeps ==
  ASSUME SInv, TickRests, now' = now, retired' \subseteq Members, deleted' \subseteq Jobs,
         job' \in [Jobs -> Rows \cup {NoRow}],
         \A j \in Jobs : \/ job'[j] \in {job[j], NoRow}
                         \/ /\ FollowsCron(job'[j])
                            /\ \/ LaterThanOnce(job'[j], now)
                               \/ job[j] # NoRow /\ job'[j].next = job[j].next
  PROVE  SInv'
<1> USE DEF SInv, TickRests
<1>1. TypeOK'
  BY DEF TypeOK
<1>2. ListInv'
  BY DEF ListInv, Listed
<1>3. \A j \in Jobs : FollowsCron(job'[j])
  BY DEF FollowsCron
<1>4. ASSUME NEW r \in succeeded
      PROVE  /\ r[2] <= tickNow
             /\ ShownOnce(r[2]) => Later(job'[r[1]], r[2]) /\ Later(copy[r[1]], r[2])
  <2>1. /\ r[1] \in Jobs /\ r[2] \in Nat /\ now \in Nat /\ tickNow \in Nat
        /\ r[2] <= tickNow /\ tickNow <= now
        /\ ShownOnce(r[2]) => Later(job[r[1]], r[2]) /\ Later(copy[r[1]], r[2])
        /\ job'[r[1]] # NoRow => job'[r[1]].next \in Nat
    BY DEF TypeOK, ListInv, RecordedInv, Rows
  <2>2. ShownOnce(r[2]) => Later(job'[r[1]], r[2])
    BY <2>1 DEF Later, LaterThanOnce
  <2> QED BY <2>1, <2>2
<1>5. RecordedInv'
  BY <1>4 DEF RecordedInv
<1>6. \A j \in Jobs : FollowsCron(job[j])' /\ FollowsCron(copy[j])'
  BY <1>3 DEF FollowsCron
<1> QED BY <1>1, <1>2, <1>5, <1>6

(* The tick writes a row of its list back, by whatever it overwrites: the  *)
(* row follows its expression and lies after all that is recorded for it.  *)
LEMMA SaveKeeps ==
  ASSUME SInv, NEW j \in Listed, NEW row \in Rows, Save(j, row), LoopOn(j),
         FollowsCron(row),
         \A r \in succeeded : r[1] = j /\ ShownOnce(r[2]) => Later(row, r[2]),
         \/ succeeded' = succeeded
         \/ \E n \in Nat : /\ n <= tickNow /\ (ShownOnce(n) => Later(row, n))
                           /\ succeeded' = succeeded \cup {<<j, n>>}
  PROVE  SInv'
<1> USE DEF SInv, LoopOn, Save
<1>0. j \in Jobs
  BY DEF Listed
<1>1. /\ job' \in [Jobs -> Rows \cup {NoRow}] /\ copy' \in [Jobs -> Rows \cup {NoRow}]
      /\ job'[j] = row /\ copy'[j] = NoRow
      /\ \A i \in Jobs : i # j => job'[i] = job[i] /\ copy'[i] = copy[i]
  BY <1>0 DEF TypeOK
<1>2. TypeOK'
  BY <1>0, <1>1 DEF TypeOK
<1>3. ListInv'
  BY <1>1 DEF ListInv, Listed
<1>4. ASSUME NEW r \in succeeded'
      PROVE  /\ r[2] <= tickNow
             /\ ShownOnce(r[2]) => Later(job'[r[1]], r[2]) /\ Later(copy'[r[1]], r[2])
  <2>1. CASE r \in succeeded
    <3>1. r[1] \in Jobs
      BY <2>1 DEF TypeOK
    <3>2. /\ r[2] <= tickNow
          /\ ShownOnce(r[2]) => Later(job[r[1]], r[2]) /\ Later(copy[r[1]], r[2])
      BY <2>1 DEF RecordedInv
    <3>3. CASE r[1] = j
      BY <1>1, <2>1, <3>2, <3>3 DEF Later
    <3>4. CASE r[1] # j
      BY <1>1, <3>1, <3>2, <3>4
    <3> QED BY <3>3, <3>4
  <2>2. CASE r \notin succeeded
    <3>1. PICK n \in Nat : r = <<j, n>> /\ n <= tickNow /\ (ShownOnce(n) => Later(row, n))
      BY <2>2
    <3> QED BY <1>1, <3>1 DEF Later
  <2> QED BY <2>1, <2>2
<1>5. RecordedInv'
  BY <1>4 DEF RecordedInv
<1>6. \A i \in Jobs : FollowsCron(job[i])' /\ FollowsCron(copy[i])'
  BY <1>1 DEF FollowsCron
<1> QED BY <1>2, <1>3, <1>5, <1>6

\* The copy of a listed job is an active row, due at the tick and well recorded.
LEMMA CopyOfListed ==
  ASSUME SInv, NEW j \in Listed
  PROVE  /\ j \in Jobs /\ copy[j] \in Rows /\ copy[j].next \in Nat /\ copy[j].cron \in Crons
         /\ copy[j].next <= tickNow /\ copy[j].status = "active"
         /\ FollowsCron(copy[j])
         /\ tickNow \in Nat
         /\ \A r \in succeeded : r[1] = j /\ ShownOnce(r[2]) => Later(copy[j], r[2])
         /\ \A r \in succeeded : r[2] \in Nat /\ r[2] <= tickNow
         /\ copy[j] # NoRow
BY DEF SInv, TypeOK, Listed, ListInv, RecordedInv, Rows

(* The next time that a tick computes is after all it has recorded, but    *)
(* for what lies between the two showings of one minute.                   *)
LEMMA Rescheduled ==
  ASSUME SInv, NEW j \in Listed, NEW s \in Statuses,
         NEW next \in Nat, next \in {NextCron(copy[j].cron, tickNow), copy[j].next}
  PROVE  LET row == [copy[j] EXCEPT !.status = s, !.next = next]
         IN  /\ row \in Rows /\ FollowsCron(row)
             /\ \A r \in succeeded : r[1] = j /\ ShownOnce(r[2]) => Later(row, r[2])
             /\ next = NextCron(copy[j].cron, tickNow) => LaterThanOnce(row, tickNow)
<1> DEFINE row == [copy[j] EXCEPT !.status = s, !.next = next]
<1>1. /\ copy[j] \in Rows /\ copy[j].cron \in Crons /\ tickNow \in Nat
      /\ FollowsCron(copy[j]) /\ copy[j].status = "active" /\ copy[j] # NoRow
      /\ \A r \in succeeded : r[1] = j /\ ShownOnce(r[2]) => Later(copy[j], r[2])
      /\ \A r \in succeeded : r[2] \in Nat /\ r[2] <= tickNow
  BY CopyOfListed
<1>2. row \in Rows /\ row.cron = copy[j].cron /\ row.next = next
  BY <1>1 DEF Rows
<1>3. /\ NextCron(copy[j].cron, tickNow) \in Nat
      /\ NextCron(copy[j].cron, tickNow) # Unset
           => /\ Wall(NextCron(copy[j].cron, tickNow)) \in Match[copy[j].cron]
              /\ \A n \in Nat : n <= tickNow /\ ShownOnce(n)
                   => n < NextCron(copy[j].cron, tickNow)
  BY <1>1, NextCronLater
<1>4. FollowsCron(row)
  BY <1>1, <1>2, <1>3 DEF FollowsCron
<1>5. next = NextCron(copy[j].cron, tickNow) => LaterThanOnce(row, tickNow)
  BY <1>1, <1>2, <1>3 DEF Later, LaterThanOnce
<1>6. next = copy[j].next
        => \A r \in succeeded : r[1] = j /\ ShownOnce(r[2]) => Later(row, r[2])
  BY <1>1, <1>2 DEF Later
<1>7. \A r \in succeeded : r[1] = j /\ ShownOnce(r[2]) => Later(row, r[2])
  BY <1>1, <1>5, <1>6 DEF LaterThanOnce
<1> QED BY <1>2, <1>4, <1>5, <1>7

-----------------------------------------------------------------------------
(* A failed execution, whether it is refused or ends with an exception.    *)
LEMMA SaveFailureKeeps ==
  ASSUME SInv, NEW j \in Listed, NEW permanent \in BOOLEAN, SaveFailure(j, permanent)
  PROVE  SInv'
<1> DEFINE next == NextCron(copy[j].cron, tickNow)
           kept == IF next = Unset THEN copy[j].next ELSE next
           s == IF permanent THEN "paused" ELSE copy[j].status
           row == [copy[j] EXCEPT !.status = s, !.next = kept]
<1>1. /\ copy[j].status = "active" /\ copy[j].next \in Nat /\ copy[j].cron \in Crons
      /\ tickNow \in Nat
  BY CopyOfListed
<1>2. kept \in Nat /\ kept \in {next, copy[j].next} /\ s \in Statuses
  BY <1>1, NextCronLater DEF Statuses
<1>3. /\ row \in Rows /\ FollowsCron(row)
      /\ \A r \in succeeded : r[1] = j /\ ShownOnce(r[2]) => Later(row, r[2])
  BY <1>2, Rescheduled
<1>4. Save(j, row) /\ LoopOn(j) /\ succeeded' = succeeded
  BY DEF SaveFailure
<1> QED BY <1>3, <1>4, SaveKeeps

\* The save of a success keeps the invariant.
LEMMA SucceededKeeps ==
  ASSUME SInv, NEW j \in Jobs, Succeeded(j)
  PROVE  SInv'
<1> DEFINE next == NextCron(copy[j].cron, tickNow)
           row == [copy[j] EXCEPT !.status = "active", !.next = next]
<1>1. j \in Listed
  BY DEF Succeeded, SInv, ListInv
<1>2. /\ copy[j].status = "active" /\ copy[j].next \in Nat /\ copy[j].cron \in Crons
      /\ tickNow \in Nat /\ copy[j].next <= tickNow /\ copy[j] \in Rows
  BY <1>1, CopyOfListed
<1>3. next \in Nat
  BY <1>2, NextCronLater
<1>4. /\ row \in Rows /\ FollowsCron(row)
      /\ \A r \in succeeded : r[1] = j /\ ShownOnce(r[2]) => Later(row, r[2])
      /\ LaterThanOnce(row, tickNow)
  BY <1>1, <1>3, Rescheduled DEF Statuses
<1>5. row = [copy[j] EXCEPT !.next = next]
  BY <1>2 DEF Rows
<1>6. /\ Save(j, row) /\ LoopOn(j)
      /\ succeeded' = succeeded \cup {<<j, copy[j].next>>}
  BY <1>5 DEF Succeeded
<1> QED BY <1>1, <1>2, <1>4, <1>6, SaveKeeps DEF LaterThanOnce

\* The save of a job found without a next time keeps it.
LEMMA UnscheduledKeeps ==
  ASSUME SInv, NEW j \in Jobs, Unscheduled(j)
  PROVE  SInv'
<1> DEFINE next == NextCron(copy[j].cron, tickNow)
           row == [copy[j] EXCEPT !.status = "active", !.next = next]
<1>1. j \in Listed
  BY DEF Unscheduled, IsFirst
<1>2. /\ copy[j].status = "active" /\ copy[j].cron \in Crons
      /\ tickNow \in Nat /\ copy[j] \in Rows
  BY <1>1, CopyOfListed
<1>3. next \in Nat
  BY <1>2, NextCronLater
<1>4. LoopOn(j) /\ succeeded' = succeeded
  BY DEF Unscheduled
<1>5. CASE next # Unset
  <2>1. row = [copy[j] EXCEPT !.next = next]
    BY <1>2 DEF Rows
  <2>2. Save(j, row)
    BY <1>5, <2>1 DEF Unscheduled
  <2>3. /\ row \in Rows /\ FollowsCron(row)
        /\ \A r \in succeeded : r[1] = j /\ ShownOnce(r[2]) => Later(row, r[2])
    BY <1>1, <1>3, Rescheduled DEF Statuses
  <2> QED BY <1>1, <1>4, <2>2, <2>3, SaveKeeps
<1>6. CASE next = Unset
  <2> USE DEF SInv, LoopOn
  <2>1. /\ job' = job /\ copy' \in [Jobs -> Rows \cup {NoRow}]
        /\ \A i \in Jobs : copy'[i] \in {copy[i], NoRow}
    BY <1>4, <1>6 DEF Unscheduled, TypeOK
  <2>2. TypeOK'
    BY <1>4, <2>1 DEF TypeOK
  <2>3. ListInv'
    BY <1>4, <2>1 DEF ListInv, Listed
  <2>4. RecordedInv'
    BY <1>4, <2>1 DEF RecordedInv, Later, TypeOK
  <2>5. \A i \in Jobs : FollowsCron(job[i])' /\ FollowsCron(copy[i])'
    BY <2>1 DEF FollowsCron
  <2> QED BY <2>2, <2>3, <2>4, <2>5
<1> QED BY <1>5, <1>6

\* Taking a job off the list, or saving its outcome, keeps it.
LEMMA TakeKeeps ==
  ASSUME SInv, NEW j \in Jobs, Take(j) \/ Succeeded(j) \/ Failed(j)
  PROVE  SInv'
<1>1. CASE Unscheduled(j)
  BY <1>1, UnscheduledKeeps
<1>2. CASE Refused(j)
  BY <1>2, SaveFailureKeeps DEF Refused, IsFirst
<1>3. CASE Begin(j)
  <2> USE <1>3 DEF Begin, SInv
  <2>1. TypeOK'
    BY DEF TypeOK
  <2>2. ListInv'
    BY DEF ListInv, Listed, IsFirst
  <2>3. RecordedInv' /\ \A i \in Jobs : FollowsCron(job[i])' /\ FollowsCron(copy[i])'
    BY DEF RecordedInv, Later, FollowsCron
  <2> QED BY <2>1, <2>2, <2>3
<1>4. CASE Succeeded(j)
  BY <1>4, SucceededKeeps
<1>5. CASE Failed(j)
  <2>1. j \in Listed
    BY <1>5 DEF Failed, SInv, ListInv
  <2> QED BY <1>5, <2>1, SaveFailureKeeps DEF Failed
<1> QED BY <1>1, <1>2, <1>3, <1>4, <1>5 DEF Take

-----------------------------------------------------------------------------
\* The calls that create, edit and delete jobs keep it.
LEMMA EditsKeep == SInv /\ Edit => SInv'
<1> SUFFICES ASSUME SInv, Edit PROVE SInv'
  OBVIOUS
<1>1. /\ TypeOK /\ now \in Nat
      /\ \A j \in Jobs : job[j] \in Rows \cup {NoRow} /\ FollowsCron(job[j])
  BY DEF SInv, TypeOK
<1>2. ASSUME NEW j \in Jobs, NEW m \in Members, NEW c \in Crons, NEW ty \in TypesOf[j],
             Create(j, m, c, ty)
      PROVE  SInv'
  <2> DEFINE next == NextCron(c, now)
             row == [owner |-> m, type |-> ty, cron |-> c, status |-> "active", next |-> next]
  <2>1. /\ next \in Nat /\ Wall(next) \in Match[c]
        /\ \A n \in Nat : n <= now /\ ShownOnce(n) => n < next
    BY <1>1, <1>2, NextCronLater DEF Create
  <2>2. row \in Rows /\ FollowsCron(row) /\ LaterThanOnce(row, now)
    BY <2>1, ScheduleAssumption DEF Rows, Statuses, FollowsCron, Later, LaterThanOnce
  <2>3. job' = [job EXCEPT ![j] = row]
    BY <1>2 DEF Create
  <2>4. /\ job' \in [Jobs -> Rows \cup {NoRow}]
        /\ \A i \in Jobs : job'[i] = IF i = j THEN row ELSE job[i]
    BY <2>2, <2>3 DEF SInv, TypeOK
  <2>5. /\ TickRests /\ now' = now
        /\ retired' \subseteq Members /\ deleted' \subseteq Jobs
    BY <1>1, <1>2 DEF Create, TypeOK
  <2>6. \A i \in Jobs : \/ job'[i] \in {job[i], NoRow}
                        \/ FollowsCron(job'[i]) /\ LaterThanOnce(job'[i], now)
    <3> HIDE DEF row
    <3> QED BY <2>2, <2>4
  <2> QED BY <2>4, <2>5, <2>6, EditKeeps
<1>3. ASSUME NEW j \in Jobs, NEW given \in BOOLEAN, NEW c \in Crons, NEW s \in Statuses,
             NEW ty \in TypesOf[j], Patch(j, given, c, s, ty)
      PROVE  SInv'
  <2> DEFINE old == job[j]
             cron == IF given THEN c ELSE old.cron
             next == PatchedNext(old, given, cron, s)
             row == [owner |-> old.owner, type |-> ty, cron |-> cron,
                     status |-> s, next |-> next]
  <2>1. /\ old \in Rows /\ old.owner \in Members /\ cron \in Crons /\ old.next \in Nat
        /\ old.cron \in Crons /\ old # NoRow /\ FollowsCron(old)
    BY <1>1, <1>3 DEF Patch, Rows
  <2>2. (given \/ (s = "active" /\ old.status # "active")) => next # Unset
    BY <1>3 DEF Patch
  <2>3. /\ NextCron(cron, now) \in Nat
        /\ NextCron(cron, now) # Unset =>
             /\ Wall(NextCron(cron, now)) \in Match[cron]
             /\ \A n \in Nat : n <= now /\ ShownOnce(n) => n < NextCron(cron, now)
    BY <1>1, <2>1, NextCronLater
  <2>4. next \in Nat
    BY <2>1, <2>3 DEF PatchedNext
  <2>5. row \in Rows
    BY <2>1, <2>4, ScheduleAssumption DEF Rows
  <2>6. FollowsCron(row) /\ (LaterThanOnce(row, now) \/ row.next = old.next)
    <3>1. CASE s = "active" /\ (given \/ old.status # "active")
      <4>1. next = NextCron(cron, now) /\ next # Unset
        BY <2>2, <3>1 DEF PatchedNext
      <4> QED BY <2>3, <3>1, <4>1 DEF FollowsCron, Later, LaterThanOnce
    <3>2. CASE ~ (s = "active" /\ (given \/ old.status # "active"))
      <4>1. next = old.next
        BY <3>2 DEF PatchedNext
      <4>2. FollowsCron(row)
        BY <2>1, <3>2, <4>1 DEF FollowsCron
      <4> QED BY <4>1, <4>2
    <3> QED BY <3>1, <3>2
  <2>7. job' = [job EXCEPT ![j] = row]
    BY <1>3 DEF Patch
  <2>8. /\ job' \in [Jobs -> Rows \cup {NoRow}]
        /\ \A i \in Jobs : job'[i] = IF i = j THEN row ELSE job[i]
    BY <2>5, <2>7 DEF SInv, TypeOK
  <2>9. /\ TickRests /\ now' = now
        /\ retired' \subseteq Members /\ deleted' \subseteq Jobs
    BY <1>1, <1>3 DEF Patch, TypeOK
  <2>10. \A i \in Jobs :
           \/ job'[i] \in {job[i], NoRow}
           \/ /\ FollowsCron(job'[i])
              /\ \/ LaterThanOnce(job'[i], now)
                 \/ job[i] # NoRow /\ job'[i].next = job[i].next
    <3>1. row.next = next /\ old = job[j]
      OBVIOUS
    <3> HIDE DEF row, old
    <3> QED BY <2>1, <2>6, <2>8, <3>1
  <2> QED BY <2>8, <2>9, <2>10, EditKeeps
<1>4. ASSUME NEW j \in Jobs, Delete(j)
      PROVE  SInv'
  <2>1. /\ job' \in [Jobs -> Rows \cup {NoRow}]
        /\ \A i \in Jobs : job'[i] \in {job[i], NoRow}
    BY <1>4 DEF Delete, SInv, TypeOK
  <2> QED BY <1>1, <1>4, <2>1, EditKeeps DEF Delete, TypeOK
<1>5. ASSUME NEW m \in Members, Retire(m)
      PROVE  SInv'
  <2>1. /\ job' \in [Jobs -> Rows \cup {NoRow}]
        /\ \A i \in Jobs : job'[i] \in {job[i], NoRow}
    BY <1>5 DEF Retire, SInv, TypeOK
  <2> QED BY <1>1, <1>5, <2>1, EditKeeps DEF Retire, TypeOK
<1>6. ASSUME NEW m \in Members, RetireByConfig(m)
      PROVE  SInv'
  BY <1>1, <1>6, EditKeeps DEF RetireByConfig, TypeOK
<1> QED BY <1>2, <1>3, <1>4, <1>5, <1>6 DEF Edit

(* A tick begins: it copies the due rows.                                  *)
LEMMA TickStartKeeps == SInv /\ TickStart => SInv'
<1> SUFFICES ASSUME SInv, TickStart PROVE SInv'
  OBVIOUS
<1> USE DEF SInv, TickStart
<1>1. /\ tickNow' = now /\ tickNow <= now /\ now \in Nat /\ tickNow \in Nat /\ current = {}
      /\ \A j \in Jobs : job[j] \in Rows \cup {NoRow}
  BY DEF TypeOK, ListInv
<1>2. \A j \in Jobs : /\ copy'[j] \in {job[j], NoRow}
                      /\ copy'[j] # NoRow => Due(copy'[j])
  BY DEF Due
<1>3. TypeOK'
  BY <1>1, <1>2 DEF TypeOK
<1>4. ListInv'
  BY <1>1, <1>2 DEF ListInv, Listed, Due
<1>5. \A r \in succeeded : r[1] \in Jobs /\ r[2] \in Nat
  BY DEF TypeOK
<1>6. RecordedInv'
  BY <1>1, <1>2, <1>5 DEF RecordedInv, Later
<1>7. \A j \in Jobs : FollowsCron(job[j])' /\ FollowsCron(copy[j])'
  BY <1>2 DEF FollowsCron
<1> QED BY <1>3, <1>4, <1>6, <1>7

(* A fault empties the list of the tick.                                   *)
LEMMA DropKeeps ==
  ASSUME SInv, Drop, pc' \in {"idle", "onTick"}, faults' \in 0 .. MaxFaults,
         UNCHANGED <<now, job, deleted, retired, tickNow, succeeded>>
  PROVE  SInv'
<1> USE DEF SInv, Drop, NoCopies
<1>1. TypeOK'
  BY DEF TypeOK
<1>2. ListInv'
  BY DEF ListInv, Listed
<1>3. RecordedInv' /\ \A j \in Jobs : FollowsCron(job[j])' /\ FollowsCron(copy[j])'
  BY DEF RecordedInv, Later, FollowsCron, TypeOK
<1> QED BY <1>1, <1>2, <1>3

\* Every step of the scheduler keeps it.
LEMMA NextSInv == SInv /\ [Next]_vars => SInv'
<1> SUFFICES ASSUME SInv, [Next]_vars PROVE SInv'
  OBVIOUS
<1>1. CASE Minute
  <2> USE <1>1 DEF SInv, Minute, TickRests
  <2>1. TypeOK' /\ ListInv'
    BY DEF TypeOK, ListInv, Listed
  <2> QED BY <2>1 DEF RecordedInv, Later, FollowsCron
<1>2. CASE Edit
  BY <1>2, EditsKeep
<1>3. CASE TickStart
  BY <1>3, TickStartKeeps
<1>4. CASE LoopDone \/ TickEnd
  <2> USE <1>4 DEF SInv, LoopDone, TickEnd
  <2>1. TypeOK' /\ ListInv'
    BY DEF TypeOK, ListInv, Listed
  <2> QED BY <2>1 DEF RecordedInv, Later, FollowsCron
<1>5. CASE \E j \in Jobs : Take(j) \/ Succeeded(j) \/ Failed(j)
  BY <1>5, TakeKeeps
<1>6. CASE StoreFault \/ Crash
  <2>1. faults' \in 0 .. MaxFaults
    BY <1>6, ScheduleAssumption DEF StoreFault, Crash, SInv, TypeOK
  <2> QED BY <1>6, <2>1, DropKeeps DEF StoreFault, Crash
<1>7. CASE UNCHANGED vars
  <2> USE <1>7 DEF SInv, vars
  <2>1. TypeOK' /\ ListInv'
    BY DEF TypeOK, ListInv, Listed
  <2> QED BY <2>1 DEF RecordedInv, Later, FollowsCron
<1> QED BY <1>1, <1>2, <1>3, <1>4, <1>5, <1>6, <1>7 DEF Next

-----------------------------------------------------------------------------
(* The inductive invariant of the scheduler.                               *)
THEOREM ScheduleInvariance == Spec => []SInv
<1>1. Init => SInv
  BY InitSInv
<1>2. SInv /\ [Next]_vars => SInv'
  BY NextSInv
<1> QED BY <1>1, <1>2, PTL DEF Spec

(* The scheduler's variables keep their types.                             *)
THEOREM ScheduleTypes == Spec => []TypeOK
<1>1. SInv => TypeOK
  BY DEF SInv
<1> QED BY <1>1, ScheduleInvariance, PTL

(* No occurrence recorded as executed is executed again, however ticks,    *)
(* edits of the table, failures and crashes are interleaved, unless the    *)
(* clock shows its minute twice.                                           *)
THEOREM OccurrencesRunOnce == Spec => []OccurrenceOnce
<1>1. SInv => OccurrenceOnce
  <2> SUFFICES ASSUME SInv, NEW j \in current, <<j, copy[j].next>> \in succeeded,
                      ShownOnce(copy[j].next)
               PROVE  FALSE
    BY DEF OccurrenceOnce
  <2>1. j \in Listed /\ copy[j].next # Unset
    BY DEF SInv, ListInv
  <2>2. copy[j].next \in Nat /\ copy[j] # NoRow /\ Later(copy[j], copy[j].next)
    BY <2>1, CopyOfListed DEF SInv, RecordedInv
  <2> QED BY <2>1, <2>2 DEF Later
<1> QED BY <1>1, ScheduleInvariance, PTL

(* An active job is due at a minute of its own expression, whatever copy   *)
(* was written over whatever edit.                                         *)
THEOREM JobsFollowTheirCron == Spec => []ActiveRowsFollowTheirCron
<1>1. SInv => ActiveRowsFollowTheirCron
  BY DEF SInv, ActiveRowsFollowTheirCron
<1> QED BY <1>1, ScheduleInvariance, PTL
=============================================================================
