------------------------ MODULE ConnectionPoolProofs ------------------------
(***************************************************************************)
(* For any number of callers, processes and faults: while nothing fails    *)
(* the callers share one process and send every call once, whoever comes   *)
(* while it starts; whatever fails the pool is well typed, with chains of  *)
(* wrappers that rise to a process that was started and end there; and     *)
(* between two callers a failure repeats a call at most twice.             *)
(***************************************************************************)
EXTENDS ConnectionPool, FiniteSetTheorems, WellFoundedInduction, TLAPS

\* The process callers share: the entry, or the one that is starting.
Shared == IF conn # 0 THEN conn ELSE pending

CallerOK(c) ==
  /\ pc[c] \in {"idle", "getting", "calling"}
  /\ pc[c] = "getting" => pending # 0 /\ on[c] = pending
  /\ pc[c] = "calling" => conn # 0 /\ on[c] = conn /\ frames[c] = {conn} /\ tries[c] = 1
  /\ pc[c] # "calling" => frames[c] = {} /\ tries[c] = 0
  /\ by[c] = 0

(* Before the first failure every wrapper is its own, the entry is open, a *)
(* start is the pending one, there is an entry or a start but not both,    *)
(* and nobody repairs anything: only a call is inside a wrapper's `try`.    *)
CalmInv ==
  /\ proc \in [Ids -> ProcStates] /\ cur = [p \in Ids |-> p]
  /\ conn \in 0..MaxProcs /\ pending \in 0..MaxProcs
  /\ conn # 0 => proc[conn] = "open" /\ pending = 0
  /\ pending # 0 => proc[pending] = "starting"
  /\ \A p \in Live : p = Shared
  /\ pc \in [Callers -> CallStates]
  /\ on \in [Callers -> 0..MaxProcs] /\ by \in [Callers -> 0..MaxProcs]
  /\ frames \in [Callers -> SUBSET Ids] /\ tries \in [Callers -> Nat]
  /\ \A c \in Callers : CallerOK(c)

PoolInv == faults \in Nat /\ (faults = 0 => CalmInv)

\* With every wrapper its own, the end of a chain is its beginning.
LEMMA OwnEnd ==
  ASSUME cur = [p \in Ids |-> p]
  PROVE  /\ \A p \in Ids : End[p] = p
         /\ \A p \in Ids : Chain(p) = {p}
<1> DEFINE Step(f) == [p \in Ids |-> IF cur[p] = p THEN p ELSE f[cur[p]]]
<1>1. \A f : Step(f) = [p \in Ids |-> p]
  OBVIOUS
<1>2. \E f : f = Step(f)
  BY <1>1
<1>3. End = CHOOSE f : f = Step(f)
  BY DEF End
<1>4. End = Step(End)
  <2> HIDE DEF Step
  <2> QED BY <1>2, <1>3
<1>5. \A p \in Ids : End[p] = p
  BY <1>1, <1>4
<1>6. ASSUME NEW p \in Ids PROVE Chain(p) = {p}
  BY <1>5, PoolAssumption DEF Chain, Ids
<1> QED BY <1>5, <1>6

\* What a failure leaves is not asked about.
LEMMA FaultsCount ==
  ASSUME faults \in Nat, Fault
  PROVE  faults' \in Nat /\ faults' # 0
BY DEF Fault

\* Starting a process when there is neither an entry nor a start.
LEMMA SpawnsOne ==
  ASSUME CalmInv, NEW c \in Callers, conn = 0, pending = 0, pc[c] = "idle",
         Spawn(c, "getting"), UNCHANGED <<by, frames, tries, cur, conn>>
  PROVE  CalmInv'
<1>1. PICK p \in Ids :
        /\ proc' = [proc EXCEPT ![p] = "starting"] /\ pending' = p
        /\ pc' = [pc EXCEPT ![c] = "getting"] /\ on' = [on EXCEPT ![c] = p]
  BY DEF Spawn
<1>2. p \in 1..MaxProcs /\ p # 0
  BY PoolAssumption DEF Ids
<1>3. Live = {}
  <2>1. \A q \in Ids : q # 0
    BY PoolAssumption DEF Ids
  <2> QED BY <2>1 DEF CalmInv, Shared, Live
<1>4. Live' = {p} /\ Shared' = p
  BY <1>1, <1>2, <1>3 DEF Live, Shared, CalmInv, ProcStates
<1>5. ASSUME NEW d \in Callers PROVE CallerOK(d)'
  BY <1>1, <1>2 DEF CalmInv, CallerOK
<1> QED BY <1>1, <1>2, <1>4, <1>5, PoolAssumption DEF CalmInv, ProcStates, CallStates, Ids

\* A caller comes while nothing has failed.
LEMMA CalmGet ==
  ASSUME CalmInv, NEW c \in Callers, Get(c)
  PROVE  CalmInv'
<1>1. conn \in Nat /\ conn # 0 => conn \in Ids
  BY PoolAssumption DEF CalmInv, Ids
<1>2. CASE conn # 0 /\ IsOpen(conn)
  <2>1. pc' = [pc EXCEPT ![c] = "calling"] /\ on' = [on EXCEPT ![c] = conn]
        /\ frames' = [frames EXCEPT ![c] = {conn}] /\ tries' = [tries EXCEPT ![c] = 1]
        /\ UNCHANGED <<by, proc, pending, cur, conn>>
    BY <1>1, <1>2, OwnEnd DEF CalmInv, Get, Send
  <2>2. ASSUME NEW d \in Callers PROVE CallerOK(d)'
    BY <1>2, <2>1 DEF CalmInv, CallerOK
  <2>3. (\A p \in Live : p = Shared)'
    BY <2>1 DEF CalmInv, Live, Shared
  <2>4. frames' \in [Callers -> SUBSET Ids]
    BY <1>1, <1>2, <2>1 DEF CalmInv
  <2> QED BY <2>1, <2>2, <2>3, <2>4, PoolAssumption DEF CalmInv, CallStates
<1>3. CASE ~ (conn # 0 /\ IsOpen(conn))
  <2>1. conn = 0
    BY <1>1, <1>3, OwnEnd DEF CalmInv, IsOpen, FlaggedOpen
  <2>2. CASE pending = 0
    <3>1. pc[c] = "idle" /\ Spawn(c, "getting") /\ UNCHANGED <<by, frames, tries, cur, conn>>
      BY <1>3, <2>2 DEF Get
    <3> QED BY <2>1, <2>2, <3>1, SpawnsOne
  <2>3. CASE pending # 0
    <3>1. /\ pc' = [pc EXCEPT ![c] = "getting"] /\ on' = [on EXCEPT ![c] = pending]
          /\ UNCHANGED <<by, frames, tries, proc, pending, cur, conn>>
      BY <1>3, <2>3 DEF Get
    <3>2. ASSUME NEW d \in Callers PROVE CallerOK(d)'
      BY <2>3, <3>1 DEF CalmInv, CallerOK
    <3>3. (\A p \in Live : p = Shared)'
      BY <3>1 DEF CalmInv, Live, Shared
    <3> QED BY <3>1, <3>2, <3>3 DEF CalmInv, CallStates
  <2> QED BY <2>2, <2>3
<1> QED BY <1>2, <1>3

\* The shared start succeeds.
LEMMA CalmConnected ==
  ASSUME CalmInv, NEW p \in Ids, Connected(p)
  PROVE  CalmInv'
<1>1. p # 0 /\ p \in 0..MaxProcs
  BY PoolAssumption DEF Ids
<1>2. proc[p] = "starting" /\ proc' = [proc EXCEPT ![p] = "open"] /\ conn' = p /\ pending' = 0
  BY DEF Connected
<1>3. p \in Live /\ conn = 0 /\ pending = p
  BY <1>1, <1>2 DEF Live, CalmInv, Shared
<1>4. Respawning(p) = {}
  BY DEF Respawning, CalmInv, CallerOK
<1>5. cur' = cur
  BY <1>4 DEF Connected, CalmInv
<1>6. ASSUME NEW d \in Callers
      PROVE  /\ pc'[d] = IF d \in Getting(p) THEN "calling" ELSE pc[d]
             /\ frames'[d] = IF d \in Getting(p) THEN (frames[d] \ {by[d]}) \cup {p} ELSE frames[d]
             /\ by'[d] = IF d \in Getting(p) THEN 0 ELSE by[d]
             /\ tries'[d] = IF d \in Getting(p) THEN tries[d] + 1 ELSE tries[d]
             /\ on'[d] = on[d]
  BY <1>4 DEF Connected, CalmInv
<1>7. pc' \in [Callers -> CallStates] /\ frames' \in [Callers -> SUBSET Ids]
      /\ by' \in [Callers -> 0..MaxProcs] /\ on' = on /\ tries' \in [Callers -> Nat]
  BY <1>1, <1>4 DEF Connected, CalmInv, CallStates
<1>8. Live' \subseteq {p} /\ Shared' = p
  BY <1>1, <1>2, <1>3 DEF Live, Shared, CalmInv
<1>9. ASSUME NEW d \in Callers PROVE CallerOK(d)'
  <2>1. CallerOK(d) /\ pc[d] # "calling"
    BY <1>3 DEF CalmInv, CallerOK
  <2>2. pc[d] = "getting" => d \in Getting(p)
    BY <1>3, <2>1 DEF CallerOK, Getting
  <2>3. CASE d \in Getting(p)
    BY <1>1, <1>2, <1>6, <2>1, <2>3, <1>7 DEF CallerOK, Getting
  <2>4. CASE d \notin Getting(p)
    BY <1>6, <2>1, <2>2, <2>4 DEF CallerOK
  <2> QED BY <2>3, <2>4
<1>10. proc' \in [Ids -> ProcStates] /\ proc'[p] = "open"
  BY <1>2 DEF CalmInv, ProcStates
<1>11. on' \in [Callers -> 0..MaxProcs] /\ cur' = [q \in Ids |-> q]
  BY <1>5, <1>7 DEF CalmInv
<1>12. conn' \in 0..MaxProcs /\ pending' \in 0..MaxProcs
  BY <1>1, <1>2, PoolAssumption
<1> QED BY <1>2, <1>7, <1>8, <1>9, <1>10, <1>11, <1>12 DEF CalmInv

\* The call of c is over; the others go on.
LEMMA CalmOver ==
  ASSUME CalmInv, NEW c \in Callers, Over(c), UNCHANGED <<proc, cur, conn, pending>>
  PROVE  CalmInv'
<1>1. ASSUME NEW d \in Callers PROVE CallerOK(d)'
  BY DEF Over, CalmInv, CallerOK
<1>2. (\A p \in Live : p = Shared)'
  BY DEF CalmInv, Live, Shared
<1> QED BY <1>1, <1>2, PoolAssumption DEF CalmInv, Over, CallStates

\* A call returns while nothing has failed.
LEMMA CalmEnds ==
  ASSUME CalmInv, NEW c \in Callers, Answered(c) \/ AnsweredClosed(c) \/ ThrewClosed(c) \/ ThrewOther(c)
  PROVE  CalmInv'
<1>1. pc[c] = "calling" /\ conn # 0 /\ on[c] = conn /\ frames[c] = {conn} /\ proc[conn] = "open"
  BY DEF Answered, AnsweredClosed, ThrewClosed, ThrewOther, CalmInv, CallerOK
<1>2. UNCHANGED <<cur, conn, pending>>
  BY DEF Answered, AnsweredClosed, ThrewClosed, ThrewOther
<1>3. CASE Answered(c)
  <2>1. FlaggedOpen(conn, proc)
    BY <1>1, OwnEnd, PoolAssumption DEF CalmInv, FlaggedOpen, Ids
  <2>2. {w \in frames[c] : ~ FlaggedOpen(w, proc)} = {}
    BY <1>1, <2>1
  <2>3. Over(c) /\ proc' = proc
    BY <1>3, <2>2 DEF Answered, Result
  <2> QED BY <1>2, <2>3, CalmOver
<1>4. CASE ThrewOther(c)
  BY <1>2, <1>4, CalmOver DEF ThrewOther
<1> QED BY <1>1, <1>3, <1>4 DEF AnsweredClosed, ThrewClosed

\* Calm until the first failure.
THEOREM PoolInvariance == Spec => []PoolInv
<1>1. Init => PoolInv
  <2> SUFFICES ASSUME Init PROVE PoolInv
    OBVIOUS
  <2>1. Live = {}
    BY DEF Init, Live
  <2> QED BY <2>1, PoolAssumption DEF Init, PoolInv, CalmInv, CallerOK, ProcStates, CallStates, Ids
<1>2. PoolInv /\ [Next]_vars => PoolInv'
  <2> SUFFICES ASSUME PoolInv, [Next]_vars PROVE PoolInv'
    OBVIOUS
  <2>1. ASSUME Fault PROVE PoolInv'
    BY <2>1, FaultsCount DEF PoolInv
  <2>2. ASSUME UNCHANGED faults, CalmInv => CalmInv' PROVE PoolInv'
    BY <2>2 DEF PoolInv
  <2>3. ASSUME NEW c \in Callers, Get(c) PROVE PoolInv'
    <3>1. UNCHANGED faults
      BY <2>3 DEF Get
    <3> QED BY <2>2, <2>3, <3>1, CalmGet
  <2>4. ASSUME NEW c \in Callers, CallEnds(c) PROVE PoolInv'
    <3>1. CASE TimedOut(c)
      BY <2>1, <3>1 DEF TimedOut
    <3>2. CASE Answered(c) \/ AnsweredClosed(c) \/ ThrewClosed(c) \/ ThrewOther(c)
      <4>1. UNCHANGED faults
        BY <3>2 DEF Answered, AnsweredClosed, ThrewClosed, ThrewOther
      <4> QED BY <2>2, <3>2, <4>1, CalmEnds
    <3> QED BY <2>4, <3>1, <3>2 DEF CallEnds
  <2>5. ASSUME NEW c \in Callers, Respawn(c) PROVE PoolInv'
    <3>1. UNCHANGED faults /\ ~ CalmInv
      BY <2>5 DEF Respawn, CalmInv, CallerOK
    <3> QED BY <2>2, <3>1
  <2>6. ASSUME NEW p \in Ids, Connected(p) PROVE PoolInv'
    <3>1. UNCHANGED faults
      BY <2>6 DEF Connected
    <3> QED BY <2>2, <2>6, <3>1, CalmConnected
  <2>7. ASSUME NEW p \in Ids, ConnectFails(p) \/ Breaks(p) PROVE PoolInv'
    BY <2>1, <2>7 DEF ConnectFails, Breaks
  <2>8. ASSUME CloseAll PROVE PoolInv'
    BY <2>1, <2>8 DEF CloseAll
  <2>9. ASSUME UNCHANGED vars PROVE PoolInv'
    BY <2>9 DEF vars, callVars, PoolInv, CalmInv, CallerOK, Live, Shared
  <2> QED BY <2>3, <2>4, <2>5, <2>6, <2>7, <2>8, <2>9 DEF Next
<1> QED BY <1>1, <1>2, PTL DEF Spec

(* Without failures every call is sent once: no wrapper repairs itself for  *)
(* a result or an error that is not that of a closed connection.           *)
THEOREM CallsAreSentOnce == Spec => []SentOnce
<1>1. PoolInv => SentOnce
  <2> SUFFICES ASSUME PoolInv, faults = 0, NEW c \in Callers PROVE tries[c] <= 1
    BY DEF SentOnce
  <2>1. tries[c] = 1 \/ tries[c] = 0
    BY DEF PoolInv, CalmInv, CallerOK
  <2> QED BY <2>1
<1> QED BY <1>1, PoolInvariance, PTL

(* A start is shared by all who come while it lasts: without failures one  *)
(* process serves any number of callers.                                   *)
THEOREM CallersShareOne == Spec => []OneProcess
<1>1. PoolInv => OneProcess
  <2> SUFFICES ASSUME PoolInv, faults = 0 PROVE Cardinality(Live) <= 1
    BY DEF OneProcess
  <2>1. Live \subseteq {Shared}
    BY DEF PoolInv, CalmInv
  <2>2. Live = {} \/ Live = {Shared}
    BY <2>1
  <2>3. Cardinality({}) = 0 /\ Cardinality({Shared}) = 1
    BY FS_EmptySet, FS_Singleton
  <2> QED BY <2>2, <2>3
<1> QED BY <1>1, PoolInvariance, PTL

-----------------------------------------------------------------------------
(* With failures: how wrappers and processes hang together.                *)

\* The process of wrapper p has been started, and it has a wrapper.
Up(p) == proc[p] \in {"open", "broken", "closed"}

\* `current` of a wrapper is its own process or one started later.
ChainsRise ==
  /\ cur \in [Ids -> Ids]
  /\ \A w \in Ids : cur[w] >= w /\ (cur[w] # w => Up(w) /\ Up(cur[w]))

\* A call is inside wrappers there are, and on a process that was started; what is
\* repaired is older than what shall replace it.
Wired(c) ==
  /\ \A w \in frames[c] : Up(w)
  /\ pc[c] = "calling" => frames[c] # {} /\ on[c] # 0 /\ Up(on[c])
  /\ pc[c] \in {"closing", "respawning"} => by[c] # 0 /\ Up(by[c])
  /\ pc[c] = "respawning" => by[c] < on[c]

WiringInv ==
  /\ TypeOK
  /\ \A p, q \in Ids : q < p /\ proc[p] # "none" => proc[q] # "none"
  /\ ChainsRise
  /\ conn # 0 => Up(conn)
  /\ \A c \in Callers : Wired(c)

\* A set of wrappers has a last one.
LEMMA LastOne ==
  ASSUME NEW S \in SUBSET Ids, S # {}
  PROVE  /\ \E m \in S : \A x \in S : m >= x
         /\ Max(S) \in S /\ \A x \in S : Max(S) >= x
<1> DEFINE T == {MaxProcs - x : x \in S}
<1>1. T \subseteq Nat /\ T # {}
  BY PoolAssumption DEF Ids
<1>2. PICK t \in T : \A y \in T : ~ (<<y, t>> \in OpToRel(<, Nat))
  BY <1>1, NatLessThanWellFounded, WFMin
<1>3. \A y \in T : ~ (y < t)
  BY <1>1, <1>2 DEF OpToRel
<1>4. PICK m \in S : t = MaxProcs - m
  OBVIOUS
<1>5. \A x \in S : m >= x
  <2> SUFFICES ASSUME NEW x \in S PROVE m >= x
    OBVIOUS
  <2>1. ~ (MaxProcs - x < MaxProcs - m)
    BY <1>3, <1>4
  <2> QED BY <1>4, <2>1, PoolAssumption DEF Ids
<1>6. \E m2 \in S : \A x \in S : m2 >= x
  BY <1>5
<1> QED BY <1>6 DEF Max

\* Chains of wrappers end, with the process of their last one.
LEMMA ChainsEnd ==
  ASSUME ChainsRise
  PROVE  /\ \A p \in Ids : End[p] = IF cur[p] = p THEN p ELSE End[cur[p]]
         /\ \A p \in Ids : End[p] \in Ids
<1> DEFINE Step(f) == [p \in Ids |-> IF cur[p] = p THEN p ELSE f[cur[p]]]
           Closed(S) == \A r \in S : cur[r] \in S
           Reached(p) == {q \in Ids : \A S \in SUBSET Ids : p \in S /\ Closed(S) => q \in S}
           Ends(p) == {q \in Reached(p) : cur[q] = q}
           ends == [p \in Ids |-> CHOOSE q \in Ends(p) : TRUE]
<1>1. \A p \in Ids : cur[p] \in Ids /\ cur[p] >= p
  BY DEF ChainsRise
<1>2. ASSUME NEW p \in Ids PROVE Ends(p) # {}
  <2>1. p \in Reached(p) /\ Closed(Reached(p))
    BY <1>1
  <2> HIDE DEF Closed, Reached
  <2>2. Reached(p) \in SUBSET Ids /\ Reached(p) # {}
    BY <2>1 DEF Reached
  <2>3. PICK m \in Reached(p) : \A x \in Reached(p) : m >= x
    BY <2>2, LastOne
  <2>4. cur[m] \in Reached(p)
    BY <2>1 DEF Closed
  <2>5. m \in Ids /\ cur[m] \in Ids /\ cur[m] >= m /\ m >= cur[m]
    BY <1>1, <2>2, <2>3, <2>4
  <2>6. cur[m] = m
    BY <2>5, PoolAssumption DEF Ids
  <2> QED BY <2>3, <2>6
<1>3. ASSUME NEW p \in Ids, cur[p] = p PROVE Ends(p) = {p}
  <2>1. p \in Reached(p)
    OBVIOUS
  <2>2. {p} \in SUBSET Ids /\ p \in {p} /\ Closed({p})
    BY <1>3
  <2>3. \A q \in Reached(p) : q = p
    BY <2>2
  <2> QED BY <1>3, <2>1, <2>3
<1>4. ASSUME NEW p \in Ids, cur[p] # p PROVE Ends(p) = Ends(cur[p])
  <2>1. ASSUME NEW q \in Reached(cur[p]) PROVE q \in Reached(p)
    <3>1. \A S \in SUBSET Ids : p \in S /\ Closed(S) => cur[p] \in S /\ Closed(S)
      OBVIOUS
    <3> QED BY <3>1, <2>1
  <2>2. ASSUME NEW q \in Reached(p), q # p PROVE q \in Reached(cur[p])
    <3> SUFFICES ASSUME NEW S \in SUBSET Ids, cur[p] \in S, Closed(S) PROVE q \in S
      OBVIOUS
    <3>1. S \cup {p} \in SUBSET Ids /\ p \in S \cup {p} /\ Closed(S \cup {p})
      OBVIOUS
    <3>2. q \in S \cup {p}
      BY <2>2, <3>1
    <3> QED BY <2>2, <3>2
  <2> HIDE DEF Reached
  <2> QED BY <1>4, <2>1, <2>2
<1>5. ends = Step(ends)
  <2>1. ASSUME NEW p \in Ids PROVE ends[p] = IF cur[p] = p THEN p ELSE ends[cur[p]]
    <3> HIDE DEF Ends
    <3>1. ends[p] = CHOOSE q \in Ends(p) : TRUE
      OBVIOUS
    <3>2. CASE cur[p] = p
      BY <1>2, <1>3, <3>1, <3>2
    <3>3. CASE cur[p] # p
      <4>1. cur[p] \in Ids /\ Ends(p) = Ends(cur[p])
        BY <1>1, <1>4, <3>3
      <4> QED BY <3>1, <3>3, <4>1
    <3> QED BY <3>2, <3>3
  <2> HIDE DEF Ends
  <2> QED BY <2>1
<1>6. End = CHOOSE f : f = Step(f)
  BY DEF End
<1>7. End = Step(End)
  <2> HIDE DEF Step, ends
  <2> QED BY <1>5, <1>6
<1>8. \A p \in Ids : End[p] = IF cur[p] = p THEN p ELSE End[cur[p]]
  BY <1>7
<1>9. \A p \in Ids : End[p] \in Ids
  <2> DEFINE Bad == {p \in Ids : End[p] \notin Ids}
  <2> SUFFICES ASSUME Bad # {} PROVE FALSE
    OBVIOUS
  <2>1. PICK m \in Bad : \A x \in Bad : m >= x
    BY LastOne
  <2>2. cur[m] # m /\ End[cur[m]] \notin Ids
    BY <1>8, <2>1
  <2>3. cur[m] \in Bad /\ cur[m] >= m
    BY <1>1, <2>1, <2>2
  <2> QED BY <2>1, <2>2, <2>3, PoolAssumption DEF Ids
<1> QED BY <1>8, <1>9

\* The process at the end of a started wrapper was started, and a wrapper on the
\* way to it too.
LEMMA EndsAreUp ==
  ASSUME ChainsRise, NEW p \in Ids, Up(p)
  PROVE  /\ End[p] \in Ids /\ Up(End[p])
         /\ p \in Chain(p) /\ \A q \in Chain(p) : q \in Ids /\ Up(q)
<1>1. \A q \in Ids : End[q] = (IF cur[q] = q THEN q ELSE End[cur[q]]) /\ End[q] \in Ids
  BY ChainsEnd
<1>2. \A q \in Ids : Up(q) => Up(End[q])
  <2> DEFINE Bad == {q \in Ids : Up(q) /\ ~ Up(End[q])}
  <2> SUFFICES ASSUME Bad # {} PROVE FALSE
    OBVIOUS
  <2>1. PICK m \in Bad : \A x \in Bad : m >= x
    BY LastOne
  <2>2. cur[m] # m /\ ~ Up(End[cur[m]])
    BY <1>1, <2>1
  <2>3. cur[m] \in Bad /\ cur[m] >= m
    BY <2>1, <2>2 DEF ChainsRise
  <2> QED BY <2>1, <2>2, <2>3, PoolAssumption DEF Ids
<1>3. p \in Chain(p)
  BY PoolAssumption DEF Chain, Ids
<1>4. ASSUME NEW q \in Chain(p) PROVE q \in Ids /\ Up(q)
  <2>1. q \in Ids /\ End[q] = End[p]
    BY PoolAssumption DEF Chain, Ids
  <2>2. cur[q] # q => Up(q)
    BY <2>1 DEF ChainsRise
  <2>3. cur[q] = q => End[q] = q
    BY <1>1, <2>1
  <2> QED BY <1>2, <2>1, <2>2, <2>3
<1> QED BY <1>1, <1>2, <1>3, <1>4

-----------------------------------------------------------------------------
(* The steps keep the wiring.                                              *)

\* What was started stays started; what was not is not touched, but for a start that
\* is over.
ProcsStay ==
  /\ proc' \in [Ids -> ProcStates]
  /\ \A q \in Ids : \/ Up(q) /\ Up(q)'
                    \/ ~ Up(q) /\ proc'[q] = proc[q]
                    \/ proc[q] = "starting" /\ Up(q)' /\ pending' # q

CallTypes ==
  /\ pc \in [Callers -> CallStates]
  /\ on \in [Callers -> 0..MaxProcs] /\ by \in [Callers -> 0..MaxProcs]
  /\ frames \in [Callers -> SUBSET Ids] /\ tries \in [Callers -> Nat]

\* Nothing has happened to the call of d.
Untouched(d) ==
  pc'[d] = pc[d] /\ on'[d] = on[d] /\ by'[d] = by[d] /\ frames'[d] = frames[d]

\* Numbers of processes, and what may be an entry of a map.
LEMMA Numbers == Ids \subseteq Nat /\ 0 \notin Ids /\ 0..MaxProcs = Ids \cup {0}
BY PoolAssumption DEF Ids

\* Calls move on, processes are lost or shut down, entries are removed.
LEMMA CallsMove ==
  ASSUME WiringInv, ProcsStay, CallTypes', UNCHANGED cur, conn' \in {0, conn},
         pending' \in {0, pending}, faults' \in 0..MaxFaults,
         \A d \in Callers : Untouched(d) \/ Wired(d)'
  PROVE  WiringInv'
<1>1. TypeOK'
  BY Numbers DEF WiringInv, TypeOK, ProcsStay, CallTypes, Up
<1>2. ChainsRise'
  BY DEF WiringInv, ChainsRise, ProcsStay
<1>3. \A p, q \in Ids : q < p /\ proc'[p] # "none" => proc'[q] # "none"
  BY DEF WiringInv, ProcsStay, Up
<1>4. conn' # 0 => Up(conn)'
  BY Numbers DEF WiringInv, TypeOK, ProcsStay
<1>5. ASSUME NEW d \in Callers PROVE Wired(d)'
  <2>1. CASE Untouched(d)
    BY <2>1, Numbers DEF Untouched, WiringInv, TypeOK, Wired, ProcsStay
  <2> QED BY <2>1
<1> QED BY <1>1, <1>2, <1>3, <1>4, <1>5 DEF WiringInv

\* A call is over: with a result, or with an error that is passed on.
LEMMA OverKeeps ==
  ASSUME WiringInv, NEW c \in Callers, Over(c), ProcsStay, UNCHANGED <<cur, conn, pending>>,
         faults' \in 0..MaxFaults
  PROVE  WiringInv'
<1>1. CallTypes'
  BY Numbers DEF WiringInv, TypeOK, Over, CallTypes, CallStates
<1>2. ASSUME NEW d \in Callers PROVE Untouched(d) \/ Wired(d)'
  BY DEF Over, Untouched, Wired, WiringInv, TypeOK
<1> QED BY <1>1, <1>2, CallsMove

\* A started wrapper of the call is going to be repaired.
LEMMA SwapKeeps ==
  ASSUME WiringInv, NEW c \in Callers, NEW w \in frames[c], NEW outer \in SUBSET frames[c],
         SwapAt(c, w, outer), ProcsStay, UNCHANGED <<cur, conn, pending, faults>>
  PROVE  WiringInv'
<1>1. w \in Ids /\ Up(w) /\ outer \in SUBSET Ids /\ \A v \in outer : v \in Ids /\ Up(v)
  BY DEF WiringInv, TypeOK, Wired
<1>2. CallTypes' /\ faults' \in 0..MaxFaults
  BY <1>1, Numbers DEF WiringInv, TypeOK, SwapAt, CallTypes, CallStates
<1>3. ASSUME NEW d \in Callers PROVE Untouched(d) \/ Wired(d)'
  <2>1. d # c => Untouched(d)
    BY DEF SwapAt, Untouched, WiringInv, TypeOK
  <2>2. pc'[c] = "closing" /\ by'[c] = w /\ frames'[c] = outer
    BY DEF SwapAt, WiringInv, TypeOK
  <2>3. Up(w)' /\ \A v \in outer : Up(v)'
    BY <1>1 DEF ProcsStay
  <2>4. by'[c] # 0
    BY <1>1, <2>2, Numbers
  <2>5. Wired(c)'
    BY <2>2, <2>3, <2>4 DEF Wired, Up
  <2> QED BY <2>1, <2>5
<1> QED BY <1>2, <1>3, CallsMove

\* A process is started in the place of no other.
LEMMA SpawnKeeps ==
  ASSUME WiringInv, NEW c \in Callers, NEW state \in {"getting", "respawning"}, Spawn(c, state),
         conn' \in {0, conn}, UNCHANGED <<cur, by, frames, tries, faults>>,
         state = "respawning" => pc[c] = "closing"
  PROVE  WiringInv'
<1>1. PICK p \in Ids :
        /\ proc[p] = "none" /\ \A q \in Ids : q < p => proc[q] # "none"
        /\ proc' = [proc EXCEPT ![p] = "starting"] /\ pending' = p
        /\ pc' = [pc EXCEPT ![c] = state] /\ on' = [on EXCEPT ![c] = p]
  BY DEF Spawn
<1>2. p \in Nat /\ p # 0 /\ p \in 0..MaxProcs /\ proc'[p] = "starting"
  BY <1>1, Numbers DEF WiringInv, TypeOK
<1>3. \A q \in Ids : q # p => proc'[q] = proc[q]
  BY <1>1 DEF WiringInv, TypeOK
<1>4. \A q \in Ids : Up(q) => q # p /\ Up(q)'
  BY <1>1, <1>3 DEF Up
<1>5. TypeOK'
  BY <1>1, <1>2, Numbers DEF WiringInv, TypeOK, ProcStates, CallStates
<1>6. \A x, q \in Ids : q < x /\ proc'[x] # "none" => proc'[q] # "none"
  BY <1>1, <1>2, <1>3 DEF WiringInv
<1>7. ChainsRise'
  BY <1>4 DEF WiringInv, ChainsRise
<1>8. conn' # 0 => Up(conn)'
  BY <1>4, Numbers DEF WiringInv, TypeOK
<1>9. ASSUME NEW d \in Callers PROVE Wired(d)'
  <2>1. Wired(d) /\ frames[d] \subseteq Ids /\ by[d] \in Ids \cup {0} /\ on[d] \in Ids \cup {0}
    BY Numbers DEF WiringInv, TypeOK
  <2>2. CASE d = c
    <3>1. pc'[c] = state /\ on'[c] = p /\ by'[c] = by[c] /\ frames'[c] = frames[c]
      BY <1>1 DEF WiringInv, TypeOK
    <3>2. state = "respawning" => by[c] \in Ids /\ Up(by[c])
      BY <2>1, <2>2 DEF Wired
    <3>3. state = "respawning" => by[c] # 0 /\ Up(by[c])' /\ by[c] # p
      BY <1>4, <3>2, Numbers
    <3>4. state = "respawning" => by[c] < p
      <4> SUFFICES ASSUME state = "respawning" PROVE by[c] < p
        OBVIOUS
      <4>1. by[c] \in Ids /\ by[c] # p /\ proc[by[c]] # "none"
        BY <3>2, <3>3 DEF Up
      <4>2. ~ (p < by[c])
        BY <1>1, <4>1 DEF WiringInv
      <4> QED BY <1>2, <4>1, <4>2, Numbers
    <3>5. \A w \in frames[c] : Up(w)'
      BY <1>4, <2>1, <2>2 DEF Wired
    <3> QED BY <2>2, <3>1, <3>3, <3>4, <3>5 DEF Wired, Up
  <2>3. CASE d # c
    <3>1. pc'[d] = pc[d] /\ on'[d] = on[d] /\ by'[d] = by[d] /\ frames'[d] = frames[d]
      BY <1>1, <2>3 DEF WiringInv, TypeOK
    <3>2. /\ \A w \in frames[d] : Up(w)'
          /\ on[d] # 0 /\ Up(on[d]) => proc'[on[d]] \in {"open", "broken", "closed"}
          /\ by[d] # 0 /\ Up(by[d]) => proc'[by[d]] \in {"open", "broken", "closed"}
      BY <1>4, <2>1 DEF Up, Wired
    <3> QED BY <2>1, <3>1, <3>2 DEF Wired, Up
  <2> QED BY <2>2, <2>3
<1> QED BY <1>5, <1>6, <1>7, <1>8, <1>9 DEF WiringInv

\* What becomes the process of an open wrapper, closed or not, is a state of one.
LEMMA ShutsStay ==
  ASSUME WiringInv, NEW p \in Ids, Up(p)
  PROVE  /\ End[p] \in Ids /\ Up(End[p])
         /\ proc' = Shut(p) => ProcsStay
<1>1. End[p] \in Ids /\ Up(End[p])
  BY EndsAreUp DEF WiringInv
<1>2. ASSUME proc' = Shut(p) PROVE ProcsStay
  BY <1>1, <1>2 DEF Shut, ProcsStay, Up, WiringInv, TypeOK, ProcStates
<1> QED BY <1>1, <1>2

\* A caller gets the entry, waits for the start under way, or makes one.
LEMMA GetKeeps ==
  ASSUME WiringInv, NEW c \in Callers, Get(c)
  PROVE  WiringInv'
<1>1. conn # 0 => conn \in Ids /\ Up(conn)
  BY Numbers DEF WiringInv, TypeOK
<1>2. UNCHANGED <<cur, conn, faults>> /\ faults' \in 0..MaxFaults
  BY DEF Get, WiringInv, TypeOK
<1>3. ASSUME UNCHANGED proc PROVE ProcsStay
  BY <1>3 DEF ProcsStay, WiringInv, TypeOK, Up
<1>4. CASE conn # 0 /\ IsOpen(conn)
  <2>1. Send(c, conn) /\ UNCHANGED <<proc, pending>>
    BY <1>4 DEF Get
  <2>2. /\ End[conn] \in Ids /\ Up(End[conn])
        /\ conn \in Chain(conn) /\ \A q \in Chain(conn) : q \in Ids /\ Up(q)
    BY <1>1, <1>4, EndsAreUp DEF WiringInv
  <2>3. CallTypes'
    BY <2>1, <2>2, Numbers DEF Send, CallTypes, WiringInv, TypeOK, CallStates
  <2>4. ASSUME NEW d \in Callers PROVE Untouched(d) \/ Wired(d)'
    <3>1. d # c => Untouched(d)
      BY <2>1 DEF Send, Untouched, WiringInv, TypeOK
    <3>2. pc'[c] = "calling" /\ on'[c] = End[conn] /\ frames'[c] = Chain(conn)
      BY <2>1 DEF Send, WiringInv, TypeOK
    <3>3. End[conn] # 0 /\ Chain(conn) # {}
      BY <2>2, Numbers
    <3>4. Wired(c)'
      BY <2>1, <2>2, <3>2, <3>3 DEF Wired, Up
    <3> QED BY <3>1, <3>4
  <2> QED BY <1>2, <1>3, <2>1, <2>3, <2>4, CallsMove
<1>5. CASE UNCHANGED <<by, frames, tries>> /\ pending # 0 /\ UNCHANGED <<proc, pending>>
           /\ pc' = [pc EXCEPT ![c] = "getting"] /\ on' = [on EXCEPT ![c] = pending]
  <2>1. CallTypes'
    BY <1>5, Numbers DEF CallTypes, WiringInv, TypeOK, CallStates
  <2>2. ASSUME NEW d \in Callers PROVE Untouched(d) \/ Wired(d)'
    <3>1. d # c => Untouched(d)
      BY <1>5 DEF Untouched, WiringInv, TypeOK
    <3>2. Wired(c)'
      BY <1>5 DEF Wired, Up, WiringInv, TypeOK
    <3> QED BY <3>1, <3>2
  <2> QED BY <1>2, <1>3, <1>5, <2>1, <2>2, CallsMove
<1>6. CASE UNCHANGED <<by, frames, tries>> /\ Spawn(c, "getting")
  BY <1>2, <1>6, SpawnKeeps
<1> QED BY <1>4, <1>5, <1>6 DEF Get

\* p has started: who waited for it calls it, and repaired wrappers go on to it.
LEMMA ConnectedKeeps ==
  ASSUME WiringInv, NEW p \in Ids, Connected(p)
  PROVE  WiringInv'
<1> DEFINE woken == Getting(p) \cup Respawning(p)
<1>1. /\ proc[p] = "starting" /\ proc' = [proc EXCEPT ![p] = "open"]
      /\ conn' = p /\ pending' = 0 /\ UNCHANGED <<on, faults>>
      /\ cur' = [w \in Ids |-> IF \E c \in Respawning(p) : by[c] = w THEN p ELSE cur[w]]
      /\ pc' = [c \in Callers |-> IF c \in woken THEN "calling" ELSE pc[c]]
      /\ frames' = [c \in Callers |->
             IF c \in woken THEN (frames[c] \ {by[c]}) \cup {p} ELSE frames[c]]
      /\ by' = [c \in Callers |-> IF c \in woken THEN 0 ELSE by[c]]
      /\ tries' = [c \in Callers |-> IF c \in woken THEN tries[c] + 1 ELSE tries[c]]
  BY DEF Connected
<1>2. p # 0 /\ p \in 0..MaxProcs /\ 0 \in 0..MaxProcs
  BY Numbers
<1>3. proc'[p] = "open" /\ \A q \in Ids : Up(q) => Up(q)'
  BY <1>1 DEF WiringInv, TypeOK, Up
<1>4. TypeOK'
  <2>1. proc' \in [Ids -> ProcStates] /\ cur' \in [Ids -> Ids]
    BY <1>1 DEF WiringInv, TypeOK, ProcStates
  <2>2. /\ pc' \in [Callers -> CallStates] /\ by' \in [Callers -> 0..MaxProcs]
        /\ frames' \in [Callers -> SUBSET Ids] /\ tries' \in [Callers -> Nat]
    <3> HIDE DEF woken
    <3> QED BY <1>1, <1>2 DEF WiringInv, TypeOK, CallStates
  <2> QED BY <1>1, <1>2, <2>1, <2>2 DEF WiringInv, TypeOK
<1>5. \A x, q \in Ids : q < x /\ proc'[x] # "none" => proc'[q] # "none"
  BY <1>1 DEF WiringInv, TypeOK
<1>6. ChainsRise'
  <2> SUFFICES ASSUME NEW w \in Ids
               PROVE  cur'[w] >= w /\ (cur'[w] # w => Up(w)' /\ Up(cur[w])')
    BY <1>4 DEF ChainsRise, TypeOK
  <2>1. CASE \E c \in Respawning(p) : by[c] = w
    <3>1. PICK c \in Callers : pc[c] = "respawning" /\ on[c] = p /\ by[c] = w
      BY <2>1 DEF Respawning
    <3>2. Up(w) /\ w < p /\ cur'[w] = p
      BY <1>1, <2>1, <3>1 DEF WiringInv, Wired
    <3> QED BY <1>3, <3>2, Numbers DEF Up
  <2>2. CASE ~ \E c \in Respawning(p) : by[c] = w
    <3>1. cur'[w] = cur[w] /\ cur[w] \in Ids
      BY <1>1, <2>2 DEF WiringInv, TypeOK
    <3> QED BY <1>3, <3>1 DEF WiringInv, ChainsRise, Up
  <2> QED BY <2>1, <2>2
<1>7. ASSUME NEW d \in Callers PROVE Wired(d)'
  <2>1. Wired(d) /\ frames[d] \subseteq Ids /\ by[d] \in Ids \cup {0} /\ on[d] \in Ids \cup {0}
    BY Numbers DEF WiringInv, TypeOK
  <2>2. CASE d \in woken
    <3>1. on[d] = p
      BY <2>2 DEF Getting, Respawning
    <3>2. pc'[d] = "calling" /\ frames'[d] = (frames[d] \ {by[d]}) \cup {p} /\ on'[d] = p
      BY <1>1, <2>2, <3>1
    <3>3. \A w \in frames'[d] : Up(w)'
      BY <1>3, <2>1, <3>2 DEF Wired, Up
    <3> QED BY <1>2, <1>3, <3>2, <3>3 DEF Wired, Up
  <2>3. CASE d \notin woken
    <3>1. pc'[d] = pc[d] /\ on'[d] = on[d] /\ by'[d] = by[d] /\ frames'[d] = frames[d]
      BY <1>1, <2>3
    <3>2. /\ \A w \in frames[d] : Up(w)'
          /\ on[d] # 0 /\ Up(on[d]) => proc'[on[d]] \in {"open", "broken", "closed"}
          /\ by[d] # 0 /\ Up(by[d]) => proc'[by[d]] \in {"open", "broken", "closed"}
      BY <1>3, <2>1 DEF Up, Wired
    <3> QED BY <2>1, <3>1, <3>2 DEF Wired, Up
  <2> QED BY <2>2, <2>3
<1>8. Up(conn)'
  BY <1>1, <1>3 DEF Up
<1> QED BY <1>4, <1>5, <1>6, <1>7, <1>8 DEF WiringInv

\* A call returns: it is over, or the last of its wrappers that is closed is repaired.
LEMMA ResultKeeps ==
  ASSUME WiringInv, NEW c \in Callers, NEW states, Result(c, states), ProcsStay,
         UNCHANGED <<cur, conn, pending, faults>>
  PROVE  WiringInv'
<1> DEFINE closed == {w \in frames[c] : ~ FlaggedOpen(w, states)}
<1>1. closed \in SUBSET Ids
  BY DEF WiringInv, TypeOK
<1>2. CASE closed = {}
  BY <1>2, OverKeeps DEF Result, WiringInv, TypeOK
<1>3. CASE closed # {}
  <2> DEFINE w == Max(closed)
             outer == {v \in frames[c] : v <= w}
  <2>1. SwapAt(c, w, outer)
    BY <1>3 DEF Result
  <2>2. w \in frames[c]
    BY <1>1, <1>3, LastOne
  <2>3. outer \in SUBSET frames[c]
    OBVIOUS
  <2> HIDE DEF closed, w, outer
  <2> QED BY <2>1, <2>2, <2>3, SwapKeeps
<1> QED BY <1>2, <1>3

\* Every end of a call.
LEMMA EndsKeep ==
  ASSUME WiringInv, NEW c \in Callers, CallEnds(c)
  PROVE  WiringInv'
<1>1. /\ pc[c] = "calling" /\ on[c] \in Ids /\ Up(on[c])
      /\ frames[c] \in SUBSET Ids /\ frames[c] # {} /\ \A w \in frames[c] : Up(w)
  BY Numbers DEF CallEnds, Answered, AnsweredClosed, ThrewClosed, ThrewOther, TimedOut,
     WiringInv, TypeOK, Wired
<1>2. proc \in [Ids -> ProcStates] /\ faults \in 0..MaxFaults
  BY DEF WiringInv, TypeOK
<1>3. proc' = proc => ProcsStay
  BY <1>2 DEF ProcsStay, Up
<1>4. proc' = [proc EXCEPT ![on[c]] = "closed"] => ProcsStay
  BY <1>1, <1>2 DEF ProcsStay, Up, ProcStates
<1>5. CASE Answered(c)
  <2>1. proc' = proc
    BY <1>5 DEF Answered, Result
  <2> QED BY <1>3, <1>5, <2>1, ResultKeeps DEF Answered
<1>6. CASE AnsweredClosed(c)
  <2> DEFINE states == [proc EXCEPT ![on[c]] = "closed"]
  <2>1. Result(c, states) /\ UNCHANGED <<cur, conn, pending, faults>> /\ proc' = states
    BY <1>6 DEF AnsweredClosed, Result
  <2> HIDE DEF states
  <2>2. ProcsStay
    BY <1>4, <2>1 DEF states
  <2> QED BY <2>1, <2>2, ResultKeeps
<1>7. CASE ThrewClosed(c)
  <2> DEFINE w == Max(frames[c])
  <2>1. w \in frames[c]
    BY <1>1, LastOne
  <2>2. w \in Ids /\ Up(w)
    BY <1>1, <2>1
  <2>3. End[w] \in Ids /\ Up(End[w])
    BY <2>2, EndsAreUp DEF WiringInv
  <2>4. /\ SwapAt(c, w, frames[c] \ {w}) /\ UNCHANGED <<cur, conn, pending, faults>>
        /\ proc' = [proc EXCEPT ![on[c]] = "closed", ![End[w]] = "closed"]
    BY <1>7 DEF ThrewClosed
  <2> HIDE DEF w
  <2>5. ProcsStay
    BY <1>1, <1>2, <2>3, <2>4 DEF ProcsStay, Up, ProcStates
  <2> QED BY <2>1, <2>4, <2>5, SwapKeeps
<1>8. CASE ThrewOther(c)
  BY <1>2, <1>3, <1>8, OverKeeps DEF ThrewOther
<1>9. CASE TimedOut(c)
  <2>1. faults' \in 0..MaxFaults
    BY <1>2, <1>9, PoolAssumption DEF TimedOut, Fault
  <2> QED BY <1>4, <1>9, <2>1, OverKeeps DEF TimedOut
<1> QED BY <1>5, <1>6, <1>7, <1>8, <1>9 DEF CallEnds

\* p does not start: those who waited for it have the error, or repair an outer wrapper.
LEMMA ConnectFailsKeeps ==
  ASSUME WiringInv, NEW p \in Ids, ConnectFails(p)
  PROVE  WiringInv'
<1>1. proc[p] = "starting" /\ pending' = 0 /\ UNCHANGED <<cur, conn>> /\ p # 0
  BY Numbers DEF ConnectFails
<1>2. faults' \in 0..MaxFaults
  BY PoolAssumption DEF ConnectFails, Fault, WiringInv, TypeOK
<1>3. PICK again \in SUBSET {c \in Respawning(p) : frames[c] # {}} :
       LET gone == (Getting(p) \cup Respawning(p)) \ again
           w == [c \in again |-> Max(frames[c])]
       IN  /\ pc' = [c \in Callers |-> IF c \in again THEN "closing"
                                     ELSE IF c \in gone THEN "idle" ELSE pc[c]]
           /\ on' = [c \in Callers |-> IF c \in again \cup gone THEN 0 ELSE on[c]]
           /\ by' = [c \in Callers |-> IF c \in again THEN w[c]
                                     ELSE IF c \in gone THEN 0 ELSE by[c]]
           /\ frames' = [c \in Callers |-> IF c \in again THEN frames[c] \ {w[c]}
                                         ELSE IF c \in gone THEN {} ELSE frames[c]]
           /\ tries' = [c \in Callers |-> IF c \in gone THEN 0 ELSE tries[c]]
           /\ proc' = [q \in Ids |->
                IF q = p \/ \E c \in again : q = End[w[c]] THEN "closed" ELSE proc[q]]
  BY DEF ConnectFails
<1> DEFINE gone == (Getting(p) \cup Respawning(p)) \ again
           w == [c \in again |-> Max(frames[c])]
<1>4. \A c \in Callers : frames[c] \in SUBSET Ids /\ \A v \in frames[c] : Up(v)
  BY DEF WiringInv, TypeOK, Wired
<1>5. ASSUME NEW c \in again
      PROVE  c \in Callers /\ w[c] \in frames[c] /\ w[c] \in Ids /\ Up(w[c]) /\ Up(End[w[c]])
  <2>1. c \in Callers /\ frames[c] # {} /\ w[c] = Max(frames[c])
    BY <1>5 DEF Respawning
  <2>2. Max(frames[c]) \in frames[c]
    BY <1>4, <2>1, LastOne
  <2> QED BY <1>4, <2>1, <2>2, EndsAreUp DEF WiringInv
<1>6. again \subseteq Callers /\ gone \subseteq Callers /\ w \in [again -> Ids]
  BY <1>5 DEF Getting, Respawning
<1> HIDE DEF w, gone
<1>7. /\ pc' = [c \in Callers |-> IF c \in again THEN "closing"
                                ELSE IF c \in gone THEN "idle" ELSE pc[c]]
      /\ on' = [c \in Callers |-> IF c \in again \cup gone THEN 0 ELSE on[c]]
      /\ by' = [c \in Callers |-> IF c \in again THEN w[c]
                                ELSE IF c \in gone THEN 0 ELSE by[c]]
      /\ frames' = [c \in Callers |-> IF c \in again THEN frames[c] \ {w[c]}
                                    ELSE IF c \in gone THEN {} ELSE frames[c]]
      /\ tries' = [c \in Callers |-> IF c \in gone THEN 0 ELSE tries[c]]
      /\ proc' = [q \in Ids |->
           IF q = p \/ \E c \in again : q = End[w[c]] THEN "closed" ELSE proc[q]]
  BY <1>3 DEF w, gone
<1>8. ProcsStay
  BY <1>1, <1>5, <1>7 DEF ProcsStay, Up, WiringInv, TypeOK, ProcStates
<1>9. CallTypes'
  BY <1>6, <1>7, Numbers DEF CallTypes, WiringInv, TypeOK, CallStates
<1>10. ASSUME NEW d \in Callers PROVE Untouched(d) \/ Wired(d)'
  <2>1. CASE d \in again
    <3>1. pc'[d] = "closing" /\ by'[d] = w[d] /\ frames'[d] = frames[d] \ {w[d]}
      BY <1>7, <2>1
    <3>2. Up(w[d]) /\ w[d] # 0 /\ w[d] \in Ids
      BY <1>5, <2>1, Numbers
    <3>3. \A v \in Ids : Up(v) => Up(v)'
      BY <1>8 DEF ProcsStay, Up
    <3> QED BY <1>4, <3>1, <3>2, <3>3 DEF Wired, Up
  <2>2. CASE d \in gone /\ d \notin again
    BY <1>7, <2>2 DEF Wired
  <2>3. CASE d \notin gone \cup again
    BY <1>7, <2>3 DEF Untouched
  <2> QED BY <2>1, <2>2, <2>3
<1> QED BY <1>1, <1>2, <1>8, <1>9, <1>10, CallsMove

\* Every step keeps the wiring.
LEMMA NextKeepsWiring == WiringInv /\ [Next]_vars => WiringInv'
<1> SUFFICES ASSUME WiringInv, [Next]_vars PROVE WiringInv'
  OBVIOUS
<1>0. faults \in 0..MaxFaults /\ proc \in [Ids -> ProcStates]
  BY DEF WiringInv, TypeOK
<1>1. ASSUME NEW c \in Callers, Get(c) \/ CallEnds(c) PROVE WiringInv'
  BY <1>1, GetKeeps, EndsKeep
<1>2. ASSUME NEW c \in Callers, Respawn(c) PROVE WiringInv'
  <2>1. conn' \in {0, conn} /\ UNCHANGED <<cur, by, frames, tries, faults>>
    BY <1>2 DEF Respawn
  <2> QED BY <1>2, <2>1, SpawnKeeps DEF Respawn
<1>3. ASSUME NEW p \in Ids, Connected(p) \/ ConnectFails(p) PROVE WiringInv'
  BY <1>3, ConnectedKeeps, ConnectFailsKeeps
<1>4. ASSUME UNCHANGED <<cur, pending, callVars>>, ProcsStay, conn' \in {0, conn},
             faults' \in 0..MaxFaults
      PROVE  WiringInv'
  <2>1. CallTypes'
    BY <1>4 DEF callVars, CallTypes, WiringInv, TypeOK
  <2>2. \A d \in Callers : Untouched(d)
    BY <1>4 DEF callVars, Untouched
  <2> QED BY <1>4, <2>1, <2>2, CallsMove
<1>5. ASSUME NEW p \in Ids, Breaks(p) PROVE WiringInv'
  <2>1. ProcsStay
    BY <1>0, <1>5 DEF Breaks, ProcsStay, Up, ProcStates
  <2> QED BY <1>0, <1>4, <1>5, <2>1, PoolAssumption DEF Breaks, Fault
<1>6. ASSUME CloseAll PROVE WiringInv'
  <2>1. conn # 0 => conn \in Ids /\ Up(conn)
    BY Numbers DEF WiringInv, TypeOK
  <2>2. ProcsStay
    <3>1. CASE conn = 0
      BY <1>0, <1>6, <3>1 DEF CloseAll, ProcsStay, Up
    <3>2. CASE conn # 0
      BY <1>6, <2>1, <3>2, ShutsStay DEF CloseAll
    <3> QED BY <3>1, <3>2
  <2> QED BY <1>0, <1>4, <1>6, <2>2, PoolAssumption DEF CloseAll, Fault
<1>7. ASSUME UNCHANGED vars PROVE WiringInv'
  <2>1. ProcsStay
    BY <1>0, <1>7 DEF vars, ProcsStay, Up
  <2> QED BY <1>0, <1>4, <1>7, <2>1 DEF vars
<1> QED BY <1>1, <1>2, <1>3, <1>5, <1>6, <1>7 DEF Next

\* However many processes are lost, calls time out and starts fail: chains of wrappers
\* rise to processes that were started, and a call is inside wrappers there are.
THEOREM WiringHolds == Spec => []WiringInv
<1>1. Init => WiringInv
  <2> SUFFICES ASSUME Init PROVE WiringInv
    OBVIOUS
  <2>1. TypeOK
    BY Numbers, PoolAssumption DEF Init, TypeOK, ProcStates, CallStates
  <2>2. ChainsRise
    BY Numbers DEF Init, ChainsRise
  <2>3. ASSUME NEW c \in Callers PROVE Wired(c)
    BY DEF Init, Wired
  <2> QED BY <2>1, <2>2, <2>3 DEF Init, WiringInv
<1> QED BY <1>1, NextKeepsWiring, PTL DEF Spec

\* The maps, the wrappers and the calls of the pool keep their types, for any number
\* of callers, processes and failures; a pending start is one that is under way.
THEOREM PoolTypes == Spec => []TypeOK
<1>1. WiringInv => TypeOK
  BY DEF WiringInv
<1> QED BY <1>1, WiringHolds, PTL

-----------------------------------------------------------------------------
(* Two callers: what a failure can still cost.                             *)

Repairing(c) == pc[c] \in {"closing", "respawning"}

\* Wrapper w follows the one c repairs, to the process c starts.
Follows(c, w) == by[c] # 0 /\ w <= by[c] /\ End[w] = End[by[c]]

\* Wrappers on one process lie on one line: each goes on to the next or before it.
Lines == \A u, v \in Ids : u < v /\ End[u] = End[v] => cur[u] <= v

\* The wrappers of a call are older than its process, or than the one it repairs, and
\* the ones on one line stand side by side.
CallTidy(c) ==
  /\ pc[c] \in {"idle", "getting"} => frames[c] = {} /\ tries[c] = 0
  /\ ~ Repairing(c) => by[c] = 0
  /\ pc[c] = "calling" => on[c] \in frames[c] /\ \A w \in frames[c] : w <= on[c]
  /\ Repairing(c) => \A w \in frames[c] : w <= by[c]
  /\ pc[c] = "respawning" => on[c] # 0 /\ proc[on[c]] = "starting"
  /\ \A u, v \in frames[c] : \A w \in frames[c] \cup ({by[c]} \ {0}) :
       u < v /\ v < w /\ End[u] = End[w] => End[v] = End[w]

TidyInv ==
  /\ Lines /\ \A c \in Callers : CallTidy(c)
  /\ \A c, d \in Callers :
       pc[c] = "respawning" /\ pc[d] = "respawning" /\ on[c] = on[d] => c = d

Dead == {x \in Ids : proc[x] \in {"broken", "closed"}}

\* Dead processes the call of c will meet on its way back.
Lost(c) ==
  {x \in Dead : \/ pc[c] = "calling" /\ x = on[c]
                \/ \E w \in frames[c] : ~ Follows(c, w) /\ End[w] = x}

\* Dead processes somebody of D is on, or may still come to.
Haunted(D) ==
  {x \in Ids : \/ proc[x] = "broken"
               \/ proc[x] = "closed" /\ \E d \in D : pc[d] = "calling" /\ on[d] = x}

\* The haunted ones from where another caller would close the process of c.
Threats(c) ==
  {x \in Haunted(Callers \ {c}) :
     \/ Follows(c, x)
     \/ ~ Follows(c, x) /\ \E w \in frames[c] : ~ Follows(c, w) /\ End[w] = End[x]}

Debt(c) ==
  tries[c] + (IF Repairing(c) THEN 1 ELSE 0) + Cardinality(Lost(c)) + Cardinality(Threats(c))

DebtInv ==
  /\ Cardinality(Haunted(Callers)) <= faults
  /\ \A c \in Callers : pc[c] = "calling" \/ Repairing(c) => Debt(c) <= 1 + 2 * faults

-----------------------------------------------------------------------------
(* Counting.                                                               *)

\* Sets of wrappers or processes are finite.
LEMMA Counts ==
  ASSUME NEW S \in SUBSET Ids
  PROVE  IsFiniteSet(S) /\ Cardinality(S) \in Nat
<1>1. IsFiniteSet(Ids)
  BY FS_Interval, PoolAssumption DEF Ids
<1> QED BY <1>1, FS_Subset, FS_CardinalityType

\* No more.
LEMMA CountSub ==
  ASSUME NEW S \in SUBSET Ids, NEW T \in SUBSET S
  PROVE  Cardinality(T) <= Cardinality(S)
BY Counts, FS_Subset

\* One more at most.
LEMMA CountAdd ==
  ASSUME NEW S \in SUBSET Ids, NEW x, NEW T \in SUBSET (S \cup {x})
  PROVE  Cardinality(T) <= Cardinality(S) + 1
<1>1. IsFiniteSet(S) /\ Cardinality(S) \in Nat
  BY Counts
<1>2. /\ IsFiniteSet(S \cup {x})
      /\ Cardinality(S \cup {x}) = IF x \in S THEN Cardinality(S) ELSE Cardinality(S) + 1
  BY <1>1, FS_AddElement
<1>3. IsFiniteSet(T) /\ Cardinality(T) <= Cardinality(S \cup {x})
  BY <1>2, FS_Subset
<1>4. Cardinality(T) \in Nat
  BY <1>3, FS_CardinalityType
<1> QED BY <1>1, <1>2, <1>3, <1>4

\* One less at least.
LEMMA CountDrop ==
  ASSUME NEW S \in SUBSET Ids, NEW x \in S, NEW T \in SUBSET (S \ {x})
  PROVE  Cardinality(T) + 1 <= Cardinality(S)
<1>1. IsFiniteSet(S) /\ Cardinality(S) \in Nat
  BY Counts
<1>2. IsFiniteSet(S \ {x}) /\ Cardinality(S \ {x}) = Cardinality(S) - 1
  BY <1>1, FS_RemoveElement
<1>3. IsFiniteSet(T) /\ Cardinality(T) <= Cardinality(S \ {x})
  BY <1>2, FS_Subset
<1>4. Cardinality(T) \in Nat
  BY <1>3, FS_CardinalityType
<1> QED BY <1>1, <1>2, <1>3, <1>4

\* One for another.
LEMMA CountSwap ==
  ASSUME NEW S \in SUBSET Ids, NEW x \in S, NEW y, NEW T \in SUBSET ((S \ {x}) \cup {y})
  PROVE  Cardinality(T) <= Cardinality(S)
<1>1. S \ {x} \in SUBSET Ids
  OBVIOUS
<1>2. Cardinality(T) <= Cardinality(S \ {x}) + 1
  BY <1>1, CountAdd
<1>3. Cardinality(S \ {x}) + 1 <= Cardinality(S)
  BY CountDrop
<1>4. Cardinality(T) \in Nat /\ Cardinality(S \ {x}) \in Nat /\ Cardinality(S) \in Nat
  <2>1. IsFiniteSet((S \ {x}) \cup {y})
    BY <1>1, Counts, FS_AddElement
  <2>2. IsFiniteSet(T)
    BY <2>1, FS_Subset
  <2> QED BY <1>1, <2>2, Counts, FS_CardinalityType
<1> QED BY <1>2, <1>3, <1>4

\* Of a pair, who is neither one is the other.
LEMMA PairOnly ==
  ASSUME Pair, NEW c \in Callers, NEW d \in Callers, NEW e \in Callers, c # d, c # e
  PROVE  d = e
<1> SUFFICES ASSUME d # e PROVE FALSE
  OBVIOUS
<1>1. IsFiniteSet({c}) /\ Cardinality({c}) = 1
  BY FS_Singleton
<1>2. IsFiniteSet({c} \cup {d}) /\ Cardinality({c} \cup {d}) = 2
  BY <1>1, FS_AddElement
<1>3. Cardinality(({c} \cup {d}) \cup {e}) = 3
  BY <1>2, FS_AddElement
<1>4. (({c} \cup {d}) \cup {e}) \in SUBSET Callers
  OBVIOUS
<1>5. Cardinality(({c} \cup {d}) \cup {e}) <= Cardinality(Callers)
  BY <1>4, FS_Subset, PoolAssumption
<1>6. Cardinality(Callers) \in Nat
  BY FS_CardinalityType, PoolAssumption
<1> QED BY <1>3, <1>5, <1>6 DEF Pair

-----------------------------------------------------------------------------
(* Where chains end, and where they end after a step.                      *)

Ended ==
  \A w \in Ids :
    /\ End[w] = (IF cur[w] = w THEN w ELSE End[cur[w]])
    /\ End[w] \in Ids /\ w <= End[w] /\ cur[End[w]] = End[w] /\ End[End[w]] = End[w]
    /\ Up(w) => Up(End[w])
    /\ ~ Up(w) => End[w] = w /\ \A v \in Ids : End[v] = w => v = w

\* What rises ends: each wrapper's end is its own `current`, and is up if the wrapper is.
LEMMA ChainsAreEnded == ChainsRise => Ended
<1> SUFFICES ASSUME ChainsRise PROVE Ended
  OBVIOUS
<1>1. \A w \in Ids : End[w] = (IF cur[w] = w THEN w ELSE End[cur[w]]) /\ End[w] \in Ids
  BY ChainsEnd
<1>2. \A w \in Ids : cur[w] \in Ids /\ cur[w] >= w /\ (cur[w] # w => Up(w) /\ Up(cur[w]))
  BY DEF ChainsRise
<1>3. \A w \in Ids : cur[End[w]] = End[w] /\ w <= End[w]
  <2> DEFINE Odd == {w \in Ids : ~ (cur[End[w]] = End[w] /\ w <= End[w])}
  <2> SUFFICES ASSUME Odd # {} PROVE FALSE
    OBVIOUS
  <2>1. PICK m \in Odd : \A x \in Odd : m >= x
    BY LastOne
  <2>2. cur[m] # m
    BY <1>1, <2>1, Numbers
  <2>3. End[m] = End[cur[m]] /\ cur[m] \in Ids /\ cur[m] >= m /\ End[m] \in Ids
    BY <1>1, <1>2, <2>1, <2>2
  <2>4. cur[m] \notin Odd
    BY <2>1, <2>2, <2>3, Numbers
  <2> QED BY <2>1, <2>3, <2>4, Numbers
<1>4. \A w \in Ids : Up(w) => Up(End[w])
  BY EndsAreUp
<1>5. ASSUME NEW w \in Ids, ~ Up(w), NEW v \in Ids, End[v] = w PROVE v = w
  <2>1. CASE Up(v)
    BY <1>4, <1>5, <2>1
  <2>2. CASE ~ Up(v)
    BY <1>1, <1>2, <1>5, <2>2
  <2> QED BY <2>1, <2>2
<1> QED BY <1>1, <1>2, <1>3, <1>4, <1>5 DEF Ended

\* Ends move only with the wrappers.
LEMMA EndStays == UNCHANGED cur => End' = End
BY DEF End

\* What a start changes.  Whoever waited for p calls it.
ConnectedEffect(p) ==
  /\ proc[p] = "starting" /\ proc' = [proc EXCEPT ![p] = "open"]
  /\ conn' = p /\ pending' = 0 /\ UNCHANGED <<on, faults>>
  /\ \A c \in Callers :
       IF c \in Getting(p) \cup Respawning(p)
       THEN /\ on[c] = p /\ pc'[c] = "calling" /\ by'[c] = 0 /\ tries'[c] = tries[c] + 1
            /\ frames'[c] = (frames[c] \ {by[c]}) \cup {p}
       ELSE Untouched(c) /\ tries'[c] = tries[c]

\* At most one caller repairs a wrapper with p.
Repairer(p, c) ==
  /\ c \in Callers /\ Respawning(p) = {c} /\ by[c] \in Ids /\ Up(by[c]) /\ by[c] < p
  /\ cur' = [cur EXCEPT ![by[c]] = p]

\* Who waited for p calls it; one repair at most was waiting.
LEMMA ConnectedEffects ==
  ASSUME WiringInv, TidyInv, NEW p \in Ids, Connected(p)
  PROVE  /\ ConnectedEffect(p)
         /\ (Respawning(p) = {} /\ cur' = cur) \/ \E c \in Callers : Repairer(p, c)
<1>1. ConnectedEffect(p)
  BY DEF Connected, ConnectedEffect, Untouched, Getting, Respawning
<1>2. /\ cur' = [w \in Ids |-> IF \E c \in Respawning(p) : by[c] = w THEN p ELSE cur[w]]
      /\ cur \in [Ids -> Ids]
  BY DEF Connected, WiringInv, TypeOK
<1>3. CASE Respawning(p) = {}
  <2>1. cur' = cur
    BY <1>2, <1>3
  <2> QED BY <1>1, <1>3, <2>1
<1>4. ASSUME NEW c \in Respawning(p) PROVE Repairer(p, c)
  <2>1. c \in Callers /\ pc[c] = "respawning" /\ on[c] = p
    BY <1>4 DEF Respawning
  <2>2. \A d \in Respawning(p) : d = c
    BY <2>1 DEF TidyInv, Respawning
  <2>3. Respawning(p) = {c}
    BY <1>4, <2>2
  <2>4. by[c] \in Ids /\ Up(by[c]) /\ by[c] < p
    BY <2>1, Numbers DEF WiringInv, TypeOK, Wired
  <2>5. cur' = [cur EXCEPT ![by[c]] = p]
    BY <1>2, <2>3, <2>4
  <2> QED BY <2>1, <2>3, <2>4, <2>5 DEF Repairer
<1> QED BY <1>1, <1>3, <1>4 DEF Repairer, Respawning

\* What followed the repaired wrapper follows it to p, the other chains stay.
LEMMA RepairedEnds ==
  ASSUME WiringInv, TidyInv, Ended', NEW p \in Ids, ~ Up(p), NEW c \in Callers, Repairer(p, c)
  PROVE  \A w \in Ids : End'[w] = IF Follows(c, w) THEN p ELSE End[w]
<1> DEFINE b == by[c]
           F(w) == IF Follows(c, w) THEN p ELSE End[w]
           Odd == {w \in Ids : End'[w] # F(w)}
<1>0. Ended
  BY ChainsAreEnded DEF WiringInv
<1>1. /\ b \in Ids /\ Up(b) /\ b < p /\ b # 0 /\ b # p
      /\ cur'[b] = p /\ \A w \in Ids : w # b => cur'[w] = cur[w]
  BY Numbers DEF Repairer, WiringInv, TypeOK
<1>2. \A w \in Ids : Follows(c, w) <=> w <= b /\ End[w] = End[b]
  BY <1>1 DEF Follows
<1>3. \A w \in Ids : End'[w] = IF cur'[w] = w THEN w ELSE End'[cur'[w]]
  BY DEF Ended
<1>4. cur[p] = p /\ End[p] = p /\ \A w \in Ids : cur[w] \in Ids /\ cur[w] >= w
  BY <1>0 DEF WiringInv, ChainsRise, Ended
<1>5. End'[p] = p /\ F(p) = p
  <2>1. ~ (p <= b)
    BY <1>1, Numbers
  <2> QED BY <1>1, <1>2, <1>3, <1>4, <2>1
<1>6. End'[b] = p /\ F(b) = p
  <2>1. b <= b
    BY <1>1, Numbers
  <2> QED BY <1>1, <1>2, <1>3, <1>5, <2>1
<1> SUFFICES ASSUME Odd # {} PROVE FALSE
  OBVIOUS
<1>7. PICK m \in Odd : \A x \in Odd : m >= x
  BY LastOne
<1>8. m \in Ids /\ m # b /\ m # p /\ cur'[m] = cur[m]
  BY <1>1, <1>5, <1>6, <1>7
<1>9. CASE cur[m] = m
  <2>1. End[m] = m /\ End'[m] = m
    BY <1>0, <1>3, <1>8, <1>9 DEF Ended
  <2>2. ~ Follows(c, m)
    <3>1. b <= End[b]
      BY <1>0, <1>1 DEF Ended
    <3>2. m <= b /\ b <= m => m = b
      BY <1>1, <1>8, Numbers
    <3> QED BY <1>2, <1>8, <2>1, <3>1, <3>2
  <2> QED BY <1>7, <2>1, <2>2
<1>10. CASE cur[m] # m
  <2> DEFINE n == cur[m]
  <2>1. n \in Ids /\ n > m /\ End[m] = End[n] /\ End'[m] = End'[n]
    BY <1>0, <1>3, <1>4, <1>8, <1>10, Numbers DEF Ended
  <2>2. End'[n] = F(n)
    BY <1>7, <2>1, Numbers
  <2>3. Follows(c, n) <=> Follows(c, m)
    <3>1. n <= b => m <= b
      BY <1>1, <1>8, <2>1, Numbers
    <3>2. End[m] = End[b] /\ m <= b => n <= b
      <4>1. m <= b => m < b
        BY <1>1, <1>8, Numbers
      <4> QED BY <1>1, <1>8, <4>1 DEF TidyInv, Lines
    <3> QED BY <1>2, <1>8, <2>1, <3>1, <3>2
  <2> QED BY <1>7, <1>8, <2>1, <2>2, <2>3
<1> QED BY <1>9, <1>10

-----------------------------------------------------------------------------
(* The steps keep lines and calls tidy.                                    *)

\* A call of d is as tidy as it was when its wrapper, its process and the start it
\* awaits are what they were.
LEMMA UntouchedTidy ==
  ASSUME WiringInv, TidyInv, NEW d \in Callers, Untouched(d), tries'[d] = tries[d], End' = End,
         pc[d] = "respawning" => proc'[on[d]] = "starting"
  PROVE  CallTidy(d)'
BY DEF TidyInv, CallTidy, Untouched, Repairing

\* Calls move, and no wrapper; one at most has begun to wait for a new start.
LEMMA TidyMoves ==
  ASSUME WiringInv, TidyInv, UNCHANGED cur, NEW c,
         \A d \in Callers :
           \/ /\ Untouched(d) /\ tries'[d] = tries[d]
              /\ pc[d] = "respawning" => proc'[on[d]] = "starting"
           \/ CallTidy(d)' /\ (pc'[d] # "respawning" \/ (d = c /\ proc[on'[d]] # "starting"))
  PROVE  TidyInv'
<1>1. End' = End
  BY EndStays
<1>2. Lines'
  BY <1>1 DEF TidyInv, Lines
<1>3. ASSUME NEW d \in Callers PROVE CallTidy(d)'
  BY <1>1, UntouchedTidy
<1>4. ASSUME NEW d \in Callers, NEW e \in Callers, pc'[d] = "respawning", pc'[e] = "respawning",
             on'[d] = on'[e]
      PROVE  d = e
  <2>1. ASSUME NEW f \in Callers, f # c, pc'[f] = "respawning"
        PROVE  Untouched(f) /\ proc[on'[f]] = "starting"
    BY <2>1 DEF TidyInv, CallTidy, Untouched
  <2>2. CASE d # c /\ e # c
    BY <1>4, <2>1, <2>2 DEF TidyInv, Untouched
  <2>3. CASE Untouched(c) /\ c \in Callers
    BY <1>4, <2>1, <2>3 DEF TidyInv, Untouched
  <2> QED BY <1>4, <2>1, <2>2, <2>3
<1> QED BY <1>2, <1>3, <1>4 DEF TidyInv

StartsStay == \A q \in Ids : proc[q] = "starting" => proc'[q] = "starting"

\* One call moves, or none.
LEMMA TidyOne ==
  ASSUME WiringInv, TidyInv, UNCHANGED cur, NEW c, StartsStay,
         c \in Callers => CallTidy(c)' /\ (pc'[c] # "respawning" \/ proc[on'[c]] # "starting"),
         \A d \in Callers \ {c} : Untouched(d) /\ tries'[d] = tries[d]
  PROVE  TidyInv'
<1>1. ASSUME NEW d \in Callers, pc[d] = "respawning" PROVE proc'[on[d]] = "starting"
  BY <1>1, Numbers DEF TidyInv, CallTidy, StartsStay, WiringInv, TypeOK
<1> QED BY <1>1, TidyMoves

\* A call begins on the process of the entry.
LEMMA SendTidy ==
  ASSUME WiringInv, TidyInv, NEW c \in Callers, pc[c] = "idle", conn \in Ids, Send(c, conn),
         UNCHANGED cur
  PROVE  CallTidy(c)'
<1>1. Ended /\ End' = End
  BY ChainsAreEnded, EndStays DEF WiringInv
<1>2. /\ pc'[c] = "calling" /\ on'[c] = End[conn] /\ frames'[c] = Chain(conn) /\ by'[c] = by[c]
      /\ by[c] = 0
  BY DEF Send, WiringInv, TypeOK, TidyInv, CallTidy, Repairing
<1>3. \A w \in Chain(conn) : w \in Ids /\ End[w] = End[conn] /\ w <= End[conn]
  BY <1>1, Numbers, PoolAssumption DEF Chain, Ids, Ended
<1>4. End[conn] \in Chain(conn)
  BY <1>1, Numbers, PoolAssumption DEF Chain, Ids, Ended
<1> QED BY <1>1, <1>2, <1>3, <1>4 DEF CallTidy, Repairing

\* A wrapper is going to be repaired, the last one there is.
LEMMA SwapTidy ==
  ASSUME WiringInv, TidyInv, NEW c \in Callers, NEW w \in frames[c],
         NEW outer \in SUBSET frames[c], \A v \in outer : v <= w, UNCHANGED cur,
         pc'[c] = "closing", by'[c] = w, frames'[c] = outer
  PROVE  CallTidy(c)'
<1>1. End' = End
  BY EndStays
<1>2. \A u, v, x \in frames[c] : u < v /\ v < x /\ End[u] = End[x] => End[v] = End[x]
  BY DEF TidyInv, CallTidy
<1> QED BY <1>1, <1>2 DEF CallTidy, Repairing

\* What is last in a call's frames.
LEMMA LastFrame ==
  ASSUME WiringInv, NEW c \in Callers, NEW S \in SUBSET frames[c], S # {}
  PROVE  Max(S) \in S /\ Max(S) \in Ids /\ \A v \in S : v <= Max(S)
<1>1. S \in SUBSET Ids
  BY DEF WiringInv, TypeOK
<1>2. Max(S) \in S /\ \A x \in S : Max(S) >= x
  BY <1>1, LastOne
<1> QED BY <1>1, <1>2, Numbers

\* How the call of c ends, whatever it met: it is over, or its last dead wrapper is
\* repaired.
Ends(c) ==
  \/ Over(c)
  \/ \E w \in frames[c] : \E outer \in SUBSET frames[c] :
       SwapAt(c, w, outer) /\ \A v \in outer : v <= w

\* A call ends on a process that was started, and goes on to the last wrapper it is inside.
LEMMA CallsEnd ==
  ASSUME WiringInv, TidyInv, NEW c \in Callers, CallEnds(c)
  PROVE  /\ pc[c] = "calling" /\ on[c] \in Ids /\ Up(on[c]) /\ Max(frames[c]) = on[c]
         /\ UNCHANGED <<cur, conn, pending>> /\ StartsStay /\ Ends(c)
<1>1. /\ pc[c] = "calling" /\ on[c] \in Ids /\ Up(on[c]) /\ UNCHANGED <<cur, conn, pending>>
      /\ on[c] \in frames[c] /\ frames[c] \in SUBSET Ids /\ \A w \in frames[c] : w <= on[c]
  BY Numbers DEF CallEnds, Answered, AnsweredClosed, ThrewClosed, ThrewOther, TimedOut,
     WiringInv, TypeOK, Wired, TidyInv, CallTidy
<1>2. Max(frames[c]) = on[c]
  <2>1. Max(frames[c]) \in frames[c] /\ on[c] <= Max(frames[c])
    BY <1>1, LastFrame
  <2> QED BY <1>1, <2>1, Numbers
<1>3. End[on[c]] \in Ids /\ Up(End[on[c]])
  BY <1>1, ChainsAreEnded DEF Ended, WiringInv
<1>4. ASSUME NEW states, Result(c, states) PROVE Ends(c) /\ proc' = states
  <2> DEFINE closed == {w \in frames[c] : ~ FlaggedOpen(w, states)}
             w == Max(closed)
             outer == {v \in frames[c] : v <= w}
  <2>1. CASE closed = {}
    BY <1>4, <2>1 DEF Result, Ends
  <2>2. CASE closed # {}
    <3>1. SwapAt(c, w, outer)
      BY <1>4, <2>2 DEF Result
    <3>2. w \in frames[c]
      BY <2>2, LastFrame
    <3>3. outer \in SUBSET frames[c] /\ \A v \in outer : v <= w
      OBVIOUS
    <3> HIDE DEF w, outer
    <3> QED BY <1>4, <3>1, <3>2, <3>3 DEF Ends, Result
  <2> QED BY <1>4, <2>1, <2>2 DEF Result
<1>5. CASE Answered(c)
  BY <1>1, <1>2, <1>4, <1>5 DEF Answered, StartsStay
<1>6. CASE AnsweredClosed(c)
  <2>1. Ends(c) /\ proc' = [proc EXCEPT ![on[c]] = "closed"]
    BY <1>4, <1>6 DEF AnsweredClosed
  <2> QED BY <1>1, <1>2, <2>1 DEF StartsStay, WiringInv, TypeOK, Up
<1>7. CASE ThrewClosed(c)
  <2>1. /\ SwapAt(c, on[c], frames[c] \ {on[c]})
        /\ proc' = [proc EXCEPT ![on[c]] = "closed", ![End[on[c]]] = "closed"]
    BY <1>2, <1>7 DEF ThrewClosed
  <2>2. StartsStay
    BY <1>1, <1>3, <2>1 DEF StartsStay, WiringInv, TypeOK, Up
  <2>3. Ends(c)
    BY <1>1, <2>1 DEF Ends
  <2> QED BY <1>1, <1>2, <2>2, <2>3
<1>8. CASE ThrewOther(c)
  BY <1>1, <1>2, <1>8 DEF ThrewOther, StartsStay, Ends
<1>9. CASE TimedOut(c)
  BY <1>1, <1>2, <1>9 DEF TimedOut, StartsStay, Ends, WiringInv, TypeOK, Up
<1> QED BY <1>5, <1>6, <1>7, <1>8, <1>9 DEF CallEnds

\* p does not start: who is told that the connection is closed goes on to the repair of
\* an outer wrapper, and closes what that one has.
FailedEffect(p, again) ==
  /\ again \in SUBSET Respawning(p) /\ proc[p] = "starting" /\ Fault /\ UNCHANGED <<cur, conn>>
  /\ \A c \in again : /\ c \in Callers /\ Max(frames[c]) \in frames[c]
                      /\ End[Max(frames[c])] \in Ids /\ Up(End[Max(frames[c])])
  /\ \A q \in Ids : proc'[q] = IF q = p \/ \E c \in again : q = End[Max(frames[c])]
                               THEN "closed" ELSE proc[q]
  /\ \A c \in Callers :
       \/ /\ c \in again
          /\ pc'[c] = "closing" /\ by'[c] = Max(frames[c]) /\ tries'[c] = tries[c]
          /\ frames'[c] = frames[c] \ {Max(frames[c])}
       \/ pc'[c] = "idle" /\ by'[c] = 0 /\ frames'[c] = {} /\ tries'[c] = 0 /\ c \notin again
       \/ Untouched(c) /\ tries'[c] = tries[c] /\ c \notin again /\ (pc[c] = "respawning" => on[c] # p)

\* The cases of a start that fails, caller by caller.
LEMMA FailedEffects ==
  ASSUME WiringInv, TidyInv, NEW p \in Ids, ConnectFails(p)
  PROVE  \E again \in SUBSET Respawning(p) : FailedEffect(p, again)
<1>1. /\ proc[p] = "starting" /\ Fault /\ pending' = 0 /\ UNCHANGED <<cur, conn>>
  BY DEF ConnectFails
<1>2. PICK again \in SUBSET {c \in Respawning(p) : frames[c] # {}} :
       LET gone == (Getting(p) \cup Respawning(p)) \ again
           w == [c \in again |-> Max(frames[c])]
       IN  /\ pc' = [c \in Callers |-> IF c \in again THEN "closing"
                                     ELSE IF c \in gone THEN "idle" ELSE pc[c]]
           /\ on' = [c \in Callers |-> IF c \in again \cup gone THEN 0 ELSE on[c]]
           /\ by' = [c \in Callers |-> IF c \in again THEN w[c]
                                     ELSE IF c \in gone THEN 0 ELSE by[c]]
           /\ frames' = [c \in Callers |-> IF c \in again THEN frames[c] \ {w[c]}
                                         ELSE IF c \in gone THEN {} ELSE frames[c]]
           /\ tries' = [c \in Callers |-> IF c \in gone THEN 0 ELSE tries[c]]
           /\ proc' = [q \in Ids |->
                IF q = p \/ \E c \in again : q = End[w[c]] THEN "closed" ELSE proc[q]]
  BY DEF ConnectFails
<1> DEFINE gone == (Getting(p) \cup Respawning(p)) \ again
           w == [c \in again |-> Max(frames[c])]
<1>3. ASSUME NEW c \in again
      PROVE  /\ c \in Callers /\ w[c] = Max(frames[c]) /\ Max(frames[c]) \in frames[c]
             /\ End[Max(frames[c])] \in Ids /\ Up(End[Max(frames[c])])
  <2>1. c \in Callers /\ frames[c] # {}
    BY <1>3 DEF Respawning
  <2>2. Max(frames[c]) \in frames[c] /\ Max(frames[c]) \in Ids
    BY <2>1, LastFrame
  <2>3. Up(Max(frames[c])) /\ Ended
    BY <2>1, <2>2, ChainsAreEnded DEF WiringInv, Wired
  <2> QED BY <2>1, <2>2, <2>3 DEF Ended
<1> HIDE DEF w, gone
<1>4. /\ pc' = [c \in Callers |-> IF c \in again THEN "closing"
                                ELSE IF c \in gone THEN "idle" ELSE pc[c]]
      /\ on' = [c \in Callers |-> IF c \in again \cup gone THEN 0 ELSE on[c]]
      /\ by' = [c \in Callers |-> IF c \in again THEN w[c]
                                ELSE IF c \in gone THEN 0 ELSE by[c]]
      /\ frames' = [c \in Callers |-> IF c \in again THEN frames[c] \ {w[c]}
                                    ELSE IF c \in gone THEN {} ELSE frames[c]]
      /\ tries' = [c \in Callers |-> IF c \in gone THEN 0 ELSE tries[c]]
      /\ proc' = [q \in Ids |->
           IF q = p \/ \E c \in again : q = End[w[c]] THEN "closed" ELSE proc[q]]
  BY <1>2 DEF w, gone
<1>5. ASSUME NEW q \in Ids
      PROVE  proc'[q] = IF q = p \/ \E c \in again : q = End[Max(frames[c])]
                        THEN "closed" ELSE proc[q]
  BY <1>3, <1>4
<1>6. ASSUME NEW c \in Callers
      PROVE  \/ /\ c \in again
                /\ pc'[c] = "closing" /\ by'[c] = Max(frames[c]) /\ tries'[c] = tries[c]
                /\ frames'[c] = frames[c] \ {Max(frames[c])}
             \/ pc'[c] = "idle" /\ by'[c] = 0 /\ frames'[c] = {} /\ tries'[c] = 0 /\ c \notin again
             \/ Untouched(c) /\ tries'[c] = tries[c] /\ c \notin again
                /\ (pc[c] = "respawning" => on[c] # p)
  <2>0. c \in again => c \notin gone
    BY DEF gone
  <2>1. CASE c \in again
    BY <1>3, <1>4, <2>0, <2>1
  <2>2. CASE c \in gone
    BY <1>4, <2>0, <2>2
  <2>3. CASE c \notin again /\ c \notin gone
    <3>1. Untouched(c) /\ tries'[c] = tries[c]
      BY <1>4, <2>3 DEF Untouched
    <3>2. pc[c] = "respawning" => on[c] # p
      BY <2>3 DEF gone, Respawning
    <3> QED BY <2>3, <3>1, <3>2
  <2> QED BY <2>1, <2>2, <2>3
<1>7. again \in SUBSET Respawning(p)
  OBVIOUS
<1>8. FailedEffect(p, again)
  BY <1>1, <1>3, <1>5, <1>6, <1>7 DEF FailedEffect
<1> QED BY <1>7, <1>8

\* p does not start, and calls stay tidy.
LEMMA FailedTidy ==
  ASSUME WiringInv, TidyInv, NEW p \in Ids, ConnectFails(p)
  PROVE  TidyInv'
<1>1. PICK again \in SUBSET Respawning(p) : FailedEffect(p, again)
  BY FailedEffects
<1>2. UNCHANGED cur
  BY <1>1 DEF FailedEffect
<1>3. ASSUME NEW d \in Callers
      PROVE  \/ /\ Untouched(d) /\ tries'[d] = tries[d]
                /\ pc[d] = "respawning" => proc'[on[d]] = "starting"
             \/ CallTidy(d)' /\ pc'[d] # "respawning"
  <2>1. CASE /\ d \in again
             /\ pc'[d] = "closing" /\ by'[d] = Max(frames[d]) /\ tries'[d] = tries[d]
             /\ frames'[d] = frames[d] \ {Max(frames[d])}
    <3> DEFINE w == Max(frames[d])
               outer == frames[d] \ {w}
    <3>1. w \in frames[d] /\ \A v \in outer : v <= w
      <4>1. w \in frames[d]
        BY <1>1, <2>1 DEF FailedEffect
      <4> QED BY <4>1, LastFrame
    <3>2. outer \in SUBSET frames[d]
      OBVIOUS
    <3>3. by'[d] = w /\ frames'[d] = outer
      BY <2>1
    <3> HIDE DEF w, outer
    <3> QED BY <1>2, <2>1, <3>1, <3>2, <3>3, SwapTidy
  <2>2. CASE pc'[d] = "idle" /\ by'[d] = 0 /\ frames'[d] = {} /\ tries'[d] = 0
    BY <2>2 DEF CallTidy, Repairing
  <2>3. CASE Untouched(d) /\ tries'[d] = tries[d] /\ (pc[d] = "respawning" => on[d] # p)
    <3>1. ASSUME pc[d] = "respawning" PROVE proc'[on[d]] = "starting"
      <4>1. on[d] \in Ids /\ on[d] # p /\ proc[on[d]] = "starting"
        BY <2>3, <3>1, Numbers DEF TidyInv, CallTidy, WiringInv, TypeOK
      <4> QED BY <1>1, <4>1 DEF FailedEffect, Up
    <3> QED BY <2>3, <3>1
  <2> QED BY <1>1, <2>1, <2>2, <2>3 DEF FailedEffect
<1> QED BY <1>2, <1>3, TidyMoves

\* p has started: the wrappers it repairs are a line that goes on to it, and calls stay tidy.
LEMMA ConnectedTidy ==
  ASSUME WiringInv, WiringInv', TidyInv, NEW p \in Ids, Connected(p)
  PROVE  TidyInv'
<1>0. /\ Ended /\ Ended' /\ p # 0 /\ ~ Up(p)
      /\ \A c \in Callers : frames[c] \in SUBSET Ids /\ by[c] \in Ids \cup {0}
  <2>1. ChainsRise'
    BY DEF WiringInv
  <2>2. Ended'
    BY <2>1, ChainsAreEnded, PTL
  <2> QED BY <2>2, ChainsAreEnded, Numbers DEF WiringInv, TypeOK, Connected, Up
<1>1. ConnectedEffect(p)
  BY ConnectedEffects
<1>2. ASSUME NEW d \in Callers, NEW e \in Callers, pc'[d] = "respawning", pc'[e] = "respawning",
             on'[d] = on'[e]
      PROVE  d = e
  BY <1>1, <1>2 DEF ConnectedEffect, Untouched, TidyInv
<1>3. ASSUME NEW d \in Callers, pc'[d] = "respawning"
      PROVE  on'[d] # 0 /\ proc'[on'[d]] = "starting"
  <2>1. d \notin Getting(p) \cup Respawning(p) /\ Untouched(d)
    BY <1>1, <1>3 DEF ConnectedEffect
  <2>2. pc[d] = "respawning" /\ on[d] \in Ids /\ on'[d] = on[d] /\ on[d] # p
        /\ on[d] # 0 /\ proc[on[d]] = "starting"
    BY <1>3, <2>1, Numbers DEF Untouched, TidyInv, CallTidy, WiringInv, TypeOK, Respawning
  <2> QED BY <1>1, <2>2 DEF ConnectedEffect, WiringInv, TypeOK
<1>4. CASE Respawning(p) = {} /\ cur' = cur
  <2>1. End' = End /\ Lines'
    BY <1>4, EndStays DEF TidyInv, Lines
  <2>2. ASSUME NEW d \in Callers PROVE CallTidy(d)'
    <3>1. CASE d \in Getting(p)
      <4>1. frames'[d] = {p} /\ pc'[d] = "calling" /\ by'[d] = 0 /\ on'[d] = p
        BY <1>1, <3>1 DEF ConnectedEffect, Getting, TidyInv, CallTidy
      <4> QED BY <4>1, Numbers DEF CallTidy, Repairing
    <3>2. CASE d \notin Getting(p)
      BY <1>1, <1>3, <1>4, <2>1, <3>2 DEF ConnectedEffect, Untouched, TidyInv, CallTidy, Repairing
    <3> QED BY <3>1, <3>2
  <2> QED BY <1>2, <2>1, <2>2 DEF TidyInv
<1>5. ASSUME NEW c \in Callers, Repairer(p, c)
      PROVE  TidyInv'
  <2> DEFINE b == by[c]
  <2>1. /\ b \in Ids /\ b < p /\ c \in Respawning(p)
        /\ cur'[b] = p /\ \A w \in Ids : w # b => cur'[w] = cur[w]
    BY <1>5 DEF Repairer, WiringInv, TypeOK
  <2>2. \A w \in Ids : End'[w] = IF Follows(c, w) THEN p ELSE End[w]
    BY <1>0, <1>5, RepairedEnds
  <2>3. \A w \in Ids : Follows(c, w) <=> w <= b /\ End[w] = End[b]
    BY <2>1, Numbers DEF Follows
  <2>4. \A w \in Ids : End[w] = p => w = p
    BY <1>0 DEF Ended
  <2>5. ASSUME NEW u \in Ids, NEW v \in Ids, End'[u] = End'[v], v # p, u # p
        PROVE  End[u] = End[v] /\ (Follows(c, u) <=> Follows(c, v))
    BY <2>2, <2>3, <2>4, <2>5
  <2>6. Lines'
    <3> SUFFICES ASSUME NEW u \in Ids, NEW v \in Ids, u < v, End'[u] = End'[v]
                 PROVE  cur'[u] <= v
      BY DEF Lines
    <3>1. CASE u = p
      <4>1. End'[p] = p /\ v <= End'[v]
        BY <1>0, <2>1, <2>2, <2>3, <2>4, Numbers DEF Ended
      <4> QED BY <3>1, <4>1, Numbers
    <3>2. CASE v = p /\ u # p
      <4>1. cur'[u] <= End'[u]
        BY <1>0, <2>4 DEF Ended, WiringInv, ChainsRise
      <4>2. End'[p] = p
        BY <2>1, <2>2, <2>3, <1>0, Numbers DEF Ended
      <4> QED BY <3>2, <4>1, <4>2
    <3>3. CASE u # p /\ v # p
      <4>1. End[u] = End[v] /\ (Follows(c, u) <=> Follows(c, v))
        BY <2>5, <3>3
      <4>2. u # b
        <5>1. u = b => Follows(c, u)
          BY <2>1, <2>3, Numbers
        <5>2. u = b => ~ (v <= b)
          BY <2>1, Numbers
        <5> QED BY <2>3, <4>1, <5>1, <5>2
      <4> QED BY <2>1, <4>1, <4>2 DEF TidyInv, Lines
    <3> QED BY <3>1, <3>2, <3>3
  <2>7. ASSUME NEW d \in Callers PROVE CallTidy(d)'
    <3>0. CallTidy(d)
      BY DEF TidyInv
    <3>1. CASE d \in Getting(p)
      <4>1. frames'[d] = {p} /\ pc'[d] = "calling" /\ by'[d] = 0 /\ on'[d] = p
        BY <1>1, <3>0, <3>1 DEF ConnectedEffect, Getting, CallTidy
      <4> QED BY <4>1, Numbers DEF CallTidy, Repairing
    <3>2. CASE d = c
      <4>1. /\ frames'[c] = (frames[c] \ {b}) \cup {p} /\ pc'[c] = "calling"
            /\ by'[c] = 0 /\ on'[c] = p
        BY <1>1, <2>1 DEF ConnectedEffect
      <4>2. pc[c] = "respawning" /\ \A w \in frames[c] : w \in Ids /\ w <= b /\ w < p
        BY <1>0, <2>1, <3>0, <3>2, Numbers DEF CallTidy, Repairing, Respawning
      <4>3. ASSUME NEW u \in frames'[c], NEW v \in frames'[c], NEW w \in frames'[c],
                   u < v, v < w, End'[u] = End'[w]
            PROVE  End'[v] = End'[w]
        <5>1. u \in frames[c] /\ v \in frames[c] /\ u \in Ids /\ v \in Ids /\ u # p /\ v # p
          BY <1>0, <4>1, <4>2, <4>3, Numbers
        <5>2. CASE w = p
          <6>1. Follows(c, u)
            BY <2>2, <2>3, <2>4, <4>3, <5>1, <5>2, <1>0, <2>1, Numbers DEF Ended
          <6>2. v \in frames[c] /\ b \in frames[c] \cup ({by[c]} \ {0})
            BY <2>1, <5>1, Numbers
          <6>3. v # b /\ v < b /\ End[u] = End[b]
            BY <2>1, <2>3, <4>1, <4>2, <4>3, <5>1, <5>2, <6>1, Numbers
          <6>4. End[v] = End[b]
            BY <3>0, <3>2, <4>3, <5>1, <6>2, <6>3 DEF CallTidy
          <6>5. Follows(c, v)
            BY <2>3, <4>2, <5>1, <6>4
          <6> QED BY <2>2, <4>3, <5>1, <6>1, <6>5
        <5>3. CASE w # p
          <6>1. w \in frames[c] /\ w \in Ids
            BY <1>0, <4>1, <5>3
          <6>2. End[u] = End[w] /\ (Follows(c, u) <=> Follows(c, w))
            BY <2>5, <4>3, <5>1, <5>3, <6>1
          <6>3. End[v] = End[w]
            BY <3>0, <3>2, <4>3, <5>1, <6>1, <6>2 DEF CallTidy
          <6>4. Follows(c, w) => Follows(c, v)
            BY <2>3, <4>2, <5>1, <6>1, <6>3
          <6>5. Follows(c, v) => Follows(c, w)
            BY <2>3, <4>2, <5>1, <6>1, <6>3
          <6> QED BY <2>2, <5>1, <6>1, <6>3, <6>4, <6>5
        <5> QED BY <5>2, <5>3
      <4>4. \A w \in frames'[c] : w <= p
        BY <4>1, <4>2, Numbers
      <4> QED BY <3>2, <4>1, <4>3, <4>4 DEF CallTidy, Repairing
    <3>3. CASE d \notin Getting(p) /\ d # c
      <4>1. Untouched(d) /\ tries'[d] = tries[d]
        BY <1>1, <1>5, <3>3 DEF ConnectedEffect, Repairer
      <4>2. ASSUME NEW u \in frames[d], NEW v \in frames[d],
                   NEW w \in frames[d] \cup ({by[d]} \ {0}), u < v, v < w, End'[u] = End'[w]
            PROVE  End'[v] = End'[w]
        <5>1. u \in Ids /\ v \in Ids /\ w \in Ids /\ Up(u) /\ Up(v) /\ Up(w)
          <6>1. by[d] # 0 => Repairing(d)
            BY <3>0 DEF CallTidy
          <6> QED BY <1>0, <6>1 DEF WiringInv, Wired, Repairing
        <5>2. u # p /\ v # p /\ w # p
          BY <1>0, <5>1
        <5>3. End[u] = End[w] /\ (Follows(c, u) <=> Follows(c, w))
          BY <2>5, <4>2, <5>1, <5>2
        <5>4. End[v] = End[w]
          BY <3>0, <4>2, <5>1, <5>3 DEF CallTidy
        <5>5. (Follows(c, w) => Follows(c, v)) /\ (Follows(c, v) => Follows(c, u))
          BY <2>1, <2>3, <4>2, <5>1, <5>3, <5>4, Numbers
        <5> QED BY <2>2, <5>1, <5>3, <5>4, <5>5
      <4> QED BY <1>3, <3>0, <4>1, <4>2 DEF CallTidy, Untouched, Repairing
    <3> QED BY <3>1, <3>2, <3>3
  <2> QED BY <1>2, <2>6, <2>7 DEF TidyInv
<1> QED BY <1>4, <1>5, ConnectedEffects

\* Every step keeps calls tidy.
LEMMA NextKeepsTidy == WiringInv /\ WiringInv' /\ TidyInv /\ [Next]_vars => TidyInv'
<1> SUFFICES ASSUME WiringInv, WiringInv', TidyInv, [Next]_vars PROVE TidyInv'
  OBVIOUS
<1>0. /\ proc \in [Ids -> ProcStates] /\ (conn # 0 => conn \in Ids /\ Up(conn)) /\ Ended
      /\ pc \in [Callers -> CallStates] /\ on \in [Callers -> 0..MaxProcs]
  BY ChainsAreEnded, Numbers DEF WiringInv, TypeOK
<1>1. ASSUME NEW c \in Callers, NEW state \in {"getting", "respawning"}, Spawn(c, state),
             UNCHANGED <<cur, by, frames, tries>>,
             state = "respawning" => pc[c] = "closing", state = "getting" => pc[c] = "idle"
      PROVE  TidyInv'
  <2>1. PICK p \in Ids : /\ proc[p] = "none" /\ proc' = [proc EXCEPT ![p] = "starting"]
                         /\ pc' = [pc EXCEPT ![c] = state] /\ on' = [on EXCEPT ![c] = p]
    BY <1>1 DEF Spawn
  <2>2. StartsStay
    BY <1>0, <2>1 DEF StartsStay
  <2>3. pc'[c] = state /\ on'[c] = p /\ proc'[p] = "starting" /\ proc[p] # "starting" /\ p # 0
    BY <1>0, <2>1, Numbers
  <2>4. CallTidy(c)'
    BY <1>1, <2>3, EndStays DEF CallTidy, TidyInv, Repairing
  <2>5. \A d \in Callers \ {c} : Untouched(d) /\ tries'[d] = tries[d]
    BY <1>0, <1>1, <2>1 DEF Untouched
  <2> QED BY <1>1, <2>2, <2>3, <2>4, <2>5, TidyOne
<1>2. ASSUME NEW c \in Callers, Get(c) PROVE TidyInv'
  <2>1. UNCHANGED cur /\ pc[c] = "idle"
    BY <1>2 DEF Get
  <2>2. CASE conn # 0 /\ Send(c, conn) /\ UNCHANGED <<proc, pending>>
    <3>1. CallTidy(c)' /\ pc'[c] # "respawning"
      BY <1>0, <2>1, <2>2, SendTidy DEF Send
    <3>2. StartsStay /\ \A d \in Callers \ {c} : Untouched(d) /\ tries'[d] = tries[d]
      BY <2>2 DEF StartsStay, Send, Untouched, WiringInv, TypeOK
    <3> QED BY <2>1, <3>1, <3>2, TidyOne
  <2>3. CASE /\ UNCHANGED <<by, frames, tries, proc>>
             /\ pc' = [pc EXCEPT ![c] = "getting"] /\ on' = [on EXCEPT ![c] = pending]
    <3>1. CallTidy(c)' /\ pc'[c] # "respawning"
      BY <1>0, <2>1, <2>3, EndStays DEF CallTidy, TidyInv, Repairing
    <3>2. StartsStay /\ \A d \in Callers \ {c} : Untouched(d) /\ tries'[d] = tries[d]
      BY <1>0, <2>3 DEF StartsStay, Untouched
    <3> QED BY <2>1, <3>1, <3>2, TidyOne
  <2> QED BY <1>1, <1>2, <2>1, <2>2, <2>3 DEF Get
<1>3. ASSUME NEW c \in Callers, CallEnds(c) PROVE TidyInv'
  <2>1. UNCHANGED cur /\ StartsStay /\ Ends(c)
    BY <1>3, CallsEnd
  <2>2. CASE Over(c)
    <3>1. CallTidy(c)' /\ pc'[c] # "respawning"
      BY <2>2 DEF Over, CallTidy, Repairing, WiringInv, TypeOK
    <3>2. \A d \in Callers \ {c} : Untouched(d) /\ tries'[d] = tries[d]
      BY <2>2 DEF Over, Untouched, WiringInv, TypeOK
    <3> QED BY <2>1, <3>1, <3>2, TidyOne
  <2>3. ASSUME NEW w \in frames[c], NEW outer \in SUBSET frames[c], SwapAt(c, w, outer),
               \A v \in outer : v <= w
        PROVE  TidyInv'
    <3>1. pc'[c] = "closing" /\ by'[c] = w /\ frames'[c] = outer
      BY <2>3 DEF SwapAt, WiringInv, TypeOK
    <3>2. CallTidy(c)'
      BY <2>1, <2>3, <3>1, SwapTidy
    <3>3. \A d \in Callers \ {c} : Untouched(d) /\ tries'[d] = tries[d]
      BY <2>3 DEF SwapAt, Untouched, WiringInv, TypeOK
    <3> QED BY <2>1, <3>1, <3>2, <3>3, TidyOne
  <2> QED BY <2>1, <2>2, <2>3 DEF Ends
<1>4. ASSUME NEW c \in Callers, Respawn(c) PROVE TidyInv'
  BY <1>1, <1>4 DEF Respawn
<1>5. ASSUME UNCHANGED <<cur, callVars>>, StartsStay PROVE TidyInv'
  <2>1. \A d \in Callers : Untouched(d) /\ tries'[d] = tries[d]
    BY <1>5 DEF callVars, Untouched
  <2>2. \A d \in Callers : pc[d] = "respawning" => proc'[on[d]] = "starting"
    BY <1>0, <1>5, Numbers DEF TidyInv, CallTidy, StartsStay
  <2>3. UNCHANGED cur
    BY <1>5
  <2> QED BY <2>1, <2>2, <2>3, TidyMoves
<1>6. ASSUME NEW p \in Ids, Breaks(p) PROVE TidyInv'
  BY <1>0, <1>5, <1>6 DEF Breaks, StartsStay
<1>7. ASSUME CloseAll PROVE TidyInv'
  <2>1. StartsStay
    BY <1>0, <1>7 DEF CloseAll, Shut, StartsStay
  <2> QED BY <1>5, <1>7, <2>1 DEF CloseAll
<1>8. ASSUME UNCHANGED vars PROVE TidyInv'
  BY <1>5, <1>8 DEF vars, StartsStay
<1> QED BY <1>2, <1>3, <1>4, <1>6, <1>7, <1>8, ConnectedTidy, FailedTidy DEF Next

\* For any number of callers and failures.
LEMMA TidyHolds == Spec => []TidyInv
<1>1. Init => TidyInv
  <2> SUFFICES ASSUME Init PROVE TidyInv
    OBVIOUS
  <2>1. cur = [p \in Ids |-> p]
    BY DEF Init
  <2>2. ChainsRise
    BY <2>1, Numbers DEF Init, ChainsRise
  <2>3. \A p \in Ids : End[p] = p
    BY <2>1, <2>2, ChainsEnd
  <2>4. Lines
    BY <2>1, <2>3, Numbers DEF Lines
  <2>5. \A c \in Callers : CallTidy(c)
    BY DEF Init, CallTidy, Repairing
  <2> QED BY <2>4, <2>5 DEF Init, TidyInv
<1> QED BY <1>1, WiringHolds, NextKeepsTidy, PTL DEF Spec

-----------------------------------------------------------------------------
(* The steps and the debts.                                                *)

Owes(c) == pc[c] = "calling" \/ Repairing(c) => Debt(c) <= 1 + 2 * faults

\* What is counted.
LEMMA DebtSets ==
  ASSUME WiringInv, NEW c \in Callers
  PROVE  /\ Lost(c) \in SUBSET Ids /\ Threats(c) \in SUBSET Ids /\ Haunted(Callers) \in SUBSET Ids
         /\ Threats(c) \subseteq Haunted(Callers \ {c})
         /\ Haunted(Callers \ {c}) \subseteq Haunted(Callers)
         /\ Cardinality(Lost(c)) \in Nat /\ Cardinality(Threats(c)) \in Nat
         /\ Cardinality(Haunted(Callers)) \in Nat
         /\ tries[c] \in Nat /\ faults \in Nat
<1>1. Lost(c) \in SUBSET Ids /\ Threats(c) \in SUBSET Ids /\ Haunted(Callers) \in SUBSET Ids
  BY DEF Lost, Threats, Haunted, Dead
<1>2. tries[c] \in Nat /\ faults \in Nat
  BY PoolAssumption DEF WiringInv, TypeOK
<1>3. Threats(c) \subseteq Haunted(Callers \ {c}) /\ Haunted(Callers \ {c}) \subseteq Haunted(Callers)
  BY DEF Threats, Haunted
<1> QED BY <1>1, <1>2, <1>3, Counts

\* A failure adds one to what is lost and one to what threatens.
LEMMA DebtGrows ==
  ASSUME WiringInv, WiringInv', NEW c \in Callers, Owes(c), pc[c] = "calling" \/ Repairing(c),
         tries'[c] = tries[c], Repairing(c)' => Repairing(c), faults' = faults + 1,
         NEW k, Lost(c)' \subseteq Lost(c) \cup {k}, NEW l, Threats(c)' \subseteq Threats(c) \cup {l}
  PROVE  Owes(c)'
<1>1. /\ Lost(c) \in SUBSET Ids /\ Threats(c) \in SUBSET Ids
      /\ Cardinality(Lost(c)) \in Nat /\ Cardinality(Threats(c)) \in Nat
      /\ tries[c] \in Nat /\ faults \in Nat
  BY DebtSets
<1>2. Lost(c)' \in SUBSET Ids /\ Threats(c)' \in SUBSET Ids
  BY DEF Lost, Threats, Haunted, Dead
<1>3. Cardinality(Lost(c)') \in Nat /\ Cardinality(Threats(c)') \in Nat
  BY <1>2, Counts
<1>4. Cardinality(Lost(c)') <= Cardinality(Lost(c)) + 1
  BY <1>1, CountAdd
<1>5. Cardinality(Threats(c)') <= Cardinality(Threats(c)) + 1
  BY <1>1, CountAdd
<1> QED BY <1>1, <1>3, <1>4, <1>5 DEF Owes, Debt

\* Nothing is added.
LEMMA DebtStays ==
  ASSUME WiringInv, WiringInv', NEW c \in Callers, Owes(c), pc[c] = "calling" \/ Repairing(c),
         \/ tries'[c] = tries[c] /\ (Repairing(c)' => Repairing(c))
         \/ tries'[c] = tries[c] + 1 /\ Repairing(c) /\ ~ Repairing(c)',
         faults' \in {faults, faults + 1},
         Lost(c)' \subseteq Lost(c), Threats(c)' \subseteq Threats(c)
  PROVE  Owes(c)'
<1>1. /\ Lost(c) \in SUBSET Ids /\ Threats(c) \in SUBSET Ids
      /\ Cardinality(Lost(c)) \in Nat /\ Cardinality(Threats(c)) \in Nat
      /\ tries[c] \in Nat /\ faults \in Nat
  BY DebtSets
<1>2. Lost(c)' \in SUBSET Ids /\ Threats(c)' \in SUBSET Ids
  BY DEF Lost, Threats, Haunted, Dead
<1>3. Cardinality(Lost(c)') \in Nat /\ Cardinality(Threats(c)') \in Nat
  BY <1>2, Counts
<1>4. Cardinality(Lost(c)') <= Cardinality(Lost(c)) /\ Cardinality(Threats(c)') <= Cardinality(Threats(c))
  BY <1>1, CountSub
<1> QED BY <1>1, <1>3, <1>4 DEF Owes, Debt

\* What was lost is paid with a repair.
LEMMA DebtPaid ==
  ASSUME WiringInv, WiringInv', NEW c \in Callers, Owes(c), pc[c] = "calling",
         tries'[c] = tries[c], faults' = faults,
         NEW z \in Lost(c), Lost(c)' \subseteq Lost(c) \ {z}, Threats(c)' \subseteq Threats(c)
  PROVE  Owes(c)'
<1>1. /\ Lost(c) \in SUBSET Ids /\ Threats(c) \in SUBSET Ids
      /\ Cardinality(Lost(c)) \in Nat /\ Cardinality(Threats(c)) \in Nat
      /\ tries[c] \in Nat /\ faults \in Nat
  BY DebtSets
<1>2. Lost(c)' \in SUBSET Ids /\ Threats(c)' \in SUBSET Ids
  BY DEF Lost, Threats, Haunted, Dead
<1>3. Cardinality(Lost(c)') \in Nat /\ Cardinality(Threats(c)') \in Nat
  BY <1>2, Counts
<1>4. Cardinality(Lost(c)') + 1 <= Cardinality(Lost(c))
  BY <1>1, CountDrop
<1>5. Cardinality(Threats(c)') <= Cardinality(Threats(c))
  BY <1>1, CountSub
<1>6. ~ Repairing(c)
  BY DEF Repairing
<1> QED BY <1>1, <1>3, <1>4, <1>5, <1>6 DEF Owes, Debt

\* A threat comes true.
LEMMA DebtFalls ==
  ASSUME WiringInv, WiringInv', NEW c \in Callers, Owes(c), pc[c] = "calling" \/ Repairing(c),
         tries'[c] = tries[c], Repairing(c)' => Repairing(c), faults' = faults,
         NEW y, Lost(c)' \subseteq Lost(c) \cup {y},
         NEW x \in Threats(c), Threats(c)' \subseteq Threats(c) \ {x}
  PROVE  Owes(c)'
<1>1. /\ Lost(c) \in SUBSET Ids /\ Threats(c) \in SUBSET Ids
      /\ Cardinality(Lost(c)) \in Nat /\ Cardinality(Threats(c)) \in Nat
      /\ tries[c] \in Nat /\ faults \in Nat
  BY DebtSets
<1>2. Lost(c)' \in SUBSET Ids /\ Threats(c)' \in SUBSET Ids
  BY DEF Lost, Threats, Haunted, Dead
<1>3. Cardinality(Lost(c)') \in Nat /\ Cardinality(Threats(c)') \in Nat
  BY <1>2, Counts
<1>4. Cardinality(Lost(c)') <= Cardinality(Lost(c)) + 1
  BY <1>1, CountAdd
<1>5. Cardinality(Threats(c)') + 1 <= Cardinality(Threats(c))
  BY <1>1, CountDrop
<1> QED BY <1>1, <1>3, <1>4, <1>5 DEF Owes, Debt

\* What is added to the debt of a call that rests.
LEMMA RestingDebt ==
  ASSUME WiringInv, NEW c \in Callers, Untouched(c), UNCHANGED cur, NEW Z,
         Dead' \subseteq Dead \cup Z,
         Haunted(Callers \ {c})' \subseteq Haunted(Callers \ {c}) \cup Z
  PROVE  Lost(c)' \subseteq Lost(c) \cup Z /\ Threats(c)' \subseteq Threats(c) \cup Z
<1>1. End' = End
  BY EndStays
<1>2. \A w : Follows(c, w)' <=> Follows(c, w)
  BY <1>1 DEF Untouched, Follows
<1>3. ASSUME NEW x \in Lost(c)' PROVE x \in Lost(c) \cup Z
  BY <1>1, <1>2, <1>3 DEF Lost, Untouched
<1>4. ASSUME NEW x \in Threats(c)' PROVE x \in Threats(c) \cup Z
  BY <1>1, <1>2, <1>4 DEF Threats, Untouched
<1> QED BY <1>3, <1>4

\* A step that kills no process but z, which is a failure, and moves no wrapper.
LEMMA CalmStep ==
  ASSUME WiringInv, WiringInv', DebtInv, UNCHANGED cur, NEW Z,
         (Z = {} /\ faults' = faults) \/ (\E z : Z = {z} /\ faults' = faults + 1),
         Dead' \subseteq Dead \cup Z,
         \A D \in SUBSET Callers : Haunted(D)' \subseteq Haunted(D) \cup Z,
         \A c \in Callers : Owes(c)' \/ (Untouched(c) /\ tries'[c] = tries[c])
  PROVE  DebtInv'
<1>0. /\ faults \in Nat /\ Haunted(Callers) \in SUBSET Ids /\ Haunted(Callers)' \in SUBSET Ids
  BY PoolAssumption DEF WiringInv, TypeOK, Haunted
<1>1. Cardinality(Haunted(Callers)') <= faults'
  <2>1. Haunted(Callers)' \subseteq Haunted(Callers) \cup Z
    OBVIOUS
  <2>2. /\ Cardinality(Haunted(Callers)) \in Nat /\ Cardinality(Haunted(Callers)') \in Nat
        /\ Cardinality(Haunted(Callers)) <= faults
    BY <1>0, Counts DEF DebtInv
  <2>3. CASE Z = {} /\ faults' = faults
    BY <1>0, <2>1, <2>2, <2>3, CountSub
  <2>4. ASSUME NEW z, Z = {z}, faults' = faults + 1 PROVE Cardinality(Haunted(Callers)') <= faults'
    <3>1. Cardinality(Haunted(Callers)') <= Cardinality(Haunted(Callers)) + 1
      BY <1>0, <2>1, <2>4, CountAdd
    <3> QED BY <1>0, <2>2, <2>4, <3>1
  <2> QED BY <2>3, <2>4
<1>2. ASSUME NEW c \in Callers, Untouched(c), tries'[c] = tries[c], (pc[c] = "calling" \/ Repairing(c))'
      PROVE  Owes(c)'
  <2>1. Owes(c) /\ (pc[c] = "calling" \/ Repairing(c)) /\ (Repairing(c)' => Repairing(c))
    BY <1>2 DEF DebtInv, Owes, Untouched, Repairing
  <2>2. Haunted(Callers \ {c})' \subseteq Haunted(Callers \ {c}) \cup Z
    OBVIOUS
  <2>3. Lost(c)' \subseteq Lost(c) \cup Z /\ Threats(c)' \subseteq Threats(c) \cup Z
    BY <1>2, <2>2, RestingDebt
  <2>4. CASE Z = {} /\ faults' = faults
    BY <1>2, <2>1, <2>3, <2>4, DebtStays
  <2>5. ASSUME NEW z, Z = {z}, faults' = faults + 1 PROVE Owes(c)'
    BY <1>2, <2>1, <2>3, <2>5, DebtGrows
  <2> QED BY <2>4, <2>5
<1>3. \A c \in Callers : Owes(c)'
  BY <1>2 DEF Owes
<1> QED BY <1>1, <1>3 DEF DebtInv, Owes

\* A new call owes at most one repair and what is haunted.
LEMMA SendOwes ==
  ASSUME WiringInv, WiringInv', TidyInv, DebtInv, NEW c \in Callers, pc[c] = "idle", conn \in Ids,
         IsOpen(conn), Send(c, conn), UNCHANGED <<proc, cur, faults>>
  PROVE  Owes(c)' /\ \A D \in SUBSET Callers : Haunted(D)' \subseteq Haunted(D)
<1> DEFINE e == End[conn]
<1>1. End' = End /\ Ended
  BY ChainsAreEnded, EndStays DEF WiringInv
<1>2. /\ pc' = [pc EXCEPT ![c] = "calling"] /\ on' = [on EXCEPT ![c] = e]
      /\ frames'[c] = Chain(conn) /\ tries'[c] = 1 /\ e \in Ids /\ proc[e] \in {"open", "broken"}
      /\ pc \in [Callers -> CallStates] /\ on \in [Callers -> 0..MaxProcs]
  BY <1>1 DEF Send, WiringInv, TypeOK, IsOpen, FlaggedOpen, Ended
<1>3. \A D \in SUBSET Callers : Haunted(D)' \subseteq Haunted(D)
  BY <1>2 DEF Haunted
<1>4. Lost(c)' \subseteq {e} /\ (Lost(c)' # {} => proc[e] = "broken")
  <2>1. \A w \in frames'[c] : End[w] = e
    BY <1>2 DEF Chain
  <2>2. \A x \in Lost(c)' : x = e /\ proc[e] \in {"broken", "closed"}
    BY <1>1, <1>2, <2>1 DEF Lost, Dead
  <2> QED BY <1>2, <2>2
<1>5. Threats(c)' \subseteq Haunted(Callers)
  BY <1>3 DEF Threats, Haunted
<1>6. /\ Haunted(Callers) \in SUBSET Ids /\ Cardinality(Haunted(Callers)) \in Nat
      /\ Cardinality(Haunted(Callers)) <= faults /\ faults \in Nat /\ faults' = faults
  BY DebtSets DEF DebtInv
<1>7. /\ Cardinality(Lost(c)') \in Nat /\ Cardinality(Threats(c)') \in Nat
      /\ Cardinality(Threats(c)') <= Cardinality(Haunted(Callers))
  <2>1. Lost(c)' \in SUBSET Ids /\ Threats(c)' \in SUBSET Ids
    BY DEF Lost, Threats, Haunted, Dead
  <2> QED BY <1>5, <1>6, <2>1, Counts, CountSub
<1>8. ~ Repairing(c)'
  BY <1>2 DEF Repairing
<1>9. CASE Lost(c)' = {}
  <2>1. Cardinality(Lost(c)') = 0
    BY <1>9, FS_EmptySet
  <2> QED BY <1>2, <1>3, <1>6, <1>7, <1>8, <2>1 DEF Owes, Debt
<1>10. CASE Lost(c)' # {}
  <2>1. {e} \in SUBSET Ids /\ Cardinality({e}) = 1
    BY <1>2, FS_Singleton
  <2>2. Cardinality(Lost(c)') <= 1
    BY <1>4, <2>1, CountSub
  <2>3. {e} \subseteq Haunted(Callers)
    BY <1>2, <1>4, <1>10 DEF Haunted
  <2>4. 1 <= Cardinality(Haunted(Callers))
    BY <1>6, <2>1, <2>3, CountSub
  <2> QED BY <1>2, <1>3, <1>6, <1>7, <1>8, <2>2, <2>4 DEF Owes, Debt
<1> QED BY <1>9, <1>10

\* Repairing w pays for z, which is the process w had or w itself.
LEMMA SwapOwes ==
  ASSUME WiringInv, WiringInv', TidyInv, DebtInv, NEW c \in Callers, pc[c] = "calling",
         NEW w \in frames[c], NEW outer \in SUBSET frames[c], \A v \in outer : v <= w,
         SwapAt(c, w, outer), UNCHANGED <<cur, faults>>,
         NEW z \in Lost(c), z \in {w, End[w]}, Dead' \subseteq Dead \cup {End[w]},
         Haunted(Callers \ {c})' \subseteq Haunted(Callers \ {c}) \cup ({End[w]} \ {w})
  PROVE  Owes(c)'
<1>1. End' = End /\ Ended
  BY ChainsAreEnded, EndStays DEF WiringInv
<1>2. /\ pc'[c] = "closing" /\ by'[c] = w /\ frames'[c] = outer /\ tries'[c] = tries[c] /\ by[c] = 0
      /\ w \in Ids /\ frames[c] \subseteq Ids /\ w # 0
  BY Numbers DEF SwapAt, WiringInv, TypeOK, TidyInv, CallTidy, Repairing
<1>3. /\ \A v : ~ Follows(c, v)
      /\ \A v : Follows(c, v)' <=> v <= w /\ End[v] = End[w]
  BY <1>1, <1>2 DEF Follows
<1>4. \A v \in outer : ~ Follows(c, v)' => End[v] # End[w] /\ End[v] # w
  BY <1>1, <1>2, <1>3 DEF Ended
<1>5. ASSUME NEW x \in Lost(c)' PROVE x \in Lost(c) \ {z}
  <2>1. PICK v \in outer : ~ Follows(c, v)' /\ End[v] = x
    BY <1>1, <1>2, <1>5 DEF Lost
  <2>2. x \in Dead
    BY <1>4, <1>5, <2>1 DEF Lost
  <2> QED BY <1>3, <1>4, <2>1, <2>2 DEF Lost
<1>6. ASSUME NEW x \in Threats(c)' PROVE x \in Threats(c)
  <2>1. x \in Ids /\ x \in Haunted(Callers \ {c})'
    BY <1>6 DEF Threats, Haunted
  <2>2. CASE Follows(c, x)'
    <3>1. x <= w /\ End[x] = End[w]
      BY <1>3, <2>2
    <3>2. x = End[w] => x = w
      BY <1>1, <1>2, <2>1, <3>1, Numbers DEF Ended
    <3>3. x \in Haunted(Callers \ {c})
      BY <2>1, <3>2
    <3> QED BY <1>3, <3>1, <3>3 DEF Threats
  <2>3. CASE ~ Follows(c, x)'
    <3>1. PICK v \in outer : ~ Follows(c, v)' /\ End[v] = End[x]
      BY <1>1, <1>2, <1>6, <2>3 DEF Threats
    <3>2. x # End[w]
      BY <1>1, <1>2, <1>4, <2>1, <3>1 DEF Ended
    <3> QED BY <1>3, <2>1, <3>1, <3>2 DEF Threats
  <2> QED BY <2>2, <2>3
<1>7. Owes(c)
  BY DEF DebtInv, Owes
<1> QED BY <1>2, <1>5, <1>6, <1>7, DebtPaid

\* A result comes back: a wrapper on its way is repaired if its process is dead.
LEMMA ResultOwes ==
  ASSUME WiringInv, WiringInv', TidyInv, DebtInv, NEW c \in Callers, pc[c] = "calling",
         NEW states, Result(c, states), UNCHANGED <<cur, conn, pending, faults>>,
         \A x \in Ids : states[x] \in {"open", "broken"} \/ ~ Up(x) \/ proc[x] \in {"broken", "closed"},
         Dead' \subseteq Dead,
         \A D \in SUBSET Callers : Haunted(D)' \subseteq Haunted(D)
  PROVE  DebtInv'
<1> DEFINE closed == {w \in frames[c] : ~ FlaggedOpen(w, states)}
           w == Max(closed)
           outer == {v \in frames[c] : v <= w}
<1>1. CASE closed = {}
  <2>1. Over(c)
    BY <1>1 DEF Result
  <2>2. Owes(c)'
    BY <2>1 DEF Over, Owes, Repairing, WiringInv, TypeOK
  <2>3. \A d \in Callers : d = c \/ (Untouched(d) /\ tries'[d] = tries[d])
    BY <2>1 DEF Over, Untouched, WiringInv, TypeOK
  <2> QED BY <2>2, <2>3, CalmStep
<1>2. CASE closed # {}
  <2>1. SwapAt(c, w, outer)
    BY <1>2 DEF Result
  <2>2. w \in closed
    BY <1>2, LastFrame
  <2>3. w \in frames[c] /\ ~ FlaggedOpen(w, states)
    BY <2>2
  <2>4. w \in Ids /\ Up(w) /\ Up(End[w]) /\ End[w] \in Ids
    BY <2>3, ChainsAreEnded DEF WiringInv, TypeOK, Wired, Ended
  <2>5. End[w] \in Lost(c)
    <3>1. ~ Follows(c, w)
      BY DEF Follows, TidyInv, CallTidy, Repairing
    <3> QED BY <2>3, <2>4, <3>1 DEF FlaggedOpen, Lost, Dead
  <2>6. outer \in SUBSET frames[c] /\ \A v \in outer : v <= w
    OBVIOUS
  <2> HIDE DEF closed, w, outer
  <2>7. Owes(c)'
    BY <2>1, <2>3, <2>5, <2>6, SwapOwes
  <2>8. \A d \in Callers : d = c \/ (Untouched(d) /\ tries'[d] = tries[d])
    BY <2>1 DEF SwapAt, Untouched, WiringInv, TypeOK
  <2> QED BY <2>7, <2>8, CalmStep
<1> QED BY <1>1, <1>2

\* Two callers: c finds its process dead, repairs its wrapper, and closes what the other
\* one has made of it.
LEMMA ThrewClosedOwes ==
  ASSUME WiringInv, WiringInv', TidyInv, DebtInv, Pair, NEW c \in Callers, ThrewClosed(c)
  PROVE  DebtInv'
<1> DEFINE x == on[c]
           y == End[x]
           outer == frames[c] \ {x}
<1>0. /\ pc[c] = "calling" /\ x \in Ids /\ Max(frames[c]) = x /\ proc[x] \in {"broken", "closed"}
      /\ UNCHANGED <<cur, conn, pending, faults>> /\ x \in frames[c] /\ \A v \in outer : v <= x
  BY CallsEnd DEF ThrewClosed, CallEnds, TidyInv, CallTidy
<1>1. SwapAt(c, x, outer) /\ proc' = [proc EXCEPT ![x] = "closed", ![y] = "closed"]
  BY <1>0 DEF ThrewClosed
<1>2. Ended /\ y \in Ids /\ End[y] = y /\ End' = End
  BY <1>0, ChainsAreEnded, EndStays DEF Ended, WiringInv
<1>3. /\ proc'[x] = "closed" /\ proc'[y] = "closed"
      /\ \A q \in Ids : q # x /\ q # y => proc'[q] = proc[q]
      /\ Dead' \subseteq Dead \cup {y} /\ x \in Dead
  BY <1>0, <1>1, <1>2 DEF WiringInv, TypeOK, Dead
<1>4. /\ pc' = [pc EXCEPT ![c] = "closing"] /\ on' = [on EXCEPT ![c] = 0]
      /\ pc \in [Callers -> CallStates] /\ on \in [Callers -> 0..MaxProcs]
      /\ \A d \in Callers : d = c \/ (Untouched(d) /\ tries'[d] = tries[d])
  BY <1>1 DEF SwapAt, Untouched, WiringInv, TypeOK
<1>5. \A D \in SUBSET Callers : Haunted(D)' \subseteq Haunted(D) \cup {y}
  BY <1>0, <1>3, <1>4 DEF Haunted
<1>6. y = x => \A D \in SUBSET Callers : Haunted(D)' \subseteq Haunted(D)
  BY <1>0, <1>3, <1>4 DEF Haunted
<1>7. Owes(c)'
  <2>1. x \in Lost(c)
    BY <1>0, <1>3 DEF Lost
  <2>2. Haunted(Callers \ {c})' \subseteq Haunted(Callers \ {c}) \cup ({y} \ {x})
    <3>1. (Callers \ {c}) \in SUBSET Callers
      OBVIOUS
    <3> QED BY <1>5, <1>6, <3>1
  <2>3. outer \in SUBSET frames[c]
    OBVIOUS
  <2> HIDE DEF x, y, outer
  <2>4. Dead' \subseteq Dead \cup {End[x]} /\ Haunted(Callers \ {c})' \subseteq Haunted(Callers \ {c}) \cup ({End[x]} \ {x})
    BY <1>3, <2>2 DEF y
  <2> QED BY <1>0, <1>1, <2>1, <2>3, <2>4, SwapOwes
<1> HIDE DEF y
<1>8. CASE y \in Dead
  <2>1. Dead' \subseteq Dead
    BY <1>3, <1>8
  <2>2. \A D \in SUBSET Callers : Haunted(D)' \subseteq Haunted(D)
    BY <1>0, <1>3, <1>4, <1>8 DEF Haunted, Dead
  <2> QED BY <1>0, <1>4, <1>7, <2>1, <2>2, CalmStep
<1>9. CASE y \notin Dead
  <2>1. x # y /\ \A e \in Callers : pc[e] = "calling" /\ on[e] = x => ~ (on[e] = y)
    BY <1>3, <1>9
  <2>2. x \in Haunted(Callers) /\ Haunted(Callers) \in SUBSET Ids /\ Haunted(Callers)' \in SUBSET Ids
    BY <1>0 DEF Haunted
  <2>3. \/ Haunted(Callers)' \subseteq (Haunted(Callers) \ {x}) \cup {y}
        \/ Haunted(Callers)' \subseteq Haunted(Callers)
    <3>1. CASE \E d \in Callers : d # c /\ on[d] = x
      <4>1. \A e \in Callers : e # c => on[e] = x
        BY <3>1, PairOnly
      <4>2. y \notin Haunted(Callers)'
        BY <1>3, <1>4, <2>1, <4>1 DEF Haunted
      <4>3. Haunted(Callers)' \subseteq Haunted(Callers) \cup {y}
        BY <1>5
      <4> QED BY <4>2, <4>3
    <3>2. CASE \A d \in Callers : d # c => on[d] # x
      <4>1. x \notin Haunted(Callers)'
        BY <1>0, <1>3, <1>4, <3>2, Numbers DEF Haunted
      <4>2. Haunted(Callers)' \subseteq Haunted(Callers) \cup {y}
        BY <1>5
      <4> QED BY <4>1, <4>2
    <3> QED BY <3>1, <3>2
  <2>4. Cardinality(Haunted(Callers)') <= faults'
    <3>1. Cardinality(Haunted(Callers)') <= Cardinality(Haunted(Callers))
      BY <2>2, <2>3, CountSub, CountSwap
    <3>2. Cardinality(Haunted(Callers)) <= faults /\ Cardinality(Haunted(Callers)) \in Nat /\ faults \in Nat
      BY <2>2, Counts, PoolAssumption DEF DebtInv, WiringInv, TypeOK
    <3>3. Cardinality(Haunted(Callers)') \in Nat
      BY <2>2, Counts
    <3> QED BY <1>0, <3>1, <3>2, <3>3
  <2>5. ASSUME NEW d \in Callers, d # c PROVE Owes(d)'
    <3>1. Untouched(d) /\ tries'[d] = tries[d]
      BY <1>4, <2>5
    <3>2. CASE pc[d] = "calling" \/ Repairing(d)
      <4>1. Owes(d) /\ (Repairing(d)' => Repairing(d)) /\ faults' = faults
        BY <1>0, <3>1 DEF DebtInv, Owes, Repairing, Untouched
      <4>2. \A v : Follows(d, v)' <=> Follows(d, v)
        BY <1>2, <3>1 DEF Follows, Untouched
      <4>3. Haunted(Callers \ {d})' \subseteq Haunted(Callers \ {d}) \ {x}
        <5>1. \A e \in Callers \ {d} : e = c
          BY <2>5, PairOnly
        <5>2. \A q \in Haunted(Callers \ {d})' : proc'[q] = "broken"
          BY <1>4, <5>1 DEF Haunted
        <5>3. \A q \in Haunted(Callers \ {d})' : q # x /\ q # y /\ proc[q] = "broken"
          BY <1>3, <5>2 DEF Haunted
        <5> QED BY <5>3 DEF Haunted
      <4>4. Threats(d)' \subseteq Threats(d) \ {x}
        BY <1>2, <3>1, <4>2, <4>3 DEF Threats, Untouched
      <4>5. Lost(d)' \subseteq Lost(d) \cup {y}
        BY <1>2, <1>3, <3>1, <4>2 DEF Lost, Untouched
      <4>6. CASE y \in Lost(d)'
        <5>1. \E v \in frames[d] : ~ Follows(d, v) /\ End[v] = y
          <6>1. CASE pc'[d] = "calling" /\ y = on'[d]
            <7>1. y \in frames[d] /\ by[d] = 0
              BY <3>1, <6>1 DEF Untouched, TidyInv, CallTidy, Repairing
            <7> QED BY <1>2, <7>1 DEF Follows
          <6>2. CASE ~ (pc'[d] = "calling" /\ y = on'[d])
            BY <1>2, <3>1, <4>2, <4>6, <6>2 DEF Lost, Untouched
          <6> QED BY <6>1, <6>2
        <5>2. x \in Haunted(Callers \ {d})
          BY <1>0, <2>5 DEF Haunted
        <5>3. End[x] = y
          BY DEF y
        <5>4. x \in Threats(d)
          BY <5>1, <5>2, <5>3 DEF Threats
        <5> QED BY <3>1, <3>2, <4>1, <4>4, <4>5, <5>4, DebtFalls
      <4>7. CASE y \notin Lost(d)'
        BY <3>1, <3>2, <4>1, <4>4, <4>5, <4>7, DebtStays
      <4> QED BY <4>6, <4>7
    <3>3. CASE ~ (pc[d] = "calling" \/ Repairing(d))
      BY <3>1, <3>3 DEF Owes, Untouched, Repairing
    <3> QED BY <3>2, <3>3
  <2> QED BY <1>7, <2>4, <2>5 DEF DebtInv, Owes
<1> QED BY <1>8, <1>9

\* Two callers: every end of a call leaves the debts bounded.
LEMMA CallEndsOwes ==
  ASSUME WiringInv, WiringInv', TidyInv, DebtInv, Pair, NEW c \in Callers, CallEnds(c)
  PROVE  DebtInv'
<1>1. /\ pc[c] = "calling" /\ on[c] \in Ids /\ Up(on[c]) /\ UNCHANGED <<cur, conn, pending>>
      /\ proc \in [Ids -> ProcStates]
  BY CallsEnd DEF WiringInv, TypeOK
<1>2. ASSUME Over(c)
      PROVE  /\ \A d \in Callers : Owes(d)' \/ (Untouched(d) /\ tries'[d] = tries[d])
             /\ pc'[c] = "idle" /\ \A d \in Callers \ {c} : pc'[d] = pc[d] /\ on'[d] = on[d]
  BY <1>2 DEF Over, Owes, Repairing, Untouched, WiringInv, TypeOK
<1>3. ASSUME \A d \in Callers : pc'[d] = "calling" => pc[d] = "calling" /\ on'[d] = on[d],
             proc' = proc \/ proc' = [proc EXCEPT ![on[c]] = "closed"], proc[on[c]] = "broken" \/ proc' = proc
      PROVE  Dead' \subseteq Dead /\ \A D \in SUBSET Callers : Haunted(D)' \subseteq Haunted(D)
  BY <1>1, <1>3 DEF Dead, Haunted
<1>4. ASSUME NEW states, Result(c, states)
      PROVE  /\ \A d \in Callers : pc'[d] = "calling" => pc[d] = "calling" /\ on'[d] = on[d]
             /\ proc' = states
  <2>1. Over(c) \/ \E w, outer : SwapAt(c, w, outer)
    BY <1>4 DEF Result
  <2>2. \A d \in Callers : pc'[d] = "calling" => pc[d] = "calling" /\ on'[d] = on[d]
    BY <2>1 DEF Over, SwapAt, WiringInv, TypeOK
  <2> QED BY <1>4, <2>2 DEF Result
<1>5. CASE Answered(c)
  <2>1. Result(c, proc) /\ UNCHANGED <<cur, conn, pending, faults>>
    BY <1>5 DEF Answered
  <2>2. \A x \in Ids : proc[x] \in {"open", "broken"} \/ ~ Up(x) \/ proc[x] \in {"broken", "closed"}
    BY DEF Up
  <2> QED BY <1>1, <1>3, <1>4, <2>1, <2>2, ResultOwes
<1>6. CASE AnsweredClosed(c)
  <2> DEFINE states == [proc EXCEPT ![on[c]] = "closed"]
  <2>1. Result(c, states) /\ UNCHANGED <<cur, conn, pending, faults>> /\ proc[on[c]] = "broken"
    BY <1>6 DEF AnsweredClosed
  <2>2. \A x \in Ids : states[x] \in {"open", "broken"} \/ ~ Up(x) \/ proc[x] \in {"broken", "closed"}
    BY <1>1, <2>1 DEF Up
  <2>3. Dead' \subseteq Dead /\ \A D \in SUBSET Callers : Haunted(D)' \subseteq Haunted(D)
    BY <1>3, <1>4, <2>1
  <2> HIDE DEF states
  <2> QED BY <1>1, <2>1, <2>2, <2>3, ResultOwes
<1>7. CASE ThrewClosed(c)
  BY <1>7, ThrewClosedOwes
<1>8. CASE ThrewOther(c)
  <2>1. Over(c) /\ UNCHANGED <<proc, faults>>
    BY <1>8 DEF ThrewOther
  <2>2. Dead' \subseteq Dead /\ \A D \in SUBSET Callers : Haunted(D)' \subseteq Haunted(D)
    BY <1>2, <2>1 DEF Dead, Haunted
  <2> QED BY <1>1, <1>2, <2>1, <2>2, CalmStep
<1>9. CASE TimedOut(c)
  <2>1. Over(c) /\ proc' = [proc EXCEPT ![on[c]] = "closed"] /\ faults' = faults + 1
    BY <1>9 DEF TimedOut, Fault
  <2>2. /\ Dead' \subseteq Dead \cup {on[c]}
        /\ \A D \in SUBSET Callers : Haunted(D)' \subseteq Haunted(D) \cup {on[c]}
    BY <1>1, <1>2, <2>1 DEF Dead, Haunted
  <2> QED BY <1>1, <1>2, <2>1, <2>2, CalmStep
<1> QED BY <1>5, <1>6, <1>7, <1>8, <1>9 DEF CallEnds

\* p has started: a repair is over, and wrappers have gone to a process that lives.
LEMMA ConnectedOwes ==
  ASSUME WiringInv, WiringInv', TidyInv, TidyInv', DebtInv, NEW p \in Ids, Connected(p)
  PROVE  DebtInv'
<1>0. /\ Ended /\ Ended' /\ p # 0 /\ ~ Up(p) /\ faults \in Nat
      /\ proc \in [Ids -> ProcStates]
      /\ \A c \in Callers : frames[c] \in SUBSET Ids /\ by[c] \in Ids \cup {0}
  <2>1. ChainsRise'
    BY DEF WiringInv
  <2>2. Ended'
    BY <2>1, ChainsAreEnded, PTL
  <2> QED BY <2>2, ChainsAreEnded, Numbers, PoolAssumption DEF WiringInv, TypeOK, Connected, Up
<1>1. ConnectedEffect(p)
  BY ConnectedEffects
<1>2. proc[p] = "starting" /\ proc' = [proc EXCEPT ![p] = "open"] /\ faults' = faults
  BY <1>1 DEF ConnectedEffect
<1>3. Dead' = Dead /\ p \notin Dead
  BY <1>0, <1>2 DEF Dead
<1>4. \A D \in SUBSET Callers : Haunted(D)' \subseteq Haunted(D)
  <2> SUFFICES ASSUME NEW D \in SUBSET Callers, NEW x \in Haunted(D)' PROVE x \in Haunted(D)
    OBVIOUS
  <2>1. x \in Ids /\ x # p /\ proc'[x] = proc[x]
    BY <1>0, <1>2 DEF Haunted
  <2>2. ASSUME NEW d \in D, pc'[d] = "calling", on'[d] = x
        PROVE  pc[d] = "calling" /\ on[d] = x
    BY <1>1, <2>1, <2>2 DEF ConnectedEffect, Untouched
  <2> QED BY <2>1, <2>2 DEF Haunted
<1>5. ASSUME NEW c \in Getting(p) PROVE Owes(c)'
  <2>1. /\ c \in Callers /\ frames'[c] = {p} /\ pc'[c] = "calling" /\ by'[c] = 0 /\ on'[c] = p
        /\ tries'[c] = 1
    BY <1>1, <1>5 DEF ConnectedEffect, Getting, TidyInv, CallTidy, WiringInv, TypeOK
  <2>2. End'[p] = p
    <3>1. CASE Respawning(p) = {} /\ cur' = cur
      BY <1>0, <3>1, EndStays DEF Ended
    <3>2. ASSUME NEW e \in Callers, Repairer(p, e) PROVE End'[p] = p
      BY <1>0, <3>2, RepairedEnds DEF Ended
    <3> QED BY <3>1, <3>2, ConnectedEffects
  <2>3. Lost(c)' = {}
    BY <1>3, <2>1, <2>2 DEF Lost
  <2>4. Threats(c)' \subseteq Haunted(Callers)
    BY <1>4 DEF Threats, Haunted
  <2>5. /\ Cardinality(Haunted(Callers)) \in Nat /\ Cardinality(Haunted(Callers)) <= faults
        /\ Haunted(Callers) \in SUBSET Ids
    BY <2>1, DebtSets DEF DebtInv
  <2>6. Cardinality(Threats(c)') <= Cardinality(Haunted(Callers)) /\ Cardinality(Threats(c)') \in Nat
    <3>1. Threats(c)' \in SUBSET Ids
      BY DEF Threats, Haunted
    <3> QED BY <2>4, <2>5, <3>1, Counts, CountSub
  <2>7. Cardinality(Lost(c)') = 0 /\ ~ Repairing(c)'
    BY <2>1, <2>3, FS_EmptySet DEF Repairing
  <2> QED BY <1>0, <1>2, <2>1, <2>5, <2>6, <2>7 DEF Owes, Debt
<1>6. CASE Respawning(p) = {} /\ cur' = cur
  <2>1. \A c \in Callers : Owes(c)' \/ (Untouched(c) /\ tries'[c] = tries[c])
    BY <1>1, <1>5, <1>6 DEF ConnectedEffect
  <2> QED BY <1>2, <1>3, <1>4, <1>6, <2>1, CalmStep
<1>7. ASSUME NEW e \in Callers, Repairer(p, e) PROVE DebtInv'
  <2>1. \A w \in Ids : End'[w] = IF Follows(e, w) THEN p ELSE End[w]
    BY <1>0, <1>7, RepairedEnds
  <2>2. /\ by[e] \in Ids /\ by[e] # 0 /\ Respawning(p) = {e}
        /\ \A w \in Ids : Follows(e, w) <=> w <= by[e] /\ End[w] = End[by[e]]
    BY <1>7, Numbers DEF Repairer, Follows
  <2>3. \A w \in Ids : w # p => End[w] # p
    BY <1>0 DEF Ended
  <2>4. Cardinality(Haunted(Callers)') <= faults'
    <3>1. /\ Haunted(Callers) \in SUBSET Ids /\ Haunted(Callers)' \subseteq Haunted(Callers)
          /\ Cardinality(Haunted(Callers)) \in Nat /\ Cardinality(Haunted(Callers)) <= faults
      BY <1>4, <1>7, DebtSets DEF DebtInv
    <3>2. Cardinality(Haunted(Callers)') <= Cardinality(Haunted(Callers)) /\ Cardinality(Haunted(Callers)') \in Nat
      BY <3>1, Counts, CountSub
    <3> QED BY <1>0, <1>2, <3>1, <3>2
  <2>5. Owes(e)'
    <3>1. /\ pc[e] = "respawning" /\ pc'[e] = "calling" /\ by'[e] = 0 /\ on'[e] = p
          /\ tries'[e] = tries[e] + 1 /\ frames'[e] = (frames[e] \ {by[e]}) \cup {p}
      BY <1>1, <2>2 DEF ConnectedEffect, Respawning
    <3>2. \A w : ~ Follows(e, w)'
      BY <3>1 DEF Follows
    <3>3. ASSUME NEW x \in Lost(e)' PROVE x \in Lost(e)
      <4>1. x \in Dead /\ x # p
        BY <1>3 DEF Lost
      <4>2. PICK w \in frames'[e] : End'[w] = x
        BY <3>1, <4>1 DEF Lost
      <4>3. w # p
        BY <1>0, <2>1, <4>1, <4>2 DEF Ended
      <4>4. w \in frames[e] /\ w \in Ids
        BY <1>0, <3>1, <4>2, <4>3
      <4>5. ~ Follows(e, w) /\ End[w] = x
        BY <2>1, <4>1, <4>2, <4>4
      <4> QED BY <4>1, <4>4, <4>5 DEF Lost
    <3>4. ASSUME NEW x \in Threats(e)' PROVE x \in Threats(e)
      <4>1. x \in Ids /\ x \in Haunted(Callers \ {e}) /\ x # p
        <5>1. (Callers \ {e}) \in SUBSET Callers
          OBVIOUS
        <5> QED BY <1>0, <1>2, <1>4, <3>4, <5>1 DEF Threats, Haunted
      <4>2. PICK w \in frames'[e] : End'[w] = End'[x]
        BY <3>2, <3>4 DEF Threats
      <4>3. CASE Follows(e, x)
        BY <4>1, <4>3 DEF Threats
      <4>4. CASE ~ Follows(e, x)
        <5>1. End'[x] = End[x] /\ End[x] # p
          BY <2>1, <2>3, <4>1, <4>4
        <5>2. w # p
          BY <1>0, <2>1, <4>2, <5>1 DEF Ended
        <5>3. w \in frames[e] /\ w \in Ids
          BY <1>0, <3>1, <4>2, <5>2
        <5>4. ~ Follows(e, w) /\ End[w] = End[x]
          BY <2>1, <4>2, <5>1, <5>3
        <5> QED BY <4>1, <4>4, <5>3, <5>4 DEF Threats
      <4> QED BY <4>3, <4>4
    <3>5. Owes(e) /\ Repairing(e) /\ ~ Repairing(e)'
      BY <3>1 DEF DebtInv, Owes, Repairing
    <3>6. Owes(e)'
      BY <1>2, <3>1, <3>3, <3>4, <3>5, DebtStays
    <3> QED BY <3>6
  <2>6. ASSUME NEW d \in Callers, d \notin Getting(p), d # e PROVE Owes(d)'
    <3>1. Untouched(d) /\ tries'[d] = tries[d]
      BY <1>1, <2>2, <2>6 DEF ConnectedEffect
    <3>2. CASE pc[d] = "calling" \/ Repairing(d)
      <4>0. \A w \in frames[d] : w \in Ids /\ w # p
        BY <1>0 DEF WiringInv, Wired
      <4>1. by[d] # 0 => by[d] \in Ids /\ by[d] # p
        <5>1. by[d] # 0 => Repairing(d)
          BY DEF TidyInv, CallTidy
        <5> QED BY <1>0, <5>1 DEF WiringInv, Wired, Repairing
      <4>2. \A u, v \in Ids : u # p /\ v # p /\ End'[u] = End'[v] =>
              End[u] = End[v] /\ (Follows(e, u) <=> Follows(e, v))
        BY <2>1, <2>2, <2>3
      <4>3. \A v \in Ids : v # p /\ Follows(d, v)' => Follows(d, v)
        BY <3>1, <4>1, <4>2 DEF Follows, Untouched
      <4>4. \A v \in Ids : v # p /\ ~ Follows(d, v)' /\ Follows(d, v) => Follows(e, v) /\ ~ Follows(e, by[d])
        <5> SUFFICES ASSUME NEW v \in Ids, v # p, ~ Follows(d, v)', Follows(d, v)
                     PROVE  Follows(e, v) /\ ~ Follows(e, by[d])
          OBVIOUS
        <5>1. by[d] # 0 /\ v <= by[d] /\ End[v] = End[by[d]] /\ by[d] \in Ids
          BY <4>1 DEF Follows
        <5>2. End'[v] # End'[by[d]]
          BY <3>1, <5>1 DEF Follows, Untouched
        <5>3. Follows(e, by[d]) => Follows(e, v)
          BY <2>2, <5>1, Numbers
        <5> QED BY <2>1, <5>1, <5>2, <5>3
      <4>5. ASSUME NEW x \in Lost(d)' PROVE x \in Lost(d)
        <5>1. x \in Dead /\ x # p
          BY <1>3 DEF Lost
        <5>2. CASE pc'[d] = "calling" /\ x = on'[d]
          BY <3>1, <5>1, <5>2 DEF Lost, Untouched
        <5>3. ASSUME NEW w \in frames[d], ~ Follows(d, w)', End'[w] = x PROVE x \in Lost(d)
          <6>1. ~ Follows(e, w) /\ End[w] = x
            BY <2>1, <4>0, <5>1, <5>3
          <6>2. ~ Follows(d, w)
            BY <4>0, <4>4, <5>3, <6>1
          <6> QED BY <5>1, <6>1, <6>2 DEF Lost
        <5> QED BY <3>1, <4>5, <5>2, <5>3 DEF Lost, Untouched
      <4>6. ASSUME NEW x \in Threats(d)' PROVE x \in Threats(d)
        <5>1. x \in Ids /\ x \in Haunted(Callers \ {d}) /\ x # p
          <6>1. (Callers \ {d}) \in SUBSET Callers
            OBVIOUS
          <6> QED BY <1>0, <1>2, <1>4, <4>6, <6>1 DEF Threats, Haunted
        <5>2. CASE Follows(d, x)
          BY <5>1, <5>2 DEF Threats
        <5>3. CASE ~ Follows(d, x)
          <6>1. ~ Follows(d, x)'
            BY <4>3, <5>1, <5>3
          <6>2. PICK w \in frames[d] : ~ Follows(d, w)' /\ End'[w] = End'[x]
            BY <3>1, <4>6, <6>1 DEF Threats, Untouched
          <6>3. End[w] = End[x] /\ (Follows(e, w) <=> Follows(e, x))
            BY <4>0, <4>2, <5>1, <6>2
          <6>4. ~ Follows(d, w)
            <7> SUFFICES ASSUME Follows(d, w) PROVE FALSE
              OBVIOUS
            <7>1. Follows(e, w) /\ ~ Follows(e, by[d])
              BY <4>0, <4>4, <6>2
            <7>2. by[d] \in Ids /\ by[d] # 0 /\ w <= by[d] /\ End[w] = End[by[d]]
              BY <4>1 DEF Follows
            <7>3. x <= by[e] /\ End[x] = End[by[e]] /\ End[by[d]] = End[by[e]]
              BY <2>2, <4>0, <5>1, <6>3, <7>1, <7>2
            <7>4. ~ (by[d] <= by[e]) /\ ~ (x <= by[d])
              BY <2>2, <5>3, <6>3, <7>1, <7>2, <7>3 DEF Follows
            <7> QED BY <2>2, <5>1, <7>2, <7>3, <7>4, Numbers
          <6> QED BY <5>1, <5>3, <6>3, <6>4 DEF Threats
        <5> QED BY <5>2, <5>3
      <4>7. Owes(d) /\ (Repairing(d)' => Repairing(d))
        BY <3>1 DEF DebtInv, Owes, Repairing, Untouched
      <4> QED BY <1>2, <3>1, <3>2, <4>5, <4>6, <4>7, DebtStays
    <3>3. CASE ~ (pc[d] = "calling" \/ Repairing(d))
      BY <3>1, <3>3 DEF Owes, Untouched, Repairing
    <3> QED BY <3>2, <3>3
  <2> QED BY <1>5, <2>4, <2>5, <2>6 DEF DebtInv, Owes
<1> QED BY <1>6, <1>7, ConnectedEffects

\* Two callers: p does not start.  Whoever goes on to an outer wrapper closes one process.
LEMMA FailedOwes ==
  ASSUME WiringInv, WiringInv', TidyInv, DebtInv, Pair, NEW p \in Ids, ConnectFails(p)
  PROVE  DebtInv'
<1>1. PICK again \in SUBSET Respawning(p) : FailedEffect(p, again)
  BY FailedEffects
<1> DEFINE K == {End[Max(frames[d])] : d \in again}
<1>2. /\ Ended /\ End' = End /\ UNCHANGED cur /\ faults \in Nat /\ faults' = faults + 1
      /\ ~ Up(p) /\ p # 0
      /\ \A d \in again : d \in Callers /\ pc[d] = "respawning" /\ pc'[d] = "closing"
      /\ \A d \in Callers : pc'[d] = "calling" => Untouched(d) /\ d \notin again
  <2>1. Ended /\ End' = End /\ UNCHANGED cur
    BY <1>1, ChainsAreEnded, EndStays DEF FailedEffect, WiringInv
  <2>2. proc[p] = "starting" /\ faults' = faults + 1
    BY <1>1 DEF FailedEffect, Fault
  <2>3. ~ Up(p) /\ p # 0 /\ faults \in Nat
    BY <2>2, Numbers, PoolAssumption DEF Up, WiringInv, TypeOK
  <2>4. ASSUME NEW d \in again
        PROVE  d \in Callers /\ pc[d] = "respawning" /\ pc'[d] = "closing"
    <3>1. d \in Callers /\ pc[d] = "respawning"
      BY <1>1 DEF FailedEffect, Respawning
    <3> QED BY <1>1, <3>1 DEF FailedEffect
  <2>5. ASSUME NEW d \in Callers, pc'[d] = "calling"
        PROVE  Untouched(d) /\ d \notin again
    BY <1>1, <2>5 DEF FailedEffect
  <2> QED BY <2>1, <2>2, <2>3, <2>4, <2>5
<1>3. /\ \A q \in Ids : q # p /\ q \notin K => proc'[q] = proc[q]
      /\ proc'[p] = "closed" /\ \A q \in K : q \in Ids /\ proc'[q] = "closed" /\ Up(q)
  BY <1>1 DEF FailedEffect
<1>4. \A d \in Callers : pc'[d] = "calling" => on[d] # p /\ on'[d] = on[d] /\ pc[d] = "calling"
  BY <1>2 DEF Untouched, WiringInv, Wired
<1>5. ASSUME NEW c \in Callers, NEW w \in Ids, End[w] = p PROVE w \notin frames[c]
  BY <1>2, <1>5 DEF Ended, WiringInv, Wired
<1> HIDE DEF K
<1>6. ASSUME NEW D \in SUBSET Callers
      PROVE  /\ Haunted(D)' \subseteq Haunted(D) \cup K
             /\ (\A d \in D : pc'[d] # "calling") => Haunted(D)' \subseteq Haunted(D)
  BY <1>3, <1>4 DEF Haunted
<1>7. ASSUME NEW d \in again, NEW e \in Callers, pc'[e] = "calling"
      PROVE  \A f \in Callers : f = d \/ f = e
  BY <1>2, <1>7, PairOnly
<1>8. \E k : Haunted(Callers)' \subseteq Haunted(Callers) \cup {k}
  <2>1. CASE \A d \in Callers : pc'[d] # "calling"
    BY <1>6, <2>1
  <2>2. CASE again = {}
    <3>1. K = {}
      BY <2>2 DEF K
    <3> QED BY <1>6, <3>1
  <2>3. ASSUME NEW d \in again, NEW e \in Callers, pc'[e] = "calling"
        PROVE  \E k : Haunted(Callers)' \subseteq Haunted(Callers) \cup {k}
    <3>1. again = {d}
      BY <1>2, <1>7, <2>3
    <3>2. K = {End[Max(frames[d])]}
      BY <3>1 DEF K
    <3> QED BY <1>6, <3>2
  <2> QED BY <2>1, <2>2, <2>3
<1>9. Cardinality(Haunted(Callers)') <= faults'
  <2>1. PICK k : Haunted(Callers)' \subseteq Haunted(Callers) \cup {k}
    BY <1>8
  <2>2. /\ Haunted(Callers) \in SUBSET Ids /\ Haunted(Callers)' \in SUBSET Ids
        /\ Cardinality(Haunted(Callers)) <= faults
    BY DEF Haunted, DebtInv
  <2>3. Cardinality(Haunted(Callers)) \in Nat /\ Cardinality(Haunted(Callers)') \in Nat
    BY <2>2, Counts
  <2>4. Cardinality(Haunted(Callers)') <= Cardinality(Haunted(Callers)) + 1
    BY <2>1, <2>2, CountAdd
  <2> QED BY <1>2, <2>2, <2>3, <2>4
\* A call that was not waiting for p.
<1>10. ASSUME NEW c \in Callers, Untouched(c), tries'[c] = tries[c], c \notin again,
              pc[c] = "calling" \/ Repairing(c)
       PROVE  Owes(c)'
  <2>1. \A v : Follows(c, v)' <=> Follows(c, v)
    BY <1>2, <1>10 DEF Follows, Untouched
  <2>2. \E k : K \subseteq {k}
    <3>1. \A d, e \in again : d = e
      BY <1>2, <1>10, PairOnly
    <3> QED BY <3>1 DEF K
  <2>3. PICK k : K \subseteq {k}
    BY <2>2
  <2>4. Lost(c)' \subseteq Lost(c) \cup {k}
    <3> SUFFICES ASSUME NEW x \in Lost(c)', x # k PROVE x \in Lost(c)
      OBVIOUS
    <3>1. x \in Ids /\ x \notin K /\ proc'[x] \in {"broken", "closed"}
      BY <2>3 DEF Lost, Dead
    <3>2. pc'[c] = "calling" /\ x = on'[c] => x # p
      BY <1>4
    <3>3. (\E w \in frames[c] : End[w] = x) => x # p
      BY <1>5 DEF WiringInv, TypeOK
    <3>4. x # p
      BY <1>2, <1>10, <3>2, <3>3 DEF Lost, Untouched
    <3>5. x \in Dead
      BY <1>3, <3>1, <3>4 DEF Dead
    <3> QED BY <1>2, <1>10, <2>1, <3>5 DEF Lost, Untouched
  <2>5. Threats(c)' \subseteq Threats(c) \cup {k}
    <3>1. Haunted(Callers \ {c})' \subseteq Haunted(Callers \ {c}) \cup {k}
      <4>1. (Callers \ {c}) \in SUBSET Callers
        OBVIOUS
      <4> QED BY <1>6, <2>3, <4>1
    <3> QED BY <1>2, <1>10, <2>1, <3>1 DEF Threats, Untouched
  <2>6. Owes(c) /\ (Repairing(c)' => Repairing(c))
    BY <1>10 DEF DebtInv, Owes, Untouched, Repairing
  <2> QED BY <1>2, <1>10, <2>4, <2>5, <2>6, DebtGrows
\* A call that goes on to the repair of an outer wrapper.
<1>11. ASSUME NEW c \in again, pc'[c] = "closing", by'[c] = Max(frames[c]), tries'[c] = tries[c],
              frames'[c] = frames[c] \ {Max(frames[c])}
       PROVE  Owes(c)'
  <2> DEFINE w == Max(frames[c])
             b == by[c]
  <2>1. /\ c \in Callers /\ pc[c] = "respawning" /\ w \in frames[c] /\ w \in Ids /\ w # 0
        /\ End[w] \in Ids /\ frames[c] \subseteq Ids /\ b \in Ids /\ b # 0 /\ w <= b
    <3>1. c \in Callers /\ pc[c] = "respawning" /\ w \in frames[c]
      BY <1>1, <1>2 DEF FailedEffect
    <3>2. frames[c] \subseteq Ids /\ b \in Ids /\ b # 0 /\ w <= b
      BY <3>1, Numbers DEF WiringInv, TypeOK, Wired, TidyInv, CallTidy, Repairing
    <3> QED BY <1>2, <3>1, <3>2, Numbers DEF Ended
  <2>2. \A v \in frames[c] : v <= w
    BY <2>1, LastFrame
  <2>3. /\ \A v : Follows(c, v) <=> v <= b /\ End[v] = End[b]
        /\ \A v : Follows(c, v)' <=> v <= w /\ End[v] = End[w]
    BY <1>2, <1>11, <2>1 DEF Follows
  <2> HIDE DEF w
  <2>4. ASSUME NEW v \in frames[c], ~ Follows(c, v)' PROVE ~ Follows(c, v) /\ End[v] # End[w]
    <3>1. v <= w /\ v # w /\ End[v] # End[w] /\ v \in Ids
      BY <2>1, <2>2, <2>3, <2>4
    <3>2. CASE w = b
      BY <2>3, <3>1, <3>2
    <3>3. CASE w # b
      <4>1. v < w /\ w < b
        BY <2>1, <3>1, <3>3, Numbers
      <4>2. b \in frames[c] \cup ({by[c]} \ {0})
        BY <2>1
      <4>3. End[v] = End[b] => End[w] = End[b]
        BY <2>1, <4>1, <4>2 DEF TidyInv, CallTidy
      <4> QED BY <2>3, <3>1, <4>3
    <3> QED BY <3>2, <3>3
  <2>5. \E k : \A q \in K : q = k \/ q = End[w]
    <3>1. \A d, e \in again \ {c} : d = e
      BY <1>2, <2>1, PairOnly
    <3>2. CASE again = {c}
      BY <3>2 DEF K, w
    <3>3. ASSUME NEW d \in again \ {c} PROVE \A q \in K : q = End[Max(frames[d])] \/ q = End[w]
      BY <3>1, <3>3 DEF K, w
    <3> QED BY <3>2, <3>3
  <2>6. PICK k : \A q \in K : q = k \/ q = End[w]
    BY <2>5
  <2>7. Lost(c)' \subseteq Lost(c) \cup {k}
    <3> SUFFICES ASSUME NEW x \in Lost(c)', x # k PROVE x \in Lost(c)
      OBVIOUS
    <3>1. PICK v \in frames[c] : ~ Follows(c, v)' /\ End[v] = x
      BY <1>2, <1>11, <2>1 DEF Lost, w
    <3>2. ~ Follows(c, v) /\ x # End[w]
      BY <2>4, <3>1
    <3>3. x \in Ids /\ x \notin K /\ x # p /\ proc'[x] \in {"broken", "closed"}
      BY <1>5, <2>1, <2>6, <3>1, <3>2 DEF Lost, Dead
    <3>4. x \in Dead
      BY <1>3, <3>3 DEF Dead
    <3> QED BY <3>1, <3>2, <3>4 DEF Lost
  <2>8. Haunted(Callers \ {c})' \subseteq Haunted(Callers \ {c}) \cup {End[w]}
    <3>0. (Callers \ {c}) \in SUBSET Callers
      OBVIOUS
    <3>1. CASE \A d \in Callers \ {c} : pc'[d] # "calling"
      BY <1>6, <3>0, <3>1
    <3>2. ASSUME NEW e \in Callers \ {c}, pc'[e] = "calling"
          PROVE  K \subseteq {End[w]}
      <4>1. again = {c}
        BY <1>2, <1>7, <3>2
      <4> QED BY <4>1 DEF K, w
    <3> QED BY <1>6, <3>0, <3>1, <3>2
  <2>9. Threats(c)' \subseteq Threats(c) \cup {End[w]}
    <3> SUFFICES ASSUME NEW x \in Threats(c)', x # End[w] PROVE x \in Threats(c)
      OBVIOUS
    <3>1. x \in Ids /\ x \in Haunted(Callers \ {c})
      BY <2>8 DEF Threats, Haunted
    <3>2. CASE Follows(c, x)
      BY <3>1, <3>2 DEF Threats
    <3>3. CASE ~ Follows(c, x) /\ Follows(c, x)'
      <4>1. x <= w /\ End[x] = End[w]
        BY <2>3, <3>3
      <4>2. ~ Follows(c, w)
        BY <2>1, <2>3, <3>1, <3>3, <4>1, Numbers
      <4> QED BY <2>1, <3>1, <3>3, <4>1, <4>2 DEF Threats
    <3>4. CASE ~ Follows(c, x) /\ ~ Follows(c, x)'
      <4>1. PICK v \in frames[c] : ~ Follows(c, v)' /\ End[v] = End[x]
        BY <1>2, <1>11, <3>4 DEF Threats
      <4> QED BY <2>4, <3>1, <3>4, <4>1 DEF Threats
    <3> QED BY <3>2, <3>3, <3>4
  <2>10. Owes(c) /\ Repairing(c)
    BY <2>1 DEF DebtInv, Owes, Repairing
  <2> QED BY <1>2, <1>11, <2>1, <2>7, <2>9, <2>10, DebtGrows
<1>12. ASSUME NEW c \in Callers PROVE Owes(c)'
  <2>1. CASE pc'[c] = "idle"
    BY <2>1 DEF Owes, Repairing
  <2>2. CASE Untouched(c) /\ tries'[c] = tries[c] /\ c \notin again
    <3>1. CASE pc[c] = "calling" \/ Repairing(c)
      BY <1>10, <2>2, <3>1
    <3>2. CASE ~ (pc[c] = "calling" \/ Repairing(c))
      BY <2>2, <3>2 DEF Owes, Untouched, Repairing
    <3> QED BY <3>1, <3>2
  <2> QED BY <1>1, <1>11, <2>1, <2>2 DEF FailedEffect
<1> QED BY <1>9, <1>12 DEF DebtInv, Owes

\* Two callers: no step makes more debts than its failure allows.
LEMMA NextKeepsDebts ==
  Pair /\ WiringInv /\ WiringInv' /\ TidyInv /\ TidyInv' /\ DebtInv /\ [Next]_vars => DebtInv'
<1> SUFFICES ASSUME Pair, WiringInv, WiringInv', TidyInv, TidyInv', DebtInv, [Next]_vars
             PROVE  DebtInv'
  OBVIOUS
<1>0. /\ proc \in [Ids -> ProcStates] /\ (conn # 0 => conn \in Ids /\ Up(conn)) /\ Ended
      /\ pc \in [Callers -> CallStates] /\ on \in [Callers -> 0..MaxProcs]
  BY ChainsAreEnded, Numbers DEF WiringInv, TypeOK
<1>1. ASSUME NEW c \in Callers, NEW state \in {"getting", "respawning"}, Spawn(c, state),
             UNCHANGED <<cur, by, frames, tries, faults>>,
             state = "respawning" => pc[c] = "closing"
      PROVE  DebtInv'
  <2>1. PICK p \in Ids : /\ proc[p] = "none" /\ proc' = [proc EXCEPT ![p] = "starting"]
                         /\ pc' = [pc EXCEPT ![c] = state] /\ on' = [on EXCEPT ![c] = p]
    BY <1>1 DEF Spawn
  <2>2. Dead' \subseteq Dead /\ \A D \in SUBSET Callers : Haunted(D)' \subseteq Haunted(D)
    BY <1>0, <2>1 DEF Dead, Haunted
  <2>3. pc'[c] = state /\ \A d \in Callers \ {c} : Untouched(d) /\ tries'[d] = tries[d]
    BY <1>0, <1>1, <2>1 DEF Untouched
  <2>4. CASE state = "getting"
    <3>1. Owes(c)'
      BY <2>3, <2>4 DEF Owes, Repairing
    <3> QED BY <1>1, <2>2, <2>3, <3>1, CalmStep
  <2>5. CASE state = "respawning"
    <3>1. Owes(c) /\ Repairing(c) /\ pc'[c] = "respawning" /\ pc[c] = "closing"
      BY <1>1, <2>3, <2>5 DEF DebtInv, Owes, Repairing
    <3>2. End' = End /\ \A v : Follows(c, v)' <=> Follows(c, v)
      BY <1>1, EndStays DEF Follows
    <3>3. Lost(c)' \subseteq Lost(c)
      BY <1>1, <2>2, <3>1, <3>2 DEF Lost
    <3>4. Threats(c)' \subseteq Threats(c)
      <4>1. (Callers \ {c}) \in SUBSET Callers
        OBVIOUS
      <4> QED BY <1>1, <2>2, <3>2, <4>1 DEF Threats
    <3>5. Owes(c)'
      BY <1>1, <3>1, <3>3, <3>4, DebtStays
    <3> QED BY <1>1, <2>2, <2>3, <3>5, CalmStep
  <2> QED BY <2>4, <2>5
<1>2. ASSUME NEW c \in Callers, Get(c) PROVE DebtInv'
  <2>1. UNCHANGED <<cur, faults>> /\ pc[c] = "idle"
    BY <1>2 DEF Get
  <2>2. CASE conn # 0 /\ IsOpen(conn) /\ Send(c, conn) /\ UNCHANGED <<proc, pending>>
    <3>1. Owes(c)' /\ \A D \in SUBSET Callers : Haunted(D)' \subseteq Haunted(D)
      BY <1>0, <2>1, <2>2, SendOwes
    <3>2. Dead' \subseteq Dead /\ \A d \in Callers \ {c} : Untouched(d) /\ tries'[d] = tries[d]
      BY <2>2 DEF Dead, Send, Untouched, WiringInv, TypeOK
    <3> QED BY <2>1, <3>1, <3>2, CalmStep
  <2>3. CASE /\ UNCHANGED <<by, frames, tries, proc>>
             /\ pc' = [pc EXCEPT ![c] = "getting"] /\ on' = [on EXCEPT ![c] = pending]
    <3>1. Owes(c)' /\ Dead' \subseteq Dead
      BY <1>0, <2>3 DEF Owes, Repairing, Dead
    <3>2. \A D \in SUBSET Callers : Haunted(D)' \subseteq Haunted(D)
      BY <1>0, <2>3 DEF Haunted
    <3>3. \A d \in Callers \ {c} : Untouched(d) /\ tries'[d] = tries[d]
      BY <1>0, <2>3 DEF Untouched
    <3> QED BY <2>1, <3>1, <3>2, <3>3, CalmStep
  <2> QED BY <1>1, <1>2, <2>1, <2>2, <2>3 DEF Get
<1>3. ASSUME NEW c \in Callers, Respawn(c) PROVE DebtInv'
  BY <1>1, <1>3 DEF Respawn
<1>4. ASSUME NEW Z, UNCHANGED <<cur, callVars>>,
             (Z = {} /\ faults' = faults) \/ (\E z : Z = {z} /\ faults' = faults + 1),
             \A q \in Ids \ Z : proc'[q] = proc[q]
      PROVE  DebtInv'
  <2>1. \A d \in Callers : Untouched(d) /\ tries'[d] = tries[d]
    BY <1>4 DEF callVars, Untouched
  <2>2. Dead' \subseteq Dead \cup Z /\ \A D \in SUBSET Callers : Haunted(D)' \subseteq Haunted(D) \cup Z
    BY <1>4 DEF Dead, Haunted, callVars
  <2>3. UNCHANGED cur
    BY <1>4
  <2> QED BY <1>4, <2>1, <2>2, <2>3, CalmStep
<1>5. ASSUME NEW p \in Ids, Breaks(p) PROVE DebtInv'
  <2>1. \A q \in Ids \ {p} : proc'[q] = proc[q]
    BY <1>0, <1>5 DEF Breaks
  <2> QED BY <1>4, <1>5, <2>1 DEF Breaks, Fault
<1>6. ASSUME CloseAll PROVE DebtInv'
  <2>1. \A q \in Ids \ {End[conn]} : proc'[q] = proc[q]
    BY <1>0, <1>6 DEF CloseAll, Shut
  <2> QED BY <1>4, <1>6, <2>1 DEF CloseAll, Fault
<1>7. ASSUME UNCHANGED vars PROVE DebtInv'
  BY <1>4, <1>7 DEF vars
<1> QED BY <1>2, <1>3, <1>5, <1>6, <1>7, CallEndsOwes, ConnectedOwes, FailedOwes DEF Next

(* With two callers each failure makes a caller send its call again at most *)
(* twice: its own wrapper repairs itself, and the repair of the other one  *)
(* may close the process on which it tries again.  With three there is no  *)
(* bound: one can keep repairing while the others, in turn, come back and  *)
(* close what it has started.                                              *)
RetriesAreFaults == Pair => \A c \in Callers : tries[c] <= 1 + 2 * faults

(* Between two callers a failure makes a call be sent again at most twice,  *)
(* however many processes there are and in whatever order repairs, closes  *)
(* and shared starts meet.                                                 *)
THEOREM FailuresBoundRetries == Spec => []RetriesAreFaults
<1>1. CASE Pair
  <2>1. Init => DebtInv
    <3> SUFFICES ASSUME Init PROVE DebtInv
      OBVIOUS
    <3>1. Haunted(Callers) = {} /\ faults = 0
      BY DEF Init, Haunted
    <3>2. Cardinality(Haunted(Callers)) = 0
      BY <3>1, FS_EmptySet
    <3> QED BY <3>1, <3>2 DEF Init, DebtInv, Repairing
  <2>2. WiringInv /\ TidyInv /\ DebtInv => RetriesAreFaults
    <3> SUFFICES ASSUME WiringInv, TidyInv, DebtInv, NEW c \in Callers
                 PROVE  tries[c] <= 1 + 2 * faults
      BY DEF RetriesAreFaults
    <3>1. /\ Cardinality(Lost(c)) \in Nat /\ Cardinality(Threats(c)) \in Nat
          /\ tries[c] \in Nat /\ faults \in Nat
      BY DebtSets
    <3>2. CASE pc[c] = "calling" \/ Repairing(c)
      BY <3>1, <3>2 DEF DebtInv, Debt
    <3>3. CASE ~ (pc[c] = "calling" \/ Repairing(c))
      <4>1. tries[c] = 0
        BY <3>3 DEF TidyInv, CallTidy, Repairing, WiringInv, TypeOK, CallStates
      <4> QED BY <3>1, <4>1
    <3> QED BY <3>2, <3>3
  <2>3. WiringInv /\ WiringInv' /\ TidyInv /\ TidyInv' /\ DebtInv /\ [Next]_vars => DebtInv'
    BY <1>1, NextKeepsDebts
  <2> QED BY <2>1, <2>2, <2>3, WiringHolds, TidyHolds, PTL DEF Spec
<1>2. CASE ~ Pair
  <2>1. RetriesAreFaults
    BY <1>2 DEF RetriesAreFaults
  <2> QED BY <2>1, PTL
<1> QED BY <1>1, <1>2
=============================================================================
