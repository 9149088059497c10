------------------------ MODULE ApprovalsCarefulProofs ------------------------
(***************************************************************************)
(* What holds where one request of a run is open at a time (Careful), for  *)
(* every set of calls, scopes, executors and crashes: one chain drives the *)
(* run, its end is final, and a run that waits can be answered.            *)
(***************************************************************************)
EXTENDS ApprovalsProofs

\* What a chain of the run may be doing.
ExecOK(e) ==
    /\ exec[e].pc # "again"
    /\ exec[e].pc \in {"thinking", "acting"} =>
          \/ status = "running" /\ ctrl = e /\ ~exec[e].aborted
          \/ Terminal(status) /\ exec[e].aborted
    /\ exec[e].pc \in {"settling", "publishing"} =>
          Terminal(status) \/ (status = "running" /\ ctrl = e)
    /\ exec[e].pc = "resuming" => Terminal(status) \/ status = "waiting_for_approval"
    /\ exec[e].pc \in {"thinking", "settling", "publishing", "resuming"} =>
          Pending = {} /\ flight = {}
    /\ exec[e].pc = "acting" =>
          /\ flight \subseteq exec[e].batch
          /\ status = "running" /\ (\E c \in exec[e].batch : result[c] = "waits") =>
                Pending # {}
    /\ exec[e].pc = "idle" => exec[e].todo = {}
    /\ \A c \in exec[e].todo : step[c] = "waiting" /\ row[asks[c]] \in Approved

OneChain == \A e, f \in Busy : e = f

\* What the status of the run says of its requests and of the calls at a gate.
RunOK ==
    /\ ~deferred
    /\ status = "none" => Busy = {} /\ Pending = {} /\ flight = {}
    /\ status = "waiting_for_approval" =>
          flight = {} /\ (crashes = 0 => Pending # {} \/ Busy # {})
    /\ \A c, d \in Pending \cup flight : shape.scope[c] = shape.scope[d]

\* How rows, steps and executions of the calls go together.
CallOK(c) ==
    /\ row[c] # "none" => asks[c] = c
    /\ asks[c] # None => row[asks[c]] # "none"
    /\ step[c] = "waiting" => asks[c] # None
    /\ asks[c] # None /\ row[asks[c]] = "pending" => step[c] = "waiting"
    /\ ran[c] <= 1
    /\ row[c] \in {"rejected", "deleted"} => Terminal(status)
    /\ c \in flight \cup unused => asks[c] = None
    /\ c \in unused => result[c] # "waits"

CallsOK == /\ \A c \in Calls : CallOK(c)
           /\ allowed # {} => \E d \in Calls : row[d] \in Approved

CInv == Careful => OneChain /\ RunOK /\ CallsOK /\ \A e \in Execs : ExecOK(e)

\* An ended run stays ended in this step.
StaysEnded == Careful /\ Terminal(status) => Terminal(status')

-----------------------------------------------------------------------------
(* Chains.                                                                 *)

\* One chain takes a step or begins while there is none: the others are idle.
LEMMA OneMoves ==
  ASSUME UInv, OneChain, \A f \in Execs : ExecOK(f),
         NEW e \in Execs, NEW x, SetExec(e, x), exec[e].pc # "idle" \/ Busy = {}
  PROVE  /\ exec'[e] = x
         /\ \A f \in Execs : f # e => exec'[f].pc = "idle" /\ exec'[f].todo = {}
         /\ OneChain'
         /\ Busy' = IF x.pc = "idle" THEN {} ELSE {e}
<1>1. \A f \in Execs : exec'[f] = IF f = e THEN x ELSE exec[f]
  BY DEF SetExec, UInv, TypeOK
<1>2. \A f \in Execs : f # e => exec[f].pc = "idle"
  BY DEF OneChain, Busy
<1>3. \A f \in Execs : f # e => exec'[f].pc = "idle" /\ exec'[f].todo = {}
  BY <1>1, <1>2 DEF ExecOK
<1>4. Busy' = IF x.pc = "idle" THEN {} ELSE {e}
  BY <1>1, <1>3 DEF Busy
<1> QED BY <1>1, <1>3, <1>4 DEF OneChain

\* An idle executor is fine.
LEMMA IdleIsFine ==
  ASSUME NEW f \in Execs, exec'[f].pc = "idle", exec'[f].todo = {}
  PROVE  ExecOK(f)'
BY DEF ExecOK

(***************************************************************************)
(* A turn that leaves rows, steps and calls alone: it goes on with nothing *)
(* open, or pauses with a request, or ends with the run.                   *)
(***************************************************************************)
LEMMA QuietTurnKeeps ==
  ASSUME UInv, CInv, Careful, NEW e \in Execs, NEW x, SetExec(e, x),
         UNCHANGED turnUnchanged, ~deferred', status' # "none",
         exec[e].pc # "idle" \/ Busy = {},
         Terminal(status) => Terminal(status'),
         \/ /\ x.pc = "idle" /\ x.todo = {}
            /\ \/ Terminal(status')
               \/ status' = "waiting_for_approval" /\ flight = {} /\ Pending # {}
         \/ /\ x.pc \in {"thinking", "settling", "publishing"} /\ ~x.aborted /\ x.todo = {}
            /\ Pending = {} /\ flight = {}
            /\ \/ status' = "running" /\ ctrl' = e
               \/ x.pc = "publishing" /\ Terminal(status')
  PROVE  CInv' /\ StaysEnded
<1>1. OneChain /\ RunOK /\ CallsOK /\ \A f \in Execs : ExecOK(f)
  BY DEF CInv
<1>2. /\ UNCHANGED <<shape, row, step, asks, result, unused, flight, allowed, ran, crashes>>
      /\ Pending' = Pending
  BY DEF turnUnchanged, Pending
<1>3. /\ exec'[e] = x /\ OneChain'
      /\ \A f \in Execs : f # e => exec'[f].pc = "idle" /\ exec'[f].todo = {}
  BY <1>1, OneMoves
<1>4. CallsOK'
  BY <1>1, <1>2 DEF CallsOK, CallOK
<1>5. RunOK'
  BY <1>1, <1>2 DEF RunOK, Terminal
<1>6. ExecOK(e)'
  BY <1>2, <1>3 DEF ExecOK
<1>7. \A f \in Execs : ExecOK(f)'
  BY <1>3, <1>6, IdleIsFine
<1> QED BY <1>3, <1>4, <1>5, <1>7 DEF CInv, StaysEnded

\* The fields of the records that turns are given.
LEMMA TurnRecords ==
  /\ Idle.pc = "idle" /\ Idle.todo = {}
  /\ Thinking.pc = "thinking" /\ Thinking.todo = {} /\ ~Thinking.aborted
  /\ \A p \in {"settling", "publishing"} :
        /\ [Idle EXCEPT !.pc = p].pc = p /\ [Idle EXCEPT !.pc = p].todo = {}
        /\ ~[Idle EXCEPT !.pc = p].aborted
BY DEF Idle, Thinking

\* The turns that begin, step, end and throw.
LEMMA TurnsKeepCInv ==
  ASSUME UInv, CInv, Careful, NEW e \in Execs,
         CreateRun(e) \/ StepEnd(e) \/ Finish(e) \/ Settle(e) \/ Publish(e) \/ TurnThrows(e)
  PROVE  CInv' /\ StaysEnded
<1>1. OneChain /\ RunOK /\ ExecOK(e) /\ ~deferred
  BY DEF CInv, RunOK
<1>2. UNCHANGED turnUnchanged
  BY DEF CreateRun, StepEnd, Finish, Settle, Publish, TurnThrows, turnUnchanged
<1>3. CASE CreateRun(e)
  <2>1. /\ SetExec(e, Thinking) /\ status' = "running" /\ ctrl' = e /\ ~deferred'
        /\ Busy = {} /\ Pending = {} /\ flight = {} /\ ~Terminal(status)
    BY <1>1, <1>3 DEF CreateRun, BeginTurn, Terminal, RunOK
  <2> QED BY <1>2, <2>1, TurnRecords, QuietTurnKeeps
<1>4. CASE StepEnd(e)
  <2>1. /\ exec[e].pc = "acting" /\ status = "running" /\ ctrl = e /\ flight = {}
        /\ (\E c \in exec[e].batch : result[c] = "waits") => Pending # {}
    BY <1>1, <1>4 DEF StepEnd, ExecOK
  <2>2. CASE Pending # {}
    <3>1. SetExec(e, Idle) /\ status' = "waiting_for_approval" /\ ~deferred'
      BY <1>1, <1>4, <2>2 DEF StepEnd, Pause, Leave
    <3> QED BY <1>2, <2>1, <2>2, <3>1, TurnRecords, QuietTurnKeeps DEF Terminal
  <2>3. CASE Pending = {}
    <3>1. SetExec(e, Thinking) /\ UNCHANGED <<status, ctrl, deferred>>
      BY <1>4, <2>1, <2>3 DEF StepEnd
    <3> QED BY <1>1, <1>2, <2>1, <2>3, <3>1, TurnRecords, QuietTurnKeeps DEF Terminal
  <2> QED BY <2>2, <2>3
<1>5. CASE Finish(e)
  <2>1. /\ exec[e].pc = "thinking" /\ status = "running" /\ ctrl = e
        /\ Pending = {} /\ flight = {}
    BY <1>1, <1>5 DEF Finish, ExecOK
  <2>2. SetExec(e, [Idle EXCEPT !.pc = "settling"]) /\ UNCHANGED <<status, ctrl, deferred>>
    BY <1>1, <1>5, <2>1 DEF Finish
  <2> QED BY <1>1, <1>2, <2>1, <2>2, TurnRecords, QuietTurnKeeps DEF Terminal
<1>6. CASE Settle(e)
  <2>1. /\ exec[e].pc = "settling" /\ Pending = {} /\ flight = {}
        /\ Terminal(status) \/ (status = "running" /\ ctrl = e)
        /\ ~deferred'
    BY <1>1, <1>6 DEF Settle, ExecOK
  <2>2. \/ SetExec(e, Idle) /\ Terminal(status')
        \/ SetExec(e, [Idle EXCEPT !.pc = "publishing"]) /\ UNCHANGED <<status, ctrl>>
    BY <1>6, <2>1 DEF Settle, Leave, Terminal
  <2>3. status' # "none"
    BY <2>1, <2>2 DEF Terminal
  <2> QED BY <1>2, <2>1, <2>2, <2>3, TurnRecords, QuietTurnKeeps DEF Terminal
<1>7. CASE Publish(e) \/ TurnThrows(e)
  <2>1. SetExec(e, Idle) /\ Terminal(status') /\ ~deferred' /\ exec[e].pc # "idle"
    BY <1>1, <1>7 DEF Publish, TurnThrows, Leave, Terminal
  <2>2. status' # "none"
    BY <2>1 DEF Terminal
  <2> QED BY <1>2, <2>1, <2>2, TurnRecords, QuietTurnKeeps
<1> QED BY <1>3, <1>4, <1>5, <1>6, <1>7
-----------------------------------------------------------------------------
(* Calls at a gate.                                                        *)

\* One call at a time, or calls of one scope: all of a step have the same.
LEMMA StepsHaveOneScope ==
  ASSUME UInv, Careful, NEW batch \in SUBSET unused, Cardinality(batch) <= shape.width,
         NEW c \in batch, NEW d \in batch
  PROVE  shape.scope[c] = shape.scope[d]
<1>1. batch \subseteq Calls /\ IsFiniteSet(batch)
  BY ApprovalsAssumption, FS_Subset DEF UInv, TypeOK
<1>2. CASE shape.width = 1
  <2>1. Cardinality(batch) \in Nat /\ Cardinality(batch) <= 1 /\ Cardinality(batch) # 0
    BY <1>1, <1>2, FS_EmptySet, FS_CardinalityType
  <2>2. Cardinality(batch) = 1
    BY <2>1
  <2> QED BY <1>1, <2>2, FS_Singleton
<1>3. CASE \A a, b \in Calls : shape.scope[a] = shape.scope[b]
  BY <1>1, <1>3
<1> QED BY <1>2, <1>3 DEF Careful

\* A step of the model, whose calls meet no open request.
LEMMA ModelStepKeepsCInv ==
  ASSUME UInv, CInv, Careful, NEW e \in Execs, NEW batch \in SUBSET unused,
         ModelStep(e, batch)
  PROVE  CInv' /\ StaysEnded
<1>1. OneChain /\ RunOK /\ CallsOK /\ \A f \in Execs : ExecOK(f)
  BY DEF CInv
<1>2. /\ exec[e].pc = "thinking" /\ status = "running" /\ ctrl = e
      /\ Pending = {} /\ flight = {} /\ ~exec[e].aborted /\ exec[e] \in ExecType
  BY <1>1 DEF ModelStep, ExecOK, UInv, TypeOK, ExecType
<1> DEFINE x == [exec[e] EXCEPT !.pc = "acting", !.batch = batch]
<1>3. /\ UNCHANGED <<shape, status, row, step, asks, ctrl, deferred, allowed, ran, crashes>>
      /\ SetExec(e, x) /\ flight' = batch /\ unused' = unused \ batch
      /\ Cardinality(batch) <= shape.width /\ batch \subseteq Calls
      /\ result' = [c \in Calls |-> result[c]]
  BY <1>2 DEF ModelStep, storeVars, UInv, TypeOK
<1>4. x.pc = "acting" /\ x.batch = batch /\ x.todo = exec[e].todo /\ ~x.aborted
  BY <1>2 DEF ExecType
<1> HIDE DEF x
<1>5. /\ exec'[e] = x /\ OneChain'
      /\ \A f \in Execs : f # e => exec'[f].pc = "idle" /\ exec'[f].todo = {}
  BY <1>1, <1>2, <1>3, OneMoves
<1>6. Pending' = {}
  BY <1>2, <1>3 DEF Pending
<1>7. CallsOK'
  BY <1>1, <1>3 DEF CallsOK, CallOK
<1>8. RunOK'
  BY <1>1, <1>2, <1>3, <1>6, StepsHaveOneScope DEF RunOK
<1>9. ExecOK(e)'
  BY <1>1, <1>2, <1>3, <1>4, <1>5, <1>6 DEF ExecOK, CallsOK, CallOK
<1>10. \A f \in Execs : ExecOK(f)'
  BY <1>5, <1>9, IdleIsFine
<1> QED BY <1>2, <1>3, <1>5, <1>7, <1>8, <1>10 DEF CInv, StaysEnded, Terminal

\* A call that its gate lets through or refuses.
LEMMA GatePassesKeepsCInv ==
  ASSUME UInv, CInv, Careful, NEW c \in Calls, GatePasses(c)
  PROVE  CInv' /\ StaysEnded
<1>1. OneChain /\ RunOK /\ CallsOK /\ \A f \in Execs : ExecOK(f)
  BY DEF CInv
<1>2. /\ c \in flight /\ flight' = flight \ {c}
      /\ UNCHANGED <<shape, status, unused, exec, ctrl, deferred, crashes, row, asks>>
      /\ Pending' = Pending /\ Busy' = Busy
  BY DEF GatePasses, AtGate, Pending, Busy
<1>3. /\ c \notin unused /\ ran[c] = 0 /\ step[c] = "none" /\ asks[c] = None
  BY <1>1, <1>2 DEF UInv, CallsInv, CallsOK, CallOK
<1>4. /\ ran' \in {ran, [ran EXCEPT ![c] = 1]}
      /\ step' \in {step, [step EXCEPT ![c] = "ok"]}
      /\ result' \in {[result EXCEPT ![c] = "blocked"], [result EXCEPT ![c] = "ran"]}
      /\ allowed' \subseteq allowed
  BY <1>3 DEF GatePasses, Execute
<1>5. \A f \in Execs : c \notin exec[f].todo
  BY <1>1, <1>3 DEF ExecOK
<1>6. CallsOK'
  BY <1>1, <1>2, <1>3, <1>4 DEF CallsOK, CallOK, UInv, TypeOK
<1>7. RunOK'
  BY <1>1, <1>2 DEF RunOK
<1>8. ASSUME NEW f \in Execs PROVE ExecOK(f)'
  <2>1. ExecOK(f) /\ exec[f].batch \subseteq Calls /\ exec[f].todo \subseteq Calls
    BY <1>1 DEF UInv, TypeOK
  <2>2. \A d \in exec[f].todo : step'[d] = step[d]
    BY <1>4, <1>5, <2>1 DEF UInv, TypeOK
  <2>3. \A d \in exec[f].batch : result'[d] = "waits" => result[d] = "waits"
    BY <1>4, <2>1 DEF UInv, TypeOK
  <2> QED BY <1>2, <2>1, <2>2, <2>3 DEF ExecOK
<1>9. OneChain'
  BY <1>1, <1>2 DEF OneChain
<1> QED BY <1>2, <1>6, <1>7, <1>8, <1>9 DEF CInv, StaysEnded

\* A call that asks, or shares what is asked.
LEMMA GateAsksKeepsCInv ==
  ASSUME UInv, CInv, Careful, NEW c \in Calls, GateAsks(c)
  PROVE  CInv' /\ StaysEnded
<1>1. OneChain /\ RunOK /\ CallsOK /\ \A f \in Execs : ExecOK(f)
  BY DEF CInv
<1>2. /\ c \in flight /\ flight' = flight \ {c}
      /\ UNCHANGED <<shape, status, unused, exec, ctrl, deferred, crashes, allowed, ran>>
      /\ result' = [result EXCEPT ![c] = "waits"] /\ Busy' = Busy
  BY DEF GateAsks, AtGate, Busy
<1>3. /\ c \notin unused /\ ran[c] = 0 /\ step[c] = "none" /\ asks[c] = None
      /\ row[c] = "none" /\ None \notin Calls
  BY <1>1, <1>2, ApprovalsAssumption DEF UInv, CallsInv, CallsOK, CallOK
<1> DEFINE same == {d \in Pending : shape.scope[d] = shape.scope[c]}
<1>4. PICK id \in IF same = {} THEN {c} ELSE same :
          /\ row' = IF id = c THEN [row EXCEPT ![c] = "pending"] ELSE row
          /\ IF id = c \/ c \in shape.outer
             THEN /\ step' = [step EXCEPT ![c] = "waiting"]
                  /\ asks' = [asks EXCEPT ![c] = id]
             ELSE UNCHANGED <<step, asks>>
  BY DEF GateAsks
<1>5. id \in Calls /\ (id = c \/ (id # c /\ row[id] = "pending"))
  BY <1>4 DEF Pending
<1> HIDE DEF same
<1>6. /\ row \in [Calls -> {"none", "pending", "once", "always", "family",
                            "rejected", "deleted"}]
      /\ step \in [Calls -> {"none", "waiting", "ok", "blocked"}]
      /\ asks \in [Calls -> Calls \cup {None}]
      /\ result \in [Calls -> {"none", "ran", "waits", "blocked"}]
  BY DEF UInv, TypeOK
<1>7. row'[id] = "pending" /\ \A d \in Calls : d # c => row'[d] = row[d]
  BY <1>4, <1>5, <1>6
<1>8. /\ Pending' # {} /\ Pending' \subseteq Pending \cup {c}
      /\ Pending \subseteq Pending'
  BY <1>3, <1>4, <1>5, <1>6, <1>7 DEF Pending
<1>9. /\ \A d \in Calls : d # c => asks'[d] = asks[d] /\ step'[d] = step[d]
                                   /\ result'[d] = result[d]
      /\ \/ asks'[c] = id /\ step'[c] = "waiting"
         \/ asks'[c] = None /\ step'[c] = "none" /\ row'[c] = "none"
      /\ row'[c] # "none" => id = c /\ asks'[c] = id /\ row'[c] = "pending"
  BY <1>2, <1>3, <1>4, <1>5, <1>6
<1>10. \A d \in Calls : d # c /\ asks[d] # None => asks[d] # c
  BY <1>1, <1>3 DEF CallsOK, CallOK
<1>11. \A d \in Calls : CallOK(d)'
  <2>1. CallOK(c)'
    BY <1>2, <1>3, <1>5, <1>7, <1>9 DEF CallOK
  <2>2. ASSUME NEW d \in Calls, d # c PROVE CallOK(d)'
    <3>1. CallOK(d) /\ (asks[d] # None => asks[d] \in Calls)
      BY <1>1, <1>6 DEF CallsOK
    <3>2. asks'[d] = asks[d] /\ step'[d] = step[d] /\ result'[d] = result[d]
          /\ row'[d] = row[d] /\ (asks[d] # None => row'[asks[d]] = row[asks[d]])
      BY <1>7, <1>9, <1>10, <2>2, <3>1
    <3> QED BY <1>2, <3>1, <3>2 DEF CallOK
  <2> QED BY <2>1, <2>2
<1>12. CallsOK'
  <2>1. \A d \in Calls : row[d] \in Approved => row'[d] \in Approved
    BY <1>3, <1>7 DEF Approved
  <2> QED BY <1>1, <1>2, <1>11, <2>1 DEF CallsOK
<1>13. RunOK'
  <2>1. Pending' \cup flight' \subseteq Pending \cup flight
    BY <1>2, <1>8
  <2>2. status # "none" /\ status # "waiting_for_approval"
    BY <1>1, <1>2 DEF RunOK
  <2> QED BY <1>1, <1>2, <2>1, <2>2 DEF RunOK
<1>14. ASSUME NEW f \in Execs PROVE ExecOK(f)'
  <2>1. ExecOK(f) /\ exec[f].todo \subseteq Calls
    BY <1>1 DEF UInv, TypeOK
  <2>2. \A d \in exec[f].todo : /\ d # c /\ step'[d] = step[d] /\ asks'[d] = asks[d]
                                /\ row'[asks[d]] = row[asks[d]]
    <3> SUFFICES ASSUME NEW d \in exec[f].todo
                 PROVE  /\ d # c /\ step'[d] = step[d] /\ asks'[d] = asks[d]
                        /\ row'[asks[d]] = row[asks[d]]
      OBVIOUS
    <3>1. d \in Calls /\ step[d] = "waiting"
      BY <2>1 DEF ExecOK
    <3>2. d # c /\ asks[d] # None
      BY <1>1, <1>3, <3>1 DEF CallsOK, CallOK
    <3>3. asks[d] \in Calls /\ asks[d] # c
      BY <1>6, <1>10, <3>1, <3>2
    <3> QED BY <1>7, <1>9, <3>1, <3>2, <3>3
  <2> QED BY <1>2, <1>8, <2>1, <2>2 DEF ExecOK
<1>15. OneChain'
  BY <1>1, <1>2 DEF OneChain
<1> QED BY <1>2, <1>12, <1>13, <1>14, <1>15 DEF CInv, StaysEnded
-----------------------------------------------------------------------------
(* Answers, the replay, cancellation and crashes.                          *)

\* An approval settles all that is open and finds the run waiting: it is resumed
\* by the only chain, whose replay has been approved.
LEMMA ApproveKeepsCInv ==
  ASSUME UInv, CInv, Careful, NEW c \in Calls, NEW how \in Approved, Approve(c, how)
  PROVE  CInv' /\ StaysEnded
<1>1. OneChain /\ RunOK /\ CallsOK /\ \A f \in Execs : ExecOK(f)
  BY DEF CInv
<1> DEFINE rows == [d \in Calls |-> IF d \in SettledWith(c, how) THEN how ELSE row[d]]
<1>2. /\ row[c] = "pending" /\ status = "waiting_for_approval"
      /\ row' = rows /\ ResumeApproved(rows)
      /\ UNCHANGED <<shape, status, step, asks, result, unused, flight, ctrl, ran, crashes>>
      /\ allowed' \in {allowed, allowed \cup {shape.scope[c]}}
  BY DEF Approve, MayAnswer, Careful
<1>3. ~Terminal(status) /\ flight = {} /\ c \in Pending
  BY <1>1, <1>2 DEF Terminal, RunOK, Pending
<1>4. SettledWith(c, how) = Pending
  BY <1>1, <1>3 DEF SettledWith, RunOK
<1>5. \A d \in Calls : row'[d] = IF row[d] = "pending" THEN how ELSE row[d]
  BY <1>2, <1>4 DEF Pending
<1>6. how \notin {"none", "pending", "rejected", "deleted"}
  BY DEF Approved
<1>7. Pending' = {} /\ Busy = {}
  <2>1. Pending' = {}
    BY <1>5, <1>6 DEF Pending
  <2>2. \A f \in Execs : exec[f].pc = "idle"
    BY <1>1, <1>2, <1>3 DEF ExecOK, UInv, TypeOK, InTurn
  <2> QED BY <2>1, <2>2 DEF Busy
<1>8. PICK e \in Execs :
         /\ SetExec(e, [Idle EXCEPT !.pc = "resuming", !.todo = AwaitingReplay(rows)])
         /\ UNCHANGED deferred
  BY <1>2 DEF ResumeApproved
<1> HIDE DEF rows
<1> DEFINE x == [Idle EXCEPT !.pc = "resuming", !.todo = AwaitingReplay(rows)]
<1>9. x.pc = "resuming" /\ x.todo = AwaitingReplay(rows)
  BY DEF Idle
<1> HIDE DEF x
<1>10. SetExec(e, x)
  BY <1>8 DEF x
<1>11. /\ exec'[e] = x /\ OneChain' /\ Busy' # {}
       /\ \A f \in Execs : f # e => exec'[f].pc = "idle" /\ exec'[f].todo = {}
  BY <1>1, <1>7, <1>9, <1>10, OneMoves
<1>12. asks \in [Calls -> Calls \cup {None}]
  BY DEF UInv, TypeOK
<1>13. CallsOK'
  <2>1. ASSUME NEW d \in Calls PROVE CallOK(d)'
    <3>1. CallOK(d) /\ (asks[d] # None => asks[d] \in Calls)
      BY <1>1, <1>12 DEF CallsOK
    <3> QED BY <1>2, <1>5, <1>6, <3>1 DEF CallOK
  <2>2. row'[c] \in Approved
    BY <1>2, <1>5
  <2> QED BY <2>1, <2>2 DEF CallsOK
<1>14. RunOK'
  BY <1>1, <1>2, <1>3, <1>7, <1>8, <1>11 DEF RunOK
<1>15. ASSUME NEW d \in AwaitingReplay(rows)
       PROVE  step'[d] = "waiting" /\ row'[asks'[d]] \in Approved
  <2>1. d \in Calls /\ step[d] = "waiting"
    BY DEF AwaitingReplay
  <2>2. asks[d] \in Calls /\ row[asks[d]] # "none"
    BY <1>1, <1>12, <2>1 DEF CallsOK, CallOK
  <2>3. row[asks[d]] \notin {"rejected", "deleted"}
    BY <1>1, <1>3, <2>2 DEF CallsOK, CallOK
  <2>4. row[asks[d]] \in {"pending"} \cup Approved
    BY <2>2, <2>3 DEF UInv, TypeOK, Approved
  <2> QED BY <1>2, <1>5, <2>1, <2>2, <2>4
<1>16. ExecOK(e)'
  BY <1>2, <1>3, <1>7, <1>9, <1>11, <1>15 DEF ExecOK
<1>17. \A f \in Execs : ExecOK(f)'
  BY <1>11, <1>16, IdleIsFine
<1> QED BY <1>2, <1>11, <1>13, <1>14, <1>17 DEF CInv, StaysEnded

\* A rejection ends a run that nobody drives; a cancellation ends any other.
LEMMA EndsKeepCInv ==
  ASSUME UInv, CInv, Careful, Cancel \/ \E c \in Calls : Reject(c)
  PROVE  CInv' /\ StaysEnded
<1>1. OneChain /\ RunOK /\ CallsOK /\ \A f \in Execs : ExecOK(f)
  BY DEF CInv
<1>2. /\ Terminal(status') /\ status' # "none" /\ Pending' = {} /\ ~deferred'
      /\ UNCHANGED <<shape, step, asks, result, unused, flight, allowed, ran, crashes>>
      /\ \A d \in Calls : \/ row'[d] = row[d] /\ row[d] # "pending"
                          \/ row[d] = "pending" /\ row'[d] \in {"rejected", "deleted"}
  BY <1>1 DEF Cancel, Reject, Terminal, Pending, RunOK
<1>3. \A f \in Execs : /\ exec'[f].pc = exec[f].pc /\ exec'[f].todo = exec[f].todo
                       /\ exec'[f].batch = exec[f].batch
                       /\ exec[f].aborted => exec'[f].aborted
                       /\ Cancel /\ f = ctrl => exec'[f].aborted
  <2>1. CASE Cancel
    <3>1. \A f \in Execs : /\ exec[f] \in ExecType
                           /\ exec'[f] = IF f = ctrl THEN [exec[f] EXCEPT !.aborted = TRUE]
                                         ELSE exec[f]
      BY <2>1 DEF Cancel, UInv, TypeOK, ExecType
    <3>2. \A r \in ExecType :
             LET x == [r EXCEPT !.aborted = TRUE]
             IN x.pc = r.pc /\ x.todo = r.todo /\ x.batch = r.batch /\ x.aborted
      BY DEF ExecType
    <3> QED BY <3>1, <3>2
  <2>2. CASE \E c \in Calls : Reject(c)
    <3>1. exec' = exec /\ status # "cancelled" /\ status' = "failed"
      BY <2>2 DEF Reject, MayAnswer, Careful
    <3>2. ~Cancel
      BY <3>1 DEF Cancel
    <3> QED BY <3>1, <3>2
  <2> QED BY <2>1, <2>2
<1>4. Busy' = Busy
  BY <1>3 DEF Busy
<1>5. asks \in [Calls -> Calls \cup {None}]
  BY DEF UInv, TypeOK
<1>6. ASSUME NEW d \in Calls PROVE CallOK(d)'
  <2>1. CallOK(d) /\ (asks[d] # None => asks[d] \in Calls)
    BY <1>1, <1>5 DEF CallsOK
  <2> QED BY <1>2, <2>1 DEF CallOK
<1>7. CallsOK'
  BY <1>1, <1>2, <1>6 DEF CallsOK, Approved
<1>8. RunOK'
  BY <1>1, <1>2 DEF RunOK, Terminal
<1>9. ASSUME NEW f \in Execs PROVE ExecOK(f)'
  <2>1. ExecOK(f) /\ exec[f].todo \subseteq Calls
    BY <1>1 DEF UInv, TypeOK
  <2>2. exec[f].pc \in {"thinking", "acting"} => exec'[f].aborted
    <3>1. CASE Cancel
      BY <1>3, <2>1, <3>1 DEF ExecOK
    <3>2. CASE \E c \in Calls : Reject(c)
      BY <1>3, <2>1, <3>2 DEF ExecOK, Reject, MayAnswer, Careful, Terminal
    <3> QED BY <3>1, <3>2
  <2>3. \A d \in exec[f].todo : row'[asks[d]] \in Approved
    <3> SUFFICES ASSUME NEW d \in exec[f].todo PROVE row'[asks[d]] \in Approved
      OBVIOUS
    <3>1. d \in Calls /\ step[d] = "waiting" /\ row[asks[d]] \in Approved
      BY <2>1 DEF ExecOK
    <3>2. asks[d] \in Calls
      BY <1>1, <1>5, <3>1 DEF CallsOK, CallOK
    <3> QED BY <1>2, <3>1, <3>2 DEF Approved
  <2>4. status' # "running"
    BY <1>2 DEF Terminal
  <2> QED BY <1>2, <1>3, <2>1, <2>2, <2>3, <2>4 DEF ExecOK
<1>10. OneChain'
  BY <1>1, <1>4 DEF OneChain
<1> QED BY <1>2, <1>7, <1>8, <1>9, <1>10 DEF CInv, StaysEnded

\* A crash leaves no chain.
LEMMA CrashKeepsCInv ==
  ASSUME UInv, CInv, Careful, Crash
  PROVE  CInv' /\ StaysEnded
<1>1. OneChain /\ RunOK /\ CallsOK
  BY DEF CInv
<1>2. /\ UNCHANGED <<shape, status, row, step, asks, result, unused, ran>>
      /\ flight' = {} /\ ~deferred' /\ allowed' = {} /\ Pending' = Pending
      /\ crashes' # 0 /\ status # "none"
  BY ApprovalsAssumption DEF Crash, storeVars, Pending, UInv, TypeOK
<1>3. \A f \in Execs : exec'[f].pc = "idle" /\ exec'[f].todo = {}
  BY SlotTypes DEF Crash
<1>4. OneChain' /\ \A f \in Execs : ExecOK(f)'
  BY <1>3, IdleIsFine DEF OneChain, Busy
<1>5. RunOK'
  BY <1>1, <1>2 DEF RunOK
<1>6. CallsOK'
  BY <1>1, <1>2 DEF CallsOK, CallOK
<1> QED BY <1>2, <1>4, <1>5, <1>6 DEF CInv, StaysEnded

\* A replayed call was approved and has not been executed; after the last one the
\* chain goes on with a turn, unless the run has ended.
LEMMA ReplayKeepsCInv ==
  ASSUME UInv, CInv, Careful, NEW e \in Execs, NEW c \in Calls, Replay(e, c)
  PROVE  CInv' /\ StaysEnded
<1>1. OneChain /\ RunOK /\ CallsOK /\ \A f \in Execs : ExecOK(f)
  BY DEF CInv
<1>2. /\ exec[e].pc = "resuming" /\ c \in exec[e].todo
      /\ Pending = {} /\ flight = {} /\ step[c] = "waiting" /\ ran[c] = 0
      /\ Terminal(status) \/ status = "waiting_for_approval"
      /\ exec[e] \in ExecType
  BY <1>1 DEF Replay, ExecOK, UInv, TypeOK, CallsInv, ExecType
<1>3. /\ UNCHANGED <<shape, row, asks, result, unused, flight, deferred, crashes>>
      /\ Pending' = {} /\ allowed' \subseteq allowed
      /\ \/ ran' = ran /\ step' = [step EXCEPT ![c] = "blocked"]
         \/ ran' = [ran EXCEPT ![c] = 1] /\ step' = [step EXCEPT ![c] = "ok"]
  BY <1>2 DEF Replay, Execute, Pending
<1>4. \A d \in Calls : /\ ran'[d] = ran[d] \/ ran'[d] = 1
                       /\ d # c => step'[d] = step[d]
                       /\ step'[d] = "waiting" => step[d] = "waiting"
  BY <1>3 DEF UInv, TypeOK
<1>5. c \in Calls /\ asks[c] # None /\ row[asks[c]] # "pending"
  BY <1>1, <1>2 DEF CallsOK, CallOK, ExecOK, Approved
<1>6. asks \in [Calls -> Calls \cup {None}]
  BY DEF UInv, TypeOK
<1>7. PICK x : /\ SetExec(e, x)
               /\ \/ /\ x.pc = "resuming" /\ x.todo = exec[e].todo \ {c}
                     /\ UNCHANGED <<status, ctrl>>
                  \/ /\ x.pc = "idle" /\ x.todo = {} /\ Terminal(status)
                     /\ UNCHANGED status
                  \/ /\ x.pc = "thinking" /\ x.todo = {} /\ ~x.aborted
                     /\ ~Terminal(status) /\ status' = "running" /\ ctrl' = e
  <2>1. CASE exec[e].todo = {c}
    <3>1. BeginTurn(e, FALSE)
      BY <1>2, <2>1 DEF Replay
    <3> QED BY <3>1, TurnRecords DEF BeginTurn
  <2>2. CASE exec[e].todo # {c}
    <3> DEFINE y == [exec[e] EXCEPT !.todo = @ \ {c}]
    <3>1. y.pc = "resuming" /\ y.todo = exec[e].todo \ {c}
      BY <1>2 DEF ExecType
    <3>2. SetExec(e, y) /\ UNCHANGED <<status, ctrl>>
      BY <2>2 DEF Replay
    <3> HIDE DEF y
    <3> QED BY <3>1, <3>2
  <2> QED BY <2>1, <2>2
<1>8. /\ exec'[e] = x /\ OneChain' /\ Busy' = IF x.pc = "idle" THEN {} ELSE {e}
      /\ \A f \in Execs : f # e => exec'[f].pc = "idle" /\ exec'[f].todo = {}
  BY <1>1, <1>2, <1>7, OneMoves
<1>9. Terminal(status) => Terminal(status')
  BY <1>7
<1>10. status' # "none" /\ (status' = "waiting_for_approval" => Busy' # {})
  BY <1>2, <1>7, <1>8 DEF Terminal
<1>11. CallsOK'
  <2>1. ASSUME NEW d \in Calls PROVE CallOK(d)'
    <3>1. CallOK(d) /\ (asks[d] # None => asks[d] \in Calls /\ row[asks[d]] # "pending")
      BY <1>1, <1>2, <1>6 DEF CallsOK, Pending
    <3> QED BY <1>3, <1>4, <1>9, <3>1 DEF CallOK
  <2> QED BY <1>1, <1>3, <2>1 DEF CallsOK
<1>12. RunOK'
  BY <1>1, <1>2, <1>3, <1>10 DEF RunOK
<1>13. ExecOK(e)'
  <2>1. \A d \in x.todo : step'[d] = "waiting" /\ row'[asks'[d]] \in Approved
    <3>1. \A d \in exec[e].todo : d \in Calls /\ step[d] = "waiting" /\ row[asks[d]] \in Approved
      BY <1>1, <1>2 DEF ExecOK, ExecType
    <3> QED BY <1>3, <1>4, <1>7, <3>1
  <2> QED BY <1>2, <1>3, <1>7, <1>8, <2>1 DEF ExecOK
<1>14. \A f \in Execs : ExecOK(f)'
  BY <1>8, <1>13, IdleIsFine
<1> QED BY <1>8, <1>9, <1>11, <1>12, <1>14 DEF CInv, StaysEnded

-----------------------------------------------------------------------------
(* The theorems.                                                           *)

\* Every step keeps the invariant, and an ended run ended.
LEMMA NextKeepsCInv ==
  ASSUME UInv, CInv, [Next]_vars
  PROVE  CInv' /\ StaysEnded
<1>1. UNCHANGED shape
  BY DEF Next, vars, TurnGoesOn, Replays, Gate, CreateRun, ModelStep, StepEnd, Finish, Settle,
     Publish, TurnThrows, turnUnchanged, Replay, GatePasses, GateAsks, AtGate, Reject,
     Approve, Cancel, Crash
<1>2. Careful' = Careful
  BY <1>1 DEF Careful
<1>3. CASE ~Careful
  BY <1>2, <1>3 DEF CInv, StaysEnded
<1>4. CASE Careful /\ UNCHANGED vars
  <2>1. Pending' = Pending /\ Busy' = Busy
    BY <1>4 DEF vars, Pending, Busy
  <2> QED BY <1>4, <2>1 DEF CInv, StaysEnded, vars, OneChain, RunOK, CallsOK, CallOK, ExecOK
<1>5. CASE Careful /\ Next
  BY <1>5, TurnsKeepCInv, ModelStepKeepsCInv, GatePassesKeepsCInv, GateAsksKeepsCInv,
     ApproveKeepsCInv, EndsKeepCInv, CrashKeepsCInv, ReplayKeepsCInv
     DEF Next, TurnGoesOn, Replays, Gate
<1> QED BY <1>3, <1>4, <1>5

\* At the start nothing has happened.
LEMMA InitCInv == Init => CInv
<1> SUFFICES ASSUME Init PROVE CInv
  OBVIOUS
<1>1. Pending = {} /\ Busy = {} /\ \A e \in Execs : exec[e].pc = "idle" /\ exec[e].todo = {}
  BY DEF Init, Pending, Busy, Idle
<1>2. \A e \in Execs : ExecOK(e)
  BY <1>1 DEF ExecOK
<1>3. CallsOK /\ RunOK /\ OneChain
  BY <1>1 DEF Init, CallsOK, CallOK, RunOK, OneChain
<1> QED BY <1>2, <1>3 DEF CInv

\* CInv holds in every reachable state, for all values of the constants.
THEOREM CInvHolds == Spec => []CInv
<1>1. UInv /\ CInv /\ [Next]_vars => CInv'
  BY NextKeepsCInv
<1> QED BY <1>1, InitCInv, UInvHolds, PTL DEF Spec

\* One promise chain drives the run: the resume of an answer never meets the turn
\* that asked, nor another resume.
THEOREM OneChainDrives == Spec => []OneExecutor
<1>1. CInv => OneExecutor
  <2> SUFFICES ASSUME OneChain PROVE Cardinality(Busy) <= 1
    BY DEF CInv, OneExecutor
  <2>1. CASE Busy = {}
    BY <2>1, FS_EmptySet
  <2>2. ASSUME NEW e \in Busy PROVE Cardinality(Busy) <= 1
    <3>1. Busy = {e}
      BY DEF OneChain
    <3> QED BY <3>1, FS_Singleton
  <2> QED BY <2>1, <2>2
<1> QED BY <1>1, CInvHolds, PTL

\* Without a crash, a run that waits for an approval has a request to answer or is
\* being resumed.
THEOREM WaitersCanBeAnswered == Spec => []WaitingIsActionable
<1>1. CInv => WaitingIsActionable
  BY DEF CInv, RunOK, WaitingIsActionable
<1> QED BY <1>1, CInvHolds, PTL

\* A run that has ended stays ended, whatever the turns save that were under way.
THEOREM EndIsFinal == Spec => EndIsEnd
<1>1. UInv /\ CInv /\ [Next]_vars => [Careful /\ Terminal(status) => Terminal(status')]_vars
  BY NextKeepsCInv DEF StaysEnded
<1> QED BY <1>1, UInvHolds, CInvHolds, PTL DEF Spec, EndIsEnd
-----------------------------------------------------------------------------
(* Gates, answers and replays implement ApprovalPromise.                   *)

\* The request of a call, and what has become of the call: Consent, by call.
Request(c) == IF asks[c] = None THEN "none" ELSE row[asks[c]]
Word(c) ==
    IF ran[c] > 1 THEN "ran twice" ELSE IF ran[c] = 1 THEN "ran"
    ELSE IF Request(c) = "pending" THEN "asked"
    ELSE IF Request(c) \in Approved THEN "allowed"
    ELSE IF Request(c) = "none" THEN "new" ELSE "refused"

LEMMA ConsentByCall == Consent = [c \in Calls |-> Word(c)]
BY DEF Consent, Word, Request

\* A step that changes the word of one call.
LEMMA OneWord ==
  ASSUME NEW c \in Calls, NEW w, Word(c)' = w, \A d \in Calls : d # c => Word(d)' = Word(d)
  PROVE  Consent' = [Consent EXCEPT ![c] = w]
BY DEF Consent, Word, Request

\* The calls that executed or may be executed were approved or lean on a call that was.
LEMMA Words ==
  ASSUME UInv, CallsOK, NEW c \in Calls
  PROVE  /\ ran[c] \in {0, 1}
         /\ ran[c] = 0 /\ asks[c] = None => Word(c) = "new"
         /\ ran[c] = 0 /\ asks[c] # None /\ row[asks[c]] \in Approved => Word(c) = "allowed"
         /\ row[c] \in Approved => Word(c) \in {"allowed", "ran"}
         /\ row[c] = "pending" => Word(c) = "asked"
<1>1. ran[c] \in {0, 1} /\ CallOK(c) /\ c # None
  BY ApprovalsAssumption DEF UInv, TypeOK, CallsOK, CallOK
<1>2. row[c] = "pending" => ran[c] = 0
  BY <1>1 DEF CallOK, UInv, CallsInv
<1> QED BY <1>1, <1>2 DEF CallOK, Word, Request, Approved

\* An answer to everything that is open, by an approval, a rejection or a cancellation.
LEMMA AnswersAnswer ==
  ASSUME UInv, CallsOK, UNCHANGED <<asks, ran>>, NEW how, NEW word,
         \A d \in Calls : row'[d] = IF row[d] = "pending" THEN how ELSE row[d],
         \/ how \in Approved /\ word = "allowed"
         \/ how \in {"rejected", "deleted"} /\ word = "refused"
  PROVE  Promise!Answer(word) \/ Consent' = Consent
<1> DEFINE settled == {c \in Calls : Word(c) = "asked"}
<1>1. ASSUME NEW d \in Calls PROVE Word(d)' = IF d \in settled THEN word ELSE Word(d)
  <2>1. asks[d] # None => asks[d] \in Calls
    BY DEF UInv, TypeOK
  <2>2. Request(d)' = IF Request(d) = "pending" THEN how ELSE Request(d)
    BY <2>1 DEF Request
  <2>3. ran[d] \in {0, 1}
    BY Words
  <2> QED BY <2>2, <2>3 DEF Word, Approved
<1>2. settled = {c \in Calls : Consent[c] = "asked"}
  BY ConsentByCall
<1>3. Consent' = [c \in Calls |-> IF c \in settled THEN word ELSE Consent[c]]
  <2>1. Consent' = [c \in Calls |-> Word(c)']
    BY DEF Consent, Word, Request
  <2>2. \A c \in Calls : Consent[c] = Word(c)
    BY ConsentByCall
  <2> HIDE DEF settled
  <2> QED BY <1>1, <2>1, <2>2
<1>4. CASE settled = {}
  <2> HIDE DEF settled
  <2> QED BY <1>3, <1>4, ConsentByCall
<1>5. CASE settled # {}
  <2> HIDE DEF settled
  <2> QED BY <1>2, <1>3, <1>5 DEF Promise!Answer
<1> QED BY <1>4, <1>5

\* A gate lets a call through on the permission an earlier one was given.
LEMMA PassesRun ==
  ASSUME UInv, CallsOK, NEW c \in Calls, GatePasses(c)
  PROVE  Promise!Run(c) \/ Consent' = Consent
<1>1. /\ asks[c] = None /\ ran[c] = 0 /\ UNCHANGED <<asks, row>>
      /\ ran' = ran \/ ran' = [ran EXCEPT ![c] = 1]
  BY DEF GatePasses, AtGate, Execute, CallsOK, CallOK, UInv, CallsInv
<1>2. CASE ran' = ran
  BY <1>1, <1>2 DEF Consent
<1>3. CASE ran' = [ran EXCEPT ![c] = 1]
  <2>1. PICK d \in Calls : row[d] \in Approved
    BY DEF GatePasses, Permitted, Granted, CallsOK, Approved
  <2>2. Word(d) \in {"allowed", "ran"} /\ Word(c) = "new"
    BY <1>1, <2>1, Words
  <2>3. Word(c)' = "ran" /\ \A x \in Calls : x # c => Word(x)' = Word(x)
    BY <1>1, <1>3 DEF Word, Request, UInv, TypeOK
  <2>4. Consent' = [Consent EXCEPT ![c] = "ran"]
    BY <2>3, OneWord
  <2> QED BY <2>2, <2>4, ConsentByCall DEF Promise!Run
<1> QED BY <1>1, <1>2, <1>3

\* A replay runs a call that was allowed.
LEMMA ReplaysRun ==
  ASSUME UInv, CallsOK, NEW e \in Execs, ExecOK(e), NEW c \in Calls, Replay(e, c)
  PROVE  Promise!Run(c) \/ Consent' = Consent
<1>1. /\ step[c] = "waiting" /\ row[asks[c]] \in Approved /\ UNCHANGED <<asks, row>>
      /\ ran[c] = 0 /\ (ran' = ran \/ ran' = [ran EXCEPT ![c] = 1])
  BY DEF Replay, Execute, ExecOK, UInv, CallsInv
<1>2. CASE ran' = ran
  BY <1>1, <1>2 DEF Consent
<1>3. CASE ran' = [ran EXCEPT ![c] = 1]
  <2>1. asks[c] # None
    BY <1>1 DEF CallsOK, CallOK
  <2>2. Word(c) = "allowed"
    BY <1>1, <2>1, Words
  <2>3. Word(c)' = "ran" /\ \A x \in Calls : x # c => Word(x)' = Word(x)
    BY <1>1, <1>3 DEF Word, Request, UInv, TypeOK
  <2>4. Consent' = [Consent EXCEPT ![c] = "ran"]
    BY <2>3, OneWord
  <2> QED BY <2>2, <2>4, ConsentByCall DEF Promise!Run
<1> QED BY <1>1, <1>2, <1>3

\* A gate asks for a new call, or lets it wait for what is asked already.
LEMMA AsksAsk ==
  ASSUME UInv, CallsOK, NEW c \in Calls, GateAsks(c)
  PROVE  Promise!Ask(c) \/ Consent' = Consent
<1>1. /\ asks[c] = None /\ ran[c] = 0 /\ row[c] = "none" /\ ran' = ran /\ c # None
  BY ApprovalsAssumption DEF GateAsks, AtGate, CallsOK, CallOK, UInv, CallsInv
<1>2. \A d \in Calls : asks[d] # c
  BY <1>1 DEF CallsOK, CallOK
<1> DEFINE same == {d \in Pending : shape.scope[d] = shape.scope[c]}
<1>3. PICK id \in IF same = {} THEN {c} ELSE same :
          /\ row' = IF id = c THEN [row EXCEPT ![c] = "pending"] ELSE row
          /\ asks' = IF id = c \/ c \in shape.outer THEN [asks EXCEPT ![c] = id] ELSE asks
  BY DEF GateAsks
<1>4. id \in Calls /\ (id = c \/ row[id] = "pending")
  BY <1>3 DEF Pending
<1> HIDE DEF same
<1>5. row \in [Calls -> {"none", "pending", "once", "always", "family", "rejected", "deleted"}]
      /\ asks \in [Calls -> Calls \cup {None}]
  BY DEF UInv, TypeOK
<1>6. ASSUME NEW d \in Calls, d # c PROVE Word(d)' = Word(d)
  <2>1. asks'[d] = asks[d] /\ asks[d] # c
    BY <1>2, <1>3, <1>4, <1>5, <1>6
  <2>2. asks[d] # None => row'[asks[d]] = row[asks[d]]
    BY <1>3, <1>5, <2>1
  <2>3. Request(d)' = Request(d)
    BY <2>1, <2>2 DEF Request
  <2> QED BY <1>1, <2>3 DEF Word
<1>7. CASE asks'[c] = None
  <2>1. Word(c)' = Word(c)
    BY <1>1, <1>7 DEF Word, Request
  <2>2. \A x \in Calls : Word(x)' = Word(x)
    BY <1>6, <2>1
  <2>3. Consent' = [x \in Calls |-> Word(x)']
    BY ConsentByCall DEF Consent, Word, Request
  <2> QED BY <2>2, <2>3, ConsentByCall
<1>8. CASE asks'[c] # None
  <2>1. asks'[c] = id /\ row'[id] = "pending" /\ id # None
    BY <1>1, <1>3, <1>4, <1>5, <1>8, ApprovalsAssumption
  <2>2. Word(c)' = "asked"
    BY <1>1, <2>1 DEF Word, Request
  <2>3. Word(c) = "new"
    BY <1>1 DEF Word, Request, Approved
  <2>4. Consent' = [Consent EXCEPT ![c] = "asked"]
    BY <1>6, <2>2, OneWord
  <2> QED BY <2>3, <2>4, ConsentByCall DEF Promise!Ask
<1> QED BY <1>7, <1>8

\* Every step of a careful run is a step of the promise or leaves it alone.
LEMMA StepsKeepPromise ==
  ASSUME UInv, CInv, Careful, Next
  PROVE  Promise!Next \/ Consent' = Consent
<1>1. CallsOK /\ RunOK /\ \A e \in Execs : ExecOK(e)
  BY DEF CInv
<1>2. ASSUME UNCHANGED <<asks, row, ran>> PROVE Consent' = Consent
  BY <1>2 DEF Consent
<1>3. ASSUME NEW e \in Execs, CreateRun(e) \/ TurnGoesOn(e)
      PROVE  Consent' = Consent
  BY <1>2, <1>3 DEF CreateRun, TurnGoesOn, ModelStep, StepEnd, Finish, Settle, Publish,
     TurnThrows, turnUnchanged, storeVars
<1>4. ASSUME NEW e \in Execs, NEW c \in Calls, Replay(e, c)
      PROVE  Promise!Next \/ Consent' = Consent
  BY <1>1, <1>4, ReplaysRun DEF Promise!Next
<1>5. ASSUME NEW c \in Calls, Gate(c)
      PROVE  Promise!Next \/ Consent' = Consent
  BY <1>1, <1>5, PassesRun, AsksAsk DEF Gate, Promise!Next
<1>6. ASSUME NEW c \in Calls, Reject(c)
      PROVE  Promise!Next \/ Consent' = Consent
  <2>1. /\ UNCHANGED <<asks, ran>>
        /\ \A d \in Calls : row'[d] = IF row[d] = "pending" THEN "deleted" ELSE row[d]
    BY <1>6 DEF Reject, Pending
  <2>2. Promise!Answer("refused") \/ Consent' = Consent
    BY <1>1, <2>1, AnswersAnswer
  <2> QED BY <2>2 DEF Promise!Next
<1>7. ASSUME NEW c \in Calls, NEW how \in Approved, Approve(c, how)
      PROVE  Promise!Next \/ Consent' = Consent
  <2>1. c \in Pending /\ UNCHANGED <<asks, ran>>
        /\ row' = [d \in Calls |-> IF d \in SettledWith(c, how) THEN how ELSE row[d]]
    BY <1>7 DEF Approve, MayAnswer, Pending
  <2>2. SettledWith(c, how) = Pending
    BY <1>1, <2>1 DEF SettledWith, RunOK
  <2>3. \A d \in Calls : row'[d] = IF row[d] = "pending" THEN how ELSE row[d]
    BY <2>1, <2>2 DEF Pending
  <2>4. Promise!Answer("allowed") \/ Consent' = Consent
    BY <1>1, <2>1, <2>3, AnswersAnswer
  <2> QED BY <2>4 DEF Promise!Next
<1>8. ASSUME Cancel PROVE Promise!Next \/ Consent' = Consent
  <2>1. /\ UNCHANGED <<asks, ran>>
        /\ \A d \in Calls : row'[d] = IF row[d] = "pending" THEN "rejected" ELSE row[d]
    BY <1>8 DEF Cancel, Pending
  <2>2. Promise!Answer("refused") \/ Consent' = Consent
    BY <1>1, <2>1, AnswersAnswer
  <2> QED BY <2>2 DEF Promise!Next
<1>9. ASSUME Crash PROVE Consent' = Consent
  BY <1>2, <1>9 DEF Crash, storeVars
<1> QED BY <1>3, <1>4, <1>5, <1>6, <1>7, <1>8, <1>9 DEF Next, Replays

\* For any calls, scopes, executors and crashes: where one request is open at a time,
\* a call is asked for once, answered once, and runs at most once and only if allowed.
THEOREM GatesKeepPromise == Spec => PromiseKept
<1>1. Init => Promise!Init
  BY DEF Init, Consent, Approved, Promise!Init
<1>2. UInv /\ CInv /\ [Next]_vars => [Careful => [Promise!Next]_Consent]_vars
  BY StepsKeepPromise
<1> QED BY <1>1, <1>2, UInvHolds, CInvHolds, PTL DEF Spec, PromiseKept
=============================================================================
