--------------------------- MODULE ConnectionPool ---------------------------
(* One entry of the pool of MCP connections (packages/mcp-client/src/      *)
(* pool.ts): callers share one server process, and a wrapper around each   *)
(* connection starts another one when it is found closed and calls again.  *)
EXTENDS Integers, FiniteSets, FiniteSetsExt

CONSTANTS Callers,    \* agents and services that call tools of the server
          MaxProcs,   \* bound: processes started
          MaxFaults   \* bound: processes lost, calls timed out, failed starts

ASSUME PoolAssumption ==
  IsFiniteSet(Callers) /\ MaxProcs \in Nat \ {0} /\ MaxFaults \in Nat

Ids == 1..MaxProcs

VARIABLES
  proc,     \* the server processes, in the order they were started
  cur,      \* the wrapper's `current`: its own process, or a later wrapper
  conn,     \* `connections`, 0 when there is no entry
  pending,  \* `pending`, 0 when there is none
  pc,       \* where each caller is
  on,       \* the process it calls, or whose start it awaits
  by,       \* the wrapper whose swap() it is in
  frames,   \* the wrappers whose `try` its call is inside of
  tries,    \* how often its call was sent
  faults    \* failures and shutdowns so far

callVars == <<pc, on, by, frames, tries>>
vars == <<proc, cur, conn, pending, callVars, faults>>

ProcStates == {"none", "starting", "open", "broken", "closed"}
CallStates == {"idle", "getting", "calling", "closing", "respawning"}

TypeOK ==
  /\ proc \in [Ids -> ProcStates]
  /\ cur \in [Ids -> Ids]
  /\ conn \in 0..MaxProcs /\ pending \in 0..MaxProcs
  /\ pending # 0 => proc[pending] = "starting"
  /\ pc \in [Callers -> CallStates]
  /\ on \in [Callers -> 0..MaxProcs] /\ by \in [Callers -> 0..MaxProcs]
  /\ frames \in [Callers -> SUBSET Ids]
  /\ tries \in [Callers -> Nat]
  /\ faults \in 0..MaxFaults

Init ==
  /\ proc = [p \in Ids |-> "none"] /\ cur = [p \in Ids |-> p]
  /\ conn = 0 /\ pending = 0
  /\ pc = [c \in Callers |-> "idle"]
  /\ on = [c \in Callers |-> 0] /\ by = [c \in Callers |-> 0]
  /\ frames = [c \in Callers |-> {}] /\ tries = [c \in Callers |-> 0]
  /\ faults = 0

-----------------------------------------------------------------------------
(* Wrappers.  `current` of a wrapper is set to a wrapper no other has, so  *)
(* those with the same process at their end form one chain.                *)

End[p \in Ids] == IF cur[p] = p THEN p ELSE End[cur[p]]
Chain(p) == {q \in p..MaxProcs : End[q] = End[p]}

\* `open`: a process that died or whose backend is gone still counts as open.
FlaggedOpen(p, states) == states[End[p]] \in {"open", "broken"}
IsOpen(p) == FlaggedOpen(p, proc)

\* The process at the end of p is shut down: close() of a wrapper or of a connection.
Shut(p) ==
  [proc EXCEPT ![End[p]] = IF @ \in {"open", "broken"} THEN "closed" ELSE @]

Fault == faults < MaxFaults /\ faults' = faults + 1

-----------------------------------------------------------------------------
(* Calls.                                                                  *)

\* The call of c goes through wrapper p, and those after it, to their process.
Send(c, p) ==
  /\ pc' = [pc EXCEPT ![c] = "calling"]
  /\ on' = [on EXCEPT ![c] = End[p]]
  /\ frames' = [frames EXCEPT ![c] = Chain(p)]
  /\ tries' = [tries EXCEPT ![c] = 1]
  /\ UNCHANGED by

\* The call of c is over, with a result or an error.
Over(c) ==
  /\ pc' = [pc EXCEPT ![c] = "idle"]
  /\ on' = [on EXCEPT ![c] = 0] /\ by' = [by EXCEPT ![c] = 0]
  /\ frames' = [frames EXCEPT ![c] = {}] /\ tries' = [tries EXCEPT ![c] = 0]

\* spawn: a process is started and its promise is the pending one, in place of any other.
Spawn(c, state) ==
  \E p \in Ids :
    /\ proc[p] = "none" /\ \A q \in Ids : q < p => proc[q] # "none"
    /\ proc' = [proc EXCEPT ![p] = "starting"]
    /\ pending' = p
    /\ pc' = [pc EXCEPT ![c] = state]
    /\ on' = [on EXCEPT ![c] = p]

Get_IgnoresPending(c) ==
  /\ pc[c] = "idle"
  /\ IF conn # 0 /\ IsOpen(conn)
     THEN Send(c, conn) /\ UNCHANGED <<proc, pending>>
     ELSE Spawn(c, "getting") /\ UNCHANGED <<by, frames, tries>>
  /\ UNCHANGED <<cur, conn, faults>>

\* A caller gets the connection and calls: no await lies between the two.
Get(c) ==
  /\ pc[c] = "idle"
  /\ IF conn # 0 /\ IsOpen(conn)
     THEN Send(c, conn) /\ UNCHANGED <<proc, pending>>
     ELSE /\ UNCHANGED <<by, frames, tries>>
          /\ \/ pending = 0 /\ Spawn(c, "getting")
             \/ /\ pending # 0
                /\ pc' = [pc EXCEPT ![c] = "getting"]
                /\ on' = [on EXCEPT ![c] = pending]
                /\ UNCHANGED <<proc, pending>>
  /\ UNCHANGED <<cur, conn, faults>>

\* The callers that await the start of p.
Getting(p) == {c \in Callers : pc[c] = "getting" /\ on[c] = p}
Respawning(p) == {c \in Callers : pc[c] = "respawning" /\ on[c] = p}

Connected_LatestOnly(p) ==
  /\ proc[p] = "starting"
  /\ proc' = [proc EXCEPT ![p] = "open"]
  /\ conn' = p /\ pending' = 0
  /\ cur' = [w \in Ids |-> IF \E c \in Respawning(p) : by[c] = w THEN p ELSE cur[w]]
  /\ LET woken == IF pending = p THEN Getting(p) \cup Respawning(p) ELSE {} IN
     /\ pc' = [c \in Callers |-> IF c \in woken THEN "calling" ELSE pc[c]]
     /\ frames' = [c \in Callers |->
          IF c \in woken THEN (frames[c] \ {by[c]}) \cup {p} ELSE frames[c]]
     /\ by' = [c \in Callers |-> IF c \in woken THEN 0 ELSE by[c]]
     /\ tries' = [c \in Callers |-> IF c \in woken THEN tries[c] + 1 ELSE tries[c]]
  /\ UNCHANGED <<on, faults>>

\* p has started: it is the entry, and those who wait for it call it; a wrapper
\* that was being repaired has it as its `current` and is out of its own `try`.
Connected(p) ==
  /\ proc[p] = "starting"
  /\ proc' = [proc EXCEPT ![p] = "open"]
  /\ conn' = p /\ pending' = 0
  /\ cur' = [w \in Ids |-> IF \E c \in Respawning(p) : by[c] = w THEN p ELSE cur[w]]
  /\ LET woken == Getting(p) \cup Respawning(p) IN
     /\ pc' = [c \in Callers |-> IF c \in woken THEN "calling" ELSE pc[c]]
     /\ frames' = [c \in Callers |->
          IF c \in woken THEN (frames[c] \ {by[c]}) \cup {p} ELSE frames[c]]
     /\ by' = [c \in Callers |-> IF c \in woken THEN 0 ELSE by[c]]
     /\ tries' = [c \in Callers |-> IF c \in woken THEN tries[c] + 1 ELSE tries[c]]
  /\ UNCHANGED <<on, faults>>

-----------------------------------------------------------------------------
(* How a call ends.                                                        *)

\* swap: c closes what wrapper w has as `current`; `outer` are the `try`s it is in.
SwapAt(c, w, outer) ==
  /\ pc' = [pc EXCEPT ![c] = "closing"]
  /\ by' = [by EXCEPT ![c] = w]
  /\ frames' = [frames EXCEPT ![c] = outer]
  /\ on' = [on EXCEPT ![c] = 0]
  /\ UNCHANGED tries

\* A result comes back; a wrapper on its way that is no longer open repairs itself
\* and calls again, inside its own `try` until the new process has started.
Result(c, states) ==
  LET closed == {w \in frames[c] : ~ FlaggedOpen(w, states)}
      w == Max(closed)
  IN  /\ proc' = states
      /\ IF closed = {} THEN Over(c)
         ELSE SwapAt(c, w, {v \in frames[c] : v <= w})

Answered(c) ==
  /\ pc[c] = "calling" /\ proc[on[c]] = "open"
  /\ Result(c, proc)
  /\ UNCHANGED <<cur, conn, pending, faults>>

\* The result's text says that the backend is gone: callTool closes the connection.
AnsweredClosed(c) ==
  /\ pc[c] = "calling" /\ proc[on[c]] = "broken"
  /\ Result(c, [proc EXCEPT ![on[c]] = "closed"])
  /\ UNCHANGED <<cur, conn, pending, faults>>

\* The call throws an error that isConnectionClosedError knows: the innermost
\* wrapper repairs itself, and calls again outside its own `try`.
ThrewClosed(c) ==
  LET w == Max(frames[c])
  IN  /\ pc[c] = "calling" /\ proc[on[c]] \in {"broken", "closed"}
      /\ SwapAt(c, w, frames[c] \ {w})
      /\ proc' = [proc EXCEPT ![on[c]] = "closed", ![End[w]] = "closed"]
      /\ UNCHANGED <<cur, conn, pending, faults>>

ThrewOther_Repaired(c) ==
  LET w == Max(frames[c])
  IN  /\ pc[c] = "calling"
      /\ SwapAt(c, w, frames[c] \ {w})
      /\ proc' = Shut(w)
      /\ UNCHANGED <<cur, conn, pending, faults>>

\* Any other error passes every wrapper, that of a client which is not connected too.
ThrewOther(c) ==
  /\ pc[c] = "calling"
  /\ Over(c)
  /\ UNCHANGED <<proc, cur, conn, pending, faults>>

\* Timed out or aborted: the connection is closed and nothing is tried again.
TimedOut(c) ==
  /\ pc[c] = "calling" /\ proc[on[c]] \in {"open", "broken"}
  /\ proc' = [proc EXCEPT ![on[c]] = "closed"]
  /\ Over(c) /\ Fault
  /\ UNCHANGED <<cur, conn, pending>>

\* The old process is shut down: respawn removes the entry if it is the wrapper's own.
Respawn(c) ==
  /\ pc[c] = "closing"
  /\ conn' = IF conn = by[c] THEN 0 ELSE conn
  /\ Spawn(c, "respawning")
  /\ UNCHANGED <<cur, by, frames, tries, faults>>

ConnectFails_KeepsPending(p) ==
  /\ proc[p] = "starting" /\ Fault
  /\ \E again \in SUBSET {c \in Respawning(p) : frames[c] # {}} :
       LET gone == (Getting(p) \cup Respawning(p)) \ again
           w == [c \in again |-> Max(frames[c])]
       IN  /\ pc' = [c \in Callers |-> IF c \in again THEN "closing"
                                     ELSE IF c \in gone THEN "idle" ELSE pc[c]]
           /\ on' = [c \in Callers |-> IF c \in again \cup gone THEN 0 ELSE on[c]]
           /\ by' = [c \in Callers |-> IF c \in again THEN w[c]
                                     ELSE IF c \in gone THEN 0 ELSE by[c]]
           /\ frames' = [c \in Callers |-> IF c \in again THEN frames[c] \ {w[c]}
                                         ELSE IF c \in gone THEN {} ELSE frames[c]]
           /\ tries' = [c \in Callers |-> IF c \in gone THEN 0 ELSE tries[c]]
           /\ proc' = [q \in Ids |->
                IF q = p \/ \E c \in again : q = End[w[c]] THEN "closed" ELSE proc[q]]
  /\ UNCHANGED <<cur, conn, pending>>

\* p does not start: those who wait for it get the error, which a wrapper that was
\* being repaired may take for that of a closed connection.
ConnectFails(p) ==
  /\ proc[p] = "starting" /\ Fault
  /\ pending' = 0
  /\ \E again \in SUBSET {c \in Respawning(p) : frames[c] # {}} :
       LET gone == (Getting(p) \cup Respawning(p)) \ again
           w == [c \in again |-> Max(frames[c])]
       IN  /\ pc' = [c \in Callers |-> IF c \in again THEN "closing"
                                     ELSE IF c \in gone THEN "idle" ELSE pc[c]]
           /\ on' = [c \in Callers |-> IF c \in again \cup gone THEN 0 ELSE on[c]]
           /\ by' = [c \in Callers |-> IF c \in again THEN w[c]
                                     ELSE IF c \in gone THEN 0 ELSE by[c]]
           /\ frames' = [c \in Callers |-> IF c \in again THEN frames[c] \ {w[c]}
                                         ELSE IF c \in gone THEN {} ELSE frames[c]]
           /\ tries' = [c \in Callers |-> IF c \in gone THEN 0 ELSE tries[c]]
           /\ proc' = [q \in Ids |->
                IF q = p \/ \E c \in again : q = End[w[c]] THEN "closed" ELSE proc[q]]
  /\ UNCHANGED <<cur, conn>>

-----------------------------------------------------------------------------
(* The processes, and the end of the host.                                 *)

Breaks(p) ==
  /\ proc[p] = "open" /\ Fault
  /\ proc' = [proc EXCEPT ![p] = "broken"]
  /\ UNCHANGED <<cur, conn, pending, callVars>>

\* closeAll closes the entries there are, not what is starting.
CloseAll ==
  /\ Fault
  /\ conn' = 0
  /\ proc' = IF conn = 0 THEN proc ELSE Shut(conn)
  /\ UNCHANGED <<cur, pending, callVars>>

CallEnds(c) ==
  Answered(c) \/ AnsweredClosed(c) \/ ThrewClosed(c) \/ ThrewOther(c) \/ TimedOut(c)

Next ==
  \/ \E c \in Callers : Get(c) \/ CallEnds(c) \/ Respawn(c)
  \/ \E p \in Ids : Connected(p) \/ ConnectFails(p) \/ Breaks(p)
  \/ CloseAll

Spec == Init /\ [][Next]_vars

(* A start and a call are over sooner or later (the client and callTool    *)
(* have timeouts), and the event loop resumes who awaited them.            *)
Fairness ==
  /\ \A c \in Callers : WF_vars(CallEnds(c)) /\ WF_vars(Respawn(c))
  /\ \A p \in Ids : WF_vars(Connected(p) \/ ConnectFails(p))

FairSpec == Spec /\ Fairness

-----------------------------------------------------------------------------
(* Properties.                                                             *)

Live == {p \in Ids : proc[p] \in {"starting", "open", "broken"}}

(* While nothing has failed the callers share one process, whoever comes   *)
(* while it starts included.                                               *)
OneProcess == faults = 0 => Cardinality(Live) <= 1

(* A call has side effects: as long as nothing has failed it is sent once, *)
(* however the callers come to share a process that is starting and        *)
(* whatever error their tools answer with.                                 *)
SentOnce == faults = 0 => \A c \in Callers : tries[c] <= 1

Pair == Cardinality(Callers) <= 2

(* Every call of two callers comes to an end, however many processes break *)
(* under it and whose start it awaits: nobody is left with a promise that  *)
(* is not settled.                                                         *)
EveryCallEnds == Pair => \A c \in Callers : pc[c] # "idle" ~> pc[c] = "idle"
=============================================================================
