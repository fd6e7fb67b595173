-------------------------- MODULE Delegation_proofs --------------------------
(***************************************************************************)
(* The executor of subagents keeps its registry, sees interrupts and         *)
(* implements DelegationService, for any conversations, subagents and batches: *)
(* proofs for the run delegation_tasks.                                       *)
(***************************************************************************)
EXTENDS Delegation, TLAPS

\* A subagent has a turn only while delegate_task awaits it, only a turn awaits a
\* batch, and a subagent that is closing or over has its result.
TurnsOK ==
  /\ \A t \in Tasks : turn[t] => run[t] = "converse"
  /\ \A t \in Tasks : kids[t] # {} => turn[t]
  /\ \A t \in Tasks : run[t] \in {"closing", "over"} => result[t] \in Outcomes

IInv == TypeOK /\ TurnsOK /\ RegistryMatchesRuns

LEMMA InitOK == Init => IInv
  BY ConvAssumption, BoundAssumption
  DEF Init, IInv, TypeOK, TurnsOK, RegistryMatchesRuns, Callers, Stages, InRegistry

\* Leave and Abort, the ways out of a turn of a subagent.
LEMMA LeaveTyped ==
  ASSUME TypeOK, NEW t \in Tasks, NEW o \in Outcomes, Leave(t, o)
  PROVE  /\ run' \in [Tasks -> Stages] /\ turn' \in [Callers -> BOOLEAN]
         /\ result' \in [Tasks -> Outcomes \cup {None}]
         /\ saved' \in [Tasks -> Callers \cup {None}]
         /\ answer' \in [Callers -> {"none", "results", "switched"}]
  BY DEF TypeOK, Leave, Stages

LEMMA AbortTyped ==
  ASSUME TypeOK, NEW t \in Tasks, NEW o \in {"timeout", "cancelled"}, Abort(t, o)
  PROVE  /\ run' \in [Tasks -> Stages] /\ turn' \in [Callers -> BOOLEAN]
         /\ result' \in [Tasks -> Outcomes \cup {None}]
         /\ saved' \in [Tasks -> Callers \cup {None}]
         /\ answer' \in [Callers -> {"none", "results", "switched"}]
         /\ stop' \in [Callers -> {"no", "timeout", "cancelled"}]
  <1>1. CASE kids[t] = {}
    BY <1>1, LeaveTyped DEF Abort, Outcomes, TypeOK
  <1>2. CASE kids[t] # {}
    BY <1>2 DEF Abort, TypeOK
  <1>. QED BY <1>1, <1>2

-----------------------------------------------------------------------------
(* Types.                                                                    *)

LEMMA TypeStep == IInv /\ [Next]_vars => TypeOK'
  <1>. SUFFICES ASSUME IInv, [Next]_vars PROVE TypeOK'
    OBVIOUS
  <1>. TypeOK
    BY DEF IInv
  <1>. Convs \subseteq Callers /\ Tasks \subseteq Callers
    BY DEF Callers
  <1>1. CASE UNCHANGED vars
    BY <1>1 DEF vars, TypeOK
  <1>2. ASSUME NEW c \in Convs, Conv(c) PROVE TypeOK'
    <2>1. CASE UserTurn(c)
      BY <2>1, BoundAssumption DEF UserTurn, TypeOK, taskVars
    <2>2. CASE EndTurn(c)
      BY <2>2 DEF EndTurn, TypeOK, taskVars, callVars
    <2>3. CASE UserCancel(c)
      BY <2>3 DEF UserCancel, TypeOK, taskVars, callVars
    <2>. QED BY <1>2, <2>1, <2>2, <2>3 DEF Conv
  <1>3. ASSUME NEW c \in Callers, Call(c) PROVE TypeOK'
    <2>1. CASE BatchReturn(c)
      BY <2>1 DEF BatchReturn, ToolAnswer, TypeOK, taskVars
    <2>2. CASE Unwind(c) /\ c \in Tasks
      <3>1. Leave(c, stop[c]) /\ stop[c] \in Outcomes
        BY <2>2 DEF Unwind, TypeOK, Outcomes
      <3>. QED BY <2>2, <3>1, LeaveTyped DEF Unwind, TypeOK
    <2>3. CASE Unwind(c) /\ c \notin Tasks
      BY <2>3 DEF Unwind, TypeOK
    <2>. QED BY <1>3, <2>1, <2>2, <2>3 DEF Call
  <1>4. ASSUME NEW c \in Callers, Delegate(c) PROVE TypeOK'
    BY <1>4 DEF Delegate, Create, TypeOK, Stages, taskVars, callVars
  <1>5. ASSUME NEW c \in Callers, NEW n \in 1..MaxBatch, DelegateBatch(c, n) PROVE TypeOK'
    <2>1. NextIds(n) \in SUBSET Tasks
      BY DEF NextIds, Unused
    <2>. QED BY <1>5, <2>1 DEF DelegateBatch, Create, TypeOK, Stages, taskVars
  <1>6. ASSUME NEW c \in Callers, NEW t \in Tasks, CancelChild(c, t) PROVE TypeOK'
    <2>1. CASE Abort(t, "cancelled")
      BY <1>6, <2>1, AbortTyped DEF CancelChild, TypeOK, keptByLeave
    <2>2. CASE ~Abort(t, "cancelled")
      BY <1>6, <2>2 DEF CancelChild, TypeOK, Stages, Outcomes, keptByLeave
    <2>. QED BY <2>1, <2>2
  <1>7. ASSUME NEW t \in Tasks, Subagent(t) PROVE TypeOK'
    <2>1. CASE Start(t)
      BY <2>1 DEF Start, TypeOK, Stages, callVars
    <2>2. CASE StartFails(t)
      BY <2>2 DEF StartFails, TypeOK, Stages, Outcomes, callVars, taskVars
    <2>3. CASE BeginTurn(t)
      BY <2>3 DEF BeginTurn, TypeOK, callVars, taskVars
    <2>4. CASE Close(t)
      BY <2>4 DEF Close, TypeOK, Stages, callVars
    <2>. QED BY <1>7, <2>1, <2>2, <2>3, <2>4 DEF Subagent
  <1>8. ASSUME NEW t \in Tasks, Ends(t) PROVE TypeOK'
    <2>1. CASE Reply(t)
      <3>1. /\ active' \in Callers \cup {None}
            /\ UNCHANGED <<turns, kids, stop, before, records, flags>>
        BY <2>1 DEF Reply, TypeOK, keptByLeave
      <3>2. PICK o \in Outcomes : Leave(t, o)
        BY <2>1 DEF Reply, Outcomes
      <3>. QED BY <3>1, <3>2, LeaveTyped DEF TypeOK
    <2>2. CASE TurnFails(t)
      <3>1. "error" \in Outcomes /\ Leave(t, "error")
        BY <2>2 DEF TurnFails, Outcomes
      <3>. QED BY <2>2, <3>1, LeaveTyped DEF TurnFails, TypeOK, keptByLeave
    <2>. QED BY <1>8, <2>1, <2>2 DEF Ends
  <1>9. ASSUME NEW t \in Tasks, Timeout(t) PROVE TypeOK'
    BY <1>9, AbortTyped DEF Timeout, TypeOK, keptByLeave
  <1>10. ASSUME NEW t \in Tasks, Interrupt(t) PROVE TypeOK'
    BY <1>10 DEF Interrupt, TypeOK, callVars
  <1>. QED BY <1>1, <1>2, <1>3, <1>4, <1>5, <1>6, <1>7, <1>8, <1>9, <1>10 DEF Next

-----------------------------------------------------------------------------
(* The registry, the turns and the results.                                  *)

\* Leaving the turn of t, with its batch, if it awaited one, gone.
LEMMA LeaveState ==
  ASSUME IInv, NEW t \in Tasks, NEW o \in Outcomes, run[t] = "converse", Leave(t, o),
         UNCHANGED <<records, flags>>,
         \/ kids[t] = {} /\ kids' = kids
         \/ kids' = [kids EXCEPT ![t] = {}]
  PROVE  TurnsOK' /\ RegistryMatchesRuns'
  <1>. Tasks \subseteq Callers
    BY DEF Callers
  <1>1. kids'[t] = {} /\ \A u \in Tasks : u # t => kids'[u] = kids[u]
    BY DEF IInv, TypeOK
  <1>2. /\ run'[t] = "closing" /\ ~turn'[t] /\ result'[t] = o
        /\ \A u \in Tasks : u # t =>
             run'[u] = run[u] /\ turn'[u] = turn[u] /\ result'[u] = result[u]
    BY DEF IInv, TypeOK, Leave
  <1>3. TurnsOK'
    BY <1>1, <1>2 DEF IInv, TurnsOK
  <1>4. RegistryMatchesRuns'
    BY <1>2 DEF IInv, RegistryMatchesRuns, InRegistry
  <1>. QED BY <1>3, <1>4

LEMMA AbortState ==
  ASSUME IInv, NEW t \in Tasks, NEW o \in {"timeout", "cancelled"}, Abort(t, o),
         UNCHANGED <<records, flags, kids>>
  PROVE  TurnsOK' /\ RegistryMatchesRuns'
  <1>1. CASE kids[t] = {}
    BY <1>1, LeaveState DEF Abort, Outcomes
  <1>2. CASE kids[t] # {}
    BY <1>2 DEF Abort, IInv, TurnsOK, RegistryMatchesRuns
  <1>. QED BY <1>1, <1>2

\* Subagents that are created were not used before.
LEMMA CreateState ==
  ASSUME IInv, NEW S, S \subseteq Unused, Create(S),
         UNCHANGED <<turn, result, records, flags>>,
         NEW c \in Callers, Thinks(c),
         kids' = kids \/ kids' = [kids EXCEPT ![c] = S]
  PROVE  TurnsOK' /\ RegistryMatchesRuns'
  <1>. Tasks \subseteq Callers
    BY DEF Callers
  <1>1. /\ \A t \in S : run[t] = "unused" /\ run'[t] = "created"
        /\ \A t \in Tasks \ S : run'[t] = run[t]
        /\ S \subseteq Tasks
    BY DEF Create, Unused
  <1>2. \A t \in Tasks : kids'[t] # {} => turn'[t]
    BY DEF Thinks, IInv, TurnsOK, TypeOK
  <1>3. TurnsOK'
    BY <1>1, <1>2 DEF IInv, TurnsOK
  <1>4. RegistryMatchesRuns'
    BY <1>1 DEF IInv, RegistryMatchesRuns, InRegistry
  <1>. QED BY <1>3, <1>4

LEMMA StateStep == IInv /\ [Next]_vars => TurnsOK' /\ RegistryMatchesRuns'
  <1>. SUFFICES ASSUME IInv, [Next]_vars PROVE TurnsOK' /\ RegistryMatchesRuns'
    OBVIOUS
  <1>. Convs \subseteq Callers /\ Tasks \subseteq Callers /\ Convs \cap Tasks = {}
    BY ConvAssumption DEF Callers
  <1>. TypeOK /\ TurnsOK /\ RegistryMatchesRuns
    BY DEF IInv
  <1>1. CASE UNCHANGED vars
    BY <1>1 DEF vars, TurnsOK, RegistryMatchesRuns
  <1>2. ASSUME NEW c \in Convs, Conv(c) PROVE TurnsOK' /\ RegistryMatchesRuns'
    <2>1. /\ UNCHANGED <<kids, run, result, records, flags>>
          /\ \A t \in Tasks : turn'[t] = turn[t]
      BY <1>2 DEF Conv, UserTurn, EndTurn, UserCancel, taskVars, TypeOK
    <2>. QED BY <2>1 DEF TurnsOK, RegistryMatchesRuns
  <1>3. ASSUME NEW c \in Callers, Call(c) PROVE TurnsOK' /\ RegistryMatchesRuns'
    <2>1. CASE BatchReturn(c)
      <3>1. /\ UNCHANGED <<turn, run, result, records, flags>>
            /\ \A t \in Tasks : kids'[t] # {} => kids[t] # {}
        BY <2>1 DEF BatchReturn, taskVars, TypeOK
      <3>. QED BY <3>1 DEF TurnsOK, RegistryMatchesRuns
    <2>2. CASE Unwind(c) /\ c \in Tasks
      <3>1. /\ Leave(c, stop[c]) /\ stop[c] \in Outcomes
            /\ kids' = [kids EXCEPT ![c] = {}]
            /\ UNCHANGED <<records, flags>>
        BY <2>2 DEF Unwind, TypeOK, Outcomes
      <3>2. run[c] = "converse"
        BY <2>2 DEF Unwind, Joined, TurnsOK
      <3>. QED BY <2>2, <3>1, <3>2, LeaveState
    <2>3. CASE Unwind(c) /\ c \notin Tasks
      <3>1. /\ UNCHANGED <<run, result, records, flags>>
            /\ \A t \in Tasks : turn'[t] = turn[t] /\ kids'[t] = kids[t]
        BY <2>3 DEF Unwind, TypeOK
      <3>. QED BY <3>1 DEF TurnsOK, RegistryMatchesRuns
    <2>. QED BY <1>3, <2>1, <2>2, <2>3 DEF Call
  <1>4. ASSUME NEW c \in Callers, Delegate(c) PROVE TurnsOK' /\ RegistryMatchesRuns'
    <2>1. NextIds(1) \subseteq Unused
      BY DEF NextIds
    <2>. QED BY <1>4, <2>1, CreateState DEF Delegate, taskVars
  <1>5. ASSUME NEW c \in Callers, NEW n \in 1..MaxBatch, DelegateBatch(c, n)
        PROVE  TurnsOK' /\ RegistryMatchesRuns'
    <2>1. NextIds(n) \subseteq Unused
      BY DEF NextIds
    <2>. QED BY <1>5, <2>1, CreateState DEF DelegateBatch, taskVars
  <1>6. ASSUME NEW c \in Callers, NEW t \in Tasks, CancelChild(c, t)
        PROVE  TurnsOK' /\ RegistryMatchesRuns'
    <2>1. CASE Abort(t, "cancelled")
      BY <1>6, <2>1, AbortState DEF CancelChild, keptByLeave
    <2>2. CASE ~Abort(t, "cancelled")
      <3>1. /\ run[t] = "created" /\ run' = [run EXCEPT ![t] = "over"]
            /\ result' = [result EXCEPT ![t] = "cancelled"]
            /\ UNCHANGED <<turn, kids, records, flags>>
        BY <1>6, <2>2 DEF CancelChild, keptByLeave
      <3>. QED BY <3>1 DEF TypeOK, TurnsOK, RegistryMatchesRuns, InRegistry, Outcomes
    <2>. QED BY <2>1, <2>2
  <1>7. ASSUME NEW t \in Tasks, Subagent(t) PROVE TurnsOK' /\ RegistryMatchesRuns'
    <2>1. CASE Start(t)
      BY <2>1 DEF Start, TypeOK, TurnsOK, RegistryMatchesRuns, InRegistry, callVars
    <2>2. CASE StartFails(t)
      BY <2>2 DEF StartFails, TypeOK, TurnsOK, RegistryMatchesRuns, InRegistry, Outcomes,
                  callVars, taskVars
    <2>3. CASE BeginTurn(t)
      BY <2>3 DEF BeginTurn, TypeOK, TurnsOK, RegistryMatchesRuns, callVars, taskVars
    <2>4. CASE Close(t)
      BY <2>4 DEF Close, TypeOK, TurnsOK, RegistryMatchesRuns, InRegistry, callVars
    <2>. QED BY <1>7, <2>1, <2>2, <2>3, <2>4 DEF Subagent
  <1>8. ASSUME NEW t \in Tasks, Ends(t) PROVE TurnsOK' /\ RegistryMatchesRuns'
    <2>1. PICK o \in Outcomes : Leave(t, o)
      BY <1>8 DEF Ends, Reply, TurnFails, Outcomes
    <2>2. /\ run[t] = "converse" /\ kids[t] = {} /\ kids' = kids
          /\ UNCHANGED <<records, flags>>
      BY <1>8 DEF Ends, Reply, TurnFails, Thinks, keptByLeave
    <2>. QED BY <2>1, <2>2, LeaveState
  <1>9. ASSUME NEW t \in Tasks, Timeout(t) PROVE TurnsOK' /\ RegistryMatchesRuns'
    BY <1>9, AbortState DEF Timeout, keptByLeave
  <1>10. ASSUME NEW t \in Tasks, Interrupt(t) PROVE TurnsOK' /\ RegistryMatchesRuns'
    BY <1>10 DEF Interrupt, TurnsOK, RegistryMatchesRuns, callVars
  <1>. QED BY <1>1, <1>2, <1>3, <1>4, <1>5, <1>6, <1>7, <1>8, <1>9, <1>10 DEF Next

\* The inductive invariant holds in every reachable state.
THEOREM Invariance == Spec => []IInv
  <1>1. IInv /\ [Next]_vars => IInv'
    BY TypeStep, StateStep DEF IInv
  <1>. QED BY <1>1, InitOK, PTL DEF Spec

\* Every variable of the executor keeps its type (delegation/executor.py).
THEOREM TypeCorrect == Spec => []TypeOK
  <1>1. IInv => TypeOK
    BY DEF IInv
  <1>. QED BY <1>1, Invariance, PTL

\* The registry of subagents names those at work and no other, and no interrupt
\* flag outlives its subagent, however subagents end (executor.py:432-435).
THEOREM RegistryCorrect == Spec => []RegistryMatchesRuns
  <1>1. IInv => RegistryMatchesRuns
    BY DEF IInv
  <1>. QED BY <1>1, Invariance, PTL

-----------------------------------------------------------------------------
(* Interrupts.                                                               *)

\* Only the reply of a subagent without a flag completes it.
LEMMA InterruptStep ==
  ASSUME IInv, [Next]_vars, NEW t \in Tasks, t \in flags, result[t] = None
  PROVE  result'[t] # "completed"
  <1>. None \notin Outcomes /\ "completed" \in Outcomes
    BY ConvAssumption DEF Outcomes
  <1>. result \in [Tasks -> Outcomes \cup {None}]
    BY DEF IInv, TypeOK
  <1>. stop \in [Callers -> {"no", "timeout", "cancelled"}] /\ Tasks \subseteq Callers
    BY DEF IInv, TypeOK, Callers
  <1>1. ASSUME NEW u \in Tasks, NEW o, Leave(u, o), u \notin flags \/ o # "completed"
        PROVE  result'[t] # "completed"
    BY <1>1 DEF Leave
  <1>2. CASE result' = result
    BY <1>2
  <1>3. ASSUME NEW c \in Callers, Unwind(c), c \in Tasks PROVE result'[t] # "completed"
    BY <1>1, <1>3 DEF Unwind
  <1>4. ASSUME NEW u \in Tasks, NEW o \in {"timeout", "cancelled"}, Abort(u, o)
        PROVE  result'[t] # "completed"
    BY <1>1, <1>2, <1>4 DEF Abort
  <1>5. ASSUME NEW u \in Tasks, Ends(u) PROVE result'[t] # "completed"
    BY <1>1, <1>5 DEF Ends, Reply, TurnFails
  <1>6. ASSUME NEW c \in Callers, NEW u \in Tasks, CancelChild(c, u)
        PROVE  result'[t] # "completed"
    <2>1. CASE Abort(u, "cancelled")
      BY <1>4, <2>1
    <2>2. CASE result' = [result EXCEPT ![u] = "cancelled"]
      BY <2>2
    <2>. QED BY <1>6, <2>1, <2>2 DEF CancelChild
  <1>7. ASSUME NEW u \in Tasks, Subagent(u) PROVE result'[t] # "completed"
    <2>1. result' = result \/ result' = [result EXCEPT ![u] = "error"]
      BY <1>7 DEF Subagent, Start, StartFails, BeginTurn, Close
    <2>. QED BY <2>1
  <1>8. ASSUME NEW u \in Tasks, Timeout(u) PROVE result'[t] # "completed"
    BY <1>4, <1>8 DEF Timeout
  <1>9. ASSUME NEW c \in Callers, Call(c), Unwind(c) => c \notin Tasks
        PROVE  result' = result
    BY <1>9 DEF Call, BatchReturn, Unwind
  <1>10. ASSUME NEW c \in Callers,
                Delegate(c) \/ \E n \in 1..MaxBatch : DelegateBatch(c, n)
         PROVE  result' = result
    BY <1>10 DEF Delegate, DelegateBatch
  <1>11. ASSUME NEW c \in Convs, Conv(c) PROVE result' = result
    BY <1>11 DEF Conv, UserTurn, EndTurn, UserCancel
  <1>12. ASSUME NEW u \in Tasks, Interrupt(u) PROVE result' = result
    BY <1>12 DEF Interrupt
  <1>13. CASE UNCHANGED vars
    BY <1>2, <1>13 DEF vars
  <1>14. ASSUME NEW c \in Callers, Call(c) PROVE result'[t] # "completed"
    BY <1>2, <1>3, <1>9, <1>14
  <1>. QED BY <1>2, <1>5, <1>6, <1>7, <1>8, <1>10, <1>11, <1>12, <1>13, <1>14 DEF Next

\* A subagent that was interrupted while its turn ran is not reported as completed
\* (executor.py:599-623, interrupt_subagent 699-707).
THEOREM InterruptsSeen == Spec => InterruptSeen
  <1>1. IInv /\ [Next]_vars =>
          [\A t \in Tasks : t \in flags /\ result[t] = None => result'[t] # "completed"]_vars
    BY InterruptStep
  <1>. QED BY <1>1, Invariance, PTL DEF Spec, InterruptSeen

-----------------------------------------------------------------------------
(* The refinement.                                                           *)

Open == {t \in Tasks : run[t] \notin {"unused", "over"}}
Outcome == [t \in Tasks |-> IF run[t] = "over" THEN result[t] ELSE None]

\* What happens inside a subagent the service does not see.
LEMMA Hidden ==
  ASSUME \A t \in Tasks : run'[t] = run[t]
                          \/ {run'[t], run[t]} \subseteq {"created", "converse", "closing"},
         \A t \in Tasks : run[t] = "over" => result'[t] = result[t],
         kids' = kids
  PROVE  UNCHANGED Service!vars
  <1>1. Open' = Open /\ Outcome' = Outcome
    BY DEF Open, Outcome
  <1>. QED BY <1>1 DEF Open, Outcome, Service!vars

\* A subagent that is over has ended for the service.
LEMMA Ended ==
  ASSUME IInv, NEW t \in Tasks, NEW o \in Outcomes, run[t] \notin {"unused", "over"},
         run' = [run EXCEPT ![t] = "over"],
         \A u \in Tasks \ {t} : result'[u] = result[u],
         result'[t] = o, kids' = kids
  PROVE  Service!Next
  <1>1. run'[t] = "over" /\ \A u \in Tasks \ {t} : run'[u] = run[u]
    BY DEF IInv, TypeOK
  <1>2. t \in Open /\ Open' = Open \ {t}
    BY <1>1 DEF Open
  <1>3. Outcome' = [Outcome EXCEPT ![t] = o]
    BY <1>1 DEF Outcome
  <1>4. Service!End(t, o)
    BY <1>2, <1>3 DEF Open, Outcome, Service!End
  <1>. QED BY <1>4 DEF Service!Next

\* Subagents that are created are opened for the service.
LEMMA Opened ==
  ASSUME IInv, NEW c \in Callers, Thinks(c), NEW S \in SUBSET Unused, Create(S),
         NEW wait \in BOOLEAN, kids' = [kids EXCEPT ![c] = IF wait THEN S ELSE {}],
         result' = result
  PROVE  Service!Next
  <1>1. S \in SUBSET Tasks /\ S # {} /\ kids[c] = {}
    BY DEF Unused, Create, Thinks
  <1>2. Open' = Open \cup S /\ S \cap Open = {}
    BY DEF Open, Create, Unused
  <1>3. Outcome' = Outcome /\ \A t \in S : Outcome[t] = None
    BY DEF Outcome, Create, Unused
  <1>4. S \subseteq Service!Fresh
    BY <1>1, <1>2, <1>3 DEF Open, Outcome, Service!Fresh
  <1>5. Service!Open(c, S, wait)
    BY <1>1, <1>2, <1>3, <1>4 DEF Open, Outcome, Service!Open
  <1>. QED BY <1>1, <1>5 DEF Service!Next

\* A batch whose subagents are over is joined.
LEMMA Joins ==
  ASSUME NEW c \in Callers, Joined(c), kids' = [kids EXCEPT ![c] = {}],
         Open' = Open, Outcome' = Outcome
  PROVE  Service!Next
  <1>1. kids[c] # {} /\ kids[c] \cap Open = {}
    BY DEF Joined, Open
  <1>2. Service!Join(c)
    BY <1>1 DEF Open, Outcome, Service!Join
  <1>. QED BY <1>2 DEF Service!Next

\* Leaving the turn of a subagent does not end it yet.
LEMMA LeaveHidden ==
  ASSUME IInv, NEW t \in Tasks, run[t] = "converse", NEW o, Leave(t, o)
  PROVE  /\ \A u \in Tasks : run'[u] = run[u]
                             \/ {run'[u], run[u]} \subseteq {"created", "converse", "closing"}
         /\ \A u \in Tasks : run[u] = "over" => result'[u] = result[u]
  BY DEF IInv, TypeOK, Leave

LEMMA AbortHidden ==
  ASSUME IInv, NEW t \in Tasks, NEW o, Abort(t, o), kids' = kids
  PROVE  UNCHANGED Service!vars
  <1>1. CASE kids[t] = {}
    BY <1>1, LeaveHidden, Hidden DEF Abort
  <1>2. CASE kids[t] # {}
    BY <1>2, Hidden DEF Abort
  <1>. QED BY <1>1, <1>2

LEMMA ServiceInit == Init => Service!Init
  BY DEF Init, Service!Init

LEMMA ServiceStep == IInv /\ [Next]_vars => [Service!Next]_Service!vars
  <1>. SUFFICES ASSUME IInv, [Next]_vars PROVE Service!Next \/ UNCHANGED Service!vars
    OBVIOUS
  <1>. TypeOK /\ TurnsOK
    BY DEF IInv
  <1>1. CASE UNCHANGED <<run, result, kids>>
    BY <1>1, Hidden
  <1>2. ASSUME NEW c \in Convs, Conv(c) PROVE UNCHANGED <<run, result, kids>>
    BY <1>2 DEF Conv, UserTurn, EndTurn, UserCancel
  <1>3. ASSUME NEW c \in Callers, Call(c) PROVE Service!Next
    <2>1. Joined(c) /\ kids' = [kids EXCEPT ![c] = {}]
      BY <1>3 DEF Call, BatchReturn, Unwind
    <2>2. CASE UNCHANGED <<run, result>>
      <3>1. Open' = Open /\ Outcome' = Outcome
        BY <2>2 DEF Open, Outcome
      <3>. QED BY <2>1, <3>1, Joins
    <2>3. CASE c \in Tasks /\ Leave(c, stop[c])
      <3>1. run[c] = "converse"
        BY <2>1, <2>3 DEF Joined, TurnsOK
      <3>2. Open' = Open /\ Outcome' = Outcome
        BY <2>3, <3>1, LeaveHidden DEF Open, Outcome
      <3>. QED BY <2>1, <3>2, Joins
    <2>. QED BY <1>3, <2>2, <2>3 DEF Call, BatchReturn, Unwind
  <1>4. ASSUME NEW c \in Callers, Delegate(c) PROVE Service!Next
    <2>1. NextIds(1) \in SUBSET Unused
      BY DEF NextIds
    <2>2. kids' = [kids EXCEPT ![c] = IF FALSE THEN NextIds(1) ELSE {}]
      BY <1>4 DEF Delegate, Thinks, TypeOK
    <2>. QED BY <1>4, <2>1, <2>2, Opened DEF Delegate
  <1>5. ASSUME NEW c \in Callers, NEW n \in 1..MaxBatch, DelegateBatch(c, n)
        PROVE  Service!Next
    <2>1. NextIds(n) \in SUBSET Unused
      BY DEF NextIds
    <2>2. kids' = [kids EXCEPT ![c] = IF TRUE THEN NextIds(n) ELSE {}]
      BY <1>5 DEF DelegateBatch
    <2>. QED BY <1>5, <2>1, <2>2, Opened DEF DelegateBatch
  <1>6. ASSUME NEW c \in Callers, NEW t \in Tasks, CancelChild(c, t)
        PROVE  Service!Next \/ UNCHANGED Service!vars
    <2>1. CASE Abort(t, "cancelled")
      BY <1>6, <2>1, AbortHidden DEF CancelChild
    <2>2. CASE /\ run[t] = "created" /\ run' = [run EXCEPT ![t] = "over"]
               /\ result' = [result EXCEPT ![t] = "cancelled"]
      BY <1>6, <2>2, Ended DEF CancelChild, TypeOK, Outcomes
    <2>. QED BY <1>6, <2>1, <2>2 DEF CancelChild
  <1>7. ASSUME NEW t \in Tasks, Subagent(t) PROVE Service!Next \/ UNCHANGED Service!vars
    <2>1. CASE Start(t)
      BY <2>1, Hidden DEF Start, TypeOK
    <2>2. CASE StartFails(t)
      BY <2>2, Ended DEF StartFails, TypeOK, Outcomes
    <2>3. CASE BeginTurn(t)
      BY <2>3, Hidden DEF BeginTurn
    <2>4. CASE Close(t)
      BY <2>4, Ended DEF Close, TurnsOK
    <2>. QED BY <1>7, <2>1, <2>2, <2>3, <2>4 DEF Subagent
  <1>8. ASSUME NEW t \in Tasks, Ends(t) PROVE UNCHANGED Service!vars
    <2>1. PICK o \in Outcomes : Leave(t, o)
      BY <1>8 DEF Ends, Reply, TurnFails, Outcomes
    <2>2. run[t] = "converse" /\ kids' = kids
      BY <1>8 DEF Ends, Reply, TurnFails
    <2>. QED BY <2>1, <2>2, LeaveHidden, Hidden
  <1>9. ASSUME NEW t \in Tasks, Timeout(t) PROVE UNCHANGED Service!vars
    BY <1>9, AbortHidden DEF Timeout
  <1>10. ASSUME NEW t \in Tasks, Interrupt(t) PROVE UNCHANGED <<run, result, kids>>
    BY <1>10 DEF Interrupt
  <1>11. CASE UNCHANGED vars
    BY <1>1, <1>11 DEF vars
  <1>. QED BY <1>1, <1>2, <1>3, <1>4, <1>5, <1>6, <1>7, <1>8, <1>9, <1>10, <1>11 DEF Next

\* The executor, its tools and gather implement the abstract service: opened once,
\* ended once with one outcome, joined when all have ended.
THEOREM Refinement == Spec => ImplementsService
  BY ServiceInit, ServiceStep, Invariance, PTL DEF Spec, ImplementsService, Service!Spec
=============================================================================
