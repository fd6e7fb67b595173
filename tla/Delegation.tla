----------------------------- MODULE Delegation -----------------------------
(***************************************************************************)
(* Subagents (delegation/executor.py, tool.py, command.py).  A turn of the   *)
(* assist pipeline may hand a task to a subagent: DelegateTask starts one    *)
(* and goes on, DelegateBatch starts several and waits for all of them.  A   *)
(* subagent is a turn of its own in the conversation "subagent:<id>" (here   *)
(* <id> itself), run under a timeout, and may delegate in its turn.          *)
(*                                                                           *)
(* The code runs on one event loop; a step of the model is what happens      *)
(* between two awaits that may suspend.  The locks of the module never       *)
(* block, because nothing is awaited while one is held.                      *)
(***************************************************************************)
EXTENDS Naturals, FiniteSets

CONSTANTS Convs,     \* conversations of users
          Tasks,     \* identifiers of subagents, numbered as they are given
          MaxBatch,  \* max_concurrent_children
          MaxTurns,  \* bound of the model: turns users start
          None       \* no conversation, no result

Callers == Convs \cup Tasks

Outcomes == {"completed", "interrupted", "timeout", "cancelled", "error"}

ASSUME ConvAssumption == /\ Tasks \subseteq Nat
                         /\ Convs \cap Tasks = {}
                         /\ None \notin Callers
                         /\ None \notin Outcomes
ASSUME BoundAssumption == MaxBatch \in Nat \ {0} /\ MaxTurns \in Nat

VARIABLES
  active,  \* active_conversation["id"], one for the whole instance
  turn,    \* turn[c]: a turn of conversation c is in progress
  turns,   \* number of turns users have started
  kids,    \* kids[c]: the batch the turn of c awaits, {} if it awaits none
  before,  \* conv_id_before, a local of the DelegateBatch call of c
  answer,  \* what the last DelegateBatch call of the turn returned
  stop,    \* stop[c]: why the turn of c is being cancelled, if it is
  run,     \* run[t]: how far delegate_task got
  saved,   \* parent_conv_id, a local of the running t
  records, \* _active_subagents: the subagents that have a record
  flags,   \* _interrupt_flags; the record of such a t is "interrupting"
  result   \* result[t]: the SubagentResult of t

vars == <<active, turn, turns, kids, before, answer, stop, run, saved, records,
          flags, result>>
callVars == <<before, answer>>
taskVars == <<saved, records, flags>>
keptByLeave == <<before, records, flags>>

Stages == {"unused", "created", "converse", "closing", "over"}
InRegistry == {"converse", "closing"}

TypeOK ==
  /\ active \in Callers \cup {None}
  /\ turn \in [Callers -> BOOLEAN]
  /\ turns \in 0..MaxTurns
  /\ kids \in [Callers -> SUBSET Tasks]
  /\ before \in [Callers -> Callers \cup {None}]
  /\ answer \in [Callers -> {"none", "results", "switched"}]
  /\ stop \in [Callers -> {"no", "timeout", "cancelled"}]
  /\ run \in [Tasks -> Stages]
  /\ saved \in [Tasks -> Callers \cup {None}]
  /\ records \subseteq Tasks
  /\ flags \subseteq Tasks
  /\ result \in [Tasks -> Outcomes \cup {None}]

Init ==
  /\ active = None
  /\ turn = [c \in Callers |-> FALSE]
  /\ turns = 0
  /\ kids = [c \in Callers |-> {}]
  /\ before = [c \in Callers |-> None]
  /\ answer = [c \in Callers |-> "none"]
  /\ stop = [c \in Callers |-> "no"]
  /\ run = [t \in Tasks |-> "unused"]
  /\ saved = [t \in Tasks |-> None]
  /\ records = {}
  /\ flags = {}
  /\ result = [t \in Tasks |-> None]

Unused == {t \in Tasks : run[t] = "unused"}
\* The identifiers of the next n subagents: fresh ones, in the model in order.
NextIds(n) == {t \in Unused : Cardinality({u \in Unused : u < t}) < n}
\* The turn of c runs, and is not suspended in a DelegateBatch call.
Thinks(c) == turn[c] /\ kids[c] = {}
JoinedByFirst(c) == \E t \in kids[c] : run[t] = "over"
Joined(c) == kids[c] # {} /\ \A t \in kids[c] : run[t] = "over"

-----------------------------------------------------------------------------
(* The turns of users.  A turn makes its conversation the active one.        *)

UserTurn(c) ==
  /\ c \in Convs /\ ~turn[c]
  /\ turns < MaxTurns
  /\ turns' = turns + 1
  /\ turn' = [turn EXCEPT ![c] = TRUE]
  /\ active' = c
  /\ answer' = [answer EXCEPT ![c] = "none"]
  /\ UNCHANGED <<kids, before, stop, run, result, taskVars>>

EndTurn(c) ==
  /\ c \in Convs /\ Thinks(c)
  /\ turn' = [turn EXCEPT ![c] = FALSE]
  /\ UNCHANGED <<active, turns, kids, stop, run, result, callVars, taskVars>>

\* The client goes away: the turn is cancelled where it is suspended.  In a
\* batch the cancellation is passed on first, and the turn ends after it.
UserCancel(c) ==
  /\ c \in Convs /\ turn[c] /\ stop[c] = "no"
  /\ IF kids[c] = {}
     THEN turn' = [turn EXCEPT ![c] = FALSE] /\ UNCHANGED stop
     ELSE stop' = [stop EXCEPT ![c] = "cancelled"] /\ UNCHANGED turn
  /\ UNCHANGED <<active, turns, kids, run, result, callVars, taskVars>>

-----------------------------------------------------------------------------
(* The tools.  Neither passes a parent depth, and no tool is withheld from   *)
(* a subagent, so that any turn may call them.                               *)

Create(S) ==
  /\ S # {}
  /\ run' = [t \in Tasks |-> IF t \in S THEN "created" ELSE run[t]]

Delegate(c) ==
  /\ Thinks(c)
  /\ Create(NextIds(1))
  /\ UNCHANGED <<active, turn, turns, kids, stop, result, callVars, taskVars>>

\* A batch of more than MaxBatch tasks is refused.
DelegateBatch(c, n) ==
  /\ Thinks(c)
  /\ Cardinality(Unused) >= n
  /\ Create(NextIds(n))
  /\ kids' = [kids EXCEPT ![c] = NextIds(n)]
  /\ before' = [before EXCEPT ![c] = active]
  /\ UNCHANGED <<active, turn, turns, answer, stop, result, taskVars>>

\* What the wrapper of every tool call says after the call: nothing of its
\* result, if another conversation has become the active one meanwhile.
ToolAnswer(c) ==
  IF before[c] # None /\ active # None /\ before[c] # active
  THEN "switched" ELSE "results"

BatchReturn(c) ==
  /\ Joined(c) /\ stop[c] = "no"
  /\ kids' = [kids EXCEPT ![c] = {}]
  /\ before' = [before EXCEPT ![c] = None]
  /\ answer' = [answer EXCEPT ![c] = ToolAnswer(c)]
  /\ UNCHANGED <<active, turn, turns, stop, run, result, taskVars>>

-----------------------------------------------------------------------------
(* A subagent.                                                               *)

\* delegate_task from its call to the await of the child's turn.
Start(t) ==
  /\ run[t] = "created"
  /\ run' = [run EXCEPT ![t] = "converse"]
  /\ records' = records \cup {t}
  /\ saved' = [saved EXCEPT ![t] = active]
  /\ UNCHANGED <<active, turn, turns, kids, stop, flags, result, callVars>>

\* No config entry or no agent: the record comes and goes in one step.
StartFails(t) ==
  /\ run[t] = "created"
  /\ run' = [run EXCEPT ![t] = "over"]
  /\ result' = [result EXCEPT ![t] = "error"]
  /\ UNCHANGED <<active, turn, turns, kids, stop, callVars, taskVars>>

\* The child's turn reaches the pipeline and makes itself the active one.
BeginTurn(t) ==
  /\ run[t] = "converse" /\ ~turn[t]
  /\ turn' = [turn EXCEPT ![t] = TRUE]
  /\ active' = t
  /\ UNCHANGED <<turns, kids, stop, run, result, callVars, taskVars>>

\* The child's turn is left with result o; the finally clause then awaits the
\* heartbeat task it has cancelled, with the record still in the registry.
Leave(t, o) ==
  /\ run' = [run EXCEPT ![t] = "closing"]
  /\ turn' = [turn EXCEPT ![t] = FALSE]
  /\ result' = [result EXCEPT ![t] = o]
  /\ saved' = [saved EXCEPT ![t] = None]
  /\ answer' = [answer EXCEPT ![t] = "none"]

\* A reply that does not look at the interrupt flag.
ReplyUnasked(t) ==
  /\ run[t] = "converse" /\ Thinks(t)
  /\ active' = IF saved[t] # None THEN saved[t] ELSE active
  /\ Leave(t, "completed")
  /\ UNCHANGED <<turns, kids, stop, keptByLeave>>

\* The reply is the only way out that gives the active conversation back.
Reply(t) ==
  /\ run[t] = "converse" /\ Thinks(t)
  /\ active' = IF saved[t] # None THEN saved[t] ELSE active
  /\ Leave(t, IF t \in flags THEN "interrupted" ELSE "completed")
  /\ UNCHANGED <<turns, kids, stop, keptByLeave>>

TurnFails(t) ==
  /\ run[t] = "converse" /\ Thinks(t)
  /\ Leave(t, "error")
  /\ UNCHANGED <<active, turns, kids, stop, keptByLeave>>

\* wait_for gives up, or the task of the child is cancelled, for the reason o:
\* at once, or after the batch that the child's own turn awaits.
Abort(t, o) ==
  /\ run[t] = "converse"
  /\ IF kids[t] = {}
     THEN Leave(t, o) /\ UNCHANGED stop
     ELSE /\ stop' = [stop EXCEPT ![t] = o]
          /\ UNCHANGED <<run, turn, result, saved, answer>>

\* A timeout under a name that nobody knows, and one around the start only.
TimeoutUnnamed(t) ==
  /\ stop[t] = "no"
  /\ Abort(t, "timed_out")
  /\ UNCHANGED <<active, turns, kids, keptByLeave>>
TimeoutOfStart(t) ==
  /\ stop[t] = "no" /\ ~turn[t]
  /\ Abort(t, "timeout")
  /\ UNCHANGED <<active, turns, kids, keptByLeave>>
Timeout(t) ==
  /\ stop[t] = "no"
  /\ Abort(t, "timeout")
  /\ UNCHANGED <<active, turns, kids, keptByLeave>>

\* gather passes the cancellation of its caller on to every child of the batch.
\* A child that is closing swallows it: it hits the await of the heartbeat.
CancelChild(c, t) ==
  /\ stop[c] # "no" /\ t \in kids[c]
  /\ \/ /\ run[t] = "created"
        /\ run' = [run EXCEPT ![t] = "over"]
        /\ result' = [result EXCEPT ![t] = "cancelled"]
        /\ UNCHANGED <<turn, stop, saved, answer>>
     \/ stop[t] # "cancelled" /\ Abort(t, "cancelled")
  /\ UNCHANGED <<active, turns, kids, keptByLeave>>

\* The batch of a cancelled turn is over: the turn ends too.
Unwind(c) ==
  /\ Joined(c) /\ stop[c] # "no"
  /\ kids' = [kids EXCEPT ![c] = {}]
  /\ stop' = [stop EXCEPT ![c] = "no"]
  /\ IF c \in Tasks
     THEN Leave(c, stop[c])
     ELSE /\ turn' = [turn EXCEPT ![c] = FALSE]
          /\ UNCHANGED <<run, result, saved, answer>>
  /\ before' = [before EXCEPT ![c] = None]
  /\ UNCHANGED <<active, turns, records, flags>>

\* The interrupt flag is left behind.
CloseKeepingFlag(t) ==
  /\ run[t] = "closing"
  /\ run' = [run EXCEPT ![t] = "over"]
  /\ records' = records \ {t}
  /\ UNCHANGED <<active, turn, turns, kids, stop, saved, flags, result, callVars>>

\* The heartbeat task is gone: the record and the flag are dropped.
Close(t) ==
  /\ run[t] = "closing"
  /\ run' = [run EXCEPT ![t] = "over"]
  /\ records' = records \ {t}
  /\ flags' = flags \ {t}
  /\ UNCHANGED <<active, turn, turns, kids, stop, saved, result, callVars>>

\* /ooo stop <id>, accepted when the record exists.
Interrupt(t) ==
  /\ t \in records
  /\ flags' = flags \cup {t}
  /\ UNCHANGED <<active, turn, turns, kids, stop, run, saved, records, result,
                 callVars>>

-----------------------------------------------------------------------------
Conv(c) == UserTurn(c) \/ EndTurn(c) \/ UserCancel(c)

Call(c) == BatchReturn(c) \/ Unwind(c)

Subagent(t) == Start(t) \/ StartFails(t) \/ BeginTurn(t) \/ Close(t)

Ends(t) == Reply(t) \/ TurnFails(t)

Next ==
  \/ \E c \in Convs : Conv(c)
  \/ \E c \in Callers : Call(c) \/ Delegate(c) \/ \E n \in 1..MaxBatch : DelegateBatch(c, n)
  \/ \E c \in Callers, t \in Tasks : CancelChild(c, t)
  \/ \E t \in Tasks : Subagent(t) \/ Ends(t) \/ Timeout(t) \/ Interrupt(t)

Spec == Init /\ [][Next]_vars

\* The event loop runs every ready task, and timers fire: Timeout is the timer
\* of wait_for.  That a model answers at all is not assumed.
FairSpec ==
  /\ Spec
  /\ \A c \in Callers : WF_vars(Call(c))
  /\ \A t \in Tasks : WF_vars(Subagent(t)) /\ WF_vars(Timeout(t))
  /\ \A c \in Callers, t \in Tasks : WF_vars(CancelChild(c, t))

-----------------------------------------------------------------------------
(* Properties.                                                               *)

\* The registry that /ooo list, /ooo stop and DelegateStatus read names exactly
\* the subagents at work, and no interrupt flag survives its subagent, on every
\* way a subagent can end (executor.py, the finally clause of delegate_task).
RegistryMatchesRuns ==
  /\ records = {t \in Tasks : run[t] \in InRegistry}
  /\ flags \subseteq records

\* A subagent that was interrupted before its turn ended is never reported as
\* completed (executor.py 602, against interrupt_subagent 699).
InterruptSeen ==
  [][\A t \in Tasks : t \in flags /\ result[t] = None => result'[t] # "completed"]_vars

\* Every subagent that is asked for ends, also when its model hangs, when it
\* waits for subagents of its own, and when its caller is cancelled.
TasksEnd == \A t \in Tasks : run[t] = "created" ~> run[t] = "over"

\* Subagents, seen by their callers, are the service of DelegationService.
Service == INSTANCE DelegationService WITH
  outcome <- [t \in Tasks |-> IF run[t] = "over" THEN result[t] ELSE None],
  open <- {t \in Tasks : run[t] \notin {"unused", "over"}},
  waiting <- kids

\* Opened once, ended once with one outcome, and awaited to the end of the
\* batch: by delegate_task, delegate_batch and the gather it uses.
ImplementsService == Service!Spec
=============================================================================
