----------------------------- MODULE TurnKernel -----------------------------
(***************************************************************************)
(* A turn that has no fallback agents (runtime/agent/orchestrator.py): the   *)
(* kernel lets a planner choose one tool call after the other                *)
(* (turn_kernel.py); when the planner gives nothing usable, the agent is      *)
(* asked directly and calls tools itself, several at a time                   *)
(* (llm/internal_llm.py, ParallelToolCall in tools/misc_tools.py); when the    *)
(* reply announces more work, all of it is done again, a bounded number of     *)
(* times (loop_controller.py).                                                *)
(*                                                                           *)
(* Every path asks check_tool_repeat before a call and records the call, the *)
(* kernel before it, the others after it: between the two other calls of the  *)
(* turn, other turns of the conversation and turns of other conversations     *)
(* run.  The guard counts in two lists that keep their last entries only.  They *)
(* belong to a conversation, the active conversation and the kernel flag to    *)
(* the whole instance.                                                        *)
(***************************************************************************)
EXTENDS Integers, FiniteSets, SequencesExt

CONSTANTS Convs,          \* conversations
          Runs,           \* turns of users
          Calls,          \* tool calls: a tool with its arguments
          Tool,           \* Tool[k]: the tool of the call k
          Specs,          \* Specs[k]: the calls inside k, {} but for ParallelToolCall
          Repeat,         \* max_tool_repeat
          Warn,           \* identical_call_warn
          Stop,           \* identical_call_stop
          MaxKernelSteps, \* _MAX_KERNEL_STEPS
          MaxCont,        \* max_continuations_per_turn
          MaxTrace,       \* _MAX_TRACE_ENTRIES: the steps that are kept
          MaxToolUsage,   \* _MAX_TOOL_USAGE_ENTRIES: the usages that are kept
          MaxFlight,      \* bound of the model: calls an agent makes at a time
          MaxCalls,       \* bound of the model: calls the agents make in all
          None            \* no conversation, no call

ASSUME CallAssumption ==
  /\ Tool \in [Calls -> STRING]
  /\ Specs \in [Calls -> SUBSET Calls]
  /\ \A k \in Calls : k \notin Specs[k] /\ IsFiniteSet(Specs[k])
ASSUME SetAssumption == IsFiniteSet(Runs) /\ None \notin Convs \cup Calls
ASSUME LimitAssumption ==
  {Repeat, Warn, Stop, MaxKernelSteps, MaxTrace, MaxToolUsage, MaxFlight} \subseteq Nat \ {0}
ASSUME BoundAssumption == {MaxCont, MaxCalls} \subseteq Nat

VARIABLES
  turn,       \* turn[r]: the locals of the turn r
  flight,     \* flight[r]: the calls of its agent that are under way
  steps,      \* steps[c]: steps of task_loop, the calls of the kernel
  usage,      \* usage[c]: tool_usage of task_loop, the calls of agents
  rounds,     \* rounds[c]: continuation_count of task_loop
  active,     \* active_conversation["id"], one for the whole instance
  kernelMode, \* conversation_status["kernel_mode_active"], likewise
  calls,      \* number of calls agents have made
  executed    \* history: executions of k since the lists were emptied, but for
              \* those the guard cannot know of (see StopBound)

vars == <<turn, flight, steps, usage, rounds, active, kernelMode, calls, executed>>
lists == <<steps, usage>>
sharedVars == <<active, rounds, calls>>

Parallel == "ParallelToolCall"
Slots == 1..MaxFlight
Free == [call |-> None, before |-> None, first |-> TRUE, inside |-> {}]
Stages == {"idle", "ready", "plan", "tool", "direct", "judge", "done"}
InKernel == {"plan", "tool"}
Zero == [k \in Calls |-> 0]

\* An entry of the lists: the call, and (history) whether it was executed.
Entry == [call: Calls, ran: BOOLEAN]

TypeOK ==
  /\ turn \in [Runs -> [conv: Convs \cup {None}, stage: Stages, step: 0..MaxKernelSteps,
                        tried: SUBSET Calls, call: Calls \cup {None},
                        round: 0..MaxCont]]
  /\ calls \in 0..MaxCalls
  /\ flight \in [Runs -> [Slots -> [call: Calls \cup {None}, before: Convs \cup {None},
                                    first: BOOLEAN, inside: SUBSET Calls]]]
  /\ steps \in [Convs -> Seq(Entry)] /\ usage \in [Convs -> Seq(Entry)]
  /\ \A c \in Convs : Len(steps[c]) <= MaxTrace /\ Len(usage[c]) <= MaxToolUsage
  /\ executed \in [Convs -> [Calls -> Nat]]
  /\ rounds \in [Convs -> Nat]
  /\ active \in Convs \cup {None}
  /\ kernelMode \in BOOLEAN

Fresh == [conv |-> None, stage |-> "idle", step |-> 0, tried |-> {}, call |-> None,
          round |-> 0]

Init ==
  /\ turn = [r \in Runs |-> Fresh]
  /\ flight = [r \in Runs |-> [i \in Slots |-> Free]]
  /\ steps = [c \in Convs |-> <<>>]
  /\ usage = [c \in Convs |-> <<>>]
  /\ rounds = [c \in Convs |-> 0]
  /\ active = None
  /\ kernelMode = FALSE
  /\ calls = 0
  /\ executed = [c \in Convs |-> Zero]

-----------------------------------------------------------------------------
(* The guard.  Both counts include the call that asks.                       *)

Of(s, S) == {i \in DOMAIN s : s[i].call \in S}
Ran(s, k) == {i \in DOMAIN s : s[i] = [call |-> k, ran |-> TRUE]}

Entries(c, S) == Cardinality(Of(steps[c], S)) + Cardinality(Of(usage[c], S))

IdenticalBefore(c, k) == Entries(c, {k})
Identical(c, k) == Entries(c, {k}) + 1
SameTool(c, k) == Entries(c, {j \in Calls : Tool[j] = Tool[k]}) + 1

Verdict(c, k) ==
  IF Identical(c, k) >= Stop THEN "stop"
  ELSE IF Identical(c, k) >= Warn THEN "warn"
  ELSE IF SameTool(c, k) >= Repeat THEN IF Tool[k] = Parallel THEN "stop" ELSE "bail"
  ELSE "ok"

\* What keeps an agent's own call from running: a warning does not.
Blocked(c, k) == Verdict(c, k) \in {"stop", "bail"}

\* _trim_list: of the entries, the last ones.
Trimmed(s, max) == IF Len(s) > max THEN SubSeq(s, Len(s) - max + 1, Len(s)) ELSE s

\* How many executions of each call the entries tell of that are not among the last ones.
Lost(s, max) == [k \in Calls |-> Cardinality({i \in Ran(s, k) : i <= Len(s) - max})]

\* The executions f, with those in S besides, and n[k] of each k forgotten.
Count(f, c, S) == [f EXCEPT ![c] = [k \in Calls |-> @[k] + IF k \in S THEN 1 ELSE 0]]
Forget(f, c, n) == [f EXCEPT ![c] = [k \in Calls |-> Max({0, @[k] - n[k]})]]

\* record_kernel_step.
RecordStep(c, k, ran) ==
  LET s == Append(steps[c], [call |-> k, ran |-> ran])
      S == IF ran THEN {k} ELSE {} IN
  /\ steps' = [steps EXCEPT ![c] = Trimmed(s, MaxTrace)]
  /\ executed' = Forget(Count(executed, c, S), c, Lost(s, MaxTrace))
  /\ UNCHANGED usage

\* record_tool_usage, for calls that are over; those in S begin to be executed.
RecordUsage(c, entries, S) ==
  LET s == usage[c] \o entries IN
  /\ usage' = [usage EXCEPT ![c] = Trimmed(s, MaxToolUsage)]
  /\ executed' = Forget(Count(executed, c, S), c, Lost(s, MaxToolUsage))
  /\ UNCHANGED steps

-----------------------------------------------------------------------------
(* The turn: record_user_turn empties the lists of the conversation.         *)

Begin(r, c) ==
  /\ turn[r].stage = "idle"
  /\ turn' = [turn EXCEPT ![r].conv = c, ![r].stage = "ready"]
  /\ active' = c
  /\ rounds' = [rounds EXCEPT ![c] = 0]
  /\ steps' = [steps EXCEPT ![c] = <<>>]
  /\ usage' = [usage EXCEPT ![c] = <<>>]
  /\ executed' = [executed EXCEPT ![c] = Zero]
  /\ UNCHANGED <<flight, kernelMode, calls>>

\* Its locals are gone when the turn is over.
Done(r) == [turn EXCEPT ![r] = [Fresh EXCEPT !.conv = turn[r].conv, !.stage = "done"]]

\* A continuation that is not counted.
ContinueUncounted(r) ==
  /\ turn[r].stage = "judge"
  /\ turn[r].round < MaxCont
  /\ turn' = [turn EXCEPT ![r].stage = "ready"]
  /\ UNCHANGED <<flight, lists, kernelMode, executed, sharedVars>>

\* The reply may announce more work: then kernel and agent have another round,
\* if neither the turn nor the conversation has used its continuations up.
Continue(r) ==
  LET c == turn[r].conv IN
  /\ turn[r].stage = "judge"
  /\ turn[r].round < MaxCont
  /\ rounds' = [rounds EXCEPT ![c] = @ + 1]
  /\ turn' = IF rounds'[c] < MaxCont
             THEN [turn EXCEPT ![r].stage = "ready", ![r].round = @ + 1]
             ELSE Done(r)
  /\ UNCHANGED <<flight, lists, active, kernelMode, calls, executed>>

Finish(r) ==
  /\ turn[r].stage = "judge"
  /\ turn' = Done(r)
  /\ UNCHANGED <<flight, lists, kernelMode, executed, sharedVars>>

-----------------------------------------------------------------------------
(* The kernel.                                                               *)

StartKernel(r) ==
  /\ turn[r].stage = "ready"
  /\ turn' = [turn EXCEPT ![r].stage = "plan", ![r].step = 1]
  /\ kernelMode' = TRUE
  /\ UNCHANGED <<flight, lists, executed, sharedVars>>

LeaveKernel(r, next) ==
  /\ turn' = [turn EXCEPT ![r].stage = next, ![r].step = 0, ![r].tried = {},
                         ![r].call = None]
  /\ kernelMode' = FALSE

\* One step too many.
NextStepBeyond(r, tried) ==
  IF turn[r].step > MaxKernelSteps
  THEN LeaveKernel(r, "judge")
  ELSE /\ turn' = [turn EXCEPT ![r].stage = "plan", ![r].step = @ + 1, ![r].tried = tried,
                              ![r].call = None]
       /\ UNCHANGED kernelMode

\* The next step, unless the step budget is reached.
NextStep(r, tried) ==
  IF turn[r].step = MaxKernelSteps
  THEN LeaveKernel(r, "judge")
  ELSE /\ turn' = [turn EXCEPT ![r].stage = "plan", ![r].step = @ + 1, ![r].tried = tried,
                              ![r].call = None]
       /\ UNCHANGED kernelMode

\* The planner answers the user, asks back or gives up.
PlannerEnds(r) ==
  /\ turn[r].stage = "plan"
  /\ LeaveKernel(r, "judge")
  /\ UNCHANGED <<flight, lists, executed, sharedVars>>

\* It times out or answers no valid step: without a completed step the kernel
\* has no result, and the agent is asked directly.
PlannerFails(r) ==
  /\ turn[r].stage = "plan"
  /\ LeaveKernel(r, IF turn[r].tried = {} THEN "direct" ELSE "judge")
  /\ UNCHANGED <<flight, lists, executed, sharedVars>>

\* The same action a second time ends the kernel.
PlannerRepeats(r, k) ==
  /\ turn[r].stage = "plan"
  /\ k \in turn[r].tried
  /\ LeaveKernel(r, "judge")
  /\ UNCHANGED <<flight, lists, executed, sharedVars>>

\* Any objection of the guard makes the planner choose again.
PlannerRefused(r, k) ==
  /\ turn[r].stage = "plan"
  /\ k \notin turn[r].tried
  /\ Verdict(turn[r].conv, k) # "ok"
  /\ NextStep(r, turn[r].tried)
  /\ UNCHANGED <<flight, lists, executed, sharedVars>>

\* The step is recorded, then executed; ParallelToolCall is not, in the kernel.
PlannerCalls(r, k) ==
  LET c == turn[r].conv IN
  /\ turn[r].stage = "plan"
  /\ k \notin turn[r].tried
  /\ Verdict(c, k) = "ok"
  /\ turn' = [turn EXCEPT ![r].stage = "tool", ![r].call = k]
  /\ RecordStep(c, k, Tool[k] # Parallel)
  /\ UNCHANGED <<flight, kernelMode, sharedVars>>

ToolReturns(r) ==
  /\ turn[r].stage = "tool"
  /\ NextStep(r, turn[r].tried \cup {turn[r].call})
  /\ UNCHANGED <<flight, lists, executed, sharedVars>>

-----------------------------------------------------------------------------
(* The agent calls tools itself.                                             *)

Occupied(r) == {i \in Slots : flight[r][i].call # None}
FreeSlots(r) == Slots \ Occupied(r)

Calling(r) ==
  /\ turn[r].stage = "direct"
  /\ calls < MaxCalls
  /\ calls' = calls + 1

\* A blocked call is answered with the guard's prompt, and recorded.
CallBlocked(r, k) ==
  /\ Calling(r)
  /\ Blocked(turn[r].conv, k)
  /\ RecordUsage(turn[r].conv, <<[call |-> k, ran |-> FALSE]>>, {})
  /\ UNCHANGED <<turn, flight, rounds, active, kernelMode>>

\* The calls inside a ParallelToolCall are judged together, before any of them
\* has run; the blocked ones are recorded at once, in their order.
CallTool(r, k) ==
  LET c == turn[r].conv
      refused == {j \in Specs[k] : Blocked(c, j)} IN
  /\ Calling(r)
  /\ ~Blocked(c, k)
  /\ FreeSlots(r) # {}
  /\ flight' = [flight EXCEPT ![r][CHOOSE i \in FreeSlots(r) : TRUE] =
                  [call |-> k, before |-> active, first |-> TRUE,
                   inside |-> Specs[k] \ refused]]
  /\ \E q \in SetToSeqs(refused) :
       RecordUsage(c, [i \in DOMAIN q |-> [call |-> q[i], ran |-> FALSE]],
                   {k} \cup (Specs[k] \ refused))
  /\ UNCHANGED <<turn, rounds, active, kernelMode>>

\* The end of a call inside a ParallelToolCall, with or without an error.
SpecReturns(r, i, k) ==
  /\ k \in flight[r][i].inside
  /\ flight' = [flight EXCEPT ![r][i].inside = @ \ {k}]
  /\ RecordUsage(turn[r].conv, <<[call |-> k, ran |-> TRUE]>>, {})
  /\ UNCHANGED <<turn, kernelMode, sharedVars>>

Returning(r, i) == i \in Occupied(r) /\ flight[r][i].inside = {}

Switched(r, i) ==
  flight[r][i].before # None /\ active # None /\ flight[r][i].before # active

\* The end of a call.  Its result is thrown away, and the call not recorded, when
\* another conversation has become the active one meanwhile.
CallReturns(r, i) ==
  LET c == turn[r].conv
      k == flight[r][i].call IN
  /\ Returning(r, i)
  /\ flight' = [flight EXCEPT ![r][i] = Free]
  /\ IF Switched(r, i)
     THEN executed' = Forget(executed, c, [Zero EXCEPT ![k] = 1]) /\ UNCHANGED lists
     ELSE RecordUsage(c, <<[call |-> k, ran |-> TRUE]>>, {})
  /\ UNCHANGED <<turn, kernelMode, sharedVars>>

\* A call that fails for good is not recorded.
CallRaisesUncounted(r, i) ==
  /\ Returning(r, i) /\ Tool[flight[r][i].call] # Parallel
  /\ flight' = IF flight[r][i].first
               THEN [flight EXCEPT ![r][i].first = FALSE]
               ELSE [flight EXCEPT ![r][i] = Free]
  /\ UNCHANGED <<turn, lists, kernelMode, executed, sharedVars>>

\* Whatever a tool raises, it is executed once more.  ParallelToolCall keeps
\* the errors of its calls to itself.
CallRaises(r, i) ==
  LET c == turn[r].conv
      k == flight[r][i].call IN
  /\ Returning(r, i) /\ Tool[k] # Parallel
  /\ IF flight[r][i].first
     THEN /\ flight' = [flight EXCEPT ![r][i].first = FALSE]
          /\ UNCHANGED <<lists, executed>>
     ELSE /\ flight' = [flight EXCEPT ![r][i] = Free]
          /\ RecordUsage(c, <<[call |-> k, ran |-> TRUE]>>, {})
  /\ UNCHANGED <<turn, kernelMode, sharedVars>>

AgentReplies(r) ==
  /\ turn[r].stage = "direct"
  /\ Occupied(r) = {}
  /\ turn' = [turn EXCEPT ![r].stage = "judge"]
  /\ UNCHANGED <<flight, lists, kernelMode, executed, sharedVars>>

\* The executions of k that are under way in the turns R.
Places(R, k) ==
  {x \in R \X Slots : LET f == flight[x[1]][x[2]] IN k = f.call \/ k \in f.inside}
Under(R, k) == Cardinality(Places(R, k))

\* The calls that are under way are cancelled with the agent, and not recorded.
DropCalls(r) ==
  /\ flight' = [flight EXCEPT ![r] = [i \in Slots |-> Free]]
  /\ executed' = Forget(executed, turn[r].conv, [k \in Calls |-> Under({r}, k)])

\* The direct call runs under the pipeline timeout, which ends the turn.
AgentTimesOut(r) ==
  /\ turn[r].stage = "direct"
  /\ turn' = Done(r)
  /\ DropCalls(r)
  /\ UNCHANGED <<lists, kernelMode, sharedVars>>

\* The kernel's flag is only dropped when the kernel returns.
CancelKeepingFlag(r) ==
  /\ turn[r].stage \notin {"idle", "done"}
  /\ turn' = Done(r)
  /\ DropCalls(r)
  /\ UNCHANGED <<kernelMode, lists, sharedVars>>

\* The turn is cancelled at the await where it is suspended.
Cancel(r) ==
  /\ turn[r].stage \notin {"idle", "done"}
  /\ turn' = Done(r)
  /\ DropCalls(r)
  /\ kernelMode' = (kernelMode /\ turn[r].stage \notin InKernel)
  /\ UNCHANGED <<lists, sharedVars>>

Work(r) ==
  \/ StartKernel(r) \/ ToolReturns(r)
  \/ \E i \in Slots : CallReturns(r, i) \/ \E k \in Calls : SpecReturns(r, i, k)
  \/ Finish(r)

\* The planner and the agent are asked under a timeout.
Answers(r) ==
  \/ PlannerEnds(r) \/ PlannerFails(r)
  \/ \E k \in Calls : PlannerRepeats(r, k) \/ PlannerRefused(r, k) \/ PlannerCalls(r, k)
  \/ AgentReplies(r) \/ AgentTimesOut(r)

Next ==
  \E r \in Runs :
    \/ \E c \in Convs : Begin(r, c)
    \/ Work(r) \/ Answers(r) \/ Continue(r) \/ Cancel(r)
    \/ \E i \in Slots : CallRaises(r, i)
    \/ \E k \in Calls : CallBlocked(r, k) \/ CallTool(r, k)

Spec == Init /\ [][Next]_vars

\* The event loop resumes what is ready, tools end (an approval they wait for
\* does at its timeout), and so do the calls of planner and agent.
Fairness == \A r \in Runs : WF_vars(Work(r)) /\ WF_vars(Answers(r))

FairSpec == Spec /\ Fairness

-----------------------------------------------------------------------------
(* Properties.                                                               *)

\* How often the limit can be passed: an agent starts a call when the lists tell of
\* fewer than the limit, and the calls that were judged on the same lists all run.  So
\* of the calls that the lists can tell of - the last MaxToolUsage of the agents and
\* the last MaxTrace of the kernel - and those under way, at most Stop - 1 are
\* executions of one call, and as many again as calls of the conversation can be under
\* way besides one.  Left aside are the executions that check_tool_repeat cannot know
\* of: repeated after an exception, ended after a switch of the conversation,
\* cancelled, or trimmed away by later ones.
Turns(c) == {r \in Runs : turn[r].conv = c}
Capacity(c) == Cardinality(Turns(c)) * MaxFlight

StopBound ==
  \A c \in Convs : \A k \in Calls :
    executed[c][k] = 0 \/ executed[c][k] <= Stop - 1 + (Capacity(c) - 1)

\* Every call that was executed is in the lists as one that was, under way, or one of
\* those the guard cannot know of: none of the paths, through kernel, agent and
\* ParallelToolCall, with an error or without, forgets a call it made, until enough
\* others have followed to trim it away.
Recorded(c, k) == Cardinality(Ran(steps[c], k)) + Cardinality(Ran(usage[c], k))

NoCallForgotten ==
  \A c \in Convs : \A k \in Calls :
    executed[c][k] <= Recorded(c, k) + Under(Turns(c), k)

\* A kernel flag that stays behind would hide the progress of every later turn
\* from the frontend (patches.py:652): it is set only while a kernel runs,
\* however the kernel ends.
FlagMeansKernel == kernelMode => \E r \in Runs : turn[r].stage \in InKernel

\* A turn that began ends: kernel and agent have a bounded number of rounds,
\* even when turns of one conversation share the continuation count and reset
\* it for each other.
TurnsEnd == \A r \in Runs : (turn[r].stage # "idle") ~> (turn[r].stage = "done")
=============================================================================
