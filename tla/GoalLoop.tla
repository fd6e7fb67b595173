------------------------------- MODULE GoalLoop -------------------------------
(* The standing-goal ("Ralph") loop and the chat commands that steer it.       *)
(*                                                                            *)
(* A run is one message going through the assist pipeline.  It wraps the       *)
(* module-wide async_converse in a _hooked_converse of its own                  *)
(* (runtime/hooks/official_websocket_hook.py), calls what that global holds by   *)
(* then, and puts back the value it found.  Runs that overlap therefore nest    *)
(* or lose their hooks.  After the user's turn a hook keeps starting           *)
(* continuation turns while one is pending or the goal is active.  A turn that  *)
(* produces text ends in _finalize_completed_response                           *)
(* (runtime/agent/agent_fallback.py), which has the goal judged.  /stop, /new   *)
(* and /goal are messages too (chat_commands.py): they pass through the same    *)
(* hooks and race the runs already in flight.                                  *)
(*                                                                            *)
(* Everything between two awaits is one action.  A cancellation, by /stop, by   *)
(* /new or by the timeout of a hook's continuation turn, is delivered at the    *)
(* await where the task is suspended, so every action that resumes an await is  *)
(* disabled for a run that is hit by one.  A goal object is identified by its   *)
(* id: evaluations hold a reference to the object they started on, and a       *)
(* continuation prompt names the goal it was built from.                       *)
EXTENDS Goals, FiniteSets, Sequences

CONSTANTS
  Convs,       \* conversation ids (never the empty one, see README)
  Runs,        \* pipeline runs that can be in flight at once
  Ids,         \* goal objects that can be referenced at once
  Inputs,      \* the kinds of message users send
  Transports,  \* how messages reach the pipeline
  LoopBound,   \* range(50) in _hooked_converse
  MaxHooks,    \* bound: hooks that can be wrapped around each other
  NoGoal, NoRun

AllInputs == {"turn", "set", "pause", "resume", "clear", "stop", "new"}

ASSUME InputsAssumption == Inputs \subseteq AllInputs
ASSUME TransportsAssumption == Transports \subseteq {"detached", "pipeline"}
ASSUME LoopBoundAssumption == LoopBound \in Nat
ASSUME MaxHooksAssumption == MaxHooks \in Nat
ASSUME NoGoalAssumption == NoGoal \notin Ids
ASSUME NoRunAssumption == NoRun \notin Runs
ASSUME SetAssumption == Convs # {} /\ IsFiniteSet(Convs) /\ IsFiniteSet(Runs) /\ IsFiniteSet(Ids)

VARIABLES
  run,        \* the runs: where each is suspended and what it holds
  mem,        \* GoalManager._state of each conversation: a goal object or NoGoal
  heap,       \* the goal objects
  store,      \* the runtime store and hass.data entries the loop reads
  registry,   \* running_tasks: the run registered for each conversation
  cancelled,  \* runs whose task.cancel() has not been delivered yet
  clearing,   \* conversations whose goal a task of /new is about to clear
  taskLoop,   \* task_loop["active"] of each conversation
  activeConv, \* the global active_conversation
  converse    \* the global async_converse: the hooks around it, outermost first,
              \* each known by the conversation it was made for

vars == <<run, mem, heap, store, registry, cancelled, clearing, taskLoop, activeConv, converse>>

-------------------------------------------------------------------------------
(* Where a run is suspended.  In the hooks, cis holds one number for each hook  *)
(* of its chain that has been entered: the continuation turns it has started.   *)
(* The last one is the hook that is running.                                   *)

Arriving  == {"arrived", "queued"}               \* before converse is called
Commands  == {"set", "saving", "clearing"}       \* executor job of /goal
InTurn    == {"turn", "judge", "save", "wrap"}   \* inside async_process
Leaving   == {"exit", "raise"}                   \* a hook's finally clause
InLoop    == {"gap", "sleep", "unwind"} \cup Leaving
PCs       == {"idle"} \cup Arriving \cup Commands \cup InTurn \cup InLoop
Evaluates == {"judge", "save"}

UpToHooks(S) == UNION {[1..n -> S] : n \in 0..MaxHooks}

Run == [pc : PCs, conv : Convs, input : Inputs \cup {"none"}, goal : Ids \cup {NoGoal}, halts : BOOLEAN,
        saved : UpToHooks(Convs),      \* async_converse as the run found it
        chain : UpToHooks(Convs),      \* async_converse as the run called it
        cis : UpToHooks(0..LoopBound),
        due : SUBSET (1..MaxHooks),    \* the hooks that wait though their 180 s are over
        deaf : SUBSET (1..MaxHooks),   \* those that take a cancellation for another's
        late : BOOLEAN]                \* a timeout's cancellation is not delivered yet

Idle == [pc |-> "idle", conv |-> CHOOSE c \in Convs : TRUE, input |-> "none",
         goal |-> NoGoal, halts |-> FALSE, saved |-> <<>>, chain |-> <<>>, cis |-> <<>>,
         due |-> {}, deaf |-> {}, late |-> FALSE]

Store == [pending : [Convs -> Ids \cup {NoGoal}], latest : Ids \cup {NoGoal},
          completed : SUBSET Convs, stopRequests : SUBSET Convs,
          shouldEnd : BOOLEAN, flags : SUBSET Convs,
          left : SUBSET Convs]   \* history: flags whose hook is gone without dropping them

TypeOK ==
  /\ run \in [Runs -> Run]
  /\ mem \in [Convs -> Ids \cup {NoGoal}]
  /\ heap \in [Ids -> Goal]
  /\ store \in Store
  /\ registry \in [Convs -> Runs \cup {NoRun}]
  /\ cancelled \subseteq Runs
  /\ clearing \subseteq Convs
  /\ taskLoop \in [Convs -> {"unseen", "active", "inactive"}]
  /\ activeConv \in Convs \cup {"none"}
  /\ converse \in UpToHooks(Convs)

-------------------------------------------------------------------------------
(* Goal objects.                                                              *)

Active(m, h, c) == m[c] # NoGoal /\ h[m[c]].status = "active"
HasGoal(c) == mem[c] # NoGoal /\ heap[mem[c]].status \in {"active", "paused"}

Held(m, rn) == {m[c] : c \in Convs} \cup {rn[r].goal : r \in {q \in Runs : rn[q].pc \in Evaluates}}

Named == {mem[c] : c \in Convs} \cup {run[r].goal : r \in Runs}
         \cup {store.pending[c] : c \in Convs} \cup {store.latest}

Fresh == Ids \ Named

\* Objects that nothing refers to any more are garbage: reset for canonicity.
Keep(h) == [g \in Ids |-> IF g \in Held(mem', run') THEN h[g] ELSE NewGoal]

-------------------------------------------------------------------------------
(* The hooks around converse.                                                 *)

Goto(r, pc) == run' = [run EXCEPT ![r].pc = pc]

\* What a run calls, looked up when it calls; no hook has continued yet.
Chain(r) == IF run[r].pc = "queued" THEN converse ELSE run[r].chain
Cis(r) == IF run[r].pc = "queued" THEN [d \in DOMAIN converse |-> 0] ELSE run[r].cis
Continuing(r) == {d \in DOMAIN Cis(r) : Cis(r)[d] > 0}

\* The hooks that wait for a continuation turn, each in a wait_for(..., timeout=180):
\* all of them while the turn runs, then those around the hook that is running.
Awaiting(r) ==
  {d \in Continuing(r) : run[r].pc \in InTurn \/ (run[r].pc \in InLoop /\ d < Len(Cis(r)))}

\* A cancellation is under way to the run.
Hit(r) == r \in cancelled \/ run[r].late

\* A wait_for takes the cancellation it gets for its own timeout only if nobody else has
\* asked for one since it began to wait (Timeout.__aexit__ compares the task's count).
Called(r) ==
  [Idle EXCEPT !.conv = run[r].conv, !.saved = run[r].saved, !.chain = Chain(r),
               !.due = run[r].due,
               !.deaf = IF r \in cancelled THEN run[r].deaf \cup Awaiting(r) ELSE run[r].deaf]

\* Suspended in hook d, with a prompt or without; what became of their wait_for is kept
\* for the outermost k hooks.
At(r, pc, d, g, k) ==
  [Called(r) EXCEPT !.pc = pc, !.cis = SubSeq(Cis(r), 1, d), !.goal = g,
                    !.due = @ \cap (1..k), !.deaf = @ \cap (1..k)]

InHook(r, pc, d, g) == run' = [run EXCEPT ![r] = At(r, pc, d, g, d - 1)]

StillRegistered(reg, c, r) == reg
Unregistered(reg, c, r) == IF reg[c] = r THEN [reg EXCEPT ![c] = NoRun] ELSE reg

\* The finally clause of _hooked_recognize_intent puts back what the run found.  The
\* task is done; the detached run's done-callback drops its registration from what
\* this step has made of the registry.
Finish(r, reg) ==
  /\ run' = [run EXCEPT ![r] = Idle]
  /\ registry' = Unregistered(reg, run[r].conv, r)
  /\ converse' = IF run[r].pc = "arrived" THEN converse ELSE run[r].saved

LoopNeverExhausted(ci) == FALSE
LoopExhausted(ci) == ci = LoopBound

\* pending.pop of a conversation or of "latest": only one is taken.
Prompt(s, c) == IF s.pending[c] # NoGoal THEN s.pending[c] ELSE s.latest

OwnKept(s, c) ==
  IF s.pending[c] # NoGoal THEN s ELSE [s EXCEPT !.latest = NoGoal]

Popped(s, c) ==
  IF s.pending[c] # NoGoal THEN [s EXCEPT !.pending[c] = NoGoal]
  ELSE [s EXCEPT !.latest = NoGoal]

\* One pass through the top of the loop of hook d, with s the store as this step left
\* it: mem' and heap' are read for the same reason.  The run's conversation is asked
\* first, then the one the hook was made for.
LoopTop(r, d, s) ==
  LET c == run[r].conv
      h == Chain(r)[d]
      own == IF s.pending[c] # NoGoal THEN c ELSE h
      ends == s.shouldEnd \/ {c, h} \cap (s.stopRequests \cup s.completed) # {}
  IN \/ /\ LoopExhausted(Cis(r)[d])
        /\ store' = s
        /\ InHook(r, "exit", d, NoGoal)
     \/ /\ ~LoopExhausted(Cis(r)[d]) /\ ends
        /\ store' = [s EXCEPT !.shouldEnd = FALSE]
        /\ InHook(r, "exit", d, NoGoal)
     \/ /\ ~LoopExhausted(Cis(r)[d]) /\ ~ends
        /\ store' = Popped(s, own)
        /\ IF Prompt(s, own) # NoGoal THEN InHook(r, "gap", d, Prompt(s, own))
           ELSE IF Active(mem', heap', c) THEN InHook(r, "gap", d, mem'[c])
           ELSE IF Active(mem', heap', h) THEN InHook(r, "gap", d, mem'[h])
           ELSE InHook(r, "exit", d, NoGoal)

Marked(s, c) == [s EXCEPT !.flags = @ \cup {c}]

\* converse returns to hooks n, n - 1, ...  A hook that is looping sleeps 0.2 s; one
\* whose first call this was enters its loop, unless its conversation's flag is set:
\* then it returns to the next.
Stops(r, s, n) == {d \in 1..n : Cis(r)[d] > 0 \/ Chain(r)[d] \notin s.flags}
Innermost(D) == CHOOSE d \in D : \A e \in D : e <= d

Land(r, s, n, reg) ==
  IF Stops(r, s, n) = {}
  THEN store' = s /\ Finish(r, reg)
  ELSE LET d == Innermost(Stops(r, s, n))
       IN /\ registry' = reg
          /\ UNCHANGED converse
          /\ IF Cis(r)[d] > 0
             THEN store' = s /\ InHook(r, "sleep", d, NoGoal)
             ELSE LoopTop(r, d, Marked(s, Chain(r)[d]))

\* A turn was unregistered by the entity; a command returns before it registers.
Returned(r, s) ==
  Land(r, s, Len(Chain(r)),
       IF run[r].pc \in InTurn THEN Unregistered(registry, run[r].conv, r) ELSE registry)

\* An exception passes hooks n, n - 1, ...: only the continuation call of a looping hook
\* is inside a try.
Escape(r, n, reg) ==
  LET D == {d \in Continuing(r) : d <= n}
      e == Innermost(D)
  IN IF D = {} THEN Finish(r, reg)
     ELSE /\ run' = [run EXCEPT ![r] = At(r, "unwind", e, NoGoal, e)]
          /\ registry' = reg
          /\ UNCHANGED converse

-------------------------------------------------------------------------------
(* A message arrives.  The detached websocket run registers its task at once;  *)
(* the hook goes in later, and is looked up later still.                       *)
(* Bounds: a message is sent only while its hook cannot be wrapped around       *)
(* MaxHooks others, and a /goal text only while Ids has objects left for it and *)
(* for those of the messages before it.                                        *)

Wrappable ==
  LET coming == Cardinality({r \in Runs : run[r].pc = "arrived"})
  IN \A chain \in {converse} \cup {run[r].saved : r \in Runs} : Len(chain) + coming < MaxHooks

Setting == {r \in Runs : run[r].input = "set"}
Affordable(i) == i = "set" => Cardinality(Fresh) > Cardinality(Setting)

Arrive(r) ==
  /\ run[r].pc = "idle"
  /\ Wrappable
  /\ \E c \in Convs, i \in {j \in Inputs : Affordable(j)}, t \in Transports :
       /\ run' = [run EXCEPT ![r] = [Idle EXCEPT !.pc = "arrived", !.conv = c,
                                                 !.input = i]]
       /\ registry' = IF t = "detached" THEN [registry EXCEPT ![c] = r] ELSE registry
  /\ UNCHANGED <<mem, heap, store, cancelled, clearing, taskLoop, activeConv, converse>>

Ready(r, pc) == run[r].pc = pc /\ ~Hit(r)
Asked(r, input) == Ready(r, "queued") /\ run[r].input = input

\* _hooked_recognize_intent, up to the first await of the original.
Install(r) ==
  /\ Ready(r, "arrived")
  /\ run' = [run EXCEPT ![r].pc = "queued", ![r].saved = converse]
  /\ converse' = <<run[r].conv>> \o converse
  /\ UNCHANGED <<mem, heap, store, registry, cancelled, clearing, taskLoop, activeConv>>

\* register_running_task, and the first steps of execute_conversation_turn.
StartTurn(r, cis) ==
  LET c == run[r].conv
  IN /\ run' = [run EXCEPT ![r] = [Called(r) EXCEPT !.pc = "turn", !.cis = cis]]
     /\ registry' = [registry EXCEPT ![c] = r]
     /\ taskLoop' = [taskLoop EXCEPT ![c] = IF @ = "unseen" THEN "active" ELSE @]
     /\ activeConv' = c
     /\ UNCHANGED <<store, cancelled, clearing, converse>>

Turn(r) ==
  /\ Asked(r, "turn")
  /\ StartTurn(r, Cis(r))
  /\ UNCHANGED <<mem, heap>>

-------------------------------------------------------------------------------
(* /goal, answered by the entity before it registers the task.                 *)

\* Suspended in the command.
InCommand(r, pc) ==
  run' = [run EXCEPT ![r].pc = pc, ![r].chain = Chain(r), ![r].cis = Cis(r)]

\* A new goal replaces the old one, and its text goes on as an ordinary turn.
GoalSet(r) ==
  /\ Asked(r, "set")
  /\ InCommand(r, "set")
  /\ \E g \in Fresh : /\ mem' = [mem EXCEPT ![run[r].conv] = g]
                      /\ heap' = Keep([heap EXCEPT ![g] = NewGoal])
  /\ UNCHANGED <<store, registry, cancelled, clearing, taskLoop, activeConv, converse>>

GoalSetDone(r) ==
  /\ Ready(r, "set")
  /\ StartTurn(r, Cis(r))
  /\ UNCHANGED <<mem, heap>>

\* /goal pause and /goal resume change the object, then await its save.
ChangeGoal(r, changed) ==
  LET g == mem[run[r].conv]
  IN /\ IF g = NoGoal
        THEN /\ UNCHANGED <<mem, heap>>
             /\ Returned(r, store)
        ELSE /\ heap' = [heap EXCEPT ![g] = changed[g]]
             /\ InCommand(r, "saving")
             /\ UNCHANGED <<mem, store, registry, converse>>
     /\ UNCHANGED <<cancelled, clearing, taskLoop, activeConv>>

GoalPause(r) == Asked(r, "pause") /\ ChangeGoal(r, [g \in Ids |-> Paused(heap[g])])
GoalResume(r) == Asked(r, "resume") /\ ChangeGoal(r, [g \in Ids |-> Resumed(heap[g])])

GoalSaved(r) ==
  /\ Ready(r, "saving")
  /\ UNCHANGED <<mem, heap, cancelled, clearing, taskLoop, activeConv>>
  /\ Returned(r, store)

\* /goal clear forgets the state only after the file entry is deleted.
GoalClear(r) ==
  /\ Asked(r, "clear")
  /\ UNCHANGED <<mem, heap, cancelled, clearing, taskLoop, activeConv>>
  /\ IF mem[run[r].conv] = NoGoal
     THEN Returned(r, store)
     ELSE InCommand(r, "clearing") /\ UNCHANGED <<store, registry, converse>>

GoalCleared(r) ==
  /\ Ready(r, "clearing")
  /\ mem' = [mem EXCEPT ![run[r].conv] = NoGoal]
  /\ heap' = [g \in Ids |-> IF g \in Held(mem', run) THEN heap[g] ELSE NewGoal]
  /\ Returned(r, store)
  /\ UNCHANGED <<cancelled, clearing, taskLoop, activeConv>>

-------------------------------------------------------------------------------
(* A turn answers: _finalize_completed_response and _gate_goal.                *)

\* Nothing to continue: the prompts go, and a verdict closes the conversation.
ClosedByLatest(s, c, verdict) ==
  [s EXCEPT !.pending[c] = NoGoal, !.latest = NoGoal,
            !.completed = IF verdict THEN @ \cup {"latest"} ELSE @]
Closed(s, c, verdict) ==
  [s EXCEPT !.pending[c] = NoGoal, !.latest = NoGoal,
            !.completed = IF verdict THEN @ \cup {c} ELSE @]

ContinuedStillCompleted(s, c, g) == [s EXCEPT !.pending[c] = g, !.latest = g]
Continued(s, c, g) ==
  [s EXCEPT !.pending[c] = g, !.latest = g, !.completed = @ \ {c}]

\* The turn produced text.  With an active goal it is handed to the judge
\* (async_evaluate_after_turn up to its await), else the turn is finalised at once.
\* The turn may have ended the conversation's task loop.
TurnAnswered(r) ==
  LET c == run[r].conv
  IN /\ Ready(r, "turn")
     /\ IF Active(mem, heap, c)
        THEN /\ run' = [run EXCEPT ![r].pc = "judge", ![r].goal = mem[c]]
             /\ heap' = [heap EXCEPT ![mem[c]] = TurnCounted(@)]
             /\ UNCHANGED store
        ELSE /\ Goto(r, "wrap")
             /\ store' = Closed(store, c, FALSE)
             /\ UNCHANGED heap
     /\ \/ UNCHANGED taskLoop
        \/ taskLoop' = [taskLoop EXCEPT ![c] = "inactive"]
     /\ UNCHANGED <<mem, registry, cancelled, clearing, activeConv, converse>>

\* No text: the chain of agents is exhausted or saw should_end; nothing is
\* finalised and the flag is consumed.
TurnFailed(r) ==
  /\ Ready(r, "turn")
  /\ UNCHANGED <<mem, heap, cancelled, clearing, taskLoop, activeConv>>
  /\ Returned(r, [store EXCEPT !.shouldEnd = FALSE])

\* The judge chain answered (an error or a timeout counts as "continue").
JudgeAnswered(r) ==
  /\ Ready(r, "judge")
  /\ \E v \in Verdicts :
       LET g == run[r].goal
       IN /\ heap' = [heap EXCEPT ![g] = Judged(@, v)]
          /\ run' = [run EXCEPT ![r].pc = "save", ![r].halts = Halts(heap[g], v)]
  /\ UNCHANGED <<mem, store, registry, cancelled, clearing, taskLoop, activeConv, converse>>

PromptFromEvaluated(r) == run[r].goal

\* next_continuation_prompt reads the manager's state after the save, not the
\* state that was judged.
NextPrompt(r) ==
  LET c == run[r].conv IN IF Active(mem, heap, c) THEN mem[c] ELSE NoGoal

VerdictSaved(r) ==
  LET c == run[r].conv
  IN /\ Ready(r, "save")
     /\ run' = [run EXCEPT ![r].pc = "wrap", ![r].goal = NoGoal, ![r].halts = FALSE]
     /\ store' = IF ~run[r].halts /\ NextPrompt(r) # NoGoal
                 THEN Continued(store, c, NextPrompt(r))
                 ELSE Closed(store, c, TRUE)
     /\ UNCHANGED mem
     /\ heap' = Keep(heap)
     /\ UNCHANGED <<registry, cancelled, clearing, taskLoop, activeConv, converse>>

\* Snapshot, history, Stop hook: then converse returns.
TurnReturned(r) ==
  /\ Ready(r, "wrap")
  /\ UNCHANGED <<mem, heap, cancelled, clearing, taskLoop, activeConv>>
  /\ Returned(r, store)

-------------------------------------------------------------------------------
(* The rest of a hook's loop.                                                 *)

\* The snapshot is saved: the continuation turn starts, through the hooks inside.
Continue(r) ==
  LET cis == run[r].cis
      d == Len(cis)
  IN /\ Ready(r, "gap")
     /\ StartTurn(r, [e \in DOMAIN run[r].chain |->
                        IF e > d THEN 0 ELSE IF e = d THEN UpTo(LoopBound, cis[d] + 1)
                        ELSE cis[e]])
     /\ UNCHANGED <<mem, heap>>

Slept(r) ==
  /\ Ready(r, "sleep")
  /\ UNCHANGED <<mem, heap, registry, cancelled, clearing, taskLoop, activeConv, converse>>
  /\ LoopTop(r, Len(run[r].cis), store)

\* A hook whose timeout it is leaves its loop; the others pass the exception on.
Unwound(r) ==
  LET d == Len(run[r].cis)
  IN /\ Ready(r, "unwind")
     /\ InHook(r, IF d \in run[r].due \ run[r].deaf THEN "exit" ELSE "raise", d, NoGoal)
     /\ UNCHANGED <<mem, heap, store, registry, cancelled, clearing, taskLoop, activeConv,
                    converse>>

FlagKept(s, c) == s
FlagDropped(s, c) == [s EXCEPT !.flags = @ \ {c}]

\* The finally clause: the last snapshot, then the flag, then the result or the
\* exception goes to the next hook.
Exit(r) ==
  LET d == Len(run[r].cis)
      s == FlagDropped(store, run[r].chain[d])
  IN /\ UNCHANGED <<mem, heap, cancelled, clearing, taskLoop, activeConv>>
     /\ \/ Ready(r, "exit") /\ Land(r, s, d - 1, registry)
        \/ /\ Ready(r, "raise")
           /\ store' = s
           /\ Escape(r, d - 1, registry)

-------------------------------------------------------------------------------
(* Cancellation and timeouts.                                                 *)

\* CancelledError inside async_process: a stop request swallows it, otherwise it
\* goes on to the hooks.
Interrupted(r) ==
  LET c == run[r].conv
  IN /\ UNCHANGED mem
     /\ heap' = [g \in Ids |->
                   IF g \in Held(mem, [run EXCEPT ![r].pc = "wrap"]) THEN heap[g] ELSE NewGoal]
     /\ IF c \in store.stopRequests
        THEN Returned(r, [store EXCEPT !.stopRequests = @ \ {c}])
        ELSE /\ Escape(r, Len(run[r].cis), Unregistered(registry, c, r))
             /\ UNCHANGED store

TurnCancelled(r) ==
  /\ Hit(r)
  /\ run[r].pc \in InTurn
  /\ cancelled' = cancelled \ {r}
  /\ Interrupted(r)
  /\ UNCHANGED <<clearing, taskLoop, activeConv>>

\* Before the entity's try, nothing catches it.
CommandCancelled(r) ==
  /\ r \in cancelled
  /\ run[r].pc \in Arriving \cup Commands
  /\ cancelled' = cancelled \ {r}
  /\ Finish(r, registry)
  /\ UNCHANGED <<mem, heap, store, clearing, taskLoop, activeConv>>

\* At an await of the loop: on to the finally clause.
LoopCancelled(r) ==
  /\ Hit(r)
  /\ run[r].pc \in {"gap", "sleep", "unwind"}
  /\ cancelled' = cancelled \ {r}
  /\ InHook(r, "raise", Len(run[r].cis), NoGoal)
  /\ UNCHANGED <<mem, heap, store, registry, clearing, taskLoop, activeConv, converse>>

\* At the await of the finally clause: "except Exception" misses it, and the
\* statement that drops the flag is never reached.
ExitCancelled(r) ==
  LET d == Len(run[r].cis)
  IN /\ Hit(r)
     /\ run[r].pc \in Leaving
     /\ cancelled' = cancelled \ {r}
     /\ Escape(r, d - 1, registry)
     /\ store' = [store EXCEPT !.left = @ \cup {run[r].chain[d]}]
     /\ UNCHANGED <<mem, heap, clearing, taskLoop, activeConv>>

\* The 180 s of a waiting hook are over, wherever the run is by then: in a turn, or in
\* the gap, the sleep or the finally clause of a hook further in.  The cancellation goes
\* to the task, and the hooks further in will take it for somebody else's.
TimeUp(r) ==
  /\ r \notin cancelled
  /\ \E d \in Awaiting(r) \ run[r].due :
       run' = [run EXCEPT ![r].due = @ \cup {d}, ![r].late = TRUE,
                         ![r].deaf = @ \cup {e \in Awaiting(r) : e > d}]
  /\ UNCHANGED <<mem, heap, store, registry, cancelled, clearing, taskLoop, activeConv,
                 converse>>

Undelivered(S) == {q \in S : run'[q].pc # "idle"}

-------------------------------------------------------------------------------
(* /stop, /new and the tasks /new spawns.                                     *)

Registered(S) == {registry[c] : c \in S} \ {NoRun}

\* The run registered for the conversation, else every registered run.
StopTargets(c) == IF registry[c] # NoRun THEN {c} ELSE {d \in Convs : registry[d] # NoRun}

Stop(r) ==
  LET c == run[r].conv
      targets == StopTargets(c)
      known == {c} \cup {d \in Convs : registry[d] # NoRun}
      ends == targets # {} \/ \E d \in known : taskLoop[d] = "active"
  IN /\ Asked(r, "stop")
     /\ UNCHANGED <<mem, heap, clearing, activeConv>>
     /\ taskLoop' = [d \in Convs |->
                       IF d \in known /\ taskLoop[d] = "active" THEN "inactive" ELSE taskLoop[d]]
     /\ Returned(r, [store EXCEPT !.stopRequests = @ \cup targets,
                                  !.shouldEnd = @ \/ ends])
     /\ cancelled' = Undelivered(cancelled \cup Registered(targets))

New(r) ==
  LET c == run[r].conv
      targets == {c, activeConv} \ {"none"}
  IN /\ Asked(r, "new")
     /\ UNCHANGED <<mem, heap>>
     /\ clearing' = clearing \cup {d \in targets : HasGoal(d)}
     /\ taskLoop' = [taskLoop EXCEPT ![c] = "active"]
     /\ activeConv' = c
     /\ Land(r, [store EXCEPT !.pending = [d \in Convs |-> NoGoal], !.latest = NoGoal,
                              !.completed = @ \ {c}, !.flags = {}, !.left = {},
                              !.shouldEnd = FALSE],
             Len(converse),
             [d \in Convs |-> IF d \in targets THEN NoRun ELSE registry[d]])
     /\ cancelled' = Undelivered(cancelled \cup Registered(targets))

\* The task of /new: async_clear of a conversation's goal.
ClearTask(c) ==
  /\ c \in clearing
  /\ clearing' = clearing \ {c}
  /\ mem' = [mem EXCEPT ![c] = NoGoal]
  /\ heap' = [g \in Ids |-> IF g \in Held(mem', run) THEN heap[g] ELSE NewGoal]
  /\ UNCHANGED <<run, store, registry, cancelled, taskLoop, activeConv, converse>>

-------------------------------------------------------------------------------
Init ==
  /\ run = [r \in Runs |-> Idle]
  /\ mem = [c \in Convs |-> NoGoal]
  /\ heap = [g \in Ids |-> NewGoal]
  /\ store = [pending |-> [c \in Convs |-> NoGoal], latest |-> NoGoal, completed |-> {},
              stopRequests |-> {}, shouldEnd |-> FALSE, flags |-> {}, left |-> {}]
  /\ registry = [c \in Convs |-> NoRun]
  /\ cancelled = {}
  /\ clearing = {}
  /\ taskLoop = [c \in Convs |-> "unseen"]
  /\ activeConv = "none"
  /\ converse = <<>>

\* What users do; nothing obliges them to.
User(r) == Arrive(r)

\* What the event loop does with a message that has arrived.
Command(r) ==
  \/ Install(r) \/ GoalSet(r) \/ GoalSetDone(r)
  \/ GoalPause(r) \/ GoalResume(r) \/ GoalSaved(r)
  \/ GoalClear(r) \/ GoalCleared(r)
  \/ Stop(r) \/ New(r)

Work(r) ==
  \/ Turn(r) \/ TurnAnswered(r) \/ TurnFailed(r)
  \/ JudgeAnswered(r) \/ VerdictSaved(r) \/ TurnReturned(r)
  \/ Continue(r) \/ Slept(r) \/ Unwound(r) \/ Exit(r)

Cancel(r) ==
  \/ TurnCancelled(r) \/ CommandCancelled(r) \/ LoopCancelled(r) \/ ExitCancelled(r)

Step(r) == Command(r) \/ Work(r) \/ Cancel(r)

Next ==
  \/ \E r \in Runs : User(r) \/ Step(r) \/ TimeUp(r)
  \/ \E c \in Convs : ClearTask(c)

Spec == Init /\ [][Next]_vars

\* A suspended task is resumed when what it awaits is there: executor jobs end, the
\* judge has a timeout, the agents behind a turn answer or fail, sleeps elapse, and a
\* delivered cancellation runs at the next iteration of the event loop.  Messages, and
\* the timeout of a continuation turn, owe nothing.
Fairness ==
  /\ \A r \in Runs : WF_vars(Step(r))
  /\ \A c \in Convs : WF_vars(ClearTask(c))

FairSpec == Spec /\ Fairness

-------------------------------------------------------------------------------
(* Properties.                                                                *)

Loops(r, d) ==
  /\ d <= Len(run[r].cis)
  /\ run[r].cis[d] > 0 \/ (d = Len(run[r].cis) /\ run[r].pc \in InLoop)

LoopsOf(c) ==
  {l \in Runs \X (1..MaxHooks) : Loops(l[1], l[2]) /\ run[l[1]].chain[l[2]] = c}

\* At most one hook made for a conversation is looping, whichever runs nest or lose
\* their hooks, and the flag that keeps the others out is set exactly while one is, or
\* after a finally clause was cancelled at its await and has left the flag behind (the
\* guard at the entry of _hooked_converse, the finally clause at its end, and every
\* timeout, of whichever hook around, and every cancellation between).
LoopsMatchFlags ==
  \A c \in Convs :
    /\ Cardinality(LoopsOf(c)) <= 1
    /\ c \in store.flags <=> LoopsOf(c) # {} \/ c \in store.left
    /\ ~(LoopsOf(c) # {} /\ c \in store.left)

\* A conversation the loop takes for completed has no prompt of its own left to run:
\* _finalize_completed_response keeps the two collections apart whichever verdicts of
\* concurrent turns come in, and /new clears both.
CompletedHasNoPrompt == \A c \in Convs : c \in store.completed => store.pending[c] = NoGoal

\* What /stop cancels is a live run of that conversation: every way out of a turn
\* (answer, failure, swallowed or raised cancellation, timeout) drops the registration.
RegistryNamesLiveRun ==
  \A c \in Convs : registry[c] # NoRun =>
    run[registry[c]].pc # "idle" /\ run[registry[c]].conv = c

\* A paused or finished goal becomes active again only by /goal resume: a verdict that
\* was asked for before the pause and arrives after it must not undo it.
OnlyResumeReactivates ==
  [][\A c \in Convs :
       (/\ mem[c] # NoGoal /\ mem'[c] = mem[c]
        /\ heap[mem[c]].status # "active" /\ heap'[mem[c]].status = "active")
       => \E r \in Runs : /\ run[r].pc = "queued" /\ run[r].input = "resume"
                          /\ run[r].conv = c]_vars

Live(g) == \E c \in Convs : mem[c] = g /\ heap[g].status = "active"

\* The continuation turns a goal is still owed: prompts left for some loop to pick up,
\* and loops about to start a turn.
Owed(g) ==
  Cardinality({c \in Convs : store.pending[c] = g})
  + (IF store.latest = g THEN 1 ELSE 0)
  + Cardinality({r \in Runs : run[r].pc = "gap" /\ run[r].goal = g})

\* Pausing, finishing, clearing or replacing a goal cuts off its continuations: from
\* then on it is never owed a turn more than it already was, although a judge may be
\* in flight and prompts are handed from one conversation's loop to another's.
NoNewContinuation ==
  [][\A g \in Ids : (~Live(g) /\ ~Live(g)') => Owed(g)' <= Owed(g)]_vars

\* Every message is finished with at last, however often the judge says "continue".
RunsEnd == \A r \in Runs : run[r].pc # "idle" ~> run[r].pc = "idle"
===============================================================================
