# Claw Assistant in TLA+

Claw Assistant is a Home Assistant integration that wraps the assist pipeline: a
message becomes a turn of an agent that may call tools many times, and a *standing
goal* keeps turns coming until a judge says that it is reached. All of it runs as
coroutines on one event loop, with executor threads for files and a few services.
This directory holds specifications of the parts whose control is hard to test,
their model-checking configurations, and proofs. Paths below are relative to
`src/custom_components/claw_assistant/`.

| Module | Models | Checked by | Proved in |
|---|---|---|---|
| `Goals` | one goal as a value: `GoalState` and the changes made to it | through the two below | through `GoalStore_proofs` |
| `GoalLoop` | pipeline runs, converse hooks, the continuation loop, `/stop`, `/new`, `/goal` | `MCGoalLoop` | `GoalLoop_proofs` |
| `GoalStore` | goal managers, their executor jobs, `goals.json`, restarts | `MCGoalStore` | `GoalStore_proofs` |
| `AgentChain` | the chain of fallback agents of one turn and the adaptive memory | `MCAgentChain` | `AgentChain_proofs` |
| `TurnKernel` | a turn without fallback agents: planner kernel, tool calls, loop controller | `MCTurnKernel` | `TurnKernel_proofs` |
| `ChatLog` | the chat log sent to the agents: compression, repair of tool pairs | `MCChatLog` | `AgentChain_proofs` |
| `ApprovalGate` | tool calls, policy, the approval queue and those who answer it | `MCApprovalGate` | `ApprovalGate_proofs` |
| `ApprovalService` | what the approval queue promises those who ask; `ApprovalGate` implements it | through `ApprovalGate` | `ApprovalGate_proofs` |
| `Delegation` | subagents: single tasks, batches, interrupts, timeouts, cancellation | `MCDelegation` | `Delegation_proofs` |
| `DelegationService` | what delegation promises its callers; `Delegation` implements it | through `Delegation` | `Delegation_proofs` |
| `Heartbeat` | scheduled tasks, their two files, the ticker, and the life of the config entry | `MCHeartbeat` | `Heartbeat_proofs` |
| `Learning` | habit observations, the queue of insights, the user memory | `MCLearning` | `Learning_proofs` |

`PROJECT.json` lists the components, the runs, the hazards with the properties that
cover them, and for every definition the source lines it stands for.

## 1. Inventory

### 1.1 The continuation hook (`runtime/hooks/official_websocket_hook.py`, `patches.py`)

*State.* The module global `conversation.async_converse`; a flag per conversation in
`hass.data` (`_claw_pipeline_converse_cont_<id>`); in the runtime store the pending
prompts (per conversation, and one under `latest`) and the completed conversations.

*Operations.* `_hooked_recognize_intent` replaces `async_converse` by a closure for the
time of one pipeline run and puts back what it found. The closure, `_hooked_converse`,
makes the user's turn and then up to 50 continuation turns, each within 180 s, while a
prompt is pending or the goal is active, unless the conversation's flag says that
another hook is looping. `detached_websocket_run` starts a pipeline run as a background
task and registers it as the conversation's running task.

*Interactions.* Calls the entity (1.2) through whatever hooks were in place; reads what
the end of a turn (1.4) and the commands (1.3) leave in the store.

*Hard.* Overlapping runs wrap each other's hooks and put them back in another order;
flags, prompts and registrations outlive or precede the runs they belong to; a
cancellation or a timeout can arrive at every await, the ones in `finally` included.

*Correct when* one loop at a time runs for a conversation and the flag says so, a loop
always ends, nothing is continued for a goal that was paused, finished or removed.

### 1.2 The entity and the registry of running tasks (`conversation.py`, `chat_commands.py`)

*State.* `running_tasks` (conversation to task), `stop_requests`, `should_end_flag`
(one for all), the task-loop records, the active conversation.

*Operations.* `async_process` tries the chat commands, registers its task, runs the turn,
swallows a `CancelledError` when a stop was requested, unregisters.

*Hard.* Three writers of the registry, cancellation at any await.
*Correct when* what the registry names is a live run of that conversation.

### 1.3 Chat commands (`chat_commands.py`, `command_registry.py`)

`/stop` cancels the registered task (or every registered task), `/new` resets a
conversation and clears its goal in a task of its own, `/goal` sets, pauses, resumes
and clears, `/ooo stop` interrupts a subagent. They are messages and go through the same
pipeline and hooks as turns. *Correct when* `/stop` stops the running turn and no verdict
in flight undoes a command.

### 1.4 The turn: chain of agents, and its end (`runtime/agent/agent_fallback.py`)

*State.* The queue of agents and the retry counters of a turn (locals); the adaptive
memory of every agent's failures (`runtime/storage/adaptive_memory.py`, shared by all
turns and kept in a file). *Operations.* `run_agent_fallback_chain` asks Home Assistant's
own agent and then the configured ones, leaves out those known not to work, and puts an
agent back at the head of the queue after stripping images, compressing, repairing the
log or a back-off. `_finalize_completed_response` asks the judge about an active goal and
files either a prompt to continue with or the conversation as completed.
*Hard.* five kinds of retry, on the path of an error reply and on the path of an exception;
failures recorded by other turns; `/stop` consumed by the turn of another conversation.
*Correct when* the calls of one turn are bounded, a chain is exhausted only after the
agents that count were asked, and a turn ends.

### 1.5 The turn: kernel, agent and loop controller

(`runtime/agent/orchestrator.py`, `turn_kernel.py`, `loop_controller.py`,
`runtime/llm/internal_llm.py`, `ParallelToolCall` in `tools/misc_tools.py`)

*State.* `task_loop` of a conversation with its steps, tool usage and continuation count;
the active conversation and the kernel flag, one each for the instance. *Operations.* a
planner proposes tool calls one by one; an agent makes its own, several at a time; each is
judged by `check_tool_repeat` and counted; a reply that announces work starts another round.
*Hard.* a call is judged at one moment and counted at another; the conversation may change
in between; an exception repeats the call; turns of a conversation share their counters.
*Correct when* no path forgets a call, the stop limit bounds the identical calls up to
those in flight, the kernel flag goes with the kernel, and turns end.

### 1.6 The chat log (`runtime/llm/context_compressor.py` and its callers)

*State.* The content of a conversation's log; a mark that it wants compression, the
snapshot of a compression in the background, its result; the count of useless
compressions, one for the instance. *Operations.* the middle of a log that is too long is
replaced by a summary: in place before an agent or the planner is asked, by force when an
agent says "too long", or in the background, applied at a later turn. Results without a
call are dropped and calls without a result get a stub. *Hard.* the cut moves for tool
pairs, for the latest request and for the head; a turn is cut off among its calls; a result
made from an older log replaces a newer one. *Correct when* no agent is sent calls without
results or results without calls, and the request of the turn survives.

### 1.7 Goal managers and `goals.json` (`runtime/storage/goals.py`)

*State.* A `GoalState` per conversation in memory; the file. *Operations.* load, set,
pause, resume, clear, evaluate. Every file access is an executor job on the whole file
without a lock. *Hard.* operations overlap at every await; callers are cancelled while
their job goes on; restarts. *Correct when* what is active has judge failures to spare
wherever it is held, and a restart finds what memory held.

### 1.8 Tool calls, policy gate and approval queue

(`runtime/tools/tool_executor.py`, `runtime/storage/approval_store.py`,
`authorization.py`, `user_activity.py`, `config_file_store.py`)

*State.* pending entries, a history of at most 50, the active user (one for the whole
of Home Assistant), the audit log. *Operations.* a call is allowed, denied or put in
the queue and polls it every half second until it is resolved or its 180 s are over;
the panel's service resolves from an executor thread; the ConfigFile tool stages,
applies and cancels file operations in the same queue. *Hard.* the answer, the deadline
and the cancellation of the turn race, some of them in threads; the verdict is looked
up in a window of the history. *Correct when* nothing runs unapproved, every entry gets
one answer, and the audit log says the same.

### 1.9 Subagents (`delegation/executor.py`, `tool.py`, `command.py`)

*State.* the records of the subagents at work, their interrupt flags, their results; the
active conversation. *Operations.* `DelegateTask` starts one and goes on, `DelegateBatch`
starts several and waits; a subagent is a turn of its own that may delegate further; it
ends by reply, error, timeout, interrupt, cancellation of its caller. *Hard.* all of these
come in any order, also while the subagent closes or before it has begun. *Correct when*
the registry names exactly the subagents at work, an interrupt taken in time is never
answered by a completion, and every subagent and every batch comes back, once.

### 1.10 Heartbeat tasks and the config entry

(`runtime/storage/heartbeat_store.py`, `heartbeat_ticker.py`, `__init__.py`,
`runtime/hooks/hook.py`, `runtime/core/lifecycle.py`)

*State.* `HEARTBEAT.md` (the tasks), `heartbeat-state.json` (when each was last checked),
the running flag, the timer, the keys of the domain's data, the hook. *Operations.* a tick
runs what is due, one task after the other, each with an agent's answer in between; tools
and services edit, delete, run and record; the entry is set up, unloaded, removed; Home
Assistant restarts. *Hard.* a tick outlasts the timer; every record is two files read,
changed and written with awaits between; the list of due tasks is old when it is used;
cron minutes hold several ticks. *Correct when* one tick works at a time, a task is begun
once for the time it was due, and ticks go on for ever.

### 1.11 Learning (`runtime/storage/pending_insights.py`, `memory_store.py`, `runtime/utils/habit_*.py`)

*State.* counts of observations, the queue of insights (pending, learned, blocked), the
user memory. *Operations.* a turn is captured and may propose insights; the user confirms,
dismisses or blocks; a confirm saves to the memory before it saves the queue. *Hard.*
read-change-write of the whole file from threads and from the loop, a file that is empty
while it is written, crashes. *Correct when* no insight is both pending and learned and
what is listed as learned has been handed to the memory.

## 2. Plan

Done: every module of the table above with its runs, and the proofs it names.

Left, in this order:

1. an abstract goal register that `GoalStore` implements while operations do not overlap;
2. `AgentChain` and `TurnKernel` as refinements of the single step
   `TurnAnswered`/`TurnFailed` of `GoalLoop`;
3. small modules: the effect of staged file operations, the live view of a running turn,
   self edit.

## 3. The modules and the code

### 3.1 `GoalLoop`

A *run* is one message in the pipeline; its `pc` says at which await it is suspended, so
that an action is what the code does from one await to the next:

- `arrived` - `Arrive` (the message; on the detached transport the registration too);
- `queued` - `Install`: the hook is put around `async_converse`, whose old value is
  `saved`; then the entity is called through `converse` as it is *by then*, which the
  run keeps as its `chain`;
- `set`, `saving`, `clearing` - the executor jobs of `/goal`;
- `turn`, `judge`, `save`, `wrap` - inside the agents, the judge, the saving of the
  verdict, the rest of `_finalize_completed_response`;
- `gap`, `sleep`, `unwind`, `exit`, `raise` - the awaits of the loop of hook
  `Len(cis)` of the chain: the snapshot before a continuation, the 0.2 s after one (with
  a result, or with an exception), the snapshot of the `finally` clause.

`cis` counts the continuations of every hook that has been entered. `LoopTop` is one pass
from the `for` to the next await, with its exits in the order of the code. `Land` and
`Escape` hand a result or an exception from hook to hook: a hook whose flag is set by
another passes it on, a hook that is looping sleeps first. `Finish` is the outermost
`finally`. `cancelled` holds tasks whose `cancel()` was called and which have not run
since; a cancelled run does nothing but `TurnCancelled`, `CommandCancelled`,
`LoopCancelled` or `ExitCancelled`, according to where it is suspended.

`TimeUp` is the 180 s of any hook that waits for a continuation (`Awaiting`), wherever the run
is by then: in a turn, or in the gap, the sleep or the `finally` clause of a hook further in.
The cancellation it sends is delivered (`late`) like that of a `/stop`. A hook takes a
cancellation that reaches it for its own timeout, and ends its loop in peace, or raises it
again, as `asyncio.Timeout.__aexit__` decides: `due` are the hooks whose time is up, `deaf`
those that have been asked to stop by somebody else since they began to wait. Cancelled in
its `finally` clause (`ExitCancelled`) a hook is gone without dropping its flag; `left` is the
history of such flags. A timeout that comes while a `/stop` is on its way to the run changes
nothing in the model: the run is about to be cancelled in any case.

`heap` keeps goal objects apart from the managers that refer to them, because an
evaluation goes on with the object it started on. A prompt is the id of the goal it was
made from.

Abstractions. A turn up to its text is one step that answers or fails; a native-intent
answer ends like a failure, without touching goals. Conversations have ids: the code's
fallback to `"default"` for messages without one is left out, and so is the option that
lets `/new` keep a continuous conversation. Only messages that come through the pipeline
are modelled, not `conversation/process` or IM channels. Managers are loaded
(`GoalStore` has the loading). The interceptor `patched_async_converse` is not on this
path: the hooks wrap and the entity uses the original (`hook.py:153-154`).

### 3.2 `GoalStore`

`op` is an operation in flight: the await it is at (`pc`), the state of its executor job
(`queued`, `read`, `copied`, `finished`) and what the job has read (`buf`) and copied
(`rec`). `Perform` is the code after `async_ensure_loaded`, for each operation.
`JobReads`, `JobCopies` and `JobWrites` are the three steps of `save_goal` and
`delete_goal` in a thread: `_read_all`, `to_dict`, `os.replace`. `Cancelled` takes the
caller away and leaves the job (`orphan`). `Restart` keeps only the file.

The disk may fail at every job, and nobody learns of it: a file that cannot be read counts as
empty (`_read_all`), so that a load finds no goal, a delete does nothing and a save loses all
other entries (`Missed`); a write that fails is dropped (`_write_all`), and the caller goes on
as if it had been made. `apart` is the history of the conversations this has kept from being
read or written, until the next access to them that succeeds. `os.replace` makes a write all
or nothing, so there are no torn files. A file that is no UTF-8 is left out: `_read_all`
does not catch that error, which ends the operation.

### 3.3 `ApprovalGate`

`call` is a tool call (`pre`: in the PreToolUse hooks, `poll`: sleeping between polls,
`exec`: in the tool), `thread` an executor thread. `resolve` is one step on the event loop
(`ResolveNow`) and two in a thread (`ThreadPops`, `ThreadInserts`), because a poll can come
between `dict.pop` and `list.insert`. `Poll` is the look after half a second; `TimedOut`
does not look, as in the code: the deadline cancels whatever is there. `Evaluate` is the
policy, with the whitelist, roles and risks as constants, and whether the entity is in
the user's areas as a choice. `activeUser` changes with every message (`Speak`), whoever
waits.

`ApprovalService` is what those who ask see: a request gets one answer, and that is final; a
caller goes on only by an approval of its own request, once; it may give up at any time. The
mapping: `answer` is `status`, `asking` the entry a call polls for, `running` the one it
executes by, `granted` what the audit log calls approved.

### 3.4 `AgentChain`

One turn per conversation, suspended at (`pc`) Home Assistant's own agent, an agent of the
chain, the end of a reply, or a back-off. `queue`, `current` and `used` are the locals
`agent_queue`, `current_agent_id` and `transient_retry_counts`. `GoOn` is the head of the
`while` loop: a `/stop` that set `should_end` breaks the chain, an empty queue ends it in an
error, else the next agent is asked. `Repairs` are the retries (`StripImages`, `Compress`,
`CompressAfterException`, `SelfRepair`), each with its counter; `Fails` has the back-off of a
transient failure and the record of the failure; `Salvages` is a reply made from what tools or
a partial answer left. `Usable` is the choice of agents at the beginning: the first one
always, the others unless known to be incompatible or cooling down; `Orders` are the orders in
which they may be asked, with the first agent first. `memory` is the adaptive memory;
`CoolsDown` and `Forgets` are its times running out. `Stop` and `New` name the conversations
whose tasks they cancel.

Abstractions. Times are whether they have passed; scores give any order of the agents;
contents of errors are the choice of an action. Hand-offs are left out because nothing
requests one (`request_agent_handoff` has no caller). `asked`, `skipped` and `attempts` are
history variables.

### 3.5 `TurnKernel`

`turn[r]` holds the locals of a turn: its conversation, whether it is planning, in a tool of
the kernel, with its agent, or judging its reply, the kernel's step, what the kernel has
tried, the round. `flight[r]` are the calls of its agent under way, with the conversation
that was active before (`before`) and the calls inside a `ParallelToolCall`. `steps` and
`usage` are the lists in which `check_tool_repeat` counts, and `Verdict` is that function:
continue, warn, bail or stop. The kernel records a call before it is made (`PlannerCalls`,
`RecordStep`), an agent's call is recorded when it returns (`CallReturns`, `RecordUsage`),
unless the active conversation has changed in between (`Switched`), and is made a second time
after an exception (`CallRaises`). Each list keeps its last entries only (`Trimmed`:
`MaxTrace`, 200 in the code, and `MaxToolUsage`, 100), and the guard knows nothing of the
others. `Begin` empties the lists of the conversation, also under another turn of it.

Abstractions. The task loop's `trace` and `history`, which the guard does not read, are left
out; the planner's prompt and the parsing of its answer are a choice among its outcomes.
`executed` is a history variable that counts executions but for those the guard cannot know
of, and forgets what is trimmed away (`Lost`, `Forget`); `Under` is how often a call is under
way, alone or in a `ParallelToolCall`, in given turns.

### 3.6 `ChatLog`

`log` is the content of one conversation's log: messages with a role, the request they
make, whether they begin with a summary and what that quotes, the calls of an assistant's
message, the call a result answers. `Orphans` are the results whose call is gone, `Without`
is a log without some of its messages. `Sanitized` is `sanitize_tool_pairs`: orphans go, and
a call without a result gets one. `HeadLen`, `Cuts`,
`AlignBackward`, `TailCut` and `Assembled` are the steps of `compress`; where the token budget
ends is a choice among the cuts that the code's clamps allow (`Cuts`). `Trim` is
`_trim_chat_log_for_context_overflow`: a result of the background is taken for the log, else
the log is compressed. `stage` is where the turn is: `Ask` is the loop head of the chain up
to the agent's call, `AskPlanner` the kernel's, `CallTools` a message with calls, of which
some may stay unanswered (`broken`), `ReplyFails` an empty reply or a failure, `Overflow` and
`LogSelfRepair` the repairs, `Finalize` the end that marks the log for `RunDeferred`,
`Background` the task. Names that `AgentChain` has too begin with `Log` here, because one
proof module takes both.

Abstractions. Sizes, and so whether a log is too large, are choices. Contents of results are
left out, with the pruning of old ones. Summaries are the static ones
(`_generate_static_fallback`), because no caller of `compress` names a summary agent. The
log is one list, as the code under `runtime/` uses it; the copies that Home Assistant makes
of it per turn are not.

### 3.7 `Delegation`

`run[t]` is how far `delegate_task` of subagent `t` has got: its task made (`created`), in
the pipeline (`converse`), in its `finally` clause (`closing`), `over`. `turn[c]` says that a
turn of `c`, a user's conversation or a subagent, is going on; `kids[c]` is the batch it
waits for. `stop[c]` is a cancellation on its way into `c`: a caller that waits in `gather`
hands it to its children (`CancelChild`) and waits for them (`Unwind`). `Timeout` is the
`wait_for` around a subagent. `BatchReturn` withholds the results when the active conversation
is not the one before (`answer`).

`DelegationService` is what callers see: a subagent is opened once and ends once with one
outcome, and a batch is joined when all of it has ended. The mapping: `outcome` is the result
of what is over, `open` what is asked for and not over, `waiting` is `kids`.

Abstractions. Identifiers are given in order; the text of results, progress and the
iteration bookkeeping of a subagent are left out.

### 3.8 `Heartbeat`

An operation (`op`) is a list of jobs it has still to do (`todo`): read or write one of the
two files, run an agent. `ReadDue` is the tick's list; `RunNext` goes to the next task of it,
whatever has become of that task; `EditedMd` and `EditedSt` are the changes an operation makes
to its copies. `st` keeps how long ago a task was checked, up to the longest time a schedule
asks for, and `clock` the minute of the day and the tick in it. The list of a tick is a set
(`due`), taken in the order of the file (`FirstOf`). `Setup`, `SetupEnds`, `Unload`,
`RemoveEntry` and `Restart` are the life of the config entry, with the keys of the domain's
dictionary (`domain`) that decide whether ticker and hook go.

Abstractions. A file job that fails is left out, and so are the descriptions of the tasks. The
one tick that the setup starts besides the timer's (`_deferred_initial_tick`,
`heartbeat_ticker.py:215`) is left out too: it calls the same `_tick`, under the same running
flag, at a moment between two of the timer's. `late`, `stale` and `ran` are history variables.

### 3.9 `Learning`

`call` is an operation: the stage it is at and the copies it holds of the queue (`copy`), of
the counts or of the memory. `OpenQueue` and `WriteQueue` are the two steps of
`Path.write_text`; a queue between them cannot be parsed and reads as empty (`Loaded`), and a
write over another may leave it so. `LoadPayload` changes the copy; a confirm goes to the
memory in between (`ReadMemory`, `WriteMemory` or `MemoryFails`). `MemoryKey` is what
`_normalize_key` makes of a pattern. `Crash` takes every operation away.

Abstractions. An insight is its pattern; confidence, which depends on the days observed, is a
choice. The file of observations is written in one step, so that it is never torn in the model.
A torn queue always reads as empty; in the code one that breaks off inside a character of
several bytes raises an error instead (`UnicodeDecodeError`, which `pending_insights.py:77`
does not catch), and ends the operation before it has changed anything. The capacity of the
user memory and the deletion of its entries are there because they decide what a confirm
finds; no property is about them. `offered` is a history variable.

## 4. Runs

| Run | Question | Instance | Size |
|---|---|---|---|
| `goal_commands` | Do registry, prompts and completions agree, whatever commands race the turns? | 1 conversation, 2 runs, 2 goals, goal, resume, `/stop`, `/new`, detached transport | 6.4 M states |
| `goal_two` | One loop per conversation, no goal revived by a late verdict, and no continuation of a dead one? | 2 conversations, 2 runs, 1 goal, goal, `/stop`, pause, pipeline | 5.7 M |
| `goal_live` | Does every message end? | 1 conversation, 2 runs, turn, goal, clear, `/stop`, detached | 0.6 M |
| `store_two` | Can overlap, cancellation, a failing disk or restart revive a goal past its failures; is the file the memory when all is quiet? | 1 conversation, 1 goal text, 2 operations, 4 objects | 6.0 M |
| `gate_queue` | Does anything run unapproved, get two answers, or wait for ever? Is it the service? | 2 calls, 2 threads, 2 entries, history 1, window 1 | 1.0 M |
| `delegation_tasks` | Do registry, interrupts and batches survive every way to end? Is it the service? | 2 conversations, 2 subagents, batches of 2, 2 turns | 0.1 M |
| `chain_turns` | Are the calls of a turn bounded, is exhaustion honest, does it end? | 1 conversation, 2 agents, 1 retry each, 2 turns | 0.3 M |
| `kernel_turns` | Does any path forget a call or the kernel flag; do turns end? | 2 conversations, 2 turns, a tool alone and in `ParallelToolCall`, lists of 2 | 0.9 M |
| `log_compress` | Is every log an agent is sent well formed, with its request? | 2 requests, 3 calls, logs to 8 messages | 3.0 M |
| `heartbeat_ticks` | One ticker, each due task once, for ever? | an interval and a cron task, 2 ticks, 1 edit, 2 minutes of 2 ticks | 0.5 M |
| `learning_queue` | Is an insight pending or learned and not both? | 2 patterns, 2 calls at a time, 6 in all, room for 1 entry | 1.5 M |
| `heartbeat_hook` | "Simply remove Claw Assistant ... all Hooks will automatically revert" (`README.md:246`) | as `heartbeat_ticks` | violated |

`heartbeat_hook` ends in a counterexample: the setup puts the keys `runtime` and `entry` into
the domain's dictionary and nothing takes them out, so that `async_unload_entry`
(`__init__.py:139`) never finds it empty, and hook and ticker outlive the entry.

Bounds, and why they are enough:

- *Runs, Ops, Calls, Threads, Ticks, Tasks = 2.* Every race named among the hazards is between
  two actors; a third party (`/new`'s clear task, the timeouts, the executor) is there anyway.
- *MaxHooks = 2* (guard `Wrappable`): two hooks around each other give nesting, a lost hook
  and a stale hook left behind; a message that would wrap a third is not sent.
- *LoopBound = 1* for `range(50)`: a loop that goes on and a loop that is cut both occur.
- *Ids* of goals (guards `Affordable`, `Unheld`): as many objects as can be referred to; ids
  nothing refers to are used again, so goals can be set without end.
- *MaxTurns 0, MaxParseFailures 1* of the goal modules, for no budget of turns (0 means none in
  the code too) and for a limit of 3 failures: a verdict that can be parsed, and one that
  pauses the goal. Counters saturate there, since the code only compares them with the limit.
  The theorems are about any limits.
- *MaxHistory = 1, Window = 1* for 50 and 10: smaller than the number of entries.
- *MaxRetries, MaxCompress = 1* for 3 of `AgentChain`: budgets are counters with one test
  each; `CallBudget` is stated over the constants.
- *Warn 2, Repeat 3, Stop 3, MaxKernelSteps 2, MaxCont 2* of `TurnKernel`: each limit is
  below the number of calls (kernel and `MaxCalls`) a turn can make. *MaxTrace, MaxToolUsage
  2* for 200 and 100: fewer than those calls, so that both lists are trimmed, and together more
  than *Stop*, so that the limit is reached.
- *ProtectFirst 3* as in the code; *Slack 2, MinTail 2* for 4 and 3: the smallest log that is
  compressed has more behind the head than the tail keeps, as in the code, and *MaxLog* lets
  one be compressed twice in a turn.
- *Minute = Day = 2, MaxAge = 2*: a cron minute with two ticks, a wait over midnight.
- *MaxTurns, MaxCalls, MaxEdits* of the other modules bound what users and agents begin.

Symmetry is used over runs, operations, calls, threads, entries and (in `goal_commands`)
goals, in runs without liveness properties only. Deadlock checking is off where the system may
be at rest for good, because the bounds on what users do are used up.

What the properties leave open, because the code does:

- `LoopsMatchFlags` excuses flags that a cancelled `finally` clause left behind (`left`), and is
  checked without `/new`: see section 7. The run uses the pipeline, where only the timeouts of
  hooks around leave flags; the theorem is about both transports.
- `QuietFileIsMemory` excuses a file after operations that overlapped or were cancelled
  (`disturbed`), and goals that an error of the disk kept from being read or written (`apart`):
  all three lose writes. A lost write between overlapping operations is therefore not caught.
- `OnlyResumeReactivates` is checked where nobody sends `/goal resume`, so that no goal may become
  active again at all; the theorem has every command.
- `PendingHasCaller` and `EntryAnswered` excuse the entries of cancelled turns (`orphans`).
- `CronOnce` excuses states after a stale copy was written (`stale`); `LateOnce` counts anew for
  a task that such a copy brought back.
- `HandledOnce` and `LearnedWasOffered` say that what is left of the queue is consistent, not
  that nothing of it is lost.
- `StopBound` and `NoCallForgotten` leave aside the calls that no count can know of: repeated
  after an exception, ended after a switch of the conversation, cancelled, or trimmed from the
  lists by later ones.
- `RequestKept` excuses the use of a background result, and the request right behind the head.

## 5. Fairness

Safety is checked without any. Weak fairness always means: the event loop resumes a coroutine
whose awaited thing has come, and executor jobs end. Beyond it,

- `GoalLoop!FairSpec`: the judge has a timeout, and agents answer or fail (their calls have
  timeouts in `agent_fallback.py`). Users owe nothing, and the 180 s timeout is not counted
  on. `RunsEnd` then says that 50 continuations per hook bring every message to its end.
- `ApprovalGate!FairSpec`: `asyncio.sleep` and the deadline of a waiting call come due; panel,
  threads, ConfigFile and tools owe nothing, so that `EntryAnswered` rests on the deadline.
- `Delegation!FairSpec`: the timer of `wait_for` fires. That a model answers is not assumed.
- `AgentChain!FairSpec`: external agents are called under a timeout and a back-off is a sleep;
  Home Assistant's own agent, which is called without one, is assumed to return.
- `TurnKernel!FairSpec`: planner and agent are asked under timeouts, tools end (an approval
  they wait for does). `TurnsEnd` then rests on the limits of steps and rounds.
- `Heartbeat!FairSpec`: agents answer, a setup gets through, and time goes on (strongly fair,
  as the timer competes with the jobs for the one step the model takes at a time).

## 6. Proofs

The theorems hold for all values of the constants under the named assumptions of the
modules; `OneLoopEach` has a hypothesis besides (no `/new`), and there are no others.

`GoalLoop_proofs` shows `TypeCorrect`, `CompletedStaysQuiet`, `RegistryTrue`,
`PausedStaysPaused`, `NoTurnForDeadGoals` and `OneLoopEach`. The types are the hard part: a
run refers to the hooks of a chain it has found, and `Arrive` counts hooks and goal objects
before the run that needs them takes them. `IInv` therefore adds `Shape` (the hooks a
suspended run has entered are hooks of its chain), `RoomForHooks` and `RoomForGoals` (what the
messages on their way will need is left over in every chain and among the objects), and
`OneHolder` (no two conversations share a goal object, so that a `/goal resume` revives its
own). What a run does after its turn goes through any number of hooks; `Landed` says what
every such way keeps (the run stays itself or ends, the registry drops entries or names the
run, prompts go to no completed conversation), the lemmas `LandOK`, `EscapeOK`, `FinishOK` and
`LoopTopOK` establish it for the ways, and `EffectOK` derives the invariant from it once for
all actions. `SetAssumption` says that there is a conversation and that conversations, runs
and objects are finitely many.

`NoTurnForDeadGoals` (`NoNewContinuation`) follows from what a step can do with prompts. A
goal is owed its prompts, the latest prompt and the loops that are about to start a turn for
it (`Owed`). Only a verdict makes a prompt, and only for the goal it has just left active; in
every other step the prompts of a goal that is not live are dropped (`PromptsDrop`), or one of
them becomes the turn of the loop that takes it (`HandedOn`), which moves one from one count
to the other. The sum is over the conversations, so there have to be finitely many.

`OneLoopEach` (`LoopsMatchFlags`) has one hypothesis, that no message is `/new`, which takes
back the flags of everybody (section 7). The invariant is `LoopInv`. A run *takes* the
conversations of its hooks that loop (`Taken`), each once (`OneEach`); the flags that are not
`left` behind (`Looping`) are what the runs take, and no two take the same (`Fit`). What is left
behind is a flag (`left` is a subset of `flags`), so that no hook ever starts to loop for it
again. `Located` says which hooks of a run may be looping at each `pc`: none before it calls
`converse`, and in its gap a loop has continuations left, so that its count is above zero in
the turn it starts next. Where a timeout finds the run, or whose cancellation it is, does not
matter: whatever leaves a `finally` clause either drops the flag or moves it to `left`. What a
run does after its turn hands on the flags hook by hook; the lemmas follow `Land`, `Escape` and
`LoopTop` through the chain with the hooks still to be `Passing`.

`ApprovalGate_proofs` shows `TypeCorrect`, `NothingRunsUnapproved`, `EveryEntryAnsweredOnce`,
`AuditTrue`, `NoOrphans` and `Refinement`: `Spec => Service!Spec`. None of the invariants is
inductive: that a thread about to insert an entry does not make a second copy needs that it
*owns* the entry. `IndInv` adds

- `ThreadsOwnEntries`: an entry that a thread has popped and not inserted is resolved with
  that thread's verdict, is not in the history, and belongs to no other thread;
- `ThreadsHoldIds`, `CallsHoldEntries`: threads and waiting calls refer to entries, and a
  call that runs after a CONFIRM refers to an approved one;

and lemmas say what inserting at the head of a bounded history keeps: its bound, the
absence of duplicates, the agreement with `status`.

That an approval serves once is no property of the gate's state but of its steps, and needs
`OwnEntries`: a waiting call is the only one to wait for its entry, and nobody has gone on by
it. `AnswersStand` (an answer is final) and `FoundMeansApproved` (what is in the recent
history with a verdict has it) then make each step one of the service or hidden from it:
`Resolved`, `Leaves` and `Finishes` are the kinds of step, `Seen` and `Unseen` say what
the service sees of a call that moves.

`GoalStore_proofs` shows `TypeCorrect`, `ActiveGoalsJudgeable` and `QuietFileHoldsGoals`. In
the second the property itself already speaks of everything a goal can be held in (heap,
buffers, copies, file); with types, and with what an operation's `pc` and `job` say about the
object it holds, it is inductive. `IdsAssumption`, that there is an object left to create, is
discharged by TLC for the instances and means for the code that memory is not exhausted.
`QuietFileIsMemory` speaks of rest only, so its invariant has to say what holds on the way to
it. While nothing was disturbed at most one operation is under way, and `Order` says where it
is (`UnderWay`): what its job has read is what the file holds, what it has copied is the
object in memory, and once its job is finished its own conversation is in the file; every
other conversation is there all the time (`InSync`). All of this but for the goals that are
`apart`: a job that read nothing, or failed to write, adds those it touched, and one that wrote
takes its own away. `OwnObjects`, that no two conversations
share a goal object, keeps an operation from changing another's goal through its own.

`Delegation_proofs` shows `TypeCorrect`, `RegistryCorrect`, `InterruptsSeen` and
`Refinement`: `Spec => Service!Spec`. `RegistryMatchesRuns` needs `TurnsOK`: a subagent's turn
goes on only while it is in the pipeline, only a turn waits for a batch, and what is closing
has its result. From the three together every step is one of the service or hidden from it;
the lemmas `Hidden`, `Ended`, `Opened` and `Joins` say so once for each kind of step, so that
the cases of `ServiceStep` name only which kind they are.

`Learning_proofs` shows `TypeCorrect`, `InsightsHandledOnce` and `LearnedInsightsOffered`.
Not only the file but every copy that an operation may still write over it must satisfy
what is claimed: `Lists` states the claim for a payload, `CallOK` for the copy of an
operation. The copy of a confirm that has not been to the memory yet lists a pattern that
was not offered; `Handed` counts it as offered, and the step that leaves the memory makes it
so. `Equipped` says which copies a stage holds. Nothing is assumed of overlaps or crashes.

`AgentChain_proofs` shows `TypeCorrect`, `CallsWithinBudget` and `NoAgentForgotten`. A turn's
attempts are bounded because what was asked and what is queued is paid for: `ConvOK` keeps
attempts and length of the queue below the number of agents and what the turn has `Spent` on
retries and repairs. A retry puts one agent back and spends one (`Spends`, a lemma for each
kind); an agent taken from the queue moves from one side of the sum to the other. `Spent`
counts the retries as a set of pairs of agent and number, so that its bound is the size of a
product. `ConvOK` also says that no agent is lost: asked, skipped and queued make up all of
them, which for an empty queue is the second property. It needs of `Kinds` to be finite.

The same module shows `LogTypeOK`, `AskedWellFormed` and `RequestKept` of `ChatLog`.
`LogBoundAssumption` (the bounds are positive) is used.

*What filtering and flattening compute.* A log is rewritten by `FlattenSeq`, which the library
defines by recursion over the sequence. No induction theorem is needed: `LeastOf` takes, from
the well-foundedness of the numbers, the least place where a claim fails, and the claim is
refuted there. `FlattenPlaces` says with it where every message of a flattened log comes from
(`Placed`), in an order that grows. `Derived` puts that as a function from the places of the
new log to those of the old one: a message is `Copied`, or `Put` at a place where no result
stood (a summary), or a result `MadeUp` for a call of the message before it. `Sanitized`,
`Without` and the logs that a compression splices all are `Derived`.

*Well-formedness.* `LogInv` says of the log, of the snapshot and of the background's result
that they are `Kept`: the instructions at the head, calls among those made, and `Sound`, which
is no call made or answered twice, and between a call and its result results only. A log that
an agent has is besides `Whole`: the calls are the answered ones. Each way a log is changed
has a lemma that keeps `Sound` - appending, dropping, repairing, and head, summary and tail
put together - and each action one that follows from those. `AssembledForms` lists the
three outcomes of a compression (a summary of its own, one merged into the tail's first
message, none), which depend on the roles on both sides.

*The request.* `ReqInv` adds `RequestSafe`, also for the snapshot and the result: only
messages of the user make requests; what was called before the latest request is answered;
and once that request is behind the protected messages no other message of the user's role
follows it. The last part is what lets `TailCutBehind` conclude: `_find_tail_cut` looks for
the last message of that role, finds the request, and cuts before it, unless the request is
the first behind the head (`Swallowed`), where the summary quotes it or it had a summary in
front. The middle part means that no repair puts a result in front of the request, which
could push it out of the protected messages.

`TurnKernel_proofs` shows `TypeCorrect`, `EveryCallCounted`, `CallsBounded` and
`FlagNeverLeft`. The calls under way are a set of places, one for each slot of an agent that
holds the call, alone or in a `ParallelToolCall`, so that `Under` is its cardinality and one step
adds or takes one place. `NoCallForgotten` (executed is at most recorded plus under way) is kept
by each step: the lemma `Trims` says that what is left of a trimmed list and what `Lost` counts
account for all the executions it told of, so that `executed` forgets what the list does.
Together with the room for one more call that `check_tool_repeat` leaves below the stop limit,
and the number of slots of the turns of a conversation, it gives `StopBound`. The flag is owned
by the turn that set it. `CallAssumption` (no call contains itself) and `SetAssumption` (finitely
many turns; the value for none is no call) are used.

`Heartbeat_proofs` shows `TypeCorrect`, `TicksNeverOverlap`, `LateStartsOnce` and
`CronStartsOnce`. None of the properties is inductive, and `IInv` adds

- `Shapes`: which lists of jobs (`Plans`) an operation can have left, and which copies it holds
  with each; a task that a tick is running is not on its list;
- `FlagTrue` and `RuntimeKeyStays`: an unload that cleared the domain would take the running
  flag with it. It never does, as the key `runtime` stays once it is set, which is also why
  the hooks outlive the entry (section 7);
- `LateInv`: a task that a tick began after it was taken away is still away, and what is on a
  list has not been begun since. A list is made of enabled tasks only, and ticks do not
  overlap, so there is no second list that could hold the task;
- `CronInv`: unless a stale copy was written, a task begun in this minute is under way, or its
  state says that it was checked since the minute began (`Recorded`). The next list then
  leaves it out.

`TimeAssumption` says that a minute is no longer than the longest time kept of a task.

Model-checked only: liveness (`RunsEnd`, `EntryAnswered`, `TasksEnd`, `TurnsEnd`,
`KeepsRunning`), which needs fairness and is out of the prover's reach. Every other property
of a passing run is stated by a theorem.

## 7. Known divergences

What the code does against its own words or against the purpose of its guards, met while
modelling. The first is checked by a run; the others are behaviours of the models that the
properties excuse, or lie outside the modelled state.

- Removing the entry does not remove the hooks (`heartbeat_hook`, above).
- On the detached websocket path `/stop` has registered itself over the running turn
  (`patches.py:2196`) and cancels itself ("Cancel the currently running turn for this
  conversation", `command_registry.py:35`).
- A run that is cancelled at the await of a hook's `finally` clause
  (`official_websocket_hook.py:1285`) skips the statement that drops the loop flag (`:1297`), and
  the conversation is never continued again, until a `/new`. On the detached path a `/stop` can
  do that; on every path the 180 s of a hook around can (`:1253`).
- A turn may make more calls than its lists keep (`loop_controller.py:24`): past 100 usages, or
  200 steps of the kernel, identical calls leave the count, so that the stop limit of 20 holds
  among the calls that are still kept and not for the whole turn.
- Errors of the disk are dropped (`goals.py:227`, `:241`): after a write that failed a restart
  loads an older goal or none, and a save that could not read the file removes the goals of
  all other conversations from it.
- `/new` drops the loop flags of all conversations (`chat_commands.py:858`).
- `/goal resume` does not take the conversation out of the completed ones (`goals.py:626`);
  the loop of that very message stops at once ("/goal resume to keep going",
  `command_registry.py:114`). The next verdict "continue", after a message of the user, does.
- A verdict in flight over `/goal clear` writes the goal back (`goals.py:667`; "Stop and
  remove the goal", `command_registry.py:115`).
- A poll misses an approval that other resolutions pushed out of the searched window, or that
  a thread has popped and not inserted yet (`tool_executor.py:160`; "Poll the approval queue
  until resolved or timeout", `:153`).
- The warning of `check_tool_repeat` returns before the limit per tool is looked at
  (`loop_controller.py:406`), so that a call that is warned of passes that limit.
- A `/stop` that comes after a reply sets `should_end`, because `task_loop["active"]` is not
  taken back, and ends the next message's chain before it begins.
- The result of a `DelegateBatch` ("results are returned together", `delegation/tool.py:94`) is
  withheld when another conversation became active meanwhile (`internal_llm.py:921`).
  `DelegateStatus` cannot show a subagent that has ended (`delegation/tool.py:208`), and lists
  the others without awaiting the coroutine that does (`:221`).
- A background compression replaces the log as it is, whatever was said since its snapshot
  (`context_compressor.py:1040`): the request that the turn is about may be gone.
- The latest request is summarized when it is the first message behind the head
  (`context_compressor.py:518`), while the summary says to "Respond ONLY to the latest user
  message that appears AFTER this summary". The summary quotes it; the next summary, made of
  the first, quotes the first 200 characters of that, which are the fixed preamble, and the
  request is gone in the middle of its turn.
- A summary put in front of an assistant's message drops the calls of that message
  (`context_compressor.py:776`); their results then go too.
- The user memory is keyed by the ASCII letters and digits of a pattern (`_normalize_key`,
  `memory_store.py:219`). The detector's patterns are Chinese but for the hour, so two habits
  of one hour share a key, and confirming the second overwrites the first.

## 8. Not modelled

- *Effect of staged file operations* (`config_file_store.py`): two applies of one operation
  both change the file; only the queue entry is in `ApprovalGate`. The trust whitelist
  (`authorization.py:116`) is a constant there; it is read, changed and written whole like
  `goals.json`, without a lock.
- *Live view of a running turn* (`live_turn_store.py`, `official_websocket_hook.py:481`,
  `patches.py:2153`, `www/ha_crack.js:5219`): events are buffered for pages that join later and
  are written to a file by executor jobs that may overtake each other; the view shows them and
  nothing in the control of a turn reads them. The buffer of a turn is dropped 30 s after its
  end, also when the next turn of the conversation is filling it, and a page that follows two
  turns keeps both subscriptions: the properties one would want of the view do not hold, and
  no document states them.
- *Self edit* (`runtime/utils/self_edit.py`, `tools/self_edit_tools.py`): proposals for skills,
  guides and memory entries, staged as `pending/<slug>.md` and applied or discarded by tools.
  Two applies of one proposal run its executor twice, and the discard at the end of an apply
  deletes what was staged under the same slug meanwhile; no document rules either out.
- *Text stores* (skills, personas, rules, plugins, knowledge graph, curator): the rewriting of
  a whole file that `GoalStore` and `Learning` model, on other data. The snapshot that prompts
  are built from is signed after its files are read, so it can be stale under a fresh
  signature; the curator's archiving races with installs and uses.
- *Rest of the LLM side, history, output*: prompts, parsing and formatting, data and not
  control.
- *Tools, plugins, scrapers; configuration forms, sensors, diagnostics, discovery*: single
  calls into Home Assistant or the network, and read-only entities, without state of their own
  that steps could bring out of order. They are most of the lines of the integration, which
  is why the map covers a small share of them.
