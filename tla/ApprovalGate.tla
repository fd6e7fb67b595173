----------------------------- MODULE ApprovalGate -----------------------------
(* Tool calls through the policy gate and the approval queue.                  *)
(*                                                                            *)
(* A call (execute_kernel_tool, runtime/tools/tool_executor.py) asks the        *)
(* PreToolUse hooks, then PolicyGate.evaluate, and on CONFIRM puts an entry in  *)
(* the queue (runtime/storage/approval_store.py) and polls it on the event      *)
(* loop.  The queue is answered from elsewhere: the resolve_approval service    *)
(* runs resolve in an executor thread, where the entry leaves "pending" before  *)
(* it is in the history; the ConfigFile tool shares the queue for the file      *)
(* operations it stages, applies them in a thread, and cancels on the loop.     *)
EXTENDS Naturals, FiniteSets, Sequences

CONSTANTS
  Calls,          \* tool calls that can be in flight at once
  Threads,        \* executor threads serving the panel and ConfigFile apply
  Ids,            \* approval ids: the entries ever created (a bound)
  Users, Owners,  \* user keys, and those with the owner role
  Tools, Risk,    \* tools and RISK_MAP
  Whitelist,      \* <<user, tool>> pairs of the trust whitelist
  MaxHistory,     \* _MAX_HISTORY
  Window,         \* how much of the history _wait_for_approval searches
  NoId, NoUser

ASSUME ToolsAssumption == Tools # {}
ASSUME OwnersAssumption == Owners \subseteq Users
ASSUME RiskAssumption == Risk \in [Tools -> 0..3]
ASSUME WindowAssumption == MaxHistory \in Nat \ {0} /\ Window \in Nat
ASSUME NoIdAssumption == NoId \notin Ids

VARIABLES
  activeUser,  \* the active user key, one for the whole of Home Assistant
  call,        \* the tool calls
  pending,     \* state["pending"]: the kind of each entry waiting for an answer
  history,     \* approval_history, newest first
  status,      \* the status of every entry ever created
  thread,      \* what the executor threads do
  audit,       \* the results audited for each approval
  orphans      \* history: entries whose call was cancelled while it waited

vars == <<activeUser, call, pending, history, status, thread, audit, orphans>>

-------------------------------------------------------------------------------
Kinds == {"none", "tool_approval", "config_operation"}

Call == [pc : {"idle", "pre", "poll", "exec"}, tool : Tools,
         decision : {"none", "ALLOW", "CONFIRM"}, id : Ids \cup {NoId}]
Thread == [pc : {"idle", "pop", "apply", "insert"}, id : Ids \cup {NoId},
           approved : BOOLEAN]
Resolution == [id : Ids, status : {"approved", "denied"}]

TypeOK ==
  /\ activeUser \in Users \cup {NoUser}
  /\ call \in [Calls -> Call]
  /\ pending \in [Ids -> Kinds]
  /\ history \in Seq(Resolution) /\ Len(history) <= MaxHistory
  /\ status \in [Ids -> {"new", "pending", "approved", "denied"}]
  /\ thread \in [Threads -> Thread]
  /\ audit \in [Ids -> SUBSET {"pending", "approved", "cancelled"}]
  /\ orphans \subseteq Ids

NoCall == [pc |-> "idle", tool |-> CHOOSE t \in Tools : TRUE, decision |-> "none", id |-> NoId]
NoThread == [pc |-> "idle", id |-> NoId, approved |-> FALSE]

Waiting == {i \in Ids : pending[i] # "none"}
Unused == {i \in Ids : status[i] = "new"}

-------------------------------------------------------------------------------
(* The queue.                                                                 *)

\* create: a fresh uuid and a pending entry.
Created(id, kind) ==
  /\ pending' = [pending EXCEPT ![id] = kind]
  /\ status' = [status EXCEPT ![id] = "pending"]

Verdict(approved) == IF approved THEN "approved" ELSE "denied"

\* resolve, first half: dict.pop and the verdict written on the entry.
PeekedOnly(id, approved) ==
  /\ status' = [status EXCEPT ![id] = Verdict(approved)]
  /\ UNCHANGED pending
Popped(id, approved) ==
  /\ pending' = [pending EXCEPT ![id] = "none"]
  /\ status' = [status EXCEPT ![id] = Verdict(approved)]

\* resolve, second half: history.insert(0, entry); del history[_MAX_HISTORY:].
Unbounded(h, id, approved) == <<[id |-> id, status |-> Verdict(approved)]>> \o h
Inserted(h, id, approved) ==
  SubSeq(<<[id |-> id, status |-> Verdict(approved)]>> \o h, 1,
         IF Len(h) < MaxHistory THEN Len(h) + 1 ELSE MaxHistory)

\* A resolve that does not look whether the entry still waits.
ResolveAnyway(id, approved) ==
  Popped(id, approved) /\ history' = Inserted(history, id, approved)

\* resolve and cancel where they run on the event loop: both halves in one step.
ResolveNow(id, approved) ==
  IF id \in Waiting
  THEN Popped(id, approved) /\ history' = Inserted(history, id, approved)
  ELSE UNCHANGED <<pending, status, history>>

-------------------------------------------------------------------------------
(* The policy.                                                                *)

Evaluate(user, tool, inArea) ==
  IF <<user, tool>> \in Whitelist \/ user \in Owners THEN "ALLOW"
  ELSE IF Risk[tool] <= 1 THEN IF inArea THEN "ALLOW" ELSE "DENY"
  ELSE IF Risk[tool] = 2 THEN "CONFIRM"
  ELSE "DENY"

-------------------------------------------------------------------------------
(* A tool call.                                                               *)

\* A message: set_active_user_key, with no key when the sender is unknown.
Speak ==
  /\ activeUser' \in Users \cup {NoUser}
  /\ UNCHANGED <<call, pending, history, status, thread, audit, orphans>>

\* Blocked and unknown tools never get here.  The PreToolUse hooks are awaited.
Request(k) ==
  /\ call[k].pc = "idle"
  /\ \E t \in Tools : call' = [call EXCEPT ![k] = [NoCall EXCEPT !.pc = "pre", !.tool = t]]
  /\ UNCHANGED <<activeUser, pending, history, status, thread, audit, orphans>>

\* A PreToolUse hook blocks the call, or the gate denies it (or fails).
Refused(k) ==
  /\ call[k].pc = "pre"
  /\ call' = [call EXCEPT ![k] = NoCall]
  /\ UNCHANGED <<activeUser, pending, history, status, thread, audit, orphans>>

Allowed(k) ==
  /\ call[k].pc = "pre"
  /\ \E inArea \in BOOLEAN : Evaluate(activeUser, call[k].tool, inArea) = "ALLOW"
  /\ call' = [call EXCEPT ![k].pc = "exec", ![k].decision = "ALLOW"]
  /\ UNCHANGED <<activeUser, pending, history, status, thread, audit, orphans>>

\* The entry is created and looked up once; then the call sleeps between polls.
Confirm(k) ==
  /\ call[k].pc = "pre"
  /\ \E inArea \in BOOLEAN : Evaluate(activeUser, call[k].tool, inArea) = "CONFIRM"
  /\ \E id \in Unused :
       /\ Created(id, "tool_approval")
       /\ call' = [call EXCEPT ![k].pc = "poll", ![k].decision = "CONFIRM", ![k].id = id]
       /\ audit' = [audit EXCEPT ![id] = {"pending"}]
  /\ UNCHANGED <<activeUser, history, thread, orphans>>

Recent == {history[i] : i \in 1..(IF Len(history) < Window THEN Len(history) ELSE Window)}

ApprovedUnlessDenied(id) == [id |-> id, status |-> "denied"] \notin Recent
FoundApproved(id) == [id |-> id, status |-> "approved"] \in Recent

\* _wait_for_approval returned; the result is audited.
Answered(k, approved) ==
  /\ call' = IF approved THEN [call EXCEPT ![k].pc = "exec"] ELSE [call EXCEPT ![k] = NoCall]
  /\ audit' = [audit EXCEPT ![call[k].id] =
                 @ \cup {IF approved THEN "approved" ELSE "cancelled"}]

\* A poll finds the entry gone: the verdict is what the recent history says.
Poll(k) ==
  /\ call[k].pc = "poll"
  /\ call[k].id \notin Waiting
  /\ Answered(k, FoundApproved(call[k].id))
  /\ UNCHANGED <<activeUser, pending, history, status, thread, orphans>>

\* A deadline that only gives up, and one that never comes.
GivenUp(k) ==
  /\ call[k].pc = "poll"
  /\ Answered(k, FALSE)
  /\ UNCHANGED <<activeUser, pending, history, status, thread, orphans>>
NeverTimedOut(k) == FALSE

\* The deadline is seen first: cancel, whatever happened since the last poll.
TimedOut(k) ==
  /\ call[k].pc = "poll"
  /\ ResolveNow(call[k].id, FALSE)
  /\ Answered(k, FALSE)
  /\ UNCHANGED <<activeUser, thread, orphans>>

\* The turn is cancelled while the call sleeps: the entry stays in the queue.
TurnCancelled(k) ==
  /\ call[k].pc \in {"pre", "poll", "exec"}
  /\ call' = [call EXCEPT ![k] = NoCall]
  /\ orphans' = IF call[k].pc = "poll" THEN orphans \cup {call[k].id} ELSE orphans
  /\ UNCHANGED <<activeUser, pending, history, status, thread, audit>>

\* tool.async_call ends, with a result or an exception.
Executed(k) ==
  /\ call[k].pc = "exec"
  /\ call' = [call EXCEPT ![k] = NoCall]
  /\ UNCHANGED <<activeUser, pending, history, status, thread, audit, orphans>>

-------------------------------------------------------------------------------
(* Those who answer.                                                          *)

\* resolve_approval of the panel, with any id it was shown at some time.
PanelResolves(p) ==
  /\ thread[p].pc = "idle"
  /\ \E id \in Ids \ Unused, approved \in BOOLEAN :
       thread' = [thread EXCEPT ![p] = [pc |-> "pop", id |-> id, approved |-> approved]]
  /\ UNCHANGED <<activeUser, call, pending, history, status, audit, orphans>>

\* An entry somebody else took is left alone.
ThreadPops(p) ==
  LET id == thread[p].id
  IN /\ thread[p].pc = "pop"
     /\ IF id \in Waiting
        THEN /\ Popped(id, thread[p].approved)
             /\ thread' = [thread EXCEPT ![p].pc = "insert"]
        ELSE /\ UNCHANGED <<pending, status>>
             /\ thread' = [thread EXCEPT ![p] = NoThread]
     /\ UNCHANGED <<activeUser, call, history, audit, orphans>>

ThreadInserts(p) ==
  /\ thread[p].pc = "insert"
  /\ history' = Inserted(history, thread[p].id, thread[p].approved)
  /\ thread' = [thread EXCEPT ![p] = NoThread]
  /\ UNCHANGED <<activeUser, call, pending, status, audit, orphans>>

\* The ConfigFile tool: stage on the loop, apply in a thread, cancel on the loop.
ConfigStage ==
  /\ \E id \in Unused : Created(id, "config_operation")
  /\ UNCHANGED <<activeUser, call, history, thread, audit, orphans>>

\* apply finds the entry (the file change fails for a tool approval: no action).
ConfigApply(p) ==
  /\ thread[p].pc = "idle"
  /\ \E id \in {i \in Waiting : pending[i] = "config_operation"} :
       thread' = [thread EXCEPT ![p] = [pc |-> "apply", id |-> id, approved |-> TRUE]]
  /\ UNCHANGED <<activeUser, call, pending, history, status, audit, orphans>>

\* The file is changed, and the entry resolved if it is still there.
ConfigApplied(p) ==
  /\ thread[p].pc = "apply"
  /\ thread' = [thread EXCEPT ![p].pc = "pop"]
  /\ UNCHANGED <<activeUser, call, pending, history, status, audit, orphans>>

\* cancel looks at no kind.
ConfigCancel ==
  /\ \E id \in Waiting : ResolveNow(id, FALSE)
  /\ UNCHANGED <<activeUser, call, thread, audit, orphans>>

-------------------------------------------------------------------------------
Init ==
  /\ activeUser = NoUser
  /\ call = [k \in Calls |-> NoCall]
  /\ pending = [id \in Ids |-> "none"]
  /\ history = <<>>
  /\ status = [id \in Ids |-> "new"]
  /\ thread = [p \in Threads |-> NoThread]
  /\ audit = [id \in Ids |-> {}]
  /\ orphans = {}

CallStep(k) ==
  \/ Request(k) \/ Refused(k) \/ Allowed(k) \/ Confirm(k)
  \/ Poll(k) \/ TimedOut(k) \/ TurnCancelled(k) \/ Executed(k)

ThreadStep(p) ==
  \/ PanelResolves(p) \/ ConfigApply(p)
  \/ ThreadPops(p) \/ ThreadInserts(p) \/ ConfigApplied(p)

Next ==
  \/ Speak \/ ConfigStage \/ ConfigCancel
  \/ \E k \in Calls : CallStep(k)
  \/ \E p \in Threads : ThreadStep(p)

Spec == Init /\ [][Next]_vars

\* asyncio.sleep and the deadline of a waiting call come due.
Fairness == \A k \in Calls : WF_vars(Poll(k) \/ TimedOut(k))

FairSpec == Spec /\ Fairness

-------------------------------------------------------------------------------
(* Properties.                                                                *)

\* A call the policy wanted confirmed runs its tool only if somebody approved its own
\* entry: not on a timeout, not on a denial, not because the entry has vanished.
ExecutedMeansApproved ==
  \A k \in Calls : call[k].pc = "exec" /\ call[k].decision = "CONFIRM"
    => call[k].id \in Ids /\ status[call[k].id] = "approved"

\* Every entry gets one answer, although the panel's threads, the deadline of the
\* waiting call and the ConfigFile tool race for it: an entry that still waits has
\* none, and the history holds no entry twice and none that contradicts the answer.
AnsweredOnce ==
  /\ \A id \in Ids : id \in Waiting <=> status[id] = "pending"
  /\ \A i, j \in DOMAIN history : history[i].id = history[j].id => i = j
  /\ \A i \in DOMAIN history : history[i].status = status[history[i].id]

\* Nobody is asked to approve a call that nobody waits for, unless the turn of the
\* call was cancelled under it: a denial, a deadline and an answer that came too late
\* leave nothing in the queue (tool_executor.py, _wait_for_approval).
PendingHasCaller ==
  \A id \in Ids \ orphans : pending[id] = "tool_approval"
    => \E k \in Calls : call[k].pc = "poll" /\ call[k].id = id

\* The audit log agrees with the verdict: what it says was approved was.
AuditAgrees == \A id \in Ids : "approved" \in audit[id] => status[id] = "approved"

\* Every entry a call put in the queue leaves it with an answer, also when nobody looks
\* at the panel and other entries come and go: the deadline of its call answers it, if
\* the call is not cancelled first.
EntryAnswered ==
  \A id \in Ids : pending[id] = "tool_approval" ~> pending[id] = "none" \/ id \in orphans

\* The gate and its queue, seen by those who ask, are the service of ApprovalService.
\* What a caller is told is what the audit log keeps.
Service == INSTANCE ApprovalService WITH
  Callers <- Calls, Requests <- Ids, None <- NoId,
  answer <- status,
  asking <- [k \in Calls |-> IF call[k].pc = "poll" THEN call[k].id ELSE NoId],
  running <- [k \in Calls |->
                IF call[k].pc = "exec" /\ call[k].decision = "CONFIRM" THEN call[k].id ELSE NoId],
  granted <- {i \in Ids : "approved" \in audit[i]}

\* One answer for a request, whoever races for it, and that is final; a call goes on
\* only by an approval of its own request, and by each approval once, although the
\* verdict is read from a history others write to (resolve, _wait_for_approval and
\* _enforce_policy_gate).
ImplementsService == Service!Spec
===============================================================================
