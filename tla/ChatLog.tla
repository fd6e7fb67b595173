------------------------------- MODULE ChatLog -------------------------------
(***************************************************************************)
(* The chat log that is sent to an agent, and how it is kept short           *)
(* (runtime/llm/context_compressor.py): the middle of a log that has grown    *)
(* too long is replaced by a summary, at once or by a task in the background   *)
(* whose result waits for the next log that is too long; and whatever has      *)
(* happened to the log, calls and results are paired before an agent is asked  *)
(* (runtime/agent/agent_fallback.py).                                         *)
(*                                                                           *)
(* The log of one conversation is modelled, a list that Home Assistant keeps   *)
(* and that agents append to; other conversations only share the count of     *)
(* useless compressions.  Sizes are abstracted: whether a log is too long, and  *)
(* where the token budget of its tail ends, are choices.  A summary is written  *)
(* without asking an agent (no caller names one), so nothing suspends a         *)
(* compression.                                                               *)
(***************************************************************************)
EXTENDS Integers, Sequences, FiniteSets, FiniteSetsExt, SequencesExt

CONSTANTS ProtectFirst, \* protect_first_n
          Slack,        \* messages a log needs beyond those to be compressed
          MinTail,      \* messages kept at the end, if there are as many
          MaxRequests,  \* bound of the model: requests of the user
          MaxCalls,     \* bound of the model: tool calls
          MaxLog,       \* bound of the model: messages an agent's log grows to
          None          \* no log

Requests == 1..MaxRequests
Calls == 1..MaxCalls

ASSUME LogBoundAssumption ==
  {ProtectFirst, Slack, MinTail, MaxRequests, MaxCalls, MaxLog} \subseteq Nat \ {0}

VARIABLES
  log,      \* content of the chat log
  stage,    \* where the turn of the conversation is
  said,     \* number of requests
  made,     \* number of tool calls
  deferred, \* _DEFERRED_COMPRESSIONS has the conversation
  pending,  \* the snapshot the background task holds, or None
  ready,    \* _COMPRESSION_RESULTS of the conversation, or None
  useless   \* _ineffective_compression_count of the one compressor

logVars == <<log, stage, said, made, deferred, pending, ready, useless>>
backgroundVars == <<deferred, pending, ready>>

\* "rest": no turn; "turn": on the way to an agent; "asked": the agent has the
\* log; "broken": it has failed with calls that are not answered; "again": the
\* chain goes round without an await.
LogStages == {"rest", "turn", "asked", "broken", "again"}
Returned == stage \in {"asked", "broken"}
Roles == {"system", "user", "assistant", "tool_result"}

\* own is the request a message makes, 0 if none; summary tells whether its text
\* begins with one, and quotes are the requests quoted there; of is the call that
\* a result answers.
Message == [role: Roles, own: Requests \cup {0}, summary: BOOLEAN, quotes: SUBSET Requests,
            calls: SUBSET Calls, of: Calls \cup {0}, text: BOOLEAN]
\* The instructions stay at the head.
Logs == {s \in Seq(Message) : s # <<>> /\ s[1].role = "system"}

Plain(role) == [role |-> role, own |-> 0, summary |-> FALSE, quotes |-> {},
                calls |-> {}, of |-> 0, text |-> TRUE]
Request(n) == [Plain("user") EXCEPT !.own = n]
Reply(calls, text) == [Plain("assistant") EXCEPT !.calls = calls, !.text = text]
Result(k) == [Plain("tool_result") EXCEPT !.of = k]
Summary(role, quotes) == [Plain(role) EXCEPT !.summary = TRUE, !.quotes = quotes]

LogTypeOK ==
  /\ log \in Logs
  /\ stage \in LogStages
  /\ said \in 0..MaxRequests /\ made \in 0..MaxCalls
  /\ deferred \in BOOLEAN
  /\ {pending, ready} \subseteq Logs \cup {None}
  /\ useless \in 0..2

LogInit ==
  /\ log = <<Plain("system")>>
  /\ stage = "rest"
  /\ said = 0 /\ made = 0
  /\ deferred = FALSE /\ pending = None /\ ready = None
  /\ useless = 0

-----------------------------------------------------------------------------
(* sanitize_tool_pairs: results without a call go, calls without a result get *)
(* one.                                                                      *)

Called(s) == UNION {s[i].calls : i \in DOMAIN s}
Answered(s) == {s[i].of : i \in DOMAIN s} \ {0}

\* Messages that answer no call are no results, and are taken for orphans too.
NoResults(s) == {i \in DOMAIN s : s[i].of \notin Called(s)}

Orphans(s) ==
  LET called == Called(s) IN {i \in DOMAIN s : s[i].of \notin called \cup {0}}

Without(s, gone) == FlattenSeq([i \in DOMAIN s |-> IF i \in gone THEN <<>> ELSE <<s[i]>>])

Stubs(calls) == [i \in 1..Cardinality(calls) |-> Result(SetToSeq(calls)[i])]

\* The calls without a result are left as they are.
SanitizedResults(s) == Without(s, Orphans(s))

Sanitized(s) ==
  LET gone == Orphans(s)
      answered == Answered(s) IN
  FlattenSeq([i \in DOMAIN s |->
    IF i \in gone THEN <<>> ELSE <<s[i]>> \o Stubs(s[i].calls \ answered)])

-----------------------------------------------------------------------------
(* compress: head and tail stay, what is between becomes a summary.          *)

IsResult(m) == m.role = "tool_result"

\* _align_boundary_forward: how many messages the head has.
HeadLen(s) ==
  Min({h \in ProtectFirst..Len(s) : h = Len(s) \/ ~IsResult(s[h + 1])})

\* Where the budget of the tail may end: so many messages are before it.
Cuts(s) ==
  LET h == HeadLen(s)
      behind == Len(s) - h IN
  IF behind = 0 THEN {h + 1}
  ELSE (h + 1)..(Len(s) - (IF behind > 1 THEN Min({MinTail, behind - 1}) ELSE 0))

\* _align_boundary_backward: not between a call and its results.
AlignBackward(s, cut) ==
  LET before == {i \in 1..cut : ~IsResult(s[i])} IN
  IF cut < Len(s) /\ before # {} /\ s[Max(before)].calls # {} THEN Max(before) - 1 ELSE cut

\* _find_last_user_idx: the last message of the user's role behind the head.
UserBehind(s, h) == {i \in h + 1..Len(s) : s[i].role = "user"}

\* A tail that may begin behind the last request.
TailCutAnywhere(s, cut) == Max({AlignBackward(s, cut), HeadLen(s) + 1})

TailCut(s, cut) ==
  LET h == HeadLen(s)
      aligned == AlignBackward(s, cut)
      users == UserBehind(s, h) IN
  Max({h + 1, IF users # {} /\ Max(users) - 1 < aligned THEN Max(users) - 1 ELSE aligned})

\* _generate_static_fallback: of the requests, a summary quotes the beginning of
\* the last message of the user's role, which is nothing of its own if that is or
\* begins with a summary.
Quoted(turns) ==
  LET users == UserBehind(turns, 0) IN
  IF users = {} \/ turns[Max(users)].summary THEN {} ELSE {turns[Max(users)].own}

\* _assemble: the summary of what is between h and cut takes the role that its
\* neighbours do not have; if each has one of the two, it is put in front of the
\* first message of the tail, which keeps its text only.
Assembled(s, h, cut) ==
  LET head == SubSeq(s, 1, h)
      quotes == Quoted(SubSeq(s, h + 1, Min({cut, Len(s)})))
      tail == SubSeq(s, cut + 1, Len(s))
      last == s[h].role
      first == IF tail = <<>> THEN "user" ELSE Head(tail).role
      Other(role) == IF role = "user" THEN "assistant" ELSE "user"
      wanted == IF last \in {"assistant", "tool_result"} THEN "user" ELSE "assistant" IN
  IF wanted # first THEN head \o <<Summary(wanted, quotes)>> \o tail
  ELSE IF Other(wanted) # last THEN head \o <<Summary(Other(wanted), quotes)>> \o tail
  ELSE IF tail = <<>> THEN head
  ELSE head \o <<[Summary(first, quotes \cup Head(tail).quotes) EXCEPT !.own = Head(tail).own]>>
            \o Tail(tail)

TooShort(s) == Len(s) <= ProtectFirst + Slack

\* What compress may make of a log that is not too short.
Compressed(s) == {Sanitized(Assembled(s, HeadLen(s), TailCut(s, cut))) : cut \in Cuts(s)}

\* Less than a tenth saved counts as useless; two such are the same as more.
Judged == useless' \in {0, Min({useless + 1, 2})}

-----------------------------------------------------------------------------
(* A turn.                                                                   *)

\* A request comes in; the orchestrator sanitizes the log.
Speak ==
  /\ stage = "rest" /\ said < MaxRequests /\ Len(log) < MaxLog
  /\ said' = said + 1
  /\ log' = Append(Sanitized(log), Request(said + 1))
  /\ stage' = "turn"
  /\ UNCHANGED <<made, backgroundVars, useless>>

RepairPairs == log' = Sanitized(log)

\* _trim_chat_log_for_context_overflow, then sanitize_tool_pairs: a result of the
\* background task is taken for the log, whatever the log has become since.
Trim(force) ==
  IF ready # None
  THEN log' = Sanitized(ready) /\ ready' = None /\ UNCHANGED useless
  ELSE /\ UNCHANGED ready
       /\ IF ~TooShort(log) /\ (force \/ useless < 2)
          THEN \E s \in Compressed(log) : log' = Sanitized(s) /\ Judged
          ELSE RepairPairs /\ UNCHANGED useless

\* preflight_check: a log that is long enough is compressed, if it is too large.
Preflight(force) ==
  \/ ~TooShort(log) /\ Trim(force)
  \/ RepairPairs /\ UNCHANGED <<ready, useless>>

\* run_deferred_compression: the task begins with a snapshot of the log.
RunDeferred ==
  /\ deferred' = FALSE
  /\ pending' = IF deferred /\ pending = None THEN log ELSE pending

\* The head of the chain's loop: the compression the last turn has asked for is
\* started, a log that is too long is compressed, the agent is asked.
Ask ==
  /\ stage \in {"turn", "again"}
  /\ RunDeferred
  /\ Preflight(FALSE)
  /\ stage' = "asked"
  /\ UNCHANGED <<said, made>>

\* The kernel compresses before it asks its planner, whose messages it drops.
AskPlanner ==
  /\ stage = "turn"
  /\ Preflight(TRUE)
  /\ UNCHANGED <<stage, said, made, deferred, pending>>

\* The agent calls tools; not all of them have answered when it fails.
CallTools(n, answered, text) ==
  LET calls == made + 1..made + n IN
  /\ stage = "asked"
  /\ made + n <= MaxCalls
  /\ Len(log) + 1 + Cardinality(answered) <= MaxLog
  /\ answered \subseteq calls
  /\ made' = made + n
  /\ log' = log \o <<Reply(calls, text)>> \o Stubs(answered)
  /\ stage' = IF answered = calls THEN "asked" ELSE "broken"
  /\ UNCHANGED <<said, backgroundVars, useless>>

\* A reply ends the turn, or what a failed agent has said before is taken for
\* one; a log that is too large then is marked.
Finalize ==
  /\ \/ stage = "asked" /\ Len(log) < MaxLog /\ log' = Append(log, Reply({}, TRUE))
     \/ Returned /\ UNCHANGED log
  /\ stage' = "rest"
  /\ deferred' \in {deferred, deferred \/ (pending = None /\ useless < 2)}
  /\ UNCHANGED <<said, made, pending, ready, useless>>

\* An empty reply, or a failure: another agent, or the same one after a backoff.
ReplyFails ==
  /\ \/ stage = "asked" /\ Len(log) < MaxLog /\ log' = Append(log, Reply({}, FALSE))
     \/ Returned /\ UNCHANGED log
  /\ stage' = "turn"
  /\ UNCHANGED <<said, made, backgroundVars, useless>>

\* "Too long", says the agent: the log is compressed by force, and sent again.
Overflow ==
  /\ Returned
  /\ Trim(TRUE)
  /\ stage' = "again"
  /\ UNCHANGED <<said, made, deferred, pending>>

\* Assistant's messages without a text go, with the calls they make.
DropEmpty ==
  /\ log' = Without(log, {i \in DOMAIN log : log[i].role = "assistant" /\ ~log[i].text})
  /\ log' # log

\* The agent rejects the log: pairs are repaired, or empty messages dropped.
LogSelfRepair ==
  /\ Returned
  /\ RepairPairs \/ DropEmpty
  /\ stage' = "again"
  /\ UNCHANGED <<said, made, backgroundVars, useless>>

Cancel ==
  /\ stage = "turn" \/ Returned
  /\ stage' = "rest"
  /\ UNCHANGED <<log, said, made, backgroundVars, useless>>

\* _background_compress_task runs, between two awaits of the turn.
Background ==
  /\ pending # None /\ stage # "again"
  /\ pending' = None
  /\ IF TooShort(pending) THEN UNCHANGED <<ready, useless>>
     ELSE ready' \in Compressed(pending) /\ Judged
  /\ UNCHANGED <<log, stage, said, made, deferred>>

\* The logs of other conversations are compressed.
Elsewhere ==
  /\ Judged
  /\ UNCHANGED <<log, stage, said, made, backgroundVars>>

LogNext ==
  \/ Speak \/ Ask \/ AskPlanner \/ Finalize \/ ReplyFails \/ Overflow \/ LogSelfRepair \/ Cancel
  \/ \E n \in 1..2, answered \in SUBSET Calls, text \in BOOLEAN : CallTools(n, answered, text)
  \/ Background \/ Elsewhere

LogSpec == LogInit /\ [][LogNext]_logVars

-----------------------------------------------------------------------------
(* Properties.                                                               *)

\* The results of the message at i are the messages right behind it.
Paired(s, i) ==
  LET last == i + Cardinality(s[i].calls) IN
  /\ last <= Len(s)
  /\ s[i].calls = {s[j].of : j \in i + 1..last}

\* No agent is sent a log that a provider rejects: each call is followed by
\* its results, and there is no result without its call, whatever was
\* summarized, merged, dropped, cut off or replaced by an older copy.
AskedWellFormed ==
  stage = "asked" =>
    /\ \A i \in DOMAIN log : Paired(log, i)
    /\ Answered(log) \subseteq Called(log)

Standing(s) == {s[i].own : i \in DOMAIN s}
QuotedIn(s) == UNION {s[i].quotes : i \in DOMAIN s}

\* The latest request, right behind the protected head, goes into the summary that
\* quotes it, unless it had a summary in front.
Summarized ==
  /\ Len(log) > ProtectFirst
  /\ LET h == HeadLen(log) IN
     /\ h < Len(log) /\ log[h + 1].own = said
     /\ log[h + 1].summary \/ said \in QuotedIn(log')

\* No step but the use of a background result takes the latest request from the
\* log, however often it is compressed while the turn goes on, or else it is the
\* one message that _find_tail_cut keeps to be summarized.
RequestKept ==
  [][\/ ready # None /\ ready' = None
     \/ said \notin Standing(log)
     \/ said \in Standing(log')
     \/ Summarized]_logVars
=============================================================================
