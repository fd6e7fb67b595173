----------------------------- MODULE AgentChain -----------------------------
(***************************************************************************)
(* The chain of fallback agents (runtime/agent/agent_fallback.py) and what   *)
(* it learns of them (runtime/storage/adaptive_memory.py).  A turn asks Home  *)
(* Assistant's own agent first, then the configured agents one after the      *)
(* other, each with its retries and repairs, until one of them replies, the   *)
(* user stops the chain, or the agents run out.                               *)
(*                                                                           *)
(* Turns of several conversations interleave at the awaits.  They share the  *)
(* should_end flag and the memory of the agents; the retry counters are       *)
(* locals of a turn.  Handoffs are left out: nothing requests one             *)
(* (request_agent_handoff has no caller), so that no chain ever finds one.    *)
(***************************************************************************)
EXTENDS Naturals, Sequences, FiniteSets, SequencesExt

CONSTANTS Convs,       \* conversations
          Fallback,    \* the configured fallback agents, in order
          MaxRetries,  \* _MAX_TRANSIENT_RETRIES
          MaxCompress, \* attempts to compress the context, on each of two paths
          Kinds,       \* repair_kind of _try_self_repair_agent_error
          MaxTurns     \* bound of the model: turns users start

Agents == ToSet(Fallback)

ASSUME FallbackAssumption ==
  Fallback \in Seq(Agents) /\ IsInjective(Fallback) /\ Fallback # <<>>
ASSUME KindAssumption == IsFiniteSet(Kinds)
ASSUME BoundAssumption == {MaxRetries, MaxCompress, MaxTurns} \subseteq Nat

VARIABLES
  pc,        \* where the turn of a conversation is suspended
  queue,     \* agent_queue
  current,   \* current_agent_id, the agent that is being asked
  used,      \* transient_retry_counts, see Fresh
  asked,     \* history: agents asked in this turn
  skipped,   \* history: agents left out of this turn for what was known of them
  attempts,  \* history: how often an agent was asked in this turn
  outcome,   \* how the last turn of the conversation ended
  turns,     \* number of turns
  memory,    \* what the adaptive memory keeps of each agent
  shouldEnd, \* should_end_flag["value"], one for all conversations
  loopAlive  \* conversations whose task_loop["active"] is set

turnVars == <<pc, queue, current, used, asked, skipped, attempts,
              outcome>>
vars == <<turnVars, turns, memory, shouldEnd, loopAlive>>

Stages == {"idle", "internal", "ask", "finalize", "backoff"}
Outcomes == {"none", "reply", "stopped", "error", "cancelled"}
Signatures == {"transient", "severe", "incompatible", "plain"}
NoAgent == "none"
Primary == Head(Fallback)

\* The counters of a turn: retries of each agent after a backoff, attempts to
\* strip the images, to compress after an error and after an exception, and
\* the repairs done.
Fresh == [retry |-> [a \in Agents |-> 0], image |-> 0, compress |-> 0,
          compressExc |-> 0, repaired |-> {}]

Unknown == [signature |-> NoAgent, failures |-> 0, cooling |-> FALSE]

TypeOK ==
  /\ pc \in [Convs -> Stages]
  /\ queue \in [Convs -> Seq(Agents)]
  /\ current \in [Convs -> Agents \cup {NoAgent}]
  /\ used \in [Convs -> [retry : [Agents -> 0..MaxRetries], image : 0..1,
                         compress : 0..MaxCompress, compressExc : 0..MaxCompress,
                         repaired : SUBSET (Agents \X Kinds)]]
  /\ asked \in [Convs -> SUBSET Agents]
  /\ skipped \in [Convs -> SUBSET Agents]
  /\ attempts \in [Convs -> Nat]
  /\ outcome \in [Convs -> Outcomes]
  /\ turns \in 0..MaxTurns
  /\ memory \in [Agents -> [signature : Signatures \cup {NoAgent}, failures : 0..2,
                            cooling : BOOLEAN]]
  /\ shouldEnd \in BOOLEAN
  /\ loopAlive \subseteq Convs

Init ==
  /\ pc = [c \in Convs |-> "idle"]
  /\ queue = [c \in Convs |-> <<>>]
  /\ current = [c \in Convs |-> NoAgent]
  /\ used = [c \in Convs |-> Fresh]
  /\ asked = [c \in Convs |-> {}]
  /\ skipped = [c \in Convs |-> {}]
  /\ attempts = [c \in Convs |-> 0]
  /\ outcome = [c \in Convs |-> "none"]
  /\ turns = 0
  /\ memory = [a \in Agents |-> Unknown]
  /\ shouldEnd = FALSE
  /\ loopAlive = {}

-----------------------------------------------------------------------------
(* The adaptive memory.  Times are abstracted to whether they have passed: an *)
(* incompatibility that is an hour old is one severe error among the others.  *)

\* Two consecutive failures, or one that is severe, cool an agent down, unless
\* the error is transient.  Of the count, only that it reached two matters.
Failed(m, signature) ==
  LET n == IF m.failures = 2 THEN 2 ELSE m.failures + 1 IN
  [signature |-> signature, failures |-> n,
   cooling |-> m.cooling \/ (signature # "transient" /\ (signature # "plain" \/ n = 2))]

RecordFailure(a, signature) == memory' = [memory EXCEPT ![a] = Failed(@, signature)]

RecordSuccess(a) == memory' = [memory EXCEPT ![a] = Unknown]

KnownIncompatible(a) == memory[a].signature = "incompatible"
TemporarilySkipped(a) == memory[a].signature # "transient" /\ memory[a].cooling

LeftOut == {a \in Agents : KnownIncompatible(a) \/ TemporarilySkipped(a)}

\* The first agent stays whatever is known of it.
UsableOnly == Agents \ LeftOut
Usable == {Primary} \cup (Agents \ LeftOut)

\* prioritize_agents keeps the first agent first and sorts the others by their
\* scores; the scores are abstracted to any order.
Orders(agents) ==
  {order \in SetToSeqs(agents) : Primary \in agents => Head(order) = Primary}

\* The five minutes of a cooldown, and the hour of an incompatibility, pass.
CoolsDown(a) ==
  /\ memory[a].cooling
  /\ memory' = [memory EXCEPT ![a].cooling = FALSE]
  /\ UNCHANGED <<turnVars, turns, shouldEnd, loopAlive>>

Forgets(a) ==
  /\ KnownIncompatible(a)
  /\ memory' = [memory EXCEPT ![a].signature = "severe"]
  /\ UNCHANGED <<turnVars, turns, shouldEnd, loopAlive>>

-----------------------------------------------------------------------------
(* The chain.                                                                *)

\* The turns of the conversations K are over, with outcome o; their locals go.
Over(K, o) ==
  /\ pc' = [c \in Convs |-> IF c \in K THEN "idle" ELSE pc[c]]
  /\ outcome' = [c \in Convs |-> IF c \in K THEN o ELSE outcome[c]]
  /\ queue' = [c \in Convs |-> IF c \in K THEN <<>> ELSE queue[c]]
  /\ current' = [c \in Convs |-> IF c \in K THEN NoAgent ELSE current[c]]
  /\ used' = [c \in Convs |-> IF c \in K THEN Fresh ELSE used[c]]
  /\ asked' = [c \in Convs |-> IF c \in K THEN {} ELSE asked[c]]
  /\ skipped' = [c \in Convs |-> IF c \in K THEN {} ELSE skipped[c]]
  /\ attempts' = [c \in Convs |-> IF c \in K THEN 0 ELSE attempts[c]]

Ends(c, o) == Over({c}, o)

\* The head of the while loop, with queue q and counters u: the next agent is
\* asked, or the chain is left, which consumes the flag.
GoOn(c, q, u) ==
  IF shouldEnd \/ q = <<>>
  THEN /\ Ends(c, IF shouldEnd THEN "stopped" ELSE "error")
       /\ shouldEnd' = FALSE
  ELSE /\ pc' = [pc EXCEPT ![c] = "ask"]
       /\ queue' = [queue EXCEPT ![c] = Tail(q)]
       /\ current' = [current EXCEPT ![c] = Head(q)]
       /\ used' = [used EXCEPT ![c] = u]
       /\ asked' = [asked EXCEPT ![c] = @ \cup {Head(q)}]
       /\ skipped' = [skipped EXCEPT ![c] =
                        IF pc[c] = "internal" THEN Agents \ ToSet(q) ELSE @]
       /\ attempts' = [attempts EXCEPT ![c] = @ + 1]
       /\ UNCHANGED <<outcome, shouldEnd>>

\* A message of the user, in a conversation whose last turn is over.  The first
\* turn of a conversation sets task_loop["active"], which no end of a turn clears.
Begin(c) ==
  /\ pc[c] = "idle" /\ turns < MaxTurns
  /\ turns' = turns + 1
  /\ pc' = [pc EXCEPT ![c] = "internal"]
  /\ outcome' = [outcome EXCEPT ![c] = "none"]
  /\ loopAlive' = IF outcome[c] = "none" THEN loopAlive \cup {c} ELSE loopAlive
  /\ UNCHANGED <<queue, current, used, asked, skipped, attempts, memory, shouldEnd>>

\* Home Assistant's own agent handles the message.
InternalReplies(c) ==
  /\ pc[c] = "internal"
  /\ Ends(c, "reply")
  /\ UNCHANGED <<turns, memory, shouldEnd, loopAlive>>

\* Its failure, recorded under its own name, decides about no fallback agent.
InternalFails(c) ==
  /\ pc[c] = "internal"
  /\ \E order \in Orders(Usable) : GoOn(c, order, used[c])
  /\ UNCHANGED <<turns, memory, loopAlive>>

\* The agent answers with a text: the turn is finalized, over several awaits.
Answers(c) ==
  /\ pc[c] = "ask"
  /\ pc' = [pc EXCEPT ![c] = "finalize"]
  /\ UNCHANGED <<queue, current, used, asked, skipped, attempts, outcome, turns,
                 memory, shouldEnd, loopAlive>>

Delivers(c) ==
  /\ RecordSuccess(current[c])
  /\ Ends(c, "reply")
  /\ UNCHANGED <<turns, shouldEnd, loopAlive>>

Finalized(c) == pc[c] = "finalize" /\ Delivers(c)

\* An empty answer: the loop goes on with the next agent, nothing is recorded.
AnswersNothing(c) ==
  /\ pc[c] = "ask"
  /\ GoOn(c, queue[c], used[c])
  /\ UNCHANGED <<turns, memory, loopAlive>>

\* Errors that are repaired in the history of the conversation, after which the
\* same agent is asked again.  Each repair has its budget, of the turn or of the
\* agent; one that finds nothing to repair leaves the error to the cases below.
Retry(c, u) ==
  /\ GoOn(c, <<current[c]>> \o queue[c], u)
  /\ UNCHANGED <<turns, memory, loopAlive>>

\* The repair is not counted.
StripImagesAgain(c) ==
  /\ pc[c] = "ask" /\ used[c].image < 1
  /\ Retry(c, used[c])

StripImages(c) ==
  /\ pc[c] = "ask" /\ used[c].image < 1
  /\ Retry(c, [used[c] EXCEPT !.image = 1])

Compress(c) ==
  /\ pc[c] = "ask" /\ used[c].compress < MaxCompress
  /\ Retry(c, [used[c] EXCEPT !.compress = @ + 1])

\* An exception is handled around the call and around the finalization.
Raised(c) == pc[c] \in {"ask", "finalize"}

CompressAfterException(c) ==
  /\ Raised(c) /\ used[c].compressExc < MaxCompress
  /\ Retry(c, [used[c] EXCEPT !.compressExc = @ + 1])

SelfRepair(c, kind) ==
  /\ Raised(c) /\ <<current[c], kind>> \notin used[c].repaired
  /\ Retry(c, [used[c] EXCEPT !.repaired = @ \cup {<<current[c], kind>>}])

Repairs(c) ==
  \/ StripImages(c) \/ Compress(c) \/ CompressAfterException(c)
  \/ \E kind \in Kinds : SelfRepair(c, kind)

\* An exception after some output of the agent, or after a tool succeeded and
\* no agent is left: the reply is made of what there is.
Salvages(c) == Raised(c) /\ Delivers(c)

\* One retry too many.
FailsOnce(c) ==
  /\ Raised(c)
  /\ \E signature \in Signatures : RecordFailure(current[c], signature)
  /\ used[c].retry[current[c]] <= MaxRetries
  /\ used' = [used EXCEPT ![c].retry[current[c]] = @ + 1]
  /\ queue' = [queue EXCEPT ![c] = <<current[c]>> \o @]
  /\ pc' = [pc EXCEPT ![c] = "backoff"]
  /\ current' = [current EXCEPT ![c] = NoAgent]
  /\ UNCHANGED <<asked, skipped, attempts, outcome, shouldEnd, turns, loopAlive>>

\* A tool failure, an error response or an exception: it is recorded, and the
\* agent is asked again after a backoff while it has retries left.
Fails(c) ==
  /\ Raised(c)
  /\ \E signature \in Signatures : RecordFailure(current[c], signature)
  /\ IF used[c].retry[current[c]] < MaxRetries
     THEN /\ used' = [used EXCEPT ![c].retry[current[c]] = @ + 1]
          /\ queue' = [queue EXCEPT ![c] = <<current[c]>> \o @]
          /\ pc' = [pc EXCEPT ![c] = "backoff"]
          /\ current' = [current EXCEPT ![c] = NoAgent]
          /\ UNCHANGED <<asked, skipped, attempts, outcome, shouldEnd>>
     ELSE GoOn(c, queue[c], used[c])
  /\ UNCHANGED <<turns, loopAlive>>

\* An agent that is unavailable is not asked again.
Unavailable(c) ==
  /\ Raised(c)
  /\ \E signature \in Signatures : RecordFailure(current[c], signature)
  /\ GoOn(c, queue[c], used[c])
  /\ UNCHANGED <<turns, loopAlive>>

\* A backoff that is not woken by a /stop.
BackoffUnlessStopped(c) ==
  /\ pc[c] = "backoff" /\ ~shouldEnd
  /\ GoOn(c, queue[c], used[c])
  /\ UNCHANGED <<turns, memory, loopAlive>>

BackoffEnds(c) ==
  /\ pc[c] = "backoff"
  /\ GoOn(c, queue[c], used[c])
  /\ UNCHANGED <<turns, memory, loopAlive>>

-----------------------------------------------------------------------------
(* The user's commands, and the other reader of the flag.                    *)

Running == {c \in Convs : pc[c] # "idle"}

\* /stop in conversation c: it cancels the registered turns K, and sets the flag
\* if it has cancelled one or if a task loop it looked at was active.
Stop(c, K) ==
  /\ K \subseteq Running
  /\ K # {} \/ c \in loopAlive
  /\ Over(K, "cancelled")
  /\ shouldEnd' = TRUE
  /\ loopAlive' = loopAlive \ (K \cup {c})
  /\ UNCHANGED <<turns, memory>>

\* /new in conversation c.
New(c, K) ==
  /\ K \subseteq Running \cap {c}
  /\ Over(K, "cancelled")
  /\ shouldEnd' = FALSE
  /\ loopAlive' = loopAlive \cup {c}
  /\ UNCHANGED <<turns, memory>>

\* The continuation hook of any turn of the assist pipeline takes the flag.
HookConsumes ==
  /\ shouldEnd
  /\ shouldEnd' = FALSE
  /\ UNCHANGED <<turnVars, turns, memory, loopAlive>>

Returns(c) == Answers(c) \/ AnswersNothing(c) \/ Repairs(c) \/ Salvages(c)
              \/ Fails(c) \/ Unavailable(c)

Chain(c) == InternalReplies(c) \/ InternalFails(c) \/ Returns(c) \/ Finalized(c)
            \/ BackoffEnds(c)

Next ==
  \/ \E c \in Convs : Begin(c) \/ Chain(c)
  \/ \E c \in Convs, K \in SUBSET Convs : Stop(c, K) \/ New(c, K)
  \/ \E a \in Agents : CoolsDown(a) \/ Forgets(a)
  \/ HookConsumes

Spec == Init /\ [][Next]_vars

\* An external agent is called under a timeout, a backoff is a sleep, and Home
\* Assistant's own agent is assumed to return.
FairSpec == Spec /\ \A c \in Convs : WF_vars(Chain(c))

-----------------------------------------------------------------------------
(* Properties.                                                               *)

\* However the agents fail, one turn asks agents only so many times: the
\* retries are counted per agent, the repairs per turn or per agent and kind,
\* and no two budgets feed each other (run_agent_fallback_chain 1470-2001).
CallBudget ==
  \A c \in Convs :
    attempts[c] <= Cardinality(Agents) * (1 + MaxRetries + Cardinality(Kinds))
                   + 1 + 2 * MaxCompress

\* A turn that ends in the error of an exhausted chain has asked every agent
\* but those that were skipped for what was known of them when it began, and
\* has asked the first agent whatever was known (1449-1475).
ExhaustedMeansAsked ==
  [][\A c \in Convs : pc[c] # "idle" /\ outcome'[c] = "error" =>
       /\ Primary \in asked[c]
       /\ asked[c] \cup skipped[c] = Agents]_vars

\* Every turn comes to its end, whatever the agents answer.
TurnsEnd == \A c \in Convs : pc[c] = "internal" ~> pc[c] = "idle"
=============================================================================
