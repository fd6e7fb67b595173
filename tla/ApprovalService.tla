--------------------------- MODULE ApprovalService ---------------------------
(***************************************************************************)
(* What the approval queue promises to those who ask, without threads, polls *)
(* and deadlines, the bounded history and its search window: a request gets  *)
(* one answer, and that is final; a caller goes on only when the very        *)
(* request it made was approved; and an approval lets one caller go on once. *)
(* A caller may give up at any time, also on a request that was approved.    *)
(***************************************************************************)
CONSTANTS Callers, Requests, None

VARIABLES answer,   \* answer[i]: what became of the request i
          asking,   \* asking[c]: the request whose answer caller c waits for
          running,  \* running[c]: the request by whose approval c is acting
          granted   \* requests by whose approval a caller went on

vars == <<answer, asking, running, granted>>

TypeOK ==
  /\ answer \in [Requests -> {"new", "pending", "approved", "denied"}]
  /\ asking \in [Callers -> Requests \cup {None}]
  /\ running \in [Callers -> Requests \cup {None}]
  /\ granted \subseteq Requests

Init ==
  /\ answer = [i \in Requests |-> "new"]
  /\ asking = [c \in Callers |-> None]
  /\ running = [c \in Callers |-> None]
  /\ granted = {}

\* A request nobody waits for.
Stage(i) ==
  /\ answer[i] = "new"
  /\ answer' = [answer EXCEPT ![i] = "pending"]
  /\ UNCHANGED <<asking, running, granted>>

Ask(c, i) ==
  /\ asking[c] = None /\ running[c] = None
  /\ answer[i] = "new"
  /\ answer' = [answer EXCEPT ![i] = "pending"]
  /\ asking' = [asking EXCEPT ![c] = i]
  /\ UNCHANGED <<running, granted>>

Answer(i, verdict) ==
  /\ answer[i] = "pending"
  /\ answer' = [answer EXCEPT ![i] = verdict]
  /\ UNCHANGED <<asking, running, granted>>

GoOn(c) ==
  /\ asking[c] # None
  /\ answer[asking[c]] = "approved" /\ asking[c] \notin granted
  /\ asking' = [asking EXCEPT ![c] = None]
  /\ running' = [running EXCEPT ![c] = asking[c]]
  /\ granted' = granted \cup {asking[c]}
  /\ UNCHANGED answer

\* The request may be withdrawn, if it has no answer yet.
GiveUp(c, withdraw) ==
  /\ asking[c] # None
  /\ withdraw => answer[asking[c]] = "pending"
  /\ answer' = IF withdraw THEN [answer EXCEPT ![asking[c]] = "denied"] ELSE answer
  /\ asking' = [asking EXCEPT ![c] = None]
  /\ UNCHANGED <<running, granted>>

Finish(c) ==
  /\ running[c] # None
  /\ running' = [running EXCEPT ![c] = None]
  /\ UNCHANGED <<answer, asking, granted>>

Next ==
  \/ \E i \in Requests : Stage(i)
  \/ \E i \in Requests, verdict \in {"approved", "denied"} : Answer(i, verdict)
  \/ \E c \in Callers :
       \/ \E i \in Requests : Ask(c, i)
       \/ \E withdraw \in BOOLEAN : GiveUp(c, withdraw)
       \/ GoOn(c)
       \/ Finish(c)

Spec == Init /\ [][Next]_vars
==============================================================================
