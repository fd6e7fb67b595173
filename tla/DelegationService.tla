-------------------------- MODULE DelegationService --------------------------
(***************************************************************************)
(* What delegation promises to the conversations that use it, without the   *)
(* registry, the timeouts or the cancellations: a subagent is opened once,   *)
(* ends once with one outcome, and a caller that waits for a batch goes on   *)
(* only when every subagent of the batch has ended.                          *)
(***************************************************************************)
CONSTANTS Callers, Tasks, Outcomes, None

VARIABLES outcome,  \* outcome[t]: how the ended subagent t ended
          open,     \* subagents that were asked for and have not ended
          waiting   \* waiting[c]: the batch whose end caller c waits for

vars == <<outcome, open, waiting>>

TypeOK ==
  /\ outcome \in [Tasks -> Outcomes \cup {None}]
  /\ open \subseteq Tasks
  /\ waiting \in [Callers -> SUBSET Tasks]

Init ==
  /\ outcome = [t \in Tasks |-> None]
  /\ open = {}
  /\ waiting = [c \in Callers |-> {}]

Fresh == {t \in Tasks : outcome[t] = None /\ t \notin open}

\* A caller that waits for nothing opens subagents, to wait for or not.
Open(c, S, wait) ==
  /\ waiting[c] = {}
  /\ S # {} /\ S \subseteq Fresh
  /\ open' = open \cup S
  /\ waiting' = [waiting EXCEPT ![c] = IF wait THEN S ELSE {}]
  /\ UNCHANGED outcome

End(t, o) ==
  /\ t \in open
  /\ open' = open \ {t}
  /\ outcome' = [outcome EXCEPT ![t] = o]
  /\ UNCHANGED waiting

Join(c) ==
  /\ waiting[c] # {}
  /\ waiting[c] \cap open = {}
  /\ waiting' = [waiting EXCEPT ![c] = {}]
  /\ UNCHANGED <<outcome, open>>

Next ==
  \/ \E c \in Callers, S \in SUBSET Tasks, wait \in BOOLEAN : Open(c, S, wait)
  \/ \E t \in Tasks, o \in Outcomes : End(t, o)
  \/ \E c \in Callers : Join(c)

Spec == Init /\ [][Next]_vars
==============================================================================
