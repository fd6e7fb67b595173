-------------------------------- MODULE Goals --------------------------------
(* The standing goal of a conversation as a value: GoalState of                *)
(* runtime/storage/goals.py and the transitions GoalManager makes on it.       *)
(*                                                                            *)
(* The text, the timestamps and the reasons are dropped.  turns_used and       *)
(* consecutive_parse_failures are only ever compared with their limits, so     *)
(* each saturates at its limit.                                               *)
EXTENDS Naturals

CONSTANTS
  MaxTurns,          \* default_max_turns; 0 (the shipped value) is "unbounded"
  MaxParseFailures   \* DEFAULT_MAX_CONSECUTIVE_PARSE_FAILURES

ASSUME MaxTurnsAssumption == MaxTurns \in Nat
ASSUME MaxParseFailuresAssumption == MaxParseFailures \in Nat \ {0}

Statuses == {"active", "paused", "done"}
Verdicts == {"done", "continue", "unparseable"}

Goal == [status : Statuses, turns : 0..MaxTurns, failures : 0..MaxParseFailures]

UpTo(limit, n) == IF n > limit THEN limit ELSE n

\* async_set: a fresh GoalState.
NewGoal == [status |-> "active", turns |-> 0, failures |-> 0]

\* async_pause: whatever the status was.
Paused(g) == [g EXCEPT !.status = "paused"]

\* async_resume: the budget and the failure count start again.
ResumedKeepingFailures(g) == [g EXCEPT !.status = "active", !.turns = 0]
Resumed(g) == [g EXCEPT !.status = "active", !.turns = 0, !.failures = 0]

\* async_evaluate_after_turn, up to the await of the judge.
TurnCounted(g) == [g EXCEPT !.turns = UpTo(MaxTurns, @ + 1)]

\* ... and from the judge's answer to the save.
Failures(g, verdict) ==
  IF verdict = "unparseable" THEN UpTo(MaxParseFailures, g.failures + 1) ELSE 0

BudgetSpent(g) == MaxTurns > 0 /\ g.turns >= MaxTurns

MustPause(g, verdict) ==
  Failures(g, verdict) >= MaxParseFailures \/ BudgetSpent(g)

Halts(g, verdict) == verdict = "done" \/ MustPause(g, verdict)

StatusAfter(g, verdict) ==
  IF verdict = "done" THEN "done"
  ELSE IF MustPause(g, verdict) THEN "paused"
  ELSE g.status

\* A judge that writes the status it decided on, not the one it finds.
JudgedOverwriting(g, verdict) ==
  [g EXCEPT !.failures = Failures(g, verdict),
            !.status = IF Halts(g, verdict) THEN StatusAfter(g, verdict) ELSE "active"]

Judged(g, verdict) ==
  [g EXCEPT !.failures = Failures(g, verdict), !.status = StatusAfter(g, verdict)]
==============================================================================
