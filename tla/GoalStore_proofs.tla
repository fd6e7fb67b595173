--------------------------- MODULE GoalStore_proofs ---------------------------
(* Proofs about GoalStore, for any number of conversations and operations and   *)
(* any limits: no order of overlapping operations, thread steps and restarts    *)
(* brings back a goal that the judge's failure limit should have paused; and    *)
(* operations that do not overlap leave in the file what is in memory.          *)
EXTENDS GoalStore, TLAPS

-------------------------------------------------------------------------------
(* Goals as values: what each transition of GoalManager makes of a goal.       *)

\* A goal with fields exchanged for others of their sets is a goal.
LEMMA GoalExcept ==
  ASSUME NEW g \in Goal, NEW s \in Statuses, NEW t \in 0..MaxTurns, NEW f \in 0..MaxParseFailures
  PROVE  /\ [g EXCEPT !.status = s, !.turns = t, !.failures = f] \in Goal
         /\ [g EXCEPT !.failures = f, !.status = s] \in Goal
<1> DEFINE T == 0..MaxTurns
           F == 0..MaxParseFailures
<1>1. g \in [status : Statuses, turns : T, failures : F] /\ t \in T /\ f \in F
  BY DEF Goal
<1> HIDE DEF T, F
<1>2. /\ [g EXCEPT !.status = s, !.turns = t, !.failures = f]
           \in [status : Statuses, turns : T, failures : F]
      /\ [g EXCEPT !.failures = f, !.status = s] \in [status : Statuses, turns : T, failures : F]
  BY <1>1
<1> QED BY <1>2 DEF Goal, T, F

\* Every transition yields a goal again: the counters stay within their limits.
LEMMA GoalsTyped ==
  ASSUME NEW g \in Goal, NEW v \in Verdicts
  PROVE  /\ NewGoal \in Goal /\ Paused(g) \in Goal /\ Resumed(g) \in Goal
         /\ TurnCounted(g) \in Goal /\ Judged(g, v) \in Goal
<1> USE MaxTurnsAssumption, MaxParseFailuresAssumption DEF Goal, Statuses
<1>1. NewGoal \in Goal BY DEF NewGoal
<1>2. Paused(g) \in Goal BY DEF Paused
<1>3. Resumed(g) \in Goal
  <2>1. "active" \in Statuses /\ 0 \in 0..MaxTurns /\ 0 \in 0..MaxParseFailures OBVIOUS
  <2> QED BY <2>1, GoalExcept DEF Resumed
<1>4. UpTo(MaxTurns, g.turns + 1) \in 0..MaxTurns BY DEF UpTo
<1>5. TurnCounted(g) \in Goal BY <1>4 DEF TurnCounted
<1>6. Failures(g, v) \in 0..MaxParseFailures BY DEF Failures, UpTo
<1>7. StatusAfter(g, v) \in Statuses BY DEF StatusAfter
<1>8. Judged(g, v) \in Goal
  <2>1. 0 \in 0..MaxTurns OBVIOUS
  <2> QED BY <1>6, <1>7, <2>1, GoalExcept DEF Judged
<1> QED BY <1>1, <1>2, <1>3, <1>5, <1>8

\* Every transition yields a judgeable goal, the count of a turn from one.
LEMMA GoalsJudgeable ==
  ASSUME NEW g \in Goal, NEW v \in Verdicts
  PROVE  /\ Judgeable(NewGoal) /\ Judgeable(Paused(g)) /\ Judgeable(Resumed(g))
         /\ Judgeable(g) => Judgeable(TurnCounted(g))
         /\ Judgeable(Judged(g, v))
<1> USE MaxTurnsAssumption, MaxParseFailuresAssumption DEF Goal, Judgeable
<1>1. Judgeable(NewGoal) BY DEF NewGoal
<1>2. Judgeable(Paused(g)) BY DEF Paused
<1>3. Judgeable(Resumed(g)) BY DEF Resumed
<1>4. Judgeable(g) => Judgeable(TurnCounted(g)) BY DEF TurnCounted
<1>5. Judgeable(Judged(g, v))
  <2>1. Failures(g, v) \in 0..MaxParseFailures BY DEF Failures, UpTo
  <2>2. Judged(g, v).status = StatusAfter(g, v) /\ Judged(g, v).failures = Failures(g, v)
    BY DEF Judged
  <2>3. StatusAfter(g, v) = "active" => Failures(g, v) < MaxParseFailures
    BY <2>1 DEF StatusAfter, MustPause
  <2> QED BY <2>2, <2>3
<1> QED BY <1>1, <1>2, <1>3, <1>4, <1>5

-------------------------------------------------------------------------------
(* The state, type and judgeability together.                                 *)

GoodObject == {x \in Object : Judgeable(x.state)}
GoodFile == [Convs -> GoodObject \cup {NoEntry}]
GoodOp ==
  [pc : {"idle", "load", "judge", "save", "delete", "orphan"},
   job : {"none", "queued", "read", "copied", "finished"},
   kind : {"none", "load", "save", "delete"},
   want : Wants \cup {"none"}, conv : Convs, obj : Ids \cup {NoGoal},
   buf : GoodFile, rec : GoodObject]

Good ==
  /\ loaded \in [Convs -> BOOLEAN]
  /\ mem \in [Convs -> Ids \cup {NoGoal}]
  /\ heap \in [Ids -> GoodObject]
  /\ op \in [Ops -> GoodOp]
  /\ file \in GoodFile
  /\ disturbed \in BOOLEAN
  /\ apart \subseteq Convs

\* What is judged or saved is an object.
ObjectsThere == \A o \in Ops : op[o].pc = "judge" \/ op[o].kind = "save" => op[o].obj \in Ids

\* The strengthening says what the two invariants say together.
LEMMA StrongEnough == Good => TypeOK /\ ActiveMeansJudgeable
<1> SUFFICES ASSUME Good PROVE TypeOK /\ ActiveMeansJudgeable OBVIOUS
<1> USE DEF Good
<1>1. GoodObject \subseteq Object /\ \A x \in GoodObject : Judgeable(x.state)
  BY DEF GoodObject
<1>2. GoodFile \subseteq File
  BY <1>1 DEF GoodFile, File
<1>3. GoodOp \subseteq Op
  BY <1>1, <1>2 DEF GoodOp, Op
<1>4. TypeOK
  <2>1. heap \in [Ids -> Object] BY <1>1
  <2>2. op \in [Ops -> Op] BY <1>3
  <2> QED BY <2>1, <2>2, <1>2 DEF TypeOK
<1>5. ActiveMeansJudgeable
  <2>1. \A f \in GoodFile, c \in Convs : f[c] # NoEntry => Judgeable(f[c].state)
    BY <1>1 DEF GoodFile
  <2>2. \A o \in Ops : op[o].rec \in GoodObject /\ op[o].buf \in GoodFile
    BY DEF GoodOp
  <2> QED BY <1>1, <2>1, <2>2 DEF ActiveMeansJudgeable
<1> QED BY <1>4, <1>5

\* The values that stand for nothing are good.
LEMMA BlankGood == Blank \in GoodObject
<1>1. PICK v : v \in Verdicts BY DEF Verdicts
<1>2. NewGoal \in Goal
  BY MaxTurnsAssumption, MaxParseFailuresAssumption DEF NewGoal, Goal, Statuses
<1>3. Judgeable(NewGoal) BY <1>1, <1>2, GoalsJudgeable
<1> QED BY <1>2, <1>3, NamesAssumption DEF Blank, GoodObject, Object

\* The same of an idle operation.
LEMMA IdleGood == Idle \in GoodOp
BY BlankGood, NamesAssumption DEF Idle, GoodOp, NoFile, GoodFile

\* An object that nothing refers to is there, and is one of Ids.
LEMMA UnheldIsId ==
  ASSUME Good, NEW m \in [Convs -> Ids \cup {NoGoal}]
  PROVE  Unheld(m) \in Ids /\ \A c \in Convs : m[c] # Unheld(m)
<1> DEFINE w == [o \in Ops |-> op[o].obj]
<1>1. w \in [Ops -> Ids \cup {NoGoal}] BY DEF Good, GoodOp
<1>2. PICK i \in Ids : (\A c \in Convs : m[c] # i) /\ (\A o \in Ops : w[o] # i)
  BY <1>1, IdsAssumption
<1>3. i \in Ids \ Held(m, op) BY <1>2 DEF Held
<1>4. Unheld(m) \in Ids \ Held(m, op) BY <1>3 DEF Unheld
<1> QED BY <1>4 DEF Held

\* Dropping what nothing refers to keeps the heap good.
LEMMA KeepGood ==
  ASSUME NEW h \in [Ids -> GoodObject], heap' = Keep(h)
  PROVE  heap' \in [Ids -> GoodObject]
BY BlankGood DEF Keep

\* What the caller's side makes of an operation.
LEMMA CallGood ==
  ASSUME Good, NEW o \in Ops,
         NEW pc \in {"save", "delete", "judge"}, NEW kind \in {"none", "save", "delete"},
         NEW obj \in Ids \cup {NoGoal}, Call(o, pc, kind, obj)
  PROVE  op' \in [Ops -> GoodOp]
<1> DEFINE c == op[o].conv
           want == op[o].want
           job == IF kind = "none" THEN "none" ELSE "queued"
           new == [Idle EXCEPT !.pc = pc, !.conv = c, !.want = want, !.job = job,
                             !.kind = kind, !.obj = obj]
<1>1. c \in Convs /\ want \in Wants \cup {"none"} /\ job \in {"none", "queued"}
  BY DEF Good, GoodOp
<1>2. op' = [op EXCEPT ![o] = new] BY DEF Call
<1> HIDE DEF c, want, job
<1>3. new \in GoodOp BY <1>1, IdleGood, ZenonT(60) DEF GoodOp
<1> HIDE DEF new
<1> QED BY <1>2, <1>3 DEF Good

\* The end of an operation leaves an idle one.
LEMMA ReturnGood ==
  ASSUME Good, NEW o \in Ops, Return(o) PROVE op' \in [Ops -> GoodOp]
BY IdleGood DEF Return, Good

-------------------------------------------------------------------------------
(* One step.                                                                  *)

\* An object whose goal went through a transition is still good.
LEMMA ChangedGood ==
  ASSUME NEW x \in GoodObject, NEW v \in Verdicts
  PROVE  /\ x.state \in Goal
         /\ [x EXCEPT !.state = Paused(x.state)] \in GoodObject
         /\ [x EXCEPT !.state = Resumed(x.state)] \in GoodObject
         /\ [x EXCEPT !.state = TurnCounted(x.state)] \in GoodObject
         /\ [x EXCEPT !.state = Judged(x.state, v)] \in GoodObject
<1>1. x \in Object /\ x.state \in Goal /\ Judgeable(x.state) BY DEF GoodObject, Object
<1>2. ASSUME NEW g \in Goal, Judgeable(g) PROVE [x EXCEPT !.state = g] \in GoodObject
  BY <1>1, <1>2 DEF GoodObject, Object
<1> QED BY <1>1, <1>2, GoalsTyped, GoalsJudgeable

\* Every operation leaves goods behind, from any memory and heap it starts on: what
\* PerformLoaded and PerformAfterLoad have in common.
LEMMA PerformGood ==
  ASSUME Good, NEW o \in Ops,
         NEW m \in [Convs -> Ids \cup {NoGoal}], NEW h \in [Ids -> GoodObject],
         Perform(o, m, h)
  PROVE  /\ mem' \in [Convs -> Ids \cup {NoGoal}]
         /\ heap' \in [Ids -> GoodObject]
         /\ op' \in [Ops -> GoodOp]
<1> DEFINE c == op[o].conv
           i == m[c]
           state == h[i].state
<1>1. c \in Convs BY DEF Good, GoodOp
<1>2. i \in Ids \cup {NoGoal} BY <1>1
<1>v. PICK v : v \in Verdicts BY DEF Verdicts
<1>3. CASE SetGoal(o, m, h)
  <2> DEFINE new == Unheld(m)
  <2>1. new \in Ids BY UnheldIsId
  <2>2. PICK n \in Names :
          /\ mem' = [m EXCEPT ![c] = new]
          /\ Call(o, "save", "save", new)
          /\ heap' = Keep([h EXCEPT ![new] = [name |-> n, state |-> NewGoal]])
    BY <1>3 DEF SetGoal
  <2>3. [name |-> n, state |-> NewGoal] \in GoodObject
    BY <1>v, BlankGood DEF Blank, GoodObject, Object
  <2> HIDE DEF new, c
  <2>4. [h EXCEPT ![new] = [name |-> n, state |-> NewGoal]] \in [Ids -> GoodObject]
    BY <2>3
  <2> QED BY <2>1, <2>2, <2>4, <1>1, KeepGood, CallGood
<1>4. ASSUME NEW g \in Goal, i # NoGoal, Change(o, m, h, g),
             [h[i] EXCEPT !.state = g] \in GoodObject
      PROVE  /\ mem' \in [Convs -> Ids \cup {NoGoal}]
             /\ heap' \in [Ids -> GoodObject]
             /\ op' \in [Ops -> GoodOp]
  <2>1. /\ mem' = m /\ Call(o, "save", "save", i)
        /\ heap' = Keep([h EXCEPT ![i] = [h[i] EXCEPT !.state = g]])
    BY <1>4 DEF Change
  <2>2. [h EXCEPT ![i] = [h[i] EXCEPT !.state = g]] \in [Ids -> GoodObject]
    BY <1>4
  <2> QED BY <2>1, <2>2, <1>2, KeepGood, CallGood
<1>5. CASE i # NoGoal /\ (Change(o, m, h, Paused(state)) \/ Change(o, m, h, Resumed(state)))
  <2>1. h[i] \in GoodObject BY <1>2, <1>5
  <2>2. state \in Goal BY <2>1, <1>v, ChangedGood
  <2>3. Paused(state) \in Goal /\ Resumed(state) \in Goal BY <2>2, <1>v, GoalsTyped
  <2>4. /\ [h[i] EXCEPT !.state = Paused(state)] \in GoodObject
        /\ [h[i] EXCEPT !.state = Resumed(state)] \in GoodObject
    BY <2>1, <1>v, ChangedGood
  <2> QED BY <1>4, <1>5, <2>3, <2>4
<1>6. CASE ClearGoal(o, m, h)
  BY <1>6, KeepGood, CallGood DEF ClearGoal
<1>7. CASE i # NoGoal /\ Evaluate(o, m, h)
  <2>1. h[i] \in GoodObject BY <1>2, <1>7
  <2>2. /\ mem' = m /\ Call(o, "judge", "none", i)
        /\ heap' = Keep([h EXCEPT ![i] = [h[i] EXCEPT !.state = TurnCounted(state)]])
    BY <1>7 DEF Evaluate
  <2>3. [h[i] EXCEPT !.state = TurnCounted(state)] \in GoodObject
    BY <2>1, <1>v, ChangedGood
  <2>4. [h EXCEPT ![i] = [h[i] EXCEPT !.state = TurnCounted(state)]] \in [Ids -> GoodObject]
    BY <2>3
  <2> QED BY <2>2, <2>4, <1>2, KeepGood, CallGood
<1>8. CASE Skip(o, m, h)
  BY <1>8, KeepGood, ReturnGood DEF Skip
<1>9. \/ SetGoal(o, m, h) \/ ClearGoal(o, m, h) \/ Skip(o, m, h)
      \/ i # NoGoal /\ (Change(o, m, h, Paused(state)) \/ Change(o, m, h, Resumed(state)))
      \/ i # NoGoal /\ Evaluate(o, m, h)
  BY DEF Perform, IsActive
<1> QED BY <1>3, <1>5, <1>6, <1>7, <1>8, <1>9

\* Every step keeps the state good.
LEMMA GoodStep == Good /\ ObjectsThere /\ [Next]_vars => Good'
<1> SUFFICES ASSUME Good, ObjectsThere, [Next]_vars PROVE Good' OBVIOUS
<1>1. ASSUME NEW o \in Ops, OpStep(o) PROVE Good'
  <2>op. op[o] \in GoodOp BY DEF Good
  <2>1. CASE Begin(o)
    <3> PICK c \in Convs, w \in Wants :
          op' = [op EXCEPT ![o] = [Idle EXCEPT !.pc = "load", !.conv = c, !.want = w,
                                     !.job = IF loaded[c] THEN "none" ELSE "queued",
                                     !.kind = IF loaded[c] THEN "none" ELSE "load"]]
      BY <2>1 DEF Begin
    <3>1. [Idle EXCEPT !.pc = "load", !.conv = c, !.want = w,
                       !.job = IF loaded[c] THEN "none" ELSE "queued",
                       !.kind = IF loaded[c] THEN "none" ELSE "load"] \in GoodOp
      BY IdleGood DEF GoodOp
    <3>2. op' \in [Ops -> GoodOp] BY <3>1 DEF Good
    <3> QED BY <2>1, <3>2 DEF Begin, Good
  <2>2. CASE PerformLoaded(o)
    BY <2>2, PerformGood DEF PerformLoaded, Good
  <2>3. CASE PerformAfterLoad(o)
    <3> DEFINE c == op[o].conv
               entry == op[o].buf[c]
               i == Unheld(mem)
    <3>1. c \in Convs /\ entry \in GoodObject \cup {NoEntry}
      BY <2>op DEF GoodOp, GoodFile
    <3>2. i \in Ids BY UnheldIsId DEF Good
    <3>3. /\ loaded' \in [Convs -> BOOLEAN] /\ file' \in GoodFile /\ disturbed' \in BOOLEAN
          /\ apart' \subseteq Convs
      BY <2>3, <3>1 DEF PerformAfterLoad, Good
    <3>4. CASE entry = NoEntry
      <4>1. [mem EXCEPT ![c] = NoGoal] \in [Convs -> Ids \cup {NoGoal}] /\ heap \in [Ids -> GoodObject]
        BY DEF Good
      <4>2. Perform(o, [mem EXCEPT ![c] = NoGoal], heap)
        BY <2>3, <3>4 DEF PerformAfterLoad
      <4> QED BY <4>1, <4>2, <3>3, PerformGood DEF Good
    <3>5. CASE entry # NoEntry
      <4>1. Perform(o, [mem EXCEPT ![c] = i], [heap EXCEPT ![i] = entry])
        BY <2>3, <3>5 DEF PerformAfterLoad
      <4>2. entry \in GoodObject BY <3>1, <3>5
      <4> HIDE DEF c, entry, i
      <4>3. [mem EXCEPT ![c] = i] \in [Convs -> Ids \cup {NoGoal}] BY <3>2 DEF Good
      <4>4. [heap EXCEPT ![i] = entry] \in [Ids -> GoodObject] BY <4>2 DEF Good
      <4> QED BY <4>1, <4>3, <4>4, <3>3, PerformGood DEF Good
    <3> QED BY <3>4, <3>5
  <2>4. CASE JudgeAnswered(o)
    <3> DEFINE i == op[o].obj
    <3>1. i \in Ids \cup {NoGoal} BY <2>op DEF GoodOp
    <3>2. PICK v \in Verdicts :
            heap' = [heap EXCEPT ![i] = [heap[i] EXCEPT !.state = Judged(heap[i].state, v)]]
      BY <2>4 DEF JudgeAnswered
    <3>3. heap' \in [Ids -> GoodObject]
      <4>1. CASE i \in Ids
        <5>1. [heap[i] EXCEPT !.state = Judged(heap[i].state, v)] \in GoodObject
          BY <4>1, ChangedGood DEF Good
        <5> QED BY <3>2, <5>1 DEF Good
      <4>2. CASE i \notin Ids BY <3>2, <4>2 DEF Good
      <4> QED BY <4>1, <4>2
    <3>4. op' \in [Ops -> GoodOp] BY <2>4, <3>1, CallGood DEF JudgeAnswered
    <3> QED BY <2>4, <3>3, <3>4 DEF JudgeAnswered, Good
  <2>5. CASE SaveReturned(o)
    BY <2>5, KeepGood, ReturnGood DEF SaveReturned, Good
  <2>6. CASE ClearReturned(o)
    BY <2>6, KeepGood, ReturnGood DEF ClearReturned, Good
  <2>7. CASE Cancelled(o)
    <3>1. [op[o] EXCEPT !.pc = "orphan"] \in GoodOp BY <2>op DEF GoodOp
    <3>2. op' \in [Ops -> GoodOp] BY <2>7, <3>1, ReturnGood DEF Cancelled, Good
    <3> QED BY <2>7, <3>2, KeepGood DEF Cancelled, Good
  <2>8. CASE OrphanDone(o)
    BY <2>8, KeepGood, ReturnGood DEF OrphanDone, Good
  <2>9. CASE JobReads(o)
    <3> DEFINE job == IF op[o].kind = "load" THEN "finished" ELSE "read"
    <3>1. PICK seen \in {file, NoFile} :
            op' = [op EXCEPT ![o] = [op[o] EXCEPT !.buf = seen, !.job = job]]
      BY <2>9 DEF JobReads, Good
    <3>2. seen \in GoodFile BY DEF Good, NoFile, GoodFile
    <3>3. [op[o] EXCEPT !.buf = seen, !.job = job] \in GoodOp BY <2>op, <3>2 DEF GoodOp
    <3>4. op' \in [Ops -> GoodOp] BY <3>1, <3>3 DEF Good
    <3>5. apart' \subseteq Convs BY <2>9, <2>op DEF JobReads, Missed, GoodOp, Good
    <3> QED BY <2>9, <3>4, <3>5 DEF JobReads, Good
  <2>10. CASE JobCopies(o)
    <3>1. heap[op[o].obj] \in GoodObject BY <2>10 DEF JobCopies, ObjectsThere, Good
    <3>2. [op[o] EXCEPT !.rec = heap[op[o].obj], !.job = "copied"] \in GoodOp
      BY <2>op, <3>1 DEF GoodOp
    <3> QED BY <2>10, <3>2 DEF JobCopies, Good
  <2>11. CASE JobWrites(o)
    <3> DEFINE c == op[o].conv
    <3>0. /\ c \in Convs /\ op[o].buf \in GoodFile /\ op[o].rec \in GoodObject
          /\ file \in GoodFile /\ apart \subseteq Convs
      BY <2>op DEF GoodOp, Good
    <3>1. file' \in GoodFile /\ apart' \subseteq Convs
      <4>1. \A e \in GoodObject \cup {NoEntry} : Written(op[o].buf, c, e) \in GoodFile
        BY <3>0 DEF Written, GoodFile
      <4>2. CASE \E e \in GoodObject \cup {NoEntry} : Write(c, Written(op[o].buf, c, e))
        BY <3>0, <4>1, <4>2 DEF Write
      <4>3. CASE UNCHANGED <<file, apart>> BY <3>0, <4>3
      <4>4. \/ \E e \in GoodObject \cup {NoEntry} : Write(c, Written(op[o].buf, c, e))
            \/ UNCHANGED <<file, apart>>
        BY <2>11, <3>0 DEF JobWrites
      <4> QED BY <4>2, <4>3, <4>4
    <3>2. [op[o] EXCEPT !.job = "finished", !.buf = NoFile, !.rec = Blank] \in GoodOp
      BY <2>op, BlankGood DEF GoodOp, NoFile, GoodFile
    <3> QED BY <2>11, <3>1, <3>2 DEF JobWrites, JobOver, Good
  <2> QED BY <1>1, <2>1, <2>2, <2>3, <2>4, <2>5, <2>6, <2>7, <2>8, <2>9, <2>10, <2>11 DEF OpStep
<1>2. CASE Restart
  BY <1>2, IdleGood, BlankGood DEF Restart, Good
<1>3. CASE UNCHANGED vars BY <1>3 DEF vars, Good
<1> QED BY <1>1, <1>2, <1>3 DEF Next

\* Every step keeps the objects of judges and saves there.
LEMMA ObjectsStep == Good /\ ObjectsThere /\ [Next]_vars => ObjectsThere'
<1> SUFFICES ASSUME Good, ObjectsThere, [Next]_vars PROVE ObjectsThere' OBVIOUS
<1>called. ASSUME NEW o \in Ops, NEW pc, NEW kind, NEW obj, Call(o, pc, kind, obj),
                  pc = "judge" \/ kind = "save" => obj \in Ids
           PROVE  ObjectsThere'
  BY <1>called DEF Call, Idle, ObjectsThere, Good
<1>returned. ASSUME NEW o \in Ops, Return(o) PROVE ObjectsThere'
  BY <1>returned DEF Return, Idle, ObjectsThere, Good
<1>performed. ASSUME NEW o \in Ops, NEW m \in [Convs -> Ids \cup {NoGoal}], NEW h, Perform(o, m, h)
              PROVE  ObjectsThere'
  <2> DEFINE i == m[op[o].conv]
  <2>1. i \in Ids \cup {NoGoal} BY DEF Good, GoodOp
  <2>2. CASE SetGoal(o, m, h)
    <3>1. Unheld(m) \in Ids BY UnheldIsId
    <3>2. Call(o, "save", "save", Unheld(m)) BY <2>2 DEF SetGoal
    <3> QED BY <3>1, <3>2, <1>called
  <2>3. ASSUME NEW g, i # NoGoal, Change(o, m, h, g) PROVE ObjectsThere'
    <3>1. Call(o, "save", "save", i) BY <2>3 DEF Change
    <3> QED BY <3>1, <2>1, <2>3, <1>called
  <2>4. CASE ClearGoal(o, m, h)
    <3>1. Call(o, "delete", "delete", NoGoal) BY <2>4 DEF ClearGoal
    <3> QED BY <3>1, <1>called
  <2>5. CASE i # NoGoal /\ Evaluate(o, m, h)
    <3>1. Call(o, "judge", "none", i) BY <2>5 DEF Evaluate
    <3> QED BY <3>1, <2>1, <2>5, <1>called
  <2>6. CASE Skip(o, m, h) BY <2>6, <1>returned DEF Skip
  <2> QED BY <1>performed, <2>2, <2>3, <2>4, <2>5, <2>6 DEF Perform, IsActive
<1>1. ASSUME NEW o \in Ops, OpStep(o) PROVE ObjectsThere'
  <2>1. CASE PerformLoaded(o)
    BY <2>1, <1>performed DEF PerformLoaded, Good
  <2>2. CASE PerformAfterLoad(o)
    <3> DEFINE c == op[o].conv
               i == Unheld(mem)
    <3>1. i \in Ids BY UnheldIsId DEF Good
    <3>2. PICK m, h : Perform(o, m, h) /\ (m = [mem EXCEPT ![c] = NoGoal] \/ m = [mem EXCEPT ![c] = i])
      BY <2>2 DEF PerformAfterLoad
    <3>3. m \in [Convs -> Ids \cup {NoGoal}] BY <3>1, <3>2 DEF Good
    <3> QED BY <3>2, <3>3, <1>performed
  <2>3. CASE JudgeAnswered(o)
    <3>1. Call(o, "save", "save", op[o].obj) /\ op[o].pc = "judge" BY <2>3 DEF JudgeAnswered
    <3>2. op[o].obj \in Ids BY <3>1 DEF ObjectsThere
    <3> QED BY <3>1, <3>2, <1>called
  <2>4. CASE SaveReturned(o) \/ ClearReturned(o) \/ OrphanDone(o)
    BY <2>4, <1>returned DEF SaveReturned, ClearReturned, OrphanDone
  <2>5. CASE Cancelled(o)
    <3>1. CASE Return(o) BY <3>1, <1>returned
    <3>2. CASE op' = [op EXCEPT ![o].pc = "orphan"]
      BY <3>2 DEF ObjectsThere, Good, GoodOp
    <3> QED BY <2>5, <3>1, <3>2 DEF Cancelled
  <2>6. CASE Begin(o)
    BY <2>6 DEF Begin, Idle, ObjectsThere, Good
  <2>7. CASE JobReads(o) \/ JobCopies(o) \/ JobWrites(o)
    BY <2>7 DEF JobReads, JobCopies, JobWrites, JobOver, ObjectsThere, Good, GoodOp
  <2> QED BY <1>1, <2>1, <2>2, <2>3, <2>4, <2>5, <2>6, <2>7 DEF OpStep
<1>2. CASE Restart BY <1>2 DEF Restart, Idle, ObjectsThere
<1>3. CASE UNCHANGED vars BY <1>3 DEF vars, ObjectsThere
<1> QED BY <1>1, <1>2, <1>3 DEF Next

-------------------------------------------------------------------------------
(* Operations one at a time.                                                  *)

InSync(c) == loaded[c] /\ c \notin apart => file[c] = Entry(c)

\* No two conversations share an object.
OwnObjects == \A c, d \in Convs : mem[c] # NoGoal /\ mem[c] = mem[d] => c = d

\* What the thread has read is the file as it is, or nothing, and then all that it lacks
\* for that is set apart.
ReadOf(o) == op[o].buf = file \/ (op[o].buf = NoFile /\ Missed(o) \subseteq apart)

\* How far the one operation is: what its thread has read, what it has copied is the goal
\* as it is, and what it has changed is its own goal.
Loading(o) ==
  /\ op[o].pc = "load" /\ InSync(op[o].conv)
  /\ \/ op[o].job = "none" /\ loaded[op[o].conv]
     \/ op[o].job = "queued" /\ op[o].kind = "load" /\ ~loaded[op[o].conv]
     \/ op[o].job = "finished" /\ op[o].kind = "load" /\ ReadOf(o)
Judging(o) ==
  /\ op[o].pc = "judge" /\ op[o].job = "none"
  /\ op[o].obj = mem[op[o].conv] /\ loaded[op[o].conv]
Saving(o) ==
  /\ op[o].pc = "save" /\ op[o].kind = "save"
  /\ op[o].obj = mem[op[o].conv] /\ loaded[op[o].conv]
  /\ \/ op[o].job = "queued"
     \/ op[o].job = "read" /\ ReadOf(o)
     \/ op[o].job = "copied" /\ ReadOf(o) /\ op[o].rec = heap[op[o].obj]
     \/ op[o].job = "finished" /\ InSync(op[o].conv)
Deleting(o) ==
  /\ op[o].pc = "delete" /\ op[o].kind = "delete" /\ loaded[op[o].conv]
  /\ \/ op[o].job = "queued"
     \/ op[o].job = "read" /\ ReadOf(o)
     \/ op[o].job = "finished" /\ (op[o].conv \in apart \/ file[op[o].conv] = NoEntry)

UnderWay(o) == Loading(o) \/ Judging(o) \/ Saving(o) \/ Deleting(o)

\* No operation is under way and everything is in the file, or one is, and everything
\* but what it works on is.
Order ==
  /\ OwnObjects
  /\ \/ (\A p \in Ops : op[p] = Idle) /\ \A c \in Convs : InSync(c)
     \/ \E o \in Ops :
          /\ UnderWay(o)
          /\ \A p \in Ops \ {o} : op[p] = Idle
          /\ \A c \in Convs \ {op[o].conv} : InSync(c)

OrderKept == ~disturbed => Order

\* An operation that is not idle is the one, and all but its own conversation is in
\* the file.
LEMMA TheOne ==
  ASSUME Order, NEW o \in Ops, op[o] # Idle
  PROVE  /\ UnderWay(o) /\ \A p \in Ops \ {o} : op[p] = Idle
         /\ \A c \in Convs \ {op[o].conv} : InSync(c)
<1>0. ~ \A p \in Ops : op[p] = Idle OBVIOUS
<1>1. PICK q \in Ops :
        /\ UnderWay(q)
        /\ \A p \in Ops \ {q} : op[p] = Idle
        /\ \A c \in Convs \ {op[q].conv} : InSync(c)
  BY <1>0, Zenon DEF Order
<1>2. q = o BY <1>1
<1> QED BY <1>1, <1>2

\* Nothing that is referred to is dropped.
LEMMA EntriesKept ==
  ASSUME NEW h \in [Ids -> GoodObject], heap' = Keep(h), mem' \in [Convs -> Ids \cup {NoGoal}],
         NEW c \in Convs
  PROVE  Entry(c)' = IF mem'[c] = NoGoal THEN NoEntry ELSE h[mem'[c]]
<1>1. mem'[c] \in Held(mem', op') BY DEF Held
<1>2. mem'[c] # NoGoal => heap'[mem'[c]] = h[mem'[c]] BY <1>1 DEF Keep
<1> QED BY <1>2 DEF Entry

\* An operation that calls the executor or the judge, and one that returns.
LEMMA CallFields ==
  ASSUME Good, NEW o \in Ops, NEW pc, NEW kind, NEW obj, Call(o, pc, kind, obj)
  PROVE  /\ op'[o].pc = pc /\ op'[o].kind = kind /\ op'[o].obj = obj
         /\ op'[o].conv = op[o].conv
         /\ op'[o].job = IF kind = "none" THEN "none" ELSE "queued"
         /\ \A p \in Ops \ {o} : op'[p] = op[p]
BY DEF Call, Idle, Good

LEMMA ReturnFields ==
  ASSUME Good, NEW o \in Ops, Return(o)
  PROVE  op'[o] = Idle /\ \A p \in Ops \ {o} : op'[p] = op[p]
BY DEF Return, Good

\* What an operation does to a memory and a heap that are in the file touches its own
\* goal only, and is on its way to the file.
LEMMA PerformOrders ==
  ASSUME Good, NEW o \in Ops, \A p \in Ops \ {o} : op[p] = Idle,
         NEW m \in [Convs -> Ids \cup {NoGoal}], NEW h \in [Ids -> GoodObject],
         \A c, d \in Convs : m[c] # NoGoal /\ m[c] = m[d] => c = d,
         loaded'[op[o].conv], file' = file, apart' = apart,
         \A c \in Convs : loaded'[c] /\ c \notin apart =>
                            file[c] = IF m[c] = NoGoal THEN NoEntry ELSE h[m[c]],
         Perform(o, m, h)
  PROVE  Order'
<1> DEFINE c == op[o].conv
           i == m[c]
           state == h[i].state
<1>1. c \in Convs /\ i \in Ids \cup {NoGoal} BY DEF Good, GoodOp
<1>2. mem' \in [Convs -> Ids \cup {NoGoal}] BY PerformGood
<1>v. PICK v : v \in Verdicts BY DEF Verdicts
\* The heap may change at an object of no other conversation.
<1>sync. ASSUME NEW g \in [Ids -> GoodObject], heap' = Keep(g),
                \A d \in Convs \ {c} : mem'[d] = m[d] /\ (m[d] # NoGoal => g[m[d]] = h[m[d]])
         PROVE  \A d \in Convs \ {c} : InSync(d)'
  <2> TAKE d \in Convs \ {c}
  <2>1. Entry(d)' = IF m[d] = NoGoal THEN NoEntry ELSE h[m[d]]
    BY <1>sync, <1>2, EntriesKept
  <2> QED BY <2>1 DEF InSync
<1>own. ASSUME mem' = m PROVE OwnObjects' BY <1>own DEF OwnObjects
<1>busy. ASSUME OwnObjects', UnderWay(o)', \A p \in Ops \ {o} : op'[p] = op[p], op'[o].conv = c,
                \A d \in Convs \ {c} : InSync(d)'
         PROVE  Order'
  BY <1>busy DEF Order, Idle
<1>3. CASE SetGoal(o, m, h)
  <2> DEFINE new == Unheld(m)
  <2>1. new \in Ids /\ \A d \in Convs : m[d] # new BY UnheldIsId
  <2>2. PICK n \in Names :
          /\ mem' = [m EXCEPT ![c] = new]
          /\ Call(o, "save", "save", new)
          /\ heap' = Keep([h EXCEPT ![new] = [name |-> n, state |-> NewGoal]])
    BY <1>3 DEF SetGoal
  <2>3. [name |-> n, state |-> NewGoal] \in GoodObject
    BY <1>v, BlankGood DEF Blank, GoodObject, Object
  <2> HIDE DEF new
  <2> DEFINE g == [h EXCEPT ![new] = [name |-> n, state |-> NewGoal]]
  <2>4. g \in [Ids -> GoodObject] /\ \A d \in Convs : m[d] # NoGoal => g[m[d]] = h[m[d]]
    BY <2>1, <2>3
  <2>5. mem'[c] = new /\ \A d \in Convs \ {c} : mem'[d] = m[d]
    BY <1>1, <2>2
  <2>6. OwnObjects' BY <1>1, <2>1, <2>5 DEF OwnObjects
  <2>7. \A d \in Convs \ {c} : InSync(d)'
    <3> HIDE DEF g, c
    <3>1. heap' = Keep(g) BY <2>2 DEF g, c
    <3> QED BY <1>sync, <2>4, <2>5, <3>1 DEF c
  <2>8. UnderWay(o)' BY <2>2, <2>5, CallFields DEF UnderWay, Saving
  <2> QED BY <1>busy, <2>2, <2>6, <2>7, <2>8, CallFields
<1>4. ASSUME NEW s, i # NoGoal, [h[i] EXCEPT !.state = s] \in GoodObject,
             heap' = Keep([h EXCEPT ![i] = [h[i] EXCEPT !.state = s]]), mem' = m
      PROVE  OwnObjects' /\ \A d \in Convs \ {c} : InSync(d)'
  <2> DEFINE g == [h EXCEPT ![i] = [h[i] EXCEPT !.state = s]]
  <2>1. g \in [Ids -> GoodObject] BY <1>4
  <2>2. \A d \in Convs \ {c} : m[d] # NoGoal => g[m[d]] = h[m[d]] BY <1>1
  <2>3. heap' = Keep(g) BY <1>4
  <2> HIDE DEF g
  <2> QED BY <1>sync, <1>own, <1>4, <2>1, <2>2, <2>3
<1>5. CASE i # NoGoal /\ (Change(o, m, h, Paused(state)) \/ Change(o, m, h, Resumed(state)))
  <2>1. h[i] \in GoodObject BY <1>1, <1>5
  <2>2. /\ [h[i] EXCEPT !.state = Paused(state)] \in GoodObject
        /\ [h[i] EXCEPT !.state = Resumed(state)] \in GoodObject
    BY <2>1, <1>v, ChangedGood
  <2>3. PICK s \in {Paused(state), Resumed(state)} : Change(o, m, h, s) BY <1>5
  <2>4. /\ mem' = m /\ Call(o, "save", "save", i)
        /\ heap' = Keep([h EXCEPT ![i] = [h[i] EXCEPT !.state = s]])
    BY <2>3 DEF Change
  <2>5. OwnObjects' /\ \A d \in Convs \ {c} : InSync(d)' BY <1>4, <1>5, <2>2, <2>4
  <2>6. UnderWay(o)' BY <2>4, CallFields DEF UnderWay, Saving
  <2> QED BY <1>busy, <2>4, <2>5, <2>6, CallFields
<1>6. CASE ClearGoal(o, m, h)
  <2>1. mem' = m /\ heap' = Keep(h) /\ Call(o, "delete", "delete", NoGoal)
    BY <1>6 DEF ClearGoal
  <2>2. \A d \in Convs \ {c} : InSync(d)' BY <1>sync, <2>1
  <2>3. UnderWay(o)' BY <2>1, CallFields DEF UnderWay, Deleting
  <2> QED BY <1>busy, <1>own, <2>1, <2>2, <2>3, CallFields
<1>7. CASE i # NoGoal /\ Evaluate(o, m, h)
  <2>1. h[i] \in GoodObject BY <1>1, <1>7
  <2>2. [h[i] EXCEPT !.state = TurnCounted(state)] \in GoodObject BY <2>1, <1>v, ChangedGood
  <2>3. /\ mem' = m /\ Call(o, "judge", "none", i)
        /\ heap' = Keep([h EXCEPT ![i] = [h[i] EXCEPT !.state = TurnCounted(state)]])
    BY <1>7 DEF Evaluate
  <2>4. OwnObjects' /\ \A d \in Convs \ {c} : InSync(d)' BY <1>4, <1>7, <2>2, <2>3
  <2>5. UnderWay(o)' BY <2>3, CallFields DEF UnderWay, Judging
  <2> QED BY <1>busy, <2>3, <2>4, <2>5, CallFields
<1>8. CASE Skip(o, m, h)
  <2>1. mem' = m /\ heap' = Keep(h) /\ Return(o) BY <1>8 DEF Skip
  <2>2. \A d \in Convs : InSync(d)'
    <3> TAKE d \in Convs
    <3>1. Entry(d)' = IF m[d] = NoGoal THEN NoEntry ELSE h[m[d]]
      BY <1>2, <2>1, EntriesKept
    <3> QED BY <3>1 DEF InSync
  <2>3. \A p \in Ops : op'[p] = Idle BY <2>1, ReturnFields
  <2> QED BY <1>own, <2>1, <2>2, <2>3 DEF Order, Idle
<1>9. \/ SetGoal(o, m, h) \/ ClearGoal(o, m, h) \/ Skip(o, m, h)
      \/ i # NoGoal /\ (Change(o, m, h, Paused(state)) \/ Change(o, m, h, Resumed(state)))
      \/ i # NoGoal /\ Evaluate(o, m, h)
  BY DEF Perform, IsActive
<1> QED BY <1>3, <1>5, <1>6, <1>7, <1>8, <1>9

\* Every step keeps the order, or disturbs it.
LEMMA OrderStep == Good /\ ObjectsThere /\ OrderKept /\ [Next]_vars => OrderKept'
<1> SUFFICES ASSUME Good, ObjectsThere, OrderKept, [Next]_vars, ~disturbed' PROVE Order'
  BY DEF OrderKept
<1>1. ASSUME NEW o \in Ops, OpStep(o) PROVE Order'
  <2>c. ~Cancelled(o) BY DEF Cancelled
  <2>d. disturbed' = disturbed \/ Begin(o) BY <1>1, <2>c DEF OpStep, PerformLoaded,
      PerformAfterLoad, JudgeAnswered, SaveReturned, ClearReturned, OrphanDone, JobReads,
      JobCopies, JobWrites
  <2>o. Order BY <2>d DEF OrderKept, Begin
  <2>op. op[o] \in GoodOp /\ op[o].conv \in Convs BY DEF Good, GoodOp
  <2> PICK c \in Convs : c = op[o].conv BY <2>op
  <2>idle. /\ Idle.pc = "idle" /\ Idle.job = "none" BY DEF Idle
  <2>1. CASE Begin(o)
    <3>1. \A p \in Ops \ {o} : op[p].pc = "idle" BY <2>1 DEF Begin
    <3>2. op[o] = Idle
      BY <2>1, <2>o, TheOne DEF Begin, UnderWay, Loading, Judging, Saving, Deleting
    <3>3. \A p \in Ops \ {o} : op[p] = Idle
      BY <3>1, <2>o, TheOne DEF UnderWay, Loading, Judging, Saving, Deleting
    <3>4. \A d \in Convs : InSync(d)
      BY <2>o, <3>2, <3>3, <2>idle DEF Order, UnderWay, Loading, Judging, Saving, Deleting
    <3> PICK d \in Convs, w \in Wants :
          op' = [op EXCEPT ![o] = [Idle EXCEPT !.pc = "load", !.conv = d, !.want = w,
                                     !.job = IF loaded[d] THEN "none" ELSE "queued",
                                     !.kind = IF loaded[d] THEN "none" ELSE "load"]]
      BY <2>1 DEF Begin
    <3>5. /\ op'[o].pc = "load" /\ op'[o].conv = d
          /\ op'[o].job = (IF loaded[d] THEN "none" ELSE "queued")
          /\ op'[o].kind = (IF loaded[d] THEN "none" ELSE "load")
          /\ \A p \in Ops \ {o} : op'[p] = op[p]
      BY DEF Idle, Good
    <3>6. /\ loaded' = loaded /\ mem' = mem /\ heap' = heap /\ file' = file /\ apart' = apart
      BY <2>1 DEF Begin
    <3>7. \A e \in Convs : InSync(e)' BY <3>4, <3>6 DEF InSync, Entry
    <3>8. UnderWay(o)' BY <3>5, <3>6, <3>7 DEF UnderWay, Loading
    <3>9. OwnObjects' BY <2>o, <3>6 DEF Order, OwnObjects
    <3> QED BY <3>3, <3>5, <3>7, <3>8, <3>9 DEF Order
  <2>b. CASE ~Begin(o)
    <3>0. op[o] # Idle
      BY <1>1, <2>b, <2>c, <2>idle DEF OpStep, PerformLoaded, PerformAfterLoad, JudgeAnswered,
        SaveReturned, ClearReturned, OrphanDone, JobReads, JobCopies, JobWrites
    <3>1. /\ UnderWay(o) /\ \A p \in Ops \ {o} : op[p] = Idle
          /\ \A d \in Convs \ {c} : InSync(d)
      BY <2>o, <3>0, TheOne
    <3>2. OwnObjects BY <2>o DEF Order
    <3>b. ASSUME UnderWay(o)', \A p \in Ops \ {o} : op'[p] = op[p], op'[o].conv = c,
                 OwnObjects', \A d \in Convs \ {c} : InSync(d)'
          PROVE  Order'
      BY <3>1, <3>b DEF Order, Idle
    <3>r. ASSUME Return(o), OwnObjects', \A d \in Convs : InSync(d)'
          PROVE  Order'
      <4>1. \A p \in Ops : op'[p] = Idle BY <3>r, <3>1, ReturnFields
      <4> QED BY <3>r, <4>1 DEF Order, Idle
    <3>3. CASE PerformLoaded(o)
      <4>1. InSync(c) /\ loaded[c]
        BY <3>1, <3>3 DEF PerformLoaded, UnderWay, Loading, Judging, Saving, Deleting
      <4>2. /\ Perform(o, mem, heap) /\ loaded' = loaded /\ file' = file /\ apart' = apart
        BY <3>3 DEF PerformLoaded
      <4>3. \A d \in Convs : loaded'[d] /\ d \notin apart =>
                               file[d] = IF mem[d] = NoGoal THEN NoEntry ELSE heap[mem[d]]
        BY <3>1, <4>1, <4>2 DEF InSync, Entry
      <4>4. /\ mem \in [Convs -> Ids \cup {NoGoal}] /\ heap \in [Ids -> GoodObject]
        BY DEF Good
      <4>5. \A d, e \in Convs : mem[d] # NoGoal /\ mem[d] = mem[e] => d = e
        BY <3>2 DEF OwnObjects
      <4> QED BY <3>1, <4>1, <4>2, <4>3, <4>4, <4>5, PerformOrders
    <3>4. CASE PerformAfterLoad(o)
      <4> DEFINE entry == op[o].buf[c]
                 i == Unheld(mem)
                 m == IF entry = NoEntry THEN [mem EXCEPT ![c] = NoGoal]
                      ELSE [mem EXCEPT ![c] = i]
                 h == IF entry = NoEntry THEN heap ELSE [heap EXCEPT ![i] = entry]
      <4>1. op[o].buf = file \/ (op[o].buf = NoFile /\ c \in apart)
        BY <3>1, <3>4 DEF PerformAfterLoad, UnderWay, Loading, Judging, Saving, Deleting, ReadOf,
          Missed
      <4>2. i \in Ids /\ \A d \in Convs : mem[d] # i BY UnheldIsId DEF Good
      <4>3. (c \in apart \/ entry = file[c]) /\ entry \in GoodObject \cup {NoEntry}
        BY <4>1, <2>op DEF Good, GoodFile, GoodOp
      <4>4. /\ Perform(o, m, h) /\ loaded' = [loaded EXCEPT ![c] = TRUE] /\ file' = file
            /\ apart' = apart
        BY <3>4 DEF PerformAfterLoad
      <4>5. /\ mem \in [Convs -> Ids \cup {NoGoal}] /\ heap \in [Ids -> GoodObject]
            /\ loaded \in [Convs -> BOOLEAN]
        BY DEF Good
      <4> HIDE DEF entry, i
      <4>6. /\ m \in [Convs -> Ids \cup {NoGoal}] /\ h \in [Ids -> GoodObject]
        BY <4>2, <4>3, <4>5
      <4>7. \A d \in Convs : mem[d] # NoGoal => h[mem[d]] = heap[mem[d]]
        BY <4>2, <4>5
      <4>8. m[c] = (IF entry = NoEntry THEN NoGoal ELSE i) /\ \A d \in Convs \ {c} : m[d] = mem[d]
        BY <2>op, <4>5
      <4>9. \A d, e \in Convs : m[d] # NoGoal /\ m[d] = m[e] => d = e
        BY <3>2, <4>2, <4>8 DEF OwnObjects
      <4>10. entry # NoEntry => h[i] = entry BY <4>2, <4>5
      <4>11. i # NoGoal BY <4>2, NoGoalIsNoId
      <4> HIDE DEF m, h
      <4>12. \A d \in Convs : loaded'[d] /\ d \notin apart =>
                               file[d] = IF m[d] = NoGoal THEN NoEntry ELSE h[m[d]]
        <5> TAKE d \in Convs
        <5>1. CASE d = c BY <4>3, <4>8, <4>10, <4>11, <5>1
        <5>2. CASE d # c
          <6>1. loaded'[d] = loaded[d] BY <4>4, <4>5, <5>2
          <6> QED BY <3>1, <4>7, <4>8, <5>2, <6>1 DEF InSync, Entry
        <5> QED BY <5>1, <5>2
      <4>13. loaded'[c] BY <2>op, <4>4, <4>5
      <4> QED BY <3>1, <4>4, <4>6, <4>9, <4>12, <4>13, PerformOrders
    <3>5. CASE JudgeAnswered(o)
      <4> DEFINE i == op[o].obj
      <4>1. i = mem[c] /\ loaded[c]
        BY <3>1, <3>5 DEF JudgeAnswered, UnderWay, Loading, Judging, Saving, Deleting
      <4>2. i \in Ids BY <3>5 DEF JudgeAnswered, ObjectsThere
      <4>3. PICK v \in Verdicts :
              heap' = [heap EXCEPT ![i] = [heap[i] EXCEPT !.state = Judged(heap[i].state, v)]]
        BY <3>5 DEF JudgeAnswered
      <4>4. /\ Call(o, "save", "save", i) /\ loaded' = loaded /\ mem' = mem /\ file' = file
            /\ apart' = apart
        BY <3>5 DEF JudgeAnswered
      <4>5. \A d \in Convs \ {c} : mem[d] # NoGoal => heap'[mem[d]] = heap[mem[d]]
        <5>1. \A d \in Convs \ {c} : mem[d] # i BY <2>op, <3>2, <4>1, <4>2, NoGoalIsNoId DEF OwnObjects
        <5> QED BY <4>3, <5>1 DEF Good
      <4>6. \A d \in Convs \ {c} : InSync(d)' BY <3>1, <4>4, <4>5 DEF InSync, Entry
      <4>7. OwnObjects' BY <3>2, <4>4 DEF OwnObjects
      <4>8. UnderWay(o)' BY <4>1, <4>4, CallFields DEF UnderWay, Saving
      <4> QED BY <3>b, <4>4, <4>6, <4>7, <4>8, CallFields
    <3>6. CASE SaveReturned(o) \/ ClearReturned(o) \/ OrphanDone(o)
      <4>1. /\ Return(o) /\ heap' = Keep(heap) /\ loaded' = loaded /\ file' = file
            /\ apart' = apart
            /\ mem' = IF ClearReturned(o) THEN [mem EXCEPT ![c] = NoGoal] ELSE mem
        BY <3>6 DEF SaveReturned, ClearReturned, OrphanDone
      <4>2. ~OrphanDone(o) BY <3>1 DEF OrphanDone, UnderWay, Loading, Judging, Saving, Deleting
      <4>3. mem \in [Convs -> Ids \cup {NoGoal}] /\ heap \in [Ids -> GoodObject] BY DEF Good
      <4>4. mem' \in [Convs -> Ids \cup {NoGoal}] BY <4>1, <4>3
      <4>5. OwnObjects'
        <5>1. \A d \in Convs : mem'[d] = NoGoal \/ mem'[d] = mem[d] BY <4>1, <4>3
        <5> QED BY <3>2, <5>1 DEF OwnObjects
      <4>6. \A d \in Convs : Entry(d)' = IF mem'[d] = NoGoal THEN NoEntry ELSE heap[mem'[d]]
        BY <4>1, <4>3, <4>4, EntriesKept
      <4>7. \A d \in Convs \ {c} : InSync(d)'
        <5> TAKE d \in Convs \ {c}
        <5>1. mem'[d] = mem[d] BY <4>1, <4>3
        <5>2. Entry(d)' = Entry(d) BY <4>6, <5>1 DEF Entry
        <5> QED BY <3>1, <4>1, <5>2 DEF InSync
      <4>8. CASE SaveReturned(o)
        <5>1. InSync(c)
          BY <3>1, <4>8 DEF SaveReturned, UnderWay, Loading, Judging, Saving, Deleting
        <5>2. mem' = mem BY <4>8 DEF SaveReturned
        <5>3. Entry(c)' = Entry(c) BY <2>op, <4>6, <5>2 DEF Entry
        <5>4. InSync(c)' BY <4>1, <5>1, <5>3 DEF InSync
        <5> QED BY <3>r, <4>1, <4>5, <4>7, <5>4
      <4>9. CASE ClearReturned(o)
        <5>1. c \in apart \/ file[c] = NoEntry
          BY <3>1, <4>9 DEF ClearReturned, UnderWay, Loading, Judging, Saving, Deleting
        <5>2. mem'[c] = NoGoal BY <2>op, <4>1, <4>3, <4>9
        <5>3. InSync(c)' BY <4>1, <5>1, <5>2 DEF InSync, Entry
        <5> QED BY <3>r, <4>1, <4>5, <4>7, <5>3
      <4> QED BY <3>6, <4>2, <4>8, <4>9
    <3>7. CASE JobReads(o)
      <4>1. PICK seen \in {file, NoFile} :
              /\ op' = [op EXCEPT ![o] = [op[o] EXCEPT !.buf = seen,
                          !.job = IF op[o].kind = "load" THEN "finished" ELSE "read"]]
              /\ apart' = IF seen # file THEN apart \cup Missed(o)
                          ELSE IF op[o].kind = "load" THEN apart \ Missed(o) ELSE apart
        BY <3>7 DEF JobReads, Good
      <4>2. /\ op[o].job = "queued"
            /\ loaded' = loaded /\ mem' = mem /\ heap' = heap /\ file' = file
        BY <3>7 DEF JobReads
      <4>3. /\ op'[o].pc = op[o].pc /\ op'[o].kind = op[o].kind /\ op'[o].conv = c
            /\ op'[o].obj = op[o].obj /\ op'[o].buf = seen
            /\ op'[o].job = (IF op[o].kind = "load" THEN "finished" ELSE "read")
            /\ \A p \in Ops \ {o} : op'[p] = op[p]
        BY <4>1, <2>op DEF Good, GoodOp
      <4>4. Missed(o)' = Missed(o) BY <4>3 DEF Missed
      <4>5. ReadOf(o)' BY <4>1, <4>2, <4>3, <4>4 DEF ReadOf
      <4>6. OwnObjects' BY <3>2, <4>2 DEF OwnObjects
      <4>7. op[o].kind = "load" => ~loaded[c]
        BY <3>1, <4>2 DEF UnderWay, Loading, Judging, Saving, Deleting
      <4>8. \A d \in Convs : d \notin apart' => d \notin apart \/ (d = c /\ op[o].kind = "load")
        BY <4>1 DEF Missed
      <4>9. \A d \in Convs : InSync(d) => InSync(d)'
        BY <4>2, <4>7, <4>8 DEF InSync, Entry
      <4>10. UnderWay(o)'
        BY <2>op, <3>1, <4>2, <4>3, <4>5, <4>9 DEF UnderWay, Loading, Judging, Saving, Deleting
      <4> QED BY <3>1, <3>b, <4>3, <4>6, <4>9, <4>10
    <3>8. CASE JobCopies(o)
      <4>1. /\ op' = [op EXCEPT ![o] = [op[o] EXCEPT !.rec = heap[op[o].obj], !.job = "copied"]]
            /\ op[o].job = "read" /\ op[o].kind = "save"
            /\ loaded' = loaded /\ mem' = mem /\ heap' = heap /\ file' = file /\ apart' = apart
        BY <3>8 DEF JobCopies, Good
      <4>2. /\ op'[o].pc = op[o].pc /\ op'[o].kind = op[o].kind /\ op'[o].conv = c
            /\ op'[o].obj = op[o].obj /\ op'[o].buf = op[o].buf
            /\ op'[o].rec = heap[op[o].obj] /\ op'[o].job = "copied"
            /\ \A p \in Ops \ {o} : op'[p] = op[p]
        BY <4>1, <2>op DEF Good, GoodOp
      <4>3. OwnObjects' /\ \A d \in Convs : InSync(d)' <=> InSync(d)
        BY <3>2, <4>1 DEF OwnObjects, InSync, Entry
      <4>4. ReadOf(o)' <=> ReadOf(o) BY <4>1, <4>2 DEF ReadOf, Missed
      <4>5. UnderWay(o)'
        BY <2>op, <3>1, <4>1, <4>2, <4>4 DEF UnderWay, Loading, Judging, Saving, Deleting
      <4> QED BY <3>1, <3>b, <4>2, <4>3, <4>5
    <3>9. CASE JobWrites(o)
      <4>1. /\ op' = [op EXCEPT ![o] = [op[o] EXCEPT !.job = "finished", !.buf = NoFile, !.rec = Blank]]
            /\ loaded' = loaded /\ mem' = mem /\ heap' = heap
        BY <3>9 DEF JobWrites, JobOver, Good
      <4>2. /\ op'[o].pc = op[o].pc /\ op'[o].kind = op[o].kind /\ op'[o].conv = c
            /\ op'[o].obj = op[o].obj /\ op'[o].job = "finished"
            /\ \A p \in Ops \ {o} : op'[p] = op[p]
        BY <4>1, <2>op DEF Good, GoodOp
      <4>3. OwnObjects' BY <3>2, <4>1 DEF OwnObjects
      <4>4. file \in [Convs -> GoodObject \cup {NoEntry}] BY DEF Good, GoodFile
      <4>5. CASE op[o].job = "copied"
        <5>1. Saving(o) /\ ReadOf(o) /\ op[o].rec = heap[op[o].obj]
          BY <3>1, <4>5 DEF UnderWay, Loading, Judging, Saving, Deleting
        <5>2. op[o].obj = mem[c] /\ op[o].obj \in Ids /\ op[o].pc = "save" /\ op[o].kind = "save"
              /\ loaded[c]
          BY <5>1 DEF Saving, ObjectsThere
        <5>3. Entry(c)' = heap[op[o].obj] BY <4>1, <5>2, NoGoalIsNoId DEF Entry
        <5>4. Write(c, [op[o].buf EXCEPT ![c] = heap[op[o].obj]])
          BY <3>9, <4>5, <5>1 DEF JobWrites, Written
        <5>5. ASSUME file' = [op[o].buf EXCEPT ![c] = heap[op[o].obj]], apart' = apart \ {c}
              PROVE  \A d \in Convs : InSync(d)'
          <6>1. op[o].buf \in [Convs -> GoodObject \cup {NoEntry}] BY <2>op DEF GoodOp, GoodFile
          <6>2. InSync(c)' BY <2>op, <5>3, <5>5, <6>1 DEF InSync
          <6>3. \A d \in Convs \ {c} : file'[d] = op[o].buf[d] BY <5>5, <6>1
          <6>4. op[o].buf = file \/ Convs \ {c} \subseteq apart BY <5>1, <5>2 DEF ReadOf, Missed
          <6>5. \A d \in Convs \ {c} : InSync(d)'
            BY <3>1, <4>1, <5>5, <6>3, <6>4 DEF InSync, Entry
          <6> QED BY <6>2, <6>5
        <5>6. ASSUME file' = file, apart' = apart \cup {c}
              PROVE  \A d \in Convs : InSync(d)'
          <6>1. \A d \in Convs \ {c} : InSync(d)' BY <3>1, <4>1, <5>6 DEF InSync, Entry
          <6> QED BY <5>6, <6>1 DEF InSync
        <5>7. \A d \in Convs : InSync(d)' BY <5>4, <5>5, <5>6 DEF Write
        <5>8. UnderWay(o)' BY <2>op, <4>1, <4>2, <5>2, <5>7 DEF UnderWay, Saving
        <5> QED BY <3>b, <4>2, <4>3, <5>7, <5>8
      <4>6. CASE op[o].job = "read" /\ op[o].kind = "delete"
        <5>1. Deleting(o) /\ ReadOf(o)
          BY <3>1, <4>6 DEF UnderWay, Loading, Judging, Saving, Deleting
        <5>2. op[o].buf = file \/ (op[o].buf = NoFile /\ c \in apart) BY <4>6, <5>1 DEF ReadOf, Missed
        <5>3. IF op[o].buf[c] = NoEntry THEN UNCHANGED <<file, apart>>
              ELSE Write(c, [op[o].buf EXCEPT ![c] = NoEntry])
          BY <3>9, <4>6 DEF JobWrites, Written
        <5>4. (c \in apart' \/ file'[c] = NoEntry) /\ \A d \in Convs \ {c} :
                file'[d] = file[d] /\ (d \in apart' <=> d \in apart)
          <6>1. CASE op[o].buf[c] = NoEntry BY <5>2, <5>3, <6>1
          <6>2. CASE op[o].buf[c] # NoEntry
            <7>1. op[o].buf = file BY <2>op, <5>2, <6>2 DEF NoFile
            <7>2. \/ file' = [file EXCEPT ![c] = NoEntry] /\ apart' = apart \ {c}
                  \/ file' = file /\ apart' = apart \cup {c}
              BY <5>3, <6>2, <7>1 DEF Write
            <7> QED BY <2>op, <4>4, <7>2
          <6> QED BY <6>1, <6>2
        <5>5. \A d \in Convs \ {c} : InSync(d)'
          BY <3>1, <4>1, <5>4 DEF InSync, Entry
        <5>6. UnderWay(o)' BY <4>1, <4>2, <5>1, <5>4 DEF UnderWay, Deleting
        <5> QED BY <3>b, <4>2, <4>3, <5>5, <5>6
      <4> QED BY <3>9, <4>5, <4>6 DEF JobWrites
    <3> QED BY <1>1, <2>b, <2>c, <3>3, <3>4, <3>5, <3>6, <3>7, <3>8, <3>9 DEF OpStep
  <2> QED BY <2>1, <2>b
<1>2. CASE Restart
  <2>1. /\ \A p \in Ops : op'[p] = Idle
        /\ \A c \in Convs : ~loaded'[c] /\ mem'[c] = NoGoal
    BY <1>2 DEF Restart
  <2>2. OwnObjects' BY <2>1 DEF OwnObjects
  <2>3. \A c \in Convs : InSync(c)' BY <2>1, Zenon DEF InSync
  <2> QED BY <2>1, <2>2, <2>3 DEF Order
<1>3. CASE UNCHANGED vars
  <2>1. UNCHANGED <<loaded, mem, heap, op, file, disturbed, apart>> BY <1>3 DEF vars
  <2>2. \A c \in Convs : InSync(c) => InSync(c)' BY <2>1 DEF InSync, Entry
  <2>3. OwnObjects => OwnObjects' BY <2>1 DEF OwnObjects
  <2>4. \A o \in Ops : ReadOf(o) => ReadOf(o)' BY <2>1 DEF ReadOf, Missed
  <2>5. \A o \in Ops : op[o].conv \in Convs BY DEF Good, GoodOp
  <2>6. \A o \in Ops : UnderWay(o) => UnderWay(o)'
    BY <2>1, <2>2, <2>4, <2>5 DEF UnderWay, Loading, Judging, Saving, Deleting
  <2>7. Order BY <2>1 DEF OrderKept
  <2> QED BY <2>1, <2>2, <2>3, <2>6, <2>7 DEF Order, Idle
<1> QED BY <1>1, <1>2, <1>3 DEF Next

-------------------------------------------------------------------------------
(* The theorems.                                                              *)

\* The strengthening holds in every state.
THEOREM Invariant == Spec => [](Good /\ ObjectsThere)
<1>1. Init => Good /\ ObjectsThere
  <2> SUFFICES ASSUME Init PROVE Good /\ ObjectsThere OBVIOUS
  <2>1. NoFile \in GoodFile BY DEF NoFile, GoodFile
  <2>2. Good BY <2>1, IdleGood, BlankGood DEF Init, Good
  <2>3. ObjectsThere BY DEF Init, ObjectsThere, Idle
  <2> QED BY <2>2, <2>3
<1>2. Good /\ ObjectsThere /\ [Next]_vars => (Good /\ ObjectsThere)'
  BY GoodStep, ObjectsStep
<1> QED BY <1>1, <1>2, PTL DEF Spec

\* The types are right in every state: an operation always finds an object to work on.
THEOREM TypeCorrect == Spec => []TypeOK
<1>1. Good => TypeOK BY StrongEnough
<1> QED BY Invariant, <1>1, PTL

\* GoalManager never leaves an active goal, in memory, on its way to the file, or in the
\* file, whose judge failures are used up.
THEOREM ActiveGoalsJudgeable == Spec => []ActiveMeansJudgeable
<1>1. Good => ActiveMeansJudgeable BY StrongEnough
<1> QED BY Invariant, <1>1, PTL

\* As long as operations do not overlap, the order is kept.
LEMMA OneAtATime == Spec => []OrderKept
<1>1. Init => OrderKept
  <2> SUFFICES ASSUME Init PROVE Order BY DEF OrderKept
  <2>1. OwnObjects BY DEF Init, OwnObjects
  <2>2. \A c \in Convs : InSync(c) BY DEF Init, InSync
  <2> QED BY <2>1, <2>2 DEF Init, Order
<1> QED BY <1>1, Invariant, OrderStep, PTL DEF Spec

\* A restart loses nothing between operations: of operations that do not overlap and are
\* not cancelled, each leaves in the file what it leaves in memory, whatever the judge
\* said, whatever goals the other conversations have and however often Home Assistant
\* restarted (goals.py:265-309, 564-641, 651-755).  Reads and writes of the file may fail
\* at any time (goals.py:233-238, 258-262): what an error sets apart is what that read had
\* to find - in a save, all other goals of the file - or that write had to leave.
THEOREM QuietFileHoldsGoals == Spec => []QuietFileIsMemory
<1>1. OrderKept => QuietFileIsMemory
  <2> SUFFICES ASSUME Order, Quiet PROVE \A c \in Convs : InSync(c)
    BY DEF OrderKept, QuietFileIsMemory, InSync
  <2>1. \A o \in Ops : ~UnderWay(o)
    BY DEF Quiet, UnderWay, Loading, Judging, Saving, Deleting
  <2> QED BY <2>1, Zenon DEF Order
<1> QED BY OneAtATime, <1>1, PTL
==============================================================================
