-------------------------- MODULE Heartbeat_proofs --------------------------
(***************************************************************************)
(* Ticks never overlap, a task that was taken away is begun once more at      *)
(* most, and a cron task is begun once in its minute: for any tasks,          *)
(* schedules, operations and bounds, the proofs for the run heartbeat_ticks.  *)
(***************************************************************************)
EXTENDS Heartbeat, FiniteSetTheorems, TLAPS

-----------------------------------------------------------------------------
(* The inductive invariant.                                                  *)

Busy(o) == op[o] # Idle

\* The running flag says whether a tick is busy, and there is one at most.
FlagTrue ==
  /\ running <=> \E o \in Ticks : Busy(o)
  /\ \A o1, o2 \in Ticks : Busy(o1) /\ Busy(o2) => o1 = o2

\* While the entry is up its runtime key stays in the domain: the clean-up of an
\* unload, which would drop the flag of a running tick, finds a key left.
RuntimeKeyStays == entry \in {"setup", "loaded"} => "runtime" \in domain

\* The jobs an operation can have left, with its copy of the markdown, with its
\* copy of the state, and before it has one.
MdPlans == {<<"readSt", "writeMd", "writeSt">>, <<"readSt", "writeSt", "writeMd">>,
            <<"writeMd">>, <<"writeMd", "writeSt">>, <<"writeSt", "writeMd">>}
StPlans == {<<"writeMd", "writeSt">>, <<"writeSt", "writeMd">>, <<"writeSt">>}
Plans == MdPlans \cup StPlans
         \cup {<<>>, <<"due">>, <<"find">>, <<"run">>, RecordJobs, <<"readMd", "writeMd">>,
               <<"readMd", "readSt", "writeSt", "writeMd">>, <<"readSt", "writeSt">>}
TickPlans == {<<"run">>, RecordJobs, <<"readSt", "writeMd", "writeSt">>,
              <<"readSt", "writeSt">>, <<"writeMd", "writeSt">>, <<"writeSt">>}

\* What is written has been read; what set_enabled changes was there.
Planned(x) ==
  /\ x.todo \in Plans
  /\ x.todo \in MdPlans => x.md \in Markdown
  /\ x.todo \in StPlans => x.st \in States
  /\ x.kind = "enable" =>
       /\ x.section \in Section /\ x.task \in Slugs
       /\ x.todo \in {<<"readMd", "writeMd">>, <<"writeMd">>}
       /\ x.todo = <<"writeMd">> => x.md[x.task] # None

\* A tick has its list to read, or a task under way that is not on the list.
TickShape(x) ==
  \/ x = Idle
  \/ /\ x.kind = "tick"
     /\ \/ x.todo = <<"due">> /\ x.task = None /\ x.due = {}
        \/ x.todo \in TickPlans /\ x.task \in Slugs /\ x.task \notin x.due

\* An edit is no tick: it has no list.
EditShape(x) == x.todo # <<"due">> /\ x.due = {}

Fits(o, x) ==
  /\ x \in Op /\ Planned(x)
  /\ o \in Ticks => TickShape(x)
  /\ o \in Edits => EditShape(x)

Shapes == op \in [Ops -> Op] /\ \A o \in Ops : Fits(o, op[o])

\* What is on a tick's list has not been begun since it was taken away.
LateInv ==
  \A t \in Slugs :
    /\ late[t] <= 1
    /\ late[t] > 0 => ~Enabled(t)
    /\ \A o \in Ticks : t \in op[o].due => late[t] = 0

\* A cron task that was begun this minute is still under way, or its state says when
\* it was; what is on a tick's list has not been begun.
Recorded(t) == st[t] # None /\ st[t] <= clock.tick
UnderWay(t) == \E o \in Ticks : op[o].task = t
Once(t) ==
  /\ ran[t] <= 1
  /\ ran[t] > 0 => Schedule[t].kind = "cron" /\ (Recorded(t) \/ UnderWay(t))
  /\ \A o \in Ticks : t \in op[o].due => ran[t] = 0
CronInv == ~stale => \A t \in Slugs : Once(t)

IInv == TypeOK /\ Shapes /\ FlagTrue /\ RuntimeKeyStays /\ LateInv /\ CronInv

-----------------------------------------------------------------------------
(* Plans and records.                                                        *)

\* Taking the first job off a plan.
LEMMA Tails ==
  /\ Tail(<<"readMd", "writeMd">>) = <<"writeMd">>
  /\ Tail(RecordJobs) = <<"readSt", "writeMd", "writeSt">>
  /\ Tail(<<"readMd", "readSt", "writeSt", "writeMd">>) = <<"readSt", "writeSt", "writeMd">>
  /\ Tail(<<"readSt", "writeMd", "writeSt">>) = <<"writeMd", "writeSt">>
  /\ Tail(<<"readSt", "writeSt", "writeMd">>) = <<"writeSt", "writeMd">>
  /\ Tail(<<"readSt", "writeSt">>) = <<"writeSt">>
  /\ Tail(<<"writeMd", "writeSt">>) = <<"writeSt">>
  /\ Tail(<<"writeSt", "writeMd">>) = <<"writeMd">>
  /\ Tail(<<"writeMd">>) = <<>>
  /\ Tail(<<"writeSt">>) = <<>>
  BY DEF RecordJobs

\* Every plan is a sequence of jobs.
LEMMA PlansAreJobs == Plans \subseteq Seq(Jobs)
  BY DEF Plans, MdPlans, StPlans, RecordJobs, Jobs

\* The plans that begin with a job.
LEMMA PlanHeads ==
  ASSUME NEW todo \in Plans, todo # <<>>
  PROVE  /\ Head(todo) = "due" => todo = <<"due">>
         /\ Head(todo) = "find" => todo = <<"find">>
         /\ Head(todo) = "run" => todo = <<"run">>
         /\ Head(todo) = "readMd" =>
              todo \in {RecordJobs, <<"readMd", "writeMd">>,
                        <<"readMd", "readSt", "writeSt", "writeMd">>}
         /\ Head(todo) = "readSt" =>
              todo \in {<<"readSt", "writeMd", "writeSt">>, <<"readSt", "writeSt", "writeMd">>,
                        <<"readSt", "writeSt">>}
         /\ Head(todo) = "writeMd" => todo \in {<<"writeMd">>, <<"writeMd", "writeSt">>}
         /\ Head(todo) = "writeSt" => todo \in {<<"writeSt">>, <<"writeSt", "writeMd">>}
  BY DEF Plans, MdPlans, StPlans, RecordJobs

\* The plans are told apart.
LEMMA PlansDiffer ==
  /\ RecordJobs \notin {<<>>, <<"readMd", "writeMd">>, <<"due">>,
                        <<"readMd", "readSt", "writeSt", "writeMd">>} \cup MdPlans \cup StPlans
  /\ {<<"due">>, <<"find">>, <<"run">>} \cap (MdPlans \cup StPlans \cup {<<>>, RecordJobs}) = {}
  /\ <<"due">> # <<"find">> /\ <<"due">> # <<"run">> /\ <<"run">> # <<"find">>
  /\ <<>> \notin MdPlans \cup StPlans
  /\ {<<"readMd", "writeMd">>, <<"readMd", "readSt", "writeSt", "writeMd">>, <<"readSt", "writeSt">>}
       \cap (MdPlans \cup StPlans \cup {<<>>, <<"due">>}) = {}
  /\ <<"due">> \notin TickPlans
  BY DEF MdPlans, StPlans, TickPlans, RecordJobs
-----------------------------------------------------------------------------
(* One operation goes on.                                                    *)

\* The operation o, which is busy, is x from now on; the flag goes with a tick that
\* is over.
Moves(o, x) ==
  /\ op' = [op EXCEPT ![o] = x]
  /\ running' = (running /\ (o \in Ticks => x # Idle))

LEMMA IdleFits == ASSUME NEW o PROVE Fits(o, Idle)
  <1>1. Idle \in Op
    BY DEF Idle, Op, Kinds
  <1>2. Idle.todo = <<>> /\ Idle.due = {} /\ Idle.kind = "none"
    BY DEF Idle
  <1>3. Planned(Idle)
    BY <1>2, PlansDiffer DEF Planned, Plans
  <1>. QED BY <1>1, <1>2, <1>3 DEF Fits, TickShape, EditShape

\* An operation with a job is busy, and its job is the first of its plan.
LEMMA DoingPlan ==
  ASSUME Shapes, NEW o \in Ops, NEW job, Doing(o, job)
  PROVE  /\ Busy(o) /\ Fits(o, op[o]) /\ op[o] \in Op
         /\ op[o].todo \in Plans /\ op[o].todo # <<>> /\ Head(op[o].todo) = job
  BY DEF Doing, Busy, Idle, Shapes, Fits, Planned

\* What Goes makes of an operation.
LEMMA GoesMoves ==
  ASSUME Shapes, running \in BOOLEAN, NEW o \in Ops, NEW new \in Op, NEW todo \in Seq(Jobs),
         Goes(o, new, todo)
  PROVE  LET x == IF todo = <<>> THEN Idle ELSE [new EXCEPT !.todo = todo]
         IN  Moves(o, x) /\ x \in Op /\ (todo # <<>> => x # Idle)
  <1>. DEFINE next == [new EXCEPT !.todo = todo]
  <1>0. next \in Op /\ next.todo = todo
    BY DEF Op
  <1>1. CASE todo = <<>>
    BY <1>1, IdleFits DEF Goes, Over, Moves, Fits
  <1>2. CASE todo # <<>>
    <2>1. next # Idle
      BY <1>0, <1>2 DEF Idle
    <2>2. op' = [op EXCEPT ![o] = next] /\ running' = running
      BY <1>2 DEF Goes
    <2>. HIDE DEF next
    <2>3. Moves(o, next)
      BY <2>1, <2>2 DEF Moves
    <2>. QED BY <1>0, <1>2, <2>1, <2>3 DEF next
  <1>. QED BY <1>1, <1>2

\* Moving on keeps the shapes, and the flag true.
LEMMA MovesKeeps ==
  ASSUME Shapes, FlagTrue, running \in BOOLEAN, NEW o \in Ops, NEW x, Busy(o), Moves(o, x),
         Fits(o, x)
  PROVE  Shapes' /\ FlagTrue' /\ running' \in BOOLEAN
  <1>1. Shapes'
    BY DEF Moves, Shapes, Fits
  <1>0. Ticks \subseteq Ops /\ op'[o] = x
    BY DEF Ops, Moves, Shapes
  <1>2. \A p \in Ticks \ {o} : Busy(p)' <=> Busy(p)
    BY <1>0 DEF Moves, Busy, Shapes
  <1>3. CASE o \in Ticks
    <2>1. running /\ \A p \in Ticks \ {o} : ~Busy(p)'
      BY <1>2, <1>3, Zenon DEF FlagTrue
    <2>2. running' <=> Busy(o)'
      BY <1>3, <2>1, <1>0 DEF Moves, Busy
    <2>. QED BY <1>1, <1>3, <2>1, <2>2 DEF FlagTrue, Moves
  <1>4. CASE o \notin Ticks
    <2>1. running' = running
      BY <1>4 DEF Moves
    <2>2. \A p \in Ticks : Busy(p)' <=> Busy(p)
      BY <1>2, <1>4
    <2>. QED BY <1>1, <2>1, <2>2 DEF FlagTrue
  <1>. QED BY <1>3, <1>4

\* A tick's list and task stay as they are.
Steady(o, x) ==
  /\ x.due \subseteq op[o].due
  /\ o \in Ticks => x.task = op[o].task /\ x # Idle

LEMMA TickIsTick ==
  ASSUME Shapes, NEW o \in Ticks, Busy(o), op[o].todo # <<"due">>
  PROVE  /\ op[o].kind = "tick" /\ op[o].todo \in TickPlans
         /\ op[o].task \in Slugs /\ op[o].task \notin op[o].due
  BY DEF Shapes, Fits, TickShape, Busy, Ops

\* A tick's next plan.
LEMMA TickPlanNext ==
  /\ RecordJobs \in TickPlans /\ <<"readSt", "writeSt">> \in TickPlans
  /\ \A todo \in TickPlans :
       /\ Head(todo) \in {"run", "readMd", "readSt", "writeMd", "writeSt"}
       /\ Head(todo) = "readMd" => todo = RecordJobs
       /\ Head(todo) = "writeSt" => todo = <<"writeSt">>
       /\ Head(todo) \in {"readMd", "readSt", "writeMd"} => Tail(todo) \in TickPlans
  BY Tails DEF TickPlans, RecordJobs

LEMMA FindMoves ==
  ASSUME Shapes, running \in BOOLEAN, NEW o \in Ops, Find(o)
  PROVE  Busy(o) /\ \E x : Moves(o, x) /\ Fits(o, x) /\ Steady(o, x)
  <1>. DEFINE todo == IF md[op[o].task] = None \/ ~hook THEN <<>> ELSE <<"run">>
              x == IF todo = <<>> THEN Idle ELSE [op[o] EXCEPT !.todo = todo]
  <1>1. Busy(o) /\ Fits(o, op[o]) /\ op[o] \in Op /\ op[o].todo = <<"find">>
    BY DoingPlan, PlanHeads DEF Find
  <1>2. o \notin Ticks
    BY <1>1, TickIsTick, PlansDiffer, TickPlanNext
  <1>3. todo \in Seq(Jobs) /\ Moves(o, x) /\ x \in Op
    <2>0. todo = <<>> \/ todo = <<"run">>
      OBVIOUS
    <2>1. todo \in Seq(Jobs)
      BY <2>0, PlansAreJobs DEF Plans
    <2>2. Goes(o, op[o], todo)
      BY DEF Find
    <2>. HIDE DEF todo
    <2>. QED BY <2>1, <2>2, <1>1, GoesMoves
  <1>4. op[o].kind # "enable" /\ o \in Edits /\ op[o].due = {}
    BY <1>1, <1>2, PlanHeads, PlansDiffer DEF Fits, Planned, EditShape, Ops
  <1>5. CASE todo = <<>>
    BY <1>1, <1>2, <1>3, <1>5, IdleFits DEF Steady, Idle
  <1>6. CASE todo # <<>>
    <2>1. /\ x.todo = <<"run">> /\ x.due = {} /\ x.kind # "enable" /\ x.task = op[o].task
      BY <1>1, <1>4, <1>6 DEF Op
    <2>2. Fits(o, x)
      <3>. HIDE DEF x
      <3>. QED BY <1>2, <1>3, <2>1, PlansDiffer DEF Fits, Planned, EditShape, Plans
    <2>. QED BY <1>1, <1>2, <1>3, <2>1, <2>2 DEF Steady
  <1>. QED BY <1>5, <1>6

\* The plan of a record, for any operation that is no set_enabled.
LEMMA AnswerMoves ==
  ASSUME Shapes, running \in BOOLEAN, NEW o \in Ops, Answer(o)
  PROVE  Busy(o) /\ \E x : Moves(o, x) /\ Fits(o, x) /\ Steady(o, x)
  <1>1. Busy(o) /\ Fits(o, op[o]) /\ op[o] \in Op /\ op[o].todo = <<"run">>
    BY DoingPlan, PlanHeads DEF Answer
  <1>2. PICK ok \in BOOLEAN : Goes(o, [op[o] EXCEPT !.ok = ok], RecordJobs)
    BY DEF Answer
  <1>. DEFINE new == [op[o] EXCEPT !.ok = ok]
              x == [new EXCEPT !.todo = RecordJobs]
  <1>3. new \in Op
    BY <1>1 DEF Op
  <1>4. RecordJobs \in Seq(Jobs) /\ RecordJobs # <<>>
    BY DEF RecordJobs, Jobs
  <1>5. Moves(o, x) /\ x \in Op /\ x # Idle
    <2>. HIDE DEF new
    <2>. QED BY <1>2, <1>3, <1>4, GoesMoves DEF new
  <1>6. /\ x.todo = RecordJobs /\ x.due = op[o].due /\ x.task = op[o].task
        /\ x.kind = op[o].kind
    BY <1>1 DEF Op
  <1>7. op[o].kind # "enable"
    BY <1>1, PlanHeads, PlansDiffer DEF Fits, Planned, Plans
  <1>. HIDE DEF x
  <1>8. Planned(x)
    BY <1>6, <1>7, PlansDiffer DEF Planned, Plans
  <1>9. o \in Ticks => TickShape(x)
    BY <1>1, <1>6, TickIsTick, TickPlanNext, PlansDiffer DEF TickShape
  <1>10. o \in Edits => EditShape(x)
    BY <1>1, <1>6, PlansDiffer DEF EditShape, Fits
  <1>. QED BY <1>1, <1>5, <1>6, <1>8, <1>9, <1>10 DEF Fits, Steady

LEMMA ReadMdMoves ==
  ASSUME TypeOK, Shapes, NEW o \in Ops, ReadMd(o)
  PROVE  Busy(o) /\ \E x : Moves(o, x) /\ Fits(o, x) /\ Steady(o, x)
  <1>. DEFINE new == [op[o] EXCEPT !.md = md]
              todo == CASE op[o].kind = "enable" /\ md[op[o].task] = None -> <<>>
                        [] op[o].todo = RecordJobs /\ ~Removes(o, md) -> <<"readSt", "writeSt">>
                        [] OTHER -> Remaining(o)
              x == IF todo = <<>> THEN Idle ELSE [new EXCEPT !.todo = todo]
  <1>1. /\ Busy(o) /\ Fits(o, op[o]) /\ op[o] \in Op
        /\ op[o].todo \in {RecordJobs, <<"readMd", "writeMd">>,
                           <<"readMd", "readSt", "writeSt", "writeMd">>}
    BY DoingPlan, PlanHeads DEF ReadMd
  <1>2. new \in Op
    BY <1>1 DEF Op, TypeOK
  <1>3. Remaining(o) \in {<<"readSt", "writeMd", "writeSt">>, <<"writeMd">>,
                          <<"readSt", "writeSt", "writeMd">>}
    BY <1>1, Tails DEF Remaining
  <1>4. \/ todo = <<>> /\ op[o].kind = "enable"
        \/ todo = <<"readSt", "writeSt">> /\ op[o].kind # "enable"
        \/ todo = Remaining(o) /\ (op[o].kind = "enable" => md[op[o].task] # None)
    <2>1. op[o].todo = RecordJobs => op[o].kind # "enable"
      BY <1>1, PlansDiffer DEF Fits, Planned, MdPlans
    <2>2. CASE op[o].kind = "enable" /\ md[op[o].task] = None
      BY <2>1, <2>2
    <2>3. CASE ~(op[o].kind = "enable" /\ md[op[o].task] = None)
      <3>1. CASE op[o].todo = RecordJobs /\ ~Removes(o, md)
        BY <2>1, <2>3, <3>1
      <3>2. CASE ~(op[o].todo = RecordJobs /\ ~Removes(o, md))
        BY <2>3, <3>2
      <3>. QED BY <3>1, <3>2
    <2>. QED BY <2>2, <2>3
  <1>5. todo \in Seq(Jobs) /\ (todo = <<>> \/ todo \in Plans)
    BY <1>3, <1>4, PlansAreJobs DEF Plans, MdPlans
  <1>6. Goes(o, new, todo)
    BY DEF ReadMd
  <1>7. Moves(o, x) /\ x \in Op /\ (todo # <<>> => x # Idle)
    <2>. HIDE DEF new, todo
    <2>. QED BY <1>2, <1>5, <1>6, GoesMoves DEF TypeOK
  <1>8. CASE todo = <<>>
    <2>1. o \notin Ticks
      BY <1>1, <1>4, <1>8, <1>3, PlansDiffer, TickIsTick DEF MdPlans
    <2>. QED BY <1>1, <1>7, <1>8, <2>1, IdleFits DEF Steady, Idle
  <1>9. CASE todo # <<>>
    <2>1. /\ x.todo = todo /\ x.due = op[o].due /\ x.task = op[o].task /\ x.md = md
          /\ x.kind = op[o].kind /\ x.section = op[o].section
      <3>. HIDE DEF todo
      <3>. QED BY <1>1, <1>9 DEF Op
    <2>2. Planned(x)
      <3>1. todo \in Plans /\ todo \notin StPlans /\ md \in Markdown
        <4>1. todo \in {<<"readSt", "writeSt">>, <<"readSt", "writeMd", "writeSt">>,
                        <<"writeMd">>, <<"readSt", "writeSt", "writeMd">>}
          BY <1>3, <1>4, <1>9
        <4>. HIDE DEF todo
        <4>2. todo \in Plans
          BY <4>1 DEF Plans, MdPlans
        <4>3. todo \notin StPlans
          BY <4>1 DEF StPlans
        <4>. QED BY <4>2, <4>3 DEF TypeOK
      <3>2. op[o].kind = "enable" =>
              /\ op[o].section \in Section /\ op[o].task \in Slugs
              /\ todo = <<"writeMd">> /\ md[op[o].task] # None
        BY <1>1, <1>3, <1>4, <1>9, Tails, PlansDiffer DEF Fits, Planned, Remaining
      <3>. HIDE DEF todo, x
      <3>. QED BY <2>1, <3>1, <3>2 DEF Planned
    <2>3. o \in Ticks => TickShape(x)
      <3>. SUFFICES ASSUME o \in Ticks PROVE TickShape(x)
        OBVIOUS
      <3>1. /\ op[o].kind = "tick" /\ op[o].todo \in TickPlans
            /\ op[o].task \in Slugs /\ op[o].task \notin op[o].due
        BY <1>1, PlansDiffer, TickIsTick DEF MdPlans
      <3>2. todo \in TickPlans
        <4>1. Head(op[o].todo) = "readMd"
          BY DEF ReadMd, Doing
        <4>. QED BY <1>4, <1>9, <3>1, <4>1, TickPlanNext DEF Remaining
      <3>. HIDE DEF todo, x
      <3>. QED BY <2>1, <3>1, <3>2 DEF TickShape
    <2>4. o \in Edits => EditShape(x)
      <3>1. todo # <<"due">>
        BY <1>3, <1>4, PlansDiffer DEF MdPlans
      <3>. HIDE DEF todo, x
      <3>. QED BY <1>1, <2>1, <3>1 DEF EditShape, Fits
    <2>. HIDE DEF x, todo
    <2>. QED BY <1>1, <1>7, <1>9, <2>1, <2>2, <2>3, <2>4 DEF Fits, Steady
  <1>. QED BY <1>8, <1>9

LEMMA ReadStMoves ==
  ASSUME TypeOK, Shapes, NEW o \in Ops, ReadSt(o)
  PROVE  Busy(o) /\ \E x : Moves(o, x) /\ Fits(o, x) /\ Steady(o, x)
  <1>. DEFINE new == [op[o] EXCEPT !.st = st]
              todo == Remaining(o)
              x == [new EXCEPT !.todo = todo]
  <1>1. /\ Busy(o) /\ Fits(o, op[o]) /\ op[o] \in Op
        /\ op[o].todo \in {<<"readSt", "writeMd", "writeSt">>, <<"readSt", "writeSt">>,
                           <<"readSt", "writeSt", "writeMd">>}
    BY DoingPlan, PlanHeads DEF ReadSt
  <1>2. new \in Op
    BY <1>1 DEF Op, TypeOK
  <1>3. /\ todo \in {<<"writeMd", "writeSt">>, <<"writeSt", "writeMd">>, <<"writeSt">>}
        /\ todo \in MdPlans => op[o].todo \in MdPlans
    <2>1. <<"writeSt">> \notin MdPlans
      BY DEF MdPlans
    <2>. QED BY <1>1, <2>1, Tails DEF Remaining, MdPlans
  <1>4. todo \in StPlans /\ todo \in Plans /\ todo \in Seq(Jobs) /\ todo # <<>>
    BY <1>3, PlansAreJobs, PlansDiffer DEF StPlans, Plans
  <1>5. Goes(o, new, todo)
    BY DEF ReadSt
  <1>6. Moves(o, x) /\ x \in Op /\ x # Idle
    <2>. HIDE DEF new, todo
    <2>. QED BY <1>2, <1>4, <1>5, GoesMoves DEF TypeOK
  <1>7. /\ x.todo = todo /\ x.due = op[o].due /\ x.task = op[o].task /\ x.st = st
        /\ x.kind = op[o].kind /\ x.md = op[o].md
    <2>. HIDE DEF todo
    <2>. QED BY <1>1 DEF Op
  <1>8. op[o].kind # "enable"
    <2>1. op[o].todo \notin {<<"readMd", "writeMd">>, <<"writeMd">>}
      BY <1>1
    <2>. QED BY <1>1, <2>1 DEF Fits, Planned
  <1>. HIDE DEF x, todo
  <1>9. Planned(x)
    BY <1>1, <1>3, <1>4, <1>7, <1>8 DEF Planned, Fits, TypeOK
  <1>10. o \in Ticks => TickShape(x)
    <2>. SUFFICES ASSUME o \in Ticks PROVE TickShape(x)
      OBVIOUS
    <2>1. op[o].todo # <<"due">> /\ Head(op[o].todo) = "readSt"
      BY <1>1 DEF ReadSt, Doing
    <2>2. /\ op[o].kind = "tick" /\ op[o].todo \in TickPlans
          /\ op[o].task \in Slugs /\ op[o].task \notin op[o].due
      BY <1>1, <2>1, TickIsTick
    <2>3. todo \in TickPlans
      BY <2>1, <2>2, TickPlanNext DEF Remaining, todo
    <2>. QED BY <1>7, <2>2, <2>3 DEF TickShape
  <1>11. o \in Edits => EditShape(x)
    BY <1>1, <1>3, <1>7 DEF EditShape, Fits
  <1>. QED BY <1>1, <1>6, <1>7, <1>9, <1>10, <1>11 DEF Fits, Steady

LEMMA WriteMdMoves ==
  ASSUME TypeOK, Shapes, NEW o \in Ops, WriteMd(o)
  PROVE  /\ Busy(o) /\ md' \in Markdown
         /\ \E x : Moves(o, x) /\ Fits(o, x) /\ Steady(o, x)
  <1>. DEFINE todo == Remaining(o)
              x == IF todo = <<>> THEN Idle ELSE [op[o] EXCEPT !.todo = todo]
  <1>1. /\ Busy(o) /\ Fits(o, op[o]) /\ op[o] \in Op
        /\ op[o].todo \in {<<"writeMd">>, <<"writeMd", "writeSt">>}
    BY DoingPlan, PlanHeads DEF WriteMd
  <1>2. \/ todo = <<>> /\ op[o].todo = <<"writeMd">>
        \/ todo = <<"writeSt">> /\ op[o].todo = <<"writeMd", "writeSt">>
    BY <1>1, Tails DEF Remaining
  <1>3. todo \in Seq(Jobs)
    BY <1>2, PlansAreJobs DEF Plans, StPlans
  <1>4. Goes(o, op[o], todo)
    BY DEF WriteMd
  <1>5. Moves(o, x) /\ x \in Op /\ (todo # <<>> => x # Idle)
    <2>. HIDE DEF todo
    <2>. QED BY <1>1, <1>3, <1>4, GoesMoves DEF TypeOK
  <1>6. op[o].md \in Markdown
    BY <1>1 DEF Fits, Planned, MdPlans
  <1>7. md' \in Markdown
    <2>. DEFINE t == op[o].task
    <2>0. md' = EditedMd(o) /\ op[o].section \in Section \cup {None}
      BY <1>1 DEF WriteMd, Op
    <2>1. CASE op[o].kind = "upsert"
      <3>1. md' = [op[o].md EXCEPT ![t] = op[o].section]
        BY <2>0, <2>1 DEF EditedMd
      <3>. QED BY <1>6, <2>0, <3>1 DEF Markdown
    <2>2. CASE op[o].kind = "enable"
      <3>1. md' = [op[o].md EXCEPT ![t] = [op[o].md[t] EXCEPT !.enabled = op[o].section.enabled]]
        BY <2>0, <2>2 DEF EditedMd
      <3>2. op[o].section \in Section /\ t \in Slugs /\ op[o].md[t] \in Section
        <4>1. op[o].todo = <<"writeMd">>
          <5>1. <<"writeMd", "writeSt">> \notin {<<"readMd", "writeMd">>, <<"writeMd">>}
            OBVIOUS
          <5>. QED BY <1>1, <2>2, <5>1 DEF Fits, Planned
        <4>2. op[o].md[t] # None /\ t \in Slugs /\ op[o].section \in Section
          BY <1>1, <2>2, <4>1 DEF Fits, Planned
        <4>. QED BY <4>2, <1>6 DEF Markdown
      <3>3. [op[o].md[t] EXCEPT !.enabled = op[o].section.enabled] \in Section
        BY <3>2 DEF Section
      <3>. QED BY <1>6, <3>1, <3>3 DEF Markdown
    <2>3. CASE op[o].kind \notin {"upsert", "enable"}
      <3>1. md' = [op[o].md EXCEPT ![t] = None]
        BY <2>0, <2>3 DEF EditedMd
      <3>. QED BY <1>6, <3>1 DEF Markdown
    <2>. QED BY <2>1, <2>2, <2>3
  <1>8. CASE todo = <<>>
    <2>1. o \notin Ticks
      <3>1. <<"writeMd">> \notin TickPlans /\ <<"writeMd">> # <<"due">>
        BY DEF TickPlans, RecordJobs
      <3>2. op[o].todo = <<"writeMd">>
        BY <1>2, <1>8
      <3>. QED BY <1>1, <3>1, <3>2, TickIsTick
    <2>. QED BY <1>1, <1>5, <1>7, <1>8, <2>1, IdleFits DEF Steady, Idle
  <1>9. CASE todo # <<>>
    <2>1. todo = <<"writeSt">> /\ op[o].todo = <<"writeMd", "writeSt">>
      BY <1>2, <1>9
    <2>2. /\ x.todo = <<"writeSt">> /\ x.due = op[o].due /\ x.task = op[o].task
          /\ x.kind = op[o].kind /\ x.st = op[o].st
      <3>. HIDE DEF todo
      <3>. QED BY <1>1, <1>9, <2>1 DEF Op
    <2>3. Planned(x)
      <3>1. /\ <<"writeSt">> \in StPlans /\ <<"writeSt">> \in Plans /\ <<"writeSt">> \notin MdPlans
            /\ <<"writeMd", "writeSt">> \in StPlans
            /\ <<"writeMd", "writeSt">> \notin {<<"readMd", "writeMd">>, <<"writeMd">>}
        BY DEF StPlans, Plans, MdPlans
      <3>2. op[o].kind # "enable" /\ op[o].st \in States
        BY <1>1, <2>1, <3>1 DEF Fits, Planned
      <3>. HIDE DEF x, todo
      <3>. QED BY <2>2, <3>1, <3>2 DEF Planned
    <2>4. o \in Ticks => TickShape(x)
      <3>1. <<"writeMd", "writeSt">> # <<"due">> /\ <<"writeSt">> \in TickPlans
        BY DEF TickPlans
      <3>. HIDE DEF x, todo
      <3>. QED BY <1>1, <2>1, <2>2, <3>1, TickIsTick DEF TickShape
    <2>5. o \in Edits => EditShape(x)
      <3>. HIDE DEF x, todo
      <3>. QED BY <1>1, <2>2 DEF EditShape, Fits
    <2>. HIDE DEF x, todo
    <2>. QED BY <1>1, <1>5, <1>7, <1>9, <2>2, <2>3, <2>4, <2>5 DEF Fits, Steady
  <1>. QED BY <1>8, <1>9

-----------------------------------------------------------------------------
(* A tick begins a task.                                                     *)

\* While a tick is busy the others have neither a task nor a list.
LEMMA OthersIdle ==
  ASSUME Shapes, FlagTrue, NEW o \in Ticks, Busy(o), NEW x, Moves(o, x)
  PROVE  \A p \in Ticks : IF p = o THEN op'[p] = x
                          ELSE op'[p] = Idle /\ op'[p].due = {} /\ op'[p].task = None
  <1>1. Ticks \subseteq Ops
    BY DEF Ops
  <1>2. op'[o] = x /\ \A p \in Ticks \ {o} : op'[p] = op[p] /\ ~Busy(p)
    BY <1>1 DEF Moves, Shapes, FlagTrue
  <1>3. \A p \in Ticks \ {o} : op'[p] = Idle
    BY <1>2 DEF Busy
  <1>4. Idle.due = {} /\ Idle.task = None
    BY DEF Idle
  <1>. QED BY <1>2, <1>3, <1>4

\* The tick is over, or takes a task off its list.
LEMMA RunNextMoves ==
  ASSUME Shapes, running \in BOOLEAN, NEW o \in Ticks, NEW list \in SUBSET Slugs, NEW begun,
         RunNext(o, list, begun)
  PROVE  \E x : /\ Moves(o, x) /\ Fits(o, x)
                /\ \/ x = Idle /\ late' = late /\ ran' = begun
                   \/ \E t \in list :
                        /\ x.task = t /\ x.due = list \ {t}
                        /\ late' = [late EXCEPT ![t] = IF Enabled(t) THEN 0 ELSE @ + 1]
                        /\ ran' = [begun EXCEPT ![t] = IF InMinute(t) THEN @ + 1 ELSE @]
  <1>1. CASE list = {} \/ ~hook
    <2>1. Over(o) /\ late' = late /\ ran' = begun
      BY <1>1 DEF RunNext
    <2>. QED BY <2>1, IdleFits DEF Over, Moves
  <1>2. CASE ~(list = {} \/ ~hook)
    <2>1. PICK t \in FirstOf(list) :
            /\ op' = [op EXCEPT ![o] = [Idle EXCEPT !.kind = "tick", !.task = t,
                                                    !.due = list \ {t}, !.todo = <<"run">>]]
            /\ late' = [late EXCEPT ![t] = IF Enabled(t) THEN 0 ELSE @ + 1]
            /\ ran' = [begun EXCEPT ![t] = IF InMinute(t) THEN @ + 1 ELSE @]
            /\ running' = running
      BY <1>2 DEF RunNext
    <2>2. t \in list /\ t \in Slugs
      BY DEF FirstOf
    <2>. DEFINE x == [Idle EXCEPT !.kind = "tick", !.task = t,
                                  !.due = list \ {t}, !.todo = <<"run">>]
    <2>3. /\ x.kind = "tick" /\ x.task = t /\ x.due = list \ {t} /\ x.todo = <<"run">>
          /\ x # Idle
      BY DEF Idle
    <2>4. x \in Op
      <3>1. <<"run">> \in Seq(Jobs)
        BY DEF Jobs
      <3>. QED BY <2>2, <3>1 DEF Idle, Op, Kinds
    <2>5. op' = [op EXCEPT ![o] = x] /\ running' = running
      BY <2>1
    <2>. HIDE DEF x
    <2>6. Fits(o, x)
      <3>1. Planned(x)
        BY <2>3, PlansDiffer DEF Planned, Plans
      <3>2. TickShape(x)
        BY <2>2, <2>3 DEF TickShape, TickPlans
      <3>3. o \notin Edits
        BY OpAssumption
      <3>. QED BY <2>4, <3>1, <3>2, <3>3 DEF Fits
    <2>7. Moves(o, x)
      BY <2>3, <2>5 DEF Moves
    <2>. QED BY <2>1, <2>2, <2>3, <2>6, <2>7
  <1>. QED BY <1>1, <1>2

\* What the lists promise survives the beginning of a task: nothing on the new list
\* has been begun late, nor this minute.
LEMMA RunNextKeeps ==
  ASSUME TypeOK, Shapes, FlagTrue, LateInv, md' = md,
         NEW o \in Ticks, Busy(o), NEW list \in SUBSET Slugs,
         \A t \in list : late[t] = 0,
         NEW begun \in [Slugs -> Nat],
         ~stale' => \A t \in Slugs :
           /\ begun[t] <= 1
           /\ begun[t] > 0 => Schedule[t].kind = "cron" /\ Recorded(t)'
           /\ t \in list => begun[t] = 0,
         RunNext(o, list, begun)
  PROVE  /\ Shapes' /\ FlagTrue' /\ running' \in BOOLEAN /\ op' \in [Ops -> Op]
         /\ late' \in [Slugs -> Nat] /\ ran' \in [Slugs -> Nat]
         /\ LateInv' /\ CronInv'
  <1>0. o \in Ops /\ late \in [Slugs -> Nat] /\ running \in BOOLEAN
    BY DEF TypeOK, Ops
  <1>1. PICK x :
          /\ Moves(o, x) /\ Fits(o, x)
          /\ \/ x = Idle /\ late' = late /\ ran' = begun
             \/ \E t \in list :
                  /\ x.task = t /\ x.due = list \ {t}
                  /\ late' = [late EXCEPT ![t] = IF Enabled(t) THEN 0 ELSE @ + 1]
                  /\ ran' = [begun EXCEPT ![t] = IF InMinute(t) THEN @ + 1 ELSE @]
    BY <1>0, RunNextMoves
  <1>2. Shapes' /\ FlagTrue' /\ running' \in BOOLEAN
    BY <1>0, <1>1, MovesKeeps
  <1>3. \A p \in Ticks : IF p = o THEN op'[p] = x
                         ELSE op'[p] = Idle /\ op'[p].due = {} /\ op'[p].task = None
    BY <1>1, OthersIdle
  <1>4. \A t \in Slugs : Enabled(t)' <=> Enabled(t)
    BY DEF Enabled
  <1>5. CASE x = Idle /\ late' = late /\ ran' = begun
    <2>1. \A p \in Ticks : op'[p].due = {}
      BY <1>3, <1>5 DEF Idle
    <2>2. LateInv'
      BY <1>4, <1>5, <2>1 DEF LateInv
    <2>3. CronInv'
      BY <1>5, <2>1 DEF CronInv, Once
    <2>. QED BY <1>0, <1>2, <1>5, <2>2, <2>3 DEF Shapes
  <1>6. CASE \E t \in list :
               /\ x.task = t /\ x.due = list \ {t}
               /\ late' = [late EXCEPT ![t] = IF Enabled(t) THEN 0 ELSE @ + 1]
               /\ ran' = [begun EXCEPT ![t] = IF InMinute(t) THEN @ + 1 ELSE @]
    <2>1. PICK t \in list :
               /\ x.task = t /\ x.due = list \ {t}
               /\ late' = [late EXCEPT ![t] = IF Enabled(t) THEN 0 ELSE @ + 1]
               /\ ran' = [begun EXCEPT ![t] = IF InMinute(t) THEN @ + 1 ELSE @]
      BY <1>6
    <2>2. t \in Slugs /\ late[t] = 0
      OBVIOUS
    <2>3. /\ late'[t] = IF Enabled(t) THEN 0 ELSE 1
          /\ \A s \in Slugs \ {t} : late'[s] = late[s]
          /\ late' \in [Slugs -> Nat]
      <3>. HIDE DEF Enabled
      <3>1. late'[t] = IF Enabled(t) THEN 0 ELSE late[t] + 1
        BY <1>0, <2>1, <2>2
      <3>. QED BY <1>0, <2>1, <2>2, <3>1
    <2>4. /\ ran'[t] = IF InMinute(t) THEN begun[t] + 1 ELSE begun[t]
          /\ \A s \in Slugs \ {t} : ran'[s] = begun[s]
          /\ ran' \in [Slugs -> Nat]
      BY <2>1, <2>2
    <2>5. \A p \in Ticks : \A s \in op'[p].due : s \in list \ {t}
      BY <1>3, <2>1
    <2>6. LateInv'
      <3>. SUFFICES ASSUME NEW s \in Slugs
                    PROVE  /\ late'[s] <= 1
                           /\ late'[s] > 0 => ~Enabled(s)'
                           /\ \A p \in Ticks : s \in op'[p].due => late'[s] = 0
        BY DEF LateInv
      <3>1. CASE s = t
        <4>1. \A p \in Ticks : s \notin op'[p].due
          BY <2>5, <3>1
        <4>2. late'[s] = IF Enabled(s)' THEN 0 ELSE 1
          BY <1>4, <2>3, <3>1
        <4>. HIDE DEF Enabled
        <4>. QED BY <4>1, <4>2
      <3>2. CASE s # t
        <4>1. late'[s] = late[s] /\ late[s] <= 1 /\ (late[s] > 0 => ~Enabled(s)')
          BY <1>4, <2>3, <3>2 DEF LateInv
        <4>. QED BY <2>5, <4>1
      <3>. QED BY <3>1, <3>2
    <2>7. CronInv'
      <3>. SUFFICES ASSUME ~stale', NEW s \in Slugs PROVE Once(s)'
        BY DEF CronInv
      <3>0. /\ begun[s] <= 1 /\ begun[s] \in Nat
            /\ begun[s] > 0 => Schedule[s].kind = "cron" /\ Recorded(s)'
            /\ s \in list => begun[s] = 0
        OBVIOUS
      <3>1. CASE s = t
        <4>1. \A p \in Ticks : s \notin op'[p].due
          BY <2>5, <3>1
        <4>2. UnderWay(s)'
          BY <1>3, <2>1, <3>1 DEF UnderWay
        <4>3. ran'[s] = IF InMinute(s) THEN 1 ELSE 0
          BY <2>4, <3>0, <3>1
        <4>. QED BY <4>1, <4>2, <4>3 DEF Once, InMinute
      <3>2. CASE s # t
        <4>1. ran'[s] = begun[s]
          BY <2>4, <3>2
        <4>2. \A p \in Ticks : s \in op'[p].due => begun[s] = 0
          BY <2>5, <3>0
        <4>. QED BY <3>0, <4>1, <4>2 DEF Once
      <3>. QED BY <3>1, <3>2
    <2>. QED BY <1>2, <2>3, <2>4, <2>6, <2>7 DEF Shapes
  <1>. QED BY <1>1, <1>5, <1>6

\* The list is read: a task that is enabled has not been begun late, and a cron task
\* that was begun this minute is not due, for no other tick is under way.
LEMMA ReadDueKeeps ==
  ASSUME IInv, NEW o \in Ops, ReadDue(o)
  PROVE  IInv'
  <1>. USE DEF IInv
  <1>1. Busy(o) /\ Fits(o, op[o]) /\ op[o].todo = <<"due">>
    BY DoingPlan, PlanHeads DEF ReadDue
  <1>2. o \in Ticks
    BY <1>1 DEF Fits, EditShape, Ops
  <1>3. op[o].task = None
    BY <1>1, <1>2, PlansDiffer DEF Fits, TickShape, Busy
  <1>4. /\ RunNext(o, GetDueTasks, ran)
        /\ md' = md /\ st' = st /\ edits' = edits /\ timer' = timer /\ domain' = domain
        /\ hook' = hook /\ entry' = entry /\ clock' = clock /\ stale' = stale
    BY DEF ReadDue, fileVars, lifeVars
  <1>5. GetDueTasks \in SUBSET Slugs /\ \A t \in GetDueTasks : late[t] = 0
    BY DEF GetDueTasks, LateInv, TypeOK
  <1>6. \A t \in Slugs : ~UnderWay(t)
    <2>1. \A p \in Ticks : op[p].task = None
      BY <1>1, <1>2, <1>3 DEF FlagTrue, Busy, Idle
    <2>. QED BY <2>1, NoneAssumption DEF UnderWay
  <1>7. ASSUME ~stale', NEW t \in Slugs
        PROVE  /\ ran[t] <= 1
               /\ ran[t] > 0 => Schedule[t].kind = "cron" /\ Recorded(t)'
               /\ t \in GetDueTasks => ran[t] = 0
    <2>1. Once(t)
      BY <1>4, <1>7 DEF CronInv
    <2>2. ran[t] > 0 => Schedule[t].kind = "cron" /\ Recorded(t)
      BY <1>6, <2>1 DEF Once
    <2>3. Recorded(t) => Checked(t, Minute)
      <3>1. clock.tick \in 0..Minute - 1 /\ Minute \in Nat /\ st[t] \in 0..MaxAge \cup {None}
            /\ MaxAge \in Nat
        BY TimeAssumption DEF TypeOK, States
      <3>. QED BY <3>1 DEF Recorded, Checked
    <2>4. t \in GetDueTasks => ran[t] = 0
      BY <2>2, <2>3 DEF GetDueTasks, NextDue, TypeOK
    <2>. QED BY <1>4, <2>1, <2>2, <2>4 DEF Once, Recorded
  <1>8. /\ Shapes' /\ FlagTrue' /\ running' \in BOOLEAN /\ op' \in [Ops -> Op]
        /\ late' \in [Slugs -> Nat] /\ ran' \in [Slugs -> Nat]
        /\ LateInv' /\ CronInv'
    <2>1. ran \in [Slugs -> Nat]
      BY DEF TypeOK
    <2>. HIDE DEF IInv
    <2>2. TypeOK /\ Shapes /\ FlagTrue /\ LateInv
      BY DEF IInv
    <2>. QED BY <1>1, <1>2, <1>4, <1>5, <1>7, <2>1, <2>2, RunNextKeeps
  <1>9. TypeOK'
    BY <1>4, <1>8 DEF TypeOK
  <1>10. RuntimeKeyStays'
    BY <1>4 DEF RuntimeKeyStays
  <1>. QED BY <1>8, <1>9, <1>10

-----------------------------------------------------------------------------
(* The state file is written.                                                *)

\* The copy of the state is written with the result: of a copy that is not stale, only
\* what was just run changes, or is cleared.
LEMMA WriteStState ==
  ASSUME IInv, NEW o \in Ops, WriteSt(o)
  PROVE  /\ st' \in States
         /\ ~stale' =>
              \A t \in Slugs : (st'[t] = None \/ st'[t] = 0) \/ (st'[t] = st[t] /\ t # op[o].task)
  <1>1. /\ Busy(o) /\ Fits(o, op[o]) /\ op[o] \in Op
        /\ op[o].todo \in {<<"writeSt">>, <<"writeSt", "writeMd">>}
    BY DoingPlan, PlanHeads DEF WriteSt, IInv
  <1>2. op[o].st \in States
    BY <1>1 DEF Fits, Planned, StPlans
  <1>3. st' = EditedSt(o) /\ stale' = (stale \/ op[o].st # st)
    BY DEF WriteSt
  <1>4. 0 \in 0..MaxAge
    BY TimeAssumption
  <1>5. CASE op[o].kind = "clear" /\ op[o].task = None
    <2>1. st' = [t \in Slugs |-> None]
      BY <1>3, <1>5 DEF EditedSt
    <2>. QED BY <1>5, <2>1 DEF States
  <1>6. CASE ~(op[o].kind = "clear" /\ op[o].task = None)
    <2>. DEFINE v == IF op[o].kind \in {"clear", "delete"} \/ Removes(o, op[o].md)
                     THEN None ELSE 0
    <2>1. st' = [op[o].st EXCEPT ![op[o].task] = v]
      BY <1>3, <1>6 DEF EditedSt
    <2>2. v = None \/ v = 0
      OBVIOUS
    <2>. HIDE DEF v
    <2>. QED BY <1>2, <1>3, <1>4, <2>1, <2>2 DEF States
  <1>. QED BY <1>5, <1>6

LEMMA TickWritesSt ==
  ASSUME IInv, NEW o \in Ticks, WriteSt(o)
  PROVE  IInv'
  <1>0. TypeOK /\ Shapes /\ FlagTrue /\ LateInv /\ CronInv /\ o \in Ops
    BY DEF IInv, Ops
  <1>1. /\ Busy(o) /\ Fits(o, op[o]) /\ op[o] \in Op
        /\ op[o].todo \in {<<"writeSt">>, <<"writeSt", "writeMd">>}
    BY <1>0, DoingPlan, PlanHeads DEF WriteSt
  <1>2. op[o].task \in Slugs /\ op[o].task \notin op[o].due /\ op[o].due \subseteq Slugs
    <2>1. op[o].todo # <<"due">>
      BY <1>1
    <2>. QED BY <1>0, <1>1, <2>1, TickIsTick DEF Op
  <1>. DEFINE begun == [t \in Slugs |-> IF st'[t] = None THEN 0 ELSE ran[t]]
  <1>3. /\ RunNext(o, op[o].due, begun)
        /\ stale' = (stale \/ op[o].st # st)
        /\ md' = md /\ edits' = edits /\ timer' = timer /\ domain' = domain
        /\ hook' = hook /\ entry' = entry /\ clock' = clock
    BY DEF WriteSt, lifeVars
  <1>4. /\ st' \in States
        /\ ~stale' =>
             \A t \in Slugs : (st'[t] = None \/ st'[t] = 0) \/ (st'[t] = st[t] /\ t # op[o].task)
    BY <1>0, WriteStState
  <1>5. ran \in [Slugs -> Nat] /\ begun \in [Slugs -> Nat]
    BY <1>0 DEF TypeOK
  <1>6. \A t \in op[o].due : late[t] = 0
    BY <1>0, <1>2 DEF LateInv
  <1>7. \A p \in Ticks : p # o => op[p].task = None
    BY <1>0, <1>1 DEF FlagTrue, Busy, Idle
  <1>8. ASSUME ~stale', NEW t \in Slugs
        PROVE  /\ begun[t] <= 1
               /\ begun[t] > 0 => Schedule[t].kind = "cron" /\ Recorded(t)'
               /\ t \in op[o].due => begun[t] = 0
    <2>1. Once(t)
      BY <1>0, <1>3, <1>8 DEF CronInv
    <2>2. begun[t] = IF st'[t] = None THEN 0 ELSE ran[t]
      OBVIOUS
    <2>3. t \in op[o].due => ran[t] = 0
      BY <2>1 DEF Once
    <2>4. ASSUME begun[t] > 0 PROVE Schedule[t].kind = "cron" /\ Recorded(t)'
      <3>1. st'[t] # None /\ ran[t] > 0
        BY <2>2, <2>4
      <3>2. Schedule[t].kind = "cron" /\ (Recorded(t) \/ UnderWay(t))
        BY <2>1, <3>1 DEF Once
      <3>3. CASE st'[t] = 0
        <4>1. clock' = clock /\ clock.tick \in Nat
          BY <1>0, <1>3 DEF TypeOK
        <4>. QED BY <3>1, <3>2, <3>3, <4>1 DEF Recorded
      <3>4. CASE st'[t] = st[t] /\ t # op[o].task
        <4>1. ~UnderWay(t)
          BY <1>7, <3>4, NoneAssumption DEF UnderWay
        <4>. QED BY <1>3, <3>1, <3>2, <3>4, <4>1 DEF Recorded
      <3>. QED BY <1>4, <1>8, <3>1, <3>3, <3>4
    <2>. QED BY <2>1, <2>2, <2>3, <2>4 DEF Once
  <1>9. /\ Shapes' /\ FlagTrue' /\ running' \in BOOLEAN /\ op' \in [Ops -> Op]
        /\ late' \in [Slugs -> Nat] /\ ran' \in [Slugs -> Nat]
        /\ LateInv' /\ CronInv'
    <2>. HIDE DEF begun
    <2>. QED BY <1>0, <1>1, <1>2, <1>3, <1>5, <1>6, <1>8, RunNextKeeps
  <1>10. TypeOK'
    <2>1. stale' \in BOOLEAN
      BY <1>0, <1>3 DEF TypeOK
    <2>. QED BY <1>0, <1>3, <1>4, <1>9, <2>1 DEF TypeOK
  <1>11. RuntimeKeyStays'
    BY <1>3 DEF RuntimeKeyStays, IInv
  <1>. QED BY <1>9, <1>10, <1>11 DEF IInv

LEMMA EditWritesSt ==
  ASSUME IInv, NEW o \in Ops, o \notin Ticks, WriteSt(o)
  PROVE  IInv'
  <1>0. TypeOK /\ Shapes /\ FlagTrue /\ LateInv /\ CronInv
    BY DEF IInv
  <1>1. /\ Busy(o) /\ Fits(o, op[o]) /\ op[o] \in Op
        /\ op[o].todo \in {<<"writeSt">>, <<"writeSt", "writeMd">>}
    BY <1>0, DoingPlan, PlanHeads DEF WriteSt
  <1>. DEFINE todo == Remaining(o)
              x == IF todo = <<>> THEN Idle ELSE [op[o] EXCEPT !.todo = todo]
  <1>2. \/ todo = <<>>
        \/ todo = <<"writeMd">> /\ op[o].todo = <<"writeSt", "writeMd">>
    BY <1>1, Tails DEF Remaining
  <1>3. /\ Goes(o, op[o], todo)
        /\ ran' = [t \in Slugs |-> IF st'[t] = None THEN 0 ELSE ran[t]]
        /\ stale' = (stale \/ op[o].st # st)
        /\ md' = md /\ edits' = edits /\ timer' = timer /\ domain' = domain
        /\ hook' = hook /\ entry' = entry /\ clock' = clock /\ late' = late
    BY DEF WriteSt, lifeVars
  <1>4. /\ st' \in States
        /\ ~stale' =>
             \A t \in Slugs : (st'[t] = None \/ st'[t] = 0) \/ (st'[t] = st[t] /\ t # op[o].task)
    BY WriteStState
  <1>5. Moves(o, x) /\ x \in Op /\ (todo # <<>> => x # Idle)
    <2>1. todo \in Seq(Jobs)
      BY <1>2, PlansAreJobs DEF Plans, MdPlans
    <2>. HIDE DEF todo
    <2>. QED BY <1>0, <1>1, <1>3, <2>1, GoesMoves DEF TypeOK
  <1>6. Fits(o, x)
    <2>1. CASE todo = <<>>
      BY <2>1, IdleFits
    <2>2. CASE todo # <<>>
      <3>1. /\ <<"writeSt", "writeMd">> \in MdPlans /\ <<"writeMd">> \in Plans
            /\ <<"writeMd">> \notin StPlans /\ <<"writeMd">> # <<"due">>
            /\ <<"writeSt", "writeMd">> \notin {<<"readMd", "writeMd">>, <<"writeMd">>}
        BY DEF MdPlans, StPlans, Plans
      <3>2. todo = <<"writeMd">> /\ op[o].todo = <<"writeSt", "writeMd">>
        BY <1>2, <2>2
      <3>3. /\ x.todo = <<"writeMd">> /\ x.due = op[o].due /\ x.kind = op[o].kind
            /\ x.md = op[o].md
        <4>. HIDE DEF todo
        <4>. QED BY <1>1, <2>2, <3>2 DEF Op
      <3>4. op[o].md \in Markdown /\ op[o].kind # "enable"
        BY <1>1, <3>1, <3>2 DEF Fits, Planned
      <3>. HIDE DEF x, todo
      <3>5. Planned(x)
        BY <3>1, <3>3, <3>4 DEF Planned
      <3>. QED BY <1>1, <1>5, <3>1, <3>3, <3>5 DEF Fits, EditShape
    <2>. QED BY <2>1, <2>2
  <1>. HIDE DEF x, todo
  <1>7. Shapes' /\ FlagTrue' /\ running' \in BOOLEAN
    BY <1>0, <1>1, <1>5, <1>6, MovesKeeps DEF TypeOK
  <1>8. \A p \in Ticks : op'[p] = op[p]
    BY <1>0, <1>5 DEF Moves, Shapes, Ops
  <1>9. TypeOK'
    <2>1. stale' \in BOOLEAN
      BY <1>0, <1>3 DEF TypeOK
    <2>2. ran' \in [Slugs -> Nat]
      BY <1>0, <1>3 DEF TypeOK
    <2>. QED BY <1>0, <1>3, <1>4, <1>7, <2>1, <2>2 DEF TypeOK, Shapes
  <1>10. LateInv'
    BY <1>0, <1>3, <1>8 DEF LateInv, Enabled
  <1>11. CronInv'
    <2>. SUFFICES ASSUME ~stale', NEW t \in Slugs PROVE Once(t)'
      BY DEF CronInv
    <2>1. Once(t)
      BY <1>0, <1>3 DEF CronInv
    <2>2. ran'[t] = IF st'[t] = None THEN 0 ELSE ran[t]
      BY <1>3
    <2>3. clock' = clock /\ clock.tick \in Nat
      BY <1>0, <1>3 DEF TypeOK
    <2>4. UnderWay(t)' <=> UnderWay(t)
      BY <1>8 DEF UnderWay
    <2>5. st'[t] # None => st'[t] = 0 \/ st'[t] = st[t]
      BY <1>4
    <2>6. st'[t] # None /\ Recorded(t) => Recorded(t)'
      BY <2>3, <2>5 DEF Recorded
    <2>. QED BY <1>8, <2>1, <2>2, <2>4, <2>6 DEF Once
  <1>12. RuntimeKeyStays'
    BY <1>3 DEF RuntimeKeyStays, IInv
  <1>. QED BY <1>7, <1>9, <1>10, <1>11, <1>12 DEF IInv

-----------------------------------------------------------------------------
(* The other jobs: nothing is begun, and nothing joins a list.                *)

\* When a tick keeps its task and its list gets no longer, no task is begun.
LEMMA SteadyTicks ==
  ASSUME Shapes, NEW o \in Ops, NEW x, Moves(o, x), Steady(o, x)
  PROVE  /\ \A p \in Ticks : op'[p].due \subseteq op[p].due
         /\ \A t : UnderWay(t)' <=> UnderWay(t)
  <1>1. Ticks \subseteq Ops /\ op'[o] = x /\ \A p \in Ops \ {o} : op'[p] = op[p]
    BY DEF Ops, Moves, Shapes
  <1>2. \A p \in Ticks : op'[p].due \subseteq op[p].due /\ op'[p].task = op[p].task
    BY <1>1 DEF Steady
  <1>. QED BY <1>2 DEF UnderWay

\* Finding the task of run_now, the agent's answer and the reading of a file.
LEMMA QuietJobKeeps ==
  ASSUME IInv, NEW o \in Ops, Find(o) \/ Answer(o) \/ ReadMd(o) \/ ReadSt(o)
  PROVE  IInv'
  <1>0. TypeOK /\ Shapes /\ FlagTrue /\ RuntimeKeyStays /\ LateInv /\ CronInv
        /\ running \in BOOLEAN
    BY DEF IInv, TypeOK
  <1>1. PICK x : Busy(o) /\ Moves(o, x) /\ Fits(o, x) /\ Steady(o, x)
    BY <1>0, FindMoves, AnswerMoves, ReadMdMoves, ReadStMoves
  <1>2. /\ md' = md /\ st' = st /\ edits' = edits /\ timer' = timer /\ domain' = domain
        /\ hook' = hook /\ entry' = entry /\ clock' = clock /\ late' = late
        /\ stale' = stale /\ ran' = ran
    BY DEF Find, Answer, ReadMd, ReadSt, fileVars, lifeVars
  <1>3. Shapes' /\ FlagTrue' /\ running' \in BOOLEAN
    BY <1>0, <1>1, MovesKeeps
  <1>4. /\ \A p \in Ticks : op'[p].due \subseteq op[p].due
        /\ \A t : UnderWay(t)' <=> UnderWay(t)
    BY <1>0, <1>1, SteadyTicks
  <1>5. TypeOK'
    BY <1>0, <1>2, <1>3 DEF TypeOK, Shapes
  <1>6. LateInv'
    BY <1>0, <1>2, <1>4 DEF LateInv, Enabled
  <1>7. CronInv'
    <2>1. \A t \in Slugs : Recorded(t)' <=> Recorded(t)
      BY <1>2 DEF Recorded
    <2>2. \A t \in Slugs : Once(t) => Once(t)'
      BY <1>2, <1>4, <2>1 DEF Once
    <2>. QED BY <1>0, <1>2, <2>2 DEF CronInv
  <1>8. RuntimeKeyStays'
    BY <1>0, <1>2 DEF RuntimeKeyStays
  <1>. QED BY <1>3, <1>5, <1>6, <1>7, <1>8 DEF IInv

\* The markdown is written: a task that is there again may be begun again.
LEMMA WriteMdKeeps ==
  ASSUME IInv, NEW o \in Ops, WriteMd(o)
  PROVE  IInv'
  <1>0. TypeOK /\ Shapes /\ FlagTrue /\ RuntimeKeyStays /\ LateInv /\ CronInv
        /\ running \in BOOLEAN /\ stale \in BOOLEAN
    BY DEF IInv, TypeOK
  <1>1. PICK x : Busy(o) /\ Moves(o, x) /\ Fits(o, x) /\ Steady(o, x)
    BY <1>0, WriteMdMoves
  <1>2. /\ st' = st /\ edits' = edits /\ timer' = timer /\ domain' = domain
        /\ hook' = hook /\ entry' = entry /\ clock' = clock
        /\ stale' = (stale \/ op[o].md # md) /\ ran' = ran /\ md' \in Markdown
        /\ late' = [t \in Slugs |-> IF md'[t] # None /\ md'[t].enabled THEN 0 ELSE late[t]]
    BY <1>0, WriteMdMoves DEF WriteMd, lifeVars
  <1>3. Shapes' /\ FlagTrue' /\ running' \in BOOLEAN
    BY <1>0, <1>1, MovesKeeps
  <1>4. /\ \A p \in Ticks : op'[p].due \subseteq op[p].due
        /\ \A t : UnderWay(t)' <=> UnderWay(t)
    BY <1>0, <1>1, SteadyTicks
  <1>5. TypeOK'
    <2>1. late' \in [Slugs -> Nat]
      BY <1>0, <1>2 DEF TypeOK
    <2>2. stale' \in BOOLEAN
      BY <1>2
    <2>. QED BY <1>0, <1>2, <1>3, <2>1, <2>2 DEF TypeOK, Shapes
  <1>6. LateInv'
    <2>. SUFFICES ASSUME NEW t \in Slugs
                  PROVE  /\ late'[t] <= 1
                         /\ late'[t] > 0 => ~Enabled(t)'
                         /\ \A p \in Ticks : t \in op'[p].due => late'[t] = 0
      BY DEF LateInv
    <2>1. late'[t] = IF Enabled(t)' THEN 0 ELSE late[t]
      BY <1>2 DEF Enabled
    <2>2. late[t] <= 1 /\ \A p \in Ticks : t \in op'[p].due => late[t] = 0
      BY <1>0, <1>4 DEF LateInv
    <2>. HIDE DEF Enabled
    <2>. QED BY <2>1, <2>2
  <1>7. CronInv'
    <2>1. \A t \in Slugs : Recorded(t)' <=> Recorded(t)
      BY <1>2 DEF Recorded
    <2>2. \A t \in Slugs : Once(t) => Once(t)'
      BY <1>2, <1>4, <2>1 DEF Once
    <2>3. ~stale' => ~stale
      BY <1>2
    <2>. QED BY <1>0, <2>2, <2>3 DEF CronInv
  <1>8. RuntimeKeyStays'
    BY <1>0, <1>2 DEF RuntimeKeyStays
  <1>. QED BY <1>3, <1>5, <1>6, <1>7, <1>8 DEF IInv

-----------------------------------------------------------------------------
(* The steps between the jobs.                                               *)

\* An idle operation starts as x.
LEMMA StartKeeps ==
  ASSUME IInv, NEW o \in Ops, o \notin Ticks, NEW x, Fits(o, x), x.due = {},
         op' = [op EXCEPT ![o] = x]
  PROVE  /\ Shapes' /\ (running' = running => FlagTrue')
         /\ \A p \in Ticks : op'[p] = op[p]
  <1>1. Shapes'
    BY DEF IInv, Shapes, Fits
  <1>2. \A p \in Ticks : op'[p] = op[p]
    BY DEF IInv, Shapes, Ops
  <1>3. ASSUME running' = running PROVE FlagTrue'
    <2>1. \A p \in Ticks : Busy(p)' <=> Busy(p)
      BY <1>2 DEF Busy
    <2>. QED BY <1>3, <2>1 DEF FlagTrue, IInv
  <1>. QED BY <1>1, <1>2, <1>3

\* A tool or a service starts an operation.
LEMMA EditKeeps ==
  ASSUME IInv, NEW o \in Edits, NEW kind \in Kinds, NEW t \in Slugs \cup {None},
         NEW section \in Section \cup {None}, NEW ok \in BOOLEAN,
         NEW todo \in Plans, todo \notin MdPlans \cup StPlans, todo # <<"due">>,
         kind = "enable" => /\ section \in Section /\ t \in Slugs
                            /\ todo = <<"readMd", "writeMd">>,
         Edit(o, kind, t, section, ok, todo)
  PROVE  IInv'
  <1>0. TypeOK /\ Shapes /\ FlagTrue /\ RuntimeKeyStays /\ LateInv /\ CronInv
    BY DEF IInv
  <1>. DEFINE x == [Idle EXCEPT !.kind = kind, !.task = t, !.section = section,
                                !.ok = ok, !.todo = todo]
  <1>1. /\ op' = [op EXCEPT ![o] = x] /\ edits < MaxEdits /\ edits' = edits + 1
        /\ md' = md /\ st' = st /\ running' = running /\ timer' = timer /\ domain' = domain
        /\ hook' = hook /\ entry' = entry /\ clock' = clock /\ late' = late
        /\ stale' = stale /\ ran' = ran
    BY DEF Edit, fileVars, lifeVars
  <1>2. /\ x.kind = kind /\ x.task = t /\ x.section = section /\ x.due = {} /\ x.todo = todo
        /\ x \in Op
    <2>1. todo \in Seq(Jobs)
      BY PlansAreJobs
    <2>. QED BY <2>1 DEF Idle, Op
  <1>3. o \in Ops /\ o \notin Ticks
    BY OpAssumption DEF Ops
  <1>. HIDE DEF x
  <1>4. Fits(o, x)
    <2>1. Planned(x)
      <3>1. <<"readMd", "writeMd">> # <<"writeMd">>
        OBVIOUS
      <3>. QED BY <1>2, <3>1 DEF Planned
    <2>. QED BY <1>2, <1>3, <2>1 DEF Fits, EditShape
  <1>5. /\ Shapes' /\ FlagTrue' /\ \A p \in Ticks : op'[p] = op[p]
    BY <1>1, <1>2, <1>3, <1>4, StartKeeps
  <1>6. TypeOK'
    <2>1. edits' \in 0..MaxEdits
      BY <1>0, <1>1, TimeAssumption DEF TypeOK
    <2>. QED BY <1>0, <1>1, <1>5, <2>1 DEF TypeOK, Shapes
  <1>7. LateInv'
    BY <1>0, <1>1, <1>5 DEF LateInv, Enabled
  <1>8. CronInv'
    BY <1>0, <1>1, <1>5 DEF CronInv, Once, Recorded, UnderWay
  <1>9. RuntimeKeyStays'
    BY <1>0, <1>1 DEF RuntimeKeyStays
  <1>. QED BY <1>5, <1>6, <1>7, <1>8, <1>9 DEF IInv

LEMMA UserKeeps ==
  ASSUME IInv, NEW o \in Edits, User(o)
  PROVE  IInv'
  <1>1. /\ {<<"readMd", "writeMd">>, <<"readMd", "readSt", "writeSt", "writeMd">>,
            <<"readSt", "writeSt">>, RecordJobs, <<"find">>}
             \subseteq Plans \ (MdPlans \cup StPlans \cup {<<"due">>})
    BY PlansDiffer DEF Plans
  <1>2. CASE Upsert(o)
    BY <1>1, <1>2, EditKeeps DEF Upsert, Kinds
  <1>3. CASE SetEnabled(o)
    <2>1. PICK t \in Slugs, b \in BOOLEAN :
            Edit(o, "enable", t, [enabled |-> b, once |-> FALSE], FALSE, <<"readMd", "writeMd">>)
      BY <1>3 DEF SetEnabled
    <2>2. [enabled |-> b, once |-> FALSE] \in Section
      BY DEF Section
    <2>. QED BY <1>1, <2>1, <2>2, EditKeeps DEF Kinds
  <1>4. CASE Delete(o)
    BY <1>1, <1>4, EditKeeps DEF Delete, Kinds
  <1>5. CASE Clear(o)
    BY <1>1, <1>5, EditKeeps DEF Clear, Kinds
  <1>6. CASE Record(o)
    BY <1>1, <1>6, EditKeeps DEF Record, Kinds
  <1>7. CASE RunNow(o)
    BY <1>1, <1>7, EditKeeps DEF RunNow, Kinds
  <1>. QED BY <1>2, <1>3, <1>4, <1>5, <1>6, <1>7 DEF User

\* Time passes: what was recorded this minute is recorded in it still, or the minute is
\* over; and a tick starts where none is.
LEMMA TimeKeeps ==
  ASSUME IInv, TimePasses
  PROVE  IInv'
  <1>0. TypeOK /\ Shapes /\ FlagTrue /\ RuntimeKeyStays /\ LateInv /\ CronInv
    BY DEF IInv
  <1>1. /\ md' = md /\ edits' = edits /\ timer' = timer /\ domain' = domain /\ hook' = hook
        /\ entry' = entry /\ late' = late /\ stale' = stale
        /\ ran' = [t \in Slugs |-> IF clock'.tick = 0 THEN 0 ELSE ran[t]]
        /\ st' = [t \in Slugs |-> IF st[t] \in 0..MaxAge - 1 THEN st[t] + 1 ELSE st[t]]
    BY DEF TimePasses, lifeVars
  <1>2. /\ clock' \in [minute: 0..Day - 1, tick: 0..Minute - 1]
        /\ clock'.tick = 0 \/ clock'.tick = clock.tick + 1
    <2>1. /\ clock \in [minute: 0..Day - 1, tick: 0..Minute - 1]
          /\ Day \in Nat \ {0} /\ Minute \in Nat \ {0}
      BY <1>0, TimeAssumption DEF TypeOK
    <2>2. CASE clock.tick < Minute - 1
      <3>1. clock' = [clock EXCEPT !.tick = @ + 1]
        BY <2>2 DEF TimePasses
      <3>. QED BY <2>1, <2>2, <3>1
    <2>3. CASE ~(clock.tick < Minute - 1)
      <3>1. clock' = [minute |-> (clock.minute + 1) % Day, tick |-> 0]
        BY <2>3 DEF TimePasses
      <3>2. (clock.minute + 1) % Day \in 0..Day - 1
        BY <2>1
      <3>. QED BY <2>1, <3>1, <3>2
    <2>. QED BY <2>2, <2>3
  <1>3. st' \in States
    <2>1. ASSUME NEW t \in Slugs PROVE st'[t] \in 0..MaxAge \cup {None}
      BY <1>0, <1>1, TimeAssumption DEF TypeOK, States
    <2>. QED BY <1>1, <2>1 DEF States
  <1>4. \A t \in Slugs : clock'.tick # 0 /\ Recorded(t) => Recorded(t)'
    <2>. SUFFICES ASSUME NEW t \in Slugs, clock'.tick # 0, Recorded(t) PROVE Recorded(t)'
      OBVIOUS
    <2>1. /\ st[t] \in 0..MaxAge /\ clock.tick \in Nat /\ MaxAge \in Nat /\ st[t] <= clock.tick
          /\ clock'.tick = clock.tick + 1
      BY <1>0, <1>2, TimeAssumption DEF TypeOK, States, Recorded
    <2>2. st'[t] = IF st[t] \in 0..MaxAge - 1 THEN st[t] + 1 ELSE st[t]
      BY <1>1
    <2>3. st'[t] \in 0..MaxAge /\ st'[t] <= clock'.tick
      BY <2>1, <2>2
    <2>. QED BY <2>3, NoneAssumption DEF Recorded
  <1>5. /\ Shapes' /\ FlagTrue' /\ running' \in BOOLEAN
        /\ \A p \in Ticks : op'[p].due \subseteq op[p].due
        /\ \A t \in Slugs : UnderWay(t)' <=> UnderWay(t)
    <2>1. CASE timer /\ ~running
      <3>. DEFINE x == [Idle EXCEPT !.kind = "tick", !.todo = <<"due">>]
      <3>1. PICK o \in Ticks : op[o] = Idle /\ op' = [op EXCEPT ![o] = x] /\ running' = TRUE
        BY <2>1 DEF TimePasses
      <3>2. /\ x.kind = "tick" /\ x.todo = <<"due">> /\ x.task = None /\ x.due = {} /\ x # Idle
        BY DEF Idle
      <3>3. x \in Op
        <4>1. <<"due">> \in Seq(Jobs)
          BY DEF Jobs
        <4>. QED BY <4>1 DEF Idle, Op, Kinds
      <3>. HIDE DEF x
      <3>4. Fits(o, x)
        <4>1. Planned(x)
          BY <3>2, PlansDiffer DEF Planned, Plans
        <4>2. TickShape(x) /\ o \notin Edits
          BY <3>2, OpAssumption DEF TickShape
        <4>. QED BY <3>3, <4>1, <4>2 DEF Fits
      <3>5. Shapes'
        BY <1>0, <3>1, <3>4 DEF Shapes, Fits
      <3>6. op'[o] = x /\ \A p \in Ticks \ {o} : op'[p] = op[p]
        BY <1>0, <3>1 DEF Shapes, Ops
      <3>7. \A p \in Ticks : ~Busy(p)
        BY <1>0, <2>1 DEF FlagTrue
      <3>8. \A p \in Ticks : Busy(p)' <=> p = o
        BY <3>2, <3>6, <3>7 DEF Busy
      <3>9. FlagTrue'
        BY <3>1, <3>8 DEF FlagTrue
      <3>10. Idle.task = None /\ Idle.due = {}
        BY DEF Idle
      <3>11. \A p \in Ticks : op'[p].due \subseteq op[p].due /\ op'[p].task = op[p].task
        BY <3>1, <3>2, <3>6, <3>10
      <3>. QED BY <3>1, <3>5, <3>9, <3>11 DEF UnderWay
    <2>2. CASE ~(timer /\ ~running)
      <3>1. op' = op /\ running' = running
        BY <2>2 DEF TimePasses
      <3>. QED BY <1>0, <3>1 DEF Shapes, Fits, FlagTrue, Busy, UnderWay, TypeOK
    <2>. QED BY <2>1, <2>2
  <1>6. TypeOK'
    <2>1. ran' \in [Slugs -> Nat]
      BY <1>0, <1>1 DEF TypeOK
    <2>. QED BY <1>0, <1>1, <1>2, <1>3, <1>5, <2>1 DEF TypeOK, Shapes
  <1>7. LateInv'
    BY <1>0, <1>1, <1>5 DEF LateInv, Enabled
  <1>8. CronInv'
    <2>. SUFFICES ASSUME ~stale', NEW t \in Slugs PROVE Once(t)'
      BY DEF CronInv
    <2>1. Once(t)
      BY <1>0, <1>1 DEF CronInv
    <2>2. ran'[t] = IF clock'.tick = 0 THEN 0 ELSE ran[t]
      BY <1>1
    <2>3. UnderWay(t)' <=> UnderWay(t)
      BY <1>5
    <2>. QED BY <1>4, <1>5, <2>1, <2>2, <2>3 DEF Once
  <1>9. RuntimeKeyStays'
    BY <1>0, <1>1 DEF RuntimeKeyStays
  <1>. QED BY <1>3, <1>5, <1>6, <1>7, <1>8, <1>9 DEF IInv

\* The entry comes and goes, and no operation notices: its clean-up, which would drop
\* the flag of a tick that runs, is never reached.
LEMMA EntryKeeps ==
  ASSUME IInv, Setup \/ SetupEnds \/ Unload \/ RemoveEntry
  PROVE  IInv'
  <1>0. TypeOK /\ Shapes /\ FlagTrue /\ RuntimeKeyStays /\ LateInv /\ CronInv
    BY DEF IInv
  <1>1. /\ md' = md /\ st' = st /\ op' = op /\ clock' = clock /\ late' = late
        /\ stale' = stale /\ ran' = ran
    BY DEF Setup, SetupEnds, Unload, RemoveEntry, fileVars
  <1>2. Unload => /\ domain' = domain \ {"entry_id"} /\ domain' # {}
                  /\ edits \in Nat /\ edits < MaxEdits /\ edits' = edits + 1
    BY <1>0 DEF Unload, RuntimeKeyStays, TypeOK
  <1>3. /\ running' = running /\ {timer', hook'} \subseteq BOOLEAN
        /\ edits' \in 0..MaxEdits /\ domain' \subseteq {"entry_id", "runtime", "entry"}
        /\ entry' \in {"none", "setup", "loaded", "unloaded", "removed"}
    <2>1. CASE Setup
      BY <1>0, <2>1 DEF Setup, TypeOK
    <2>2. CASE SetupEnds
      BY <1>0, <2>2 DEF SetupEnds, TypeOK
    <2>3. CASE Unload
      <3>1. running' = running /\ timer' = timer /\ hook' = hook /\ entry' = "unloaded"
        BY <1>2, <2>3 DEF Unload
      <3>2. edits' \in 0..MaxEdits
        BY <1>2, <2>3, TimeAssumption
      <3>. QED BY <1>0, <1>2, <2>3, <3>1, <3>2 DEF TypeOK
    <2>4. CASE RemoveEntry
      BY <1>0, <2>4 DEF RemoveEntry, TypeOK
    <2>. QED BY <2>1, <2>2, <2>3, <2>4
  <1>4. TypeOK'
    BY <1>0, <1>1, <1>3 DEF TypeOK
  <1>5. Shapes' /\ FlagTrue' /\ LateInv' /\ CronInv'
    <2>1. Shapes'
      BY <1>0, <1>1 DEF Shapes, Fits
    <2>2. FlagTrue'
      BY <1>0, <1>1, <1>3 DEF FlagTrue, Busy
    <2>3. LateInv'
      BY <1>0, <1>1 DEF LateInv, Enabled
    <2>4. CronInv'
      BY <1>0, <1>1 DEF CronInv, Once, Recorded, UnderWay
    <2>. QED BY <2>1, <2>2, <2>3, <2>4
  <1>6. RuntimeKeyStays'
    BY <1>0 DEF RuntimeKeyStays, Setup, SetupEnds, Unload, RemoveEntry
  <1>. QED BY <1>4, <1>5, <1>6 DEF IInv

\* In memory nothing is left when Home Assistant starts again.
LEMMA NothingUnderWay ==
  ASSUME op' = [o \in Ops |-> Idle], running' = FALSE
  PROVE  Shapes' /\ FlagTrue' /\ \A p \in Ticks : op'[p].due = {} /\ op'[p].task = None
  <1>1. \A o \in Ops : op'[o] = Idle
    OBVIOUS
  <1>2. Shapes'
    BY <1>1, IdleFits DEF Shapes, Fits
  <1>3. FlagTrue'
    BY <1>1 DEF FlagTrue, Busy, Ops
  <1>. QED BY <1>1, <1>2, <1>3 DEF Idle, Ops

LEMMA RestartKeeps ==
  ASSUME IInv, Restart
  PROVE  IInv'
  <1>0. TypeOK /\ LateInv
    BY DEF IInv
  <1>1. /\ md' = md /\ st' = st /\ clock' = clock /\ late' = late /\ stale' = stale
        /\ op' = [o \in Ops |-> Idle] /\ running' = FALSE /\ timer' = FALSE /\ hook' = FALSE
        /\ domain' = {} /\ entry' = (IF entry = "removed" THEN "removed" ELSE "none")
        /\ ran' = [t \in Slugs |-> 0] /\ edits < MaxEdits /\ edits' = edits + 1
    BY DEF Restart, fileVars
  <1>2. Shapes' /\ FlagTrue' /\ \A p \in Ticks : op'[p].due = {} /\ op'[p].task = None
    BY <1>1, NothingUnderWay
  <1>3. TypeOK'
    <2>1. edits' \in 0..MaxEdits
      BY <1>0, <1>1, TimeAssumption DEF TypeOK
    <2>2. entry' \in {"none", "removed"} /\ ran' \in [Slugs -> Nat]
      BY <1>1
    <2>. QED BY <1>0, <1>1, <1>2, <2>1, <2>2 DEF TypeOK, Shapes
  <1>4. LateInv'
    BY <1>0, <1>1, <1>2 DEF LateInv, Enabled
  <1>5. CronInv'
    BY <1>1, <1>2 DEF CronInv, Once
  <1>6. RuntimeKeyStays'
    BY <1>1 DEF RuntimeKeyStays
  <1>. QED BY <1>2, <1>3, <1>4, <1>5, <1>6 DEF IInv

-----------------------------------------------------------------------------
(* The invariant holds.                                                      *)

LEMMA InitOK == Init => IInv
  <1>. SUFFICES ASSUME Init PROVE IInv
    OBVIOUS
  <1>1. op = [o \in Ops |-> Idle] /\ running = FALSE
    BY DEF Init
  <1>2. Shapes
    BY <1>1, IdleFits DEF Shapes, Fits
  <1>3. FlagTrue
    BY <1>1 DEF FlagTrue, Busy, Ops
  <1>4. TypeOK
    <2>1. md \in Markdown
      <3>1. {[enabled |-> TRUE, once |-> b] : b \in BOOLEAN} \subseteq Section
        <4>1. \A b \in BOOLEAN : [enabled |-> TRUE, once |-> b] \in Section
          BY DEF Section
        <4>. QED BY <4>1
      <3>. QED BY <3>1 DEF Init, Markdown
    <2>2. st \in States
      BY DEF Init, States
    <2>3. clock \in [minute: 0..Day - 1, tick: 0..Minute - 1]
      BY TimeAssumption DEF Init
    <2>4. 0 \in 0..MaxEdits
      BY TimeAssumption
    <2>. QED BY <1>2, <2>1, <2>2, <2>3, <2>4 DEF Init, TypeOK, Shapes
  <1>5. \A p \in Ticks : op[p].due = {}
    BY <1>1 DEF Ops, Idle
  <1>6. LateInv
    BY <1>5 DEF Init, LateInv
  <1>7. CronInv
    BY <1>5 DEF Init, CronInv, Once
  <1>8. RuntimeKeyStays
    BY DEF Init, RuntimeKeyStays
  <1>. QED BY <1>2, <1>3, <1>4, <1>6, <1>7, <1>8 DEF IInv

LEMMA StutterKeeps == ASSUME IInv, UNCHANGED vars PROVE IInv'
  <1>1. /\ md' = md /\ st' = st /\ op' = op /\ edits' = edits /\ running' = running
        /\ timer' = timer /\ domain' = domain /\ hook' = hook /\ entry' = entry
        /\ clock' = clock /\ late' = late /\ stale' = stale /\ ran' = ran
    BY DEF vars, fileVars, lifeVars
  <1>2. TypeOK' /\ RuntimeKeyStays'
    BY <1>1 DEF IInv, TypeOK, RuntimeKeyStays
  <1>3. Shapes' /\ FlagTrue'
    BY <1>1 DEF IInv, Shapes, Fits, FlagTrue, Busy
  <1>4. LateInv'
    BY <1>1 DEF IInv, LateInv, Enabled
  <1>5. CronInv'
    BY <1>1 DEF IInv, CronInv, Once, Recorded, UnderWay
  <1>. QED BY <1>2, <1>3, <1>4, <1>5 DEF IInv

LEMMA Step == IInv /\ [Next]_vars => IInv'
  <1>. SUFFICES ASSUME IInv, [Next]_vars PROVE IInv'
    OBVIOUS
  <1>1. ASSUME NEW o \in Ops, Job(o) \/ Answer(o) PROVE IInv'
    <2>1. CASE WriteSt(o)
      BY <2>1, TickWritesSt, EditWritesSt
    <2>. QED BY <1>1, <2>1, ReadDueKeeps, QuietJobKeeps, WriteMdKeeps DEF Job
  <1>2. ASSUME NEW o \in Edits, User(o) PROVE IInv'
    BY <1>2, UserKeeps
  <1>. QED BY <1>1, <1>2, TimeKeeps, EntryKeeps, RestartKeeps, StutterKeeps DEF Next

LEMMA InvariantHolds == Spec => []IInv
  <1>. QED BY InitOK, Step, PTL DEF Spec

LEMMA OneTickFromInv == IInv => OneTick
  <1>. SUFFICES ASSUME FlagTrue, running \in BOOLEAN PROVE OneTick
    BY DEF IInv, TypeOK
  <1>. DEFINE busy == {o \in Ticks : op[o] # Idle}
  <1>1. Cardinality(busy) <= 1
    <2>1. CASE busy = {}
      BY <2>1, FS_EmptySet
    <2>2. CASE busy # {}
      <3>1. PICK o \in busy : TRUE
        BY <2>2
      <3>2. busy = {o}
        BY <3>1 DEF FlagTrue, Busy
      <3>3. Cardinality({o}) = 1
        BY FS_Singleton
      <3>. QED BY <3>2, <3>3
    <2>. QED BY <2>1, <2>2
  <1>2. running = (\E o \in Ticks : op[o] # Idle)
    BY Zenon DEF FlagTrue, Busy
  <1>. QED BY <1>1, <1>2 DEF OneTick

\* What an operation carries from one job to the next is a copy of a file as it can be
\* written back, and the age the state file keeps of a check never passes the longest
\* time a schedule asks for (heartbeat_store.py:99-138, 347-413, 466-511).
THEOREM TypeCorrect == Spec => []TypeOK
  <1>. QED BY InvariantHolds, PTL DEF IInv

\* Two ticks are never under way together and the flag tells whether one is,
\* whatever tasks they run and however the entry is reloaded meanwhile
\* (heartbeat_ticker.py:80-87, 229-233).
THEOREM TicksNeverOverlap == Spec => []OneTick
  <1>. QED BY InvariantHolds, OneTickFromInv, PTL

\* A tick's list outlives what is deleted, disabled or completed under it, and still no
\* task is begun twice after it was taken away, whatever copies are written
\* (heartbeat_ticker.py:90-103, heartbeat_store.py:347-413).
THEOREM LateStartsOnce == Spec => []LateOnce
  <1>1. IInv => LateOnce
    BY DEF IInv, LateInv, LateOnce
  <1>. QED BY InvariantHolds, <1>1, PTL

\* A cron task is begun once in its minute, for any length of the minute and of a run:
\* what a tick began is on no later list before its result is recorded, and the result
\* holds it back (heartbeat_store.py:466-511, heartbeat_ticker.py:90-103).
THEOREM CronStartsOnce == Spec => []CronOnce
  <1>1. IInv => CronOnce
    BY DEF IInv, CronInv, Once, CronOnce
  <1>. QED BY InvariantHolds, <1>1, PTL
=============================================================================
