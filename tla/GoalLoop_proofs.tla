---------------------------- MODULE GoalLoop_proofs ----------------------------
(* Types, the registry, the completed conversations, the goals that stay       *)
(* paused, the turns a goal is still owed, and the loops and their flags, for  *)
(* any conversations, runs, goals, messages and bounds: proofs for the runs    *)
(* goal_commands and goal_two.                                                 *)
EXTENDS GoalLoop, FiniteSetTheorems, SequenceTheorems, WellFoundedInduction, TLAPS

\* The hooks a suspended run has entered are hooks of its chain; in a turn or a
\* command it has entered all of them, in a loop one at least.
Shape(x) ==
  /\ x.pc \in Commands \cup InTurn => Len(x.cis) = Len(x.chain)
  /\ x.pc \in InLoop => 1 <= Len(x.cis) /\ Len(x.cis) <= Len(x.chain)

\* Room for the hooks of the messages that have arrived.
Arrived == {r \in Runs : run[r].pc = "arrived"}
Chains == {converse} \cup {run[r].saved : r \in Runs}
RoomForHooks == \A chain \in Chains : Len(chain) + Cardinality(Arrived) <= MaxHooks

\* A fresh object for each goal that is to be set.
Waits(x) == x.input = "set" /\ x.pc \in Arriving
Waiting == {r \in Runs : Waits(run[r])}
RoomForGoals == Cardinality(Waiting) <= Cardinality(Fresh)

\* No two conversations share a goal object.
OneHolder == \A c, d \in Convs : mem[c] = mem[d] /\ mem[c] # NoGoal => c = d

IInv ==
  /\ TypeOK
  /\ \A r \in Runs : Shape(run[r])
  /\ RoomForHooks
  /\ RoomForGoals
  /\ OneHolder
  /\ CompletedHasNoPrompt
  /\ RegistryNamesLiveRun

-----------------------------------------------------------------------------
(* Chains of hooks.                                                          *)

LEMMA Bounds == MaxHooks \in Nat /\ LoopBound \in Nat
  BY MaxHooksAssumption, LoopBoundAssumption

LEMMA HooksSeq ==
  ASSUME NEW S, NEW x
  PROVE  x \in UpToHooks(S) <=> x \in Seq(S) /\ Len(x) <= MaxHooks
  <1>1. ASSUME x \in UpToHooks(S) PROVE x \in Seq(S) /\ Len(x) <= MaxHooks
    <2>1. PICK n \in 0..MaxHooks : x \in [1..n -> S]
      BY <1>1 DEF UpToHooks
    <2>2. n \in Nat /\ n <= MaxHooks
      BY <2>1, Bounds
    <2>3. x \in Seq(S)
      BY <2>1, <2>2, SeqDef
    <2>4. Len(x) = n
      <3>1. 1..Len(x) = 1..n /\ Len(x) \in Nat
        BY <2>1, <2>3, LenProperties
      <3>. QED BY <2>2, <3>1
    <2>. QED BY <2>2, <2>3, <2>4
  <1>2. ASSUME x \in Seq(S), Len(x) <= MaxHooks PROVE x \in UpToHooks(S)
    <2>1. Len(x) \in 0..MaxHooks /\ x \in [1..Len(x) -> S]
      BY <1>2, Bounds, LenProperties
    <2>. QED BY <2>1 DEF UpToHooks
  <1>. QED BY <1>1, <1>2

LEMMA HooksAt ==
  ASSUME NEW S, NEW x \in UpToHooks(S)
  PROVE  /\ Len(x) \in Nat /\ Len(x) <= MaxHooks /\ DOMAIN x = 1..Len(x)
         /\ \A d \in 1..Len(x) : x[d] \in S
  BY HooksSeq, LenProperties

LEMMA NoHooks == ASSUME NEW S PROVE <<>> \in UpToHooks(S) /\ Len(<<>>) = 0
  <1>1. <<>> \in Seq(S) /\ Len(<<>>) = 0 /\ Len(<<>>) <= MaxHooks
    BY Bounds
  <1>. QED BY <1>1, HooksSeq, Zenon

LEMMA OuterHooks ==
  ASSUME NEW S, NEW x \in UpToHooks(S), NEW d \in 1..Len(x)
  PROVE  SubSeq(x, 1, d) \in UpToHooks(S) /\ Len(SubSeq(x, 1, d)) = d
  <1>1. /\ Len(x) \in Nat /\ Len(x) <= MaxHooks
        /\ \A e \in 1..Len(x) : x[e] \in S
    BY HooksAt
  <1>2. d \in Int /\ 1 \in Int /\ \A e \in 1..d : x[e] \in S
    BY <1>1
  <1>3. SubSeq(x, 1, d) \in Seq(S) /\ Len(SubSeq(x, 1, d)) = IF 1 <= d THEN d - 1 + 1 ELSE 0
    BY <1>2, SubSeqProperties
  <1>4. Len(SubSeq(x, 1, d)) = d /\ Len(SubSeq(x, 1, d)) <= MaxHooks
    BY <1>1, <1>3, Bounds
  <1>. QED BY <1>3, <1>4, HooksSeq, Zenon

\* Numbers for the hooks of a chain.
LEMMA HooksOn ==
  ASSUME NEW x \in UpToHooks(Convs), NEW f \in [DOMAIN x -> 0..LoopBound]
  PROVE  f \in UpToHooks(0..LoopBound) /\ Len(f) = Len(x)
  <1>1. Len(x) \in Nat /\ Len(x) <= MaxHooks /\ DOMAIN x = 1..Len(x)
    BY HooksAt
  <1>2. f \in [1..Len(x) -> 0..LoopBound]
    BY <1>1
  <1>3. f \in Seq(0..LoopBound)
    BY <1>1, <1>2, SeqDef
  <1>4. Len(f) = Len(x)
    <2>1. 1..Len(f) = 1..Len(x) /\ Len(f) \in Nat
      BY <1>2, <1>3, LenProperties
    <2>. QED BY <1>1, <2>1
  <1>5. Len(f) <= MaxHooks
    BY <1>1, <1>4
  <1>. QED BY <1>3, <1>4, <1>5, HooksSeq, Zenon

LEMMA InnermostIn ==
  ASSUME NEW n \in Nat, NEW D \in SUBSET (1..n), D # {}
  PROVE  Innermost(D) \in D /\ \A e \in D : e <= Innermost(D)
  <1>. DEFINE E == {n - d : d \in D}
  <1>0. \A d \in D : d \in 1..n /\ n - d \in Nat
    OBVIOUS
  <1>1. E \in SUBSET Nat /\ E # {}
    BY <1>0
  <1>2. PICK m \in E : \A k \in E : <<k, m>> \notin OpToRel(<, Nat)
    BY <1>1, WFMin, NatLessThanWellFounded, Zenon
  <1>3. \A k \in E : ~(k < m)
    BY <1>1, <1>2, Zenon DEF OpToRel
  <1>4. PICK d \in D : m = n - d
    OBVIOUS
  <1>5. ASSUME NEW e \in D PROVE e <= d
    <2>1. n - e \in E
      OBVIOUS
    <2>2. ~(n - e < n - d)
      BY <1>3, <1>4, <2>1
    <2>3. d \in 1..n /\ e \in 1..n
      BY <1>0
    <2>. QED BY <2>2, <2>3
  <1>. QED BY <1>5, Zenon DEF Innermost

-----------------------------------------------------------------------------
(* Types, part by part.                                                      *)

GoalRefs == Ids \cup {NoGoal}

LEMMA TypeParts ==
  ASSUME TypeOK
  PROVE  /\ run \in [Runs -> Run]
         /\ mem \in [Convs -> GoalRefs]
         /\ heap \in [Ids -> Goal]
         /\ store \in Store
         /\ registry \in [Convs -> Runs \cup {NoRun}]
         /\ cancelled \subseteq Runs
         /\ clearing \subseteq Convs
         /\ taskLoop \in [Convs -> {"unseen", "active", "inactive"}]
         /\ activeConv \in Convs \cup {"none"}
         /\ converse \in UpToHooks(Convs)
  BY Zenon DEF TypeOK, GoalRefs

LEMMA RunParts ==
  ASSUME NEW x \in Run
  PROVE  /\ x.pc \in PCs /\ x.conv \in Convs /\ x.input \in Inputs \cup {"none"}
         /\ x.goal \in GoalRefs /\ x.halts \in BOOLEAN /\ x.saved \in UpToHooks(Convs)
         /\ x.chain \in UpToHooks(Convs) /\ x.cis \in UpToHooks(0..LoopBound)
         /\ x.due \subseteq 1..MaxHooks /\ x.deaf \subseteq 1..MaxHooks /\ x.late \in BOOLEAN
  BY DEF Run, GoalRefs

LEMMA IdleOK == Idle \in Run /\ Shape(Idle) /\ Idle.pc = "idle" /\ Idle.goal = NoGoal
                /\ Idle.saved = <<>> /\ Idle.input = "none" /\ Idle.conv \in Convs
  <1>1. (CHOOSE c \in Convs : TRUE) \in Convs
    BY SetAssumption
  <1>2. /\ <<>> \in UpToHooks(Convs) /\ <<>> \in UpToHooks(0..LoopBound)
        /\ "idle" \in PCs
    BY NoHooks DEF PCs
  <1>3. Idle \in Run
    BY <1>1, <1>2 DEF Idle, Run
  <1>4. Shape(Idle)
    BY DEF Idle, Shape, Commands, InTurn, InLoop, Leaving
  <1>. QED BY <1>1, <1>3, <1>4 DEF Idle

LEMMA StoreParts ==
  ASSUME NEW s \in Store
  PROVE  /\ s.pending \in [Convs -> GoalRefs] /\ s.latest \in GoalRefs
         /\ s.completed \subseteq Convs /\ s.stopRequests \subseteq Convs
         /\ s.shouldEnd \in BOOLEAN /\ s.flags \subseteq Convs /\ s.left \subseteq Convs
  BY DEF Store, GoalRefs

-----------------------------------------------------------------------------
(* What a step of the run r does, whichever hooks it passes on its way.       *)

\* The goals the state knows of; a step hands them on and invents none.
Known == Named \cup {NoGoal}

\* What the run r may become: suspended for the same message, or idle.
Placed(r, x) ==
  /\ x \in Run /\ Shape(x) /\ x.goal \in Known
  /\ x.pc # "arrived" /\ ~Waits(x)
  /\ x.saved \in {run[r].saved, <<>>}
  /\ x.pc # "idle" => x.conv = run[r].conv

Moves(r) == \E x : run' = [run EXCEPT ![r] = x] /\ Placed(r, x)

StoreOK(s) ==
  /\ s \in Store
  /\ s.latest \in Known /\ \A c \in Convs : s.pending[c] \in Known
  /\ \A c \in Convs : c \in s.completed => s.pending[c] = NoGoal

\* A registry from which at most entries were dropped.
Dropped(reg) ==
  /\ reg \in [Convs -> Runs \cup {NoRun}]
  /\ \A c \in Convs : reg[c] \in {registry[c], NoRun}

RegStep(r) ==
  /\ registry' \in [Convs -> Runs \cup {NoRun}]
  /\ \A c \in Convs : registry'[c] \in {registry[c], NoRun, r}
  /\ \A c \in Convs : registry'[c] = r => run'[r].pc # "idle" /\ c = run[r].conv

Landed(r) ==
  /\ Moves(r)
  /\ RegStep(r)
  /\ StoreOK(store')
  /\ converse' \in {converse, run[r].saved}

\* The rest of the state.
RestOK ==
  /\ heap \in [Ids -> Goal]
  /\ cancelled \subseteq Runs
  /\ clearing \subseteq Convs
  /\ taskLoop \in [Convs -> {"unseen", "active", "inactive"}]
  /\ activeConv \in Convs \cup {"none"}

MemDrops ==
  /\ mem' \in [Convs -> GoalRefs]
  /\ \A c \in Convs : mem'[c] \in {mem[c], NoGoal}

\* No goal that was paused or finished is active again.
NoneRevived ==
  \A c \in Convs :
    mem[c] # NoGoal /\ mem'[c] = mem[c] /\ heap[mem[c]].status # "active"
      => heap'[mem[c]].status # "active"

LEMMA RestParts == TypeOK => RestOK
  BY Zenon DEF TypeOK, RestOK

LEMMA KnownGoals ==
  /\ \A c \in Convs : mem[c] \in Known /\ store.pending[c] \in Known
  /\ \A r \in Runs : run[r].goal \in Known
  /\ store.latest \in Known /\ NoGoal \in Known
  BY DEF Known, Named

LEMMA OldStoreOK == IInv => StoreOK(store)
  <1>1. IInv => store \in Store
    BY TypeParts, Zenon DEF IInv
  <1>. QED BY <1>1, KnownGoals, Zenon DEF StoreOK, IInv, CompletedHasNoPrompt

LEMMA IdlePlaced == ASSUME NEW r \in Runs PROVE Placed(r, Idle)
  BY IdleOK, KnownGoals DEF Placed, Waits, Arriving

\* The runs besides r are as before.
LEMMA RunStep ==
  ASSUME TypeOK, NEW r \in Runs, NEW x, run' = [run EXCEPT ![r] = x]
  PROVE  run'[r] = x /\ \A q \in Runs \ {r} : run'[q] = run[q]
  BY TypeParts

LEMMA RunsOK ==
  ASSUME TypeOK, \A q \in Runs : Shape(run[q]), NEW r \in Runs, NEW x \in Run, Shape(x),
         run' = [run EXCEPT ![r] = x]
  PROVE  run' \in [Runs -> Run] /\ \A q \in Runs : Shape(run'[q])
  BY TypeParts

LEMMA RegistryOK ==
  ASSUME TypeOK, RegistryNamesLiveRun, NEW r \in Runs, NEW x, Placed(r, x),
         run' = [run EXCEPT ![r] = x], RegStep(r)
  PROVE  RegistryNamesLiveRun'
  <1>1. SUFFICES ASSUME NEW c \in Convs, registry'[c] # NoRun
                 PROVE  run'[registry'[c]].pc # "idle" /\ run'[registry'[c]].conv = c
    BY DEF RegistryNamesLiveRun
  <1>2. run'[r] = x /\ \A q \in Runs \ {r} : run'[q] = run[q]
    BY RunStep
  <1>3. CASE registry'[c] = r
    BY <1>2, <1>3 DEF RegStep, Placed
  <1>4. CASE registry'[c] # r
    <2>1. registry'[c] = registry[c] /\ registry[c] \in Runs \ {r}
      BY <1>1, <1>4, TypeParts DEF RegStep
    <2>. QED BY <1>1, <1>2, <2>1 DEF RegistryNamesLiveRun
  <1>. QED BY <1>3, <1>4

LEMMA ArrivedFinite ==
  ASSUME NEW S \in SUBSET Runs
  PROVE  IsFiniteSet(S) /\ Cardinality(S) \in Nat
  BY SetAssumption, FS_Subset, FS_CardinalityType

LEMMA HooksRoomOK ==
  ASSUME TypeOK, RoomForHooks, NEW r \in Runs, NEW x, Placed(r, x),
         run' = [run EXCEPT ![r] = x], converse' \in {converse, run[r].saved}
  PROVE  RoomForHooks' /\ converse' \in UpToHooks(Convs)
  <1>1. run'[r] = x /\ \A q \in Runs \ {r} : run'[q] = run[q]
    BY RunStep
  <1>2. Arrived' \subseteq Arrived
    BY <1>1 DEF Arrived, Placed
  <1>3. /\ Cardinality(Arrived') <= Cardinality(Arrived)
        /\ Cardinality(Arrived) \in Nat /\ Cardinality(Arrived') \in Nat
    <2>1. Arrived \in SUBSET Runs /\ Arrived' \in SUBSET Runs
      BY DEF Arrived
    <2>. QED BY <1>2, <2>1, ArrivedFinite, FS_Subset
  <1>4. Chains' \subseteq Chains \cup {<<>>}
    BY <1>1 DEF Chains, Placed
  <1>5. \A q \in Runs : run[q].saved \in UpToHooks(Convs)
    BY TypeParts, RunParts
  <1>6. converse \in UpToHooks(Convs)
    BY TypeParts
  <1>7. ASSUME NEW chain \in Chains \cup {<<>>}
        PROVE  Len(chain) \in Nat /\ Len(chain) + Cardinality(Arrived) <= MaxHooks
    <2>1. Len(converse) \in Nat /\ Len(converse) + Cardinality(Arrived) <= MaxHooks
      BY <1>6, HooksAt DEF RoomForHooks, Chains
    <2>2. CASE chain = <<>>
      BY <1>3, <2>1, <2>2, Bounds
    <2>3. CASE chain \in Chains
      <3>1. chain \in UpToHooks(Convs)
        BY <1>5, <1>6, <2>3 DEF Chains
      <3>2. Len(chain) \in Nat
        BY <3>1, HooksAt
      <3>. QED BY <2>3, <3>2 DEF RoomForHooks
    <2>. QED BY <2>2, <2>3
  <1>8. ASSUME NEW chain \in Chains' PROVE Len(chain) + Cardinality(Arrived') <= MaxHooks
    BY <1>3, <1>4, <1>7, Bounds
  <1>9. converse' \in UpToHooks(Convs)
    BY <1>5, <1>6
  <1>. QED BY <1>8, <1>9 DEF RoomForHooks

\* References of the next state are known or in G.
LEMMA NamedStep ==
  ASSUME TypeOK, NEW r \in Runs, NEW x, Placed(r, x), run' = [run EXCEPT ![r] = x],
         StoreOK(store'), NEW G, \A c \in Convs : mem'[c] \in Known \cup G
  PROVE  Fresh \ G \subseteq Fresh' /\ Waiting' \subseteq Waiting \ {r}
  <1>1. run'[r] = x /\ \A q \in Runs \ {r} : run'[q] = run[q]
    BY RunStep
  <1>2. \A q \in Runs : run'[q].goal \in Known
    BY <1>1, KnownGoals DEF Placed
  <1>3. Named' \subseteq Known \cup G
    BY <1>2 DEF Named, StoreOK
  <1>4. Fresh \ G \subseteq Fresh'
    BY <1>3, NoGoalAssumption DEF Fresh, Known
  <1>5. Waiting' \subseteq Waiting \ {r}
    BY <1>1 DEF Waiting, Placed
  <1>. QED BY <1>4, <1>5

\* What a step does that creates no goal.
Effect(r) == Landed(r) /\ MemDrops /\ RestOK'

LEMMA EffectOK ==
  ASSUME IInv, NEW r \in Runs, Effect(r)
  PROVE  IInv'
  <1>1. PICK x : run' = [run EXCEPT ![r] = x] /\ Placed(r, x)
    BY DEF Effect, Landed, Moves
  <1>2. /\ TypeOK /\ RegistryNamesLiveRun /\ RoomForHooks /\ RoomForGoals /\ OneHolder
        /\ \A q \in Runs : Shape(run[q])
    BY Zenon DEF IInv
  <1>3. /\ RegStep(r) /\ StoreOK(store') /\ converse' \in {converse, run[r].saved}
        /\ MemDrops /\ RestOK'
    BY DEF Effect, Landed
  <1>4. run' \in [Runs -> Run] /\ \A q \in Runs : Shape(run'[q])
    BY <1>1, <1>2, RunsOK DEF Placed
  <1>5. RoomForHooks' /\ converse' \in UpToHooks(Convs)
    BY <1>1, <1>2, <1>3, HooksRoomOK
  <1>6. RegistryNamesLiveRun'
    BY <1>1, <1>2, <1>3, RegistryOK
  <1>7. RoomForGoals'
    <2>1. \A c \in Convs : mem'[c] \in Known \cup {}
      BY <1>3, KnownGoals DEF MemDrops
    <2>2. Fresh \ {} \subseteq Fresh' /\ Waiting' \subseteq Waiting \ {r}
      BY <1>1, <1>2, <1>3, <2>1, NamedStep
    <2>3. /\ Cardinality(Waiting') <= Cardinality(Waiting)
          /\ Cardinality(Waiting) \in Nat /\ Cardinality(Waiting') \in Nat
      <3>1. Waiting \in SUBSET Runs
        BY DEF Waiting
      <3>2. IsFiniteSet(Waiting) /\ Waiting' \subseteq Waiting
        BY <2>2, <3>1, ArrivedFinite
      <3>. QED BY <3>2, FS_Subset, FS_CardinalityType
    <2>4. /\ Cardinality(Fresh) <= Cardinality(Fresh')
          /\ Cardinality(Fresh) \in Nat /\ Cardinality(Fresh') \in Nat
      <3>1. Fresh' \subseteq Ids /\ Fresh \subseteq Fresh'
        BY <2>2 DEF Fresh
      <3>2. IsFiniteSet(Fresh')
        BY <3>1, SetAssumption, FS_Subset
      <3>. QED BY <3>1, <3>2, FS_Subset, FS_CardinalityType
    <2>. QED BY <1>2, <2>3, <2>4 DEF RoomForGoals
  <1>8. OneHolder'
    BY <1>2, <1>3 DEF OneHolder, MemDrops
  <1>9. CompletedHasNoPrompt'
    BY <1>3 DEF StoreOK, CompletedHasNoPrompt
  <1>10. TypeOK'
    <2>1. store' \in Store /\ mem' \in [Convs -> Ids \cup {NoGoal}]
          /\ registry' \in [Convs -> Runs \cup {NoRun}]
      BY <1>3 DEF StoreOK, MemDrops, RegStep, GoalRefs
    <2>. QED BY <1>3, <1>4, <1>5, <2>1, Zenon DEF TypeOK, RestOK
  <1>. QED BY <1>4, <1>5, <1>6, <1>7, <1>8, <1>9, <1>10, Zenon DEF IInv

-----------------------------------------------------------------------------
(* The ways of a run through its hooks.                                       *)

\* A run that is about to return, or to raise, to hooks of its chain.
Calling(r) ==
  /\ Chain(r) \in UpToHooks(Convs) /\ Cis(r) \in UpToHooks(0..LoopBound)
  /\ Len(Cis(r)) <= Len(Chain(r))

Inside == {"queued"} \cup Commands \cup InTurn

LEMMA CallingOK ==
  ASSUME IInv, NEW r \in Runs, run[r].pc \notin {"idle", "arrived"}
  PROVE  /\ Calling(r)
         /\ run[r].pc \in Inside => Len(Cis(r)) = Len(Chain(r))
         /\ run[r].pc \in InLoop => Chain(r) = run[r].chain /\ Cis(r) = run[r].cis
                                    /\ Len(run[r].cis) >= 1
         /\ run[r].pc # "queued" => Chain(r) = run[r].chain /\ Cis(r) = run[r].cis
  <1>1. run[r] \in Run /\ Shape(run[r]) /\ converse \in UpToHooks(Convs)
    BY TypeParts DEF IInv
  <1>2. /\ run[r].chain \in UpToHooks(Convs) /\ run[r].cis \in UpToHooks(0..LoopBound)
        /\ run[r].pc \in PCs
    BY <1>1, RunParts
  <1>3. CASE run[r].pc = "queued"
    <2>. DEFINE none == [d \in DOMAIN converse |-> 0]
    <2>1. Chain(r) = converse /\ Cis(r) = none
      BY <1>3 DEF Chain, Cis
    <2>2. none \in [DOMAIN converse -> 0..LoopBound]
      BY Bounds
    <2>. HIDE DEF none
    <2>3. Cis(r) \in UpToHooks(0..LoopBound) /\ Len(Cis(r)) = Len(Chain(r))
      <3>1. none \in UpToHooks(0..LoopBound) /\ Len(none) = Len(converse)
        BY <1>1, <2>2, HooksOn
      <3>. QED BY <2>1, <3>1
    <2>4. Len(Chain(r)) \in Nat
      BY <1>1, <2>1, HooksAt
    <2>5. run[r].pc \notin InLoop
      BY <1>3 DEF InLoop, Leaving
    <2>. QED BY <1>1, <1>3, <2>1, <2>3, <2>4, <2>5 DEF Calling
  <1>4. CASE run[r].pc # "queued"
    <2>1. Chain(r) = run[r].chain /\ Cis(r) = run[r].cis
      BY <1>4 DEF Chain, Cis
    <2>2. Len(run[r].chain) \in Nat /\ Len(run[r].cis) \in Nat
      BY <1>2, HooksAt
    <2>3. run[r].pc \in Commands \cup InTurn \cup InLoop
      BY <1>2, <1>4 DEF PCs, Arriving
    <2>4. /\ run[r].pc \in Commands \cup InTurn => Len(run[r].cis) = Len(run[r].chain)
          /\ run[r].pc \in InLoop => 1 <= Len(run[r].cis) /\ Len(run[r].cis) <= Len(run[r].chain)
      BY <1>1 DEF Shape
    <2>. QED BY <1>2, <1>4, <2>1, <2>2, <2>3, <2>4 DEF Calling, Inside
  <1>. QED BY <1>3, <1>4

LEMMA AwaitingHooks ==
  ASSUME IInv, NEW r \in Runs, Calling(r)
  PROVE  Awaiting(r) \subseteq 1..MaxHooks
  <1>1. Len(Cis(r)) \in Nat /\ Len(Cis(r)) <= MaxHooks /\ DOMAIN Cis(r) = 1..Len(Cis(r))
    BY HooksAt DEF Calling
  <1>. QED BY <1>1, Bounds DEF Awaiting, Continuing

LEMMA CalledOK ==
  ASSUME IInv, NEW r \in Runs, Calling(r)
  PROVE  /\ Called(r) \in Run /\ Called(r).conv = run[r].conv /\ Called(r).saved = run[r].saved
         /\ Called(r).chain = Chain(r) /\ Called(r).input = "none"
         /\ Called(r).goal = NoGoal
  <1>1. run[r] \in Run
    BY TypeParts DEF IInv
  <1>2. run[r].conv \in Convs /\ run[r].saved \in UpToHooks(Convs) /\ Chain(r) \in UpToHooks(Convs)
    BY <1>1, RunParts DEF Calling
  <1>3. Idle \in Run /\ Idle.input = "none" /\ Idle.goal = NoGoal
    BY IdleOK
  <1>4. /\ run[r].due \in SUBSET (1..MaxHooks)
        /\ (IF r \in cancelled THEN run[r].deaf \cup Awaiting(r) ELSE run[r].deaf)
             \in SUBSET (1..MaxHooks)
    <2>1. run[r].due \subseteq 1..MaxHooks /\ run[r].deaf \subseteq 1..MaxHooks
      BY <1>1, RunParts
    <2>. QED BY <2>1, AwaitingHooks
  <1>. QED BY <1>2, <1>3, <1>4 DEF Called, Run

\* Suspended in hook d of the chain, with goal g.
LEMMA AtParts ==
  ASSUME IInv, NEW r \in Runs, Calling(r), NEW d, NEW pc, NEW g, NEW k
  PROVE  LET x == At(r, pc, d, g, k)
         IN /\ x.pc = pc /\ x.cis = SubSeq(Cis(r), 1, d) /\ x.goal = g /\ x.chain = Chain(r)
            /\ x.conv = run[r].conv /\ x.saved = run[r].saved /\ x.input = "none"
  BY CalledOK DEF At, Run

LEMMA AtPlaced ==
  ASSUME IInv, NEW r \in Runs, Calling(r), NEW d \in 1..Len(Cis(r)), NEW pc \in InLoop,
         NEW g \in Known, NEW k
  PROVE  Placed(r, At(r, pc, d, g, k))
  <1>. DEFINE cis == SubSeq(Cis(r), 1, d)
              x == At(r, pc, d, g, k)
  <1>1. cis \in UpToHooks(0..LoopBound) /\ Len(cis) = d
    BY OuterHooks DEF Calling
  <1>2. d \in Nat /\ 1 <= d /\ d <= Len(Chain(r))
    BY HooksAt DEF Calling
  <1>3. pc \in PCs /\ pc \notin Commands \cup InTurn /\ pc \notin Arriving /\ pc # "arrived"
    BY DEF InLoop, Leaving, PCs, Commands, InTurn, Arriving
  <1>4. Known \subseteq Ids \cup {NoGoal}
    <2>1. /\ \A c \in Convs : mem[c] \in GoalRefs
          /\ \A q \in Runs : run[q].goal \in GoalRefs
          /\ \A c \in Convs : store.pending[c] \in GoalRefs
          /\ store.latest \in GoalRefs
      BY TypeParts, StoreParts, RunParts DEF IInv
    <2>. QED BY <2>1 DEF Known, Named, GoalRefs
  <1>5. /\ x.pc = pc /\ x.cis = cis /\ x.goal = g /\ x.chain = Chain(r)
        /\ x.conv = run[r].conv /\ x.saved = run[r].saved /\ x.input = "none"
    BY AtParts
  <1>. HIDE DEF cis
  <1>6. x \in Run
    <2>1. Called(r) \in Run
      BY CalledOK
    <2>. QED BY <1>1, <1>3, <1>4, <2>1 DEF At, Run, cis
  <1>. HIDE DEF x
  <1>7. Shape(x)
    BY <1>1, <1>2, <1>3, <1>5 DEF Shape
  <1>8. ~Waits(x)
    BY <1>5 DEF Waits
  <1>9. Placed(r, x)
    BY <1>3, <1>5, <1>6, <1>7, <1>8 DEF Placed
  <1>. QED BY <1>9 DEF x

LEMMA AtMoves ==
  ASSUME IInv, NEW r \in Runs, Calling(r), NEW d \in 1..Len(Cis(r)), NEW pc \in InLoop,
         NEW g \in Known, NEW k, run' = [run EXCEPT ![r] = At(r, pc, d, g, k)]
  PROVE  Moves(r) /\ run'[r] = At(r, pc, d, g, k) /\ run'[r].pc # "idle"
  <1>1. Placed(r, At(r, pc, d, g, k))
    BY AtPlaced
  <1>2. run'[r] = At(r, pc, d, g, k)
    BY RunStep, Zenon DEF IInv
  <1>3. At(r, pc, d, g, k).pc = pc /\ pc # "idle"
    BY AtParts DEF InLoop, Leaving
  <1>. QED BY <1>1, <1>2, <1>3 DEF Moves

LEMMA InHookMoves ==
  ASSUME IInv, NEW r \in Runs, Calling(r), NEW d \in 1..Len(Cis(r)), NEW pc \in InLoop,
         NEW g \in Known, InHook(r, pc, d, g)
  PROVE  Moves(r) /\ run'[r].pc # "idle"
  BY AtMoves DEF InHook

\* The task is over.
LEMMA FinishOK ==
  ASSUME IInv, NEW r \in Runs, run[r].pc # "idle", NEW reg, Dropped(reg), Finish(r, reg)
  PROVE  Moves(r) /\ RegStep(r) /\ converse' \in {converse, run[r].saved}
  <1>1. run' = [run EXCEPT ![r] = Idle] /\ run'[r] = Idle
    BY RunStep DEF Finish, IInv
  <1>2. Moves(r)
    BY <1>1, IdlePlaced DEF Moves
  <1>3. registry' = Unregistered(reg, run[r].conv, r)
    BY DEF Finish
  <1>4. run[r].conv \in Convs
    BY TypeParts, RunParts DEF IInv
  <1>5. registry' \in [Convs -> Runs \cup {NoRun}]
    BY <1>3, <1>4 DEF Unregistered, Dropped
  <1>6. ASSUME NEW c \in Convs PROVE registry'[c] \in {registry[c], NoRun} /\ registry'[c] # r
    <2>1. registry'[c] \in {reg[c], NoRun} /\ (c = run[r].conv => registry'[c] # r)
      BY <1>3, <1>4, NoRunAssumption DEF Unregistered, Dropped
    <2>2. registry'[c] \in {registry[c], NoRun}
      BY <2>1 DEF Dropped
    <2>3. registry[c] = r => c = run[r].conv
      BY NoRunAssumption DEF IInv, RegistryNamesLiveRun
    <2>. QED BY <2>1, <2>2, <2>3, NoRunAssumption
  <1>7. RegStep(r)
    BY <1>5, <1>6 DEF RegStep
  <1>. QED BY <1>2, <1>7 DEF Finish

\* What is dropped from the registry leaves only registrations of r under its own
\* conversation.
LEMMA DroppedOK ==
  ASSUME IInv, NEW r \in Runs, NEW reg, Dropped(reg), registry' = reg, run'[r].pc # "idle"
  PROVE  RegStep(r)
  <1>1. ASSUME NEW c \in Convs, reg[c] = r PROVE c = run[r].conv
    <2>1. registry[c] = r
      BY <1>1, NoRunAssumption DEF Dropped
    <2>. QED BY <2>1, NoRunAssumption DEF IInv, RegistryNamesLiveRun
  <1>. QED BY <1>1 DEF RegStep, Dropped

LEMMA MarkedOK ==
  ASSUME NEW s, StoreOK(s), NEW c \in Convs
  PROVE  StoreOK(Marked(s, c))
  <1>1. /\ Marked(s, c) \in Store /\ Marked(s, c).latest = s.latest
        /\ Marked(s, c).pending = s.pending /\ Marked(s, c).completed = s.completed
    BY DEF StoreOK, Marked, Store
  <1>. QED BY <1>1 DEF StoreOK

LEMMA PoppedOK ==
  ASSUME NEW s, StoreOK(s), NEW c \in Convs
  PROVE  StoreOK(Popped(s, c)) /\ Prompt(s, c) \in Known
  <1>1. /\ s.pending \in [Convs -> GoalRefs] /\ s \in Store
    BY StoreParts DEF StoreOK
  <1>2. /\ Popped(s, c) \in Store
        /\ Popped(s, c).latest \in {s.latest, NoGoal} /\ Popped(s, c).completed = s.completed
        /\ \A d \in Convs : Popped(s, c).pending[d] \in {s.pending[d], NoGoal}
    BY <1>1 DEF Popped, Store, GoalRefs
  <1>3. NoGoal \in Known
    BY KnownGoals
  <1>4. StoreOK(Popped(s, c))
    BY <1>2, <1>3 DEF StoreOK
  <1>5. Prompt(s, c) \in Known
    BY <1>1 DEF Prompt, StoreOK
  <1>. QED BY <1>4, <1>5

LEMMA LoopTopOK ==
  ASSUME IInv, NEW r \in Runs, Calling(r), NEW d \in 1..Len(Cis(r)), NEW s, StoreOK(s),
         MemDrops, LoopTop(r, d, s)
  PROVE  Moves(r) /\ run'[r].pc # "idle" /\ StoreOK(store')
  <1>. DEFINE c == run[r].conv
              h == Chain(r)[d]
              own == IF s.pending[c] # NoGoal THEN c ELSE h
  <1>1. c \in Convs /\ h \in Convs
    <2>1. run[r] \in Run
      BY TypeParts DEF IInv
    <2>2. d \in 1..Len(Chain(r))
      BY HooksAt DEF Calling
    <2>. QED BY <2>1, <2>2, RunParts, HooksAt DEF Calling
  <1>2. own \in Convs
    BY <1>1
  <1>3. "exit" \in InLoop /\ "gap" \in InLoop
    BY DEF InLoop, Leaving
  <1>4. NoGoal \in Known /\ mem'[c] \in Known /\ mem'[h] \in Known
    BY <1>1, KnownGoals DEF MemDrops
  <1>5. StoreOK([s EXCEPT !.shouldEnd = FALSE])
    <2>1. /\ [s EXCEPT !.shouldEnd = FALSE] \in Store
          /\ [s EXCEPT !.shouldEnd = FALSE].latest = s.latest
          /\ [s EXCEPT !.shouldEnd = FALSE].pending = s.pending
          /\ [s EXCEPT !.shouldEnd = FALSE].completed = s.completed
      BY DEF StoreOK, Store
    <2>. QED BY <2>1 DEF StoreOK
  <1>6. StoreOK(Popped(s, own)) /\ Prompt(s, own) \in Known
    BY <1>2, PoppedOK
  <1>. HIDE DEF own
  <1>7. /\ store' \in {s, [s EXCEPT !.shouldEnd = FALSE], Popped(s, own)}
        /\ \E pc \in {"exit", "gap"}, g \in {NoGoal, Prompt(s, own), mem'[c], mem'[h]} :
             InHook(r, pc, d, g)
    BY DEF LoopTop, own
  <1>8. PICK pc \in {"exit", "gap"}, g \in {NoGoal, Prompt(s, own), mem'[c], mem'[h]} :
          InHook(r, pc, d, g)
    BY <1>7
  <1>9. pc \in InLoop /\ g \in Known
    BY <1>3, <1>4, <1>6, <1>8
  <1>10. Moves(r) /\ run'[r].pc # "idle"
    BY <1>8, <1>9, InHookMoves
  <1>. QED BY <1>5, <1>6, <1>7, <1>10

LEMMA LandOK ==
  ASSUME IInv, NEW r \in Runs, run[r].pc \notin {"idle", "arrived"},
         NEW s, StoreOK(s), NEW reg, Dropped(reg),
         NEW n \in Nat, n <= Len(Cis(r)), MemDrops, Land(r, s, n, reg)
  PROVE  Landed(r)
  <1>1. Calling(r)
    BY CallingOK
  <1>2. CASE Stops(r, s, n) = {}
    <2>1. store' = s /\ Finish(r, reg)
      BY <1>2 DEF Land
    <2>. QED BY <2>1, FinishOK DEF Landed
  <1>3. CASE Stops(r, s, n) # {}
    <2>. DEFINE d == Innermost(Stops(r, s, n))
    <2>1. Stops(r, s, n) \in SUBSET (1..n)
      BY DEF Stops
    <2>2. d \in Stops(r, s, n)
      BY <1>3, <2>1, InnermostIn
    <2>3. d \in 1..Len(Cis(r)) /\ Chain(r)[d] \in Convs
      <3>1. Len(Cis(r)) \in Nat /\ Len(Chain(r)) \in Nat /\ Len(Cis(r)) <= Len(Chain(r))
        BY <1>1, HooksAt DEF Calling
      <3>2. d \in 1..n
        BY <2>1, <2>2
      <3>3. d \in 1..Len(Cis(r)) /\ d \in 1..Len(Chain(r))
        BY <3>1, <3>2
      <3>. QED BY <1>1, <3>3, HooksAt DEF Calling
    <2>. HIDE DEF d
    <2>4. /\ registry' = reg /\ converse' = converse
          /\ \/ store' = s /\ InHook(r, "sleep", d, NoGoal)
             \/ LoopTop(r, d, Marked(s, Chain(r)[d]))
      BY <1>3 DEF Land, d
    <2>5. Moves(r) /\ run'[r].pc # "idle" /\ StoreOK(store')
      <3>1. CASE store' = s /\ InHook(r, "sleep", d, NoGoal)
        <4>1. "sleep" \in InLoop /\ NoGoal \in Known
          BY KnownGoals DEF InLoop
        <4>. QED BY <1>1, <2>3, <3>1, <4>1, InHookMoves
      <3>2. CASE LoopTop(r, d, Marked(s, Chain(r)[d]))
        <4>1. StoreOK(Marked(s, Chain(r)[d]))
          BY <2>3, MarkedOK
        <4>. QED BY <1>1, <2>3, <3>2, <4>1, LoopTopOK
      <3>. QED BY <2>4, <3>1, <3>2
    <2>. QED BY <2>4, <2>5, DroppedOK DEF Landed
  <1>. QED BY <1>2, <1>3

LEMMA EscapeOK ==
  ASSUME IInv, NEW r \in Runs, run[r].pc \notin {"idle", "arrived"},
         NEW reg, Dropped(reg), NEW n \in Nat, StoreOK(store'), Escape(r, n, reg)
  PROVE  Landed(r)
  <1>. DEFINE D == {d \in Continuing(r) : d <= n}
  <1>1. Calling(r)
    BY CallingOK
  <1>2. CASE D = {}
    <2>1. Finish(r, reg)
      BY <1>2 DEF Escape
    <2>. QED BY <2>1, FinishOK DEF Landed
  <1>3. CASE D # {}
    <2>1. Len(Cis(r)) \in Nat /\ DOMAIN Cis(r) = 1..Len(Cis(r))
      BY <1>1, HooksAt DEF Calling
    <2>2. D \in SUBSET (1..Len(Cis(r)))
      BY <2>1 DEF Continuing
    <2>. DEFINE d == Innermost(D)
    <2>3. d \in 1..Len(Cis(r))
      BY <1>3, <2>1, <2>2, InnermostIn
    <2>4. /\ run' = [run EXCEPT ![r] = At(r, "unwind", d, NoGoal, d)]
          /\ registry' = reg /\ converse' = converse
      BY <1>3 DEF Escape
    <2>. HIDE DEF d
    <2>5. "unwind" \in InLoop /\ NoGoal \in Known
      BY KnownGoals DEF InLoop
    <2>6. Moves(r) /\ run'[r].pc # "idle"
      BY <1>1, <2>3, <2>4, <2>5, AtMoves
    <2>. QED BY <2>4, <2>6, DroppedOK DEF Landed
  <1>. QED BY <1>2, <1>3

LEMMA ReturnedOK ==
  ASSUME IInv, NEW r \in Runs, run[r].pc \in Inside, NEW s, StoreOK(s), MemDrops,
         Returned(r, s)
  PROVE  Landed(r)
  <1>. DEFINE reg == IF run[r].pc \in InTurn THEN Unregistered(registry, run[r].conv, r)
                     ELSE registry
              n == Len(Chain(r))
  <1>1. run[r].pc \notin {"idle", "arrived"}
    BY DEF Inside, Commands, InTurn
  <1>2. Len(Cis(r)) = n /\ n \in Nat /\ n <= Len(Cis(r))
    <2>1. Calling(r) /\ Len(Cis(r)) = n
      BY <1>1, CallingOK
    <2>2. n \in Nat
      BY <2>1, HooksAt DEF Calling
    <2>. QED BY <2>1, <2>2
  <1>3. Dropped(reg)
    <2>1. registry \in [Convs -> Runs \cup {NoRun}] /\ run[r] \in Run
      BY TypeParts DEF IInv
    <2>2. run[r].conv \in Convs
      BY <2>1, RunParts
    <2>. QED BY <2>1, <2>2 DEF Dropped, Unregistered
  <1>4. Land(r, s, n, reg)
    BY DEF Returned
  <1>. HIDE DEF n, reg
  <1>. QED BY <1>1, <1>2, <1>3, <1>4, LandOK

\* The event loop does nothing to the runs.
LEMMA AsideOK ==
  ASSUME IInv, UNCHANGED <<run, store, registry, converse>>, MemDrops, RestOK'
  PROVE  IInv'
  <1>1. /\ TypeOK /\ RegistryNamesLiveRun /\ RoomForHooks /\ RoomForGoals /\ OneHolder
        /\ CompletedHasNoPrompt /\ \A q \in Runs : Shape(run[q])
    BY Zenon DEF IInv
  <1>2. TypeOK'
    BY <1>1, Zenon DEF TypeOK, RestOK, MemDrops, GoalRefs
  <1>3. RoomForHooks' /\ RegistryNamesLiveRun' /\ CompletedHasNoPrompt'
    BY <1>1, Zenon DEF RoomForHooks, Chains, Arrived, RegistryNamesLiveRun,
                       CompletedHasNoPrompt
  <1>4. RoomForGoals'
    <2>1. Waiting' = Waiting
      BY DEF Waiting
    <2>2. Fresh \subseteq Fresh' /\ Fresh' \subseteq Ids
      <3>1. Named' \subseteq Named \cup {NoGoal}
        BY DEF Named, MemDrops
      <3>. QED BY <3>1, NoGoalAssumption DEF Fresh
    <2>3. /\ Cardinality(Fresh) <= Cardinality(Fresh')
          /\ Cardinality(Fresh) \in Nat /\ Cardinality(Fresh') \in Nat
      BY <2>2, SetAssumption, FS_Subset, FS_CardinalityType
    <2>4. Cardinality(Waiting) \in Nat
      <3>1. Waiting \in SUBSET Runs
        BY DEF Waiting
      <3>. QED BY <3>1, ArrivedFinite
    <2>. QED BY <1>1, <2>1, <2>3, <2>4 DEF RoomForGoals
  <1>5. OneHolder'
    BY <1>1 DEF OneHolder, MemDrops
  <1>. QED BY <1>1, <1>2, <1>3, <1>4, <1>5, Zenon DEF IInv

-----------------------------------------------------------------------------
(* Goals.                                                                    *)

LEMMA Limits == MaxTurns \in Nat /\ MaxParseFailures \in Nat /\ MaxParseFailures >= 1
  BY MaxTurnsAssumption, MaxParseFailuresAssumption

LEMMA NewGoalOK == NewGoal \in Goal
  BY Limits DEF NewGoal, Goal, Statuses

LEMMA ChangedOK ==
  ASSUME NEW g \in Goal
  PROVE  /\ Paused(g) \in Goal /\ Paused(g).status = "paused"
         /\ Resumed(g) \in Goal
         /\ TurnCounted(g) \in Goal /\ TurnCounted(g).status = g.status
  <1>1. UpTo(MaxTurns, g.turns + 1) \in 0..MaxTurns
    BY Limits DEF UpTo, Goal
  <1>2. 0 \in 0..MaxTurns /\ 0 \in 0..MaxParseFailures
    BY Limits
  <1>3. Paused(g) \in Goal /\ Paused(g).status = "paused"
    BY DEF Paused, Goal, Statuses
  <1>4. Resumed(g) \in Goal
    BY <1>2 DEF Resumed, Goal, Statuses
  <1>5. TurnCounted(g) \in Goal /\ TurnCounted(g).status = g.status
    BY <1>1 DEF TurnCounted, Goal
  <1>. QED BY <1>3, <1>4, <1>5

LEMMA JudgedOK ==
  ASSUME NEW g \in Goal, NEW v \in Verdicts
  PROVE  /\ Judged(g, v) \in Goal
         /\ g.status # "active" => Judged(g, v).status # "active"
         /\ Halts(g, v) \in BOOLEAN
  <1>1. Failures(g, v) \in 0..MaxParseFailures
    BY Limits DEF Failures, UpTo, Goal
  <1>2. StatusAfter(g, v) \in Statuses /\ (StatusAfter(g, v) = "active" => g.status = "active")
    BY DEF StatusAfter, Statuses, Goal
  <1>3. Halts(g, v) \in BOOLEAN
    BY DEF Halts, MustPause
  <1>. QED BY <1>1, <1>2, <1>3 DEF Judged, Goal

LEMMA MemStays == TypeOK /\ UNCHANGED mem => MemDrops
  BY TypeParts DEF MemDrops

LEMMA HeapStays == UNCHANGED heap => NoneRevived
  BY DEF NoneRevived

\* What conversations hold is not swept away.
LEMMA SweptOK ==
  ASSUME TypeOK, MemDrops, NEW H, \A c \in Convs : mem'[c] \in H,
         heap' = [g \in Ids |-> IF g \in H THEN heap[g] ELSE NewGoal]
  PROVE  heap' \in [Ids -> Goal] /\ NoneRevived
  <1>1. heap \in [Ids -> Goal] /\ mem \in [Convs -> GoalRefs]
    BY TypeParts
  <1>2. heap' \in [Ids -> Goal]
    BY <1>1, NewGoalOK
  <1>3. ASSUME NEW c \in Convs, mem[c] # NoGoal, mem'[c] = mem[c]
        PROVE  heap'[mem[c]] = heap[mem[c]]
    <2>1. mem[c] \in Ids /\ mem[c] \in H
      BY <1>1, <1>3 DEF GoalRefs
    <2>. QED BY <2>1
  <1>. QED BY <1>2, <1>3 DEF NoneRevived

LEMMA ChangeOK ==
  ASSUME TypeOK, UNCHANGED mem, NEW g \in Ids, NEW x \in Goal,
         heap' = [heap EXCEPT ![g] = x], heap[g].status # "active" => x.status # "active"
  PROVE  heap' \in [Ids -> Goal] /\ NoneRevived
  <1>1. heap \in [Ids -> Goal] /\ mem \in [Convs -> GoalRefs]
    BY TypeParts
  <1>2. ASSUME NEW c \in Convs, mem[c] # NoGoal, heap[mem[c]].status # "active"
        PROVE  heap'[mem[c]].status # "active"
    <2>1. mem[c] \in Ids
      BY <1>1, <1>2 DEF GoalRefs
    <2>. QED BY <1>1, <1>2, <2>1
  <1>. QED BY <1>1, <1>2 DEF NoneRevived

LEMMA HolderHeld ==
  ASSUME NEW m, NEW rn, NEW c \in Convs
  PROVE  m[c] \in Held(m, rn)
  BY DEF Held

-----------------------------------------------------------------------------
(* The actions of a message.                                                 *)

Good(r) == Effect(r) /\ NoneRevived

\* Most actions leave goals and the rest alone and return.
LEMMA QuietOK ==
  ASSUME IInv, NEW r \in Runs, Landed(r),
         UNCHANGED <<mem, heap, clearing, taskLoop, activeConv>>, cancelled' \subseteq Runs
  PROVE  Good(r)
  <1>1. TypeOK /\ RestOK
    BY RestParts DEF IInv
  <1>2. RestOK'
    BY <1>1 DEF RestOK
  <1>. QED BY <1>1, <1>2, MemStays, HeapStays DEF Good, Effect

LEMMA CancelledIn == IInv => cancelled \subseteq Runs
  BY TypeParts DEF IInv

LEMMA MemUnchanged == IInv /\ UNCHANGED mem => MemDrops
  BY MemStays DEF IInv

LEMMA StartTurnOK ==
  ASSUME IInv, NEW r \in Runs, run[r].pc \notin {"idle", "arrived"},
         NEW cis \in UpToHooks(0..LoopBound), Len(cis) = Len(Chain(r)),
         StartTurn(r, cis), UNCHANGED <<mem, heap>>
  PROVE  Good(r)
  <1>. DEFINE c == run[r].conv
              x == [Called(r) EXCEPT !.pc = "turn", !.cis = cis]
  <1>1. TypeOK /\ RestOK /\ Calling(r)
    BY RestParts, CallingOK DEF IInv
  <1>2. /\ Called(r) \in Run /\ Called(r).conv = c /\ Called(r).saved = run[r].saved
        /\ Called(r).chain = Chain(r) /\ Called(r).input = "none" /\ Called(r).goal = NoGoal
    BY <1>1, CalledOK
  <1>3. "turn" \in PCs /\ "turn" \in InTurn /\ "turn" \notin InLoop /\ "turn" \notin Arriving
    BY DEF PCs, InTurn, InLoop, Leaving, Arriving
  <1>4. c \in Convs
    BY <1>1, TypeParts, RunParts
  <1>5. /\ run' = [run EXCEPT ![r] = x] /\ registry' = [registry EXCEPT ![c] = r]
        /\ taskLoop' = [taskLoop EXCEPT ![c] = IF @ = "unseen" THEN "active" ELSE @]
        /\ activeConv' = c /\ UNCHANGED <<store, cancelled, clearing, converse>>
    BY DEF StartTurn
  <1>6. /\ x \in Run /\ x.pc = "turn" /\ x.cis = cis /\ x.chain = Chain(r) /\ x.conv = c
        /\ x.saved = run[r].saved /\ x.input = "none" /\ x.goal = NoGoal
    BY <1>2, <1>3 DEF Run
  <1>. HIDE DEF x, c
  <1>7. Placed(r, x)
    <2>1. Shape(x)
      BY <1>3, <1>6 DEF Shape
    <2>. QED BY <1>3, <1>6, <2>1, KnownGoals DEF Placed, Waits, c
  <1>8. Moves(r) /\ run'[r].pc = "turn"
    BY <1>1, <1>5, <1>6, <1>7, RunStep DEF Moves
  <1>9. RegStep(r)
    <2>1. registry \in [Convs -> Runs \cup {NoRun}]
      BY <1>1, TypeParts
    <2>2. ASSUME NEW d \in Convs, registry'[d] = r PROVE d = c
      <3>1. d # c => registry[d] = r
        BY <1>5, <2>1, <2>2
      <3>2. registry[d] = r => d = run[r].conv
        BY NoRunAssumption DEF IInv, RegistryNamesLiveRun
      <3>. QED BY <3>1, <3>2 DEF c
    <2>. QED BY <1>4, <1>5, <1>8, <2>1, <2>2 DEF RegStep, c
  <1>10. RestOK'
    BY <1>1, <1>4, <1>5 DEF RestOK
  <1>11. StoreOK(store')
    BY <1>5, OldStoreOK
  <1>. QED BY <1>1, <1>5, <1>8, <1>9, <1>10, <1>11, MemStays, HeapStays
        DEF Good, Effect, Landed

LEMMA TurnOK ==
  ASSUME IInv, NEW r \in Runs, Turn(r) \/ GoalSetDone(r)
  PROVE  Good(r)
  <1>1. /\ run[r].pc \in {"queued", "set"} /\ StartTurn(r, Cis(r))
        /\ UNCHANGED <<mem, heap>>
    BY DEF Turn, GoalSetDone, Asked, Ready
  <1>2. run[r].pc \notin {"idle", "arrived"} /\ run[r].pc \in Inside
    BY <1>1 DEF Inside, Commands
  <1>3. Cis(r) \in UpToHooks(0..LoopBound) /\ Len(Cis(r)) = Len(Chain(r))
    BY <1>2, CallingOK DEF Calling
  <1>. QED BY <1>1, <1>2, <1>3, StartTurnOK

LEMMA ContinueOK ==
  ASSUME IInv, NEW r \in Runs, Continue(r)
  PROVE  Good(r)
  <1>. DEFINE cis == run[r].cis
              chain == run[r].chain
              d == Len(cis)
              f == [e \in DOMAIN chain |->
                      IF e > d THEN 0 ELSE IF e = d THEN UpTo(LoopBound, cis[d] + 1)
                      ELSE cis[e]]
  <1>1. run[r].pc = "gap" /\ StartTurn(r, f) /\ UNCHANGED <<mem, heap>>
    BY DEF Continue, Ready
  <1>2. run[r].pc \notin {"idle", "arrived"} /\ run[r].pc \in InLoop
    BY <1>1 DEF InLoop
  <1>3. Calling(r) /\ Chain(r) = chain /\ Cis(r) = cis /\ d >= 1
    BY <1>2, CallingOK
  <1>4. chain \in UpToHooks(Convs) /\ cis \in UpToHooks(0..LoopBound) /\ d <= Len(chain)
    BY <1>3 DEF Calling
  <1>5. /\ d \in Nat /\ Len(chain) \in Nat /\ DOMAIN chain = 1..Len(chain)
        /\ \A e \in 1..d : cis[e] \in 0..LoopBound
    BY <1>4, HooksAt
  <1>6. f \in [DOMAIN chain -> 0..LoopBound]
    <2>1. UpTo(LoopBound, cis[d] + 1) \in 0..LoopBound
      BY <1>3, <1>5, Bounds DEF UpTo
    <2>2. 0 \in 0..LoopBound
      BY Bounds
    <2>. QED BY <1>3, <1>5, <2>1, <2>2
  <1>. HIDE DEF f
  <1>7. f \in UpToHooks(0..LoopBound) /\ Len(f) = Len(Chain(r))
    BY <1>3, <1>4, <1>6, HooksOn
  <1>. QED BY <1>1, <1>2, <1>7, StartTurnOK

\* A run that stays in its turn or command, with another place in it.
LEMMA StaysOK ==
  ASSUME IInv, NEW r \in Runs, NEW x \in Run, run' = [run EXCEPT ![r] = x],
         x.pc \in Commands \cup InTurn \cup InLoop, Shape(x), x.goal \in Known,
         x.conv = run[r].conv, x.saved = run[r].saved,
         UNCHANGED <<registry, converse>>, StoreOK(store')
  PROVE  Landed(r)
  <1>1. x.pc \notin Arriving /\ x.pc # "idle" /\ x.pc # "arrived"
    BY DEF Commands, InTurn, InLoop, Leaving, Arriving
  <1>2. Placed(r, x)
    BY <1>1 DEF Placed, Waits
  <1>3. Moves(r) /\ run'[r] = x
    BY <1>2, RunStep DEF Moves, IInv
  <1>4. Dropped(registry)
    BY TypeParts DEF Dropped, IInv
  <1>. QED BY <1>1, <1>3, <1>4, DroppedOK DEF Landed

\* Suspended in a command that was just called.
LEMMA InCommandOK ==
  ASSUME IInv, NEW r \in Runs, run[r].pc = "queued", NEW pc \in Commands, InCommand(r, pc)
  PROVE  \E x \in Run :
           /\ run' = [run EXCEPT ![r] = x] /\ x.pc = pc /\ Shape(x) /\ x.goal = run[r].goal
           /\ x.conv = run[r].conv /\ x.saved = run[r].saved
  <1>. DEFINE x == [run[r] EXCEPT !.pc = pc, !.chain = Chain(r), !.cis = Cis(r)]
  <1>1. Calling(r) /\ Len(Cis(r)) = Len(Chain(r))
    BY CallingOK DEF Inside
  <1>2. run[r] \in Run /\ run \in [Runs -> Run]
    BY TypeParts DEF IInv
  <1>3. pc \in PCs /\ pc \notin InLoop
    BY DEF PCs, Commands, InLoop, Leaving
  <1>4. run' = [run EXCEPT ![r] = x]
    BY <1>2 DEF InCommand
  <1>5. /\ x \in Run /\ x.pc = pc /\ x.chain = Chain(r) /\ x.cis = Cis(r)
        /\ x.goal = run[r].goal /\ x.conv = run[r].conv /\ x.saved = run[r].saved
    BY <1>1, <1>2, <1>3 DEF Run, Calling
  <1>. HIDE DEF x
  <1>6. Shape(x)
    BY <1>1, <1>3, <1>5 DEF Shape
  <1>. QED BY <1>4, <1>5, <1>6

LEMMA ChangeGoalOK ==
  ASSUME IInv, NEW r \in Runs, run[r].pc = "queued", NEW changed \in [Ids -> Goal],
         ChangeGoal(r, changed)
  PROVE  /\ Effect(r)
         /\ \A c \in Convs \ {run[r].conv} :
              mem[c] # NoGoal => heap'[mem[c]] = heap[mem[c]]
         /\ (\A g \in Ids : changed[g].status # "active") => NoneRevived
  <1>. DEFINE g == mem[run[r].conv]
  <1>1. TypeOK /\ RestOK /\ run[r] \in Run /\ OneHolder
    BY RestParts, TypeParts DEF IInv
  <1>2. run[r].conv \in Convs
    BY <1>1, RunParts
  <1>3. UNCHANGED <<mem, cancelled, clearing, taskLoop, activeConv>>
    BY DEF ChangeGoal
  <1>4. CASE g = NoGoal
    <2>1. UNCHANGED heap /\ Returned(r, store)
      BY <1>4 DEF ChangeGoal
    <2>2. Landed(r)
      BY <1>3, <2>1, ReturnedOK, OldStoreOK, MemUnchanged DEF Inside
    <2>3. Good(r)
      BY <1>3, <2>1, <2>2, QuietOK, CancelledIn
    <2>. QED BY <2>1, <2>3 DEF Good
  <1>5. CASE g # NoGoal
    <2>1. /\ heap' = [heap EXCEPT ![g] = changed[g]] /\ InCommand(r, "saving")
          /\ UNCHANGED <<store, registry, converse>>
      BY <1>5 DEF ChangeGoal
    <2>2. g \in Ids /\ heap \in [Ids -> Goal] /\ mem \in [Convs -> GoalRefs]
      BY <1>1, <1>2, <1>5, TypeParts DEF GoalRefs
    <2>3. "saving" \in Commands
      BY DEF Commands
    <2>4. PICK x \in Run :
            /\ run' = [run EXCEPT ![r] = x] /\ x.pc = "saving" /\ Shape(x)
            /\ x.goal = run[r].goal /\ x.conv = run[r].conv /\ x.saved = run[r].saved
      BY <2>1, <2>3, InCommandOK
    <2>5. Landed(r)
      BY <2>1, <2>3, <2>4, StaysOK, OldStoreOK, KnownGoals
    <2>6. heap' \in [Ids -> Goal]
      BY <2>1, <2>2
    <2>7. RestOK'
      BY <1>1, <1>3, <2>6 DEF RestOK
    <2>8. Effect(r)
      BY <1>3, <2>5, <2>7, MemUnchanged DEF Effect
    <2>9. ASSUME NEW c \in Convs \ {run[r].conv}, mem[c] # NoGoal
          PROVE  heap'[mem[c]] = heap[mem[c]]
      <3>1. mem[c] \in Ids /\ mem[c] # g
        BY <1>1, <1>2, <2>2, <2>9 DEF OneHolder, GoalRefs
      <3>. QED BY <2>1, <2>2, <3>1
    <2>10. ASSUME \A h \in Ids : changed[h].status # "active" PROVE NoneRevived
      <3>1. changed[g] \in Goal /\ changed[g].status # "active"
        BY <2>2, <2>10
      <3>. QED BY <1>1, <1>3, <2>1, <2>2, <3>1, ChangeOK
    <2>. QED BY <2>8, <2>9, <2>10
  <1>. QED BY <1>4, <1>5

LEMMA PauseOK ==
  ASSUME IInv, NEW r \in Runs, GoalPause(r)
  PROVE  Good(r)
  <1>. DEFINE changed == [g \in Ids |-> Paused(heap[g])]
  <1>1. run[r].pc = "queued" /\ ChangeGoal(r, changed)
    BY DEF GoalPause, Asked, Ready
  <1>2. \A g \in Ids : Paused(heap[g]) \in Goal /\ Paused(heap[g]).status = "paused"
    BY TypeParts, ChangedOK DEF IInv
  <1>3. changed \in [Ids -> Goal] /\ \A g \in Ids : changed[g].status # "active"
    BY <1>2
  <1>. HIDE DEF changed
  <1>. QED BY <1>1, <1>3, ChangeGoalOK DEF Good

LEMMA ResumeOK ==
  ASSUME IInv, NEW r \in Runs, GoalResume(r)
  PROVE  /\ Effect(r)
         /\ \A c \in Convs \ {run[r].conv} :
              mem[c] # NoGoal => heap'[mem[c]] = heap[mem[c]]
  <1>. DEFINE changed == [g \in Ids |-> Resumed(heap[g])]
  <1>1. run[r].pc = "queued" /\ ChangeGoal(r, changed)
    BY DEF GoalResume, Asked, Ready
  <1>2. \A g \in Ids : Resumed(heap[g]) \in Goal
    BY TypeParts, ChangedOK DEF IInv
  <1>3. changed \in [Ids -> Goal]
    BY <1>2
  <1>. HIDE DEF changed
  <1>. QED BY <1>1, <1>3, ChangeGoalOK

LEMMA GoalSavedOK ==
  ASSUME IInv, NEW r \in Runs, GoalSaved(r) \/ TurnReturned(r)
  PROVE  Good(r)
  <1>1. /\ run[r].pc \in {"saving", "wrap"} /\ Returned(r, store)
        /\ UNCHANGED <<mem, heap, cancelled, clearing, taskLoop, activeConv>>
    BY DEF GoalSaved, TurnReturned, Ready
  <1>2. run[r].pc \in Inside
    BY <1>1 DEF Inside, Commands, InTurn
  <1>3. Landed(r)
    BY <1>1, <1>2, ReturnedOK, OldStoreOK, MemUnchanged
  <1>. QED BY <1>1, <1>3, QuietOK, CancelledIn

LEMMA GoalClearOK ==
  ASSUME IInv, NEW r \in Runs, GoalClear(r)
  PROVE  Good(r)
  <1>1. /\ run[r].pc = "queued"
        /\ UNCHANGED <<mem, heap, cancelled, clearing, taskLoop, activeConv>>
    BY DEF GoalClear, Asked, Ready
  <1>2. Landed(r)
    <2>1. CASE Returned(r, store)
      BY <1>1, <2>1, ReturnedOK, OldStoreOK, MemUnchanged DEF Inside
    <2>2. CASE InCommand(r, "clearing") /\ UNCHANGED <<store, registry, converse>>
      <3>1. "clearing" \in Commands
        BY DEF Commands
      <3>2. PICK x \in Run :
              /\ run' = [run EXCEPT ![r] = x] /\ x.pc = "clearing" /\ Shape(x)
              /\ x.goal = run[r].goal /\ x.conv = run[r].conv /\ x.saved = run[r].saved
        BY <1>1, <2>2, <3>1, InCommandOK
      <3>. QED BY <2>2, <3>1, <3>2, StaysOK, OldStoreOK, KnownGoals
    <2>. QED BY <2>1, <2>2 DEF GoalClear
  <1>. QED BY <1>1, <1>2, QuietOK, CancelledIn

LEMMA GoalClearedOK ==
  ASSUME IInv, NEW r \in Runs, GoalCleared(r)
  PROVE  Good(r)
  <1>1. /\ run[r].pc = "clearing" /\ Returned(r, store)
        /\ mem' = [mem EXCEPT ![run[r].conv] = NoGoal]
        /\ heap' = [g \in Ids |-> IF g \in Held(mem', run) THEN heap[g] ELSE NewGoal]
        /\ UNCHANGED <<cancelled, clearing, taskLoop, activeConv>>
    BY DEF GoalCleared, Ready
  <1>2. TypeOK /\ RestOK
    BY RestParts DEF IInv
  <1>3. MemDrops
    BY <1>1, <1>2, TypeParts DEF MemDrops, GoalRefs
  <1>4. heap' \in [Ids -> Goal] /\ NoneRevived
    BY <1>1, <1>2, <1>3, HolderHeld, SweptOK
  <1>5. Landed(r)
    BY <1>1, <1>3, ReturnedOK, OldStoreOK DEF Inside, Commands
  <1>6. RestOK'
    BY <1>1, <1>2, <1>4 DEF RestOK
  <1>. QED BY <1>3, <1>4, <1>5, <1>6 DEF Good, Effect

\* What _finalize_completed_response files.
LEMMA FiledOK ==
  ASSUME IInv, NEW c \in Convs, NEW g \in Known, NEW v \in BOOLEAN
  PROVE  StoreOK(Closed(store, c, v)) /\ StoreOK(Continued(store, c, g))
  <1>1. StoreOK(store) /\ store \in Store /\ NoGoal \in Known /\ g \in GoalRefs
    <2>1. /\ \A d \in Convs : mem[d] \in GoalRefs /\ store.pending[d] \in GoalRefs
          /\ \A q \in Runs : run[q].goal \in GoalRefs
          /\ store.latest \in GoalRefs
      BY TypeParts, StoreParts, RunParts DEF IInv
    <2>. QED BY <2>1, OldStoreOK, KnownGoals DEF StoreOK, Known, Named, GoalRefs
  <1>2. /\ Closed(store, c, v) \in Store
        /\ Closed(store, c, v).latest = NoGoal
        /\ Closed(store, c, v).pending = [store.pending EXCEPT ![c] = NoGoal]
        /\ Closed(store, c, v).completed \subseteq store.completed \cup {c}
    BY <1>1 DEF Closed, Store
  <1>3. /\ Continued(store, c, g) \in Store
        /\ Continued(store, c, g).latest = g
        /\ Continued(store, c, g).pending = [store.pending EXCEPT ![c] = g]
        /\ Continued(store, c, g).completed = store.completed \ {c}
    BY <1>1 DEF Continued, Store, GoalRefs
  <1>4. store.pending \in [Convs -> GoalRefs]
    BY <1>1, StoreParts
  <1>. QED BY <1>1, <1>2, <1>3, <1>4 DEF StoreOK

LEMMA TurnAnsweredOK ==
  ASSUME IInv, NEW r \in Runs, TurnAnswered(r)
  PROVE  Good(r)
  <1>. DEFINE c == run[r].conv
  <1>1. TypeOK /\ RestOK /\ run[r] \in Run /\ Shape(run[r]) /\ run \in [Runs -> Run]
    BY RestParts, TypeParts DEF IInv
  <1>2. c \in Convs /\ heap \in [Ids -> Goal] /\ mem \in [Convs -> GoalRefs]
    BY <1>1, TypeParts, RunParts
  <1>3. /\ run[r].pc = "turn" /\ UNCHANGED <<mem, registry, cancelled, clearing, activeConv, converse>>
        /\ taskLoop' \in {taskLoop, [taskLoop EXCEPT ![c] = "inactive"]}
    BY DEF TurnAnswered, Ready
  <1>4. /\ "turn" \in InTurn /\ "judge" \in InTurn /\ "wrap" \in InTurn
        /\ "judge" \notin InLoop /\ "wrap" \notin InLoop
        /\ "judge" \in PCs /\ "wrap" \in PCs
    BY DEF InTurn, InLoop, Leaving, PCs
  <1>5. heap' \in [Ids -> Goal] /\ NoneRevived /\ Landed(r)
    <2>1. CASE Active(mem, heap, c)
      <3>1. mem[c] \in Ids /\ mem[c] \in Known
        BY <1>2, <2>1, KnownGoals DEF Active, GoalRefs
      <3>2. /\ run' = [run EXCEPT ![r] = [run[r] EXCEPT !.pc = "judge", !.goal = mem[c]]]
            /\ heap' = [heap EXCEPT ![mem[c]] = TurnCounted(heap[mem[c]])]
            /\ UNCHANGED store
        BY <1>1, <1>2, <2>1, <3>1 DEF TurnAnswered
      <3>3. heap[mem[c]] \in Goal
        BY <1>2, <3>1
      <3>4. heap' \in [Ids -> Goal] /\ NoneRevived
        BY <1>1, <1>3, <3>1, <3>2, <3>3, ChangedOK, ChangeOK
      <3>. DEFINE x == [run[r] EXCEPT !.pc = "judge", !.goal = mem[c]]
      <3>5. /\ x \in Run /\ x.pc = "judge" /\ x.goal = mem[c] /\ x.conv = c
            /\ x.saved = run[r].saved /\ x.cis = run[r].cis /\ x.chain = run[r].chain
        BY <1>1, <1>4, <3>1 DEF Run
      <3>. HIDE DEF x
      <3>6. Shape(x)
        BY <1>1, <1>3, <1>4, <3>5 DEF Shape
      <3>7. Landed(r)
        BY <1>3, <1>4, <3>1, <3>2, <3>5, <3>6, StaysOK, OldStoreOK DEF x
      <3>. QED BY <3>4, <3>7
    <2>2. CASE ~Active(mem, heap, c)
      <3>1. /\ run' = [run EXCEPT ![r] = [run[r] EXCEPT !.pc = "wrap"]]
            /\ store' = Closed(store, c, FALSE) /\ UNCHANGED heap
        BY <1>1, <2>2 DEF TurnAnswered, Goto
      <3>. DEFINE x == [run[r] EXCEPT !.pc = "wrap"]
      <3>2. /\ x \in Run /\ x.pc = "wrap" /\ x.goal = run[r].goal /\ x.conv = c
            /\ x.saved = run[r].saved /\ x.cis = run[r].cis /\ x.chain = run[r].chain
        BY <1>1, <1>4 DEF Run
      <3>. HIDE DEF x
      <3>3. Shape(x)
        BY <1>1, <1>3, <1>4, <3>2 DEF Shape
      <3>4. StoreOK(store') /\ run[r].goal \in Known
        BY <1>2, <3>1, FiledOK, KnownGoals
      <3>5. Landed(r)
        BY <1>3, <1>4, <3>1, <3>2, <3>3, <3>4, StaysOK DEF x
      <3>. QED BY <1>2, <3>1, <3>5, HeapStays
    <2>. QED BY <2>1, <2>2
  <1>6. taskLoop' \in [Convs -> {"unseen", "active", "inactive"}]
    BY <1>1, <1>2, <1>3 DEF RestOK
  <1>7. RestOK'
    BY <1>1, <1>3, <1>5, <1>6 DEF RestOK
  <1>. QED BY <1>3, <1>5, <1>7, MemUnchanged DEF Good, Effect

LEMMA TurnFailedOK ==
  ASSUME IInv, NEW r \in Runs, TurnFailed(r)
  PROVE  Good(r)
  <1>. DEFINE s == [store EXCEPT !.shouldEnd = FALSE]
  <1>1. /\ run[r].pc = "turn" /\ Returned(r, s)
        /\ UNCHANGED <<mem, heap, cancelled, clearing, taskLoop, activeConv>>
    BY DEF TurnFailed, Ready
  <1>2. StoreOK(s)
    <2>1. StoreOK(store)
      BY OldStoreOK
    <2>2. /\ s \in Store /\ s.latest = store.latest
          /\ s.pending = store.pending /\ s.completed = store.completed
      BY <2>1 DEF StoreOK, Store
    <2>. QED BY <2>1, <2>2 DEF StoreOK
  <1>. HIDE DEF s
  <1>3. Landed(r)
    BY <1>1, <1>2, ReturnedOK, MemUnchanged DEF Inside, InTurn
  <1>. QED BY <1>1, <1>3, QuietOK, CancelledIn

LEMMA JudgeAnsweredOK ==
  ASSUME IInv, NEW r \in Runs, JudgeAnswered(r)
  PROVE  Good(r)
  <1>. DEFINE g == run[r].goal
  <1>1. TypeOK /\ RestOK /\ run[r] \in Run /\ Shape(run[r]) /\ run \in [Runs -> Run]
    BY RestParts, TypeParts DEF IInv
  <1>2. heap \in [Ids -> Goal]
    BY <1>1, TypeParts
  <1>3. PICK v \in Verdicts :
          /\ heap' = [heap EXCEPT ![g] = Judged(@, v)]
          /\ run' = [run EXCEPT ![r].pc = "save", ![r].halts = Halts(heap[g], v)]
    BY DEF JudgeAnswered
  <1>. DEFINE x == [run[r] EXCEPT !.pc = "save", !.halts = Halts(heap[g], v)]
  <1>4. /\ run[r].pc = "judge"
        /\ UNCHANGED <<mem, store, registry, cancelled, clearing, taskLoop, activeConv, converse>>
    BY DEF JudgeAnswered, Ready
  <1>5. heap' \in [Ids -> Goal] /\ NoneRevived
    <2>1. CASE g \in Ids
      <3>1. heap' = [heap EXCEPT ![g] = Judged(heap[g], v)] /\ heap[g] \in Goal
        BY <1>2, <1>3, <2>1
      <3>. QED BY <1>1, <1>2, <1>4, <2>1, <3>1, JudgedOK, ChangeOK
    <2>2. CASE g \notin Ids
      <3>1. heap' = heap
        BY <1>2, <1>3, <2>2
      <3>. QED BY <1>2, <3>1, HeapStays
    <2>. QED BY <2>1, <2>2
  <1>6. run' = [run EXCEPT ![r] = x]
    BY <1>1, <1>3
  <1>7. /\ x \in Run /\ x.pc = "save" /\ x.goal = g /\ x.conv = run[r].conv
        /\ x.saved = run[r].saved /\ x.cis = run[r].cis /\ x.chain = run[r].chain
    <2>1. "save" \in PCs /\ Halts(heap[g], v) \in BOOLEAN
      BY DEF PCs, InTurn, Halts, MustPause
    <2>. QED BY <1>1, <2>1 DEF Run
  <1>. HIDE DEF x, g
  <1>8. Shape(x)
    BY <1>1, <1>4, <1>7 DEF Shape, InTurn, InLoop, Leaving
  <1>9. Landed(r)
    BY <1>4, <1>6, <1>7, <1>8, StaysOK, OldStoreOK, KnownGoals DEF g, InTurn
  <1>10. RestOK'
    BY <1>1, <1>4, <1>5 DEF RestOK
  <1>. QED BY <1>4, <1>5, <1>9, <1>10, MemUnchanged DEF Good, Effect

LEMMA VerdictSavedOK ==
  ASSUME IInv, NEW r \in Runs, VerdictSaved(r)
  PROVE  Good(r)
  <1>. DEFINE c == run[r].conv
              x == [run[r] EXCEPT !.pc = "wrap", !.goal = NoGoal, !.halts = FALSE]
  <1>1. TypeOK /\ RestOK /\ run[r] \in Run /\ Shape(run[r]) /\ run \in [Runs -> Run]
    BY RestParts, TypeParts DEF IInv
  <1>2. /\ run[r].pc = "save" /\ run' = [run EXCEPT ![r] = x]
        /\ UNCHANGED <<mem, registry, cancelled, clearing, taskLoop, activeConv, converse>>
        /\ heap' = Keep(heap)
        /\ store' \in {Continued(store, c, NextPrompt(r)), Closed(store, c, TRUE)}
    BY <1>1 DEF VerdictSaved, Ready
  <1>3. c \in Convs /\ NextPrompt(r) \in Known
    BY <1>1, RunParts, KnownGoals DEF NextPrompt
  <1>4. StoreOK(store')
    BY <1>2, <1>3, FiledOK
  <1>5. heap' \in [Ids -> Goal] /\ NoneRevived
    <2>1. MemDrops /\ \A d \in Convs : mem'[d] \in Held(mem', run')
      BY <1>2, HolderHeld, MemUnchanged
    <2>2. heap' = [g \in Ids |-> IF g \in Held(mem', run') THEN heap[g] ELSE NewGoal]
      BY <1>2 DEF Keep
    <2>. QED BY <1>1, <2>1, <2>2, SweptOK
  <1>6. /\ x \in Run /\ x.pc = "wrap" /\ x.goal = NoGoal /\ x.conv = c
        /\ x.saved = run[r].saved /\ x.cis = run[r].cis /\ x.chain = run[r].chain
    <2>1. "wrap" \in PCs
      BY DEF PCs, InTurn
    <2>. QED BY <1>1, <2>1 DEF Run
  <1>. HIDE DEF x
  <1>7. Shape(x)
    BY <1>1, <1>2, <1>6 DEF Shape, InTurn, InLoop, Leaving
  <1>8. Landed(r)
    BY <1>2, <1>4, <1>6, <1>7, StaysOK, KnownGoals DEF InTurn
  <1>9. RestOK'
    BY <1>1, <1>2, <1>5 DEF RestOK
  <1>. QED BY <1>2, <1>5, <1>8, <1>9, MemUnchanged DEF Good, Effect

LEMMA SleptOK ==
  ASSUME IInv, NEW r \in Runs, Slept(r)
  PROVE  Good(r)
  <1>1. /\ run[r].pc = "sleep" /\ LoopTop(r, Len(run[r].cis), store)
        /\ UNCHANGED <<mem, heap, registry, cancelled, clearing, taskLoop, activeConv, converse>>
    BY DEF Slept, Ready
  <1>2. run[r].pc \notin {"idle", "arrived"} /\ run[r].pc \in InLoop
    BY <1>1 DEF InLoop
  <1>3. Calling(r) /\ Cis(r) = run[r].cis /\ Len(run[r].cis) >= 1
    BY <1>2, CallingOK
  <1>4. Len(run[r].cis) \in 1..Len(Cis(r))
    BY <1>3, HooksAt DEF Calling
  <1>5. Moves(r) /\ run'[r].pc # "idle" /\ StoreOK(store')
    BY <1>1, <1>3, <1>4, LoopTopOK, OldStoreOK, MemUnchanged
  <1>6. Dropped(registry)
    BY TypeParts DEF Dropped, IInv
  <1>7. Landed(r)
    BY <1>1, <1>5, <1>6, DroppedOK DEF Landed
  <1>. QED BY <1>1, <1>7, QuietOK, CancelledIn

LEMMA KeptOK ==
  ASSUME IInv, NEW r \in Runs
  PROVE  Dropped(registry) /\ Dropped(Unregistered(registry, run[r].conv, r))
  <1>1. registry \in [Convs -> Runs \cup {NoRun}] /\ run[r] \in Run
    BY TypeParts DEF IInv
  <1>2. run[r].conv \in Convs
    BY <1>1, RunParts
  <1>. QED BY <1>1, <1>2 DEF Dropped, Unregistered

LEMMA UnwoundOK ==
  ASSUME IInv, NEW r \in Runs, Unwound(r)
  PROVE  Good(r)
  <1>. DEFINE d == Len(run[r].cis)
              pc == IF d \in run[r].due \ run[r].deaf THEN "exit" ELSE "raise"
  <1>1. /\ run[r].pc = "unwind" /\ InHook(r, pc, d, NoGoal)
        /\ UNCHANGED <<mem, heap, store, registry, cancelled, clearing, taskLoop, activeConv,
                       converse>>
    BY DEF Unwound, Ready
  <1>2. run[r].pc \in InLoop /\ run[r].pc \notin {"idle", "arrived"} /\ pc \in InLoop
    BY <1>1 DEF InLoop, Leaving
  <1>3. Calling(r) /\ d \in 1..Len(Cis(r))
    <2>1. Calling(r) /\ Cis(r) = run[r].cis /\ Len(run[r].cis) >= 1
      BY <1>2, CallingOK
    <2>. QED BY <2>1, HooksAt DEF Calling
  <1>. HIDE DEF pc, d
  <1>4. Moves(r) /\ run'[r].pc # "idle"
    BY <1>1, <1>2, <1>3, InHookMoves, KnownGoals
  <1>5. Landed(r)
    BY <1>1, <1>4, DroppedOK, KeptOK, OldStoreOK DEF Landed
  <1>. QED BY <1>1, <1>5, QuietOK, CancelledIn

\* What the loop and the commands change of the store besides prompts.
LEMMA SameStoreOK ==
  ASSUME IInv, NEW s \in Store, s.latest = store.latest, s.pending = store.pending,
         s.completed = store.completed
  PROVE  StoreOK(s)
  BY OldStoreOK DEF StoreOK

LEMMA ExitOK ==
  ASSUME IInv, NEW r \in Runs, Exit(r)
  PROVE  Good(r)
  <1>. DEFINE d == Len(run[r].cis)
              s == FlagDropped(store, run[r].chain[d])
  <1>1. /\ run[r].pc \in {"exit", "raise"}
        /\ \/ Land(r, s, d - 1, registry)
           \/ store' = s /\ Escape(r, d - 1, registry)
        /\ UNCHANGED <<mem, heap, cancelled, clearing, taskLoop, activeConv>>
    BY DEF Exit, Ready
  <1>2. run[r].pc \in InLoop /\ run[r].pc \notin {"idle", "arrived"}
    BY <1>1 DEF InLoop, Leaving
  <1>3. Calling(r) /\ Cis(r) = run[r].cis /\ d >= 1
    BY <1>2, CallingOK
  <1>4. d - 1 \in Nat /\ d - 1 <= Len(Cis(r))
    <2>1. Len(Cis(r)) \in Nat
      BY <1>3, HooksAt DEF Calling
    <2>. QED BY <1>3, <2>1
  <1>5. StoreOK(s)
    <2>1. store \in Store
      BY TypeParts DEF IInv
    <2>2. /\ s \in Store /\ s.latest = store.latest
          /\ s.pending = store.pending /\ s.completed = store.completed
      BY <2>1 DEF FlagDropped, Store
    <2>. QED BY <2>2, SameStoreOK
  <1>. HIDE DEF d, s
  <1>7. Landed(r)
    <2>1. Dropped(registry) /\ MemDrops
      BY <1>1, KeptOK, MemUnchanged
    <2>2. CASE Land(r, s, d - 1, registry)
      BY <1>2, <1>4, <1>5, <2>1, <2>2, LandOK
    <2>3. CASE store' = s /\ Escape(r, d - 1, registry)
      BY <1>2, <1>4, <1>5, <2>1, <2>3, EscapeOK
    <2>. QED BY <1>1, <2>2, <2>3
  <1>. QED BY <1>1, <1>7, QuietOK, CancelledIn

LEMMA InterruptedOK ==
  ASSUME IInv, NEW r \in Runs, run[r].pc \in InTurn, Interrupted(r), cancelled' \subseteq Runs,
         UNCHANGED <<clearing, taskLoop, activeConv>>
  PROVE  Good(r)
  <1>. DEFINE c == run[r].conv
              s == [store EXCEPT !.stopRequests = @ \ {c}]
              H == Held(mem, [run EXCEPT ![r].pc = "wrap"])
  <1>1. TypeOK /\ RestOK /\ store \in Store
    BY RestParts, TypeParts DEF IInv
  <1>2. UNCHANGED mem /\ heap' = [g \in Ids |-> IF g \in H THEN heap[g] ELSE NewGoal]
    BY DEF Interrupted
  <1>3. \/ Returned(r, s)
        \/ Escape(r, Len(run[r].cis), Unregistered(registry, c, r)) /\ UNCHANGED store
    BY DEF Interrupted
  <1>4. MemDrops /\ \A d \in Convs : mem'[d] \in H
    BY <1>2, HolderHeld, MemUnchanged
  <1>. HIDE DEF H
  <1>5. heap' \in [Ids -> Goal] /\ NoneRevived
    BY <1>1, <1>2, <1>4, SweptOK
  <1>6. RestOK'
    BY <1>1, <1>5 DEF RestOK
  <1>7. run[r].pc \in Inside /\ run[r].pc \notin {"idle", "arrived", "queued"}
    BY DEF Inside, InTurn
  <1>8. Landed(r)
    <2>1. CASE Returned(r, s)
      <3>1. /\ s \in Store /\ s.latest = store.latest
            /\ s.pending = store.pending /\ s.completed = store.completed
        BY <1>1 DEF Store
      <3>2. StoreOK(s)
        BY <3>1, SameStoreOK
      <3>. QED BY <1>4, <1>7, <2>1, <3>2, ReturnedOK
    <2>2. CASE Escape(r, Len(run[r].cis), Unregistered(registry, c, r)) /\ UNCHANGED store
      <3>1. Len(run[r].cis) \in Nat
        BY <1>7, CallingOK, HooksAt DEF Calling
      <3>2. Dropped(Unregistered(registry, c, r)) /\ StoreOK(store')
        BY <2>2, KeptOK, OldStoreOK
      <3>. QED BY <1>7, <2>2, <3>1, <3>2, EscapeOK
    <2>. QED BY <1>3, <2>1, <2>2
  <1>. QED BY <1>4, <1>5, <1>6, <1>8 DEF Good, Effect

LEMMA TurnCancelledOK ==
  ASSUME IInv, NEW r \in Runs, TurnCancelled(r)
  PROVE  Good(r)
  <1>1. /\ run[r].pc \in InTurn /\ Interrupted(r) /\ cancelled' \subseteq Runs
        /\ UNCHANGED <<clearing, taskLoop, activeConv>>
    BY CancelledIn DEF TurnCancelled
  <1>. QED BY <1>1, InterruptedOK

\* The run stays where it is, with a cancellation under way to it.
LEMMA TimeUpParts ==
  ASSUME TypeOK, NEW r \in Runs, run[r].pc # "queued", TimeUp(r)
  PROVE  /\ \E x \in Run :
              /\ run' = [run EXCEPT ![r] = x] /\ x.pc = run[r].pc /\ x.conv = run[r].conv
              /\ x.input = run[r].input /\ x.goal = run[r].goal /\ x.saved = run[r].saved
              /\ x.chain = run[r].chain /\ x.cis = run[r].cis
         /\ run[r].pc \in InTurn \cup InLoop
         /\ UNCHANGED <<mem, heap, store, registry, cancelled, clearing, taskLoop, activeConv,
                        converse>>
  <1>1. run \in [Runs -> Run] /\ run[r] \in Run
    BY TypeParts
  <1>2. PICK d \in Awaiting(r) \ run[r].due :
          run' = [run EXCEPT ![r].due = @ \cup {d}, ![r].late = TRUE,
                            ![r].deaf = @ \cup {e \in Awaiting(r) : e > d}]
    BY DEF TimeUp
  <1>3. Awaiting(r) \subseteq 1..MaxHooks
    <2>1. Cis(r) = run[r].cis /\ run[r].cis \in UpToHooks(0..LoopBound)
      BY <1>1, RunParts DEF Cis
    <2>2. /\ Len(Cis(r)) \in Nat /\ Len(Cis(r)) <= MaxHooks /\ DOMAIN Cis(r) = 1..Len(Cis(r))
      BY <2>1, HooksAt
    <2>. QED BY <2>2, Bounds DEF Awaiting, Continuing
  <1>. DEFINE due == run[r].due \cup {d}
              deaf == run[r].deaf \cup {e \in Awaiting(r) : e > d}
              x == [run[r] EXCEPT !.due = due, !.late = TRUE, !.deaf = deaf]
  <1>4. due \in SUBSET (1..MaxHooks) /\ deaf \in SUBSET (1..MaxHooks)
    BY <1>1, <1>2, <1>3, RunParts
  <1>5. run' = [run EXCEPT ![r] = x]
    BY <1>1, <1>2
  <1>. HIDE DEF due, deaf
  <1>6. /\ x \in Run /\ x.pc = run[r].pc /\ x.conv = run[r].conv
        /\ x.input = run[r].input /\ x.goal = run[r].goal /\ x.saved = run[r].saved
        /\ x.chain = run[r].chain /\ x.cis = run[r].cis
    BY <1>1, <1>4 DEF Run
  <1>7. run[r].pc \in InTurn \cup InLoop
    BY <1>2 DEF Awaiting
  <1>. HIDE DEF x
  <1>. QED BY <1>5, <1>6, <1>7 DEF TimeUp

LEMMA TimeUpPlace ==
  ASSUME NEW r \in Runs, TimeUp(r)
  PROVE  run[r].pc \in InTurn \cup InLoop /\ run[r].pc \notin {"queued", "idle", "arrived"}
  <1>1. run[r].pc \in InTurn \cup InLoop
    BY DEF TimeUp, Awaiting
  <1>. QED BY <1>1 DEF InTurn, InLoop, Leaving

LEMMA TimeUpOK ==
  ASSUME IInv, NEW r \in Runs, TimeUp(r)
  PROVE  Good(r)
  <1>1. run[r].pc \in InTurn \cup InLoop /\ run[r].pc # "queued" /\ TypeOK /\ Shape(run[r])
    BY TimeUpPlace DEF IInv
  <1>2. UNCHANGED <<mem, heap, store, registry, cancelled, clearing, taskLoop, activeConv,
                    converse>>
    BY <1>1, TimeUpParts
  <1>3. PICK x \in Run :
          /\ run' = [run EXCEPT ![r] = x] /\ x.pc = run[r].pc /\ x.conv = run[r].conv
          /\ x.input = run[r].input /\ x.goal = run[r].goal /\ x.saved = run[r].saved
          /\ x.chain = run[r].chain /\ x.cis = run[r].cis
    BY <1>1, TimeUpParts
  <1>4. Shape(x)
    BY <1>1, <1>3 DEF Shape
  <1>5. Landed(r)
    BY <1>1, <1>2, <1>3, <1>4, StaysOK, OldStoreOK, KnownGoals
  <1>. QED BY <1>2, <1>5, QuietOK, CancelledIn

LEMMA CommandCancelledOK ==
  ASSUME IInv, NEW r \in Runs, CommandCancelled(r)
  PROVE  Good(r)
  <1>1. /\ run[r].pc \in Arriving \cup Commands /\ Finish(r, registry)
        /\ cancelled' \subseteq Runs
        /\ UNCHANGED <<mem, heap, store, clearing, taskLoop, activeConv>>
    BY CancelledIn DEF CommandCancelled
  <1>2. run[r].pc # "idle"
    BY <1>1 DEF Arriving, Commands
  <1>3. Landed(r)
    BY <1>1, <1>2, FinishOK, KeptOK, OldStoreOK DEF Landed
  <1>. QED BY <1>1, <1>3, QuietOK

LEMMA LoopCancelledOK ==
  ASSUME IInv, NEW r \in Runs, LoopCancelled(r)
  PROVE  Good(r)
  <1>1. /\ run[r].pc \in {"gap", "sleep", "unwind"} /\ cancelled' \subseteq Runs
        /\ InHook(r, "raise", Len(run[r].cis), NoGoal)
        /\ UNCHANGED <<mem, heap, store, registry, clearing, taskLoop, activeConv, converse>>
    BY CancelledIn DEF LoopCancelled
  <1>2. run[r].pc \in InLoop /\ run[r].pc \notin {"idle", "arrived"} /\ "raise" \in InLoop
    BY <1>1 DEF InLoop, Leaving
  <1>3. Calling(r) /\ Len(run[r].cis) \in 1..Len(Cis(r))
    <2>1. Calling(r) /\ Cis(r) = run[r].cis /\ Len(run[r].cis) >= 1
      BY <1>2, CallingOK
    <2>. QED BY <2>1, HooksAt DEF Calling
  <1>4. Moves(r) /\ run'[r].pc # "idle"
    BY <1>1, <1>2, <1>3, InHookMoves, KnownGoals
  <1>5. Landed(r)
    BY <1>1, <1>4, DroppedOK, KeptOK, OldStoreOK DEF Landed
  <1>. QED BY <1>1, <1>5, QuietOK

LEMMA ExitCancelledOK ==
  ASSUME IInv, NEW r \in Runs, ExitCancelled(r)
  PROVE  Good(r)
  <1>. DEFINE n == Len(run[r].cis) - 1
              s == [store EXCEPT !.left = @ \cup {run[r].chain[n + 1]}]
  <1>1. /\ run[r].pc \in Leaving /\ cancelled' \subseteq Runs
        /\ Escape(r, n, registry)
        /\ UNCHANGED <<mem, heap, clearing, taskLoop, activeConv>>
    BY CancelledIn DEF ExitCancelled
  <1>2. run[r].pc \in InLoop /\ run[r].pc \notin {"idle", "arrived"}
    BY <1>1 DEF InLoop, Leaving
  <1>3. n \in Nat /\ n + 1 = Len(run[r].cis) /\ run[r].chain[n + 1] \in Convs
    <2>1. /\ Calling(r) /\ Cis(r) = run[r].cis /\ Len(run[r].cis) >= 1
          /\ Chain(r) = run[r].chain
      BY <1>2, CallingOK
    <2>. QED BY <2>1, HooksAt DEF Calling
  <1>4. StoreOK(store')
    <2>1. store \in Store
      BY TypeParts DEF IInv
    <2>2. store' = s
      BY <1>3 DEF ExitCancelled
    <2>3. /\ s \in Store /\ s.latest = store.latest
          /\ s.pending = store.pending /\ s.completed = store.completed
      BY <1>3, <2>1 DEF Store
    <2>. QED BY <2>2, <2>3, SameStoreOK
  <1>. HIDE DEF n
  <1>5. Landed(r)
    BY <1>1, <1>2, <1>3, <1>4, EscapeOK, KeptOK
  <1>. QED BY <1>1, <1>5, QuietOK

\* Those that a command cancels are runs.
LEMMA RegisteredRuns ==
  ASSUME IInv, NEW S \in SUBSET Convs
  PROVE  Undelivered(cancelled \cup Registered(S)) \subseteq Runs
  <1>1. cancelled \subseteq Runs /\ registry \in [Convs -> Runs \cup {NoRun}]
    BY TypeParts DEF IInv
  <1>2. Registered(S) \subseteq Runs
    BY <1>1 DEF Registered
  <1>. QED BY <1>1, <1>2 DEF Undelivered

LEMMA StopOK ==
  ASSUME IInv, NEW r \in Runs, Stop(r)
  PROVE  Good(r)
  <1>. DEFINE c == run[r].conv
              targets == StopTargets(c)
              known == {c} \cup {d \in Convs : registry[d] # NoRun}
              ends == targets # {} \/ \E d \in known : taskLoop[d] = "active"
              s == [store EXCEPT !.stopRequests = @ \cup targets, !.shouldEnd = @ \/ ends]
  <1>1. /\ run[r].pc = "queued" /\ UNCHANGED <<mem, heap, clearing, activeConv>>
        /\ taskLoop' = [d \in Convs |->
                          IF d \in known /\ taskLoop[d] = "active" THEN "inactive"
                          ELSE taskLoop[d]]
        /\ Returned(r, s)
        /\ cancelled' = Undelivered(cancelled \cup Registered(targets))
    BY DEF Stop, Asked, Ready
  <1>2. /\ TypeOK /\ RestOK /\ store \in Store /\ run[r] \in Run
    BY RestParts, TypeParts DEF IInv
  <1>3. c \in Convs /\ targets \in SUBSET Convs
    BY <1>2, RunParts DEF StopTargets
  <1>4. ends \in BOOLEAN
    OBVIOUS
  <1>. HIDE DEF ends, targets
  <1>5. StoreOK(s)
    <2>1. store.shouldEnd \in BOOLEAN
      BY <1>2 DEF Store
    <2>2. (store.shouldEnd \/ ends) \in BOOLEAN
      OBVIOUS
    <2>3. /\ s \in Store /\ s.latest = store.latest
          /\ s.pending = store.pending /\ s.completed = store.completed
      BY <1>2, <1>3, <2>1, <2>2 DEF Store
    <2>. QED BY <2>3, SameStoreOK
  <1>. HIDE DEF s
  <1>6. Landed(r)
    BY <1>1, <1>5, ReturnedOK, MemUnchanged DEF Inside
  <1>7. cancelled' \subseteq Runs
    BY <1>1, <1>3, RegisteredRuns
  <1>8. taskLoop' \in [Convs -> {"unseen", "active", "inactive"}]
    BY <1>1, <1>2 DEF RestOK
  <1>9. RestOK'
    BY <1>1, <1>2, <1>7, <1>8 DEF RestOK
  <1>. QED BY <1>1, <1>6, <1>9, MemUnchanged, HeapStays DEF Good, Effect

LEMMA NewOK ==
  ASSUME IInv, NEW r \in Runs, New(r)
  PROVE  Good(r)
  <1>. DEFINE c == run[r].conv
              targets == {c, activeConv} \ {"none"}
              s == [store EXCEPT !.pending = [d \in Convs |-> NoGoal], !.latest = NoGoal,
                                 !.completed = @ \ {c}, !.flags = {}, !.left = {},
                                 !.shouldEnd = FALSE]
              reg == [d \in Convs |-> IF d \in targets THEN NoRun ELSE registry[d]]
  <1>1. /\ run[r].pc = "queued" /\ UNCHANGED <<mem, heap>>
        /\ clearing' = clearing \cup {d \in targets : HasGoal(d)}
        /\ taskLoop' = [taskLoop EXCEPT ![c] = "active"]
        /\ activeConv' = c
        /\ Land(r, s, Len(converse), reg)
        /\ cancelled' = Undelivered(cancelled \cup Registered(targets))
    BY DEF New, Asked, Ready
  <1>2. /\ TypeOK /\ RestOK /\ store \in Store /\ run[r] \in Run
        /\ registry \in [Convs -> Runs \cup {NoRun}]
    BY RestParts, TypeParts DEF IInv
  <1>3. c \in Convs /\ targets \in SUBSET Convs
    BY <1>2, RunParts DEF RestOK
  <1>. HIDE DEF targets
  <1>4. StoreOK(s)
    <2>1. NoGoal \in Known /\ NoGoal \in GoalRefs
      BY KnownGoals DEF GoalRefs
    <2>2. /\ s \in Store /\ s.latest = NoGoal /\ s.pending = [d \in Convs |-> NoGoal]
      BY <1>2, <2>1 DEF Store, GoalRefs
    <2>. QED BY <2>1, <2>2 DEF StoreOK
  <1>5. Dropped(reg)
    BY <1>2 DEF Dropped
  <1>6. Len(converse) \in Nat /\ Len(converse) <= Len(Cis(r))
    <2>1. Calling(r) /\ Len(Cis(r)) = Len(Chain(r)) /\ Chain(r) = converse
      BY <1>1, CallingOK DEF Inside, Chain
    <2>2. Len(converse) \in Nat
      BY <2>1, HooksAt DEF Calling
    <2>. QED BY <2>1, <2>2
  <1>. HIDE DEF s, reg
  <1>7. Landed(r)
    BY <1>1, <1>4, <1>5, <1>6, LandOK, MemUnchanged
  <1>8. cancelled' \subseteq Runs
    BY <1>1, <1>3, RegisteredRuns
  <1>9. RestOK'
    BY <1>1, <1>2, <1>3, <1>8 DEF RestOK
  <1>. QED BY <1>1, <1>7, <1>9, MemUnchanged, HeapStays DEF Good, Effect

LEMMA ClearTaskOK ==
  ASSUME IInv, NEW c \in Convs, ClearTask(c)
  PROVE  IInv' /\ NoneRevived
  <1>1. /\ clearing' = clearing \ {c} /\ mem' = [mem EXCEPT ![c] = NoGoal]
        /\ heap' = [g \in Ids |-> IF g \in Held(mem', run) THEN heap[g] ELSE NewGoal]
        /\ UNCHANGED <<run, store, registry, cancelled, taskLoop, activeConv, converse>>
    BY DEF ClearTask
  <1>2. TypeOK /\ RestOK
    BY RestParts DEF IInv
  <1>3. MemDrops
    BY <1>1, <1>2, TypeParts DEF MemDrops, GoalRefs
  <1>4. heap' \in [Ids -> Goal] /\ NoneRevived
    BY <1>1, <1>2, <1>3, HolderHeld, SweptOK
  <1>5. RestOK'
    BY <1>1, <1>2, <1>4 DEF RestOK
  <1>. QED BY <1>1, <1>3, <1>4, <1>5, AsideOK

-----------------------------------------------------------------------------
(* The actions that bring something new: a message, a hook, a goal.           *)

LEMMA InstallOK ==
  ASSUME IInv, NEW r \in Runs, Install(r)
  PROVE  IInv' /\ NoneRevived
  <1>. DEFINE x == [run[r] EXCEPT !.pc = "queued", !.saved = converse]
              chain1 == <<run[r].conv>> \o converse
  <1>1. /\ TypeOK /\ run[r] \in Run /\ run \in [Runs -> Run] /\ converse \in UpToHooks(Convs)
        /\ RegistryNamesLiveRun /\ RoomForHooks /\ RoomForGoals /\ OneHolder
        /\ CompletedHasNoPrompt /\ \A q \in Runs : Shape(run[q])
    BY TypeParts, Zenon DEF IInv
  <1>2. /\ run[r].pc = "arrived" /\ run' = [run EXCEPT ![r] = x] /\ converse' = chain1
        /\ UNCHANGED <<mem, heap, store, registry, cancelled, clearing, taskLoop, activeConv>>
    BY <1>1 DEF Install, Ready
  <1>3. /\ x \in Run /\ x.pc = "queued" /\ x.saved = converse /\ x.goal = run[r].goal
        /\ x.conv = run[r].conv /\ x.input = run[r].input
    <2>1. "queued" \in PCs
      BY DEF PCs, Arriving
    <2>. QED BY <1>1, <2>1 DEF Run
  <1>. HIDE DEF x
  <1>4. Shape(x)
    BY <1>3 DEF Shape, Commands, InTurn, InLoop, Leaving
  <1>5. run' \in [Runs -> Run] /\ \A q \in Runs : Shape(run'[q])
    BY <1>1, <1>2, <1>3, <1>4, RunsOK
  <1>6. run'[r] = x /\ \A q \in Runs \ {r} : run'[q] = run[q]
    BY <1>1, <1>2, RunStep
  <1>7. /\ Arrived' = Arrived \ {r} /\ r \in Arrived
        /\ Cardinality(Arrived') = Cardinality(Arrived) - 1
        /\ Cardinality(Arrived) \in Nat
    <2>1. Arrived \in SUBSET Runs /\ Arrived' = Arrived \ {r} /\ r \in Arrived
      BY <1>2, <1>3, <1>6 DEF Arrived
    <2>2. IsFiniteSet(Arrived) /\ Cardinality(Arrived) \in Nat
      BY <2>1, ArrivedFinite
    <2>. QED BY <2>1, <2>2, FS_RemoveElement
  <1>8. Len(converse) \in Nat /\ Len(chain1) = Len(converse) + 1 /\ chain1 \in Seq(Convs)
    <2>1. run[r].conv \in Convs /\ converse \in Seq(Convs)
      BY <1>1, RunParts, HooksSeq
    <2>2. <<run[r].conv>> \in Seq(Convs) /\ Len(<<run[r].conv>>) = 1
      BY <2>1
    <2>. QED BY <2>1, <2>2, ConcatProperties, LenProperties
  <1>. HIDE DEF chain1
  <1>9. RoomForHooks'
    <2>1. Chains' \subseteq Chains \cup {chain1}
      BY <1>2, <1>3, <1>6 DEF Chains
    <2>2. ASSUME NEW chain \in Chains PROVE Len(chain) \in Nat
      <3>1. chain \in UpToHooks(Convs)
        BY <1>1, RunParts DEF Chains
      <3>. QED BY <3>1, HooksAt
    <2>3. ASSUME NEW chain \in Chains \cup {chain1}
          PROVE  Len(chain) + Cardinality(Arrived') <= MaxHooks
      <3>1. Len(converse) + Cardinality(Arrived) <= MaxHooks
        BY <1>1 DEF RoomForHooks, Chains
      <3>2. CASE chain \in Chains
        <4>1. Len(chain) + Cardinality(Arrived) <= MaxHooks /\ Len(chain) \in Nat
          BY <1>1, <2>2, <3>2 DEF RoomForHooks
        <4>. QED BY <1>7, <4>1, Bounds
      <3>3. CASE chain = chain1
        BY <1>7, <1>8, <3>1, <3>3, Bounds
      <3>. QED BY <3>2, <3>3
    <2>. QED BY <2>1, <2>3 DEF RoomForHooks
  <1>10. converse' \in UpToHooks(Convs)
    <2>1. Len(chain1) <= MaxHooks
      <3>1. Len(converse) + Cardinality(Arrived) <= MaxHooks
        BY <1>1 DEF RoomForHooks, Chains
      <3>2. Cardinality(Arrived) >= 1
        <4>1. Arrived' \in SUBSET Runs
          BY DEF Arrived
        <4>2. Cardinality(Arrived') \in Nat
          BY <4>1, ArrivedFinite
        <4>. QED BY <1>7, <4>2
      <3>. QED BY <1>7, <1>8, <3>1, <3>2, Bounds
    <2>. QED BY <1>2, <1>8, <2>1, HooksSeq, Zenon
  <1>11. Named' = Named
    <2>1. \A q \in Runs : run'[q].goal = run[q].goal
      BY <1>3, <1>6
    <2>. QED BY <1>2, <2>1 DEF Named
  <1>12. RoomForGoals'
    <2>1. Waiting' = Waiting
      <3>1. Waits(x) <=> Waits(run[r])
        BY <1>2, <1>3 DEF Waits, Arriving
      <3>. QED BY <1>6, <3>1 DEF Waiting
    <2>2. Fresh' = Fresh
      BY <1>11 DEF Fresh
    <2>. QED BY <1>1, <2>1, <2>2 DEF RoomForGoals
  <1>13. RegistryNamesLiveRun'
    <2>1. \A q \in Runs : run[q].pc # "idle" => run'[q].pc # "idle" /\ run'[q].conv = run[q].conv
      BY <1>3, <1>6
    <2>2. registry \in [Convs -> Runs \cup {NoRun}]
      BY <1>1, TypeParts
    <2>. QED BY <1>1, <1>2, <2>1, <2>2 DEF RegistryNamesLiveRun
  <1>14. OneHolder' /\ CompletedHasNoPrompt'
    BY <1>1, <1>2 DEF OneHolder, CompletedHasNoPrompt
  <1>15. TypeOK'
    BY <1>1, <1>2, <1>5, <1>10, Zenon DEF TypeOK
  <1>. QED BY <1>2, <1>5, <1>9, <1>12, <1>13, <1>14, <1>15, HeapStays, Zenon DEF IInv

LEMMA GoalSetOK ==
  ASSUME IInv, NEW r \in Runs, GoalSet(r)
  PROVE  IInv' /\ NoneRevived
  <1>. DEFINE c == run[r].conv
  <1>1. /\ TypeOK /\ RestOK /\ run[r] \in Run
        /\ RegistryNamesLiveRun /\ RoomForHooks /\ RoomForGoals /\ OneHolder
        /\ \A q \in Runs : Shape(run[q])
    BY RestParts, TypeParts, Zenon DEF IInv
  <1>2. PICK g \in Fresh : /\ mem' = [mem EXCEPT ![c] = g]
                           /\ heap' = Keep([heap EXCEPT ![g] = NewGoal])
    BY DEF GoalSet
  <1>3. /\ run[r].pc = "queued" /\ run[r].input = "set" /\ InCommand(r, "set")
        /\ UNCHANGED <<store, registry, cancelled, clearing, taskLoop, activeConv, converse>>
    BY DEF GoalSet, Asked, Ready
  <1>4. c \in Convs /\ mem \in [Convs -> GoalRefs] /\ heap \in [Ids -> Goal]
    BY <1>1, TypeParts, RunParts
  <1>5. /\ r \in Waiting /\ Waiting \in SUBSET Runs /\ IsFiniteSet(Waiting)
        /\ Cardinality(Waiting) \in Nat /\ IsFiniteSet(Fresh) /\ Cardinality(Fresh) \in Nat
    <2>1. r \in Waiting /\ Waiting \in SUBSET Runs
      BY <1>3 DEF Waiting, Waits, Arriving
    <2>2. Fresh \subseteq Ids
      BY DEF Fresh
    <2>. QED BY <2>1, <2>2, ArrivedFinite, SetAssumption, FS_Subset, FS_CardinalityType
  <1>6. g \in Ids /\ \A d \in Convs : mem[d] # g
    BY DEF Fresh, Named
  <1>7. PICK x \in Run :
          /\ run' = [run EXCEPT ![r] = x] /\ x.pc = "set" /\ Shape(x)
          /\ x.goal = run[r].goal /\ x.conv = run[r].conv /\ x.saved = run[r].saved
    BY <1>3, InCommandOK DEF Commands
  <1>8. /\ Placed(r, x) /\ StoreOK(store') /\ RegStep(r)
    <2>1. StoreOK(store')
      BY <1>3, OldStoreOK
    <2>2. Placed(r, x)
      BY <1>7, KnownGoals DEF Placed, Waits, Arriving
    <2>3. run'[r] = x
      BY <1>1, <1>7, RunStep
    <2>. QED BY <1>3, <1>7, <2>1, <2>2, <2>3, DroppedOK, KeptOK
  <1>9. run' \in [Runs -> Run] /\ \A q \in Runs : Shape(run'[q])
    BY <1>1, <1>7, RunsOK
  <1>10. RoomForHooks' /\ RegistryNamesLiveRun' /\ converse' \in UpToHooks(Convs)
    BY <1>1, <1>3, <1>7, <1>8, HooksRoomOK, RegistryOK
  <1>11. RoomForGoals'
    <2>1. \A d \in Convs : mem'[d] \in Known \cup {g}
      BY <1>4, <1>2, KnownGoals
    <2>2. Fresh \ {g} \subseteq Fresh' /\ Waiting' \subseteq Waiting \ {r}
      BY <1>1, <1>7, <1>8, <2>1, NamedStep
    <2>3. /\ Cardinality(Fresh \ {g}) = Cardinality(Fresh) - 1
          /\ Cardinality(Waiting \ {r}) = Cardinality(Waiting) - 1
      BY <1>5, FS_RemoveElement
    <2>4. /\ Cardinality(Waiting') <= Cardinality(Waiting \ {r})
          /\ Cardinality(Waiting') \in Nat
      BY <1>5, <2>2, FS_Subset, FS_CardinalityType
    <2>5. /\ Cardinality(Fresh \ {g}) <= Cardinality(Fresh')
          /\ Cardinality(Fresh') \in Nat
      <3>1. IsFiniteSet(Fresh')
        <4>1. Fresh' \subseteq Ids
          BY DEF Fresh
        <4>. QED BY <4>1, SetAssumption, FS_Subset
      <3>. QED BY <2>2, <3>1, FS_Subset, FS_CardinalityType
    <2>. QED BY <1>1, <1>5, <2>3, <2>4, <2>5 DEF RoomForGoals
  <1>12. OneHolder'
    BY <1>1, <1>4, <1>2, <1>6 DEF OneHolder
  <1>13. heap' \in [Ids -> Goal]
    <2>1. [heap EXCEPT ![g] = NewGoal] \in [Ids -> Goal]
      BY <1>4, NewGoalOK
    <2>. QED BY <1>2, <2>1, NewGoalOK DEF Keep
  <1>14. ASSUME NEW d \in Convs, mem[d] # NoGoal, mem'[d] = mem[d]
         PROVE  heap'[mem[d]] = heap[mem[d]]
    <2>1. mem[d] \in Ids /\ mem[d] # g
      BY <1>4, <1>6, <1>14 DEF GoalRefs
    <2>2. mem[d] \in Held(mem', run')
      BY <1>14, HolderHeld
    <2>. QED BY <1>4, <1>2, <2>1, <2>2 DEF Keep
  <1>15. TypeOK'
    <2>1. store' \in Store /\ mem' \in [Convs -> Ids \cup {NoGoal}]
          /\ registry' \in [Convs -> Runs \cup {NoRun}]
      BY <1>4, <1>2, <1>6, <1>8 DEF StoreOK, RegStep, GoalRefs
    <2>. QED BY <1>1, <1>3, <1>9, <1>10, <1>13, <2>1, Zenon DEF TypeOK, RestOK
  <1>16. CompletedHasNoPrompt'
    BY <1>8 DEF StoreOK, CompletedHasNoPrompt
  <1>17. IInv'
    BY <1>9, <1>10, <1>11, <1>12, <1>15, <1>16, Zenon DEF IInv
  <1>. QED BY <1>14, <1>17 DEF NoneRevived

LEMMA ArriveOK ==
  ASSUME IInv, NEW r \in Runs, Arrive(r)
  PROVE  IInv' /\ NoneRevived
  <1>1. /\ TypeOK /\ run[r] \in Run /\ run \in [Runs -> Run] /\ converse \in UpToHooks(Convs)
        /\ RegistryNamesLiveRun /\ RoomForHooks /\ RoomForGoals /\ OneHolder
        /\ CompletedHasNoPrompt /\ \A q \in Runs : Shape(run[q])
    BY TypeParts, Zenon DEF IInv
  <1>2. PICK c \in Convs, i \in Inputs :
          /\ Affordable(i)
          /\ run' = [run EXCEPT ![r] = [Idle EXCEPT !.pc = "arrived", !.conv = c, !.input = i]]
          /\ registry' \in {registry, [registry EXCEPT ![c] = r]}
    BY DEF Arrive
  <1>3. /\ run[r].pc = "idle" /\ Wrappable
        /\ UNCHANGED <<mem, heap, store, cancelled, clearing, taskLoop, activeConv, converse>>
    BY DEF Arrive
  <1>. DEFINE x == [Idle EXCEPT !.pc = "arrived", !.conv = c, !.input = i]
  <1>4. /\ x \in Run /\ x.pc = "arrived" /\ x.conv = c /\ x.input = i /\ x.goal = NoGoal
        /\ x.saved = <<>>
    <2>1. "arrived" \in PCs
      BY DEF PCs, Arriving
    <2>. QED BY <2>1, IdleOK DEF Run
  <1>5. run' = [run EXCEPT ![r] = x]
    BY <1>2
  <1>. HIDE DEF x
  <1>6. Shape(x)
    BY <1>4 DEF Shape, Commands, InTurn, InLoop, Leaving
  <1>7. run' \in [Runs -> Run] /\ \A q \in Runs : Shape(run'[q])
    BY <1>1, <1>4, <1>5, <1>6, RunsOK
  <1>8. run'[r] = x /\ \A q \in Runs \ {r} : run'[q] = run[q]
    BY <1>1, <1>5, RunStep
  <1>9. RoomForHooks'
    <2>1. /\ Arrived' = Arrived \cup {r} /\ r \notin Arrived
          /\ Cardinality(Arrived') = Cardinality(Arrived) + 1 /\ Cardinality(Arrived) \in Nat
      <3>1. Arrived \in SUBSET Runs /\ Arrived' = Arrived \cup {r} /\ r \notin Arrived
        BY <1>3, <1>4, <1>8 DEF Arrived
      <3>2. IsFiniteSet(Arrived) /\ Cardinality(Arrived) \in Nat
        BY <3>1, ArrivedFinite
      <3>. QED BY <3>1, <3>2, FS_AddElement
    <2>2. Chains' \subseteq Chains \cup {<<>>}
      BY <1>3, <1>4, <1>8 DEF Chains
    <2>3. ASSUME NEW chain \in Chains
          PROVE  Len(chain) \in Nat /\ Len(chain) + Cardinality(Arrived) < MaxHooks
      <3>1. chain \in UpToHooks(Convs)
        BY <1>1, RunParts DEF Chains
      <3>. QED BY <1>3, <3>1, HooksAt DEF Wrappable, Chains, Arrived
    <2>4. ASSUME NEW chain \in Chains \cup {<<>>}
          PROVE  Len(chain) + Cardinality(Arrived') <= MaxHooks
      <3>1. CASE chain \in Chains
        BY <2>1, <2>3, <3>1, Bounds
      <3>2. CASE chain = <<>>
        <4>1. Len(converse) \in Nat /\ Len(converse) + Cardinality(Arrived) < MaxHooks
          BY <2>3 DEF Chains
        <4>. QED BY <2>1, <3>2, <4>1, Bounds
      <3>. QED BY <3>1, <3>2
    <2>. QED BY <2>2, <2>4 DEF RoomForHooks
  <1>10. RoomForGoals'
    <2>1. Fresh \subseteq Fresh' /\ Fresh' \subseteq Ids
      <3>1. \A q \in Runs : run'[q].goal \in {run[q].goal, NoGoal}
        BY <1>4, <1>8
      <3>2. Named' \subseteq Named \cup {NoGoal}
        BY <1>3, <3>1 DEF Named
      <3>. QED BY <3>2, NoGoalAssumption DEF Fresh
    <2>2. /\ Cardinality(Fresh) <= Cardinality(Fresh')
          /\ Cardinality(Fresh) \in Nat /\ Cardinality(Fresh') \in Nat
      BY <2>1, SetAssumption, FS_Subset, FS_CardinalityType
    <2>3. /\ Waiting \in SUBSET Runs /\ Setting \in SUBSET Runs /\ Waiting \subseteq Setting
          /\ r \notin Waiting
      BY <1>3 DEF Waiting, Setting, Waits, Arriving
    <2>4. /\ IsFiniteSet(Waiting) /\ Cardinality(Waiting) \in Nat
          /\ Cardinality(Setting) \in Nat /\ Cardinality(Waiting) <= Cardinality(Setting)
      BY <2>3, ArrivedFinite, FS_Subset
    <2>5. CASE i = "set"
      <3>1. Waiting' = Waiting \cup {r}
        BY <1>4, <1>8, <2>5 DEF Waiting, Waits, Arriving
      <3>2. Cardinality(Waiting') = Cardinality(Waiting) + 1
        BY <2>3, <2>4, <3>1, FS_AddElement
      <3>3. Cardinality(Fresh) > Cardinality(Setting)
        BY <1>2, <2>5 DEF Affordable
      <3>. QED BY <2>2, <2>4, <3>2, <3>3 DEF RoomForGoals
    <2>6. CASE i # "set"
      <3>1. Waiting' = Waiting
        BY <1>4, <1>8, <2>3, <2>6 DEF Waiting, Waits
      <3>. QED BY <1>1, <2>2, <2>4, <3>1 DEF RoomForGoals
    <2>. QED BY <2>5, <2>6
  <1>11. registry' \in [Convs -> Runs \cup {NoRun}] /\ RegistryNamesLiveRun'
    <2>1. registry \in [Convs -> Runs \cup {NoRun}]
      BY <1>1, TypeParts
    <2>2. registry' \in [Convs -> Runs \cup {NoRun}]
      BY <1>2, <2>1
    <2>3. ASSUME NEW d \in Convs, registry'[d] # NoRun
          PROVE  run'[registry'[d]].pc # "idle" /\ run'[registry'[d]].conv = d
      <3>1. CASE registry'[d] = registry[d]
        <4>1. registry[d] \in Runs \ {r} /\ run[registry[d]].conv = d
              /\ run[registry[d]].pc # "idle"
          BY <1>1, <1>3, <2>1, <2>3, <3>1 DEF RegistryNamesLiveRun
        <4>. QED BY <1>8, <3>1, <4>1
      <3>2. CASE registry'[d] # registry[d]
        <4>1. registry'[d] = r /\ d = c
          BY <1>2, <2>1, <3>2
        <4>. QED BY <1>4, <1>8, <4>1
      <3>. QED BY <3>1, <3>2
    <2>. QED BY <2>2, <2>3 DEF RegistryNamesLiveRun
  <1>12. OneHolder' /\ CompletedHasNoPrompt'
    BY <1>1, <1>3 DEF OneHolder, CompletedHasNoPrompt
  <1>13. TypeOK'
    BY <1>1, <1>3, <1>7, <1>11, Zenon DEF TypeOK
  <1>. QED BY <1>3, <1>7, <1>9, <1>10, <1>11, <1>12, <1>13, HeapStays, Zenon DEF IInv

-----------------------------------------------------------------------------
(* The invariant, and what a step may do to a goal.                           *)

LEMMA InitOK == Init => IInv
  <1>. SUFFICES ASSUME Init PROVE IInv
    OBVIOUS
  <1>1. /\ run = [r \in Runs |-> Idle] /\ mem = [c \in Convs |-> NoGoal]
        /\ heap = [g \in Ids |-> NewGoal] /\ registry = [c \in Convs |-> NoRun]
        /\ store = [pending |-> [c \in Convs |-> NoGoal], latest |-> NoGoal,
                    completed |-> {}, stopRequests |-> {}, shouldEnd |-> FALSE,
                    flags |-> {}, left |-> {}]
        /\ cancelled = {} /\ clearing = {} /\ taskLoop = [c \in Convs |-> "unseen"]
        /\ activeConv = "none" /\ converse = <<>>
    BY DEF Init
  <1>2. /\ Idle \in Run /\ Shape(Idle) /\ Idle.pc = "idle" /\ Idle.saved = <<>>
    BY IdleOK
  <1>3. run \in [Runs -> Run] /\ heap \in [Ids -> Goal] /\ store \in Store
    BY <1>1, <1>2, NewGoalOK DEF Store
  <1>4. TypeOK
    <2>1. converse \in UpToHooks(Convs)
      BY <1>1, NoHooks
    <2>. QED BY <1>1, <1>3, <2>1 DEF TypeOK
  <1>5. RoomForHooks
    <2>1. Arrived = {} /\ Chains \subseteq {<<>>}
      BY <1>1, <1>2 DEF Arrived, Chains
    <2>2. Cardinality({}) = 0 /\ Len(<<>>) = 0
      BY FS_EmptySet
    <2>. QED BY <2>1, <2>2, Bounds DEF RoomForHooks
  <1>6. RoomForGoals
    <2>1. Waiting = {}
      BY <1>1, <1>2 DEF Waiting, Waits, Arriving
    <2>2. Cardinality(Waiting) = 0
      BY <2>1, FS_EmptySet
    <2>3. Fresh \subseteq Ids
      BY DEF Fresh
    <2>4. Cardinality(Fresh) \in Nat
      BY <2>3, SetAssumption, FS_Subset, FS_CardinalityType
    <2>. QED BY <2>2, <2>4 DEF RoomForGoals
  <1>7. OneHolder /\ CompletedHasNoPrompt /\ RegistryNamesLiveRun
    BY <1>1 DEF OneHolder, CompletedHasNoPrompt, RegistryNamesLiveRun
  <1>8. \A r \in Runs : Shape(run[r])
    BY <1>1, <1>2
  <1>. QED BY <1>4, <1>5, <1>6, <1>7, <1>8 DEF IInv

LEMMA StutterOK == IInv /\ UNCHANGED vars => IInv'
  <1>. SUFFICES ASSUME IInv, UNCHANGED vars PROVE IInv'
    OBVIOUS
  <1>1. /\ UNCHANGED <<run, store, registry, converse>>
        /\ UNCHANGED <<mem, heap, cancelled, clearing, taskLoop, activeConv>>
    BY DEF vars
  <1>2. RestOK'
    BY <1>1, RestParts DEF RestOK, IInv
  <1>. QED BY <1>1, <1>2, MemUnchanged, AsideOK

LEMMA NextOK ==
  ASSUME IInv, Next
  PROVE  IInv' /\ (NoneRevived \/ \E r \in Runs : GoalResume(r))
  <1>1. ASSUME NEW r \in Runs, Good(r) PROVE IInv' /\ NoneRevived
    BY <1>1, EffectOK DEF Good
  <1>2. ASSUME NEW r \in Runs, Command(r)
        PROVE  IInv' /\ (NoneRevived \/ GoalResume(r))
    <2>1. CASE Install(r)
      BY <2>1, InstallOK
    <2>2. CASE GoalSet(r)
      BY <2>2, GoalSetOK
    <2>3. CASE GoalSetDone(r)
      BY <1>1, <2>3, TurnOK
    <2>4. CASE GoalPause(r)
      BY <1>1, <2>4, PauseOK
    <2>5. CASE GoalResume(r)
      BY <2>5, ResumeOK, EffectOK
    <2>6. CASE GoalSaved(r)
      BY <1>1, <2>6, GoalSavedOK
    <2>7. CASE GoalClear(r)
      BY <1>1, <2>7, GoalClearOK
    <2>8. CASE GoalCleared(r)
      BY <1>1, <2>8, GoalClearedOK
    <2>9. CASE Stop(r)
      BY <1>1, <2>9, StopOK
    <2>10. CASE New(r)
      BY <1>1, <2>10, NewOK
    <2>. QED BY <1>2, <2>1, <2>2, <2>3, <2>4, <2>5, <2>6, <2>7, <2>8, <2>9, <2>10
          DEF Command
  <1>3. ASSUME NEW r \in Runs, Work(r) PROVE IInv' /\ NoneRevived
    <2>1. CASE Turn(r)
      BY <1>1, <2>1, TurnOK
    <2>2. CASE TurnAnswered(r)
      BY <1>1, <2>2, TurnAnsweredOK
    <2>3. CASE TurnFailed(r)
      BY <1>1, <2>3, TurnFailedOK
    <2>4. CASE JudgeAnswered(r)
      BY <1>1, <2>4, JudgeAnsweredOK
    <2>5. CASE VerdictSaved(r)
      BY <1>1, <2>5, VerdictSavedOK
    <2>6. CASE TurnReturned(r)
      BY <1>1, <2>6, GoalSavedOK
    <2>7. CASE Continue(r)
      BY <1>1, <2>7, ContinueOK
    <2>8. CASE Slept(r)
      BY <1>1, <2>8, SleptOK
    <2>9. CASE Unwound(r)
      BY <1>1, <2>9, UnwoundOK
    <2>10. CASE Exit(r)
      BY <1>1, <2>10, ExitOK
    <2>. QED BY <1>3, <2>1, <2>2, <2>3, <2>4, <2>5, <2>6, <2>7, <2>8, <2>9, <2>10
          DEF Work
  <1>4. ASSUME NEW r \in Runs, Cancel(r) PROVE IInv' /\ NoneRevived
    <2>1. CASE TurnCancelled(r)
      BY <1>1, <2>1, TurnCancelledOK
    <2>2. CASE CommandCancelled(r)
      BY <1>1, <2>2, CommandCancelledOK
    <2>3. CASE LoopCancelled(r)
      BY <1>1, <2>3, LoopCancelledOK
    <2>4. CASE ExitCancelled(r)
      BY <1>1, <2>4, ExitCancelledOK
    <2>. QED BY <1>4, <2>1, <2>2, <2>3, <2>4 DEF Cancel
  <1>5. ASSUME NEW r \in Runs, User(r) PROVE IInv' /\ NoneRevived
    BY <1>5, ArriveOK DEF User
  <1>6. ASSUME NEW r \in Runs, TimeUp(r) PROVE IInv' /\ NoneRevived
    BY <1>1, <1>6, TimeUpOK
  <1>7. ASSUME NEW c \in Convs, ClearTask(c) PROVE IInv' /\ NoneRevived
    BY <1>7, ClearTaskOK
  <1>. QED BY <1>2, <1>3, <1>4, <1>5, <1>6, <1>7 DEF Next, Step

LEMMA Invariant == Spec => []IInv
  <1>1. IInv /\ [Next]_vars => IInv'
    BY NextOK, StutterOK
  <1>. QED BY <1>1, InitOK, PTL DEF Spec

\* Every state is well formed, however many hooks are around each other: the rooms for
\* the hooks and the goals of messages on their way are never used up by another's.
THEOREM TypeCorrect == Spec => []TypeOK
  <1>1. IInv => TypeOK
    BY DEF IInv
  <1>. QED BY <1>1, Invariant, PTL

\* Whatever turns, verdicts, loops and /new come in, in whichever order, a conversation
\* taken for completed has no prompt of its own left (_finalize_completed_response).
THEOREM CompletedStaysQuiet == Spec => []CompletedHasNoPrompt
  <1>1. IInv => CompletedHasNoPrompt
    BY DEF IInv
  <1>. QED BY <1>1, Invariant, PTL

\* What running_tasks names is a live run of that conversation, after every way out of a
\* turn and whichever hook the run leaves last.
THEOREM RegistryTrue == Spec => []RegistryNamesLiveRun
  <1>1. IInv => RegistryNamesLiveRun
    BY DEF IInv
  <1>. QED BY <1>1, Invariant, PTL

\* A paused or finished goal is revived by its conversation's /goal resume alone, not by
\* a verdict, a sweep of the goals nobody refers to or another conversation's command.
THEOREM PausedStaysPaused == Spec => OnlyResumeReactivates
  <1>. DEFINE A == \A c \in Convs :
       (/\ mem[c] # NoGoal /\ mem'[c] = mem[c]
        /\ heap[mem[c]].status # "active" /\ heap'[mem[c]].status = "active")
       => \E r \in Runs : /\ run[r].pc = "queued" /\ run[r].input = "resume"
                          /\ run[r].conv = c
  <1>1. ASSUME IInv, Next PROVE A
    <2>1. CASE NoneRevived
      BY <2>1 DEF NoneRevived
    <2>2. ASSUME NEW r \in Runs, GoalResume(r) PROVE A
      <3>1. run[r].pc = "queued" /\ run[r].input = "resume"
        BY <2>2 DEF GoalResume, Asked, Ready
      <3>2. \A c \in Convs \ {run[r].conv} : mem[c] # NoGoal => heap'[mem[c]] = heap[mem[c]]
        BY <1>1, <2>2, ResumeOK
      <3>. QED BY <3>1, <3>2
    <2>. QED BY <1>1, <2>1, <2>2, NextOK
  <1>2. IInv /\ [Next]_vars => [A]_vars
    BY <1>1
  <1>3. Spec => [][A]_vars
    BY <1>2, Invariant, PTL DEF Spec
  <1>. QED BY <1>3 DEF OnlyResumeReactivates

-----------------------------------------------------------------------------
(* What a goal is still owed.                                                 *)

\* The prompts of a goal, and the loops about to start a turn for it.
Prompts(g) == {c \in Convs : store.pending[c] = g}
Gaps(g) == {r \in Runs : run[r].pc = "gap" /\ run[r].goal = g}

\* A store from which prompts were dropped at most.
PromptsDrop(s) ==
  /\ \A c \in Convs : s.pending[c] \in {store.pending[c], NoGoal}
  /\ s.latest \in {store.latest, NoGoal}

\* The run r does not wait to start a turn.
NoGap(r) == \E x : run' = [run EXCEPT ![r] = x] /\ x.pc # "gap"

\* Goals that are not live, before and after, are owed no more than they were.
OwesNoMore == \A g \in Ids : ~Live(g) /\ ~Live(g)' => Owed(g)' <= Owed(g)

LEMMA OwedCounts ==
  ASSUME NEW g
  PROVE  /\ IsFiniteSet(Prompts(g)) /\ Cardinality(Prompts(g)) \in Nat
         /\ IsFiniteSet(Gaps(g)) /\ Cardinality(Gaps(g)) \in Nat
         /\ Owed(g) = Cardinality(Prompts(g)) + (IF store.latest = g THEN 1 ELSE 0)
                      + Cardinality(Gaps(g))
  <1>1. Prompts(g) \subseteq Convs /\ Gaps(g) \subseteq Runs
    BY DEF Prompts, Gaps
  <1>2. /\ IsFiniteSet(Prompts(g)) /\ Cardinality(Prompts(g)) \in Nat
        /\ IsFiniteSet(Gaps(g)) /\ Cardinality(Gaps(g)) \in Nat
    BY <1>1, SetAssumption, FS_Subset, FS_CardinalityType
  <1>3. Owed(g) = Cardinality(Prompts(g)) + (IF store.latest = g THEN 1 ELSE 0)
                  + Cardinality(Gaps(g))
    BY DEF Owed, Prompts, Gaps
  <1>. QED BY <1>2, <1>3

\* The same of the next state.
LEMMA OwedCountsThen ==
  ASSUME NEW g
  PROVE  /\ IsFiniteSet(Prompts(g)') /\ Cardinality(Prompts(g)') \in Nat
         /\ IsFiniteSet(Gaps(g)') /\ Cardinality(Gaps(g)') \in Nat
         /\ Owed(g)' = Cardinality(Prompts(g)') + (IF store'.latest = g THEN 1 ELSE 0)
                       + Cardinality(Gaps(g)')
  <1>1. Prompts(g)' \subseteq Convs /\ Gaps(g)' \subseteq Runs
    BY DEF Prompts, Gaps
  <1>2. /\ IsFiniteSet(Prompts(g)') /\ Cardinality(Prompts(g)') \in Nat
        /\ IsFiniteSet(Gaps(g)') /\ Cardinality(Gaps(g)') \in Nat
    BY <1>1, SetAssumption, FS_Subset, FS_CardinalityType
  <1>3. Owed(g)' = Cardinality(Prompts(g)') + (IF store'.latest = g THEN 1 ELSE 0)
                   + Cardinality(Gaps(g)')
    BY DEF Owed, Prompts, Gaps
  <1>. QED BY <1>2, <1>3

\* Nothing is added.
LEMMA NothingAdded ==
  ASSUME NEW g, Prompts(g)' \subseteq Prompts(g), Gaps(g)' \subseteq Gaps(g),
         store'.latest = g => store.latest = g
  PROVE  Owed(g)' <= Owed(g)
  <1>1. /\ Cardinality(Prompts(g)') <= Cardinality(Prompts(g))
        /\ Cardinality(Gaps(g)') <= Cardinality(Gaps(g))
    BY OwedCounts, FS_Subset
  <1>. QED BY <1>1, OwedCounts, OwedCountsThen

\* A prompt of a conversation, or the latest, becomes the turn the run r is to start.
LEMMA HandedOn ==
  ASSUME NEW g, NEW r, Gaps(g)' \subseteq Gaps(g) \cup {r}, Prompts(g)' \subseteq Prompts(g),
         \/ /\ store'.latest = g => store.latest = g
            /\ \E c \in Prompts(g) : c \notin Prompts(g)'
         \/ store.latest = g /\ store'.latest # g
  PROVE  Owed(g)' <= Owed(g)
  <1>1. Cardinality(Gaps(g)') <= Cardinality(Gaps(g)) + 1
    <2>1. /\ IsFiniteSet(Gaps(g) \cup {r})
          /\ Cardinality(Gaps(g) \cup {r}) = IF r \in Gaps(g) THEN Cardinality(Gaps(g))
                                             ELSE Cardinality(Gaps(g)) + 1
      BY OwedCounts, FS_AddElement
    <2>2. Cardinality(Gaps(g)') <= Cardinality(Gaps(g) \cup {r})
      BY <2>1, FS_Subset
    <2>. QED BY <2>1, <2>2, OwedCounts, OwedCountsThen
  <1>2. Cardinality(Prompts(g)') <= Cardinality(Prompts(g))
    BY OwedCounts, FS_Subset
  <1>3. CASE /\ store'.latest = g => store.latest = g
             /\ \E c \in Prompts(g) : c \notin Prompts(g)'
    <2>1. PICK c \in Prompts(g) : c \notin Prompts(g)'
      BY <1>3
    <2>2. /\ IsFiniteSet(Prompts(g) \ {c})
          /\ Cardinality(Prompts(g) \ {c}) = Cardinality(Prompts(g)) - 1
      BY OwedCounts, FS_RemoveElement
    <2>3. Cardinality(Prompts(g)') <= Cardinality(Prompts(g) \ {c})
      BY <2>1, <2>2, FS_Subset
    <2>. QED BY <1>1, <1>3, <2>2, <2>3, OwedCounts, OwedCountsThen
  <1>4. CASE store.latest = g /\ store'.latest # g
    BY <1>1, <1>2, <1>4, OwedCounts, OwedCountsThen
  <1>. QED BY <1>3, <1>4

\* A run that goes anywhere but to the start of a turn, and prompts that are dropped.
LEMMA SettledOwes ==
  ASSUME TypeOK, NEW r \in Runs, NoGap(r), PromptsDrop(store')
  PROVE  OwesNoMore
  <1>. SUFFICES ASSUME NEW g \in Ids PROVE Owed(g)' <= Owed(g)
    BY DEF OwesNoMore
  <1>1. g # NoGoal
    BY NoGoalAssumption
  <1>2. Prompts(g)' \subseteq Prompts(g) /\ (store'.latest = g => store.latest = g)
    BY <1>1 DEF PromptsDrop, Prompts
  <1>3. Gaps(g)' \subseteq Gaps(g)
    <2>1. PICK x : run' = [run EXCEPT ![r] = x] /\ x.pc # "gap"
      BY DEF NoGap
    <2>2. run'[r] = x /\ \A q \in Runs \ {r} : run'[q] = run[q]
      BY <2>1, RunStep
    <2>. QED BY <2>1, <2>2 DEF Gaps
  <1>. QED BY <1>2, <1>3, NothingAdded

LEMMA AtFields ==
  ASSUME NEW r, NEW pc, NEW d, NEW g, NEW k
  PROVE  LET x == At(r, pc, d, g, k)
         IN x.pc = pc /\ x.cis = SubSeq(Cis(r), 1, d) /\ x.goal = g /\ x.chain = Chain(r)
  BY DEF At, Called, Idle

LEMMA AtNoGap ==
  ASSUME NEW r \in Runs, NEW pc, pc # "gap", NEW d, NEW g, NEW k,
         run' = [run EXCEPT ![r] = At(r, pc, d, g, k)]
  PROVE  NoGap(r)
  <1>. DEFINE x == At(r, pc, d, g, k)
  <1>1. run' = [run EXCEPT ![r] = x] /\ x.pc # "gap"
    BY AtFields
  <1>. HIDE DEF x
  <1>. QED BY <1>1 DEF NoGap

LEMMA InHookNoGap ==
  ASSUME NEW r \in Runs, NEW pc, pc # "gap", NEW d, NEW g, InHook(r, pc, d, g)
  PROVE  NoGap(r)
  BY AtNoGap DEF InHook

\* What dropping the prompt a loop takes does to the store.
LEMMA PoppedFields ==
  ASSUME NEW s \in Store, NEW c \in Convs
  PROVE  /\ s.pending[c] # NoGoal => Popped(s, c).latest = s.latest
         /\ s.pending[c] = NoGoal => Popped(s, c).latest = NoGoal
         /\ \A e \in Convs : Popped(s, c).pending[e] = IF e = c THEN NoGoal ELSE s.pending[e]
  <1>1. s.pending \in [Convs -> GoalRefs]
    BY StoreParts
  <1>2. CASE s.pending[c] # NoGoal
    <2>1. Popped(s, c) = [s EXCEPT !.pending[c] = NoGoal]
      BY <1>2 DEF Popped
    <2>. QED BY <1>1, <1>2, <2>1 DEF Store
  <1>3. CASE s.pending[c] = NoGoal
    <2>1. Popped(s, c) = [s EXCEPT !.latest = NoGoal]
      BY <1>3 DEF Popped
    <2>. QED BY <1>1, <1>3, <2>1 DEF Store
  <1>. QED BY <1>2, <1>3

\* A loop that starts a turn does so for a prompt it took, or for a live goal.
LEMMA GapOwes ==
  ASSUME TypeOK, NEW r \in Runs, NEW d, NEW p, InHook(r, "gap", d, p),
         NEW s \in Store, PromptsDrop(s), NEW own \in Convs, store' = Popped(s, own),
         (p # NoGoal /\ p = Prompt(s, own)) \/ Live(p)'
  PROVE  OwesNoMore
  <1>. SUFFICES ASSUME NEW g \in Ids, ~Live(g)' PROVE Owed(g)' <= Owed(g)
    BY DEF OwesNoMore
  <1>. DEFINE x == At(r, "gap", d, p, d - 1)
  <1>1. g # NoGoal
    BY NoGoalAssumption
  <1>2. run'[r] = x /\ \A q \in Runs \ {r} : run'[q] = run[q]
    <2>1. run' = [run EXCEPT ![r] = x]
      BY DEF InHook
    <2>. HIDE DEF x
    <2>. QED BY <2>1, RunStep
  <1>3. x.goal = p
    BY AtFields
  <1>. HIDE DEF x
  <1>4. /\ \A c \in Convs : s.pending[c] \in {store.pending[c], NoGoal}
        /\ s.latest \in {store.latest, NoGoal}
    BY DEF PromptsDrop
  <1>5. /\ s.pending[own] # NoGoal => store'.latest = s.latest
        /\ s.pending[own] = NoGoal => store'.latest = NoGoal
        /\ \A e \in Convs : store'.pending[e] = IF e = own THEN NoGoal ELSE s.pending[e]
    BY PoppedFields
  <1>6. Prompts(g)' \subseteq Prompts(g) /\ own \notin Prompts(g)'
    BY <1>1, <1>4, <1>5 DEF Prompts
  <1>7. store'.latest = g => store.latest = g
    BY <1>1, <1>4, <1>5
  <1>8. Gaps(g)' \subseteq Gaps(g) \cup {r} /\ (p # g => Gaps(g)' \subseteq Gaps(g))
    BY <1>2, <1>3 DEF Gaps
  <1>9. CASE p # g
    BY <1>6, <1>7, <1>8, <1>9, NothingAdded
  <1>10. CASE p = g
    <2>1. p = Prompt(s, own)
      BY <1>10
    <2>2. CASE s.pending[own] # NoGoal
      <3>1. own \in Prompts(g)
        BY <1>4, <1>10, <2>1, <2>2 DEF Prompts, Prompt
      <3>. QED BY <1>6, <1>7, <1>8, <3>1, HandedOn
    <2>3. CASE s.pending[own] = NoGoal
      <3>1. store.latest = g /\ store'.latest # g
        BY <1>1, <1>4, <1>5, <1>10, <2>1, <2>3 DEF Prompt
      <3>. QED BY <1>6, <1>8, <3>1, HandedOn
    <2>. QED BY <2>2, <2>3
  <1>. QED BY <1>9, <1>10

\* The top of a loop takes a prompt for a turn, or starts one for a live goal.
LEMMA LoopTopOwes ==
  ASSUME TypeOK, NEW r \in Runs, NEW d, Chain(r)[d] \in Convs,
         NEW s \in Store, PromptsDrop(s), LoopTop(r, d, s)
  PROVE  OwesNoMore
  <1>. DEFINE c == run[r].conv
              h == Chain(r)[d]
              own == IF s.pending[c] # NoGoal THEN c ELSE h
  <1>0. c \in Convs /\ h \in Convs /\ own \in Convs
    BY TypeParts, RunParts
  <1>1. CASE store' \in {s, [s EXCEPT !.shouldEnd = FALSE]} /\ InHook(r, "exit", d, NoGoal)
    <2>1. NoGap(r)
      BY <1>1, InHookNoGap
    <2>2. store'.pending = s.pending /\ store'.latest = s.latest
      BY <1>1 DEF Store
    <2>3. PromptsDrop(store')
      BY <2>2 DEF PromptsDrop
    <2>. QED BY <2>1, <2>3, SettledOwes
  <1>2. CASE /\ store' = Popped(s, own)
             /\ \/ Prompt(s, own) # NoGoal /\ InHook(r, "gap", d, Prompt(s, own))
                \/ \E e \in Convs : Active(mem', heap', e) /\ InHook(r, "gap", d, mem'[e])
                \/ InHook(r, "exit", d, NoGoal)
    <2>. HIDE DEF own, c, h
    <2>1. CASE InHook(r, "exit", d, NoGoal)
      <3>1. PromptsDrop(store')
        <4>1. /\ s.pending[own] # NoGoal => store'.latest = s.latest
              /\ s.pending[own] = NoGoal => store'.latest = NoGoal
              /\ \A e \in Convs : store'.pending[e] = IF e = own THEN NoGoal ELSE s.pending[e]
          BY <1>0, <1>2, PoppedFields
        <4>. QED BY <4>1 DEF PromptsDrop
      <3>. QED BY <2>1, <3>1, InHookNoGap, SettledOwes
    <2>2. PICK o \in Convs : o = own
      BY <1>0
    <2>3. CASE Prompt(s, own) # NoGoal /\ InHook(r, "gap", d, Prompt(s, own))
      <3>1. PICK p : p = Prompt(s, o)
        OBVIOUS
      <3>. QED BY <1>2, <2>2, <2>3, <3>1, GapOwes
    <2>4. ASSUME NEW e \in Convs, Active(mem', heap', e), InHook(r, "gap", d, mem'[e])
          PROVE  OwesNoMore
      <3>1. PICK p : p = mem'[e]
        OBVIOUS
      <3>2. Live(p)'
        BY <2>4, <3>1 DEF Live, Active
      <3>. QED BY <1>2, <2>2, <2>4, <3>1, <3>2, GapOwes
    <2>. QED BY <1>2, <2>1, <2>3, <2>4
  <1>. QED BY <1>0, <1>1, <1>2 DEF LoopTop

\* A store that differs in nothing the prompts are about.
SamePrompts(s) == s \in Store /\ s.pending = store.pending /\ s.latest = store.latest

LEMMA FinishNoGap ==
  ASSUME NEW r \in Runs, NEW reg, Finish(r, reg)
  PROVE  NoGap(r)
  <1>1. Idle.pc # "gap"
    BY IdleOK
  <1>. QED BY <1>1 DEF NoGap, Finish

LEMMA LandOwes ==
  ASSUME IInv, NEW r \in Runs, run[r].pc \notin {"idle", "arrived"},
         NEW s \in Store, PromptsDrop(s), NEW reg,
         NEW n \in Nat, n <= Len(Cis(r)), Land(r, s, n, reg)
  PROVE  OwesNoMore
  <1>1. Calling(r) /\ TypeOK
    BY CallingOK DEF IInv
  <1>2. CASE Stops(r, s, n) = {}
    <2>1. store' = s /\ Finish(r, reg)
      BY <1>2 DEF Land
    <2>2. NoGap(r)
      BY <2>1, FinishNoGap
    <2>. QED BY <1>1, <2>1, <2>2, SettledOwes DEF PromptsDrop
  <1>3. CASE Stops(r, s, n) # {}
    <2>. DEFINE d == Innermost(Stops(r, s, n))
    <2>1. Stops(r, s, n) \in SUBSET (1..n)
      BY DEF Stops
    <2>2. d \in Stops(r, s, n)
      BY <1>3, <2>1, InnermostIn
    <2>3. Chain(r)[d] \in Convs
      <3>1. Len(Cis(r)) \in Nat /\ Len(Chain(r)) \in Nat /\ Len(Cis(r)) <= Len(Chain(r))
        BY <1>1, HooksAt DEF Calling
      <3>2. d \in 1..n
        BY <2>1, <2>2
      <3>3. d \in 1..Len(Chain(r))
        BY <3>1, <3>2
      <3>. QED BY <1>1, <3>3, HooksAt DEF Calling
    <2>. HIDE DEF d
    <2>4. CASE store' = s /\ InHook(r, "sleep", d, NoGoal)
      BY <1>1, <2>4, InHookNoGap, SettledOwes DEF PromptsDrop
    <2>5. CASE LoopTop(r, d, Marked(s, Chain(r)[d]))
      <3>. DEFINE m == Marked(s, Chain(r)[d])
      <3>1. m \in Store /\ m.pending = s.pending /\ m.latest = s.latest
        BY <2>3 DEF Marked, Store
      <3>2. PromptsDrop(m)
        BY <3>1 DEF PromptsDrop
      <3>. HIDE DEF m
      <3>3. LoopTop(r, d, m)
        BY <2>5 DEF m
      <3>. QED BY <1>1, <2>3, <3>1, <3>2, <3>3, LoopTopOwes
    <2>. QED BY <1>3, <2>4, <2>5 DEF Land, d
  <1>. QED BY <1>2, <1>3

LEMMA EscapeOwes ==
  ASSUME TypeOK, NEW r \in Runs, NEW n, NEW reg, Escape(r, n, reg), PromptsDrop(store')
  PROVE  OwesNoMore
  <1>. DEFINE D == {d \in Continuing(r) : d <= n}
  <1>1. CASE D = {}
    BY <1>1, FinishNoGap, SettledOwes DEF Escape
  <1>2. CASE D # {}
    <2>1. PICK e : run' = [run EXCEPT ![r] = At(r, "unwind", e, NoGoal, e)]
      BY <1>2 DEF Escape
    <2>. QED BY <2>1, AtNoGap, SettledOwes
  <1>. QED BY <1>1, <1>2

LEMMA ReturnedOwes ==
  ASSUME IInv, NEW r \in Runs, run[r].pc \in Inside, NEW s \in Store, PromptsDrop(s),
         Returned(r, s)
  PROVE  OwesNoMore
  <1>. DEFINE reg == IF run[r].pc \in InTurn THEN Unregistered(registry, run[r].conv, r)
                     ELSE registry
              n == Len(Chain(r))
  <1>1. run[r].pc \notin {"idle", "arrived"}
    BY DEF Inside, Commands, InTurn
  <1>2. n \in Nat /\ n <= Len(Cis(r))
    <2>1. Calling(r) /\ Len(Cis(r)) = n
      BY <1>1, CallingOK
    <2>2. n \in Nat
      BY <2>1, HooksAt DEF Calling
    <2>. QED BY <2>1, <2>2
  <1>3. Land(r, s, n, reg)
    BY DEF Returned
  <1>. HIDE DEF n, reg
  <1>. QED BY <1>1, <1>2, <1>3, LandOwes

LEMMA SameDrops ==
  ASSUME NEW s, SamePrompts(s)
  PROVE  s \in Store /\ PromptsDrop(s)
  BY DEF SamePrompts, PromptsDrop

\* No run goes anywhere.
LEMMA UnmovedOwes ==
  ASSUME \A r \in Runs : run'[r].pc = run[r].pc /\ run'[r].goal = run[r].goal,
         UNCHANGED store
  PROVE  OwesNoMore
  <1>. SUFFICES ASSUME NEW g \in Ids PROVE Owed(g)' <= Owed(g)
    BY DEF OwesNoMore
  <1>1. Prompts(g)' = Prompts(g) /\ Gaps(g)' = Gaps(g) /\ store'.latest = store.latest
    BY DEF Prompts, Gaps
  <1>. QED BY <1>1, NothingAdded

\* The run is somewhere else than at the start of a turn, and no prompt is left.
LEMMA StepOwes ==
  ASSUME IInv, NEW r \in Runs, NoGap(r), SamePrompts(store')
  PROVE  OwesNoMore
  BY SettledOwes DEF SamePrompts, PromptsDrop, IInv

LEMMA StartTurnNoGap ==
  ASSUME NEW r \in Runs, NEW cis, StartTurn(r, cis)
  PROVE  NoGap(r) /\ UNCHANGED store
  <1>. DEFINE x == [Called(r) EXCEPT !.pc = "turn", !.cis = cis]
  <1>1. run' = [run EXCEPT ![r] = x] /\ UNCHANGED store
    BY DEF StartTurn
  <1>2. x.pc # "gap"
    BY DEF Called, Idle
  <1>. HIDE DEF x
  <1>. QED BY <1>1, <1>2 DEF NoGap

LEMMA InCommandNoGap ==
  ASSUME IInv, NEW r \in Runs, run[r].pc = "queued", NEW pc \in Commands, InCommand(r, pc)
  PROVE  NoGap(r)
  <1>1. PICK x \in Run : run' = [run EXCEPT ![r] = x] /\ x.pc = pc
    BY InCommandOK
  <1>. QED BY <1>1 DEF NoGap, Commands

LEMMA UnchangedPrompts == IInv => SamePrompts(store)
  BY TypeParts DEF IInv, SamePrompts

\* A message on its way, a turn that starts, a command under way, an answer of the judge,
\* an exception on its way out: neither a prompt nor the start of a turn.
LEMMA AsideOwes ==
  ASSUME IInv, NEW r \in Runs,
         \/ Arrive(r) \/ Install(r) \/ Turn(r) \/ GoalSet(r) \/ GoalSetDone(r)
         \/ JudgeAnswered(r) \/ Continue(r) \/ Unwound(r)
         \/ CommandCancelled(r) \/ LoopCancelled(r)
  PROVE  OwesNoMore
  <1>1. run \in [Runs -> Run] /\ run[r] \in Run
    BY TypeParts DEF IInv
  <1>2. SamePrompts(store)
    BY UnchangedPrompts
  <1>3. CASE Arrive(r)
    <2>1. PICK c, i : run' = [run EXCEPT ![r] = [Idle EXCEPT !.pc = "arrived", !.conv = c,
                                                             !.input = i]]
      BY <1>3 DEF Arrive
    <2>. DEFINE x == [Idle EXCEPT !.pc = "arrived", !.conv = c, !.input = i]
    <2>2. x.pc # "gap"
      BY DEF Idle
    <2>. HIDE DEF x
    <2>3. run' = [run EXCEPT ![r] = x] /\ UNCHANGED store
      BY <1>3, <2>1 DEF Arrive, x
    <2>. QED BY <1>2, <2>2, <2>3, StepOwes DEF NoGap
  <1>4. CASE Install(r)
    <2>. DEFINE x == [run[r] EXCEPT !.pc = "queued", !.saved = converse]
    <2>1. x.pc # "gap"
      BY <1>1 DEF Run
    <2>2. run' = [run EXCEPT ![r] = x] /\ UNCHANGED store
      BY <1>1, <1>4 DEF Install
    <2>. HIDE DEF x
    <2>. QED BY <1>2, <2>1, <2>2, StepOwes DEF NoGap
  <1>5. CASE Turn(r) \/ GoalSetDone(r) \/ Continue(r)
    <2>1. PICK cis : StartTurn(r, cis)
      BY <1>5 DEF Turn, GoalSetDone, Continue
    <2>. QED BY <1>2, <2>1, StartTurnNoGap, StepOwes
  <1>6. CASE GoalSet(r)
    <2>1. run[r].pc = "queued" /\ InCommand(r, "set") /\ UNCHANGED store
      BY <1>6 DEF GoalSet, Asked, Ready
    <2>. QED BY <1>2, <2>1, InCommandNoGap, StepOwes DEF Commands
  <1>7. CASE JudgeAnswered(r)
    <2>1. PICK h : run' = [run EXCEPT ![r].pc = "save", ![r].halts = h]
      BY <1>7 DEF JudgeAnswered
    <2>. DEFINE x == [run[r] EXCEPT !.pc = "save", !.halts = h]
    <2>2. x.pc # "gap"
      BY <1>1 DEF Run
    <2>3. run' = [run EXCEPT ![r] = x] /\ UNCHANGED store
      BY <1>1, <1>7, <2>1 DEF JudgeAnswered
    <2>. HIDE DEF x
    <2>. QED BY <1>2, <2>2, <2>3, StepOwes DEF NoGap
  <1>8. CASE Unwound(r)
    <2>1. PICK pc \in Leaving : InHook(r, pc, Len(run[r].cis), NoGoal) /\ UNCHANGED store
      BY <1>8 DEF Unwound, Leaving
    <2>. QED BY <1>2, <2>1, InHookNoGap, StepOwes DEF Leaving
  <1>9. CASE CommandCancelled(r)
    BY <1>2, <1>9, FinishNoGap, StepOwes DEF CommandCancelled
  <1>10. CASE LoopCancelled(r)
    BY <1>2, <1>10, InHookNoGap, StepOwes DEF LoopCancelled
  <1>. QED BY <1>3, <1>4, <1>5, <1>6, <1>7, <1>8, <1>9, <1>10

\* The commands that answer at once, or once they are carried out.
LEMMA CommandOwes ==
  ASSUME IInv, NEW r \in Runs,
         \/ GoalPause(r) \/ GoalResume(r) \/ GoalSaved(r) \/ GoalClear(r) \/ GoalCleared(r)
         \/ Stop(r) \/ TurnReturned(r) \/ TurnFailed(r)
  PROVE  OwesNoMore
  <1>1. SamePrompts(store) /\ store \in Store
    BY UnchangedPrompts DEF SamePrompts
  <1>2. ASSUME run[r].pc \in Inside, NEW s, SamePrompts(s), Returned(r, s) PROVE OwesNoMore
    BY <1>2, SameDrops, ReturnedOwes
  <1>3. ASSUME run[r].pc = "queued", NEW pc \in Commands, InCommand(r, pc), UNCHANGED store
        PROVE  OwesNoMore
    BY <1>1, <1>3, InCommandNoGap, StepOwes
  <1>4. CASE GoalPause(r) \/ GoalResume(r)
    <2>1. /\ run[r].pc = "queued"
          /\ Returned(r, store) \/ (InCommand(r, "saving") /\ UNCHANGED store)
      BY <1>4 DEF GoalPause, GoalResume, ChangeGoal, Asked, Ready
    <2>. QED BY <1>1, <1>2, <1>3, <2>1 DEF Commands, Inside
  <1>5. CASE GoalSaved(r) \/ TurnReturned(r)
    <2>1. run[r].pc \in {"saving", "wrap"} /\ Returned(r, store)
      BY <1>5 DEF GoalSaved, TurnReturned, Ready
    <2>. QED BY <1>1, <1>2, <2>1 DEF Inside, Commands, InTurn
  <1>6. CASE GoalClear(r)
    <2>1. /\ run[r].pc = "queued"
          /\ Returned(r, store) \/ (InCommand(r, "clearing") /\ UNCHANGED store)
      BY <1>6 DEF GoalClear, Asked, Ready
    <2>. QED BY <1>1, <1>2, <1>3, <2>1 DEF Commands, Inside
  <1>7. CASE GoalCleared(r)
    <2>1. run[r].pc = "clearing" /\ Returned(r, store)
      BY <1>7 DEF GoalCleared, Ready
    <2>. QED BY <1>1, <1>2, <2>1 DEF Inside, Commands
  <1>8. CASE Stop(r)
    <2>1. PICK S \in SUBSET Convs, b \in BOOLEAN :
            Returned(r, [store EXCEPT !.stopRequests = S, !.shouldEnd = b])
      <3>. DEFINE c == run[r].conv
                  targets == StopTargets(c)
                  known == {c} \cup {d \in Convs : registry[d] # NoRun}
                  ends == targets # {} \/ \E d \in known : taskLoop[d] = "active"
      <3>1. Returned(r, [store EXCEPT !.stopRequests = @ \cup targets,
                                      !.shouldEnd = @ \/ ends])
        BY <1>8 DEF Stop
      <3>2. store.stopRequests \cup targets \in SUBSET Convs
        BY <1>1, StoreParts, TypeParts, RunParts DEF StopTargets, IInv
      <3>3. (store.shouldEnd \/ ends) \in BOOLEAN
        OBVIOUS
      <3>. HIDE DEF targets, ends
      <3>. QED BY <3>1, <3>2, <3>3
    <2>. DEFINE s == [store EXCEPT !.stopRequests = S, !.shouldEnd = b]
    <2>2. SamePrompts(s)
      BY <1>1 DEF SamePrompts, Store
    <2>3. run[r].pc \in Inside
      BY <1>8 DEF Stop, Asked, Ready, Inside
    <2>. HIDE DEF s
    <2>4. Returned(r, s)
      BY <2>1 DEF s
    <2>. QED BY <1>2, <2>2, <2>3, <2>4
  <1>9. CASE TurnFailed(r)
    <2>. DEFINE s == [store EXCEPT !.shouldEnd = FALSE]
    <2>1. SamePrompts(s)
      BY <1>1 DEF SamePrompts, Store
    <2>2. run[r].pc \in Inside
      BY <1>9 DEF TurnFailed, Ready, Inside, InTurn
    <2>. HIDE DEF s
    <2>3. Returned(r, s)
      BY <1>9 DEF TurnFailed, s
    <2>. QED BY <1>2, <2>1, <2>2, <2>3
  <1>. QED BY <1>4, <1>5, <1>6, <1>7, <1>8, <1>9

\* A finished turn: prompts are dropped, or left for the goal the conversation is at.
LEMMA VerdictOwes ==
  ASSUME IInv, NEW r \in Runs, TurnAnswered(r) \/ VerdictSaved(r)
  PROVE  OwesNoMore
  <1>. DEFINE c == run[r].conv
  <1>1. TypeOK /\ run \in [Runs -> Run] /\ run[r] \in Run /\ store \in Store /\ c \in Convs
    BY TypeParts, RunParts DEF IInv
  <1>2. store.pending \in [Convs -> GoalRefs]
    BY <1>1, StoreParts
  <1>3. NoGap(r)
    <2>1. CASE TurnAnswered(r)
      <3>1. CASE Active(mem, heap, c)
        <4>. DEFINE x == [run[r] EXCEPT !.pc = "judge", !.goal = mem[c]]
        <4>1. run' = [run EXCEPT ![r] = x]
          BY <1>1, <2>1, <3>1 DEF TurnAnswered
        <4>2. x.pc # "gap"
          BY <1>1 DEF Run
        <4>. HIDE DEF x
        <4>. QED BY <4>1, <4>2 DEF NoGap
      <3>2. CASE ~Active(mem, heap, c)
        <4>. DEFINE x == [run[r] EXCEPT !.pc = "wrap"]
        <4>1. run' = [run EXCEPT ![r] = x]
          BY <1>1, <2>1, <3>2 DEF TurnAnswered, Goto
        <4>2. x.pc # "gap"
          BY <1>1 DEF Run
        <4>. HIDE DEF x
        <4>. QED BY <4>1, <4>2 DEF NoGap
      <3>. QED BY <3>1, <3>2
    <2>2. CASE VerdictSaved(r)
      <3>. DEFINE x == [run[r] EXCEPT !.pc = "wrap", !.goal = NoGoal, !.halts = FALSE]
      <3>1. run' = [run EXCEPT ![r] = x]
        BY <1>1, <2>2 DEF VerdictSaved
      <3>2. x.pc # "gap"
        BY <1>1 DEF Run
      <3>. HIDE DEF x
      <3>. QED BY <3>1, <3>2 DEF NoGap
    <2>. QED BY <2>1, <2>2
  <1>4. CASE store' = store
    BY <1>3, <1>4, UnchangedPrompts, StepOwes
  <1>5. ASSUME NEW v \in BOOLEAN, store' = Closed(store, c, v) PROVE OwesNoMore
    <2>1. /\ store'.latest = NoGoal
          /\ \A e \in Convs : store'.pending[e] = IF e = c THEN NoGoal ELSE store.pending[e]
      <3>1. CASE v
        BY <1>1, <1>2, <1>5, <3>1 DEF Closed, Store
      <3>2. CASE ~v
        BY <1>1, <1>2, <1>5, <3>2 DEF Closed, Store
      <3>. QED BY <3>1, <3>2
    <2>2. PromptsDrop(store')
      BY <2>1 DEF PromptsDrop
    <2>. QED BY <1>1, <1>3, <2>2, SettledOwes
  <1>6. CASE Active(mem, heap, c) /\ store' = Continued(store, c, mem[c])
    <2>. SUFFICES ASSUME NEW g \in Ids, ~Live(g) PROVE Owed(g)' <= Owed(g)
      BY DEF OwesNoMore
    <2>1. g # mem[c]
      BY <1>1, <1>6 DEF Live, Active
    <2>2. /\ store'.latest = mem[c]
          /\ \A e \in Convs : store'.pending[e] = IF e = c THEN mem[c] ELSE store.pending[e]
      BY <1>1, <1>2, <1>6 DEF Continued, Store
    <2>3. Prompts(g)' \subseteq Prompts(g) /\ (store'.latest = g => store.latest = g)
      BY <2>1, <2>2 DEF Prompts
    <2>4. Gaps(g)' \subseteq Gaps(g)
      <3>1. PICK x : run' = [run EXCEPT ![r] = x] /\ x.pc # "gap"
        BY <1>3 DEF NoGap
      <3>2. run'[r] = x /\ \A q \in Runs \ {r} : run'[q] = run[q]
        BY <1>1, <3>1, RunStep
      <3>. QED BY <3>1, <3>2 DEF Gaps
    <2>. QED BY <2>3, <2>4, NothingAdded
  <1>7. CASE TurnAnswered(r)
    <2>1. store' = store \/ store' = Closed(store, c, FALSE)
      BY <1>7 DEF TurnAnswered
    <2>. QED BY <1>4, <1>5, <2>1
  <1>8. CASE VerdictSaved(r)
    <2>1. \/ store' = Closed(store, c, TRUE)
          \/ NextPrompt(r) # NoGoal /\ store' = Continued(store, c, NextPrompt(r))
      BY <1>8 DEF VerdictSaved
    <2>2. NextPrompt(r) # NoGoal => Active(mem, heap, c) /\ NextPrompt(r) = mem[c]
      BY DEF NextPrompt
    <2>. QED BY <1>5, <1>6, <2>1, <2>2
  <1>. QED BY <1>7, <1>8

\* A loop goes on, a hook ends, an exception passes the hooks.
LEMMA HookOwes ==
  ASSUME IInv, NEW r \in Runs,
         Slept(r) \/ Exit(r) \/ TurnCancelled(r) \/ TimeUp(r) \/ ExitCancelled(r)
  PROVE  OwesNoMore
  <1>. DEFINE n == Len(run[r].cis)
  <1>1. TypeOK /\ SamePrompts(store) /\ store \in Store /\ PromptsDrop(store)
    BY UnchangedPrompts, SameDrops DEF IInv
  <1>2. CASE Slept(r)
    <2>1. run[r].pc = "sleep" /\ LoopTop(r, n, store)
      BY <1>2 DEF Slept, Ready
    <2>2. run[r].pc \notin {"idle", "arrived"} /\ run[r].pc \in InLoop
      BY <2>1 DEF InLoop
    <2>3. Calling(r) /\ Cis(r) = run[r].cis /\ n >= 1
      BY <2>2, CallingOK
    <2>4. Chain(r)[n] \in Convs
      <3>1. /\ Chain(r) \in UpToHooks(Convs) /\ Len(Chain(r)) \in Nat /\ n \in Nat
            /\ n <= Len(Chain(r))
        BY <2>3, HooksAt DEF Calling
      <3>. QED BY <2>3, <3>1, HooksAt
    <2>. HIDE DEF n
    <2>. QED BY <1>1, <2>1, <2>4, LoopTopOwes
  <1>3. CASE Exit(r)
    <2>. DEFINE s == FlagDropped(store, run[r].chain[n])
    <2>1. /\ run[r].pc \in {"exit", "raise"}
          /\ \/ Land(r, s, n - 1, registry)
             \/ store' = s /\ Escape(r, n - 1, registry)
      BY <1>3 DEF Exit, Ready
    <2>2. run[r].pc \in InLoop /\ run[r].pc \notin {"idle", "arrived"}
      BY <2>1 DEF InLoop, Leaving
    <2>3. n - 1 \in Nat /\ n - 1 <= Len(Cis(r))
      <3>1. Calling(r) /\ Cis(r) = run[r].cis /\ n >= 1
        BY <2>2, CallingOK
      <3>2. n \in Nat
        BY <3>1, HooksAt DEF Calling
      <3>. QED BY <3>1, <3>2
    <2>4. SamePrompts(s)
      BY <1>1 DEF SamePrompts, FlagDropped, Store
    <2>. HIDE DEF s, n
    <2>5. CASE Land(r, s, n - 1, registry)
      BY <2>2, <2>3, <2>4, <2>5, SameDrops, LandOwes
    <2>6. CASE store' = s /\ Escape(r, n - 1, registry)
      <3>1. PromptsDrop(store')
        BY <2>4, <2>6 DEF PromptsDrop, SamePrompts
      <3>. QED BY <1>1, <2>6, <3>1, EscapeOwes
    <2>. QED BY <2>1, <2>5, <2>6
  <1>4. ASSUME run[r].pc \in InTurn, Interrupted(r) PROVE OwesNoMore
    <2>. DEFINE c == run[r].conv
                s == [store EXCEPT !.stopRequests = @ \ {c}]
    <2>1. run[r].pc \in Inside
      BY <1>4 DEF Inside
    <2>2. SamePrompts(s)
      BY <1>1 DEF SamePrompts, Store
    <2>. HIDE DEF s
    <2>3. CASE Returned(r, s)
      BY <2>1, <2>2, <2>3, SameDrops, ReturnedOwes
    <2>4. CASE Escape(r, n, Unregistered(registry, c, r)) /\ UNCHANGED store
      <3>1. PromptsDrop(store')
        BY <2>4 DEF PromptsDrop
      <3>. QED BY <1>1, <2>4, <3>1, EscapeOwes
    <2>. QED BY <1>4, <2>3, <2>4 DEF Interrupted, s
  <1>5. CASE TurnCancelled(r)
    BY <1>4, <1>5 DEF TurnCancelled
  <1>6. CASE TimeUp(r)
    <2>1. UNCHANGED store
      BY <1>6 DEF TimeUp
    <2>2. PICK x \in Run : /\ run' = [run EXCEPT ![r] = x]
                           /\ x.pc = run[r].pc /\ x.goal = run[r].goal
      BY <1>1, <1>6, TimeUpPlace, TimeUpParts
    <2>3. run'[r] = x /\ \A q \in Runs \ {r} : run'[q] = run[q]
      BY <1>1, <2>2, RunStep
    <2>. QED BY <2>1, <2>2, <2>3, UnmovedOwes
  <1>7. CASE ExitCancelled(r)
    <2>1. Escape(r, n - 1, registry)
      BY <1>7 DEF ExitCancelled
    <2>2. store' = [store EXCEPT !.left = @ \cup {run[r].chain[n]}]
      BY <1>7 DEF ExitCancelled
    <2>3. PromptsDrop(store')
      BY <1>1, <2>2 DEF PromptsDrop, Store
    <2>. HIDE DEF n
    <2>. QED BY <1>1, <2>1, <2>3, EscapeOwes
  <1>. QED BY <1>2, <1>3, <1>5, <1>6, <1>7

\* /new drops every prompt, before its hooks run on.
LEMMA NewOwes ==
  ASSUME IInv, NEW r \in Runs, New(r)
  PROVE  OwesNoMore
  <1>. DEFINE c == run[r].conv
              targets == {c, activeConv} \ {"none"}
              s == [store EXCEPT !.pending = [d \in Convs |-> NoGoal], !.latest = NoGoal,
                                 !.completed = @ \ {c}, !.flags = {}, !.left = {},
                                 !.shouldEnd = FALSE]
              reg == [d \in Convs |-> IF d \in targets THEN NoRun ELSE registry[d]]
  <1>1. run[r].pc = "queued" /\ Land(r, s, Len(converse), reg)
    BY DEF New, Asked, Ready
  <1>2. s \in Store /\ PromptsDrop(s)
    <2>1. store \in Store
      BY TypeParts DEF IInv
    <2>2. s \in Store /\ s.latest = NoGoal /\ s.pending = [d \in Convs |-> NoGoal]
      BY <2>1 DEF Store
    <2>. QED BY <2>2 DEF PromptsDrop
  <1>3. Len(converse) \in Nat /\ Len(converse) <= Len(Cis(r))
    <2>1. Calling(r) /\ Len(Cis(r)) = Len(Chain(r)) /\ Chain(r) = converse
      BY <1>1, CallingOK DEF Inside, Chain
    <2>2. Len(converse) \in Nat
      BY <2>1, HooksAt DEF Calling
    <2>. QED BY <2>1, <2>2
  <1>. HIDE DEF s, reg
  <1>. QED BY <1>1, <1>2, <1>3, LandOwes

\* A goal that was paused, finished, cleared or replaced is owed no turn it was not owed
\* before, whatever verdict is still out and whichever loops hand its prompts on.
THEOREM NoTurnForDeadGoals == Spec => NoNewContinuation
  <1>1. ASSUME IInv, Next PROVE OwesNoMore
    <2>1. ASSUME NEW r \in Runs, User(r) \/ Step(r) \/ TimeUp(r) PROVE OwesNoMore
      <3>1. CASE User(r)
        BY <1>1, <3>1, AsideOwes DEF User
      <3>2. CASE Command(r)
        BY <1>1, <3>2, AsideOwes, CommandOwes, NewOwes DEF Command
      <3>3. CASE Work(r)
        BY <1>1, <3>3, AsideOwes, CommandOwes, VerdictOwes, HookOwes DEF Work
      <3>4. CASE Cancel(r)
        BY <1>1, <3>4, AsideOwes, HookOwes DEF Cancel
      <3>5. CASE TimeUp(r)
        BY <1>1, <3>5, HookOwes
      <3>. QED BY <2>1, <3>1, <3>2, <3>3, <3>4, <3>5 DEF Step
    <2>2. ASSUME NEW c \in Convs, ClearTask(c) PROVE OwesNoMore
      BY <2>2, UnmovedOwes DEF ClearTask
    <2>. QED BY <1>1, <2>1, <2>2 DEF Next
  <1>2. IInv /\ [Next]_vars => [OwesNoMore]_vars
    BY <1>1
  <1>3. Spec => [][OwesNoMore]_vars
    BY <1>2, Invariant, PTL DEF Spec
  <1>4. NoNewContinuation <=> [][OwesNoMore]_vars
    BY DEF NoNewContinuation, OwesNoMore
  <1>. QED BY <1>3, <1>4

-----------------------------------------------------------------------------
(* The loops and their flags, where no message is /new.                       *)

\* The hooks of a run that are looping, and the conversations they were made for.
LoopHooks(x) == {d \in 1..Len(x.cis) : x.cis[d] > 0 \/ (d = Len(x.cis) /\ x.pc \in InLoop)}
Taken(x) == {x.chain[d] : d \in LoopHooks(x)}
OneEach(x) == \A d, e \in LoopHooks(x) : x.chain[d] = x.chain[e] => d = e

\* The conversations of the loops of the other runs.
OthersTake(r) == UNION {Taken(run[q]) : q \in Runs \ {r}}

\* The flags F are set for the conversations S of one run and those of the others.
Fit(r, S, F) == F = S \cup OthersTake(r) /\ S \cap OthersTake(r) = {}

Located(x) ==
  /\ x.pc \in Arriving \cup {"idle"} => x.cis = <<>>
  /\ x.pc \in Commands => LoopHooks(x) = {}
  /\ x.pc = "gap" => x.cis[Len(x.cis)] # LoopBound

\* The flags that a loop will drop yet.
Looping(s) == s.flags \ s.left

\* Each of them belongs to one loop.
LoopInv ==
  /\ \A r \in Runs : Located(run[r]) /\ OneEach(run[r]) /\ Fit(r, Taken(run[r]), Looping(store))
  /\ store.left \subseteq store.flags
  /\ Runs = {} => Looping(store) = {}

\* What the step of a run has to leave behind.
RunFits(r, F) ==
  \E x : run' = [run EXCEPT ![r] = x] /\ Located(x) /\ OneEach(x) /\ Fit(r, Taken(x), F)
Fits(r) == RunFits(r, Looping(store')) /\ store'.left \subseteq store'.flags

LEMMA NothingTaken ==
  ASSUME NEW x, x.cis = <<>>
  PROVE  LoopHooks(x) = {} /\ Taken(x) = {} /\ OneEach(x)
  <1>1. LoopHooks(x) = {}
    BY DEF LoopHooks
  <1>. QED BY <1>1 DEF Taken, OneEach

LEMMA FitsOK ==
  ASSUME IInv, LoopInv, NEW r \in Runs, Fits(r)
  PROVE  LoopInv'
  <1>1. PICK x : /\ run' = [run EXCEPT ![r] = x] /\ Located(x) /\ OneEach(x)
                 /\ Fit(r, Taken(x), Looping(store'))
    BY DEF Fits, RunFits
  <1>2. run'[r] = x /\ \A q \in Runs \ {r} : run'[q] = run[q]
    BY <1>1, RunStep DEF IInv
  <1>3. \A q \in Runs : Located(run'[q]) /\ OneEach(run'[q])
    BY <1>1, <1>2 DEF LoopInv
  <1>4. ASSUME NEW q \in Runs PROVE Fit(q, Taken(run[q]), Looping(store))'
    <2>1. CASE q = r
      <3>1. OthersTake(r)' = OthersTake(r)
        BY <1>2 DEF OthersTake
      <3>. QED BY <1>1, <1>2, <2>1, <3>1 DEF Fit, Looping
    <2>2. CASE q # r
      <3>1. Taken(run[q]) \subseteq OthersTake(r)
        BY <2>2 DEF OthersTake
      <3>2. OthersTake(r) = Taken(run[q]) \cup UNION {Taken(run[p]) : p \in Runs \ {q, r}}
        BY <2>2 DEF OthersTake
      <3>3. OthersTake(q)' = Taken(x) \cup UNION {Taken(run[p]) : p \in Runs \ {q, r}}
        <4>1. OthersTake(q)' = UNION {Taken(run'[p]) : p \in Runs \ {q}}
          BY DEF OthersTake
        <4>2. \A p \in Runs \ {q, r} : run'[p] = run[p]
          BY <1>2
        <4>3. Runs \ {q} = {r} \cup (Runs \ {q, r})
          BY <2>2
        <4>. QED BY <1>2, <4>1, <4>2, <4>3
      <3>4. Taken(run[q]) \cap UNION {Taken(run[p]) : p \in Runs \ {q, r}} = {}
        <4>1. UNION {Taken(run[p]) : p \in Runs \ {q, r}} \subseteq OthersTake(q)
          BY DEF OthersTake
        <4>2. Taken(run[q]) \cap OthersTake(q) = {}
          BY DEF LoopInv, Fit
        <4>. QED BY <4>1, <4>2
      <3>5. Looping(store') = Taken(x) \cup OthersTake(r) /\ Taken(x) \cap OthersTake(r) = {}
        BY <1>1 DEF Fit
      <3>6. Taken(run[q])' = Taken(run[q])
        BY <1>2, <2>2
      <3>7. /\ Looping(store') = Taken(run[q])' \cup OthersTake(q)'
            /\ Taken(run[q])' \cap OthersTake(q)' = {}
        BY <3>1, <3>2, <3>3, <3>4, <3>5, <3>6
      <3>. QED BY <3>7 DEF Fit, Looping
    <2>. QED BY <2>1, <2>2
  <1>. QED BY <1>3, <1>4 DEF LoopInv, Fits

\* The hooks of a run up to hook n that have continued, and what they were made for.
Passing(r, n) == {e \in 1..n : Cis(r)[e] > 0}
Hold(r, D) == {Chain(r)[e] : e \in D}
Distinct(r, D) == \A d, e \in D : Chain(r)[d] = Chain(r)[e] => d = e

\* What the next lemmas are about: converse returns, or is left, through hooks 1..n.
Passes(r, n, F) ==
  /\ n \in Nat /\ n <= Len(Cis(r))
  /\ Distinct(r, Passing(r, n))
  /\ Fit(r, Hold(r, Passing(r, n)), F)

\* A run that has not called converse yet has continued in no hook.
LEMMA QueuedPasses ==
  ASSUME IInv, NEW r \in Runs, run[r].pc = "queued"
  PROVE  Passing(r, Len(Cis(r))) = {}
  <1>1. Cis(r) = [d \in DOMAIN converse |-> 0] /\ Chain(r) = converse
    BY DEF Cis, Chain
  <1>2. Len(Cis(r)) = Len(Chain(r)) /\ DOMAIN converse = 1..Len(converse)
    <2>1. Calling(r) /\ Len(Cis(r)) = Len(Chain(r))
      BY CallingOK DEF Inside
    <2>. QED BY <1>1, <2>1, HooksAt DEF Calling
  <1>. QED BY <1>1, <1>2 DEF Passing

\* Inside converse the loops are the hooks that have continued.
LEMMA InsidePasses ==
  ASSUME IInv, LoopInv, NEW r \in Runs, run[r].pc \in Inside
  PROVE  Passes(r, Len(Cis(r)), Looping(store)) /\ Len(Cis(r)) = Len(Chain(r))
  <1>. DEFINE n == Len(Cis(r))
  <1>1. run[r].pc \notin {"idle", "arrived"} /\ run[r].pc \notin InLoop
    BY DEF Inside, Commands, InTurn, InLoop, Leaving
  <1>2. Calling(r) /\ n = Len(Chain(r)) /\ n \in Nat
    BY <1>1, CallingOK, HooksAt DEF Calling
  <1>3. Taken(run[r]) = Hold(r, Passing(r, n)) /\ Distinct(r, Passing(r, n))
    <2>1. CASE run[r].pc = "queued"
      <3>1. LoopHooks(run[r]) = {} /\ Taken(run[r]) = {}
        BY <2>1, NothingTaken DEF LoopInv, Located, Arriving
      <3>2. Passing(r, n) = {}
        BY <2>1, QueuedPasses
      <3>. QED BY <3>1, <3>2 DEF Hold, Distinct
    <2>2. CASE run[r].pc # "queued"
      <3>1. Chain(r) = run[r].chain /\ Cis(r) = run[r].cis
        BY <1>1, <2>2, CallingOK
      <3>2. LoopHooks(run[r]) = Passing(r, n)
        BY <1>1, <3>1 DEF LoopHooks, Passing
      <3>3. OneEach(run[r])
        BY DEF LoopInv
      <3>. QED BY <3>1, <3>2, <3>3 DEF Taken, Hold, OneEach, Distinct
    <2>. QED BY <2>1, <2>2
  <1>4. Fit(r, Taken(run[r]), Looping(store))
    BY DEF LoopInv
  <1>. QED BY <1>2, <1>3, <1>4 DEF Passes

\* In the loop of hook d it is one of them as well.
LEMMA InLoopHolds ==
  ASSUME IInv, LoopInv, NEW r \in Runs, run[r].pc \in InLoop
  PROVE  LET d == Len(run[r].cis)
         IN /\ Calling(r) /\ Cis(r) = run[r].cis /\ Chain(r) = run[r].chain
            /\ d \in 1..Len(Cis(r)) /\ Chain(r)[d] \in Convs
            /\ LoopHooks(run[r]) = Passing(r, d) \cup {d}
            /\ Distinct(r, Passing(r, d) \cup {d})
            /\ Fit(r, Hold(r, Passing(r, d) \cup {d}), Looping(store))
  <1>. DEFINE d == Len(run[r].cis)
  <1>1. run[r].pc \notin {"idle", "arrived"}
    BY DEF InLoop, Leaving
  <1>2. Calling(r) /\ Cis(r) = run[r].cis /\ Chain(r) = run[r].chain /\ d >= 1
    BY <1>1, CallingOK
  <1>3. d \in 1..Len(Cis(r)) /\ Len(Chain(r)) \in Nat /\ d <= Len(Chain(r)) /\ d \in Nat
    BY <1>2, HooksAt DEF Calling
  <1>4. Chain(r)[d] \in Convs
    <2>1. d \in 1..Len(Chain(r))
      BY <1>2, <1>3
    <2>. QED BY <1>2, <2>1, HooksAt DEF Calling
  <1>5. LoopHooks(run[r]) = Passing(r, d) \cup {d}
    BY <1>2, <1>3 DEF LoopHooks, Passing
  <1>6. OneEach(run[r]) /\ Fit(r, Taken(run[r]), Looping(store))
    BY DEF LoopInv
  <1>7. Distinct(r, Passing(r, d) \cup {d}) /\ Taken(run[r]) = Hold(r, Passing(r, d) \cup {d})
    BY <1>2, <1>5, <1>6 DEF OneEach, Distinct, Taken, Hold
  <1>. QED BY <1>2, <1>3, <1>4, <1>5, <1>6, <1>7

\* A run put into the loop of hook d.
LEMMA PutInLoop ==
  ASSUME IInv, NEW r \in Runs, Calling(r), NEW d \in 1..Len(Cis(r)), NEW pc \in InLoop,
         NEW x, x.pc = pc, x.cis = SubSeq(Cis(r), 1, d), x.chain = Chain(r),
         pc = "gap" => Cis(r)[d] # LoopBound,
         run' = [run EXCEPT ![r] = x],
         NEW F, Distinct(r, Passing(r, d) \cup {d}), Fit(r, Hold(r, Passing(r, d) \cup {d}), F)
  PROVE  RunFits(r, F)
  <1>1. Len(x.cis) = d /\ d \in Nat
    BY OuterHooks, HooksAt DEF Calling
  <1>2. \A e \in 1..d : x.cis[e] = Cis(r)[e]
    <2>1. Cis(r) \in Seq(0..LoopBound) /\ Len(Cis(r)) \in Nat
      BY HooksSeq, HooksAt DEF Calling
    <2>. QED BY <2>1
  <1>3. LoopHooks(x) = Passing(r, d) \cup {d}
    BY <1>1, <1>2 DEF LoopHooks, Passing
  <1>4. Taken(x) = Hold(r, Passing(r, d) \cup {d}) /\ OneEach(x)
    BY <1>3 DEF Taken, Hold, OneEach, Distinct
  <1>5. Located(x)
    <2>1. pc \notin Arriving \cup {"idle"} /\ pc \notin Commands
      BY DEF Arriving, Commands, InLoop, Leaving
    <2>2. x.cis[Len(x.cis)] = Cis(r)[d]
      BY <1>1, <1>2
    <2>. QED BY <2>1, <2>2 DEF Located
  <1>. QED BY <1>4, <1>5 DEF RunFits

LEMMA InHookFits ==
  ASSUME IInv, NEW r \in Runs, Calling(r), NEW d \in 1..Len(Cis(r)), NEW pc \in InLoop,
         NEW g, InHook(r, pc, d, g), pc = "gap" => Cis(r)[d] # LoopBound,
         NEW F, Distinct(r, Passing(r, d) \cup {d}), Fit(r, Hold(r, Passing(r, d) \cup {d}), F)
  PROVE  RunFits(r, F)
  <1>. DEFINE x == At(r, pc, d, g, d - 1)
  <1>1. run' = [run EXCEPT ![r] = x]
    BY DEF InHook
  <1>2. x.pc = pc /\ x.cis = SubSeq(Cis(r), 1, d) /\ x.chain = Chain(r)
    BY AtFields
  <1>. HIDE DEF x
  <1>. QED BY <1>1, <1>2, PutInLoop

\* The run is done: it had no loop left.
LEMMA FinishFits ==
  ASSUME NEW r \in Runs, NEW reg, Finish(r, reg), NEW F, Fit(r, {}, F)
  PROVE  RunFits(r, F)
  <1>1. Idle.cis = <<>> /\ Idle.pc = "idle"
    BY DEF Idle
  <1>2. Taken(Idle) = {} /\ OneEach(Idle) /\ Located(Idle)
    BY <1>1, NothingTaken DEF Located, Commands
  <1>. QED BY <1>2 DEF Finish, RunFits

\* At the top of a loop a run stays in its hook.
LEMMA LoopTopStays ==
  ASSUME TypeOK, NEW r \in Runs, NEW d, Chain(r)[d] \in Convs, NEW s \in Store,
         LoopTop(r, d, s)
  PROVE  /\ store'.flags = s.flags /\ store'.left = s.left
         /\ \E pc \in InLoop : \E g : InHook(r, pc, d, g) /\ (pc = "gap" => Cis(r)[d] # LoopBound)
  <1>. DEFINE c == run[r].conv
              h == Chain(r)[d]
              own == IF s.pending[c] # NoGoal THEN c ELSE h
  <1>1. "exit" \in InLoop /\ "gap" \in InLoop /\ "exit" # "gap"
    BY DEF InLoop, Leaving
  <1>2. CASE store' \in {s, [s EXCEPT !.shouldEnd = FALSE]} /\ InHook(r, "exit", d, NoGoal)
    BY <1>1, <1>2 DEF Store
  <1>3. CASE /\ store' = Popped(s, own) /\ Cis(r)[d] # LoopBound
             /\ \E pc \in {"exit", "gap"} : \E g : InHook(r, pc, d, g)
    <2>. HIDE DEF own
    <2>1. store'.flags = s.flags /\ store'.left = s.left
      BY <1>3 DEF Popped, Store
    <2>. QED BY <1>1, <1>3, <2>1
  <1>4. \/ store' \in {s, [s EXCEPT !.shouldEnd = FALSE]} /\ InHook(r, "exit", d, NoGoal)
        \/ /\ store' = Popped(s, own) /\ Cis(r)[d] # LoopBound
           /\ \/ InHook(r, "gap", d, Prompt(s, own))
              \/ InHook(r, "gap", d, mem'[c])
              \/ InHook(r, "gap", d, mem'[h])
              \/ InHook(r, "exit", d, NoGoal)
    BY DEF LoopTop, LoopExhausted
  <1>. HIDE DEF own, c, h
  <1>5. \/ store' \in {s, [s EXCEPT !.shouldEnd = FALSE]} /\ InHook(r, "exit", d, NoGoal)
        \/ /\ store' = Popped(s, own) /\ Cis(r)[d] # LoopBound
           /\ \E pc \in {"exit", "gap"} : \E g : InHook(r, pc, d, g)
    BY <1>4
  <1>. QED BY <1>2, <1>3, <1>5

\* converse returns: the loop it returns to is known to its flag, or enters and sets it.
LEMMA LandFits ==
  ASSUME IInv, NEW r \in Runs, run[r].pc \notin {"idle", "arrived"}, NEW s \in Store,
         s.left \subseteq s.flags, NEW n, Passes(r, n, Looping(s)), NEW reg,
         Land(r, s, n, reg)
  PROVE  Fits(r)
  <1>1. /\ Calling(r) /\ TypeOK /\ n \in Nat /\ n <= Len(Cis(r)) /\ Len(Cis(r)) \in Nat
        /\ Distinct(r, Passing(r, n)) /\ Fit(r, Hold(r, Passing(r, n)), Looping(s))
    BY CallingOK, HooksAt DEF Calling, Passes, IInv
  <1>2. CASE Stops(r, s, n) = {}
    <2>1. store' = s /\ Finish(r, reg)
      BY <1>2 DEF Land
    <2>2. Hold(r, Passing(r, n)) = {}
      BY <1>2 DEF Stops, Passing, Hold
    <2>. QED BY <1>1, <2>1, <2>2, FinishFits DEF Fits
  <1>3. CASE Stops(r, s, n) # {}
    <2>. DEFINE d == Innermost(Stops(r, s, n))
    <2>1. Stops(r, s, n) \in SUBSET (1..n)
      BY DEF Stops
    <2>2. d \in Stops(r, s, n) /\ \A e \in Stops(r, s, n) : e <= d
      BY <1>1, <1>3, <2>1, InnermostIn
    <2>. HIDE DEF d
    <2>3. d \in 1..n /\ d \in 1..Len(Cis(r)) /\ Chain(r)[d] \in Convs
      <3>1. Len(Chain(r)) \in Nat /\ Len(Cis(r)) <= Len(Chain(r))
        BY <1>1, HooksAt DEF Calling
      <3>2. d \in 1..n
        BY <2>1, <2>2
      <3>3. d \in 1..Len(Cis(r)) /\ d \in 1..Len(Chain(r))
        BY <1>1, <3>1, <3>2
      <3>. QED BY <1>1, <3>2, <3>3, HooksAt DEF Calling
    <2>4. Passing(r, n) = Passing(r, d)
      <3>1. Passing(r, n) \subseteq Stops(r, s, n)
        BY DEF Passing, Stops
      <3>2. \A e \in Passing(r, n) : e \in 1..n /\ e <= d
        BY <2>2, <3>1 DEF Passing
      <3>. QED BY <1>1, <2>3, <3>2 DEF Passing
    <2>5. \/ Cis(r)[d] > 0 /\ store' = s /\ InHook(r, "sleep", d, NoGoal)
          \/ ~(Cis(r)[d] > 0) /\ LoopTop(r, d, Marked(s, Chain(r)[d]))
      BY <1>3 DEF Land, d
    <2>6. CASE Cis(r)[d] > 0 /\ store' = s /\ InHook(r, "sleep", d, NoGoal)
      <3>1. Passing(r, d) \cup {d} = Passing(r, n)
        BY <2>3, <2>4, <2>6 DEF Passing
      <3>2. "sleep" \in InLoop /\ "sleep" # "gap"
        BY DEF InLoop
      <3>. QED BY <1>1, <2>3, <2>6, <3>1, <3>2, InHookFits DEF Fits
    <2>7. CASE ~(Cis(r)[d] > 0) /\ LoopTop(r, d, Marked(s, Chain(r)[d]))
      <3>. DEFINE m == Marked(s, Chain(r)[d])
      <3>1. m \in Store /\ m.flags = s.flags \cup {Chain(r)[d]} /\ m.left = s.left
        BY <2>3 DEF Marked, Store
      <3>. HIDE DEF m
      <3>2. LoopTop(r, d, m)
        BY <2>7 DEF m
      <3>3. store'.flags = m.flags /\ store'.left = m.left
        BY <1>1, <2>3, <3>1, <3>2, LoopTopStays
      <3>4. PICK pc, g :
              pc \in InLoop /\ InHook(r, pc, d, g) /\ (pc = "gap" => Cis(r)[d] # LoopBound)
        BY <1>1, <2>3, <3>1, <3>2, LoopTopStays
      <3>5. Chain(r)[d] \notin s.flags
        BY <2>2, <2>7 DEF Stops
      <3>6. Hold(r, Passing(r, d) \cup {d}) = Hold(r, Passing(r, n)) \cup {Chain(r)[d]}
        BY <2>4 DEF Hold
      <3>7. Fit(r, Hold(r, Passing(r, d) \cup {d}), Looping(store'))
        <4>1. Looping(store') = Looping(s) \cup {Chain(r)[d]} /\ Chain(r)[d] \notin Looping(s)
          BY <3>1, <3>3, <3>5 DEF Looping
        <4>. QED BY <1>1, <3>6, <4>1 DEF Fit
      <3>8. Distinct(r, Passing(r, d) \cup {d})
        <4>1. \A e \in Passing(r, d) : Chain(r)[e] # Chain(r)[d]
          BY <1>1, <2>4, <3>5 DEF Fit, Hold, Looping
        <4>. QED BY <1>1, <2>4, <4>1 DEF Distinct
      <3>9. RunFits(r, Looping(store'))
        BY <1>1, <2>3, <3>4, <3>7, <3>8, InHookFits
      <3>. QED BY <3>1, <3>3, <3>9 DEF Fits
    <2>. QED BY <2>5, <2>6, <2>7
  <1>. QED BY <1>2, <1>3

\* An exception passes hooks that have not continued: they have no loop.
LEMMA EscapeFits ==
  ASSUME IInv, NEW r \in Runs, run[r].pc \notin {"idle", "arrived"}, NEW F,
         NEW n, Passes(r, n, F), NEW reg, Escape(r, n, reg)
  PROVE  RunFits(r, F)
  <1>. DEFINE D == {d \in Continuing(r) : d <= n}
  <1>1. /\ Calling(r) /\ n \in Nat /\ n <= Len(Cis(r)) /\ Len(Cis(r)) \in Nat
        /\ DOMAIN Cis(r) = 1..Len(Cis(r))
        /\ Distinct(r, Passing(r, n)) /\ Fit(r, Hold(r, Passing(r, n)), F)
    BY CallingOK, HooksAt DEF Calling, Passes
  <1>2. D = Passing(r, n)
    BY <1>1 DEF Continuing, Passing
  <1>. HIDE DEF D
  <1>3. CASE D = {}
    <2>1. Finish(r, reg)
      BY <1>3 DEF Escape, D
    <2>2. Hold(r, Passing(r, n)) = {}
      BY <1>2, <1>3 DEF Hold
    <2>. QED BY <1>1, <2>1, <2>2, FinishFits
  <1>4. CASE D # {}
    <2>. DEFINE d == Innermost(D)
                x == At(r, "unwind", d, NoGoal, d)
    <2>1. run' = [run EXCEPT ![r] = x]
      BY <1>4 DEF Escape, D
    <2>2. D \in SUBSET (1..n)
      BY <1>2 DEF Passing
    <2>3. d \in D /\ \A e \in D : e <= d
      BY <1>1, <1>4, <2>2, InnermostIn
    <2>. HIDE DEF d
    <2>4. x.pc = "unwind" /\ x.cis = SubSeq(Cis(r), 1, d) /\ x.chain = Chain(r)
      BY AtFields
    <2>. HIDE DEF x
    <2>5. d \in 1..n /\ d \in 1..Len(Cis(r))
      BY <1>1, <2>2, <2>3
    <2>6. Passing(r, d) \cup {d} = Passing(r, n)
      <3>1. \A e \in Passing(r, n) : e \in 1..n /\ e <= d
        BY <1>2, <2>3 DEF Passing
      <3>2. d \in Passing(r, n)
        BY <1>2, <2>3
      <3>. QED BY <1>1, <2>5, <3>1, <3>2 DEF Passing
    <2>7. "unwind" \in InLoop /\ "unwind" # "gap"
      BY DEF InLoop
    <2>. QED BY <1>1, <2>1, <2>4, <2>5, <2>6, <2>7, PutInLoop
  <1>. QED BY <1>3, <1>4

-----------------------------------------------------------------------------
(* The steps.                                                                 *)

LEMMA ReturnedFits ==
  ASSUME IInv, LoopInv, NEW r \in Runs, run[r].pc \in Inside,
         NEW s \in Store, s.flags = store.flags, s.left = store.left, Returned(r, s)
  PROVE  Fits(r)
  <1>. DEFINE reg == IF run[r].pc \in InTurn THEN Unregistered(registry, run[r].conv, r)
                     ELSE registry
              n == Len(Chain(r))
  <1>1. run[r].pc \notin {"idle", "arrived"}
    BY DEF Inside, Commands, InTurn
  <1>2. Passes(r, n, Looping(s)) /\ s.left \subseteq s.flags
    BY InsidePasses DEF Looping, LoopInv
  <1>3. Land(r, s, n, reg)
    BY DEF Returned
  <1>. HIDE DEF n, reg
  <1>. QED BY <1>1, <1>2, <1>3, LandFits

\* A run that stays inside converse, or goes on to the next await in there.
LEMMA InsideStays ==
  ASSUME IInv, LoopInv, NEW r \in Runs, run[r].pc \in Inside,
         NEW x, run' = [run EXCEPT ![r] = x], x.cis = Cis(r), x.chain = Chain(r),
         x.pc \in InTurn \/ (x.pc \in Commands /\ run[r].pc = "queued")
  PROVE  RunFits(r, Looping(store))
  <1>. DEFINE n == Len(Cis(r))
  <1>1. Distinct(r, Passing(r, n)) /\ Fit(r, Hold(r, Passing(r, n)), Looping(store))
    BY InsidePasses DEF Passes
  <1>2. x.pc \notin InLoop /\ x.pc # "gap" /\ x.pc \notin Arriving \cup {"idle"}
    BY DEF Commands, InTurn, InLoop, Leaving, Arriving
  <1>3. LoopHooks(x) = Passing(r, n)
    BY <1>2 DEF LoopHooks, Passing
  <1>4. x.pc \in Commands => LoopHooks(x) = {}
    <2>1. x.pc \in InTurn => x.pc \notin Commands
      BY DEF InTurn, Commands
    <2>. QED BY <1>3, <2>1, QueuedPasses
  <1>. HIDE DEF n
  <1>5. Taken(x) = Hold(r, Passing(r, n)) /\ OneEach(x)
    BY <1>1, <1>3 DEF Taken, Hold, OneEach, Distinct
  <1>. QED BY <1>1, <1>2, <1>4, <1>5 DEF RunFits, Located

\* Nothing else of the loops changes.
LEMMA QuietFits ==
  ASSUME LoopInv, NEW r \in Runs, RunFits(r, Looping(store)),
         store'.flags = store.flags, store'.left = store.left
  PROVE  Fits(r)
  BY DEF Fits, Looping, LoopInv

LEMMA ArriveFits ==
  ASSUME IInv, LoopInv, NEW r \in Runs, Arrive(r)
  PROVE  Fits(r)
  <1>1. PICK c \in Convs, i \in Inputs :
          run' = [run EXCEPT ![r] = [Idle EXCEPT !.pc = "arrived", !.conv = c, !.input = i]]
    BY DEF Arrive
  <1>. DEFINE x == [Idle EXCEPT !.pc = "arrived", !.conv = c, !.input = i]
  <1>2. run[r].pc = "idle" /\ UNCHANGED store
    BY DEF Arrive
  <1>3. x.pc = "arrived" /\ x.cis = <<>>
    BY DEF Idle
  <1>4. run' = [run EXCEPT ![r] = x]
    BY <1>1
  <1>. HIDE DEF x
  <1>5. Taken(run[r]) = {} /\ Taken(x) = {} /\ OneEach(x) /\ Located(x)
    BY <1>2, <1>3, NothingTaken DEF LoopInv, Located, Commands
  <1>6. RunFits(r, Looping(store))
    BY <1>4, <1>5 DEF RunFits, LoopInv
  <1>. QED BY <1>2, <1>6, QuietFits

LEMMA InstallFits ==
  ASSUME IInv, LoopInv, NEW r \in Runs, Install(r)
  PROVE  Fits(r)
  <1>. DEFINE x == [run[r] EXCEPT !.pc = "queued", !.saved = converse]
  <1>1. run \in [Runs -> Run] /\ run[r] \in Run
    BY TypeParts DEF IInv
  <1>2. run[r].pc = "arrived" /\ run' = [run EXCEPT ![r] = x] /\ UNCHANGED store
    BY <1>1 DEF Install, Ready
  <1>3. x.pc = "queued" /\ x.cis = run[r].cis
    BY <1>1 DEF Run
  <1>. HIDE DEF x
  <1>4. run[r].cis = <<>>
    BY <1>2 DEF LoopInv, Located, Arriving
  <1>5. Taken(run[r]) = {} /\ Taken(x) = {} /\ OneEach(x)
    BY <1>3, <1>4, NothingTaken
  <1>6. Located(x)
    BY <1>3, <1>4 DEF Located, Commands
  <1>7. RunFits(r, Looping(store))
    BY <1>2, <1>5, <1>6 DEF RunFits, LoopInv
  <1>. QED BY <1>2, <1>7, QuietFits

LEMMA TurnFits ==
  ASSUME IInv, LoopInv, NEW r \in Runs, Turn(r) \/ GoalSetDone(r) \/ Continue(r)
  PROVE  Fits(r)
  <1>2. ASSUME NEW cis, StartTurn(r, cis), RunFits(r, Looping(store))
        PROVE  Fits(r)
    BY <1>2, QuietFits DEF StartTurn
  <1>3. CASE Turn(r) \/ GoalSetDone(r)
    <2>. DEFINE x == [Called(r) EXCEPT !.pc = "turn", !.cis = Cis(r)]
    <2>1. run[r].pc \in {"queued", "set"} /\ StartTurn(r, Cis(r))
      BY <1>3 DEF Turn, GoalSetDone, Asked, Ready
    <2>2. run' = [run EXCEPT ![r] = x]
      BY <2>1 DEF StartTurn
    <2>3. x.pc = "turn" /\ x.cis = Cis(r) /\ x.chain = Chain(r)
      BY DEF Called, Idle
    <2>. HIDE DEF x
    <2>4. run[r].pc \in Inside /\ "turn" \in InTurn
      BY <2>1 DEF Inside, Commands, InTurn
    <2>5. RunFits(r, Looping(store))
      BY <2>2, <2>3, <2>4, InsideStays
    <2>. QED BY <1>2, <2>1, <2>5
  <1>4. CASE Continue(r)
    <2>. DEFINE cis == run[r].cis
                d == Len(cis)
                f == [e \in DOMAIN run[r].chain |->
                        IF e > d THEN 0 ELSE IF e = d THEN UpTo(LoopBound, cis[d] + 1)
                        ELSE cis[e]]
                x == [Called(r) EXCEPT !.pc = "turn", !.cis = f]
    <2>1. run[r].pc = "gap" /\ StartTurn(r, f)
      BY <1>4 DEF Continue, Ready
    <2>2. run[r].pc \in InLoop
      BY <2>1 DEF InLoop
    <2>3. /\ Calling(r) /\ Cis(r) = cis /\ Chain(r) = run[r].chain
          /\ d \in 1..Len(Cis(r)) /\ Distinct(r, Passing(r, d) \cup {d})
          /\ Fit(r, Hold(r, Passing(r, d) \cup {d}), Looping(store))
      BY <2>2, InLoopHolds
    <2>4. cis[d] \in 0..LoopBound /\ cis[d] # LoopBound
      BY <2>1, <2>3, HooksAt DEF Calling, LoopInv, Located
    <2>5. /\ DOMAIN run[r].chain = 1..Len(run[r].chain) /\ Len(run[r].chain) \in Nat
          /\ Len(cis) \in Nat /\ d <= Len(run[r].chain)
      BY <2>3, HooksAt DEF Calling
    <2>6. Len(f) = Len(run[r].chain)
      BY <2>5
    <2>7. \A e \in 1..Len(run[r].chain) : f[e] > 0 <=> e \in Passing(r, d) \cup {d}
      <3>. SUFFICES ASSUME NEW e \in 1..Len(run[r].chain)
                    PROVE  f[e] > 0 <=> e \in Passing(r, d) \cup {d}
        OBVIOUS
      <3>1. CASE e > d
        BY <2>5, <3>1 DEF Passing
      <3>2. CASE e = d
        BY <2>4, <2>5, <3>2, Bounds DEF UpTo
      <3>3. CASE e < d
        BY <2>3, <2>5, <3>3 DEF Passing
      <3>. QED BY <2>5, <3>1, <3>2, <3>3
    <2>8. run' = [run EXCEPT ![r] = x]
      BY <2>1 DEF StartTurn
    <2>9. x.pc = "turn" /\ x.cis = f /\ x.chain = Chain(r)
      BY DEF Called, Idle
    <2>. HIDE DEF x, f
    <2>10. LoopHooks(x) = Passing(r, d) \cup {d}
      <3>1. "turn" \notin InLoop
        BY DEF InLoop, Leaving
      <3>2. Passing(r, d) \cup {d} \subseteq 1..Len(run[r].chain)
        BY <2>3, <2>5 DEF Passing
      <3>. QED BY <2>6, <2>7, <2>9, <3>1, <3>2 DEF LoopHooks
    <2>11. Taken(x) = Hold(r, Passing(r, d) \cup {d}) /\ OneEach(x)
      BY <2>3, <2>9, <2>10 DEF Taken, Hold, OneEach, Distinct
    <2>12. Located(x)
      BY <2>9 DEF Located, Arriving, Commands
    <2>13. RunFits(r, Looping(store))
      BY <2>3, <2>8, <2>11, <2>12 DEF RunFits
    <2>. QED BY <1>2, <2>1, <2>13
  <1>. QED BY <1>3, <1>4

\* A step from one await of a command or a turn to the next.
LEMMA AwaitFits ==
  ASSUME IInv, LoopInv, NEW r \in Runs, run[r].pc \in Inside,
         NEW x, run' = [run EXCEPT ![r] = x], x.cis = Cis(r), x.chain = Chain(r),
         x.pc \in InTurn \/ (x.pc \in Commands /\ run[r].pc = "queued"),
         store'.flags = store.flags, store'.left = store.left
  PROVE  Fits(r)
  BY InsideStays, QuietFits

LEMMA InCommandFits ==
  ASSUME IInv, LoopInv, NEW r \in Runs, run[r].pc = "queued", NEW pc \in Commands,
         InCommand(r, pc), UNCHANGED store
  PROVE  Fits(r)
  <1>. DEFINE x == [run[r] EXCEPT !.pc = pc, !.chain = Chain(r), !.cis = Cis(r)]
  <1>1. run \in [Runs -> Run] /\ run[r] \in Run
    BY TypeParts DEF IInv
  <1>2. run' = [run EXCEPT ![r] = x]
    BY <1>1 DEF InCommand
  <1>3. x.pc = pc /\ x.cis = Cis(r) /\ x.chain = Chain(r)
    BY <1>1 DEF Run
  <1>. HIDE DEF x
  <1>. QED BY <1>2, <1>3, AwaitFits DEF Inside

LEMMA CommandFits ==
  ASSUME IInv, LoopInv, NEW r \in Runs,
         \/ GoalSet(r) \/ GoalPause(r) \/ GoalResume(r) \/ GoalSaved(r)
         \/ GoalClear(r) \/ GoalCleared(r) \/ TurnReturned(r) \/ TurnFailed(r)
  PROVE  Fits(r)
  <1>1. store \in Store
    BY TypeParts DEF IInv
  <1>2. CASE GoalSet(r)
    <2>1. /\ run[r].pc = "queued" /\ InCommand(r, "set") /\ UNCHANGED store
      BY <1>2 DEF GoalSet, Asked, Ready
    <2>. QED BY <2>1, InCommandFits DEF Commands
  <1>3. CASE GoalPause(r) \/ GoalResume(r)
    <2>1. /\ run[r].pc = "queued"
          /\ \/ Returned(r, store)
             \/ InCommand(r, "saving") /\ UNCHANGED store
      BY <1>3 DEF GoalPause, GoalResume, ChangeGoal, Asked, Ready
    <2>2. CASE Returned(r, store)
      BY <1>1, <2>1, <2>2, ReturnedFits DEF Inside
    <2>3. CASE InCommand(r, "saving") /\ UNCHANGED store
      BY <2>1, <2>3, InCommandFits DEF Commands
    <2>. QED BY <2>1, <2>2, <2>3
  <1>4. CASE GoalClear(r)
    <2>1. /\ run[r].pc = "queued"
          /\ \/ Returned(r, store)
             \/ InCommand(r, "clearing") /\ UNCHANGED store
      BY <1>4 DEF GoalClear, Asked, Ready
    <2>2. CASE Returned(r, store)
      BY <1>1, <2>1, <2>2, ReturnedFits DEF Inside
    <2>3. CASE InCommand(r, "clearing") /\ UNCHANGED store
      BY <2>1, <2>3, InCommandFits DEF Commands
    <2>. QED BY <2>1, <2>2, <2>3
  <1>5. CASE GoalSaved(r) \/ GoalCleared(r) \/ TurnReturned(r)
    <2>1. run[r].pc \in Commands \cup InTurn /\ Returned(r, store)
      BY <1>5 DEF GoalSaved, GoalCleared, TurnReturned, Ready, Commands, InTurn
    <2>. QED BY <1>1, <2>1, ReturnedFits DEF Inside
  <1>6. CASE TurnFailed(r)
    <2>. DEFINE s == [store EXCEPT !.shouldEnd = FALSE]
    <2>1. s \in Store /\ s.flags = store.flags /\ s.left = store.left
      BY <1>1 DEF Store
    <2>2. run[r].pc \in Inside
      BY <1>6 DEF TurnFailed, Ready, Inside, InTurn
    <2>. HIDE DEF s
    <2>3. Returned(r, s)
      BY <1>6 DEF TurnFailed, s
    <2>. QED BY <2>1, <2>2, <2>3, ReturnedFits
  <1>. QED BY <1>2, <1>3, <1>4, <1>5, <1>6

LEMMA AnswerFits ==
  ASSUME IInv, LoopInv, NEW r \in Runs, TurnAnswered(r) \/ JudgeAnswered(r) \/ VerdictSaved(r)
  PROVE  Fits(r)
  <1>1. /\ run \in [Runs -> Run] /\ run[r] \in Run /\ store \in Store
    BY TypeParts DEF IInv
  <1>2. run[r].pc \in InTurn
    BY DEF TurnAnswered, JudgeAnswered, VerdictSaved, Ready, InTurn
  <1>3. run[r].pc \in Inside /\ Chain(r) = run[r].chain /\ Cis(r) = run[r].cis
    BY <1>2 DEF Inside, InTurn, Chain, Cis
  <1>4. store'.flags = store.flags /\ store'.left = store.left
    BY <1>1 DEF TurnAnswered, JudgeAnswered, VerdictSaved, Closed, Continued, Store
  <1>5. PICK pc \in InTurn :
          \E g, h : run' = [run EXCEPT ![r] = [run[r] EXCEPT !.pc = pc, !.goal = g, !.halts = h]]
    <2>1. CASE TurnAnswered(r)
      <3>1. CASE Active(mem, heap, run[r].conv)
        <4>1. run' = [run EXCEPT ![r] = [run[r] EXCEPT !.pc = "judge",
                         !.goal = mem[run[r].conv], !.halts = run[r].halts]]
          BY <1>1, <2>1, <3>1 DEF TurnAnswered, Run
        <4>. QED BY <4>1 DEF InTurn
      <3>2. CASE ~Active(mem, heap, run[r].conv)
        <4>1. run' = [run EXCEPT ![r] = [run[r] EXCEPT !.pc = "wrap",
                         !.goal = run[r].goal, !.halts = run[r].halts]]
          BY <1>1, <2>1, <3>2 DEF TurnAnswered, Goto, Run
        <4>. QED BY <4>1 DEF InTurn
      <3>. QED BY <3>1, <3>2
    <2>2. CASE JudgeAnswered(r)
      <3>1. PICK h : run' = [run EXCEPT ![r].pc = "save", ![r].halts = h]
        BY <2>2 DEF JudgeAnswered
      <3>2. run' = [run EXCEPT ![r] = [run[r] EXCEPT !.pc = "save",
                       !.goal = run[r].goal, !.halts = h]]
        BY <1>1, <3>1 DEF Run
      <3>. QED BY <3>2 DEF InTurn
    <2>3. CASE VerdictSaved(r)
      <3>1. run' = [run EXCEPT ![r] = [run[r] EXCEPT !.pc = "wrap",
                       !.goal = NoGoal, !.halts = FALSE]]
        BY <1>1, <2>3 DEF VerdictSaved
      <3>. QED BY <3>1 DEF InTurn
    <2>. QED BY <2>1, <2>2, <2>3
  <1>6. PICK g, h : run' = [run EXCEPT ![r] = [run[r] EXCEPT !.pc = pc, !.goal = g, !.halts = h]]
    BY <1>5
  <1>. DEFINE x == [run[r] EXCEPT !.pc = pc, !.goal = g, !.halts = h]
  <1>7. run' = [run EXCEPT ![r] = x]
    BY <1>6
  <1>8. x.pc = pc /\ x.cis = run[r].cis /\ x.chain = run[r].chain
    BY <1>1 DEF Run
  <1>. HIDE DEF x
  <1>. QED BY <1>2, <1>3, <1>4, <1>5, <1>7, <1>8, AwaitFits

LEMMA SleptFits ==
  ASSUME IInv, LoopInv, NEW r \in Runs, Slept(r)
  PROVE  Fits(r)
  <1>. DEFINE d == Len(run[r].cis)
  <1>1. run[r].pc = "sleep" /\ LoopTop(r, d, store)
    BY DEF Slept, Ready
  <1>2. run[r].pc \in InLoop
    BY <1>1 DEF InLoop
  <1>3. /\ Calling(r) /\ d \in 1..Len(Cis(r)) /\ Chain(r)[d] \in Convs
        /\ Distinct(r, Passing(r, d) \cup {d})
        /\ Fit(r, Hold(r, Passing(r, d) \cup {d}), Looping(store))
    BY <1>2, InLoopHolds
  <1>4. TypeOK /\ store \in Store
    BY TypeParts DEF IInv
  <1>. HIDE DEF d
  <1>5. store'.flags = store.flags /\ store'.left = store.left
    BY <1>1, <1>3, <1>4, LoopTopStays
  <1>6. PICK pc, g :
          pc \in InLoop /\ InHook(r, pc, d, g) /\ (pc = "gap" => Cis(r)[d] # LoopBound)
    BY <1>1, <1>3, <1>4, LoopTopStays
  <1>7. RunFits(r, Looping(store))
    BY <1>3, <1>6, InHookFits
  <1>. QED BY <1>5, <1>7, QuietFits

\* An exception, or a cancellation, that stays in the hook that is running.
LEMMA UnwoundFits ==
  ASSUME IInv, LoopInv, NEW r \in Runs, Unwound(r) \/ LoopCancelled(r)
  PROVE  Fits(r)
  <1>. DEFINE d == Len(run[r].cis)
  <1>1. /\ run[r].pc \in InLoop
        /\ \E pc \in {"exit", "raise"} : InHook(r, pc, d, NoGoal)
        /\ UNCHANGED store
    BY DEF Unwound, LoopCancelled, Ready, InLoop
  <1>2. /\ Calling(r) /\ d \in 1..Len(Cis(r)) /\ Distinct(r, Passing(r, d) \cup {d})
        /\ Fit(r, Hold(r, Passing(r, d) \cup {d}), Looping(store))
    BY <1>1, InLoopHolds
  <1>. HIDE DEF d
  <1>3. \A pc \in {"exit", "raise"} : pc \in InLoop /\ pc # "gap"
    BY DEF InLoop, Leaving
  <1>4. RunFits(r, Looping(store))
    BY <1>1, <1>2, <1>3, InHookFits
  <1>. QED BY <1>1, <1>4, QuietFits

\* What a loop that is over leaves to the hooks outside it: one flag less is a loop's,
\* whether the flag was dropped or left behind.
LEMMA LeavingPasses ==
  ASSUME IInv, LoopInv, NEW r \in Runs, run[r].pc \in Leaving
  PROVE  LET d == Len(run[r].cis)
         IN /\ run[r].chain[d] \in Looping(store)
            /\ Passes(r, d - 1, Looping(store) \ {run[r].chain[d]})
  <1>. DEFINE d == Len(run[r].cis)
  <1>1. run[r].pc \in InLoop
    BY DEF InLoop
  <1>2. /\ Calling(r) /\ d \in 1..Len(Cis(r)) /\ Chain(r) = run[r].chain
        /\ Distinct(r, Passing(r, d) \cup {d})
        /\ Fit(r, Hold(r, Passing(r, d) \cup {d}), Looping(store))
    BY <1>1, InLoopHolds
  <1>3. /\ Len(Cis(r)) \in Nat /\ d - 1 \in Nat /\ d - 1 <= Len(Cis(r))
    BY <1>2, HooksAt DEF Calling
  <1>. HIDE DEF d
  <1>4. Passing(r, d - 1) \cup {d} = Passing(r, d) \cup {d} /\ d \notin Passing(r, d - 1)
    BY <1>2, <1>3 DEF Passing
  <1>5. Hold(r, Passing(r, d) \cup {d}) = Hold(r, Passing(r, d - 1)) \cup {Chain(r)[d]}
    BY <1>4 DEF Hold
  <1>6. Chain(r)[d] \notin Hold(r, Passing(r, d - 1))
    BY <1>2, <1>4 DEF Hold, Distinct
  <1>7. /\ Chain(r)[d] \in Looping(store)
        /\ Fit(r, Hold(r, Passing(r, d - 1)), Looping(store) \ {Chain(r)[d]})
    BY <1>2, <1>5, <1>6 DEF Fit
  <1>8. Distinct(r, Passing(r, d - 1))
    BY <1>2, <1>4 DEF Distinct
  <1>9. Passes(r, d - 1, Looping(store) \ {Chain(r)[d]})
    BY <1>3, <1>7, <1>8 DEF Passes
  <1>. QED BY <1>2, <1>7, <1>9 DEF d

\* A loop that ends gives up its flag, and the run goes on in the hooks outside it.
LEMMA ExitFits ==
  ASSUME IInv, LoopInv, NEW r \in Runs, Exit(r)
  PROVE  Fits(r)
  <1>. DEFINE d == Len(run[r].cis)
              s == FlagDropped(store, run[r].chain[d])
  <1>1. /\ run[r].pc \in Leaving /\ run[r].pc \notin {"idle", "arrived"}
        /\ \/ Land(r, s, d - 1, registry)
           \/ store' = s /\ Escape(r, d - 1, registry)
    BY DEF Exit, Ready, Leaving
  <1>2. /\ run[r].chain[d] \in Looping(store)
        /\ Passes(r, d - 1, Looping(store) \ {run[r].chain[d]})
    BY <1>1, LeavingPasses
  <1>3. /\ store \in Store /\ store.left \subseteq store.flags
    BY TypeParts DEF IInv, LoopInv
  <1>4. s \in Store /\ s.flags = store.flags \ {run[r].chain[d]} /\ s.left = store.left
    BY <1>3 DEF FlagDropped, Store
  <1>. HIDE DEF s
  <1>5. s.left \subseteq s.flags /\ Looping(s) = Looping(store) \ {run[r].chain[d]}
    BY <1>2, <1>3, <1>4 DEF Looping
  <1>. HIDE DEF d
  <1>6. CASE Land(r, s, d - 1, registry)
    BY <1>1, <1>2, <1>4, <1>5, <1>6, LandFits
  <1>7. CASE store' = s /\ Escape(r, d - 1, registry)
    <2>1. Passes(r, d - 1, Looping(s))
      BY <1>2, <1>5
    <2>2. RunFits(r, Looping(s))
      BY <1>1, <1>7, <2>1, EscapeFits
    <2>. QED BY <1>5, <1>7, <2>2 DEF Fits
  <1>. QED BY <1>1, <1>6, <1>7

\* A loop whose finally clause is cancelled leaves its flag behind.
LEMMA ExitCancelledFits ==
  ASSUME IInv, LoopInv, NEW r \in Runs, ExitCancelled(r)
  PROVE  Fits(r)
  <1>. DEFINE d == Len(run[r].cis)
  <1>1. /\ run[r].pc \in Leaving /\ run[r].pc \notin {"idle", "arrived"}
        /\ Escape(r, d - 1, registry)
        /\ store' = [store EXCEPT !.left = @ \cup {run[r].chain[d]}]
    BY DEF ExitCancelled, Leaving
  <1>2. /\ run[r].chain[d] \in Looping(store)
        /\ Passes(r, d - 1, Looping(store) \ {run[r].chain[d]})
    BY <1>1, LeavingPasses
  <1>3. /\ store \in Store /\ store.left \subseteq store.flags
    BY TypeParts DEF IInv, LoopInv
  <1>4. store'.flags = store.flags /\ store'.left = store.left \cup {run[r].chain[d]}
    BY <1>1, <1>3 DEF Store
  <1>5. /\ store'.left \subseteq store'.flags
        /\ Looping(store') = Looping(store) \ {run[r].chain[d]}
    BY <1>2, <1>3, <1>4 DEF Looping
  <1>. HIDE DEF d
  <1>6. RunFits(r, Looping(store'))
    BY <1>1, <1>2, <1>5, EscapeFits
  <1>. QED BY <1>5, <1>6 DEF Fits

LEMMA InterruptedFits ==
  ASSUME IInv, LoopInv, NEW r \in Runs, TurnCancelled(r)
  PROVE  Fits(r)
  <1>. DEFINE c == run[r].conv
              n == Len(run[r].cis)
              s == [store EXCEPT !.stopRequests = @ \ {c}]
              reg == Unregistered(registry, c, r)
  <1>1. /\ run[r].pc \in Inside /\ run[r].pc \notin {"idle", "arrived", "queued"}
        /\ Returned(r, s) \/ (Escape(r, n, reg) /\ UNCHANGED store)
    BY DEF TurnCancelled, Interrupted, Inside, InTurn
  <1>2. store \in Store
    BY TypeParts DEF IInv
  <1>3. s \in Store /\ s.flags = store.flags /\ s.left = store.left
    BY <1>2 DEF Store
  <1>. HIDE DEF s, reg
  <1>4. CASE Returned(r, s)
    BY <1>1, <1>3, <1>4, ReturnedFits
  <1>5. CASE Escape(r, n, reg) /\ UNCHANGED store
    <2>1. Passes(r, n, Looping(store))
      <3>1. Cis(r) = run[r].cis
        BY <1>1 DEF Cis
      <3>. QED BY <1>1, <3>1, InsidePasses
    <2>. HIDE DEF n
    <2>2. RunFits(r, Looping(store))
      BY <1>1, <1>5, <2>1, EscapeFits
    <2>. QED BY <1>5, <2>2, QuietFits
  <1>. QED BY <1>1, <1>4, <1>5

\* Before its turn a run has no loop of its own, whatever hooks it is inside.
LEMMA CommandCancelledFits ==
  ASSUME IInv, LoopInv, NEW r \in Runs, CommandCancelled(r)
  PROVE  Fits(r)
  <1>1. run[r].pc \in Arriving \cup Commands /\ Finish(r, registry) /\ UNCHANGED store
    BY DEF CommandCancelled
  <1>2. Located(run[r]) /\ Fit(r, Taken(run[r]), Looping(store))
    BY DEF LoopInv
  <1>3. Taken(run[r]) = {}
    <2>1. LoopHooks(run[r]) = {}
      BY <1>1, <1>2, NothingTaken DEF Located
    <2>. QED BY <2>1 DEF Taken
  <1>4. RunFits(r, Looping(store))
    BY <1>1, <1>2, <1>3, FinishFits
  <1>. QED BY <1>1, <1>4, QuietFits

\* A timeout moves no run.
LEMMA TimeUpFits ==
  ASSUME IInv, LoopInv, NEW r \in Runs, TimeUp(r)
  PROVE  Fits(r)
  <1>1. PICK x \in Run :
          /\ run' = [run EXCEPT ![r] = x] /\ x.pc = run[r].pc
          /\ x.chain = run[r].chain /\ x.cis = run[r].cis
    BY TimeUpPlace, TimeUpParts DEF IInv
  <1>2. UNCHANGED store
    BY DEF TimeUp
  <1>3. LoopHooks(x) = LoopHooks(run[r])
    BY <1>1 DEF LoopHooks
  <1>4. Taken(x) = Taken(run[r])
    BY <1>1, <1>3 DEF Taken
  <1>5. OneEach(x) /\ Located(x)
    BY <1>1, <1>3 DEF OneEach, Located, LoopInv
  <1>6. RunFits(r, Looping(store))
    BY <1>1, <1>4, <1>5 DEF RunFits, LoopInv
  <1>. QED BY <1>2, <1>6, QuietFits

LEMMA StopFits ==
  ASSUME IInv, LoopInv, NEW r \in Runs, Stop(r)
  PROVE  Fits(r)
  <1>. DEFINE c == run[r].conv
              targets == StopTargets(c)
              known == {c} \cup {d \in Convs : registry[d] # NoRun}
              ends == targets # {} \/ \E d \in known : taskLoop[d] = "active"
              s == [store EXCEPT !.stopRequests = @ \cup targets, !.shouldEnd = @ \/ ends]
  <1>1. run[r].pc = "queued" /\ Returned(r, s)
    BY DEF Stop, Asked, Ready
  <1>2. store \in Store /\ c \in Convs /\ targets \in SUBSET Convs
    BY TypeParts, RunParts DEF StopTargets, IInv
  <1>3. (store.shouldEnd \/ ends) \in BOOLEAN
    OBVIOUS
  <1>. HIDE DEF ends, targets
  <1>4. s \in Store /\ s.flags = store.flags /\ s.left = store.left
    BY <1>2, <1>3 DEF Store
  <1>. HIDE DEF s
  <1>. QED BY <1>1, <1>4, ReturnedFits DEF Inside

LEMMA LoopInitOK == Init => LoopInv
  <1>. SUFFICES ASSUME Init PROVE LoopInv
    OBVIOUS
  <1>1. run = [r \in Runs |-> Idle] /\ store.flags = {} /\ store.left = {}
    BY DEF Init
  <1>2. Idle.cis = <<>> /\ Idle.pc = "idle"
    BY DEF Idle
  <1>3. Taken(Idle) = {} /\ OneEach(Idle) /\ Located(Idle)
    BY <1>2, NothingTaken DEF Located, Commands
  <1>4. \A r \in Runs : Taken(run[r]) = {} /\ OthersTake(r) = {}
    BY <1>1, <1>3 DEF OthersTake
  <1>. QED BY <1>1, <1>3, <1>4 DEF LoopInv, Fit, Looping

LEMMA LoopStutter ==
  ASSUME LoopInv, UNCHANGED <<run, store>>
  PROVE  LoopInv'
  <1>1. \A r \in Runs : Taken(run[r])' = Taken(run[r]) /\ OthersTake(r)' = OthersTake(r)
    BY DEF OthersTake
  <1>. QED BY <1>1 DEF LoopInv, Fit, Looping

LEMMA LoopNextOK ==
  ASSUME "new" \notin Inputs, IInv, LoopInv, Next
  PROVE  LoopInv'
  <1>1. ASSUME NEW r \in Runs, User(r) \/ Step(r) \/ TimeUp(r) PROVE Fits(r)
    <2>1. CASE User(r)
      BY <2>1, ArriveFits DEF User
    <2>2. CASE Command(r)
      <3>1. ~New(r)
        <4>1. run[r].input \in Inputs \cup {"none"}
          BY TypeParts, RunParts DEF IInv
        <4>. QED BY <4>1 DEF New, Asked
      <3>. QED BY <2>2, <3>1, InstallFits, TurnFits, CommandFits, StopFits DEF Command
    <2>3. CASE Work(r)
      BY <2>3, TurnFits, CommandFits, AnswerFits, SleptFits, UnwoundFits, ExitFits DEF Work
    <2>4. CASE Cancel(r)
      BY <2>4, InterruptedFits, CommandCancelledFits, UnwoundFits, ExitCancelledFits DEF Cancel
    <2>5. CASE TimeUp(r)
      BY <2>5, TimeUpFits
    <2>. QED BY <1>1, <2>1, <2>2, <2>3, <2>4, <2>5 DEF Step
  <1>2. ASSUME NEW c \in Convs, ClearTask(c) PROVE LoopInv'
    BY <1>2, LoopStutter DEF ClearTask
  <1>. QED BY <1>1, <1>2, FitsOK DEF Next

\* One loop at most for a conversation, and its flag exactly then.
LEMMA LoopInvMatches == IInv /\ LoopInv => LoopsMatchFlags
  <1>. SUFFICES ASSUME IInv, LoopInv, NEW c \in Convs
                PROVE  /\ Cardinality(LoopsOf(c)) <= 1
                       /\ c \in store.flags <=> LoopsOf(c) # {} \/ c \in store.left
                       /\ ~(LoopsOf(c) # {} /\ c \in store.left)
    BY DEF LoopsMatchFlags
  <1>1. \A r \in Runs : Len(run[r].cis) \in Nat /\ Len(run[r].cis) <= MaxHooks
    BY TypeParts, RunParts, HooksAt DEF IInv
  <1>2. \A r \in Runs, d \in 1..MaxHooks : Loops(r, d) <=> d \in LoopHooks(run[r])
    BY <1>1, Bounds DEF Loops, LoopHooks
  <1>3. \A r \in Runs : LoopHooks(run[r]) \subseteq 1..MaxHooks
    BY <1>1, Bounds DEF LoopHooks
  <1>4. c \in Looping(store) <=> LoopsOf(c) # {}
    <2>1. \A r \in Runs : Looping(store) = Taken(run[r]) \cup OthersTake(r)
      BY DEF LoopInv, Fit
    <2>2. ASSUME c \in Looping(store) PROVE LoopsOf(c) # {}
      <3>1. PICK r \in Runs : c \in Taken(run[r])
        BY <2>1, <2>2 DEF OthersTake, LoopInv
      <3>2. PICK d \in LoopHooks(run[r]) : run[r].chain[d] = c
        BY <3>1 DEF Taken
      <3>3. <<r, d>> \in LoopsOf(c)
        BY <1>2, <1>3, <3>2 DEF LoopsOf
      <3>. QED BY <3>3
    <2>3. ASSUME NEW l \in LoopsOf(c) PROVE c \in Looping(store)
      <3>1. PICK r \in Runs, d \in 1..MaxHooks : /\ l = <<r, d>> /\ Loops(r, d)
                                                 /\ run[r].chain[d] = c
        BY DEF LoopsOf
      <3>. QED BY <1>2, <2>1, <3>1 DEF Taken
    <2>. QED BY <2>2, <2>3
  <1>5. \A l, m \in LoopsOf(c) : l = m
    <2>. SUFFICES ASSUME NEW l \in LoopsOf(c), NEW m \in LoopsOf(c) PROVE l = m
      OBVIOUS
    <2>1. PICK r \in Runs, d \in 1..MaxHooks : /\ l = <<r, d>> /\ Loops(r, d)
                                               /\ run[r].chain[d] = c
      BY DEF LoopsOf
    <2>2. PICK q \in Runs, e \in 1..MaxHooks : /\ m = <<q, e>> /\ Loops(q, e)
                                               /\ run[q].chain[e] = c
      BY DEF LoopsOf
    <2>3. c \in Taken(run[r]) /\ c \in Taken(run[q])
      BY <1>2, <2>1, <2>2 DEF Taken
    <2>4. q = r
      <3>1. q # r => c \in OthersTake(r)
        BY <2>3 DEF OthersTake
      <3>. QED BY <2>3, <3>1 DEF LoopInv, Fit
    <2>5. e = d
      BY <1>2, <2>1, <2>2, <2>4 DEF LoopInv, OneEach
    <2>. QED BY <2>1, <2>2, <2>4, <2>5
  <1>6. Cardinality(LoopsOf(c)) <= 1
    <2>1. CASE LoopsOf(c) = {}
      BY <2>1, FS_EmptySet
    <2>2. CASE LoopsOf(c) # {}
      <3>1. PICK l : LoopsOf(c) = {l}
        BY <1>5, <2>2
      <3>2. Cardinality({l}) = 1
        BY FS_Singleton
      <3>. QED BY <3>1, <3>2
    <2>. QED BY <2>1, <2>2
  <1>7. /\ c \in store.flags <=> LoopsOf(c) # {} \/ c \in store.left
        /\ ~(LoopsOf(c) # {} /\ c \in store.left)
    BY <1>4 DEF Looping, LoopInv
  <1>. QED BY <1>6, <1>7

\* Whatever messages other than /new come in, over either transport, and whatever times
\* out or is cancelled, in a turn, in a loop or in a finally clause: a conversation has
\* one loop at most, and its flag is set exactly while it has or after a cancelled finally
\* clause left it behind.
THEOREM OneLoopEach ==
  ASSUME "new" \notin Inputs
  PROVE  Spec => []LoopsMatchFlags
  <1>1. IInv /\ LoopInv /\ [Next]_vars => LoopInv'
    <2>1. UNCHANGED vars => UNCHANGED <<run, store>>
      BY DEF vars
    <2>. QED BY <2>1, LoopNextOK, LoopStutter
  <1>2. Spec => []LoopInv
    BY <1>1, LoopInitOK, Invariant, PTL DEF Spec
  <1>. QED BY <1>2, Invariant, LoopInvMatches, PTL
================================================================================
