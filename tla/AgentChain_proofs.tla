-------------------------- MODULE AgentChain_proofs --------------------------
(***************************************************************************)
(* One turn asks agents a bounded number of times, and a chain that ends in   *)
(* an error has asked every agent it could, for any conversations, agents and *)
(* limits: proofs for the run chain_turns.  The chat log that the chain sends  *)
(* to an agent is well formed, and keeps the latest request, for any bounds:   *)
(* proofs for the run log_compress.                                          *)
(***************************************************************************)
EXTENDS AgentChain, ChatLog, FiniteSetTheorems, SequenceTheorems, WellFoundedInduction, TLAPS

UsedRec == [retry : [Agents -> 0..MaxRetries], image : 0..1, compress : 0..MaxCompress,
            compressExc : 0..MaxCompress, repaired : SUBSET (Agents \X Kinds)]
MemoryRec == [signature : Signatures \cup {NoAgent}, failures : 0..2, cooling : BOOLEAN]

TurnTypes ==
  /\ pc \in [Convs -> Stages]
  /\ queue \in [Convs -> Seq(Agents)]
  /\ current \in [Convs -> Agents \cup {NoAgent}]
  /\ used \in [Convs -> UsedRec]
  /\ asked \in [Convs -> SUBSET Agents]
  /\ skipped \in [Convs -> SUBSET Agents]
  /\ attempts \in [Convs -> Nat]
  /\ outcome \in [Convs -> Outcomes]

SharedTypes ==
  /\ turns \in 0..MaxTurns
  /\ memory \in [Agents -> MemoryRec]
  /\ shouldEnd \in BOOLEAN
  /\ loopAlive \subseteq Convs

LEMMA TypeParts == TypeOK <=> TurnTypes /\ SharedTypes
  BY Zenon DEF TypeOK, TurnTypes, SharedTypes, UsedRec, MemoryRec

\* The retries and repairs of a turn: the retries of an agent as so many pairs.
Retries(u) == {x \in Agents \X (1..MaxRetries) : x[2] <= u.retry[x[1]]}
Spent(u) == Cardinality(Retries(u)) + u.image + u.compress + u.compressExc
              + Cardinality(u.repaired)

\* Once agents are asked, what was asked and what is queued is paid for by the
\* agents there are and the retries and repairs spent, and no agent is lost.
ConvOK(c) ==
  /\ pc[c] # "idle" => outcome[c] = "none"
  /\ pc[c] \in {"idle", "internal"} =>
       attempts[c] = 0 /\ queue[c] = <<>> /\ used[c] = Fresh
  /\ pc[c] \in {"ask", "finalize", "backoff"} =>
       /\ attempts[c] + Len(queue[c]) <= Cardinality(Agents) + Spent(used[c])
       /\ Primary \in asked[c]
       /\ asked[c] \cup skipped[c] \cup ToSet(queue[c]) = Agents
  /\ pc[c] \in {"ask", "finalize"} => current[c] \in Agents

IInv == TypeOK /\ \A c \in Convs : ConvOK(c)

\* What an exhausted chain has done.
Exhausted(c) ==
  pc[c] # "idle" /\ outcome'[c] = "error" =>
    Primary \in asked[c] /\ asked[c] \cup skipped[c] = Agents

-----------------------------------------------------------------------------
(* Agents, sequences of agents, what a turn has spent.                       *)

LEMMA Limits == MaxRetries \in Nat /\ MaxCompress \in Nat /\ MaxTurns \in Nat
  BY BoundAssumption

LEMMA AgentsFinite ==
  /\ IsFiniteSet(Agents) /\ Cardinality(Agents) \in Nat /\ Cardinality(Agents) >= 1
  /\ Primary \in Agents
  <1>1. /\ Len(Fallback) \in Nat \ {0} /\ Fallback \in [1..Len(Fallback) -> Agents]
        /\ DOMAIN Fallback = 1..Len(Fallback)
    BY FallbackAssumption, LenProperties, EmptySeq
  <1>2. IsFiniteSet(Agents)
    <2>1. Fallback \in Surjection(1..Len(Fallback), Agents)
      BY <1>1 DEF Surjection, Agents, ToSet
    <2>2. IsFiniteSet(1..Len(Fallback))
      BY <1>1, FS_Interval
    <2>. QED BY <2>1, <2>2, FS_Surjection
  <1>3. Primary \in Agents
    BY FallbackAssumption, HeadTailProperties DEF Primary
  <1>. QED BY <1>2, <1>3, FS_CardinalityType, FS_EmptySet

LEMMA TakeFirst ==
  ASSUME NEW q \in Seq(Agents), q # <<>>
  PROVE  /\ Head(q) \in Agents /\ Tail(q) \in Seq(Agents)
         /\ Len(q) \in Nat /\ Len(q) >= 1 /\ Len(Tail(q)) = Len(q) - 1
         /\ ToSet(q) = {Head(q)} \cup ToSet(Tail(q))
  <1>1. /\ Head(q) \in Agents /\ Tail(q) \in Seq(Agents) /\ Len(Tail(q)) = Len(q) - 1
        /\ \A i \in 1..Len(Tail(q)) : Tail(q)[i] = q[i + 1]
    BY HeadTailProperties
  <1>2. Len(q) \in Nat \ {0} /\ DOMAIN q = 1..Len(q) /\ DOMAIN Tail(q) = 1..(Len(q) - 1)
    BY <1>1, EmptySeq, LenProperties
  <1>3. Head(q) = q[1]
    OBVIOUS
  <1>4. ASSUME NEW i \in 2..Len(q) PROVE q[i] \in ToSet(Tail(q))
    <2>1. i - 1 \in 1..(Len(q) - 1) /\ Tail(q)[i - 1] = q[i]
      BY <1>1, <1>2
    <2>. QED BY <1>2, <2>1 DEF ToSet
  <1>5. ToSet(q) \subseteq {Head(q)} \cup ToSet(Tail(q))
    <2>1. \A i \in 1..Len(q) : i = 1 \/ i \in 2..Len(q)
      BY <1>2
    <2>. QED BY <1>2, <1>3, <1>4, <2>1 DEF ToSet
  <1>6. {Head(q)} \cup ToSet(Tail(q)) \subseteq ToSet(q)
    <2>1. \A i \in 1..(Len(q) - 1) : i + 1 \in 1..Len(q) /\ Tail(q)[i] = q[i + 1]
      BY <1>1, <1>2
    <2>2. 1 \in 1..Len(q)
      BY <1>2
    <2>. QED BY <1>2, <1>3, <2>1, <2>2 DEF ToSet
  <1>. QED BY <1>1, <1>2, <1>5, <1>6

LEMMA PutFirst ==
  ASSUME NEW q \in Seq(Agents), NEW a \in Agents
  PROVE  /\ <<a>> \o q \in Seq(Agents) /\ <<a>> \o q # <<>>
         /\ Len(q) \in Nat /\ Len(<<a>> \o q) = Len(q) + 1
         /\ ToSet(<<a>> \o q) = {a} \cup ToSet(q)
  <1>. DEFINE p == <<a>> \o q
  <1>1. <<a>> \in Seq(Agents) /\ Len(<<a>>) = 1 /\ <<a>>[1] = a
    OBVIOUS
  <1>2. p \in Seq(Agents) /\ Len(p) = 1 + Len(q) /\ Len(q) \in Nat
    BY <1>1, ConcatProperties, LenProperties
  <1>3. p # <<>> /\ Head(p) = a /\ Tail(p) = q
    BY <1>2
  <1>. HIDE DEF p
  <1>4. ToSet(p) = {a} \cup ToSet(q)
    BY <1>2, <1>3, TakeFirst
  <1>. QED BY <1>2, <1>3, <1>4 DEF p

\* The queue of a turn begins with the first agent.
LEMMA OrdersOK ==
  ASSUME NEW order \in Orders(Usable)
  PROVE  /\ order \in Seq(Agents) /\ order # <<>> /\ Head(order) = Primary
         /\ Len(order) \in Nat /\ Len(order) <= Cardinality(Agents)
  <1>. DEFINE n == Cardinality(Usable)
  <1>1. Usable \subseteq Agents /\ Primary \in Usable
    BY AgentsFinite DEF Usable
  <1>2. n \in Nat /\ n >= 1 /\ n <= Cardinality(Agents)
    <2>1. IsFiniteSet(Usable) /\ n <= Cardinality(Agents)
      BY <1>1, AgentsFinite, FS_Subset
    <2>. QED BY <1>1, <2>1, FS_CardinalityType, FS_EmptySet
  <1>3. order \in [1..n -> Usable] /\ Head(order) = Primary
    BY <1>1 DEF Orders, SetToSeqs
  <1>. HIDE DEF n
  <1>4. order \in Seq(Usable)
    BY <1>2, <1>3, SeqDef
  <1>5. Len(order) = n
    <2>1. 1..Len(order) = 1..n /\ Len(order) \in Nat
      BY <1>3, <1>4, LenProperties
    <2>. QED BY <1>2, <2>1
  <1>6. order # <<>>
    BY <1>2, <1>5, EmptySeq
  <1>. QED BY <1>1, <1>2, <1>3, <1>4, <1>5, <1>6, SeqMonotonic

LEMMA SpentType ==
  ASSUME NEW u \in UsedRec
  PROVE  /\ Spent(u) \in Nat
         /\ IsFiniteSet(Retries(u)) /\ Cardinality(Retries(u)) \in Nat
         /\ IsFiniteSet(u.repaired) /\ Cardinality(u.repaired) \in Nat
         /\ Spent(u) <= Cardinality(Agents) * MaxRetries + 1 + 2 * MaxCompress
                          + Cardinality(Agents) * Cardinality(Kinds)
  <1>1. IsFiniteSet(1..MaxRetries) /\ Cardinality(1..MaxRetries) = MaxRetries
    BY Limits, FS_Interval
  <1>2. /\ IsFiniteSet(Agents \X (1..MaxRetries))
        /\ Cardinality(Agents \X (1..MaxRetries)) = Cardinality(Agents) * MaxRetries
    BY <1>1, AgentsFinite, FS_Product
  <1>3. /\ IsFiniteSet(Agents \X Kinds)
        /\ Cardinality(Agents \X Kinds) = Cardinality(Agents) * Cardinality(Kinds)
    BY AgentsFinite, KindAssumption, FS_Product
  <1>4. /\ Retries(u) \subseteq Agents \X (1..MaxRetries)
        /\ u.repaired \subseteq Agents \X Kinds
        /\ u.image \in 0..1 /\ u.compress \in 0..MaxCompress
        /\ u.compressExc \in 0..MaxCompress
    BY DEF Retries, UsedRec
  <1>5. /\ IsFiniteSet(Retries(u)) /\ Cardinality(Retries(u)) \in Nat
        /\ Cardinality(Retries(u)) <= Cardinality(Agents) * MaxRetries
    BY <1>2, <1>4, FS_Subset, FS_CardinalityType
  <1>6. /\ IsFiniteSet(u.repaired) /\ Cardinality(u.repaired) \in Nat
        /\ Cardinality(u.repaired) <= Cardinality(Agents) * Cardinality(Kinds)
    BY <1>3, <1>4, FS_Subset, FS_CardinalityType
  <1>7. /\ Cardinality(Agents) * MaxRetries \in Nat
        /\ Cardinality(Agents) * Cardinality(Kinds) \in Nat
    BY Limits, AgentsFinite, KindAssumption, FS_CardinalityType
  <1>. QED BY <1>4, <1>5, <1>6, <1>7, Limits DEF Spent

LEMMA FreshOK == Fresh \in UsedRec /\ Spent(Fresh) \in Nat
  <1>1. 0 \in 0..MaxRetries /\ 0 \in 0..MaxCompress /\ 0 \in 0..1
    BY Limits
  <1>2. Fresh \in UsedRec
    BY <1>1 DEF Fresh, UsedRec
  <1>. QED BY <1>2, SpentType

\* A retry or repair spends one.
Spends(u, v) == u \in UsedRec /\ v \in UsedRec /\ Spent(v) = Spent(u) + 1

LEMMA SpendImage ==
  ASSUME NEW u \in UsedRec, u.image < 1
  PROVE  Spends(u, [u EXCEPT !.image = 1])
  <1>. DEFINE v == [u EXCEPT !.image = 1]
  <1>1. /\ v \in UsedRec /\ v.retry = u.retry /\ v.image = 1 /\ v.compress = u.compress
        /\ v.compressExc = u.compressExc /\ v.repaired = u.repaired /\ u.image = 0
    BY DEF UsedRec
  <1>2. /\ u.compress \in Nat /\ u.compressExc \in Nat
    BY Limits DEF UsedRec
  <1>. HIDE DEF v
  <1>3. Retries(v) = Retries(u)
    BY <1>1 DEF Retries
  <1>4. Spent(v) = Spent(u) + 1
    BY <1>1, <1>2, <1>3, SpentType DEF Spent
  <1>. QED BY <1>1, <1>4 DEF Spends, v

LEMMA SpendCompress ==
  ASSUME NEW u \in UsedRec, u.compress < MaxCompress
  PROVE  Spends(u, [u EXCEPT !.compress = @ + 1])
  <1>. DEFINE v == [u EXCEPT !.compress = @ + 1]
  <1>0. u.compress + 1 \in 0..MaxCompress
    BY Limits DEF UsedRec
  <1>1. /\ v \in UsedRec /\ v.retry = u.retry /\ v.image = u.image
        /\ v.compress = u.compress + 1
        /\ v.compressExc = u.compressExc /\ v.repaired = u.repaired
    BY <1>0 DEF UsedRec
  <1>2. /\ u.image \in Nat /\ u.compress \in Nat /\ u.compressExc \in Nat
    BY Limits DEF UsedRec
  <1>. HIDE DEF v
  <1>3. Retries(v) = Retries(u)
    BY <1>1 DEF Retries
  <1>4. Spent(v) = Spent(u) + 1
    BY <1>1, <1>2, <1>3, SpentType DEF Spent
  <1>. QED BY <1>1, <1>4 DEF Spends, v

LEMMA SpendCompressExc ==
  ASSUME NEW u \in UsedRec, u.compressExc < MaxCompress
  PROVE  Spends(u, [u EXCEPT !.compressExc = @ + 1])
  <1>. DEFINE v == [u EXCEPT !.compressExc = @ + 1]
  <1>0. u.compressExc + 1 \in 0..MaxCompress
    BY Limits DEF UsedRec
  <1>1. /\ v \in UsedRec /\ v.retry = u.retry /\ v.image = u.image
        /\ v.compressExc = u.compressExc + 1
        /\ v.compress = u.compress /\ v.repaired = u.repaired
    BY <1>0 DEF UsedRec
  <1>2. /\ u.image \in Nat /\ u.compress \in Nat /\ u.compressExc \in Nat
    BY Limits DEF UsedRec
  <1>. HIDE DEF v
  <1>3. Retries(v) = Retries(u)
    BY <1>1 DEF Retries
  <1>4. Spent(v) = Spent(u) + 1
    BY <1>1, <1>2, <1>3, SpentType DEF Spent
  <1>. QED BY <1>1, <1>4 DEF Spends, v

LEMMA SpendRepair ==
  ASSUME NEW u \in UsedRec, NEW x \in Agents \X Kinds, x \notin u.repaired
  PROVE  Spends(u, [u EXCEPT !.repaired = @ \cup {x}])
  <1>. DEFINE v == [u EXCEPT !.repaired = @ \cup {x}]
  <1>1. /\ v \in UsedRec /\ v.retry = u.retry /\ v.image = u.image
        /\ v.compressExc = u.compressExc
        /\ v.compress = u.compress /\ v.repaired = u.repaired \cup {x}
    BY DEF UsedRec
  <1>2. /\ u.image \in Nat /\ u.compress \in Nat /\ u.compressExc \in Nat
    BY Limits DEF UsedRec
  <1>. HIDE DEF v
  <1>3. Retries(v) = Retries(u)
    BY <1>1 DEF Retries
  <1>4. Cardinality(v.repaired) = Cardinality(u.repaired) + 1
    BY <1>1, SpentType, FS_AddElement
  <1>5. Spent(v) = Spent(u) + 1
    BY <1>1, <1>2, <1>3, <1>4, SpentType DEF Spent
  <1>. QED BY <1>1, <1>5 DEF Spends, v

LEMMA SpendRetry ==
  ASSUME NEW u \in UsedRec, NEW a \in Agents, u.retry[a] < MaxRetries
  PROVE  Spends(u, [u EXCEPT !.retry[a] = @ + 1])
  <1>. DEFINE r == [u.retry EXCEPT ![a] = @ + 1]
              v == [u EXCEPT !.retry = r]
              x == <<a, u.retry[a] + 1>>
  <1>0. u.retry \in [Agents -> 0..MaxRetries] /\ u.retry[a] \in 0..MaxRetries
    BY DEF UsedRec
  <1>1. r \in [Agents -> 0..MaxRetries] /\ r[a] = u.retry[a] + 1
        /\ \A b \in Agents \ {a} : r[b] = u.retry[b]
    BY <1>0, Limits
  <1>2. v = [u EXCEPT !.retry[a] = @ + 1]
    OBVIOUS
  <1>. HIDE DEF r
  <1>3. /\ v \in UsedRec /\ v.retry = r /\ v.image = u.image
        /\ v.compressExc = u.compressExc
        /\ v.compress = u.compress /\ v.repaired = u.repaired
    BY <1>1 DEF UsedRec
  <1>4. /\ u.image \in Nat /\ u.compress \in Nat /\ u.compressExc \in Nat
    BY Limits DEF UsedRec
  <1>. HIDE DEF v
  <1>5. Retries(v) = Retries(u) \cup {x} /\ x \notin Retries(u)
    <2>1. x \in Agents \X (1..MaxRetries)
      BY <1>0, Limits
    <2>2. x \notin Retries(u)
      BY <1>0 DEF Retries
    <2>3. ASSUME NEW y \in Agents \X (1..MaxRetries)
          PROVE  y[2] <= v.retry[y[1]] <=> y[2] <= u.retry[y[1]] \/ y = x
      <3>1. CASE y[1] = a
        <4>1. y[2] \in 1..MaxRetries /\ y = <<a, y[2]>>
          BY <3>1
        <4>. QED BY <1>0, <1>1, <1>3, <3>1, <4>1, Limits
      <3>2. CASE y[1] # a
        BY <1>1, <1>3, <3>2
      <3>. QED BY <3>1, <3>2
    <2>. QED BY <2>1, <2>2, <2>3 DEF Retries
  <1>6. Cardinality(Retries(v)) = Cardinality(Retries(u)) + 1
    BY <1>5, SpentType, FS_AddElement
  <1>7. Spent(v) = Spent(u) + 1
    BY <1>3, <1>4, <1>6, SpentType DEF Spent
  <1>. QED BY <1>2, <1>3, <1>7 DEF Spends

-----------------------------------------------------------------------------
(* What the ends of turns, and the next agent, make of the invariant.        *)

\* The effect on one conversation, by its values before and after.
Same(d) ==
  /\ pc'[d] = pc[d] /\ queue'[d] = queue[d] /\ current'[d] = current[d]
  /\ used'[d] = used[d] /\ asked'[d] = asked[d] /\ skipped'[d] = skipped[d]
  /\ attempts'[d] = attempts[d] /\ outcome'[d] = outcome[d]

LEMMA SameOK ==
  ASSUME NEW d \in Convs, ConvOK(d), Same(d)
  PROVE  ConvOK(d)' /\ Exhausted(d)
  <1>1. ConvOK(d)'
    BY Zenon DEF ConvOK, Same
  <1>2. Exhausted(d)
    BY DEF ConvOK, Same, Exhausted
  <1>. QED BY <1>1, <1>2

LEMMA OverTypes ==
  ASSUME TurnTypes, NEW K \in SUBSET Convs, NEW o \in Outcomes, Over(K, o)
  PROVE  TurnTypes'
  <1>1. "idle" \in Stages
    BY DEF Stages
  <1>2. pc' \in [Convs -> Stages] /\ outcome' \in [Convs -> Outcomes]
    BY <1>1 DEF TurnTypes, Over
  <1>3. queue' \in [Convs -> Seq(Agents)]
    <2>1. <<>> \in Seq(Agents)
      OBVIOUS
    <2>. QED BY <2>1 DEF TurnTypes, Over
  <1>4. current' \in [Convs -> Agents \cup {NoAgent}]
    BY DEF TurnTypes, Over
  <1>5. used' \in [Convs -> UsedRec]
    BY FreshOK DEF TurnTypes, Over
  <1>6. asked' \in [Convs -> SUBSET Agents] /\ skipped' \in [Convs -> SUBSET Agents]
    BY DEF TurnTypes, Over
  <1>7. attempts' \in [Convs -> Nat]
    BY DEF TurnTypes, Over
  <1>. QED BY <1>2, <1>3, <1>4, <1>5, <1>6, <1>7, Zenon DEF TurnTypes

LEMMA OverOK ==
  ASSUME NEW K \in SUBSET Convs, NEW o \in Outcomes, Over(K, o),
         NEW d \in Convs, ConvOK(d)
  PROVE  /\ ConvOK(d)'
         /\ d \notin K => Exhausted(d)
         /\ d \in K => outcome'[d] = o
  <1>1. CASE d \in K
    <2>1. /\ pc'[d] = "idle" /\ attempts'[d] = 0 /\ queue'[d] = <<>>
          /\ used'[d] = Fresh /\ outcome'[d] = o
      BY <1>1 DEF Over
    <2>2. ConvOK(d)'
      BY <2>1 DEF ConvOK
    <2>. QED BY <1>1, <2>1, <2>2
  <1>2. CASE d \notin K
    <2>1. Same(d)
      BY <1>2 DEF Over, Same
    <2>. QED BY <1>2, <2>1, SameOK
  <1>. QED BY <1>1, <1>2

\* What every step does to the turns.
TurnStep ==
  /\ TurnTypes'
  /\ \A d \in Convs : ConvOK(d)'
  /\ \A d \in Convs : Exhausted(d)

LEMMA EndsOK ==
  ASSUME IInv, NEW c \in Convs, NEW o \in Outcomes \ {"error"}, Ends(c, o)
  PROVE  TurnStep
  <1>1. {c} \in SUBSET Convs /\ Over({c}, o) /\ o \in Outcomes
    BY DEF Ends
  <1>2. TurnTypes /\ \A d \in Convs : ConvOK(d)
    BY TypeParts, Zenon DEF IInv
  <1>3. TurnTypes'
    BY <1>1, <1>2, OverTypes, Zenon
  <1>4. ASSUME NEW d \in Convs PROVE ConvOK(d)' /\ Exhausted(d)
    <2>1. /\ ConvOK(d)'
          /\ d \notin {c} => Exhausted(d)
          /\ d \in {c} => outcome'[d] = o
      BY <1>1, <1>2, OverOK, Zenon
    <2>. QED BY <2>1 DEF Exhausted
  <1>. QED BY <1>3, <1>4, Zenon DEF TurnStep

\* The head of the while loop.
LEMMA GoOnTo ==
  ASSUME IInv, NEW c \in Convs, NEW q \in Seq(Agents), NEW u \in UsedRec,
         pc[c] \in Stages \ {"idle"}, GoOn(c, q, u),
         attempts[c] + Len(q) <= Cardinality(Agents) + Spent(u),
         pc[c] = "internal" => q # <<>> /\ Head(q) = Primary,
         pc[c] # "internal" =>
           Primary \in asked[c] /\ asked[c] \cup skipped[c] \cup ToSet(q) = Agents
  PROVE  TurnStep /\ shouldEnd' \in BOOLEAN
  <1>1. TurnTypes /\ SharedTypes /\ \A d \in Convs : ConvOK(d)
    BY TypeParts, Zenon DEF IInv
  <1>2. CASE shouldEnd \/ q = <<>>
    <2>. DEFINE o == IF shouldEnd THEN "stopped" ELSE "error"
    <2>1. Over({c}, o) /\ shouldEnd' = FALSE /\ o \in Outcomes /\ {c} \in SUBSET Convs
      BY <1>2 DEF GoOn, Ends, Outcomes
    <2>2. o = "error" => Primary \in asked[c] /\ asked[c] \cup skipped[c] = Agents
      <3>1. ToSet(<<>>) = {}
        BY DEF ToSet
      <3>. QED BY <1>2, <3>1
    <2>. HIDE DEF o
    <2>3. TurnTypes'
      BY <1>1, <2>1, OverTypes, Zenon
    <2>4. ASSUME NEW d \in Convs PROVE ConvOK(d)' /\ Exhausted(d)
      <3>1. /\ ConvOK(d)'
            /\ d \notin {c} => Exhausted(d)
            /\ d \in {c} => outcome'[d] = o
        BY <1>1, <2>1, OverOK, Zenon
      <3>. QED BY <2>2, <3>1 DEF Exhausted
    <2>. QED BY <2>1, <2>3, <2>4, Zenon DEF TurnStep
  <1>3. CASE ~shouldEnd /\ q # <<>>
    <2>1. /\ Head(q) \in Agents /\ Tail(q) \in Seq(Agents)
          /\ Len(q) \in Nat /\ Len(Tail(q)) = Len(q) - 1
          /\ ToSet(q) = {Head(q)} \cup ToSet(Tail(q))
      BY <1>3, TakeFirst
    <2>. DEFINE left == IF pc[c] = "internal" THEN Agents \ ToSet(q) ELSE skipped[c]
    <2>2. /\ pc' = [pc EXCEPT ![c] = "ask"]
          /\ queue' = [queue EXCEPT ![c] = Tail(q)]
          /\ current' = [current EXCEPT ![c] = Head(q)]
          /\ used' = [used EXCEPT ![c] = u]
          /\ asked' = [asked EXCEPT ![c] = @ \cup {Head(q)}]
          /\ skipped' = [skipped EXCEPT ![c] = left]
          /\ attempts' = [attempts EXCEPT ![c] = @ + 1]
          /\ outcome' = outcome /\ shouldEnd' = shouldEnd
      BY <1>3 DEF GoOn
    <2>3. /\ asked[c] \subseteq Agents /\ skipped[c] \subseteq Agents
          /\ attempts[c] \in Nat /\ outcome[c] = "none"
      BY <1>1 DEF TurnTypes, ConvOK
    <2>4. left \in SUBSET Agents
      BY <2>3
    <2>5. ToSet(q) \subseteq Agents
      BY DEF ToSet
    <2>6. Primary \in asked[c] \cup {Head(q)}
      BY <1>3
    <2>7. asked[c] \cup {Head(q)} \cup left \cup ToSet(Tail(q)) = Agents
      BY <2>1, <2>3, <2>5
    <2>. HIDE DEF left
    <2>8. TurnTypes'
      <3>1. "ask" \in Stages
        BY DEF Stages
      <3>2. pc' \in [Convs -> Stages] /\ outcome' \in [Convs -> Outcomes]
        BY <1>1, <2>2, <3>1 DEF TurnTypes
      <3>3. queue' \in [Convs -> Seq(Agents)]
        BY <1>1, <2>1, <2>2 DEF TurnTypes
      <3>4. current' \in [Convs -> Agents \cup {NoAgent}]
        BY <1>1, <2>1, <2>2 DEF TurnTypes
      <3>5. used' \in [Convs -> UsedRec]
        BY <1>1, <2>2 DEF TurnTypes
      <3>6. asked' \in [Convs -> SUBSET Agents]
        BY <1>1, <2>1, <2>2 DEF TurnTypes
      <3>7. skipped' \in [Convs -> SUBSET Agents]
        BY <1>1, <2>4, <2>2 DEF TurnTypes
      <3>8. attempts' \in [Convs -> Nat]
        BY <1>1, <2>2 DEF TurnTypes
      <3>. QED BY <3>2, <3>3, <3>4, <3>5, <3>6, <3>7, <3>8, Zenon DEF TurnTypes
    <2>9. ConvOK(c)' /\ Exhausted(c)
      <3>1. /\ pc'[c] = "ask" /\ queue'[c] = Tail(q) /\ current'[c] = Head(q)
            /\ used'[c] = u /\ asked'[c] = asked[c] \cup {Head(q)}
            /\ skipped'[c] = left /\ attempts'[c] = attempts[c] + 1
            /\ outcome'[c] = outcome[c]
        BY <1>1, <2>2 DEF TurnTypes
      <3>2. attempts[c] + 1 + Len(Tail(q)) <= Cardinality(Agents) + Spent(u)
        BY <2>1, <2>3, AgentsFinite, SpentType
      <3>3. ConvOK(c)'
        BY <2>1, <2>3, <2>6, <2>7, <3>1, <3>2 DEF ConvOK
      <3>. QED BY <2>3, <3>1, <3>3 DEF Exhausted
    <2>10. ASSUME NEW d \in Convs, d # c PROVE ConvOK(d)' /\ Exhausted(d)
      <3>1. Same(d)
        BY <1>1, <2>2, <2>10 DEF TurnTypes, Same
      <3>. QED BY <1>1, <3>1, SameOK
    <2>11. shouldEnd' \in BOOLEAN
      BY <1>1, <2>2 DEF SharedTypes
    <2>. QED BY <2>8, <2>9, <2>10, <2>11, Zenon DEF TurnStep
  <1>. QED BY <1>2, <1>3

-----------------------------------------------------------------------------
(* The memory of the agents.                                                 *)

LEMMA UnknownOK == Unknown \in MemoryRec
  BY DEF Unknown, MemoryRec

LEMMA FailureOK ==
  ASSUME memory \in [Agents -> MemoryRec], NEW a \in Agents,
         NEW signature \in Signatures, RecordFailure(a, signature)
  PROVE  memory' \in [Agents -> MemoryRec]
  <1>. DEFINE m == Failed(memory[a], signature)
  <1>1. m \in MemoryRec
    BY DEF MemoryRec, Failed
  <1>2. memory' = [memory EXCEPT ![a] = m]
    BY DEF RecordFailure
  <1>. HIDE DEF m
  <1>. QED BY <1>1, <1>2

\* Time passing changes nothing else.
LEMMA TimeOK ==
  ASSUME IInv, NEW a \in Agents, CoolsDown(a) \/ Forgets(a)
  PROVE  TurnStep /\ SharedTypes'
  <1>1. TurnTypes /\ SharedTypes /\ \A d \in Convs : ConvOK(d)
    BY TypeParts, Zenon DEF IInv
  <1>2. UNCHANGED <<turnVars, turns, shouldEnd, loopAlive>>
    BY DEF CoolsDown, Forgets
  <1>3. memory' \in [Agents -> MemoryRec]
    <2>1. memory \in [Agents -> MemoryRec] /\ memory[a] \in MemoryRec
      BY <1>1 DEF SharedTypes
    <2>2. /\ [memory[a] EXCEPT !.cooling = FALSE] \in MemoryRec
          /\ [memory[a] EXCEPT !.signature = "severe"] \in MemoryRec
      BY <2>1 DEF MemoryRec, Signatures
    <2>3. \/ memory' = [memory EXCEPT ![a] = [memory[a] EXCEPT !.cooling = FALSE]]
          \/ memory' = [memory EXCEPT ![a] = [memory[a] EXCEPT !.signature = "severe"]]
      BY <2>1 DEF CoolsDown, Forgets
    <2>. QED BY <2>1, <2>2, <2>3
  <1>4. SharedTypes'
    BY <1>1, <1>2, <1>3 DEF SharedTypes
  <1>5. TurnTypes'
    BY <1>1, <1>2, Zenon DEF TurnTypes, turnVars
  <1>6. ASSUME NEW d \in Convs PROVE ConvOK(d)' /\ Exhausted(d)
    <2>1. Same(d)
      BY <1>2, Zenon DEF Same, turnVars
    <2>. QED BY <1>1, <2>1, SameOK
  <1>. QED BY <1>4, <1>5, <1>6, Zenon DEF TurnStep

-----------------------------------------------------------------------------
(* The actions of a turn.                                                    *)

LEMMA BeginOK ==
  ASSUME IInv, NEW c \in Convs, Begin(c)
  PROVE  TurnStep /\ SharedTypes'
  <1>1. TurnTypes /\ SharedTypes /\ \A d \in Convs : ConvOK(d)
    BY TypeParts, Zenon DEF IInv
  <1>2. SharedTypes'
    BY <1>1, Limits DEF SharedTypes, Begin
  <1>3. pc' \in [Convs -> Stages] /\ outcome' \in [Convs -> Outcomes]
    BY <1>1 DEF Begin, TurnTypes, Stages, Outcomes
  <1>4. TurnTypes'
    BY <1>1, <1>3, Zenon DEF TurnTypes, Begin
  <1>5. ConvOK(c)' /\ Exhausted(c)
    <2>1. /\ pc[c] = "idle" /\ pc'[c] = "internal" /\ outcome'[c] = "none"
          /\ attempts' = attempts /\ queue' = queue /\ used' = used
      BY <1>1 DEF Begin, TurnTypes
    <2>. QED BY <1>1, <2>1 DEF ConvOK, Exhausted
  <1>6. ASSUME NEW d \in Convs, d # c PROVE ConvOK(d)' /\ Exhausted(d)
    <2>1. Same(d)
      BY <1>1, <1>6 DEF Begin, TurnTypes, Same
    <2>. QED BY <1>1, <2>1, SameOK
  <1>. QED BY <1>2, <1>4, <1>5, <1>6, Zenon DEF TurnStep

\* What an action of an asked turn starts from.
Asking(c) ==
  /\ queue[c] \in Seq(Agents) /\ used[c] \in UsedRec
  /\ attempts[c] \in Nat /\ Len(queue[c]) \in Nat
  /\ attempts[c] + Len(queue[c]) <= Cardinality(Agents) + Spent(used[c])
  /\ Primary \in asked[c]
  /\ asked[c] \cup skipped[c] \cup ToSet(queue[c]) = Agents

LEMMA AskingOK ==
  ASSUME IInv, NEW c \in Convs, pc[c] \in {"ask", "finalize", "backoff"}
  PROVE  /\ Asking(c) /\ pc[c] \in Stages \ {"idle"} /\ pc[c] # "internal"
         /\ pc[c] # "backoff" => current[c] \in Agents
  <1>1. TurnTypes /\ ConvOK(c)
    BY TypeParts, Zenon DEF IInv
  <1>2. queue[c] \in Seq(Agents) /\ used[c] \in UsedRec /\ attempts[c] \in Nat
    BY <1>1 DEF TurnTypes
  <1>3. Len(queue[c]) \in Nat
    BY <1>2, LenProperties
  <1>. QED BY <1>1, <1>2, <1>3 DEF Asking, ConvOK, Stages

LEMMA GoOnQueue ==
  ASSUME IInv, NEW c \in Convs, pc[c] \in {"ask", "finalize", "backoff"},
         GoOn(c, queue[c], used[c])
  PROVE  TurnStep /\ shouldEnd' \in BOOLEAN
  <1>1. Asking(c) /\ pc[c] \in Stages \ {"idle"} /\ pc[c] # "internal"
    BY AskingOK
  <1>. QED BY <1>1, GoOnTo DEF Asking

LEMMA RetryOK ==
  ASSUME IInv, NEW c \in Convs, pc[c] \in {"ask", "finalize"},
         NEW u, Spends(used[c], u), Retry(c, u)
  PROVE  TurnStep /\ SharedTypes'
  <1>. DEFINE q == <<current[c]>> \o queue[c]
  <1>1. /\ Asking(c) /\ pc[c] \in Stages \ {"idle"} /\ pc[c] # "internal"
        /\ current[c] \in Agents
    BY AskingOK
  <1>2. /\ q \in Seq(Agents) /\ q # <<>> /\ Len(q) = Len(queue[c]) + 1
        /\ ToSet(q) = {current[c]} \cup ToSet(queue[c])
    BY <1>1, PutFirst DEF Asking
  <1>3. GoOn(c, q, u) /\ UNCHANGED <<turns, memory, loopAlive>>
    BY DEF Retry
  <1>. HIDE DEF q
  <1>4. u \in UsedRec /\ Spent(u) = Spent(used[c]) + 1 /\ Spent(used[c]) \in Nat
    BY SpentType DEF Spends
  <1>5. attempts[c] + Len(q) <= Cardinality(Agents) + Spent(u)
    BY <1>1, <1>2, <1>4, AgentsFinite DEF Asking
  <1>6. asked[c] \cup skipped[c] \cup ToSet(q) = Agents /\ Primary \in asked[c]
    BY <1>1, <1>2 DEF Asking
  <1>7. TurnStep /\ shouldEnd' \in BOOLEAN
    BY <1>1, <1>2, <1>3, <1>4, <1>5, <1>6, GoOnTo
  <1>8. SharedTypes
    BY TypeParts, Zenon DEF IInv
  <1>. QED BY <1>3, <1>7, <1>8 DEF SharedTypes

LEMMA RepairsOK ==
  ASSUME IInv, NEW c \in Convs, Repairs(c)
  PROVE  TurnStep /\ SharedTypes'
  <1>1. pc[c] \in {"ask", "finalize"}
    BY DEF Repairs, StripImages, Compress, CompressAfterException, SelfRepair, Raised
  <1>2. used[c] \in UsedRec /\ current[c] \in Agents
    BY <1>1, AskingOK DEF Asking
  <1>3. CASE StripImages(c)
    BY <1>1, <1>2, <1>3, SpendImage, RetryOK DEF StripImages
  <1>4. CASE Compress(c)
    BY <1>1, <1>2, <1>4, SpendCompress, RetryOK DEF Compress
  <1>5. CASE CompressAfterException(c)
    BY <1>1, <1>2, <1>5, SpendCompressExc, RetryOK DEF CompressAfterException
  <1>6. ASSUME NEW kind \in Kinds, SelfRepair(c, kind)
        PROVE  TurnStep /\ SharedTypes'
    <2>1. <<current[c], kind>> \in Agents \X Kinds
      BY <1>2
    <2>. QED BY <1>1, <1>2, <1>6, <2>1, SpendRepair, RetryOK DEF SelfRepair
  <1>. QED BY <1>3, <1>4, <1>5, <1>6 DEF Repairs

LEMMA InternalOK ==
  ASSUME IInv, NEW c \in Convs, InternalReplies(c) \/ InternalFails(c)
  PROVE  TurnStep /\ SharedTypes'
  <1>1. TurnTypes /\ SharedTypes /\ ConvOK(c)
    BY TypeParts, Zenon DEF IInv
  <1>2. CASE InternalReplies(c)
    <2>1. Ends(c, "reply") /\ UNCHANGED <<turns, memory, shouldEnd, loopAlive>>
      BY <1>2 DEF InternalReplies
    <2>2. "reply" \in Outcomes \ {"error"}
      BY DEF Outcomes
    <2>3. TurnStep
      BY <2>1, <2>2, EndsOK
    <2>. QED BY <1>1, <2>1, <2>3 DEF SharedTypes
  <1>3. CASE InternalFails(c)
    <2>1. PICK order \in Orders(Usable) : GoOn(c, order, used[c])
      BY <1>3 DEF InternalFails
    <2>2. pc[c] = "internal" /\ UNCHANGED <<turns, memory, loopAlive>>
      BY <1>3 DEF InternalFails
    <2>3. attempts[c] = 0 /\ used[c] = Fresh
      BY <1>1, <2>2 DEF ConvOK
    <2>4. /\ order \in Seq(Agents) /\ order # <<>> /\ Head(order) = Primary
          /\ Len(order) \in Nat /\ Len(order) <= Cardinality(Agents)
      BY OrdersOK
    <2>5. /\ used[c] \in UsedRec
          /\ attempts[c] + Len(order) <= Cardinality(Agents) + Spent(used[c])
      BY <2>3, <2>4, FreshOK, AgentsFinite
    <2>6. pc[c] \in Stages \ {"idle"}
      BY <2>2 DEF Stages
    <2>7. TurnStep /\ shouldEnd' \in BOOLEAN
      BY <2>1, <2>2, <2>4, <2>5, <2>6, GoOnTo
    <2>. QED BY <1>1, <2>2, <2>7 DEF SharedTypes
  <1>. QED BY <1>2, <1>3

LEMMA AnswersOK ==
  ASSUME IInv, NEW c \in Convs, Answers(c)
  PROVE  TurnStep /\ SharedTypes'
  <1>1. TurnTypes /\ SharedTypes /\ \A d \in Convs : ConvOK(d)
    BY TypeParts, Zenon DEF IInv
  <1>2. SharedTypes'
    BY <1>1 DEF SharedTypes, Answers
  <1>3. pc' \in [Convs -> Stages]
    BY <1>1 DEF Answers, TurnTypes, Stages
  <1>4. TurnTypes'
    BY <1>1, <1>3, Zenon DEF TurnTypes, Answers
  <1>5. ConvOK(c)' /\ Exhausted(c)
    <2>1. /\ pc[c] = "ask" /\ pc'[c] = "finalize" /\ outcome' = outcome
          /\ attempts' = attempts /\ queue' = queue /\ used' = used
          /\ asked' = asked /\ skipped' = skipped /\ current' = current
      BY <1>1 DEF Answers, TurnTypes
    <2>. QED BY <1>1, <2>1 DEF ConvOK, Exhausted
  <1>6. ASSUME NEW d \in Convs, d # c PROVE ConvOK(d)' /\ Exhausted(d)
    <2>1. Same(d)
      BY <1>1, <1>6 DEF Answers, TurnTypes, Same
    <2>. QED BY <1>1, <2>1, SameOK
  <1>. QED BY <1>2, <1>4, <1>5, <1>6, Zenon DEF TurnStep

LEMMA DeliversOK ==
  ASSUME IInv, NEW c \in Convs, Delivers(c)
  PROVE  TurnStep /\ SharedTypes'
  <1>1. SharedTypes
    BY TypeParts, Zenon DEF IInv
  <1>2. /\ memory' = [memory EXCEPT ![current[c]] = Unknown]
        /\ Ends(c, "reply") /\ UNCHANGED <<turns, shouldEnd, loopAlive>>
    BY DEF Delivers, RecordSuccess
  <1>3. "reply" \in Outcomes \ {"error"}
    BY DEF Outcomes
  <1>4. TurnStep
    BY <1>2, <1>3, EndsOK
  <1>5. memory' \in [Agents -> MemoryRec]
    BY <1>1, <1>2, UnknownOK DEF SharedTypes
  <1>. QED BY <1>1, <1>2, <1>4, <1>5 DEF SharedTypes

\* The agent is put back and asked again after a backoff.
LEMMA BacksOff ==
  ASSUME IInv, NEW c \in Convs, pc[c] \in {"ask", "finalize"},
         used[c].retry[current[c]] < MaxRetries,
         used' = [used EXCEPT ![c].retry[current[c]] = @ + 1],
         queue' = [queue EXCEPT ![c] = <<current[c]>> \o @],
         pc' = [pc EXCEPT ![c] = "backoff"],
         current' = [current EXCEPT ![c] = NoAgent],
         UNCHANGED <<asked, skipped, attempts, outcome>>
  PROVE  TurnStep
  <1>. DEFINE q == <<current[c]>> \o queue[c]
              u == [used[c] EXCEPT !.retry[current[c]] = @ + 1]
  <1>1. TurnTypes /\ \A d \in Convs : ConvOK(d)
    BY TypeParts, Zenon DEF IInv
  <1>2. Asking(c) /\ current[c] \in Agents
    BY AskingOK
  <1>3. /\ q \in Seq(Agents) /\ Len(q) = Len(queue[c]) + 1
        /\ ToSet(q) = {current[c]} \cup ToSet(queue[c])
    BY <1>2, PutFirst DEF Asking
  <1>4. u \in UsedRec /\ Spent(u) = Spent(used[c]) + 1 /\ Spent(used[c]) \in Nat
    BY <1>2, SpendRetry, SpentType DEF Asking, Spends
  <1>5. used' = [used EXCEPT ![c] = u] /\ queue' = [queue EXCEPT ![c] = q]
    BY <1>1 DEF TurnTypes
  <1>. HIDE DEF q, u
  <1>6. TurnTypes'
    <2>1. pc' \in [Convs -> Stages]
      BY <1>1 DEF TurnTypes, Stages
    <2>2. queue' \in [Convs -> Seq(Agents)]
      BY <1>1, <1>3, <1>5 DEF TurnTypes
    <2>3. used' \in [Convs -> UsedRec]
      BY <1>1, <1>4, <1>5 DEF TurnTypes
    <2>4. current' \in [Convs -> Agents \cup {NoAgent}]
      BY <1>1 DEF TurnTypes
    <2>5. /\ asked' \in [Convs -> SUBSET Agents] /\ skipped' \in [Convs -> SUBSET Agents]
          /\ attempts' \in [Convs -> Nat] /\ outcome' \in [Convs -> Outcomes]
      BY <1>1, Zenon DEF TurnTypes
    <2>. QED BY <2>1, <2>2, <2>3, <2>4, <2>5, Zenon DEF TurnTypes
  <1>7. ConvOK(c)' /\ Exhausted(c)
    <2>1. /\ pc'[c] = "backoff" /\ outcome'[c] = outcome[c] /\ attempts'[c] = attempts[c]
          /\ queue'[c] = q /\ used'[c] = u
          /\ asked'[c] = asked[c] /\ skipped'[c] = skipped[c]
      BY <1>1, <1>5 DEF TurnTypes
    <2>2. outcome[c] = "none"
      BY <1>1 DEF ConvOK
    <2>3. attempts[c] + Len(q) <= Cardinality(Agents) + Spent(u)
      BY <1>2, <1>3, <1>4, AgentsFinite DEF Asking
    <2>4. asked[c] \cup skipped[c] \cup ToSet(q) = Agents /\ Primary \in asked[c]
      BY <1>2, <1>3 DEF Asking
    <2>5. ConvOK(c)'
      BY <2>1, <2>2, <2>3, <2>4 DEF ConvOK
    <2>. QED BY <2>1, <2>2, <2>5 DEF Exhausted
  <1>8. ASSUME NEW d \in Convs, d # c PROVE ConvOK(d)' /\ Exhausted(d)
    <2>1. Same(d)
      BY <1>1, <1>5, <1>8 DEF TurnTypes, Same
    <2>. QED BY <1>1, <2>1, SameOK
  <1>. QED BY <1>6, <1>7, <1>8, Zenon DEF TurnStep

LEMMA FailsOK ==
  ASSUME IInv, NEW c \in Convs, Fails(c) \/ Unavailable(c)
  PROVE  TurnStep /\ SharedTypes'
  <1>1. SharedTypes
    BY TypeParts, Zenon DEF IInv
  <1>2. pc[c] \in {"ask", "finalize"} /\ UNCHANGED <<turns, loopAlive>>
    BY DEF Fails, Unavailable, Raised
  <1>3. current[c] \in Agents
    BY <1>2, AskingOK
  <1>4. PICK signature \in Signatures : RecordFailure(current[c], signature)
    BY DEF Fails, Unavailable
  <1>5. memory' \in [Agents -> MemoryRec]
    BY <1>1, <1>3, <1>4, FailureOK DEF SharedTypes
  <1>6. TurnStep /\ shouldEnd' \in BOOLEAN
    <2>1. CASE GoOn(c, queue[c], used[c])
      BY <1>2, <2>1, GoOnQueue
    <2>2. CASE ~GoOn(c, queue[c], used[c])
      <3>1. Fails(c) /\ used[c].retry[current[c]] < MaxRetries
        BY <2>2 DEF Fails, Unavailable
      <3>2. /\ used' = [used EXCEPT ![c].retry[current[c]] = @ + 1]
            /\ queue' = [queue EXCEPT ![c] = <<current[c]>> \o @]
            /\ pc' = [pc EXCEPT ![c] = "backoff"]
            /\ current' = [current EXCEPT ![c] = NoAgent]
            /\ UNCHANGED <<asked, skipped, attempts, outcome>>
            /\ shouldEnd' = shouldEnd
        BY <3>1 DEF Fails
      <3>3. TurnStep
        BY <1>2, <3>1, <3>2, BacksOff
      <3>. QED BY <1>1, <3>2, <3>3 DEF SharedTypes
    <2>. QED BY <2>1, <2>2
  <1>. QED BY <1>1, <1>2, <1>5, <1>6 DEF SharedTypes

LEMMA ChainOK ==
  ASSUME IInv, NEW c \in Convs, Chain(c)
  PROVE  TurnStep /\ SharedTypes'
  <1>1. CASE InternalReplies(c) \/ InternalFails(c)
    BY <1>1, InternalOK
  <1>2. CASE Answers(c)
    BY <1>2, AnswersOK
  <1>3. CASE AnswersNothing(c) \/ BackoffEnds(c)
    <2>1. /\ pc[c] \in {"ask", "finalize", "backoff"} /\ GoOn(c, queue[c], used[c])
          /\ UNCHANGED <<turns, memory, loopAlive>>
      BY <1>3 DEF AnswersNothing, BackoffEnds
    <2>2. TurnStep /\ shouldEnd' \in BOOLEAN
      BY <2>1, GoOnQueue
    <2>3. SharedTypes
      BY TypeParts, Zenon DEF IInv
    <2>. QED BY <2>1, <2>2, <2>3 DEF SharedTypes
  <1>4. CASE Repairs(c)
    BY <1>4, RepairsOK
  <1>5. CASE Salvages(c) \/ Finalized(c)
    BY <1>5, DeliversOK DEF Salvages, Finalized
  <1>6. CASE Fails(c) \/ Unavailable(c)
    BY <1>6, FailsOK
  <1>. QED BY <1>1, <1>2, <1>3, <1>4, <1>5, <1>6 DEF Chain, Returns

LEMMA CommandOK ==
  ASSUME IInv, NEW c \in Convs, NEW K \in SUBSET Convs, Stop(c, K) \/ New(c, K)
  PROVE  TurnStep /\ SharedTypes'
  <1>1. TurnTypes /\ SharedTypes /\ \A d \in Convs : ConvOK(d)
    BY TypeParts, Zenon DEF IInv
  <1>2. Over(K, "cancelled")
    BY DEF Stop, New
  <1>3. "cancelled" \in Outcomes
    BY DEF Outcomes
  <1>4. SharedTypes'
    BY <1>1 DEF SharedTypes, Stop, New
  <1>5. TurnTypes'
    BY <1>1, <1>2, <1>3, OverTypes
  <1>6. ASSUME NEW d \in Convs PROVE ConvOK(d)' /\ Exhausted(d)
    <2>1. /\ ConvOK(d)'
          /\ d \notin K => Exhausted(d)
          /\ d \in K => outcome'[d] = "cancelled"
      BY <1>1, <1>2, <1>3, OverOK
    <2>. QED BY <2>1 DEF Exhausted
  <1>. QED BY <1>4, <1>5, <1>6, Zenon DEF TurnStep

LEMMA StillOK ==
  ASSUME IInv, HookConsumes \/ UNCHANGED vars
  PROVE  TurnStep /\ SharedTypes'
  <1>1. TurnTypes /\ SharedTypes /\ \A d \in Convs : ConvOK(d)
    BY TypeParts, Zenon DEF IInv
  <1>2. UNCHANGED turnVars
    BY DEF HookConsumes, vars
  <1>3. SharedTypes'
    BY <1>1 DEF SharedTypes, HookConsumes, vars
  <1>4. TurnTypes'
    BY <1>1, <1>2, Zenon DEF TurnTypes, turnVars
  <1>5. ASSUME NEW d \in Convs PROVE ConvOK(d)' /\ Exhausted(d)
    <2>1. Same(d)
      BY <1>2, Zenon DEF Same, turnVars
    <2>. QED BY <1>1, <2>1, SameOK
  <1>. QED BY <1>3, <1>4, <1>5, Zenon DEF TurnStep

-----------------------------------------------------------------------------
(* The theorems.                                                             *)

LEMMA InitOK == Init => IInv
  <1>. SUFFICES ASSUME Init PROVE IInv
    OBVIOUS
  <1>1. TurnTypes
    <2>1. <<>> \in Seq(Agents)
      OBVIOUS
    <2>. QED BY <2>1, FreshOK DEF Init, TurnTypes, Stages, Outcomes
  <1>2. SharedTypes
    <2>1. 0 \in 0..MaxTurns
      BY Limits
    <2>2. memory \in [Agents -> MemoryRec]
      BY UnknownOK DEF Init
    <2>. QED BY <2>1, <2>2 DEF Init, SharedTypes
  <1>3. ASSUME NEW c \in Convs PROVE ConvOK(c)
    BY DEF Init, ConvOK
  <1>. QED BY <1>1, <1>2, <1>3, TypeParts, Zenon DEF IInv

LEMMA Step ==
  ASSUME IInv, [Next]_vars
  PROVE  IInv' /\ \A c \in Convs : Exhausted(c)
  <1>1. TurnStep /\ SharedTypes'
    <2>1. ASSUME NEW c \in Convs, Begin(c) PROVE TurnStep /\ SharedTypes'
      BY <2>1, BeginOK
    <2>2. ASSUME NEW c \in Convs, Chain(c) PROVE TurnStep /\ SharedTypes'
      BY <2>2, ChainOK
    <2>3. ASSUME NEW c \in Convs, NEW K \in SUBSET Convs, Stop(c, K) \/ New(c, K)
          PROVE  TurnStep /\ SharedTypes'
      BY <2>3, CommandOK
    <2>4. ASSUME NEW a \in Agents, CoolsDown(a) \/ Forgets(a)
          PROVE  TurnStep /\ SharedTypes'
      BY <2>4, TimeOK
    <2>5. CASE HookConsumes \/ UNCHANGED vars
      BY <2>5, StillOK
    <2>. QED BY <2>1, <2>2, <2>3, <2>4, <2>5, Zenon DEF Next
  <1>2. TypeOK' <=> TurnTypes' /\ SharedTypes'
    BY Zenon DEF TypeOK, TurnTypes, SharedTypes, UsedRec, MemoryRec
  <1>. QED BY <1>1, <1>2, Zenon DEF TurnStep, IInv

LEMMA Invariance == Spec => []IInv
  BY InitOK, Step, PTL DEF Spec

\* The locals of the turns and the memory of the agents stay well-formed, for any
\* agents and limits (agent_fallback.py, adaptive_memory.py).
THEOREM TypeCorrect == Spec => []TypeOK
  <1>1. IInv => TypeOK
    BY DEF IInv
  <1>. QED BY <1>1, Invariance, PTL

\* However the agents fail, and whatever turns interleave, one turn asks agents
\* at most as often as its retries and repairs add up to (agent_fallback.py
\* 1470-2001).
THEOREM CallsWithinBudget == Spec => []CallBudget
  <1>1. ASSUME IInv, NEW c \in Convs
        PROVE  attempts[c] <= Cardinality(Agents)
                                * (1 + MaxRetries + Cardinality(Kinds)) + 1 + 2 * MaxCompress
    <2>. DEFINE n == Cardinality(Agents)
                k == Cardinality(Kinds)
    <2>1. TurnTypes /\ ConvOK(c)
      BY <1>1, TypeParts, Zenon DEF IInv
    <2>2. /\ n \in Nat /\ k \in Nat /\ n * MaxRetries \in Nat /\ n * k \in Nat
          /\ n * (1 + MaxRetries + k) = n + n * MaxRetries + n * k
      BY AgentsFinite, KindAssumption, FS_CardinalityType, Limits
    <2>3. /\ used[c] \in UsedRec /\ attempts[c] \in Nat /\ queue[c] \in Seq(Agents)
          /\ pc[c] \in Stages
      BY <2>1 DEF TurnTypes
    <2>4. Len(queue[c]) \in Nat
      BY <2>3, LenProperties
    <2>5. attempts[c] <= n + Spent(used[c])
      <3>1. CASE pc[c] \in {"idle", "internal"}
        BY <2>1, <2>2, <2>3, <3>1, SpentType DEF ConvOK
      <3>2. CASE pc[c] \in {"ask", "finalize", "backoff"}
        <4>1. pc[c] \notin {"idle", "internal"} /\ Spent(used[c]) \in Nat
          BY <2>3, <3>2, SpentType
        <4>. QED BY <2>1, <2>2, <2>3, <2>4, <3>2, <4>1 DEF ConvOK
      <3>. QED BY <2>3, <3>1, <3>2 DEF Stages
    <2>6. /\ Spent(used[c]) \in Nat
          /\ Spent(used[c]) <= n * MaxRetries + 1 + 2 * MaxCompress + n * k
      BY <2>3, SpentType
    <2>. HIDE DEF n, k
    <2>7. attempts[c] <= n * (1 + MaxRetries + k) + 1 + 2 * MaxCompress
      BY <2>2, <2>3, <2>5, <2>6, Limits
    <2>. QED BY <2>7 DEF n, k
  <1>2. IInv => CallBudget
    BY <1>1 DEF CallBudget
  <1>. QED BY <1>2, Invariance, PTL

\* A chain that ends in the error of its exhaustion has asked the first agent,
\* and every other agent that was not skipped when the turn began.
THEOREM NoAgentForgotten == Spec => ExhaustedMeansAsked
  <1>1. IInv /\ [Next]_vars =>
          [\A c \in Convs : pc[c] # "idle" /\ outcome'[c] = "error" =>
             /\ Primary \in asked[c]
             /\ asked[c] \cup skipped[c] = Agents]_vars
    BY Step DEF Exhausted
  <1>. QED BY <1>1, Invariance, PTL DEF Spec, ExhaustedMeansAsked

-----------------------------------------------------------------------------
(* Sequences put one after the other.                                        *)

\* Numbers have a least one: what holds for all numbers because each passes it on
\* to the next is proved by the least number that would not have it.
LEMMA LeastOf ==
  ASSUME NEW H \in SUBSET Nat, H # {}
  PROVE  \E m \in H : \A k \in H : ~(k < m)
  <1>1. PICK m \in H : \A k \in H : <<k, m>> \notin OpToRel(<, Nat)
    BY WFMin, NatLessThanWellFounded, Zenon
  <1>2. \A k \in H : ~(k < m)
    BY <1>1, Zenon DEF OpToRel
  <1>. QED BY <1>2, Zenon

\* The first n of some sequences, each behind the one before.
Chained(ss, n, f) ==
  \A i \in 1..n : f[i] = IF i = 1 THEN ss[i] ELSE f[i - 1] \o ss[i]

LEMMA ChainedExists ==
  ASSUME NEW S, NEW ss \in Seq(Seq(S)), NEW n \in 1..Len(ss)
  PROVE  \E f \in [1..n -> Seq(S)] : Chained(ss, n, f)
  <1>. DEFINE Has(m) == \E f \in [1..m -> Seq(S)] : Chained(ss, m, f)
              H == {m \in 1..Len(ss) : ~Has(m)}
  <1>0. Len(ss) \in Nat /\ \A i \in 1..Len(ss) : ss[i] \in Seq(S)
    BY LenProperties, ElementOfSeq
  <1>1. SUFFICES ASSUME H # {} PROVE FALSE
    OBVIOUS
  <1>2. H \in SUBSET Nat
    BY <1>0
  <1>3. PICK m \in H : \A k \in H : ~(k < m)
    BY <1>1, <1>2, LeastOf
  <1>4. CASE m = 1
    <2>1. [i \in 1..1 |-> ss[1]] \in [1..1 -> Seq(S)]
      BY <1>0, <1>3, <1>4
    <2>2. Chained(ss, 1, [i \in 1..1 |-> ss[1]])
      BY DEF Chained
    <2>. QED BY <1>3, <1>4, <2>1, <2>2
  <1>5. CASE m # 1
    <2>1. m \in 1..Len(ss) /\ m - 1 \in 1..Len(ss) /\ m - 1 < m
      BY <1>0, <1>3, <1>5
    <2>2. Has(m - 1)
      BY <1>3, <2>1
    <2>3. PICK f \in [1..m - 1 -> Seq(S)] : Chained(ss, m - 1, f)
      BY <2>2
    <2>. DEFINE h == [i \in 1..m |-> IF i = m THEN f[m - 1] \o ss[m] ELSE f[i]]
    <2>4. f[m - 1] \o ss[m] \in Seq(S)
      BY <1>0, <2>1, ConcatProperties
    <2>5. h \in [1..m -> Seq(S)]
      BY <2>1, <2>4
    <2>6. ASSUME NEW i \in 1..m PROVE h[i] = IF i = 1 THEN ss[i] ELSE h[i - 1] \o ss[i]
      <3>1. CASE i = m
        <4>1. h[i - 1] = f[m - 1]
          BY <1>0, <1>5, <2>1, <3>1
        <4>. QED BY <1>5, <3>1, <4>1
      <3>2. CASE i # m
        <4>1. i \in 1..m - 1 /\ h[i] = f[i]
          BY <1>0, <2>1, <3>2
        <4>2. CASE i = 1
          BY <2>3, <4>1, <4>2 DEF Chained
        <4>3. CASE i # 1
          <5>1. i - 1 \in 1..m - 1 /\ h[i - 1] = f[i - 1]
            BY <1>0, <2>1, <4>1, <4>3
          <5>. QED BY <2>3, <4>1, <4>3, <5>1 DEF Chained
        <4>. QED BY <4>2, <4>3
      <3>. QED BY <3>1, <3>2
    <2>. HIDE DEF h
    <2>7. Chained(ss, m, h)
      BY <2>6 DEF Chained
    <2>. QED BY <1>3, <2>5, <2>7
  <1>. QED BY <1>4, <1>5

\* FlattenSeq of the community modules.
LEMMA FlattenChained ==
  ASSUME NEW S, NEW ss \in Seq(Seq(S)), Len(ss) # 0
  PROVE  \E f \in [1..Len(ss) -> Seq(S)] : Chained(ss, Len(ss), f) /\ FlattenSeq(ss) = f[Len(ss)]
  <1>0. Len(ss) \in Nat /\ Len(ss) \in 1..Len(ss)
    BY LenProperties
  <1>1. PICK f \in [1..Len(ss) -> Seq(S)] : Chained(ss, Len(ss), f)
    BY <1>0, ChainedExists
  <1>. DEFINE F == CHOOSE h : h = [i \in 1..Len(ss) |-> IF i = 1 THEN ss[i] ELSE h[i - 1] \o ss[i]]
  <1>2. f = [i \in 1..Len(ss) |-> IF i = 1 THEN ss[i] ELSE f[i - 1] \o ss[i]]
    BY <1>1 DEF Chained
  <1>3. F = [i \in 1..Len(ss) |-> IF i = 1 THEN ss[i] ELSE F[i - 1] \o ss[i]]
    BY <1>2
  <1>4. FlattenSeq(ss) = F[Len(ss)]
    BY Zenon DEF FlattenSeq
  <1>. HIDE DEF F
  <1>. DEFINE H == {i \in 1..Len(ss) : F[i] # f[i]}
  <1>5. H = {}
    <2>1. SUFFICES ASSUME H # {} PROVE FALSE
      OBVIOUS
    <2>0. H \in SUBSET Nat
      BY <1>0
    <2>2. PICK m \in H : \A k \in H : ~(k < m)
      BY <2>0, <2>1, LeastOf
    <2>3. m \in 1..Len(ss) /\ F[m] # f[m]
      BY <2>2
    <2>4. CASE m = 1
      BY <1>2, <1>3, <2>3, <2>4
    <2>5. CASE m # 1
      <3>1. m - 1 \in 1..Len(ss) /\ m - 1 < m
        BY <1>0, <2>3, <2>5
      <3>2. F[m - 1] = f[m - 1]
        BY <2>2, <3>1
      <3>3. F[m] = F[m - 1] \o ss[m] /\ f[m] = f[m - 1] \o ss[m]
        BY <1>2, <1>3, <2>3, <2>5
      <3>. QED BY <2>3, <3>2, <3>3
    <2>. QED BY <2>4, <2>5
  <1>6. F[Len(ss)] = f[Len(ss)]
    BY <1>0, <1>5
  <1>. QED BY <1>1, <1>4, <1>6

\* t is the first n sequences of ss, one after the other: its place p is the place
\* k[p] of the sequence g[p].
Placed(ss, n, t, g, k) ==
  /\ g \in [DOMAIN t -> 1..n] /\ k \in [DOMAIN t -> Nat \ {0}]
  /\ \A p \in DOMAIN t : k[p] \in DOMAIN ss[g[p]] /\ t[p] = ss[g[p]][k[p]]
  /\ \A p, q \in DOMAIN t : p < q => g[p] < g[q] \/ (g[p] = g[q] /\ k[p] < k[q])
  /\ \A i \in 1..n : \A j \in DOMAIN ss[i] : \E p \in DOMAIN t : g[p] = i /\ k[p] = j

LEMMA PlacedNext ==
  ASSUME NEW S, NEW ss \in Seq(Seq(S)), NEW n \in Nat, n + 1 \in 1..Len(ss),
         NEW t \in Seq(S), NEW g, NEW k, Placed(ss, n, t, g, k)
  PROVE  \E h, l : Placed(ss, n + 1, t \o ss[n + 1], h, l)
  <1>. DEFINE u == ss[n + 1]
              w == t \o u
              h == [p \in DOMAIN w |-> IF p \in DOMAIN t THEN g[p] ELSE n + 1]
              l == [p \in DOMAIN w |-> IF p \in DOMAIN t THEN k[p] ELSE p - Len(t)]
  <1>1. u \in Seq(S) /\ Len(t) \in Nat /\ Len(u) \in Nat /\ DOMAIN u = 1..Len(u)
        /\ DOMAIN t = 1..Len(t)
    BY LenProperties, ElementOfSeq
  <1>. HIDE DEF u
  <1>2. /\ DOMAIN w = 1..Len(t) + Len(u)
        /\ \A p \in DOMAIN w : w[p] = IF p <= Len(t) THEN t[p] ELSE u[p - Len(t)]
    BY <1>1, ConcatProperties, LenProperties
  <1>. HIDE DEF w
  <1>3. /\ g \in [DOMAIN t -> 1..n] /\ k \in [DOMAIN t -> Nat \ {0}]
        /\ \A p \in DOMAIN t : k[p] \in DOMAIN ss[g[p]] /\ t[p] = ss[g[p]][k[p]]
        /\ \A p, q \in DOMAIN t : p < q => g[p] < g[q] \/ (g[p] = g[q] /\ k[p] < k[q])
        /\ \A i \in 1..n : \A j \in DOMAIN ss[i] : \E p \in DOMAIN t : g[p] = i /\ k[p] = j
    BY DEF Placed
  <1>4. \A p \in DOMAIN t : p \in DOMAIN w /\ h[p] = g[p] /\ l[p] = k[p] /\ g[p] \in 1..n
                            /\ k[p] \in Nat \ {0} /\ w[p] = t[p]
    BY <1>1, <1>2, <1>3
  <1>5. \A p \in DOMAIN w \ DOMAIN t :
          h[p] = n + 1 /\ l[p] = p - Len(t) /\ l[p] \in DOMAIN u /\ w[p] = u[l[p]]
    BY <1>1, <1>2
  <1>6. h \in [DOMAIN w -> 1..n + 1] /\ l \in [DOMAIN w -> Nat \ {0}]
    <2>1. \A p \in DOMAIN w : h[p] \in 1..n + 1 /\ l[p] \in Nat \ {0}
      <3>. TAKE p \in DOMAIN w
      <3>. HIDE DEF h, l
      <3>1. CASE p \in DOMAIN t
        <4>1. h[p] = g[p] /\ l[p] = k[p] /\ g[p] \in 1..n /\ k[p] \in Nat \ {0}
          BY <1>4, <3>1
        <4>. QED BY <4>1
      <3>2. CASE p \notin DOMAIN t
        BY <1>1, <1>2, <1>5, <3>2
      <3>. QED BY <3>1, <3>2
    <2>. QED BY <2>1
  <1>. HIDE DEF h, l
  <1>7. ASSUME NEW p \in DOMAIN w PROVE l[p] \in DOMAIN ss[h[p]] /\ w[p] = ss[h[p]][l[p]]
    <2>1. CASE p \in DOMAIN t
      BY <1>3, <1>4, <2>1
    <2>2. CASE p \notin DOMAIN t
      BY <1>5, <2>2 DEF u
    <2>. QED BY <2>1, <2>2
  <1>8. ASSUME NEW p \in DOMAIN w, NEW q \in DOMAIN w, p < q
        PROVE  h[p] < h[q] \/ (h[p] = h[q] /\ l[p] < l[q])
    <2>1. CASE q \in DOMAIN t
      <3>1. p \in DOMAIN t
        BY <1>1, <1>2, <1>8, <2>1
      <3>. QED BY <1>3, <1>4, <1>8, <2>1, <3>1
    <2>2. CASE q \notin DOMAIN t /\ p \in DOMAIN t
      <3>1. h[p] = g[p] /\ g[p] \in 1..n /\ h[q] = n + 1
        BY <1>4, <1>5, <2>2
      <3>2. \A x \in 1..n : x < n + 1
        OBVIOUS
      <3>. QED BY <3>1, <3>2
    <2>3. CASE q \notin DOMAIN t /\ p \notin DOMAIN t
      BY <1>1, <1>2, <1>5, <1>8, <2>3
    <2>. QED BY <2>1, <2>2, <2>3
  <1>9. ASSUME NEW i \in 1..n + 1, NEW j \in DOMAIN ss[i]
        PROVE  \E p \in DOMAIN w : h[p] = i /\ l[p] = j
    <2>1. CASE i \in 1..n
      <3>1. PICK p \in DOMAIN t : g[p] = i /\ k[p] = j
        BY <1>3, <2>1
      <3>. QED BY <1>4, <3>1
    <2>2. CASE i = n + 1
      <3>1. j \in 1..Len(u)
        BY <1>1, <2>2 DEF u
      <3>2. Len(t) + j \in DOMAIN w \ DOMAIN t /\ (Len(t) + j) - Len(t) = j
        <4>1. Len(t) \in Nat /\ Len(u) \in Nat /\ j \in Nat /\ 1 <= j /\ j <= Len(u)
          BY <1>1, <3>1
        <4>2. /\ Len(t) + j \in 1..Len(t) + Len(u) /\ Len(t) + j \notin 1..Len(t)
              /\ (Len(t) + j) - Len(t) = j
          BY <4>1
        <4>3. DOMAIN w = 1..Len(t) + Len(u) /\ DOMAIN t = 1..Len(t)
          BY <1>1, <1>2
        <4>. QED BY <4>2, <4>3
      <3>. QED BY <1>5, <2>2, <3>2
    <2>. QED BY <2>1, <2>2
  <1>10. Placed(ss, n + 1, w, h, l)
    BY <1>6, <1>7, <1>8, <1>9 DEF Placed
  <1>. QED BY <1>10 DEF w, u

LEMMA FlattenPlaces ==
  ASSUME NEW S, NEW ss \in Seq(Seq(S))
  PROVE  /\ FlattenSeq(ss) \in Seq(S)
         /\ \E g, k : Placed(ss, Len(ss), FlattenSeq(ss), g, k)
  <1>0. Len(ss) \in Nat /\ \A i \in 1..Len(ss) : ss[i] \in Seq(S)
    BY LenProperties, ElementOfSeq
  <1>. DEFINE nowhere == [p \in {} |-> 0]
  <1>1. /\ <<>> \in Seq(S) /\ DOMAIN <<>> = {}
        /\ Placed(ss, 0, <<>>, nowhere, nowhere)
    <2>1. <<>> \in Seq(S) /\ Len(<<>>) = 0 /\ DOMAIN <<>> = 1..Len(<<>>)
      BY EmptySeq, LenProperties
    <2>2. DOMAIN <<>> = {}
      BY <2>1
    <2>. QED BY <2>1, <2>2 DEF Placed
  <1>2. CASE Len(ss) = 0
    <2>1. FlattenSeq(ss) = ss /\ ss = <<>>
      BY <1>2, EmptySeq DEF FlattenSeq
    <2>. QED BY <1>1, <1>2, <2>1
  <1>3. CASE Len(ss) # 0
    <2>1. PICK f \in [1..Len(ss) -> Seq(S)] :
            Chained(ss, Len(ss), f) /\ FlattenSeq(ss) = f[Len(ss)]
      BY <1>3, FlattenChained
    <2>. DEFINE At(n) == \E g, k : Placed(ss, n, f[n], g, k)
                H == {n \in 1..Len(ss) : ~At(n)}
    <2>2. H = {}
      <3>1. SUFFICES ASSUME H # {} PROVE FALSE
        OBVIOUS
      <3>2. H \in SUBSET Nat
        BY <1>0
      <3>3. PICK n \in H : \A m \in H : ~(m < n)
        BY <3>1, <3>2, LeastOf
      <3>4. n \in 1..Len(ss) /\ ~At(n)
        BY <3>3
      <3>5. CASE n = 1
        <4>1. ss[1] \in Seq(S) /\ f[1] = ss[1]
          BY <1>0, <2>1, <3>4, <3>5 DEF Chained
        <4>2. \E h, l : Placed(ss, 0 + 1, <<>> \o ss[0 + 1], h, l)
          <5>1. 0 \in Nat /\ 0 + 1 \in 1..Len(ss)
            BY <3>4, <3>5
          <5>. HIDE DEF nowhere
          <5>. QED BY <1>1, <5>1, PlacedNext
        <4>3. <<>> \o ss[1] = f[1] /\ 0 + 1 = 1
          BY <4>1, ConcatEmptySeq
        <4>. QED BY <3>4, <3>5, <4>2, <4>3
      <3>6. CASE n # 1
        <4>1. n - 1 \in 1..Len(ss) /\ n - 1 < n /\ n - 1 \in Nat /\ (n - 1) + 1 = n
          BY <1>0, <3>4, <3>6
        <4>2. At(n - 1)
          BY <3>3, <4>1
        <4>3. PICK g, k : Placed(ss, n - 1, f[n - 1], g, k)
          BY <4>2
        <4>4. f[n - 1] \in Seq(S) /\ f[n] = f[n - 1] \o ss[n]
          BY <2>1, <3>4, <3>6, <4>1 DEF Chained
        <4>5. \E h, l : Placed(ss, (n - 1) + 1, f[n - 1] \o ss[(n - 1) + 1], h, l)
          BY <3>4, <4>1, <4>3, <4>4, PlacedNext
        <4>. QED BY <3>4, <4>1, <4>4, <4>5
      <3>. QED BY <3>5, <3>6
    <2>3. Len(ss) \in 1..Len(ss)
      BY <1>0, <1>3
    <2>4. At(Len(ss))
      BY <2>2, <2>3
    <2>. QED BY <2>1, <2>3, <2>4
  <1>. QED BY <1>2, <1>3

-----------------------------------------------------------------------------
(* The messages of a log.                                                    *)

\* Results answer a call and make none, and a message of the user's role without
\* a summary makes a request.
Shape(m) ==
  /\ IsResult(m) <=> m.of # 0
  /\ IsResult(m) => m.calls = {}
  /\ m.role = "user" /\ ~m.summary => m.own # 0

LEMMA LogLimits ==
         /\ ProtectFirst \in Nat \ {0} /\ Slack \in Nat \ {0} /\ MinTail \in Nat \ {0}
         /\ MaxRequests \in Nat \ {0} /\ MaxCalls \in Nat \ {0} /\ MaxLog \in Nat \ {0}
  BY LogBoundAssumption

LEMMA MessageFields ==
  ASSUME NEW m \in Message
  PROVE  /\ m.role \in Roles /\ m.calls \in SUBSET Calls /\ 0 \notin m.calls
         /\ m.of \in Calls \cup {0} /\ IsFiniteSet(m.calls)
         /\ m.own \in Requests \cup {0} /\ m.quotes \in SUBSET Requests
  <1>1. /\ m.role \in Roles /\ m.calls \in SUBSET Calls /\ m.of \in Calls \cup {0}
        /\ m.own \in Requests \cup {0} /\ m.quotes \in SUBSET Requests
    BY DEF Message
  <1>2. MaxCalls \in Nat
    BY LogLimits
  <1>3. 0 \notin Calls
    BY <1>2 DEF Calls
  <1>4. IsFiniteSet(Calls)
    BY <1>2, FS_Interval DEF Calls
  <1>. QED BY <1>1, <1>3, <1>4, FS_Subset

LEMMA PlainType ==
  ASSUME NEW role \in Roles
  PROVE  /\ Plain(role) \in Message
         /\ Plain(role).role = role /\ Plain(role).calls = {} /\ Plain(role).of = 0
         /\ Plain(role).own = 0 /\ ~Plain(role).summary
  BY DEF Plain, Message

LEMMA ResultType ==
  ASSUME NEW c \in Calls
  PROVE  /\ Result(c) \in Message /\ IsResult(Result(c))
         /\ Result(c).of = c /\ c # 0 /\ Result(c).calls = {} /\ Shape(Result(c))
  <1>1. Plain("tool_result") \in Message
    BY PlainType DEF Roles
  <1>2. c # 0
    BY LogLimits DEF Calls
  <1>3. /\ Result(c) \in Message
        /\ Result(c).role = "tool_result" /\ Result(c).of = c /\ Result(c).calls = {}
    BY <1>1, PlainType DEF Result, Message, Roles
  <1>. QED BY <1>2, <1>3 DEF Shape, IsResult

LEMMA RequestType ==
  ASSUME NEW n \in Requests
  PROVE  /\ Request(n) \in Message /\ Shape(Request(n))
         /\ Request(n).of = 0 /\ Request(n).calls = {}
  <1>1. Plain("user") \in Message
    BY PlainType DEF Roles
  <1>2. n # 0
    BY LogLimits DEF Requests
  <1>3. /\ Request(n) \in Message /\ Request(n).role = "user"
        /\ Request(n).of = 0 /\ Request(n).calls = {} /\ Request(n).own = n
    BY <1>1, PlainType DEF Request, Message, Roles
  <1>. QED BY <1>2, <1>3 DEF Shape, IsResult

LEMMA ReplyType ==
  ASSUME NEW C \in SUBSET Calls, NEW text \in BOOLEAN
  PROVE  /\ Reply(C, text) \in Message /\ Shape(Reply(C, text))
         /\ Reply(C, text).of = 0 /\ Reply(C, text).calls = C
  <1>1. Plain("assistant") \in Message
    BY PlainType DEF Roles
  <1>2. /\ Reply(C, text) \in Message /\ Reply(C, text).role = "assistant"
        /\ Reply(C, text).of = 0 /\ Reply(C, text).calls = C
    BY <1>1, PlainType DEF Reply, Message, Roles
  <1>. QED BY <1>2 DEF Shape, IsResult

LEMMA SummaryType ==
  ASSUME NEW role \in {"user", "assistant"}, NEW quotes \in SUBSET Requests
  PROVE  /\ Summary(role, quotes) \in Message /\ Shape(Summary(role, quotes))
         /\ Summary(role, quotes).of = 0 /\ Summary(role, quotes).calls = {}
         /\ Summary(role, quotes).role = role /\ Summary(role, quotes).summary
         /\ Summary(role, quotes).own = 0 /\ Summary(role, quotes).quotes = quotes
  <1>. DEFINE m == Summary(role, quotes)
  <1>1. Plain(role) \in Message
    BY PlainType DEF Roles
  <1>2. /\ m \in Message /\ m.role = role /\ m.of = 0 /\ m.calls = {} /\ m.summary
        /\ m.own = 0 /\ m.quotes = quotes
    BY <1>1, PlainType DEF Summary, Message, Roles
  <1>. HIDE DEF m
  <1>3. Shape(m)
    BY <1>2 DEF Shape, IsResult
  <1>. QED BY <1>2, <1>3 DEF m

\* The results made up for calls: one for each.
LEMMA StubsType ==
  ASSUME NEW C \in SUBSET Calls
  PROVE  /\ Stubs(C) \in Seq(Message) /\ Len(Stubs(C)) = Cardinality(C)
         /\ \A j \in DOMAIN Stubs(C) : \E c \in C : Stubs(C)[j] = Result(c)
         /\ \A c \in C : \E j \in DOMAIN Stubs(C) : Stubs(C)[j] = Result(c)
         /\ \A i, j \in DOMAIN Stubs(C) : Stubs(C)[i].of = Stubs(C)[j].of => i = j
  <1>. DEFINE n == Cardinality(C)
              f == SetToSeq(C)
              t == Stubs(C)
  <1>1. IsFiniteSet(C)
    <2>1. IsFiniteSet(Calls)
      BY LogLimits, FS_Interval DEF Calls
    <2>. QED BY <2>1, FS_Subset
  <1>2. n \in Nat
    BY <1>1, FS_CardinalityType
  <1>3. PICK h \in Bijection(1..n, C) : TRUE
    BY <1>1, FS_CardinalityType DEF ExistsBijection
  <1>4. h \in [1..n -> C] /\ IsInjective(h)
    BY <1>3 DEF Bijection, Injection, IsInjective
  <1>5. f \in [1..n -> C] /\ IsInjective(f)
    BY <1>4 DEF SetToSeq
  <1>6. f \in Injection(1..n, C)
    BY <1>5 DEF Injection, IsInjective
  <1>7. Cardinality(1..n) = n
    BY <1>2, FS_Interval
  <1>8. f \in Surjection(1..n, C)
    BY <1>1, <1>6, <1>7, FS_Injection
  <1>9. \A c \in C : \E j \in 1..n : f[j] = c
    BY <1>8 DEF Surjection
  <1>. HIDE DEF f
  <1>10. t = [j \in 1..n |-> Result(f[j])]
    BY Zenon DEF Stubs, f
  <1>. HIDE DEF t
  <1>11. \A j \in 1..n : f[j] \in C /\ t[j] = Result(f[j]) /\ t[j] \in Message /\ t[j].of = f[j]
    BY <1>5, <1>10, ResultType
  <1>12. t \in [1..n -> Message]
    BY <1>10, <1>11
  <1>13. t \in Seq(Message) /\ Len(t) = n /\ DOMAIN t = 1..n
    BY <1>2, <1>12
  <1>14. \A i, j \in DOMAIN t : t[i].of = t[j].of => i = j
    BY <1>5, <1>11, <1>13 DEF IsInjective
  <1>. QED BY <1>9, <1>11, <1>13, <1>14 DEF t

-----------------------------------------------------------------------------
(* Sound logs, and what is made of them.                                     *)

\* No call is made twice or answered twice, and between a call and its result
\* there are only results.  A call may wait for its result, and a result may have
\* lost its call.
Sound(s) ==
  /\ s \in Seq(Message)
  /\ \A i \in DOMAIN s : Shape(s[i])
  /\ \A i, j \in DOMAIN s : s[i].calls \cap s[j].calls # {} => i = j
  /\ \A i, j \in DOMAIN s : s[i].of = s[j].of /\ s[i].of # 0 => i = j
  /\ \A i, j \in DOMAIN s : s[i].of \in s[j].calls =>
       j < i /\ \A l \in j + 1..i : IsResult(s[l])

LEMMA SoundSeq ==
  ASSUME NEW s, Sound(s)
  PROVE  /\ s \in Seq(Message) /\ Len(s) \in Nat /\ DOMAIN s = 1..Len(s)
         /\ \A i \in DOMAIN s : s[i] \in Message /\ Shape(s[i])
  <1>1. s \in Seq(Message) /\ \A i \in DOMAIN s : Shape(s[i])
    BY DEF Sound
  <1>. QED BY <1>1, LenProperties, ElementOfSeq

\* The place p of t holds the message of s at g[p], a message that was put at a
\* place where s has no result, or a result made up for a call of the message at
\* g[p] that has none.
Copied(s, t, g, p) == g[p] \in DOMAIN s /\ t[p] = s[g[p]]
Put(s, t, g, p) ==
  /\ t[p].calls = {} /\ t[p].of = 0
  /\ g[p] \in DOMAIN s => ~IsResult(s[g[p]])
MadeUp(s, t, g, p) ==
  g[p] \in DOMAIN s /\ \E c \in s[g[p]].calls \ Answered(s) : t[p] = Result(c)

\* t keeps the order of s, and results that are made up stand behind their call.
Derived(s, t, g) ==
  /\ g \in [DOMAIN t -> Nat]
  /\ \A p \in DOMAIN t : Copied(s, t, g, p) \/ Put(s, t, g, p) \/ MadeUp(s, t, g, p)
  /\ \A p, q \in DOMAIN t : p < q =>
       g[p] < g[q] \/ (g[p] = g[q] /\ MadeUp(s, t, g, q) /\ t[p].of # t[q].of)

LEMMA CalledAnswered ==
  ASSUME NEW s
  PROVE  /\ \A i \in DOMAIN s : s[i].calls \subseteq Called(s)
         /\ \A c \in Called(s) : \E i \in DOMAIN s : c \in s[i].calls
         /\ \A i \in DOMAIN s : s[i].of # 0 => s[i].of \in Answered(s)
         /\ \A c \in Answered(s) : c # 0 /\ \E i \in DOMAIN s : c = s[i].of
  BY DEF Called, Answered

\* A result that is made up answers its call, and makes none.
LEMMA MadeUpResult ==
  ASSUME NEW s, Sound(s), NEW t, NEW g, NEW p \in DOMAIN t, MadeUp(s, t, g, p)
  PROVE  /\ g[p] \in DOMAIN s /\ t[p].of \in s[g[p]].calls /\ t[p].of \notin Answered(s)
         /\ t[p].of # 0 /\ t[p].calls = {} /\ IsResult(t[p]) /\ Shape(t[p])
         /\ s[g[p]].of = 0
  <1>1. PICK c \in s[g[p]].calls \ Answered(s) : t[p] = Result(c)
    BY DEF MadeUp
  <1>2. g[p] \in DOMAIN s /\ s \in Seq(Message)
    BY DEF MadeUp, Sound
  <1>3. s[g[p]] \in Message
    BY <1>2, LenProperties, ElementOfSeq
  <1>4. c \in Calls
    BY <1>1, <1>3, MessageFields
  <1>5. t[p].of = c /\ c # 0 /\ t[p].calls = {} /\ IsResult(t[p]) /\ Shape(t[p])
    BY <1>1, <1>4, ResultType
  <1>6. Shape(s[g[p]]) /\ s[g[p]].calls # {}
    BY <1>1, <1>2 DEF Sound
  <1>7. s[g[p]].of = 0
    BY <1>6 DEF Shape
  <1>. QED BY <1>1, <1>2, <1>5, <1>7

\* Order, pairs and shape outlive whatever is derived so.
LEMMA DerivedSound ==
  ASSUME NEW s, Sound(s), NEW t \in Seq(Message), NEW g, Derived(s, t, g),
         \A p \in DOMAIN t : Put(s, t, g, p) => Shape(t[p])
  PROVE  /\ Sound(t)
         /\ Called(t) \subseteq Called(s)
         /\ Answered(t) \subseteq Answered(s) \cup Called(s)
  <1>0. /\ DOMAIN t = 1..Len(t) /\ Len(t) \in Nat /\ DOMAIN s = 1..Len(s) /\ Len(s) \in Nat
        /\ s \in Seq(Message)
        /\ \A i \in DOMAIN s : s[i] \in Message /\ Shape(s[i])
        /\ \A p \in DOMAIN t : t[p] \in Message
    <2>1. s \in Seq(Message) /\ \A i \in DOMAIN s : Shape(s[i])
      BY DEF Sound
    <2>. QED BY <2>1, LenProperties, ElementOfSeq
  <1>1. /\ \A i, j \in DOMAIN s : s[i].calls \cap s[j].calls # {} => i = j
        /\ \A i, j \in DOMAIN s : s[i].of = s[j].of /\ s[i].of # 0 => i = j
        /\ \A i, j \in DOMAIN s : s[i].of \in s[j].calls =>
             j < i /\ \A l \in j + 1..i : IsResult(s[l])
    BY DEF Sound
  <1>2. /\ \A p \in DOMAIN t : g[p] \in Nat
        /\ \A p \in DOMAIN t : Copied(s, t, g, p) \/ Put(s, t, g, p) \/ MadeUp(s, t, g, p)
        /\ \A p, q \in DOMAIN t : p < q =>
             g[p] < g[q] \/ (g[p] = g[q] /\ MadeUp(s, t, g, q) /\ t[p].of # t[q].of)
    BY DEF Derived
  <1>made. \A p \in DOMAIN t : MadeUp(s, t, g, p) =>
             /\ g[p] \in DOMAIN s /\ t[p].of \in s[g[p]].calls /\ t[p].of \notin Answered(s)
             /\ t[p].of # 0 /\ t[p].calls = {} /\ IsResult(t[p]) /\ Shape(t[p])
             /\ s[g[p]].of = 0
    BY MadeUpResult
  \* Who makes a call is copied, and who answers one is copied or made up.
  <1>calls. \A p \in DOMAIN t : t[p].calls # {} => Copied(s, t, g, p) /\ ~MadeUp(s, t, g, p)
    BY <1>2, <1>made DEF Put
  <1>of. \A p \in DOMAIN t : t[p].of # 0 => Copied(s, t, g, p) \/ MadeUp(s, t, g, p)
    BY <1>2 DEF Put
  <1>3. ASSUME NEW p \in DOMAIN t PROVE Shape(t[p])
    BY <1>0, <1>2, <1>made DEF Copied
  <1>4. ASSUME NEW p \in DOMAIN t, NEW q \in DOMAIN t, t[p].calls \cap t[q].calls # {} PROVE p = q
    <2>1. /\ Copied(s, t, g, p) /\ ~MadeUp(s, t, g, p)
          /\ Copied(s, t, g, q) /\ ~MadeUp(s, t, g, q)
      BY <1>4, <1>calls
    <2>2. g[p] = g[q]
      BY <1>1, <1>4, <2>1 DEF Copied
    <2>3. ~(p < q) /\ ~(q < p)
      BY <1>2, <2>1, <2>2
    <2>. QED BY <1>0, <2>3
  <1>5. ASSUME NEW p \in DOMAIN t, NEW q \in DOMAIN t, t[p].of = t[q].of, t[p].of # 0, p < q
        PROVE  FALSE
    <2>0. g[p] < g[q]
      BY <1>2, <1>5
    <2>1. CASE Copied(s, t, g, p) /\ Copied(s, t, g, q)
      <3>1. g[p] = g[q]
        BY <1>1, <1>5, <2>1 DEF Copied
      <3>. QED BY <1>2, <2>0, <3>1
    <2>2. CASE Copied(s, t, g, p) /\ MadeUp(s, t, g, q)
      <3>1. t[p].of \in Answered(s)
        BY <1>5, <2>2, CalledAnswered DEF Copied
      <3>. QED BY <1>5, <1>made, <2>2, <3>1
    <2>3. CASE MadeUp(s, t, g, p) /\ Copied(s, t, g, q)
      <3>1. t[q].of \in Answered(s)
        BY <1>5, <2>3, CalledAnswered DEF Copied
      <3>. QED BY <1>5, <1>made, <2>3, <3>1
    <2>4. CASE MadeUp(s, t, g, p) /\ MadeUp(s, t, g, q)
      <3>1. t[p].of \in s[g[p]].calls /\ t[p].of \in s[g[q]].calls
        BY <1>5, <1>made, <2>4
      <3>2. g[p] = g[q]
        BY <1>1, <1>made, <2>4, <3>1
      <3>. QED BY <1>2, <2>0, <3>2
    <2>. QED BY <1>5, <1>of, <2>1, <2>2, <2>3, <2>4
  <1>6. ASSUME NEW p \in DOMAIN t, NEW q \in DOMAIN t, t[p].of \in t[q].calls
        PROVE  q < p /\ \A r \in q + 1..p : IsResult(t[r])
    <2>1. Copied(s, t, g, q) /\ ~MadeUp(s, t, g, q) /\ t[q] = s[g[q]] /\ g[q] \in DOMAIN s
      BY <1>6, <1>calls DEF Copied
    <2>2. t[p].of # 0
      BY <1>0, <1>6, MessageFields
    \* No place behind q holds what comes of g[q], unless it is made up.
    <2>3. CASE MadeUp(s, t, g, p)
      <3>1. g[p] = g[q]
        BY <1>1, <1>6, <1>made, <2>1, <2>3
      <3>2. q # p
        BY <2>1, <2>3
      <3>3. ~(p < q)
        BY <1>2, <2>1, <3>1
      <3>4. q < p
        BY <1>0, <3>2, <3>3
      <3>5. ASSUME NEW r \in q + 1..p PROVE IsResult(t[r])
        <4>1. r \in DOMAIN t /\ q < r /\ (r < p \/ r = p)
          BY <1>0, <3>5
        <4>2. g[q] \in Nat /\ g[r] \in Nat /\ g[p] \in Nat
          BY <1>2, <4>1
        <4>3. g[r] <= g[p]
          BY <1>2, <4>1, <4>2
        <4>4. MadeUp(s, t, g, r)
          BY <1>2, <3>1, <4>1, <4>2, <4>3
        <4>. QED BY <1>made, <4>1, <4>4
      <3>. QED BY <3>4, <3>5
    <2>4. CASE Copied(s, t, g, p)
      <3>1. g[p] \in DOMAIN s /\ t[p] = s[g[p]]
        BY <2>4 DEF Copied
      <3>2. g[q] < g[p] /\ \A l \in g[q] + 1..g[p] : IsResult(s[l])
        BY <1>1, <1>6, <2>1, <3>1
      <3>3. q # p /\ ~(p < q)
        BY <1>2, <3>2
      <3>4. q < p
        BY <1>0, <3>3
      <3>5. ASSUME NEW r \in q + 1..p PROVE IsResult(t[r])
        <4>1. r \in DOMAIN t /\ q < r /\ (r < p \/ r = p)
          BY <1>0, <3>5
        <4>2. g[q] \in Nat /\ g[r] \in Nat /\ g[p] \in Nat
          BY <1>2, <4>1
        <4>3. g[r] <= g[p]
          BY <1>2, <4>1, <4>2
        <4>4. CASE MadeUp(s, t, g, r)
          BY <1>made, <4>1, <4>4
        <4>5. CASE ~MadeUp(s, t, g, r)
          <5>1. g[q] < g[r]
            BY <1>2, <4>1, <4>5
          <5>2. g[r] \in g[q] + 1..g[p]
            BY <4>2, <4>3, <5>1
          <5>3. IsResult(s[g[r]])
            BY <3>2, <5>2
          <5>4. g[r] \in DOMAIN s
            BY <1>0, <2>1, <3>1, <5>2
          <5>5. Copied(s, t, g, r)
            BY <1>2, <4>1, <4>5, <5>3, <5>4 DEF Put
          <5>. QED BY <5>3, <5>5 DEF Copied
        <4>. QED BY <4>4, <4>5
      <3>. QED BY <3>4, <3>5
    <2>. QED BY <1>of, <2>2, <2>3, <2>4
  <1>7. Sound(t)
    <2>1. \A p, q \in DOMAIN t : t[p].of = t[q].of /\ t[p].of # 0 => p = q
      <3>1. \A p, q \in DOMAIN t : t[p].of = t[q].of /\ t[p].of # 0 => ~(p < q) /\ ~(q < p)
        BY <1>5
      <3>. QED BY <1>0, <3>1
    <2>. QED BY <1>3, <1>4, <1>6, <2>1 DEF Sound
  <1>8. ASSUME NEW c \in Called(t) PROVE c \in Called(s)
    <2>1. PICK p \in DOMAIN t : c \in t[p].calls
      BY CalledAnswered
    <2>2. Copied(s, t, g, p)
      BY <1>calls, <2>1
    <2>. QED BY <2>1, <2>2, CalledAnswered DEF Copied
  <1>9. ASSUME NEW c \in Answered(t) PROVE c \in Answered(s) \cup Called(s)
    <2>1. PICK p \in DOMAIN t : c = t[p].of /\ c # 0
      BY CalledAnswered
    <2>2. CASE Copied(s, t, g, p)
      BY <2>1, <2>2, CalledAnswered DEF Copied
    <2>3. CASE MadeUp(s, t, g, p)
      BY <1>made, <2>1, <2>3, CalledAnswered
    <2>. QED BY <1>of, <2>1, <2>2, <2>3
  <1>. QED BY <1>7, <1>8, <1>9

\* t keeps the messages of s that are not gone, in their order, and has results that
\* are made up besides.
Grown(s, t, gone) ==
  \E g : /\ Derived(s, t, g)
         /\ \A p \in DOMAIN t : Copied(s, t, g, p) \/ MadeUp(s, t, g, p)
         /\ \A i \in DOMAIN s : i \notin gone => \E p \in DOMAIN t : g[p] = i /\ t[p] = s[i]

\* Every message of s is dropped or kept, with results behind it that are made up.
LEMMA Expanded ==
  ASSUME NEW s, Sound(s), NEW ss \in [DOMAIN s -> Seq(Message)],
         \A i \in DOMAIN s : ss[i] # <<>> => ss[i][1] = s[i],
         \A i \in DOMAIN s : \A j \in DOMAIN ss[i] : j # 1 =>
           \E c \in s[i].calls \ Answered(s) : ss[i][j] = Result(c),
         \A i \in DOMAIN s : \A j, l \in DOMAIN ss[i] :
           j # 1 /\ l # 1 /\ ss[i][j].of = ss[i][l].of => j = l
  PROVE  /\ Sound(FlattenSeq(ss))
         /\ Called(FlattenSeq(ss)) \subseteq Called(s)
         /\ Answered(FlattenSeq(ss)) \subseteq Answered(s) \cup Called(s)
         /\ \A p \in DOMAIN FlattenSeq(ss) :
              \E i \in DOMAIN s : \E j \in DOMAIN ss[i] : FlattenSeq(ss)[p] = ss[i][j]
         /\ \A i \in DOMAIN s : \A j \in DOMAIN ss[i] :
              \E p \in DOMAIN FlattenSeq(ss) : FlattenSeq(ss)[p] = ss[i][j]
         /\ 1 \in DOMAIN s /\ ss[1] # <<>> => FlattenSeq(ss) # <<>> /\ FlattenSeq(ss)[1] = s[1]
         /\ \A gone : (\A i \in DOMAIN s : i \notin gone => ss[i] # <<>>) => Grown(s, FlattenSeq(ss), gone)
  <1>. DEFINE t == FlattenSeq(ss)
  <1>1. s \in Seq(Message) /\ Len(s) \in Nat /\ DOMAIN s = 1..Len(s)
    BY LenProperties DEF Sound
  <1>2. ss \in Seq(Seq(Message)) /\ Len(ss) = Len(s)
    BY <1>1
  <1>3. t \in Seq(Message) /\ \E g, k : Placed(ss, Len(s), t, g, k)
    BY <1>2, FlattenPlaces
  <1>. HIDE DEF t
  <1>. PICK g, k : Placed(ss, Len(s), t, g, k)
    BY <1>3
  <1>4. /\ g \in [DOMAIN t -> DOMAIN s] /\ k \in [DOMAIN t -> Nat \ {0}]
        /\ \A p \in DOMAIN t : k[p] \in DOMAIN ss[g[p]] /\ t[p] = ss[g[p]][k[p]]
        /\ \A p, q \in DOMAIN t : p < q => g[p] < g[q] \/ (g[p] = g[q] /\ k[p] < k[q])
        /\ \A i \in DOMAIN s : \A j \in DOMAIN ss[i] : \E p \in DOMAIN t : g[p] = i /\ k[p] = j
    BY <1>1 DEF Placed
  <1>5. DOMAIN t = 1..Len(t) /\ Len(t) \in Nat
    BY <1>3, LenProperties
  <1>6. \A p \in DOMAIN t : k[p] = 1 => Copied(s, t, g, p)
    <2>. SUFFICES ASSUME NEW p \in DOMAIN t, k[p] = 1 PROVE Copied(s, t, g, p)
      OBVIOUS
    <2>1. g[p] \in DOMAIN s /\ 1 \in DOMAIN ss[g[p]] /\ t[p] = ss[g[p]][1]
      BY <1>4
    <2>2. ss[g[p]] # <<>>
      BY <2>1, EmptySeq
    <2>. QED BY <2>1, <2>2 DEF Copied
  <1>7. \A p \in DOMAIN t : k[p] # 1 => MadeUp(s, t, g, p)
    BY <1>4 DEF MadeUp
  <1>8. \A p \in DOMAIN t : g[p] \in Nat
    BY <1>1, <1>4
  <1>9. ASSUME NEW p \in DOMAIN t, NEW q \in DOMAIN t, p < q
        PROVE  g[p] < g[q] \/ (g[p] = g[q] /\ MadeUp(s, t, g, q) /\ t[p].of # t[q].of)
    <2>1. CASE g[p] < g[q]
      BY <2>1
    <2>2. CASE g[p] = g[q] /\ k[p] < k[q]
      <3>1. k[q] # 1 /\ k[p] # k[q]
        BY <1>4, <2>2
      <3>2. MadeUp(s, t, g, q)
        BY <1>7, <3>1
      <3>3. CASE k[p] = 1
        <4>1. t[p] = s[g[q]]
          BY <1>6, <2>2, <3>3 DEF Copied
        <4>. QED BY <2>2, <3>2, <4>1, MadeUpResult
      <3>4. CASE k[p] # 1
        <4>1. /\ g[q] \in DOMAIN s /\ k[p] \in DOMAIN ss[g[q]] /\ k[q] \in DOMAIN ss[g[q]]
              /\ t[p] = ss[g[q]][k[p]] /\ t[q] = ss[g[q]][k[q]]
          BY <1>4, <2>2
        <4>2. t[p].of # t[q].of
          BY <3>1, <3>4, <4>1
        <4>. QED BY <2>2, <3>2, <4>2
      <3>. QED BY <3>3, <3>4
    <2>. QED BY <1>4, <1>9, <2>1, <2>2
  <1>10. Derived(s, t, g)
    <2>1. g \in [DOMAIN t -> Nat]
      BY <1>4, <1>8
    <2>. QED BY <1>6, <1>7, <1>9, <2>1 DEF Derived
  <1>11. \A p \in DOMAIN t : Shape(t[p])
    <2>. TAKE p \in DOMAIN t
    <2>1. CASE k[p] = 1
      BY <1>6, <2>1 DEF Copied, Sound
    <2>2. CASE k[p] # 1
      BY <1>7, <2>2, MadeUpResult
    <2>. QED BY <2>1, <2>2
  <1>12. /\ Sound(t) /\ Called(t) \subseteq Called(s)
         /\ Answered(t) \subseteq Answered(s) \cup Called(s)
    BY <1>3, <1>10, <1>11, DerivedSound
  <1>13. ASSUME 1 \in DOMAIN s, ss[1] # <<>> PROVE t # <<>> /\ t[1] = s[1]
    <2>1. ss[1] \in Seq(Message)
      BY <1>13
    <2>2. 1 \in DOMAIN ss[1]
      BY <1>13, <2>1, EmptySeq, LenProperties
    <2>3. PICK p \in DOMAIN t : g[p] = 1 /\ k[p] = 1
      BY <1>4, <1>13, <2>2
    <2>4. t[p] = s[1]
      BY <1>6, <2>3 DEF Copied
    <2>5. p = 1
      <3>1. SUFFICES ASSUME p # 1 PROVE FALSE
        OBVIOUS
      <3>2. 1 \in DOMAIN t /\ 1 < p
        BY <1>5, <3>1
      <3>3. g[1] < 1 \/ k[1] < 1
        BY <1>4, <2>3, <3>2
      <3>4. g[1] \in 1..Len(s) /\ k[1] \in Nat \ {0}
        BY <1>1, <1>4, <3>2
      <3>. QED BY <3>3, <3>4
    <2>6. t # <<>>
      BY <1>3, <1>5, EmptySeq
    <2>. QED BY <2>4, <2>5, <2>6
  <1>14. \A p \in DOMAIN t : \E i \in DOMAIN s : \E j \in DOMAIN ss[i] : t[p] = ss[i][j]
    BY <1>4
  <1>15. \A i \in DOMAIN s : \A j \in DOMAIN ss[i] : \E p \in DOMAIN t : t[p] = ss[i][j]
    BY <1>4
  <1>16. ASSUME NEW gone, \A i \in DOMAIN s : i \notin gone => ss[i] # <<>>
         PROVE  Grown(s, t, gone)
    <2>1. \A p \in DOMAIN t : Copied(s, t, g, p) \/ MadeUp(s, t, g, p)
      BY <1>6, <1>7
    <2>2. ASSUME NEW i \in DOMAIN s, i \notin gone
          PROVE  \E p \in DOMAIN t : g[p] = i /\ t[p] = s[i]
      <3>0. ss[i] # <<>>
        BY <1>16, <2>2
      <3>1. ss[i] \in Seq(Message)
        OBVIOUS
      <3>2. 1 \in DOMAIN ss[i]
        BY <3>0, <3>1, EmptySeq, LenProperties
      <3>3. PICK p \in DOMAIN t : g[p] = i /\ k[p] = 1
        BY <1>4, <3>2
      <3>. QED BY <1>6, <3>3 DEF Copied
    <2>. QED BY <1>10, <2>1, <2>2 DEF Grown
  <1>. QED BY <1>12, <1>13, <1>14, <1>15, <1>16 DEF t

\* Messages are dropped.
LEMMA WithoutSound ==
  ASSUME NEW s, Sound(s), NEW gone
  PROVE  /\ Sound(Without(s, gone))
         /\ Called(Without(s, gone)) \subseteq Called(s)
         /\ Answered(Without(s, gone)) \subseteq Answered(s) \cup Called(s)
         /\ 1 \in DOMAIN s /\ 1 \notin gone =>
              Without(s, gone) # <<>> /\ Without(s, gone)[1] = s[1]
         /\ Grown(s, Without(s, gone), gone)
  <1>. DEFINE ss == [i \in DOMAIN s |-> IF i \in gone THEN <<>> ELSE <<s[i]>>]
  <1>1. s \in Seq(Message) /\ \A i \in DOMAIN s : s[i] \in Message
    BY LenProperties, ElementOfSeq DEF Sound
  <1>2. Without(s, gone) = FlattenSeq(ss)
    BY Zenon DEF Without
  <1>3. \A i \in DOMAIN s : /\ ss[i] \in Seq(Message)
                            /\ ss[i] # <<>> => ss[i][1] = s[i]
                            /\ \A j \in DOMAIN ss[i] : j = 1
                            /\ i \notin gone => ss[i] # <<>>
    <2>. TAKE i \in DOMAIN s
    <2>1. CASE i \in gone
      <3>1. ss[i] = <<>>
        BY <2>1
      <3>. QED BY <2>1, <3>1
    <2>2. CASE i \notin gone
      <3>1. ss[i] = <<s[i]>>
        BY <2>2
      <3>. QED BY <1>1, <3>1
    <2>. QED BY <2>1, <2>2
  <1>4. ss \in [DOMAIN s -> Seq(Message)]
    BY <1>3
  <1>. HIDE DEF ss
  <1>5. \A i \in DOMAIN s : \A j, l \in DOMAIN ss[i] : j = 1 /\ l = 1
    BY <1>3
  <1>. QED BY <1>2, <1>3, <1>4, <1>5, Expanded

\* Each call has a result, and each result its call.
Whole(s) == Called(s) = Answered(s)

\* sanitize_tool_pairs keeps a log sound, and makes it whole.
LEMMA SanitizedWhole ==
  ASSUME NEW s, Sound(s), s # <<>>, s[1].role = "system"
  PROVE  /\ Sound(Sanitized(s)) /\ Whole(Sanitized(s))
         /\ Called(Sanitized(s)) \subseteq Called(s)
         /\ Sanitized(s) # <<>> /\ Sanitized(s)[1] = s[1]
         /\ Grown(s, Sanitized(s), Orphans(s))
  <1>. DEFINE gone == Orphans(s)
              missing(i) == s[i].calls \ Answered(s)
              kept(i) == <<s[i]>> \o Stubs(missing(i))
              ss == [i \in DOMAIN s |-> IF i \in gone THEN <<>> ELSE kept(i)]
              t == FlattenSeq(ss)
  <1>1. /\ s \in Seq(Message) /\ Len(s) \in Nat /\ DOMAIN s = 1..Len(s) /\ 1 \in DOMAIN s
        /\ \A i \in DOMAIN s : s[i] \in Message /\ Shape(s[i])
    <2>1. s \in Seq(Message) /\ \A i \in DOMAIN s : Shape(s[i])
      BY DEF Sound
    <2>. QED BY <2>1, EmptySeq, LenProperties, ElementOfSeq
  <1>2. Sanitized(s) = t
    BY Zenon DEF Sanitized
  <1>gone. \A i \in DOMAIN s : i \in gone <=> s[i].of # 0 /\ s[i].of \notin Called(s)
    BY DEF Orphans
  <1>. HIDE DEF gone
  <1>3. \A i \in DOMAIN s :
          /\ Stubs(missing(i)) \in Seq(Message)
          /\ \A j \in DOMAIN Stubs(missing(i)) :
               \E c \in missing(i) : Stubs(missing(i))[j] = Result(c)
          /\ \A c \in missing(i) :
               \E j \in DOMAIN Stubs(missing(i)) : Stubs(missing(i))[j] = Result(c)
          /\ \A j, l \in DOMAIN Stubs(missing(i)) :
               Stubs(missing(i))[j].of = Stubs(missing(i))[l].of => j = l
    <2>. TAKE i \in DOMAIN s
    <2>1. missing(i) \in SUBSET Calls
      BY <1>1, MessageFields
    <2>. QED BY <2>1, StubsType
  <1>4. ASSUME NEW i \in DOMAIN s
        PROVE  /\ kept(i) \in Seq(Message) /\ kept(i)[1] = s[i] /\ 1 \in DOMAIN kept(i)
               /\ \A j \in DOMAIN kept(i) : j # 1 =>
                    /\ j - 1 \in DOMAIN Stubs(missing(i))
                    /\ kept(i)[j] = Stubs(missing(i))[j - 1]
               /\ \A j \in DOMAIN Stubs(missing(i)) :
                    j + 1 \in DOMAIN kept(i) /\ kept(i)[j + 1] = Stubs(missing(i))[j]
    <2>. DEFINE u == Stubs(missing(i))
    <2>1. /\ u \in Seq(Message) /\ Len(u) \in Nat /\ DOMAIN u = 1..Len(u)
          /\ <<s[i]>> \in Seq(Message) /\ Len(<<s[i]>>) = 1 /\ <<s[i]>>[1] = s[i]
      BY <1>1, <1>3, LenProperties
    <2>. HIDE DEF u
    <2>2. /\ <<s[i]>> \o u \in Seq(Message)
          /\ Len(<<s[i]>> \o u) = 1 + Len(u)
          /\ \A j \in 1..1 + Len(u) :
               (<<s[i]>> \o u)[j] = IF j <= 1 THEN <<s[i]>>[j] ELSE u[j - 1]
      BY <2>1, ConcatProperties
    <2>. DEFINE w == <<s[i]>> \o u
    <2>3. DOMAIN w = 1..1 + Len(u)
      BY <2>2, LenProperties
    <2>. HIDE DEF w
    <2>4. \A j \in DOMAIN w : j # 1 => j - 1 \in DOMAIN u /\ w[j] = u[j - 1]
      BY <2>1, <2>2, <2>3 DEF w
    <2>5. \A j \in DOMAIN u : j + 1 \in DOMAIN w /\ w[j + 1] = u[j]
      <3>. TAKE j \in DOMAIN u
      <3>1. j + 1 \in 1..1 + Len(u) /\ ~(j + 1 <= 1) /\ (j + 1) - 1 = j
        BY <2>1
      <3>. QED BY <2>2, <2>3, <3>1 DEF w
    <2>6. w \in Seq(Message) /\ w[1] = s[i] /\ 1 \in DOMAIN w
      BY <2>1, <2>2, <2>3 DEF w
    <2>. QED BY <2>4, <2>5, <2>6 DEF w, u
  <1>. HIDE DEF kept
  <1>5. \A i \in DOMAIN s : ss[i] = IF i \in gone THEN <<>> ELSE kept(i)
    OBVIOUS
  <1>6. ss \in [DOMAIN s -> Seq(Message)]
    BY <1>4, EmptySeq
  <1>. HIDE DEF ss, t
  <1>7. \A i \in DOMAIN s : i \notin gone => 1 \in DOMAIN ss[i] /\ ss[i][1] = s[i]
    BY <1>4, <1>5
  <1>8. DOMAIN <<>> = {}
    BY EmptySeq, LenProperties
  <1>9. \A i \in DOMAIN s : ss[i] # <<>> => ss[i][1] = s[i]
    BY <1>5, <1>7
  <1>10. \A i \in DOMAIN s : \A j \in DOMAIN ss[i] :
           /\ i \notin gone
           /\ j # 1 => /\ j - 1 \in DOMAIN Stubs(missing(i))
                       /\ ss[i][j] = Stubs(missing(i))[j - 1]
    BY <1>4, <1>5, <1>8
  <1>11. \A i \in DOMAIN s : \A j \in DOMAIN ss[i] : j # 1 =>
           \E c \in missing(i) : ss[i][j] = Result(c)
    <2>. TAKE i \in DOMAIN s
    <2>. TAKE j \in DOMAIN ss[i]
    <2>. HAVE j # 1
    <2>1. /\ j - 1 \in DOMAIN Stubs(missing(i))
          /\ ss[i][j] = Stubs(missing(i))[j - 1]
      BY <1>10
    <2>. QED BY <1>3, <2>1
  <1>12. ASSUME NEW i \in DOMAIN s, NEW j \in DOMAIN ss[i], NEW l \in DOMAIN ss[i],
                j # 1, l # 1, ss[i][j].of = ss[i][l].of
         PROVE  j = l
    <2>0. /\ j - 1 \in DOMAIN Stubs(missing(i)) /\ l - 1 \in DOMAIN Stubs(missing(i))
          /\ ss[i][j] = Stubs(missing(i))[j - 1] /\ ss[i][l] = Stubs(missing(i))[l - 1]
      BY <1>10, <1>12
    <2>1. j - 1 = l - 1
      BY <1>3, <1>12, <2>0
    <2>2. j \in Int /\ l \in Int
      <3>1. ss[i] \in Seq(Message)
        BY <1>6
      <3>. QED BY <3>1, LenProperties
    <2>. QED BY <2>1, <2>2
  <1>keeps. \A i \in DOMAIN s : i \notin gone => ss[i] # <<>>
    BY <1>7, <1>8
  <1>13. /\ Sound(t)
         /\ Called(t) \subseteq Called(s)
         /\ \A p \in DOMAIN t : \E i \in DOMAIN s : \E j \in DOMAIN ss[i] : t[p] = ss[i][j]
         /\ \A i \in DOMAIN s : \A j \in DOMAIN ss[i] : \E p \in DOMAIN t : t[p] = ss[i][j]
         /\ 1 \in DOMAIN s /\ ss[1] # <<>> => t # <<>> /\ t[1] = s[1]
         /\ Grown(s, t, gone)
    BY <1>6, <1>9, <1>11, <1>12, <1>keeps, Expanded DEF t
  <1>calls. \A i \in DOMAIN s : s[i].calls # {} => i \notin gone
    BY <1>1, <1>gone DEF Shape
  <1>14. ASSUME NEW c \in Called(t) PROVE c \in Answered(t)
    <2>0. c \in Called(s)
      BY <1>13
    <2>1. CASE c \in Answered(s)
      <3>1. PICK i \in DOMAIN s : c = s[i].of /\ c # 0
        BY <2>1, CalledAnswered
      <3>2. i \notin gone
        BY <1>gone, <2>0, <3>1
      <3>3. PICK p \in DOMAIN t : t[p] = s[i]
        BY <1>7, <1>13, <3>2
      <3>. QED BY <3>1, <3>3, CalledAnswered
    <2>2. CASE c \notin Answered(s)
      <3>1. PICK i \in DOMAIN s : c \in s[i].calls
        BY <2>0, CalledAnswered
      <3>2. i \notin gone /\ c \in missing(i)
        BY <1>calls, <2>2, <3>1
      <3>3. PICK j \in DOMAIN Stubs(missing(i)) : Stubs(missing(i))[j] = Result(c)
        BY <1>3, <3>2
      <3>4. j + 1 \in DOMAIN ss[i] /\ ss[i][j + 1] = Result(c)
        BY <1>4, <1>5, <3>2, <3>3
      <3>5. PICK p \in DOMAIN t : t[p] = Result(c)
        BY <1>13, <3>4
      <3>6. c \in Calls
        BY <1>1, <3>1, MessageFields
      <3>7. t[p].of = c /\ c # 0
        BY <3>5, <3>6, ResultType
      <3>. QED BY <3>7, CalledAnswered
    <2>. QED BY <2>1, <2>2
  <1>15. ASSUME NEW c \in Answered(t) PROVE c \in Called(t)
    <2>1. PICK p \in DOMAIN t : c = t[p].of /\ c # 0
      BY CalledAnswered
    <2>2. PICK i \in DOMAIN s : \E j \in DOMAIN ss[i] : t[p] = ss[i][j]
      BY <1>13
    <2>3. PICK j \in DOMAIN ss[i] : t[p] = ss[i][j]
      BY <2>2
    <2>4. \E l \in DOMAIN s : c \in s[l].calls
      <3>1. CASE j = 1
        <4>1. t[p] = s[i] /\ i \notin gone
          BY <1>7, <1>10, <2>3, <3>1
        <4>2. c \in Called(s)
          BY <1>gone, <2>1, <4>1
        <4>. QED BY <4>2, CalledAnswered
      <3>2. CASE j # 1
        <4>1. PICK d \in missing(i) : t[p] = Result(d)
          BY <1>11, <2>3, <3>2
        <4>2. d \in Calls
          BY <1>1, MessageFields
        <4>3. c = d
          BY <2>1, <4>1, <4>2, ResultType
        <4>. QED BY <4>3
      <3>. QED BY <3>1, <3>2
    <2>5. PICK l \in DOMAIN s : c \in s[l].calls
      BY <2>4
    <2>6. l \notin gone
      BY <1>calls, <2>5
    <2>7. PICK q \in DOMAIN t : t[q] = s[l]
      BY <1>7, <1>13, <2>6
    <2>. QED BY <2>5, <2>7, CalledAnswered
  <1>16. t # <<>> /\ t[1] = s[1]
    <2>1. s[1].of = 0
      BY <1>1 DEF Shape, IsResult
    <2>2. 1 \notin gone
      BY <1>1, <1>gone, <2>1
    <2>3. ss[1] # <<>>
      BY <1>1, <1>7, <1>8, <2>2
    <2>. QED BY <1>1, <1>13, <2>3
  <1>17. Whole(t)
    BY <1>14, <1>15 DEF Whole
  <1>. QED BY <1>2, <1>13, <1>16, <1>17 DEF gone

\* In a sound log that is whole the results of a message stand right behind it.
LEMMA SoundPaired ==
  ASSUME NEW s, Sound(s), Whole(s), NEW i \in DOMAIN s
  PROVE  Paired(s, i)
  <1>. DEFINE C == s[i].calls
              n == Cardinality(C)
              R == {p \in DOMAIN s : s[p].of \in C}
  <1>1. /\ s \in Seq(Message) /\ Len(s) \in Nat /\ DOMAIN s = 1..Len(s) /\ i \in 1..Len(s)
        /\ \A j \in DOMAIN s : s[j] \in Message /\ Shape(s[j])
    <2>1. s \in Seq(Message) /\ \A j \in DOMAIN s : Shape(s[j])
      BY DEF Sound
    <2>. QED BY <2>1, LenProperties, ElementOfSeq
  <1>2. IsFiniteSet(C) /\ 0 \notin C
    BY <1>1, MessageFields
  <1>pairs. \A p, q \in DOMAIN s : s[p].of \in s[q].calls =>
              q < p /\ \A l \in q + 1..p : IsResult(s[l])
    BY DEF Sound
  <1>3. SUFFICES i + n <= Len(s) /\ C = {s[j].of : j \in i + 1..i + n}
    BY Zenon DEF Paired
  <1>4. CASE C = {}
    <2>1. n = 0
      BY <1>4, FS_EmptySet
    <2>2. i + 1..i + 0 = {}
      BY <1>1
    <2>. HIDE DEF n
    <2>3. {s[j].of : j \in i + 1..i + n} = {}
      BY <2>1, <2>2
    <2>. HIDE DEF C
    <2>. QED BY <1>1, <1>4, <2>1, <2>3
  <1>5. CASE C # {}
    <2>1. \A c \in C : \E p \in R : s[p].of = c
      <3>. TAKE c \in C
      <3>1. c \in Answered(s)
        BY CalledAnswered DEF Whole
      <3>. QED BY <3>1, CalledAnswered
    <2>2. ~IsResult(s[i])
      BY <1>1, <1>5 DEF Shape
    <2>3. \E m \in R : \A p \in R : p <= m
      <3>. DEFINE H == {Len(s) - p : p \in R}
      <3>1. R \subseteq 1..Len(s) /\ R # {}
        BY <1>1, <1>5, <2>1
      <3>. HIDE DEF R
      <3>2. H \in SUBSET Nat /\ H # {}
        <4>1. \A p \in R : Len(s) - p \in Nat
          BY <1>1, <3>1
        <4>. QED BY <3>1, <4>1
      <3>3. PICK h \in H : \A k \in H : ~(k < h)
        BY <3>2, LeastOf
      <3>4. PICK m \in R : h = Len(s) - m
        BY <3>3
      <3>5. ASSUME NEW p \in R PROVE p <= m
        <4>1. ~(Len(s) - p < Len(s) - m)
          BY <3>3, <3>4
        <4>2. p \in 1..Len(s) /\ m \in 1..Len(s)
          BY <3>1
        <4>. QED BY <1>1, <4>1, <4>2
      <3>. QED BY <3>5
    <2>. PICK m \in R : \A p \in R : p <= m
      BY <2>3
    <2>4. i < m /\ m \in 1..Len(s) /\ \A l \in i + 1..m : IsResult(s[l])
      BY <1>1, <1>pairs
    <2>5. ASSUME NEW p \in i + 1..m PROVE p \in R
      <3>1. p \in DOMAIN s /\ i < p /\ p <= m /\ IsResult(s[p])
        BY <1>1, <2>4
      <3>2. s[p].of \in Called(s)
        <4>1. s[p].of # 0
          BY <1>1, <3>1 DEF Shape
        <4>. QED BY <3>1, <4>1, CalledAnswered DEF Whole
      <3>3. PICK j \in DOMAIN s : s[p].of \in s[j].calls
        BY <3>2, CalledAnswered
      <3>4. j < p /\ \A l \in j + 1..p : IsResult(s[l])
        BY <1>pairs, <3>1, <3>3
      <3>5. ~IsResult(s[j])
        BY <1>1, <3>3 DEF Shape
      <3>6. j \in Nat /\ j \notin i + 1..m /\ i \notin j + 1..p
        BY <1>1, <2>2, <2>4, <3>4, <3>5
      <3>7. j = i
        BY <1>1, <2>4, <3>1, <3>4, <3>6
      <3>. QED BY <3>1, <3>3, <3>7
    <2>6. \A p \in R : p \in i + 1..m
      BY <1>1, <1>pairs, <2>4
    <2>7. R = i + 1..m
      BY <2>5, <2>6
    <2>8. n = m - i
      <3>. DEFINE f == [p \in R |-> s[p].of]
      <3>1. f \in [R -> C] /\ \A p \in R : f[p] = s[p].of
        OBVIOUS
      <3>2. \A p, q \in R : f[p] = f[q] => p = q
        BY <1>2 DEF Sound
      <3>. HIDE DEF f, C
      <3>3. f \in Injection(R, C)
        BY <3>1, <3>2 DEF Injection, IsInjective
      <3>6. f \in Surjection(R, C)
        <4>1. \A c \in C : \E p \in R : f[p] = c
          BY <2>1, <3>1
        <4>. HIDE DEF R
        <4>. QED BY <3>1, <4>1 DEF Surjection
      <3>4. IsFiniteSet(R) /\ Cardinality(R) = m - i
        <4>1. i + 1 \in Int /\ m \in Int /\ i + 1 <= m /\ m - (i + 1) + 1 = m - i
          BY <1>1, <2>4
        <4>2. IsFiniteSet(i + 1..m) /\ Cardinality(i + 1..m) = m - i
          BY <4>1, FS_Interval
        <4>. HIDE DEF R
        <4>. QED BY <2>7, <4>2
      <3>5. ExistsBijection(R, C)
        BY <3>3, <3>6 DEF ExistsBijection, Bijection
      <3>. QED BY <3>4, <3>5, FS_Bijection
    <2>9. C = {s[j].of : j \in R}
      BY <2>1
    <2>. HIDE DEF C, n, R
    <2>10. i + n = m
      BY <1>1, <2>4, <2>8
    <2>. QED BY <2>4, <2>7, <2>9, <2>10
  <1>. QED BY <1>4, <1>5

-----------------------------------------------------------------------------
(* Messages appended, and messages that are summarized.                      *)

\* What is appended makes no call that was made or answered before.
LEMMA AppendSound ==
  ASSUME NEW s, Sound(s), NEW m \in Message, Shape(m), m.of = 0,
         m.calls \cap (Called(s) \cup Answered(s)) = {}
  PROVE  /\ Sound(Append(s, m))
         /\ Called(Append(s, m)) = Called(s) \cup m.calls
         /\ Answered(Append(s, m)) = Answered(s)
         /\ s # <<>> => Append(s, m) # <<>> /\ Append(s, m)[1] = s[1]
  <1>. DEFINE t == Append(s, m)
              n == Len(s)
  <1>1. /\ s \in Seq(Message) /\ n \in Nat /\ DOMAIN s = 1..n
        /\ \A i \in DOMAIN s : s[i] \in Message /\ Shape(s[i])
    <2>1. s \in Seq(Message) /\ \A i \in DOMAIN s : Shape(s[i])
      BY DEF Sound
    <2>. QED BY <2>1, LenProperties, ElementOfSeq
  <1>2. /\ t \in Seq(Message) /\ DOMAIN t = 1..n + 1 /\ t[n + 1] = m
        /\ \A i \in 1..n : t[i] = s[i]
    BY <1>1
  <1>. HIDE DEF t, n
  <1>3. \A i \in DOMAIN t : i \in 1..n \/ i = n + 1
    BY <1>1, <1>2
  <1>old. \A i \in 1..n : i \in DOMAIN t /\ i \in DOMAIN s /\ t[i] = s[i]
    BY <1>1, <1>2
  <1>fresh. \A i \in DOMAIN s : s[i].calls \cap m.calls = {} /\ s[i].of \notin m.calls
    <2>. TAKE i \in DOMAIN s
    <2>1. 0 \notin m.calls
      BY MessageFields
    <2>. QED BY <2>1, CalledAnswered
  <1>4. ASSUME NEW i \in DOMAIN t, NEW j \in DOMAIN t, t[i].calls \cap t[j].calls # {} PROVE i = j
    <2>1. CASE i \in 1..n /\ j \in 1..n
      BY <1>4, <1>old, <2>1 DEF Sound
    <2>2. CASE i = n + 1 /\ j \in 1..n
      BY <1>2, <1>4, <1>old, <1>fresh, <2>2
    <2>3. CASE i \in 1..n /\ j = n + 1
      BY <1>2, <1>4, <1>old, <1>fresh, <2>3
    <2>. QED BY <1>3, <2>1, <2>2, <2>3
  <1>5. ASSUME NEW i \in DOMAIN t, NEW j \in DOMAIN t, t[i].of = t[j].of, t[i].of # 0 PROVE i = j
    <2>1. i \in 1..n /\ j \in 1..n
      BY <1>2, <1>3, <1>5
    <2>. QED BY <1>5, <1>old, <2>1 DEF Sound
  <1>6. ASSUME NEW i \in DOMAIN t, NEW j \in DOMAIN t, t[i].of \in t[j].calls
        PROVE  j < i /\ \A l \in j + 1..i : IsResult(t[l])
    <2>1. 0 \notin t[j].calls
      <3>1. CASE j \in 1..n
        BY <1>1, <1>old, <3>1, MessageFields
      <3>2. CASE j = n + 1
        BY <1>2, <3>2, MessageFields
      <3>. QED BY <1>3, <3>1, <3>2
    <2>2. i \in 1..n
      BY <1>2, <1>3, <1>6, <2>1
    <2>3. j \in 1..n
      BY <1>2, <1>3, <1>6, <1>old, <1>fresh, <2>2
    <2>4. j < i /\ \A l \in j + 1..i : IsResult(s[l])
      BY <1>6, <1>old, <2>2, <2>3 DEF Sound
    <2>5. \A l \in j + 1..i : l \in 1..n
      BY <1>1, <2>2, <2>3
    <2>. QED BY <1>old, <2>4, <2>5
  <1>7. \A i \in DOMAIN t : Shape(t[i])
    BY <1>1, <1>2, <1>3, <1>old
  <1>8. Sound(t)
    BY <1>2, <1>4, <1>5, <1>6, <1>7 DEF Sound
  <1>9. Called(t) = Called(s) \cup m.calls
    <2>1. ASSUME NEW c \in Called(t) PROVE c \in Called(s) \cup m.calls
      <3>1. PICK i \in DOMAIN t : c \in t[i].calls
        BY CalledAnswered
      <3>. QED BY <1>2, <1>3, <1>old, <3>1, CalledAnswered
    <2>2. ASSUME NEW c \in Called(s) PROVE c \in Called(t)
      <3>1. PICK i \in DOMAIN s : c \in s[i].calls
        BY CalledAnswered
      <3>. QED BY <1>1, <1>old, <3>1, CalledAnswered
    <2>3. n + 1 \in DOMAIN t
      BY <1>1, <1>2
    <2>4. m.calls \subseteq Called(t)
      BY <1>2, <2>3, CalledAnswered
    <2>. QED BY <2>1, <2>2, <2>4
  <1>10. Answered(t) = Answered(s)
    <2>1. ASSUME NEW c \in Answered(t) PROVE c \in Answered(s)
      <3>1. PICK i \in DOMAIN t : c = t[i].of /\ c # 0
        BY CalledAnswered
      <3>2. i \in 1..n
        BY <1>2, <1>3, <3>1
      <3>. QED BY <1>old, <3>1, <3>2, CalledAnswered
    <2>2. ASSUME NEW c \in Answered(s) PROVE c \in Answered(t)
      <3>1. PICK i \in DOMAIN s : c = s[i].of /\ c # 0
        BY CalledAnswered
      <3>. QED BY <1>1, <1>old, <3>1, CalledAnswered
    <2>. QED BY <2>1, <2>2
  <1>11. ASSUME s # <<>> PROVE t # <<>> /\ t[1] = s[1]
    <2>1. 1 \in 1..n /\ 1 \in DOMAIN t
      BY <1>1, <1>2, <1>11, EmptySeq DEF n
    <2>2. t[1] = s[1]
      BY <1>old, <2>1
    <2>3. DOMAIN <<>> = {}
      BY EmptySeq, LenProperties
    <2>. QED BY <2>1, <2>2, <2>3
  <1>. QED BY <1>8, <1>9, <1>10, <1>11 DEF t

\* One message between two sequences.
LEMMA PutBetween ==
  ASSUME NEW S, NEW a \in Seq(S), NEW m \in S, NEW b \in Seq(S), NEW t, t = a \o <<m>> \o b
  PROVE  /\ t \in Seq(S) /\ Len(t) = Len(a) + 1 + Len(b)
         /\ \A p \in 1..Len(a) : t[p] = a[p]
         /\ t[Len(a) + 1] = m
         /\ \A j \in 1..Len(b) : t[Len(a) + 1 + j] = b[j]
  <1>1. Len(a) \in Nat /\ Len(b) \in Nat
    BY LenProperties
  <1>2. <<m>> \in Seq(S) /\ Len(<<m>>) = 1 /\ <<m>>[1] = m
    OBVIOUS
  <1>. DEFINE d == a \o <<m>>
  <1>3. /\ d \in Seq(S) /\ Len(d) = Len(a) + 1
        /\ \A p \in 1..Len(a) + 1 : d[p] = IF p <= Len(a) THEN a[p] ELSE <<m>>[p - Len(a)]
    BY <1>2, ConcatProperties
  <1>4. d[Len(a) + 1] = m /\ \A p \in 1..Len(a) : d[p] = a[p]
    <2>1. Len(a) + 1 \in 1..Len(a) + 1 /\ ~(Len(a) + 1 <= Len(a)) /\ (Len(a) + 1) - Len(a) = 1
      BY <1>1
    <2>2. \A p \in 1..Len(a) : p \in 1..Len(a) + 1 /\ p <= Len(a)
      BY <1>1
    <2>. QED BY <1>2, <1>3, <2>1, <2>2
  <1>5. t = d \o b
    OBVIOUS
  <1>. HIDE DEF d
  <1>6. /\ t \in Seq(S) /\ Len(t) = Len(d) + Len(b)
        /\ \A p \in 1..Len(d) + Len(b) : t[p] = IF p <= Len(d) THEN d[p] ELSE b[p - Len(d)]
    BY <1>3, <1>5, ConcatProperties
  <1>7. \A p \in 1..Len(a) + 1 : t[p] = d[p]
    <2>1. \A p \in 1..Len(a) + 1 : p \in 1..Len(d) + Len(b) /\ p <= Len(d)
      BY <1>1, <1>3
    <2>. QED BY <1>6, <2>1
  <1>8. \A j \in 1..Len(b) : t[Len(a) + 1 + j] = b[j]
    <2>1. \A j \in 1..Len(b) : /\ Len(a) + 1 + j \in 1..Len(d) + Len(b) /\ ~(Len(a) + 1 + j <= Len(d))
                               /\ (Len(a) + 1 + j) - Len(d) = j
      BY <1>1, <1>3
    <2>. QED BY <1>6, <2>1
  <1>9. \A p \in 1..Len(a) : p \in 1..Len(a) + 1
    BY <1>1
  <1>10. Len(a) + 1 \in 1..Len(a) + 1
    BY <1>1
  <1>11. Len(t) = Len(a) + 1 + Len(b)
    BY <1>1, <1>3, <1>6
  <1>. QED BY <1>4, <1>6, <1>7, <1>8, <1>9, <1>10, <1>11

\* The part of a log from one place to another.
LEMMA PartOf ==
  ASSUME NEW S, NEW s \in Seq(S), NEW i \in Nat \ {0}, NEW j \in Nat, j <= Len(s),
         NEW t, t = SubSeq(s, i, j)
  PROVE  /\ t \in Seq(S) /\ Len(t) = IF i <= j THEN j - i + 1 ELSE 0
         /\ \A p \in 1..Len(t) : i - 1 + p \in i..j /\ i - 1 + p \in DOMAIN s /\ t[p] = s[i - 1 + p]
  <1>1. Len(s) \in Nat /\ DOMAIN s = 1..Len(s)
    BY LenProperties
  <1>2. i \in Int /\ j \in Int /\ \A l \in i..j : l \in DOMAIN s
    BY <1>1
  <1>3. \A l \in i..j : s[l] \in S
    BY <1>2, ElementOfSeq
  <1>4. /\ t \in Seq(S) /\ Len(t) = IF i <= j THEN j - i + 1 ELSE 0
        /\ \A p \in 1..j - i + 1 : t[p] = s[i + p - 1]
    BY <1>2, <1>3, SubSeqProperties
  <1>5. \A p \in 1..Len(t) : p \in 1..j - i + 1 /\ i + p - 1 = i - 1 + p /\ i - 1 + p \in i..j
    <2>1. CASE i <= j
      BY <1>4, <2>1
    <2>2. CASE ~(i <= j)
      BY <1>4, <2>2
    <2>. QED BY <2>1, <2>2
  <1>. QED BY <1>2, <1>4, <1>5

\* Messages are cut out, and one is put in their place that is no result, where no
\* result is.
Neutral(m) == m \in Message /\ Shape(m) /\ m.of = 0 /\ m.calls = {}
Gap(s, h) == h = Len(s) \/ ~IsResult(s[h + 1])
Spliced(s, h, cut, m) == SubSeq(s, 1, h) \o <<m>> \o SubSeq(s, cut + 1, Len(s))

\* What the places of it hold.
Spot(s, t, h, cut, m, p) ==
  \/ p <= h /\ p \in DOMAIN s /\ t[p] = s[p]
  \/ p = h + 1 /\ t[p] = m
  \/ /\ h + 1 < p /\ cut + (p - (h + 1)) \in DOMAIN s
     /\ t[p] = s[cut + (p - (h + 1))]

\* What t has of s: the first h messages, and those behind the cut.
HasHead(s, t, h) == \A i \in 1..h : i \in DOMAIN t /\ t[i] = s[i]
HasTail(s, t, cut) == \A i \in cut + 1..Len(s) : \E p \in DOMAIN t : t[p] = s[i]

LEMMA SplicedSpots ==
  ASSUME NEW s \in Seq(Message), NEW h \in 1..Len(s), NEW cut \in Nat,
         NEW m, Neutral(m), NEW t, t = Spliced(s, h, cut, m)
  PROVE  /\ t \in Seq(Message) /\ 1 \in DOMAIN t
         /\ \A p \in DOMAIN t : p \in Nat /\ Spot(s, t, h, cut, m, p)
         /\ HasHead(s, t, h) /\ HasTail(s, t, cut)
         /\ h + 1 \in DOMAIN t /\ t[h + 1] = m
  <1>. DEFINE a == SubSeq(s, 1, h)
              b == SubSeq(s, cut + 1, Len(s))
  <1>1. Len(s) \in Nat /\ h \in Nat /\ 1 <= h /\ h <= Len(s) /\ DOMAIN s = 1..Len(s)
    BY LenProperties
  <1>2. a \in Seq(Message) /\ Len(a) = h /\ \A p \in 1..h : a[p] = s[p] /\ p \in DOMAIN s
    <2>1. 1 \in Nat \ {0} /\ h - 1 + 1 = h /\ \A p \in 1..h : 1 - 1 + p = p
      BY <1>1
    <2>2. /\ a \in Seq(Message) /\ Len(a) = IF 1 <= h THEN h - 1 + 1 ELSE 0
          /\ \A p \in 1..Len(a) : 1 - 1 + p \in DOMAIN s /\ a[p] = s[1 - 1 + p]
      BY <1>1, <2>1, PartOf
    <2>. QED BY <1>1, <2>1, <2>2
  <1>3. /\ b \in Seq(Message) /\ Len(b) \in Nat
        /\ \A i \in cut + 1..Len(s) : i - cut \in 1..Len(b)
        /\ \A j \in 1..Len(b) : cut + j \in DOMAIN s /\ b[j] = s[cut + j]
    <2>1. cut + 1 \in Nat \ {0} /\ \A j \in Int : cut + 1 - 1 + j = cut + j
      OBVIOUS
    <2>2. /\ b \in Seq(Message) /\ Len(b) = IF cut + 1 <= Len(s) THEN Len(s) - (cut + 1) + 1 ELSE 0
          /\ \A j \in 1..Len(b) : cut + 1 - 1 + j \in DOMAIN s /\ b[j] = s[cut + 1 - 1 + j]
      BY <1>1, <2>1, PartOf
    <2>3. Len(b) \in Nat /\ 1..Len(b) \subseteq Int
      BY <2>2, LenProperties
    <2>. HIDE DEF b
    <2>4. \A j \in 1..Len(b) : cut + 1 - 1 + j = cut + j
      BY <2>1, <2>3
    <2>5. \A i \in cut + 1..Len(s) : i - cut \in 1..Len(b)
      <3>. TAKE i \in cut + 1..Len(s)
      <3>1. cut + 1 <= Len(s)
        BY <1>1
      <3>2. Len(b) = Len(s) - (cut + 1) + 1
        BY <2>2, <3>1
      <3>. QED BY <1>1, <3>2
    <2>. QED BY <2>2, <2>3, <2>4, <2>5
  <1>4. m \in Message
    BY DEF Neutral
  <1>5. t = a \o <<m>> \o b
    BY DEF Spliced
  <1>. HIDE DEF a, b
  <1>6. /\ t \in Seq(Message) /\ Len(t) = h + 1 + Len(b)
        /\ \A p \in 1..h : t[p] = a[p]
        /\ t[h + 1] = m
        /\ \A j \in 1..Len(b) : t[h + 1 + j] = b[j]
    <2>. DEFINE S == Message
    <2>1. a \in Seq(S) /\ b \in Seq(S) /\ m \in S
      BY <1>2, <1>3, <1>4
    <2>. HIDE DEF S
    <2>2. /\ t \in Seq(S) /\ Len(t) = Len(a) + 1 + Len(b)
          /\ \A p \in 1..Len(a) : t[p] = a[p]
          /\ t[Len(a) + 1] = m
          /\ \A j \in 1..Len(b) : t[Len(a) + 1 + j] = b[j]
      BY <1>5, <2>1, PutBetween
    <2>. QED BY <1>2, <2>2 DEF S
  <1>7. DOMAIN t = 1..h + 1 + Len(b)
    BY <1>6, LenProperties
  <1>8. ASSUME NEW p \in DOMAIN t PROVE p \in Nat /\ Spot(s, t, h, cut, m, p)
    <2>1. p \in Nat /\ 1 <= p /\ p <= h + 1 + Len(b)
      BY <1>1, <1>3, <1>7
    <2>2. CASE p <= h
      <3>1. p \in 1..h
        BY <1>1, <2>1, <2>2
      <3>. QED BY <1>2, <1>6, <2>1, <2>2, <3>1 DEF Spot
    <2>3. CASE p = h + 1
      BY <1>6, <2>1, <2>3 DEF Spot
    <2>4. CASE h + 1 < p
      <3>1. p - (h + 1) \in 1..Len(b) /\ h + 1 + (p - (h + 1)) = p
        BY <1>1, <1>3, <2>1, <2>4
      <3>2. t[p] = b[p - (h + 1)]
        BY <1>6, <3>1
      <3>. QED BY <1>3, <2>1, <2>4, <3>1, <3>2 DEF Spot
    <2>. QED BY <1>1, <2>1, <2>2, <2>3, <2>4
  <1>9. 1 \in DOMAIN t /\ h + 1 \in DOMAIN t /\ \A i \in 1..h : i \in DOMAIN t
    BY <1>1, <1>3, <1>7
  <1>10. \A i \in cut + 1..Len(s) : \E p \in DOMAIN t : t[p] = s[i]
    <2>. TAKE i \in cut + 1..Len(s)
    <2>1. i - cut \in 1..Len(b)
      BY <1>3
    <2>2. h + 1 + (i - cut) \in DOMAIN t /\ cut + (i - cut) = i
      BY <1>1, <1>7, <2>1
    <2>3. t[h + 1 + (i - cut)] = s[i]
      BY <1>3, <1>6, <2>1, <2>2
    <2>. QED BY <2>2, <2>3
  <1>11. HasTail(s, t, cut)
    BY <1>10 DEF HasTail
  <1>12. HasHead(s, t, h)
    BY <1>2, <1>6, <1>9 DEF HasHead
  <1>. QED BY <1>6, <1>8, <1>9, <1>11, <1>12

LEMMA SplicedSound ==
  ASSUME NEW s, Sound(s), NEW h \in 1..Len(s),
         Gap(s, h), NEW cut \in Nat, h < cut, NEW m, Neutral(m),
         NEW t, t = Spliced(s, h, cut, m)
  PROVE  /\ Sound(t) /\ t # <<>> /\ t[1] = s[1]
         /\ Called(t) \subseteq Called(s)
         /\ Answered(t) \subseteq Answered(s) \cup Called(s)
  <1>. DEFINE g == [p \in DOMAIN t |-> IF p <= h + 1 THEN p ELSE cut + (p - (h + 1))]
  <1>1. /\ s \in Seq(Message) /\ DOMAIN s = 1..Len(s) /\ Len(s) \in Nat
        /\ h \in Nat /\ 1 <= h /\ h <= Len(s)
    <2>1. s \in Seq(Message)
      BY DEF Sound
    <2>. QED BY <2>1, LenProperties
  <1>2. /\ t \in Seq(Message) /\ 1 \in DOMAIN t
        /\ \A p \in DOMAIN t : p \in Nat /\ Spot(s, t, h, cut, m, p)
    BY <1>1, SplicedSpots
  <1>3. \A p \in DOMAIN t : p \in Nat /\ g[p] = IF p <= h + 1 THEN p ELSE cut + (p - (h + 1))
    BY <1>2
  <1>4. g = [p \in DOMAIN t |-> g[p]]
    OBVIOUS
  <1>. HIDE DEF g
  <1>5. \A p \in DOMAIN t : /\ g[p] \in Nat
                            /\ p <= h + 1 => g[p] = p
                            /\ h + 1 < p => g[p] = cut + (p - (h + 1))
    <2>. TAKE p \in DOMAIN t
    <2>1. p \in Nat /\ (h + 1 < p => ~(p <= h + 1)) /\ (p <= h + 1 \/ h + 1 < p)
      BY <1>1, <1>2
    <2>2. h + 1 < p => cut + (p - (h + 1)) \in Nat
      BY <1>1, <2>1
    <2>. QED BY <1>3, <2>1, <2>2
  <1>6. g \in [DOMAIN t -> Nat]
    BY <1>4, <1>5
  <1>7. \A p \in DOMAIN t : Put(s, t, g, p) \/ Copied(s, t, g, p)
    <2>. TAKE p \in DOMAIN t
    <2>1. Spot(s, t, h, cut, m, p) /\ p \in Nat
      BY <1>2
    <2>2. CASE p <= h /\ p \in DOMAIN s /\ t[p] = s[p]
      <3>1. p <= h + 1
        BY <1>1, <2>1, <2>2
      <3>. QED BY <1>5, <2>2, <3>1 DEF Copied
    <2>3. CASE p = h + 1 /\ t[p] = m
      <3>1. p <= h + 1
        BY <1>1, <2>3
      <3>2. g[p] = h + 1
        BY <1>5, <2>3, <3>1
      <3>3. ASSUME h + 1 \in DOMAIN s PROVE h # Len(s)
        <4>1. h + 1 <= Len(s)
          BY <1>1, <3>3
        <4>2. \A x, y \in Nat : x + 1 <= y => x # y
          OBVIOUS
        <4>. QED BY <1>1, <4>1, <4>2, Zenon
      <3>4. h + 1 \in DOMAIN s => ~IsResult(s[h + 1])
        BY <3>3 DEF Gap
      <3>. QED BY <2>3, <3>2, <3>4 DEF Put, Neutral
    <2>4. CASE /\ h + 1 < p /\ cut + (p - (h + 1)) \in DOMAIN s
               /\ t[p] = s[cut + (p - (h + 1))]
      BY <1>5, <2>4 DEF Copied
    <2>. QED BY <2>1, <2>2, <2>3, <2>4 DEF Spot
  <1>8. \A p, q \in DOMAIN t : p < q => g[p] < g[q]
    <2>. TAKE p, q \in DOMAIN t
    <2>. HAVE p < q
    <2>1. p \in Nat /\ q \in Nat
      BY <1>2
    <2>2. g[p] = IF p <= h + 1 THEN p ELSE cut + (p - (h + 1))
      BY <1>3
    <2>3. g[q] = IF q <= h + 1 THEN q ELSE cut + (q - (h + 1))
      BY <1>3
    <2>. QED BY <1>1, <2>1, <2>2, <2>3
  <1>9. Derived(s, t, g)
    BY <1>6, <1>7, <1>8 DEF Derived
  <1>10. \A p \in DOMAIN t : Shape(t[p])
    <2>. TAKE p \in DOMAIN t
    <2>1. t[p] = m \/ \E i \in DOMAIN s : t[p] = s[i]
      BY <1>2 DEF Spot
    <2>. QED BY <2>1 DEF Sound, Neutral
  <1>11. t # <<>> /\ t[1] = s[1]
    <2>1. Spot(s, t, h, cut, m, 1)
      BY <1>2
    <2>2. 1 # h + 1 /\ ~(h + 1 < 1)
      BY <1>1
    <2>3. t[1] = s[1]
      BY <2>1, <2>2 DEF Spot
    <2>4. DOMAIN <<>> = {}
      BY EmptySeq, LenProperties
    <2>. QED BY <1>2, <2>3, <2>4
  <1>. QED BY <1>2, <1>9, <1>10, <1>11, DerivedSound

\* The beginning of a log.
LEMMA HeadSound ==
  ASSUME NEW s, Sound(s), NEW h \in 1..Len(s), NEW t, t = SubSeq(s, 1, h)
  PROVE  /\ Sound(t) /\ t # <<>> /\ t[1] = s[1]
         /\ Called(t) \subseteq Called(s)
         /\ Answered(t) \subseteq Answered(s) \cup Called(s)
  <1>. DEFINE g == [p \in DOMAIN t |-> p]
  <1>1. /\ s \in Seq(Message) /\ Len(s) \in Nat /\ DOMAIN s = 1..Len(s)
        /\ \A i \in DOMAIN s : s[i] \in Message
    <2>1. s \in Seq(Message)
      BY DEF Sound
    <2>. QED BY <2>1, LenProperties, ElementOfSeq
  <1>2. t \in Seq(Message) /\ DOMAIN t = 1..h /\ \A i \in 1..h : t[i] = s[i] /\ i \in DOMAIN s
    <2>1. /\ h \in Int /\ 1 \in Int /\ 1 <= h /\ h - 1 + 1 = h
          /\ \A i \in 1..h : s[i] \in Message /\ 1 + i - 1 = i /\ i \in DOMAIN s
      BY <1>1
    <2>2. t \in Seq(Message) /\ Len(t) = h /\ \A i \in 1..h : t[i] = s[i]
      BY <2>1, SubSeqProperties
    <2>. QED BY <2>1, <2>2, LenProperties
  <1>3. g \in [DOMAIN t -> Nat] /\ \A p \in DOMAIN t : g[p] = p
    BY <1>1, <1>2
  <1>. HIDE DEF g
  <1>4. Derived(s, t, g)
    BY <1>2, <1>3 DEF Derived, Copied
  <1>5. \A p \in DOMAIN t : Shape(t[p])
    BY <1>2 DEF Sound
  <1>6. t # <<>> /\ t[1] = s[1]
    <2>1. 1 \in DOMAIN t /\ 1 \in 1..h
      BY <1>1, <1>2
    <2>2. DOMAIN <<>> = {}
      BY EmptySeq, LenProperties
    <2>. QED BY <1>2, <2>1, <2>2
  <1>. QED BY <1>2, <1>4, <1>5, <1>6, DerivedSound

-----------------------------------------------------------------------------
(* Where a log is cut.                                                       *)

LEMMA LeastNat ==
  ASSUME NEW S \in SUBSET Nat, S # {}
  PROVE  Min(S) \in S /\ \A x \in S : Min(S) <= x
  <1>1. PICK x \in S : \A y \in S : x <= y
    BY LeastOf
  <1>. QED BY <1>1 DEF Min

LEMMA GreatestNat ==
  ASSUME NEW S \in SUBSET Nat, S # {}, NEW n \in Nat, \A x \in S : x <= n
  PROVE  Max(S) \in S /\ \A x \in S : x <= Max(S)
  <1>. DEFINE D == {n - x : x \in S}
  <1>0. \A x \in S : n - x \in Nat
    OBVIOUS
  <1>1. D \in SUBSET Nat /\ D # {}
    BY <1>0
  <1>2. PICK d \in D : \A y \in D : d <= y
    <2>. HIDE DEF D
    <2>1. PICK d \in D : \A y \in D : ~(y < d)
      BY <1>1, LeastOf
    <2>2. \A y \in D : d \in Nat /\ y \in Nat
      BY <1>1
    <2>. QED BY <2>1, <2>2
  <1>3. PICK x \in S : d = n - x
    BY <1>2
  <1>4. \A y \in S : y <= x
    <2>. TAKE y \in S
    <2>1. n - x <= n - y
      BY <1>2, <1>3
    <2>. QED BY <2>1
  <1>. QED BY <1>4 DEF Max

\* The head ends in front of a message that is no result; what it has besides the
\* protected messages are results.
LEMMA HeadLenGap ==
  ASSUME NEW s \in Seq(Message), ~TooShort(s)
  PROVE  /\ HeadLen(s) \in 1..Len(s) /\ Gap(s, HeadLen(s))
         /\ ProtectFirst <= HeadLen(s)
         /\ \A i \in ProtectFirst + 1..HeadLen(s) : IsResult(s[i])
  <1>. DEFINE H == {h \in ProtectFirst..Len(s) : h = Len(s) \/ ~IsResult(s[h + 1])}
  <1>1. Len(s) \in Nat /\ ProtectFirst \in Nat \ {0} /\ Slack \in Nat \ {0}
    BY LogLimits, LenProperties
  <1>2. ProtectFirst <= Len(s)
    BY <1>1 DEF TooShort
  <1>3. Len(s) \in H /\ H \in SUBSET Nat /\ H # {}
    BY <1>1, <1>2
  <1>4. Min(H) \in H /\ \A i \in H : Min(H) <= i
    BY <1>3, LeastNat
  <1>5. HeadLen(s) = Min(H)
    BY DEF HeadLen
  <1>. HIDE DEF H
  <1>6. HeadLen(s) \in H /\ \A i \in H : HeadLen(s) <= i
    BY <1>4, <1>5
  <1>7. HeadLen(s) \in 1..Len(s) /\ ProtectFirst <= HeadLen(s) /\ Gap(s, HeadLen(s))
    BY <1>1, <1>6 DEF H, Gap
  <1>8. ASSUME NEW i \in ProtectFirst + 1..HeadLen(s) PROVE IsResult(s[i])
    <2>1. i - 1 \in ProtectFirst..Len(s) /\ ~(HeadLen(s) <= i - 1) /\ i - 1 + 1 = i
      BY <1>1, <1>7
    <2>2. i - 1 \notin H
      BY <1>6, <2>1
    <2>. QED BY <2>1, <2>2 DEF H
  <1>. QED BY <1>7, <1>8

LEMMA CutsNat ==
  ASSUME NEW s \in Seq(Message), ~TooShort(s)
  PROVE  Cuts(s) \in SUBSET Nat
  <1>. DEFINE h == HeadLen(s)
              behind == Len(s) - h
              kept == IF behind > 1 THEN Min({MinTail, behind - 1}) ELSE 0
  <1>1. h \in Nat /\ behind \in Nat /\ Len(s) \in Nat /\ MinTail \in Nat
    BY HeadLenGap, LogLimits, LenProperties
  <1>2. kept \in Nat
    <2>1. CASE behind > 1
      <3>1. {MinTail, behind - 1} \in SUBSET Nat /\ {MinTail, behind - 1} # {}
        BY <1>1, <2>1
      <3>. HIDE DEF behind
      <3>2. Min({MinTail, behind - 1}) \in Nat
        BY <3>1, LeastNat
      <3>. QED BY <2>1, <3>2
    <2>. QED BY <2>1
  <1>3. Cuts(s) = IF behind = 0 THEN {h + 1} ELSE (h + 1)..(Len(s) - kept)
    BY Zenon DEF Cuts
  <1>. HIDE DEF h, behind, kept
  <1>4. {h + 1} \in SUBSET Nat /\ (h + 1)..(Len(s) - kept) \in SUBSET Nat
    BY <1>1, <1>2
  <1>. QED BY <1>3, <1>4

\* The tail begins behind the first message behind the head, and no later than the
\* last message of the user's role, but where that is the first.
LEMMA TailCutBehind ==
  ASSUME NEW s \in Seq(Message), ~TooShort(s), NEW cut \in Nat
  PROVE  /\ TailCut(s, cut) \in Nat /\ HeadLen(s) < TailCut(s, cut)
         /\ \A r \in UserBehind(s, HeadLen(s)) :
              (\A i \in UserBehind(s, HeadLen(s)) : i <= r)
                => TailCut(s, cut) < r \/ TailCut(s, cut) = HeadLen(s) + 1
  <1>. DEFINE h == HeadLen(s)
              before == {i \in 1..cut : ~IsResult(s[i])}
              aligned == AlignBackward(s, cut)
              users == UserBehind(s, h)
              end == IF users # {} /\ Max(users) - 1 < aligned
                     THEN Max(users) - 1 ELSE aligned
  <1>1. h \in Nat /\ Len(s) \in Nat
    BY HeadLenGap, LenProperties
  <1>2. before # {} => Max(before) \in 1..cut
    <2>1. before \in SUBSET Nat /\ \A i \in before : i <= cut
      OBVIOUS
    <2>2. before \in SUBSET (1..cut)
      OBVIOUS
    <2>. HIDE DEF before
    <2>3. before # {} => Max(before) \in before
      BY <2>1, GreatestNat
    <2>. QED BY <2>2, <2>3
  <1>3. aligned \in Nat
    <2>1. \/ aligned = cut
          \/ before # {} /\ aligned = Max(before) - 1
      BY Zenon DEF AlignBackward
    <2>. HIDE DEF before, aligned
    <2>. QED BY <1>2, <2>1
  <1>4. users # {} => Max(users) \in users /\ Max(users) - 1 \in Nat
    <2>1. users \in SUBSET Nat /\ (\A i \in users : i <= Len(s) /\ i - 1 \in Nat)
      BY <1>1 DEF UserBehind
    <2>. HIDE DEF users
    <2>2. users # {} => Max(users) \in users
      BY <1>1, <2>1, GreatestNat
    <2>. QED BY <2>1, <2>2
  <1>5. end \in Nat /\ (users # {} => end <= Max(users) - 1)
    <2>. HIDE DEF users, aligned
    <2>. QED BY <1>3, <1>4
  <1>6. TailCut(s, cut) = Max({h + 1, end})
    BY Zenon DEF TailCut
  <1>last. ASSUME NEW r \in users, \A i \in users : i <= r PROVE r \in Nat /\ end < r
    <2>0. users \in SUBSET Nat
      BY <1>1 DEF UserBehind
    <2>. HIDE DEF users, end
    <2>1. Max(users) <= r /\ Max(users) \in Nat /\ r \in Nat
      BY <1>4, <1>last, <2>0
    <2>. QED BY <1>5, <2>1
  <1>. HIDE DEF h, end, users
  <1>7. /\ {h + 1, end} \in SUBSET Nat /\ {h + 1, end} # {}
        /\ h + 1 + end \in Nat /\ \A i \in {h + 1, end} : i <= h + 1 + end
    BY <1>1, <1>5
  <1>8. Max({h + 1, end}) \in {h + 1, end} /\ h + 1 <= Max({h + 1, end})
    BY <1>7, GreatestNat
  <1>9. Max({h + 1, end}) \in Nat
    BY <1>7, <1>8
  <1>10. h < Max({h + 1, end})
    BY <1>1, <1>8, <1>9
  <1>11. \A r \in users : (\A i \in users : i <= r) =>
           Max({h + 1, end}) < r \/ Max({h + 1, end}) = h + 1
    BY <1>8, <1>last
  <1>. QED BY <1>6, <1>9, <1>10, <1>11 DEF h, users

\* What a summary quotes are requests.
LEMMA QuotedRequests ==
  ASSUME NEW s \in Seq(Message), \A i \in DOMAIN s : Shape(s[i])
  PROVE  Quoted(s) \in SUBSET Requests
  <1>. DEFINE users == UserBehind(s, 0)
              last == Max(users)
  <1>1. Len(s) \in Nat /\ DOMAIN s = 1..Len(s)
    BY LenProperties
  <1>2. /\ users \in SUBSET Nat /\ (\A i \in users : i <= Len(s))
        /\ \A i \in users : i \in DOMAIN s /\ s[i].role = "user"
    BY <1>1 DEF UserBehind
  <1>3. Quoted(s) = IF users = {} \/ s[last].summary THEN {} ELSE {s[last].own}
    BY Zenon DEF Quoted
  <1>. HIDE DEF users
  <1>4. users # {} => last \in users
    BY <1>1, <1>2, GreatestNat
  <1>. HIDE DEF last
  <1>5. ASSUME users # {}, ~s[last].summary PROVE s[last].own \in Requests
    <2>1. last \in DOMAIN s /\ s[last].role = "user"
      BY <1>2, <1>4, <1>5
    <2>2. s[last] \in Message /\ Shape(s[last])
      BY <2>1, ElementOfSeq
    <2>. QED BY <1>5, <2>1, <2>2, MessageFields DEF Shape
  <1>. QED BY <1>3, <1>5

\* What the summary of the messages between h and cut quotes.
MiddleQuotes(s, h, cut) == Quoted(SubSeq(s, h + 1, Min({cut, Len(s)})))

LEMMA MiddleRequests ==
  ASSUME NEW s, Sound(s), NEW h \in Nat, NEW cut \in Nat
  PROVE  MiddleQuotes(s, h, cut) \in SUBSET Requests
  <1>. DEFINE j == Min({cut, Len(s)})
              middle == SubSeq(s, h + 1, j)
  <1>1. /\ s \in Seq(Message) /\ DOMAIN s = 1..Len(s) /\ Len(s) \in Nat
        /\ \A i \in DOMAIN s : Shape(s[i])
    BY SoundSeq
  <1>2. j \in Nat /\ j <= Len(s)
    <2>1. {cut, Len(s)} \in SUBSET Nat /\ {cut, Len(s)} # {}
      BY <1>1
    <2>2. j \in {cut, Len(s)} /\ j <= Len(s)
      BY <2>1, LeastNat
    <2>. QED BY <2>1, <2>2
  <1>3. h + 1 \in Nat \ {0}
    OBVIOUS
  <1>4. MiddleQuotes(s, h, cut) = Quoted(middle)
    BY Zenon DEF MiddleQuotes
  <1>5. middle = SubSeq(s, h + 1, j)
    OBVIOUS
  <1>. HIDE DEF j, middle
  <1>6. /\ middle \in Seq(Message)
        /\ \A p \in 1..Len(middle) : h + 1 - 1 + p \in DOMAIN s /\ middle[p] = s[h + 1 - 1 + p]
    BY <1>1, <1>2, <1>3, <1>5, PartOf
  <1>7. \A p \in DOMAIN middle : Shape(middle[p])
    BY <1>1, <1>6, LenProperties
  <1>. QED BY <1>4, <1>6, <1>7, QuotedRequests

\* What _assemble makes of the head and the tail: the summary is a message of its own,
\* or there is none, because neither of its roles is free, or it is put in front of
\* the first message of the tail.
OwnSummary(s, h, cut, t, m) ==
  /\ Neutral(m) /\ m.own = 0 /\ m.quotes = MiddleQuotes(s, h, cut)
  /\ t = Spliced(s, h, cut, m)
NoSummary(s, h, cut, t) ==
  Len(s) <= cut /\ s[h].role = "assistant" /\ t = SubSeq(s, 1, h)
MergedSummary(s, h, cut, t, m) ==
  /\ cut + 1 \in DOMAIN s
  /\ Neutral(m) /\ m.own = s[cut + 1].own /\ m.role = s[cut + 1].role
  /\ MiddleQuotes(s, h, cut) \subseteq m.quotes
  /\ t = Spliced(s, h, cut + 1, m)

LEMMA NotEmptyPart ==
  ASSUME NEW s \in Seq(Message), NEW cut \in Nat, cut + 1 <= Len(s)
  PROVE  SubSeq(s, cut + 1, Len(s)) # <<>>
  <1>. DEFINE t == SubSeq(s, cut + 1, Len(s))
  <1>1. Len(s) \in Nat /\ Len(s) <= Len(s) /\ cut + 1 \in Nat \ {0}
    BY LenProperties
  <1>2. t = SubSeq(s, cut + 1, Len(s))
    OBVIOUS
  <1>. HIDE DEF t
  <1>3. Len(t) = IF cut + 1 <= Len(s) THEN Len(s) - (cut + 1) + 1 ELSE 0
    BY <1>1, <1>2, PartOf
  <1>4. Len(t) # 0
    BY <1>1, <1>3
  <1>. QED BY <1>2, <1>4, EmptySeq

LEMMA MergedForm ==
  ASSUME NEW s, Sound(s), NEW h \in 1..Len(s), NEW cut \in Nat, cut + 1 \in 1..Len(s),
         NEW role, role = s[cut + 1].role, role \in {"user", "assistant"},
         NEW quotes \in SUBSET Requests, MiddleQuotes(s, h, cut) \subseteq quotes,
         NEW own \in Requests \cup {0}, own = s[cut + 1].own,
         NEW m, m = [Summary(role, quotes) EXCEPT !.own = own],
         NEW t, t = Spliced(s, h, cut + 1, m)
  PROVE  MergedSummary(s, h, cut, t, m)
  <1>. DEFINE n == Summary(role, quotes)
  <1>1. /\ n \in Message /\ n.role = role /\ n.of = 0 /\ n.calls = {} /\ n.summary
        /\ n.quotes = quotes
    BY SummaryType
  <1>2. m = [n EXCEPT !.own = own]
    OBVIOUS
  <1>. HIDE DEF n
  <1>3. /\ m \in Message /\ m.role = role /\ m.of = 0 /\ m.calls = {} /\ m.summary
        /\ m.own = own /\ m.quotes = quotes
    BY <1>1, <1>2 DEF Message
  <1>4. Shape(m)
    BY <1>3 DEF Shape, IsResult
  <1>5. cut + 1 \in DOMAIN s
    BY SoundSeq
  <1>. QED BY <1>3, <1>4, <1>5 DEF MergedSummary, Neutral

LEMMA AssembledForms ==
  ASSUME NEW s, Sound(s), NEW h \in 1..Len(s), NEW cut \in Nat, NEW t, t = Assembled(s, h, cut)
  PROVE  \/ \E m : OwnSummary(s, h, cut, t, m)
         \/ NoSummary(s, h, cut, t)
         \/ \E m : MergedSummary(s, h, cut, t, m)
  <1>. DEFINE head == SubSeq(s, 1, h)
              told == MiddleQuotes(s, h, cut)
              tail == SubSeq(s, cut + 1, Len(s))
              first == IF tail = <<>> THEN "user" ELSE Head(tail).role
              Other(role) == IF role = "user" THEN "assistant" ELSE "user"
              wanted == IF s[h].role \in {"assistant", "tool_result"} THEN "user" ELSE "assistant"
              quotes == told \cup Head(tail).quotes
              own == Head(tail).own
              merged == [Summary(first, quotes) EXCEPT !.own = own]
  <1>1. /\ s \in Seq(Message) /\ DOMAIN s = 1..Len(s) /\ Len(s) \in Nat /\ h \in Nat
    BY SoundSeq
  <1>2. told \in SUBSET Requests
    BY <1>1, MiddleRequests
  <1>3. t = IF wanted # first THEN head \o <<Summary(wanted, told)>> \o tail
            ELSE IF Other(wanted) # s[h].role
                 THEN head \o <<Summary(Other(wanted), told)>> \o tail
            ELSE IF tail = <<>> THEN head
            ELSE head \o <<merged>> \o Tail(tail)
    BY Zenon DEF Assembled, MiddleQuotes
  <1>. HIDE DEF told
  <1>4. wanted \in {"user", "assistant"} /\ Other(wanted) \in {"user", "assistant"}
    OBVIOUS
  <1>5. ASSUME wanted = first, tail = <<>>, Other(wanted) = s[h].role
        PROVE  s[h].role = "assistant"
    <2>1. wanted = "user"
      BY <1>5
    <2>. HIDE DEF wanted, first, tail
    <2>. QED BY <1>5, <2>1
  <1>tail. IF tail = <<>> THEN Len(s) <= cut ELSE cut + 1 <= Len(s)
    <2>1. CASE Len(s) <= cut
      <3>1. tail = <<>>
        BY <1>1, <2>1, SubSeqEmpty
      <3>. QED BY <2>1, <3>1
    <2>2. CASE ~(Len(s) <= cut)
      <3>1. cut + 1 <= Len(s)
        BY <1>1, <2>2
      <3>. QED BY <1>1, <3>1, NotEmptyPart
    <2>. QED BY <2>1, <2>2
  <1>. HIDE DEF wanted, Other
  <1>6. CASE \E role \in {"user", "assistant"} : t = head \o <<Summary(role, told)>> \o tail
    <2>1. PICK role \in {"user", "assistant"} : t = head \o <<Summary(role, told)>> \o tail
      BY <1>6
    <2>2. t = Spliced(s, h, cut, Summary(role, told))
      BY <2>1 DEF Spliced
    <2>3. /\ Neutral(Summary(role, told))
          /\ Summary(role, told).own = 0 /\ Summary(role, told).quotes = told
      BY <1>2, SummaryType DEF Neutral
    <2>. QED BY <2>2, <2>3 DEF OwnSummary, told
  <1>7. CASE tail # <<>> /\ first \in {"user", "assistant"} /\ t = head \o <<merged>> \o Tail(tail)
    <2>1. cut + 1 \in 1..Len(s)
      BY <1>1, <1>7, <1>tail
    <2>2. Len(s) \in cut + 1..Len(s)
      BY <1>1, <2>1
    <2>3. Head(tail) = s[cut + 1] /\ Tail(tail) = SubSeq(s, cut + 1 + 1, Len(s))
      BY <1>1, <2>1, <2>2, HeadTailOfSubSeq
    <2>4. s[cut + 1] \in Message
      BY <1>1, <2>1, ElementOfSeq
    <2>5. /\ own \in Requests \cup {0} /\ quotes \in SUBSET Requests /\ told \subseteq quotes
          /\ own = s[cut + 1].own /\ first = s[cut + 1].role /\ first \in {"user", "assistant"}
      BY <1>2, <1>7, <2>3, <2>4, MessageFields
    <2>6. merged = [Summary(first, quotes) EXCEPT !.own = own]
      OBVIOUS
    <2>7. t = Spliced(s, h, cut + 1, merged)
      BY <1>7, <2>3 DEF Spliced
    <2>8. MiddleQuotes(s, h, cut) \subseteq quotes
      BY <2>5 DEF told
    <2>. HIDE DEF merged, first, own, quotes, tail, head
    <2>. QED BY <2>1, <2>5, <2>6, <2>7, <2>8, MergedForm
  <1>8. CASE tail = <<>> /\ s[h].role = "assistant" /\ t = head
    BY <1>8, <1>tail DEF NoSummary
  <1>9. \/ \E role \in {"user", "assistant"} : t = head \o <<Summary(role, told)>> \o tail
        \/ tail # <<>> /\ first \in {"user", "assistant"} /\ t = head \o <<merged>> \o Tail(tail)
        \/ tail = <<>> /\ s[h].role = "assistant" /\ t = head
    <2>. HIDE DEF head, tail, merged, first
    <2>. QED BY <1>3, <1>4, <1>5
  <1>. QED BY <1>6, <1>7, <1>8, <1>9

LEMMA AssembledSound ==
  ASSUME NEW s, Sound(s), NEW h \in 1..Len(s), Gap(s, h),
         NEW cut \in Nat, h < cut, NEW t, t = Assembled(s, h, cut)
  PROVE  /\ Sound(t) /\ t # <<>> /\ t[1] = s[1]
         /\ Called(t) \subseteq Called(s)
         /\ Answered(t) \subseteq Answered(s) \cup Called(s)
  <1>0. h \in Nat /\ cut + 1 \in Nat /\ h < cut + 1
    BY SoundSeq
  <1>1. ASSUME NEW m, OwnSummary(s, h, cut, t, m)
        PROVE  /\ Sound(t) /\ t # <<>> /\ t[1] = s[1]
               /\ Called(t) \subseteq Called(s)
               /\ Answered(t) \subseteq Answered(s) \cup Called(s)
    BY <1>1, SplicedSound DEF OwnSummary
  <1>2. CASE NoSummary(s, h, cut, t)
    BY <1>2, HeadSound DEF NoSummary
  <1>3. ASSUME NEW m, MergedSummary(s, h, cut, t, m)
        PROVE  /\ Sound(t) /\ t # <<>> /\ t[1] = s[1]
               /\ Called(t) \subseteq Called(s)
               /\ Answered(t) \subseteq Answered(s) \cup Called(s)
    BY <1>0, <1>3, SplicedSound DEF MergedSummary
  <1>. QED BY <1>1, <1>2, <1>3, AssembledForms

\* A log that compress makes.
LEMMA CompressedWhole ==
  ASSUME NEW s, Sound(s), s # <<>>, s[1].role = "system", ~TooShort(s),
         NEW t \in Compressed(s)
  PROVE  /\ Sound(t) /\ Whole(t) /\ t # <<>> /\ t[1].role = "system"
         /\ Called(t) \subseteq Called(s)
  <1>1. s \in Seq(Message)
    BY DEF Sound
  <1>2. PICK cut \in Cuts(s) :
          t = Sanitized(Assembled(s, HeadLen(s), TailCut(s, cut)))
    BY DEF Compressed
  <1>. DEFINE h == HeadLen(s)
              c == TailCut(s, cut)
              u == Assembled(s, h, c)
  <1>3. h \in 1..Len(s) /\ Gap(s, h)
    BY <1>1, HeadLenGap
  <1>4. c \in Nat /\ h < c
    BY <1>1, <1>2, CutsNat, TailCutBehind
  <1>5. t = Sanitized(u)
    BY <1>2
  <1>. HIDE DEF h, c
  <1>6. Sound(u) /\ u # <<>> /\ u[1] = s[1] /\ Called(u) \subseteq Called(s)
    BY <1>3, <1>4, AssembledSound
  <1>. HIDE DEF u
  <1>. QED BY <1>5, <1>6, SanitizedWhole

-----------------------------------------------------------------------------
(* The logs of a conversation, the snapshot and the result of the background. *)

\* A log that is sound, that begins with the instructions, and whose calls are
\* among the first n.
Kept(s, n) ==
  /\ Sound(s) /\ s # <<>> /\ s[1].role = "system"
  /\ Called(s) \cup Answered(s) \subseteq 1..n

\* A log is whole when an agent has it.  An older copy may take its place at any
\* time, so that each copy is sound, too.
LogInv ==
  /\ LogTypeOK
  /\ Kept(log, made)
  /\ pending = None \/ Kept(pending, made)
  /\ ready = None \/ Kept(ready, made)
  /\ stage = "asked" => Whole(log)

LEMMA KeptLog ==
  ASSUME NEW s, NEW n, Kept(s, n)
  PROVE  s \in Logs
  BY DEF Kept, Sound, Logs

LEMMA KeptLater ==
  ASSUME NEW s, NEW m \in Nat, NEW n \in Nat, m <= n, Kept(s, m)
  PROVE  Kept(s, n)
  <1>1. 1..m \subseteq 1..n
    OBVIOUS
  <1>. QED BY <1>1 DEF Kept

LEMMA SanitizedKept ==
  ASSUME NEW s, NEW n, Kept(s, n)
  PROVE  Kept(Sanitized(s), n) /\ Whole(Sanitized(s))
  <1>1. Sound(s) /\ s # <<>> /\ s[1].role = "system" /\ Called(s) \subseteq 1..n
    BY DEF Kept
  <1>. DEFINE t == Sanitized(s)
  <1>2. /\ Sound(t) /\ Whole(t) /\ t # <<>> /\ t[1] = s[1]
        /\ Called(t) \subseteq Called(s)
    BY <1>1, SanitizedWhole
  <1>. HIDE DEF t
  <1>. QED BY <1>1, <1>2 DEF Kept, Whole, t

LEMMA CompressedKept ==
  ASSUME NEW s, NEW n, Kept(s, n), ~TooShort(s), NEW t \in Compressed(s)
  PROVE  Kept(t, n) /\ Whole(t)
  <1>1. Sound(s) /\ s # <<>> /\ s[1].role = "system" /\ Called(s) \subseteq 1..n
    BY DEF Kept
  <1>2. /\ Sound(t) /\ Whole(t) /\ t # <<>> /\ t[1].role = "system"
        /\ Called(t) \subseteq Called(s)
    BY <1>1, CompressedWhole
  <1>. QED BY <1>1, <1>2 DEF Kept, Whole

\* What an agent says makes no call, or calls that are new.
LEMMA AppendKept ==
  ASSUME NEW s, NEW m \in Nat, NEW n \in Nat, m <= n, Kept(s, m),
         NEW r \in Message, Shape(r), r.of = 0, r.calls \subseteq m + 1..n
  PROVE  /\ Kept(Append(s, r), n)
         /\ Called(Append(s, r)) = Called(s) \cup r.calls
         /\ Answered(Append(s, r)) = Answered(s)
  <1>1. Sound(s) /\ s # <<>> /\ s[1].role = "system" /\ Called(s) \cup Answered(s) \subseteq 1..m
    BY DEF Kept
  <1>2. 1..m \cap (m + 1..n) = {} /\ 1..m \subseteq 1..n /\ m + 1..n \subseteq 1..n
    OBVIOUS
  <1>3. r.calls \cap (Called(s) \cup Answered(s)) = {}
    BY <1>1, <1>2
  <1>. DEFINE t == Append(s, r)
  <1>4. /\ Sound(t) /\ Called(t) = Called(s) \cup r.calls
        /\ Answered(t) = Answered(s) /\ t # <<>> /\ t[1] = s[1]
    BY <1>1, <1>3, AppendSound
  <1>. HIDE DEF t
  <1>5. Kept(t, n)
    BY <1>1, <1>2, <1>4 DEF Kept
  <1>. QED BY <1>4, <1>5 DEF t

LEMMA JudgedType ==
  ASSUME useless \in 0..2, Judged
  PROVE  useless' \in 0..2
  <1>1. {useless + 1, 2} \in SUBSET Nat /\ {useless + 1, 2} # {}
    OBVIOUS
  <1>2. Min({useless + 1, 2}) \in Nat /\ Min({useless + 1, 2}) <= 2
    BY <1>1, LeastNat
  <1>3. useless' \in {0, Min({useless + 1, 2})}
    BY Zenon DEF Judged
  <1>. QED BY <1>2, <1>3

LEMMA LogFacts ==
  ASSUME LogInv
  PROVE  /\ log \in Logs /\ stage \in LogStages
         /\ said \in 0..MaxRequests /\ made \in 0..MaxCalls /\ made \in Nat
         /\ deferred \in BOOLEAN /\ useless \in 0..2
         /\ Kept(log, made)
         /\ pending = None \/ Kept(pending, made)
         /\ ready = None \/ Kept(ready, made)
         /\ stage = "asked" => Whole(log)
  BY LogLimits DEF LogInv, LogTypeOK

\* What a step has to leave behind.
LEMMA LogStep ==
  ASSUME LogInv, stage' \in LogStages, said' \in 0..MaxRequests,
         made' \in 0..MaxCalls, made <= made', deferred' \in BOOLEAN, useless' \in 0..2,
         Kept(log', made'),
         pending' \in {None, pending} \/ Kept(pending', made),
         ready' \in {None, ready} \/ Kept(ready', made),
         stage' = "asked" => Whole(log')
  PROVE  LogInv'
  <1>1. made \in Nat /\ made' \in Nat
    BY LogFacts, LogLimits
  <1>2. pending' = None \/ Kept(pending', made')
    BY <1>1, LogFacts, KeptLater
  <1>3. ready' = None \/ Kept(ready', made')
    BY <1>1, LogFacts, KeptLater
  <1>4. log' \in Logs /\ {pending', ready'} \subseteq Logs \cup {None}
    BY <1>2, <1>3, KeptLog
  <1>5. LogTypeOK'
    BY <1>4 DEF LogTypeOK
  <1>. QED BY <1>2, <1>3, <1>5 DEF LogInv

\* The log that is trimmed, or compressed before an agent is asked, is whole.
LEMMA TrimKeeps ==
  ASSUME LogInv, NEW force, Trim(force)
  PROVE  /\ Kept(log', made) /\ Whole(log') /\ ready' \in {None, ready} /\ useless' \in 0..2
  <1>1. CASE ready # None
    <2>1. log' = Sanitized(ready) /\ ready' = None /\ useless' = useless
      BY <1>1 DEF Trim
    <2>. QED BY <1>1, <2>1, LogFacts, SanitizedKept
  <1>2. CASE ready = None /\ ~TooShort(log) /\ (force \/ useless < 2)
    <2>1. ready' = ready /\ \E s \in Compressed(log) : log' = Sanitized(s) /\ Judged
      BY <1>2 DEF Trim
    <2>2. PICK s \in Compressed(log) : log' = Sanitized(s) /\ Judged
      BY <2>1
    <2>3. Kept(s, made)
      BY <1>2, <2>2, LogFacts, CompressedKept
    <2>. QED BY <2>1, <2>2, <2>3, LogFacts, SanitizedKept, JudgedType
  <1>3. CASE ready = None /\ ~(~TooShort(log) /\ (force \/ useless < 2))
    <2>1. ready' = ready /\ log' = Sanitized(log) /\ useless' = useless
      BY <1>3 DEF Trim, RepairPairs
    <2>. QED BY <2>1, LogFacts, SanitizedKept
  <1>. QED BY <1>1, <1>2, <1>3

LEMMA PreflightKeeps ==
  ASSUME LogInv, NEW force, Preflight(force)
  PROVE  /\ Kept(log', made) /\ Whole(log') /\ ready' \in {None, ready} /\ useless' \in 0..2
  <1>1. CASE Trim(force)
    BY <1>1, TrimKeeps
  <1>2. CASE log' = Sanitized(log) /\ ready' = ready /\ useless' = useless
    BY <1>2, LogFacts, SanitizedKept
  <1>. QED BY <1>1, <1>2 DEF Preflight, RepairPairs

-----------------------------------------------------------------------------
(* An agent calls tools.                                                     *)

\* Results are appended for calls of the last message that have none.
LEMMA StubbedSound ==
  ASSUME NEW s, Sound(s), s # <<>>, NEW C \in SUBSET s[Len(s)].calls,
         C \cap Answered(s) = {}, NEW t, t = s \o Stubs(C)
  PROVE  /\ Sound(t) /\ t # <<>> /\ t[1] = s[1]
         /\ Called(t) = Called(s)
         /\ Answered(t) = Answered(s) \cup C
  <1>. DEFINE n == Len(s)
              k == Len(Stubs(C))
              g == [p \in DOMAIN t |-> IF p <= n THEN p ELSE n]
  <1>1. /\ s \in Seq(Message) /\ DOMAIN s = 1..n /\ n \in Nat /\ 1 <= n /\ n \in DOMAIN s
        /\ \A i \in DOMAIN s : s[i] \in Message /\ Shape(s[i])
    <2>1. s \in Seq(Message) /\ \A i \in DOMAIN s : Shape(s[i])
      BY DEF Sound
    <2>2. n \in Nat /\ n # 0 /\ DOMAIN s = 1..n
      BY <2>1, EmptySeq, LenProperties
    <2>. QED BY <2>1, <2>2, ElementOfSeq
  <1>2. C \in SUBSET Calls
    BY <1>1, MessageFields
  <1>3. /\ Stubs(C) \in Seq(Message) /\ k \in Nat /\ DOMAIN Stubs(C) = 1..k
        /\ \A j \in 1..k : \E c \in C : Stubs(C)[j] = Result(c)
        /\ \A c \in C : \E j \in 1..k : Stubs(C)[j] = Result(c)
        /\ \A i, j \in 1..k : Stubs(C)[i].of = Stubs(C)[j].of => i = j
    <2>1. Stubs(C) \in Seq(Message)
      BY <1>2, StubsType
    <2>2. k \in Nat /\ DOMAIN Stubs(C) = 1..k
      BY <2>1, LenProperties
    <2>3. /\ \A j \in DOMAIN Stubs(C) : \E c \in C : Stubs(C)[j] = Result(c)
          /\ \A c \in C : \E j \in DOMAIN Stubs(C) : Stubs(C)[j] = Result(c)
          /\ \A i, j \in DOMAIN Stubs(C) : Stubs(C)[i].of = Stubs(C)[j].of => i = j
      BY <1>2, StubsType
    <2>. HIDE DEF k
    <2>. QED BY <2>1, <2>2, <2>3
  <1>4. /\ t \in Seq(Message) /\ Len(t) = n + k
        /\ \A p \in 1..n + k : t[p] = IF p <= n THEN s[p] ELSE Stubs(C)[p - n]
    BY <1>1, <1>3, ConcatProperties
  <1>5. DOMAIN t = 1..n + k
    BY <1>4, LenProperties
  <1>. HIDE DEF n, k
  \* A place of s, or one behind it.
  <1>old. \A p \in 1..n : p \in DOMAIN t /\ p \in DOMAIN s /\ t[p] = s[p]
    <2>1. \A p \in 1..n : p \in 1..n + k /\ p <= n
      BY <1>1, <1>3
    <2>. QED BY <1>1, <1>4, <1>5, <2>1
  <1>new. \A j \in 1..k : n + j \in DOMAIN t /\ t[n + j] = Stubs(C)[j]
    <2>. TAKE j \in 1..k
    <2>. DEFINE q == n + j
    <2>0. \A x, y, z \in Nat : 1 <= z /\ z <= y => x + z \in 1..x + y /\ ~(x + z <= x) /\ (x + z) - x = z
      OBVIOUS
    <2>a. j \in Nat /\ 1 <= j /\ j <= k
      BY <1>3
    <2>1. q \in 1..n + k /\ ~(q <= n) /\ q - n = j
      BY <1>1, <1>3, <2>0, <2>a
    <2>. HIDE DEF q
    <2>2. q \in DOMAIN t /\ t[q] = Stubs(C)[j]
      BY <1>4, <1>5, <2>1
    <2>. QED BY <2>2 DEF q
  <1>6. \A p \in DOMAIN t : p \in Nat /\ (p \in 1..n \/ (n < p /\ p - n \in 1..k /\ n + (p - n) = p))
    BY <1>1, <1>3, <1>5
  <1>7. \A p \in DOMAIN t : g[p] = IF p <= n THEN p ELSE n
    OBVIOUS
  <1>8. g \in [DOMAIN t -> Nat]
    BY <1>1, <1>6
  <1>. HIDE DEF g
  <1>9. ASSUME NEW p \in DOMAIN t, p \in 1..n PROVE Copied(s, t, g, p) /\ g[p] = p
    <2>1. p <= n
      BY <1>1, <1>9
    <2>. QED BY <1>7, <1>9, <1>old, <2>1 DEF Copied
  <1>10. ASSUME NEW p \in DOMAIN t, n < p
         PROVE  MadeUp(s, t, g, p) /\ g[p] = n /\ t[p].of = Stubs(C)[p - n].of
    <2>1. g[p] = n
      BY <1>1, <1>6, <1>7, <1>10
    <2>2. p \notin 1..n
      BY <1>1, <1>6, <1>10
    <2>3. p - n \in 1..k /\ t[p] = Stubs(C)[p - n]
      BY <1>6, <1>new, <2>2
    <2>4. PICK c \in C : t[p] = Result(c)
      BY <1>3, <2>3
    <2>5. c \in s[n].calls \ Answered(s)
      BY DEF n
    <2>. QED BY <1>1, <2>1, <2>3, <2>4, <2>5 DEF MadeUp
  <1>11. ASSUME NEW p \in DOMAIN t, NEW q \in DOMAIN t, p < q
         PROVE  g[p] < g[q] \/ (g[p] = g[q] /\ MadeUp(s, t, g, q) /\ t[p].of # t[q].of)
    <2>1. CASE q \in 1..n
      <3>1. p \in 1..n
        BY <1>1, <1>6, <1>11, <2>1
      <3>. QED BY <1>9, <1>11, <2>1, <3>1
    <2>2. CASE n < q /\ p \in 1..n
      <3>1. g[p] = p /\ g[q] = n /\ MadeUp(s, t, g, q)
        BY <1>9, <1>10, <2>2
      <3>2. CASE p = n
        <4>1. s[g[q]].of = 0 /\ t[q].of # 0
          <5>1. MadeUp(s, t, g, q) /\ q \in DOMAIN t /\ Sound(s)
            BY <3>1
          <5>. QED BY <5>1, MadeUpResult, Zenon
        <4>2. t[p] = s[p]
          BY <1>old, <2>2
        <4>3. t[p].of = 0
          BY <3>1, <3>2, <4>1, <4>2
        <4>. QED BY <3>1, <3>2, <4>1, <4>3
      <3>3. CASE p # n
        <4>1. p \in Nat /\ n \in Nat /\ p <= n
          BY <1>1, <2>2
        <4>2. p < n
          BY <3>3, <4>1
        <4>. QED BY <3>1, <4>2
      <3>. QED BY <3>2, <3>3
    <2>3. CASE n < q /\ n < p
      <3>1. g[p] = n /\ g[q] = n /\ MadeUp(s, t, g, q)
        BY <1>10, <2>3
      <3>2. p - n # q - n /\ p - n \in 1..k /\ q - n \in 1..k
        BY <1>1, <1>6, <1>11, <2>3
      <3>3. t[p].of # t[q].of
        BY <1>3, <1>10, <2>3, <3>2
      <3>. QED BY <3>1, <3>3
    <2>. QED BY <1>6, <2>1, <2>2, <2>3
  <1>12. \A p \in DOMAIN t : Copied(s, t, g, p) \/ MadeUp(s, t, g, p)
    BY <1>6, <1>9, <1>10
  <1>13. Derived(s, t, g)
    BY <1>8, <1>11, <1>12 DEF Derived
  <1>14. \A p \in DOMAIN t : Shape(t[p])
    <2>. TAKE p \in DOMAIN t
    <2>1. CASE Copied(s, t, g, p)
      BY <1>1, <2>1 DEF Copied
    <2>2. CASE MadeUp(s, t, g, p)
      BY <2>2, MadeUpResult
    <2>. QED BY <1>12, <2>1, <2>2
  <1>15. Sound(t) /\ Called(t) \subseteq Called(s)
    BY <1>4, <1>13, <1>14, DerivedSound
  <1>16. Called(s) \subseteq Called(t)
    <2>1. ASSUME NEW c \in Called(s) PROVE c \in Called(t)
      <3>1. PICK i \in DOMAIN s : c \in s[i].calls
        BY CalledAnswered
      <3>. QED BY <1>1, <1>old, <3>1, CalledAnswered
    <2>. QED BY <2>1
  <1>17. Answered(s) \cup C \subseteq Answered(t)
    <2>1. ASSUME NEW c \in Answered(s) PROVE c \in Answered(t)
      <3>1. PICK i \in DOMAIN s : c = s[i].of /\ c # 0
        BY CalledAnswered
      <3>. QED BY <1>1, <1>old, <3>1, CalledAnswered
    <2>2. ASSUME NEW c \in C PROVE c \in Answered(t)
      <3>1. PICK j \in 1..k : Stubs(C)[j] = Result(c)
        BY <1>3
      <3>2. t[n + j].of = c /\ c # 0 /\ n + j \in DOMAIN t
        BY <1>2, <1>new, <3>1, ResultType
      <3>. QED BY <3>2, CalledAnswered
    <2>. QED BY <2>1, <2>2
  <1>18. ASSUME NEW c \in Answered(t) PROVE c \in Answered(s) \cup C
    <2>1. PICK p \in DOMAIN t : c = t[p].of /\ c # 0
      BY CalledAnswered
    <2>2. CASE p \in 1..n
      BY <1>old, <2>1, <2>2, CalledAnswered
    <2>3. CASE n < p
      <3>1. p - n \in 1..k /\ t[p].of = Stubs(C)[p - n].of
        BY <1>1, <1>6, <1>10, <2>3
      <3>2. PICK d \in C : Stubs(C)[p - n] = Result(d)
        BY <1>3, <3>1
      <3>. QED BY <1>2, <2>1, <3>1, <3>2, ResultType
    <2>. QED BY <1>6, <2>2, <2>3
  <1>19. t # <<>> /\ t[1] = s[1]
    <2>1. 1 \in 1..n
      BY <1>1
    <2>2. DOMAIN <<>> = {}
      BY EmptySeq, LenProperties
    <2>. QED BY <1>old, <2>1, <2>2
  <1>. QED BY <1>15, <1>16, <1>17, <1>18, <1>19

LEMMA CallToolsKeeps ==
  ASSUME LogInv, NEW n \in 1..2, NEW answered \in SUBSET Calls,
         NEW text \in BOOLEAN, CallTools(n, answered, text)
  PROVE  LogInv'
  <1>. DEFINE calls == made + 1..made + n
              r == Reply(calls, text)
              u == Append(log, r)
  <1>1. /\ stage = "asked" /\ answered \subseteq calls
        /\ made' = made + n /\ made + n <= MaxCalls
        /\ log' = log \o <<r>> \o Stubs(answered)
        /\ stage' = IF answered = calls THEN "asked" ELSE "broken"
        /\ UNCHANGED <<said, deferred, pending, ready, useless>>
    BY DEF CallTools, backgroundVars
  <1>2. /\ made \in Nat /\ made + n \in Nat /\ made <= made + n /\ made + n \in 0..MaxCalls
        /\ calls \in SUBSET Calls /\ 1..made \cap calls = {} /\ answered \subseteq 1..made + n
    BY <1>1, LogFacts, LogLimits DEF Calls
  <1>3. Kept(log, made) /\ Whole(log) /\ log \in Seq(Message)
    BY <1>1, LogFacts DEF Kept, Sound
  <1>4. r \in Message /\ Shape(r) /\ r.of = 0 /\ r.calls = calls
    BY <1>2, ReplyType
  <1>. HIDE DEF r
  <1>5. log \o <<r>> = u /\ Len(u) = Len(log) + 1 /\ u[Len(u)] = r
    BY <1>3, <1>4
  <1>6. /\ Kept(u, made + n) /\ Called(u) = Called(log) \cup calls
        /\ Answered(u) = Answered(log)
    <2>. HIDE DEF calls, u
    <2>1. r.calls \subseteq made + 1..made + n
      BY <1>4 DEF calls
    <2>. QED BY <1>2, <1>3, <1>4, <2>1, AppendKept DEF u
  <1>7. log' = u \o Stubs(answered)
    BY <1>1, <1>5
  <1>. HIDE DEF u, calls
  <1>8. /\ Sound(u) /\ u # <<>> /\ u[1].role = "system"
        /\ Called(u) \cup Answered(u) \subseteq 1..made + n
    BY <1>6 DEF Kept
  <1>9. answered \in SUBSET u[Len(u)].calls
    BY <1>1, <1>4, <1>5
  <1>10. answered \cap Answered(u) = {}
    BY <1>1, <1>2, <1>3, <1>6 DEF Kept
  <1>11. /\ Sound(log') /\ log' # <<>> /\ log'[1] = u[1]
         /\ Called(log') = Called(u)
         /\ Answered(log') = Answered(u) \cup answered
    BY <1>7, <1>8, <1>9, <1>10, StubbedSound
  <1>12. Kept(log', made')
    BY <1>1, <1>2, <1>8, <1>11 DEF Kept
  <1>13. stage' = "asked" => Whole(log')
    BY <1>1, <1>3, <1>6, <1>11 DEF Whole
  <1>. QED BY <1>1, <1>2, <1>12, <1>13, LogFacts, LogStep DEF LogStages

-----------------------------------------------------------------------------
(* The steps of a turn.                                                      *)

LEMMA SpeakKeeps ==
  ASSUME LogInv, Speak
  PROVE  LogInv'
  <1>. DEFINE r == Request(said + 1)
  <1>1. /\ said' = said + 1 /\ said < MaxRequests
        /\ log' = Append(Sanitized(log), r)
        /\ stage' = "turn"
        /\ UNCHANGED <<made, deferred, pending, ready, useless>>
    BY DEF Speak, backgroundVars
  <1>2. said' \in 0..MaxRequests /\ said + 1 \in Requests
    BY <1>1, LogFacts, LogLimits DEF Requests
  <1>3. r \in Message /\ Shape(r) /\ r.of = 0 /\ r.calls = {}
    BY <1>2, RequestType
  <1>4. Kept(Sanitized(log), made) /\ made \in Nat
    BY LogFacts, SanitizedKept
  <1>. HIDE DEF r
  <1>5. Kept(log', made')
    BY <1>1, <1>3, <1>4, AppendKept
  <1>. QED BY <1>1, <1>2, <1>4, <1>5, LogFacts, LogStep DEF LogStages

LEMMA AskKeeps ==
  ASSUME LogInv, Ask
  PROVE  LogInv'
  <1>1. /\ Preflight(FALSE) /\ stage' = "asked" /\ said' = said /\ made' = made
        /\ deferred' = FALSE /\ pending' \in {log, pending}
    BY DEF Ask, RunDeferred
  <1>2. /\ Kept(log', made) /\ Whole(log') /\ ready' \in {None, ready} /\ useless' \in 0..2
    BY <1>1, PreflightKeeps
  <1>3. pending' \in {None, pending} \/ Kept(pending', made)
    BY <1>1, LogFacts
  <1>4. stage' \in LogStages /\ deferred' \in BOOLEAN /\ (stage' = "asked" => Whole(log'))
    BY <1>1, <1>2 DEF LogStages
  <1>5. said' \in 0..MaxRequests /\ made' \in 0..MaxCalls /\ made <= made' /\ Kept(log', made')
    BY <1>1, <1>2, LogFacts
  <1>. QED BY <1>2, <1>3, <1>4, <1>5, LogStep

LEMMA AskPlannerKeeps ==
  ASSUME LogInv, AskPlanner
  PROVE  LogInv'
  <1>1. /\ Preflight(TRUE) /\ UNCHANGED <<stage, said, made, deferred, pending>>
    BY DEF AskPlanner
  <1>2. /\ Kept(log', made) /\ Whole(log') /\ ready' \in {None, ready} /\ useless' \in 0..2
    BY <1>1, PreflightKeeps
  <1>. QED BY <1>1, <1>2, LogFacts, LogStep

\* A reply that calls no tool is appended, or none.
LEMMA ReplyKept ==
  ASSUME LogInv, NEW text \in BOOLEAN,
         log' = Append(log, Reply({}, text)) \/ log' = log
  PROVE  Kept(log', made)
  <1>. DEFINE r == Reply({}, text)
  <1>1. r \in Message /\ Shape(r) /\ r.of = 0 /\ r.calls = {}
    BY ReplyType
  <1>2. Kept(log, made) /\ made \in Nat
    BY LogFacts
  <1>. HIDE DEF r
  <1>3. Kept(Append(log, r), made)
    BY <1>1, <1>2, AppendKept
  <1>. QED BY <1>2, <1>3 DEF r

LEMMA FinalizeKeeps ==
  ASSUME LogInv, Finalize
  PROVE  LogInv'
  <1>1. /\ log' = Append(log, Reply({}, TRUE)) \/ log' = log
        /\ stage' = "rest"
        /\ UNCHANGED <<said, made, pending, ready, useless>>
    BY DEF Finalize
  <1>2. deferred' \in BOOLEAN
    BY LogFacts DEF Finalize
  <1>3. Kept(log', made)
    BY <1>1, ReplyKept
  <1>. QED BY <1>1, <1>2, <1>3, LogFacts, LogStep DEF LogStages

LEMMA FailsKeeps ==
  ASSUME LogInv, ReplyFails
  PROVE  LogInv'
  <1>1. /\ log' = Append(log, Reply({}, FALSE)) \/ log' = log
        /\ stage' = "turn"
        /\ UNCHANGED <<said, made, deferred, pending, ready, useless>>
    BY DEF ReplyFails, backgroundVars
  <1>2. Kept(log', made)
    BY <1>1, ReplyKept
  <1>. QED BY <1>1, <1>2, LogFacts, LogStep DEF LogStages

LEMMA OverflowKeeps ==
  ASSUME LogInv, Overflow
  PROVE  LogInv'
  <1>1. /\ Trim(TRUE) /\ stage' = "again" /\ UNCHANGED <<said, made, deferred, pending>>
    BY DEF Overflow
  <1>2. /\ Kept(log', made) /\ ready' \in {None, ready} /\ useless' \in 0..2
    BY <1>1, TrimKeeps
  <1>. QED BY <1>1, <1>2, LogFacts, LogStep DEF LogStages

\* What is dropped are not the instructions; results may stay behind.
LEMMA SelfRepairKeeps ==
  ASSUME LogInv, LogSelfRepair
  PROVE  LogInv'
  <1>. DEFINE gone == {i \in DOMAIN log : log[i].role = "assistant" /\ ~log[i].text}
  <1>1. /\ stage' = "again" /\ UNCHANGED <<said, made, deferred, pending, ready, useless>>
        /\ log' = Sanitized(log) \/ log' = Without(log, gone)
    BY DEF LogSelfRepair, backgroundVars, RepairPairs, DropEmpty
  <1>2. Kept(log, made)
    BY LogFacts
  <1>3. CASE log' = Sanitized(log)
    BY <1>1, <1>2, <1>3, LogFacts, SanitizedKept, LogStep DEF LogStages
  <1>4. CASE log' = Without(log, gone)
    <2>1. /\ Sound(log) /\ log # <<>> /\ log[1].role = "system" /\ log \in Seq(Message)
          /\ Called(log) \cup Answered(log) \subseteq 1..made
      BY <1>2 DEF Kept, Sound
    <2>2. 1 \in DOMAIN log /\ 1 \notin gone
      BY <2>1, EmptySeq, LenProperties
    <2>. HIDE DEF gone
    <2>3. /\ Sound(log') /\ log' # <<>> /\ log'[1] = log[1]
          /\ Called(log') \subseteq Called(log)
          /\ Answered(log') \subseteq Answered(log) \cup Called(log)
      BY <1>4, <2>1, <2>2, WithoutSound
    <2>4. Kept(log', made)
      BY <2>1, <2>3 DEF Kept
    <2>. QED BY <1>1, <2>4, LogFacts, LogStep DEF LogStages
  <1>. QED BY <1>1, <1>3, <1>4

LEMMA CancelKeeps ==
  ASSUME LogInv, Cancel
  PROVE  LogInv'
  <1>1. stage' = "rest" /\ UNCHANGED <<log, said, made, deferred, pending, ready, useless>>
    BY DEF Cancel, backgroundVars
  <1>. QED BY <1>1, LogFacts, LogStep DEF LogStages

LEMMA BackgroundKeeps ==
  ASSUME LogInv, Background
  PROVE  LogInv'
  <1>1. /\ pending # None /\ pending' = None /\ UNCHANGED <<log, stage, said, made, deferred>>
    BY DEF Background
  <1>2. Kept(pending, made)
    BY <1>1, LogFacts
  <1>3. CASE TooShort(pending)
    <2>1. ready' = ready /\ useless' = useless
      BY <1>3 DEF Background
    <2>. QED BY <1>1, <2>1, LogFacts, LogStep
  <1>4. CASE ~TooShort(pending)
    <2>1. ready' \in Compressed(pending) /\ Judged
      BY <1>4 DEF Background
    <2>2. Kept(ready', made)
      BY <1>2, <1>4, <2>1, CompressedKept
    <2>. QED BY <1>1, <2>1, <2>2, LogFacts, JudgedType, LogStep
  <1>. QED BY <1>3, <1>4

LEMMA ElsewhereKeeps ==
  ASSUME LogInv, Elsewhere
  PROVE  LogInv'
  <1>1. Judged /\ UNCHANGED <<log, stage, said, made, deferred, pending, ready>>
    BY DEF Elsewhere, backgroundVars
  <1>. QED BY <1>1, LogFacts, JudgedType, LogStep

LEMMA LogInitial ==
  ASSUME LogInit
  PROVE  LogInv
  <1>. DEFINE m == Plain("system")
  <1>1. /\ log = <<m>> /\ stage = "rest" /\ said = 0 /\ made = 0
        /\ deferred = FALSE /\ pending = None /\ ready = None /\ useless = 0
    BY DEF LogInit
  <1>2. m \in Message /\ m.role = "system" /\ m.calls = {} /\ m.of = 0 /\ Shape(m)
    <2>1. m \in Message /\ m.role = "system" /\ m.calls = {} /\ m.of = 0
      BY PlainType DEF Roles
    <2>. HIDE DEF m
    <2>. QED BY <2>1 DEF Shape, IsResult
  <1>. HIDE DEF m
  <1>3. log \in Seq(Message) /\ log # <<>> /\ DOMAIN log = {1} /\ log[1] = m
    BY <1>1, <1>2
  <1>4. Sound(log)
    BY <1>2, <1>3 DEF Sound
  <1>5. Called(log) = {} /\ Answered(log) = {}
    BY <1>2, <1>3 DEF Called, Answered
  <1>6. Kept(log, made)
    BY <1>2, <1>3, <1>4, <1>5 DEF Kept
  <1>7. 0 \in 0..MaxRequests /\ 0 \in 0..MaxCalls /\ 0 \in 0..2 /\ "rest" \in LogStages
    BY LogLimits DEF LogStages
  <1>8. LogTypeOK
    <2>1. log \in Logs
      BY <1>6, KeptLog
    <2>. QED BY <1>1, <1>7, <2>1 DEF LogTypeOK
  <1>. QED BY <1>1, <1>6, <1>8 DEF LogInv

LEMMA LogStays ==
  ASSUME LogInv, [LogNext]_logVars
  PROVE  LogInv'
  <1>1. CASE UNCHANGED logVars
    <2>1. UNCHANGED <<log, stage, said, made, deferred, pending, ready, useless>>
      BY <1>1 DEF logVars
    <2>. QED BY <2>1, LogFacts, LogStep
  <1>2. ASSUME NEW n \in 1..2, NEW answered \in SUBSET Calls, NEW text \in BOOLEAN,
               CallTools(n, answered, text)
        PROVE  LogInv'
    BY <1>2, CallToolsKeeps
  <1>. QED BY <1>1, <1>2, SpeakKeeps, AskKeeps, AskPlannerKeeps, FinalizeKeeps, FailsKeeps,
              OverflowKeeps, SelfRepairKeeps, CancelKeeps, BackgroundKeeps, ElsewhereKeeps
           DEF LogNext

\* The log stays what an agent can read: its messages, the turn's stage and the
\* counts are what they are declared to be, and the instructions stay in front of
\* each of the copies.
THEOREM LogTyped == LogSpec => []LogTypeOK
  <1>1. LogInit => LogInv
    BY LogInitial
  <1>2. LogInv /\ [LogNext]_logVars => LogInv'
    BY LogStays
  <1>3. LogInv => LogTypeOK
    BY DEF LogInv
  <1>. QED BY <1>1, <1>2, <1>3, PTL DEF LogSpec

\* No agent is sent a log that a provider rejects, whatever compression, repair,
\* failures and older copies have made of it: each call is followed by its results
\* and each result answers a call.
THEOREM LogWellFormed == LogSpec => []AskedWellFormed
  <1>1. LogInit => LogInv
    BY LogInitial
  <1>2. LogInv /\ [LogNext]_logVars => LogInv'
    BY LogStays
  <1>3. LogInv => AskedWellFormed
    <2>. SUFFICES ASSUME LogInv, stage = "asked"
                  PROVE  /\ \A i \in DOMAIN log : Paired(log, i)
                         /\ Answered(log) \subseteq Called(log)
      BY DEF AskedWellFormed
    <2>1. Sound(log) /\ Whole(log)
      BY DEF LogInv, Kept
    <2>. QED BY <2>1, SoundPaired DEF Whole
  <1>. QED BY <1>1, <1>2, <1>3, PTL DEF LogSpec

-----------------------------------------------------------------------------
(* The latest request stays in the log.                                      *)

\* The calls before the request n are answered, so that nothing is put in front of
\* it, and once it is behind the protected messages no message of the user's role
\* follows: _find_tail_cut takes it for the last one.
RequestSafe(s, n) ==
  /\ \A i \in DOMAIN s : s[i].own \in 0..n /\ (s[i].own # 0 => s[i].role = "user")
  /\ \A r \in DOMAIN s : s[r].own = n /\ n # 0 =>
       /\ \A i \in 1..r : s[i].calls \subseteq Answered(s)
       /\ r <= ProtectFirst \/ \A i \in r + 1..Len(s) : s[i].role # "user"

\* Numbers that grow are as large as their places.
LEMMA Growing ==
  ASSUME NEW n \in Nat, NEW f, \A p \in 1..n : f[p] \in Nat \ {0},
         \A p, q \in 1..n : p < q => f[p] < f[q]
  PROVE  \A p \in 1..n : p <= f[p]
  <1>. DEFINE H == {p \in 1..n : ~(p <= f[p])}
  <1>1. SUFFICES ASSUME H # {} PROVE FALSE
    OBVIOUS
  <1>2. H \in SUBSET Nat
    OBVIOUS
  <1>3. PICK p \in H : \A q \in H : ~(q < p)
    BY <1>1, <1>2, LeastOf
  <1>4. p \in 1..n /\ f[p] < p /\ f[p] \in Nat \ {0}
    BY <1>3
  <1>5. p - 1 \in 1..n /\ p - 1 < p
    BY <1>4
  <1>6. p - 1 <= f[p - 1] /\ f[p - 1] \in Nat
    BY <1>3, <1>5
  <1>7. f[p - 1] < f[p]
    BY <1>4, <1>5
  <1>. QED BY <1>4, <1>5, <1>6, <1>7

LEMMA ResultOwn ==
  ASSUME NEW c \in Calls
  PROVE  Result(c).own = 0 /\ Result(c).role = "tool_result"
  <1>1. Plain("tool_result") \in Message /\ Plain("tool_result").own = 0
        /\ Plain("tool_result").role = "tool_result"
    BY PlainType DEF Roles
  <1>. QED BY <1>1 DEF Result, Message

\* What is kept in order with its answers keeps the request safe.
LEMMA GrownSafe ==
  ASSUME NEW s, Sound(s), NEW n \in Nat, RequestSafe(s, n), NEW t \in Seq(Message), NEW gone,
         Grown(s, t, gone), Called(t) \cap Answered(s) \subseteq Answered(t)
  PROVE  RequestSafe(t, n)
  <1>1. /\ s \in Seq(Message) /\ Len(s) \in Nat /\ DOMAIN s = 1..Len(s)
        /\ \A i \in DOMAIN s : s[i] \in Message /\ Shape(s[i])
    BY SoundSeq
  <1>2. Len(t) \in Nat /\ DOMAIN t = 1..Len(t)
    BY LenProperties
  <1>3. PICK g : /\ Derived(s, t, g)
                 /\ \A p \in DOMAIN t : Copied(s, t, g, p) \/ MadeUp(s, t, g, p)
    BY DEF Grown
  <1>4. /\ \A p, q \in DOMAIN t : p < q =>
             g[p] < g[q] \/ (g[p] = g[q] /\ MadeUp(s, t, g, q))
        /\ \A p \in DOMAIN t : g[p] \in DOMAIN s
    BY <1>3 DEF Derived, Copied, MadeUp
  <1>made. ASSUME NEW p \in DOMAIN t, MadeUp(s, t, g, p)
           PROVE  /\ t[p].own = 0 /\ t[p].role = "tool_result" /\ t[p].calls = {}
                  /\ ~(s[g[p]].calls \subseteq Answered(s))
    <2>1. PICK c \in s[g[p]].calls \ Answered(s) : t[p] = Result(c)
      BY <1>made DEF MadeUp
    <2>2. c \in Calls
      BY <1>1, <1>4, <2>1, MessageFields
    <2>. QED BY <2>1, <2>2, ResultOwn, ResultType
  <1>copied. ASSUME NEW p \in DOMAIN t, ~MadeUp(s, t, g, p)
             PROVE  g[p] \in DOMAIN s /\ t[p] = s[g[p]]
    BY <1>3, <1>copied DEF Copied
  <1>5. \A p \in DOMAIN t : t[p].own \in 0..n /\ (t[p].own # 0 => t[p].role = "user")
    BY <1>made, <1>copied DEF RequestSafe
  <1>6. ASSUME NEW r \in DOMAIN t, t[r].own = n, n # 0
        PROVE  /\ \A p \in 1..r : t[p].calls \subseteq Answered(t)
               /\ r <= ProtectFirst \/ \A p \in r + 1..Len(t) : t[p].role # "user"
    <2>1. g[r] \in DOMAIN s /\ t[r] = s[g[r]]
      BY <1>6, <1>made, <1>copied
    <2>2. /\ \A i \in 1..g[r] : s[i].calls \subseteq Answered(s)
          /\ g[r] <= ProtectFirst \/ \A i \in g[r] + 1..Len(s) : s[i].role # "user"
      BY <1>6, <2>1 DEF RequestSafe
    <2>3. \A p \in 1..r : p \in DOMAIN t /\ g[p] \in 1..g[r] /\ ~MadeUp(s, t, g, p)
      <3>. TAKE p \in 1..r
      <3>1. p \in DOMAIN t /\ (p < r \/ p = r)
        BY <1>2
      <3>2. g[p] \in 1..g[r]
        BY <1>1, <1>4, <3>1
      <3>. QED BY <1>made, <2>2, <3>1, <3>2
    <2>4. ASSUME NEW p \in 1..r PROVE t[p].calls \subseteq Answered(t)
      <3>1. t[p] = s[g[p]] /\ p \in DOMAIN t
        BY <1>copied, <2>3
      <3>2. t[p].calls \subseteq Answered(s)
        BY <2>2, <2>3, <3>1
      <3>. QED BY <3>1, <3>2, CalledAnswered
    <2>5. CASE g[r] <= ProtectFirst
      <3>1. /\ \A p \in 1..r : g[p] \in Nat \ {0}
            /\ \A p, q \in 1..r : p < q => g[p] < g[q]
        BY <1>1, <1>4, <2>3
      <3>2. r \in Nat /\ r \in 1..r
        BY <1>2
      <3>3. r <= g[r]
        BY <3>1, <3>2, Growing
      <3>4. g[r] \in Nat
        BY <3>1, <3>2
      <3>. QED BY <2>4, <2>5, <3>2, <3>3, <3>4, LogLimits
    <2>6. CASE \A i \in g[r] + 1..Len(s) : s[i].role # "user"
      <3>1. ASSUME NEW p \in r + 1..Len(t) PROVE t[p].role # "user"
        <4>1. p \in DOMAIN t /\ r < p
          BY <1>2
        <4>2. CASE MadeUp(s, t, g, p)
          BY <1>made, <4>1, <4>2
        <4>3. CASE ~MadeUp(s, t, g, p)
          <5>1. g[r] < g[p] /\ g[p] \in DOMAIN s /\ t[p] = s[g[p]]
            BY <1>4, <1>copied, <4>1, <4>3
          <5>2. g[p] \in g[r] + 1..Len(s)
            BY <1>1, <2>1, <5>1
          <5>. QED BY <2>6, <5>1, <5>2
        <4>. QED BY <4>2, <4>3
      <3>. QED BY <2>4, <3>1
    <2>. QED BY <2>2, <2>5, <2>6
  <1>. QED BY <1>5, <1>6 DEF RequestSafe

\* sanitize_tool_pairs keeps the messages that answer nothing, and the request safe.
LEMMA SanitizedSafe ==
  ASSUME NEW s, Sound(s), s # <<>>, s[1].role = "system", NEW n \in Nat, RequestSafe(s, n)
  PROVE  /\ RequestSafe(Sanitized(s), n)
         /\ \A i \in DOMAIN s : s[i].of = 0 => \E p \in DOMAIN Sanitized(s) : Sanitized(s)[p] = s[i]
  <1>. DEFINE t == Sanitized(s)
  <1>1. Sound(t) /\ Whole(t) /\ Grown(s, t, Orphans(s))
    BY SanitizedWhole
  <1>. HIDE DEF t
  <1>2. t \in Seq(Message)
    BY <1>1, SoundSeq
  <1>3. Called(t) \cap Answered(s) \subseteq Answered(t)
    BY <1>1 DEF Whole
  <1>4. RequestSafe(t, n)
    BY <1>1, <1>2, <1>3, GrownSafe
  <1>5. \A i \in DOMAIN s : s[i].of = 0 => i \notin Orphans(s)
    BY DEF Orphans
  <1>6. \A i \in DOMAIN s : s[i].of = 0 => \E p \in DOMAIN t : t[p] = s[i]
    BY <1>1, <1>5 DEF Grown
  <1>. QED BY <1>4, <1>6 DEF t

\* Requests are no results.
LEMMA RequestOf ==
  ASSUME NEW s, Sound(s), NEW n, RequestSafe(s, n), NEW i \in DOMAIN s, s[i].own # 0
  PROVE  s[i].of = 0 /\ s[i].role = "user" /\ ~IsResult(s[i])
  <1>1. s[i].role = "user" /\ Shape(s[i])
    BY SoundSeq DEF RequestSafe
  <1>. QED BY <1>1 DEF Shape, IsResult

LEMMA DropEmptySafe ==
  ASSUME NEW s, Sound(s), NEW n \in Nat, RequestSafe(s, n), NEW gone,
         \A i \in gone : s[i].role = "assistant"
  PROVE  /\ RequestSafe(Without(s, gone), n)
         /\ \A i \in DOMAIN s : s[i].own # 0 =>
              \E p \in DOMAIN Without(s, gone) : Without(s, gone)[p] = s[i]
  <1>. DEFINE t == Without(s, gone)
  <1>1. Sound(t) /\ Grown(s, t, gone)
    BY WithoutSound
  <1>. HIDE DEF t
  <1>2. t \in Seq(Message)
    BY <1>1, SoundSeq
  <1>3. \A i \in DOMAIN s : s[i].of # 0 => i \notin gone
    BY SoundSeq DEF Shape, IsResult
  <1>4. \A i \in DOMAIN s : i \notin gone => \E p \in DOMAIN t : t[p] = s[i]
    BY <1>1 DEF Grown
  <1>5. Answered(s) \subseteq Answered(t)
    <2>1. ASSUME NEW c \in Answered(s) PROVE c \in Answered(t)
      <3>1. PICK i \in DOMAIN s : c = s[i].of /\ c # 0
        BY CalledAnswered
      <3>2. PICK p \in DOMAIN t : t[p] = s[i]
        BY <1>3, <1>4, <3>1
      <3>. QED BY <3>1, <3>2, CalledAnswered
    <2>. QED BY <2>1
  <1>6. RequestSafe(t, n)
    BY <1>1, <1>2, <1>5, GrownSafe
  <1>7. \A i \in DOMAIN s : s[i].own # 0 => i \notin gone
    BY DEF RequestSafe
  <1>. QED BY <1>4, <1>6, <1>7 DEF t

\* The answer of a call stands behind it, with only results between them.
LEMMA AnswerBehind ==
  ASSUME NEW s, Sound(s), NEW i \in DOMAIN s, NEW c \in s[i].calls, c \in Answered(s)
  PROVE  \E j \in DOMAIN s : s[j].of = c /\ i < j /\ \A l \in i + 1..j : IsResult(s[l])
  <1>1. PICK j \in DOMAIN s : c = s[j].of /\ c # 0
    BY CalledAnswered
  <1>. QED BY <1>1 DEF Sound

\* The head of a log, and what is behind the cut, keep the answers of their calls.
LEMMA HeadAnswers ==
  ASSUME NEW s, Sound(s), NEW h \in 1..Len(s), Gap(s, h), NEW t, HasHead(s, t, h)
  PROVE  \A i \in 1..h : s[i].calls \cap Answered(s) \subseteq Answered(t)
  <1>1. /\ Len(s) \in Nat /\ DOMAIN s = 1..Len(s) /\ h \in Nat /\ 1 <= h /\ h <= Len(s)
    BY SoundSeq
  <1>2. ASSUME NEW i \in 1..h, NEW c \in s[i].calls, c \in Answered(s) PROVE c \in Answered(t)
    <2>1. PICK j \in DOMAIN s : s[j].of = c /\ i < j /\ \A l \in i + 1..j : IsResult(s[l])
      BY <1>1, <1>2, AnswerBehind
    <2>2. j <= h
      <3>1. SUFFICES ASSUME ~(j <= h) PROVE FALSE
        OBVIOUS
      <3>2. i \in Nat /\ j \in Nat /\ i <= h /\ h < j /\ j <= Len(s)
        BY <1>1, <3>1
      <3>a. \A x, y, z \in Nat : x <= y /\ y < z => y + 1 \in x + 1..z
        OBVIOUS
      <3>b. h + 1 \in i + 1..j
        BY <1>1, <3>2, <3>a
      <3>c. \A x, y, z \in Nat : x < y /\ y <= z => x # z
        OBVIOUS
      <3>3. h + 1 \in i + 1..j /\ h # Len(s)
        BY <1>1, <3>2, <3>b, <3>c
      <3>. QED BY <2>1, <3>3 DEF Gap
    <2>3. j \in 1..h
      BY <1>1, <2>2
    <2>4. c # 0
      BY <1>2, CalledAnswered
    <2>. QED BY <2>1, <2>3, <2>4, CalledAnswered DEF HasHead
  <1>. QED BY <1>2

LEMMA TailAnswers ==
  ASSUME NEW s, Sound(s), NEW cut \in Nat, NEW t, HasTail(s, t, cut)
  PROVE  \A i \in cut + 1..Len(s) : s[i].calls \cap Answered(s) \subseteq Answered(t)
  <1>1. Len(s) \in Nat /\ DOMAIN s = 1..Len(s)
    BY SoundSeq
  <1>2. ASSUME NEW i \in cut + 1..Len(s), NEW c \in s[i].calls, c \in Answered(s)
        PROVE  c \in Answered(t)
    <2>1. i \in DOMAIN s
      BY <1>1
    <2>2. PICK j \in DOMAIN s : s[j].of = c /\ i < j
      BY <1>2, <2>1, AnswerBehind
    <2>3. j \in cut + 1..Len(s)
      BY <1>1, <2>2
    <2>4. PICK p \in DOMAIN t : t[p] = s[j]
      BY <2>3 DEF HasTail
    <2>5. c # 0
      BY <1>2, CalledAnswered
    <2>. QED BY <2>2, <2>4, <2>5, CalledAnswered
  <1>. QED BY <1>2

\* A request in the head is one of the messages that are protected.
LEMMA HeadRequest ==
  ASSUME NEW s, Sound(s), NEW n \in Nat \ {0}, RequestSafe(s, n), NEW h \in 1..Len(s),
         \A i \in ProtectFirst + 1..h : IsResult(s[i]),
         NEW r \in 1..h, s[r].own = n
  PROVE  r <= ProtectFirst
  <1>1. Len(s) \in Nat /\ DOMAIN s = 1..Len(s) /\ ProtectFirst \in Nat
    BY SoundSeq, LogLimits
  <1>2. r \in DOMAIN s
    BY <1>1
  <1>3. ~IsResult(s[r])
    BY <1>2, RequestOf
  <1>4. r \notin ProtectFirst + 1..h
    BY <1>3
  <1>. QED BY <1>1, <1>4

LEMMA SplicedSafe ==
  ASSUME NEW s, Sound(s), NEW n \in Nat, RequestSafe(s, n), NEW h \in 1..Len(s), Gap(s, h),
         ProtectFirst <= h, \A i \in ProtectFirst + 1..h : IsResult(s[i]),
         NEW cut \in Nat, h < cut, NEW m, Neutral(m),
         m.own = 0 \/ (cut \in DOMAIN s /\ m.own = s[cut].own /\ m.role = s[cut].role),
         NEW t, t = Spliced(s, h, cut, m)
  PROVE  RequestSafe(t, n)
  <1>. DEFINE At(p) == cut + (p - (h + 1))
  <1>1. /\ s \in Seq(Message) /\ Len(s) \in Nat /\ DOMAIN s = 1..Len(s)
        /\ h \in Nat /\ 1 <= h /\ h <= Len(s) /\ ProtectFirst \in Nat
    BY SoundSeq, LogLimits
  <1>2. /\ t \in Seq(Message)
        /\ \A p \in DOMAIN t : p \in Nat /\ Spot(s, t, h, cut, m, p)
        /\ HasHead(s, t, h) /\ HasTail(s, t, cut)
    BY <1>1, SplicedSpots
  <1>3. DOMAIN t = 1..Len(t) /\ Len(t) \in Nat
    BY <1>2, LenProperties
  <1>4. ASSUME NEW p \in DOMAIN t
        PROVE  \/ p \in 1..h /\ p \in DOMAIN s /\ t[p] = s[p]
               \/ p = h + 1 /\ t[p] = m
               \/ h + 1 < p /\ At(p) \in DOMAIN s /\ At(p) \in cut + 1..Len(s) /\ t[p] = s[At(p)]
    <2>1. p \in Nat /\ Spot(s, t, h, cut, m, p) /\ 1 <= p
      BY <1>2, <1>3
    <2>2. h + 1 < p /\ At(p) \in DOMAIN s => At(p) \in cut + 1..Len(s)
      BY <1>1, <2>1
    <2>3. p <= h => p \in 1..h
      BY <1>1, <2>1
    <2>. QED BY <2>1, <2>2, <2>3 DEF Spot
  <1>5. \A p, q \in DOMAIN t : h + 1 < p /\ p <= q => h + 1 < q /\ At(p) <= At(q)
    BY <1>1, <1>2
  <1>6. \A p, q \in DOMAIN t : h + 1 < p /\ p < q => h + 1 < q /\ At(p) < At(q)
    BY <1>1, <1>2
  <1>. HIDE DEF At
  <1>7. /\ \A i \in 1..h : s[i].calls \cap Answered(s) \subseteq Answered(t)
        /\ \A i \in cut + 1..Len(s) : s[i].calls \cap Answered(s) \subseteq Answered(t)
    <2>1. \A i \in 1..h : s[i].calls \cap Answered(s) \subseteq Answered(t)
      BY <1>2, HeadAnswers
    <2>2. \A i \in cut + 1..Len(s) : s[i].calls \cap Answered(s) \subseteq Answered(t)
      BY <1>2, TailAnswers
    <2>. QED BY <2>1, <2>2
  <1>8. /\ \A i \in DOMAIN s : s[i].own \in 0..n /\ (s[i].own # 0 => s[i].role = "user")
        /\ \A r \in DOMAIN s : s[r].own = n /\ n # 0 =>
             /\ \A i \in 1..r : s[i].calls \subseteq Answered(s)
             /\ r <= ProtectFirst \/ \A i \in r + 1..Len(s) : s[i].role # "user"
    BY DEF RequestSafe
  <1>9. m.calls = {}
    BY DEF Neutral
  <1>10. \A p \in DOMAIN t : t[p].own \in 0..n /\ (t[p].own # 0 => t[p].role = "user")
    <2>1. m.own \in 0..n /\ (m.own # 0 => m.role = "user")
      BY <1>8
    <2>. QED BY <1>4, <1>8, <2>1
  \* The calls in front of a request and behind none that is summarized.
  <1>11. ASSUME n # 0, NEW r \in DOMAIN t, NEW x \in DOMAIN s, s[x].own = n, r \in 1..h => h <= x \/ r = x,
                r = h + 1 => cut <= x, h + 1 < r => At(r) = x /\ cut <= x
         PROVE  \A p \in 1..r : t[p].calls \subseteq Answered(t)
    <2>. TAKE p \in 1..r
    <2>1. \A i \in 1..x : s[i].calls \subseteq Answered(s)
      BY <1>8, <1>11
    <2>2. p \in DOMAIN t /\ p <= r /\ x \in Nat /\ r \in Nat
      BY <1>1, <1>3
    <2>3. CASE p \in 1..h /\ t[p] = s[p]
      <3>1. p \in 1..x
        BY <1>1, <1>4, <1>11, <2>2, <2>3
      <3>. QED BY <1>7, <2>1, <2>3, <3>1
    <2>4. CASE p = h + 1 /\ t[p] = m
      BY <1>9, <2>4
    <2>5. CASE h + 1 < p /\ At(p) \in cut + 1..Len(s) /\ t[p] = s[At(p)]
      <3>1. At(p) <= x
        BY <1>5, <1>11, <2>2, <2>5
      <3>2. At(p) \in 1..x
        BY <2>2, <2>5, <3>1
      <3>. QED BY <1>7, <2>1, <2>5, <3>2
    <2>. QED BY <1>4, <2>2, <2>3, <2>4, <2>5
  \* No message of the user's role behind a request behind the head.
  <1>12. ASSUME n # 0, NEW r \in DOMAIN t, NEW x \in DOMAIN s, s[x].own = n, cut <= x, h + 1 <= r,
                r = h + 1 \/ At(r) = x, r = h + 1 => x = cut
         PROVE  \A p \in r + 1..Len(t) : t[p].role # "user"
    <2>. TAKE p \in r + 1..Len(t)
    <2>1. p \in DOMAIN t /\ r < p /\ x \in Nat /\ r \in Nat /\ h + 1 < p /\ p \notin 1..h /\ p # h + 1
      BY <1>1, <1>3, <1>12
    <2>2. ~(x <= ProtectFirst)
      BY <1>1, <1>12, <2>1
    <2>3. \A i \in x + 1..Len(s) : s[i].role # "user"
      BY <1>8, <1>12, <2>2
    <2>4. At(p) \in DOMAIN s /\ At(p) \in cut + 1..Len(s) /\ t[p] = s[At(p)]
      BY <1>4, <2>1
    <2>5. x < At(p)
      <3>1. CASE r = h + 1
        BY <1>1, <1>12, <2>4, <3>1
      <3>2. CASE r # h + 1
        <4>1. h + 1 < r
          BY <1>1, <1>12, <2>1, <3>2
        <4>. QED BY <1>6, <1>12, <2>1, <3>2, <4>1
      <3>. QED BY <3>1, <3>2
    <2>6. At(p) \in x + 1..Len(s)
      BY <1>1, <2>1, <2>4, <2>5
    <2>. QED BY <2>3, <2>4, <2>6
  <1>13. ASSUME NEW r \in DOMAIN t, t[r].own = n, n # 0
         PROVE  /\ \A p \in 1..r : t[p].calls \subseteq Answered(t)
                /\ r <= ProtectFirst \/ \A p \in r + 1..Len(t) : t[p].role # "user"
    <2>0. r \in Nat
      BY <1>2
    <2>1. CASE r \in 1..h /\ r \in DOMAIN s /\ t[r] = s[r]
      <3>1. r <= ProtectFirst
        BY <1>13, <2>1, HeadRequest
      <3>2. r # h + 1 /\ ~(h + 1 < r)
        BY <1>1, <2>1
      <3>3. \A p \in 1..r : t[p].calls \subseteq Answered(t)
        BY <1>11, <1>13, <2>1, <3>2
      <3>. QED BY <3>1, <3>3
    <2>2. CASE r = h + 1 /\ t[r] = m
      <3>1. cut \in DOMAIN s /\ s[cut].own = n /\ n # 0
        BY <1>13, <2>2
      <3>2. r \notin 1..h /\ ~(h + 1 < r) /\ h + 1 <= r /\ cut <= cut
        BY <1>1, <2>2
      <3>3. \A p \in 1..r : t[p].calls \subseteq Answered(t)
        BY <1>11, <3>1, <3>2
      <3>4. \A p \in r + 1..Len(t) : t[p].role # "user"
        BY <1>12, <2>2, <3>1, <3>2
      <3>. QED BY <3>3, <3>4
    <2>3. CASE h + 1 < r /\ At(r) \in DOMAIN s /\ At(r) \in cut + 1..Len(s) /\ t[r] = s[At(r)]
      <3>1. r \notin 1..h /\ r # h + 1 /\ h + 1 <= r /\ cut <= At(r) /\ s[At(r)].own = n /\ n # 0
        BY <1>1, <1>13, <2>0, <2>3
      <3>2. \A p \in 1..r : t[p].calls \subseteq Answered(t)
        BY <1>11, <2>3, <3>1
      <3>3. \A p \in r + 1..Len(t) : t[p].role # "user"
        BY <1>12, <2>3, <3>1
      <3>. QED BY <3>2, <3>3
    <2>. QED BY <1>4, <2>1, <2>2, <2>3
  <1>. QED BY <1>10, <1>13 DEF RequestSafe

LEMMA HeadSafe ==
  ASSUME NEW s, Sound(s), NEW n \in Nat, RequestSafe(s, n), NEW h \in 1..Len(s), Gap(s, h),
         \A i \in ProtectFirst + 1..h : IsResult(s[i]), NEW t, t = SubSeq(s, 1, h)
  PROVE  RequestSafe(t, n) /\ HasHead(s, t, h)
  <1>1. /\ s \in Seq(Message) /\ Len(s) \in Nat /\ DOMAIN s = 1..Len(s)
        /\ h \in Nat /\ 1 <= h /\ h <= Len(s)
    BY SoundSeq
  <1>2. DOMAIN t = 1..h /\ \A i \in 1..h : i \in DOMAIN t /\ t[i] = s[i] /\ i \in DOMAIN s
    <2>1. 1 \in Nat \ {0} /\ h - 1 + 1 = h /\ \A p \in 1..h : 1 - 1 + p = p
      BY <1>1
    <2>2. /\ t \in Seq(Message) /\ Len(t) = IF 1 <= h THEN h - 1 + 1 ELSE 0
          /\ \A p \in 1..Len(t) : 1 - 1 + p \in DOMAIN s /\ t[p] = s[1 - 1 + p]
      BY <1>1, <2>1, PartOf
    <2>. QED BY <1>1, <2>1, <2>2, LenProperties
  <1>head. HasHead(s, t, h)
    BY <1>2 DEF HasHead
  <1>3. \A i \in 1..h : s[i].calls \cap Answered(s) \subseteq Answered(t)
    BY <1>head, HeadAnswers
  <1>4. ASSUME NEW r \in DOMAIN t, t[r].own = n, n # 0
        PROVE  /\ \A p \in 1..r : t[p].calls \subseteq Answered(t)
               /\ r <= ProtectFirst
    <2>1. r <= ProtectFirst
      BY <1>2, <1>4, HeadRequest
    <2>2. \A i \in 1..r : s[i].calls \subseteq Answered(s) /\ i \in 1..h
      BY <1>1, <1>2, <1>4 DEF RequestSafe
    <2>. QED BY <1>2, <1>3, <2>1, <2>2
  <1>5. \A p \in DOMAIN t : t[p].own \in 0..n /\ (t[p].own # 0 => t[p].role = "user")
    BY <1>2 DEF RequestSafe
  <1>. QED BY <1>2, <1>head, <1>4, <1>5 DEF RequestSafe

-----------------------------------------------------------------------------
(* What compress does with the latest request.                               *)

\* A message that answers nothing quotes the request.
Told(t, n) == \E p \in DOMAIN t : t[p].of = 0 /\ n \in t[p].quotes

\* The head and the cut of a log, as compress chooses them.
CutAt(s, h, cut) ==
  /\ Sound(s) /\ ~TooShort(s)
  /\ h \in 1..Len(s) /\ Gap(s, h) /\ ProtectFirst <= h
  /\ \A i \in ProtectFirst + 1..h : IsResult(s[i])
  /\ cut \in Nat /\ h < cut
  /\ \A r \in UserBehind(s, h) :
       (\A i \in UserBehind(s, h) : i <= r) => cut < r \/ cut = h + 1

\* It is in the head or in the tail, or it is the one message that is cut out.
LEMMA RequestPlace ==
  ASSUME NEW s, NEW h, NEW cut, CutAt(s, h, cut), NEW n \in Nat \ {0}, RequestSafe(s, n),
         NEW r \in DOMAIN s, s[r].own = n
  PROVE  r \in 1..h \/ r \in cut + 1..Len(s) \/ (r = h + 1 /\ cut = h + 1)
  <1>1. /\ Sound(s) /\ h \in 1..Len(s) /\ ProtectFirst <= h /\ cut \in Nat /\ h < cut
        /\ \A x \in UserBehind(s, h) :
             (\A i \in UserBehind(s, h) : i <= x) => cut < x \/ cut = h + 1
    BY DEF CutAt
  <1>2. Len(s) \in Nat /\ DOMAIN s = 1..Len(s) /\ ProtectFirst \in Nat /\ h \in Nat
    BY <1>1, SoundSeq, LogLimits
  <1>3. SUFFICES ASSUME r \notin 1..h PROVE r \in cut + 1..Len(s) \/ (r = h + 1 /\ cut = h + 1)
    OBVIOUS
  <1>4. r \in h + 1..Len(s) /\ r \in Nat
    BY <1>2, <1>3
  <1>5. s[r].role = "user"
    BY <1>1, RequestOf
  <1>6. r \in UserBehind(s, h)
    BY <1>4, <1>5 DEF UserBehind
  <1>7. ~(r <= ProtectFirst)
    BY <1>1, <1>2, <1>4
  <1>8. \A i \in r + 1..Len(s) : s[i].role # "user"
    BY <1>7 DEF RequestSafe
  <1>9. ASSUME NEW i \in UserBehind(s, h) PROVE i <= r
    <2>1. i \in h + 1..Len(s) /\ s[i].role = "user"
      BY <1>9 DEF UserBehind
    <2>2. i \notin r + 1..Len(s)
      BY <1>8, <2>1
    <2>. QED BY <1>2, <1>4, <2>1, <2>2
  <1>10. cut < r \/ cut = h + 1
    BY <1>1, <1>6, <1>9
  <1>. QED BY <1>1, <1>2, <1>4, <1>10

\* One message that is cut out is quoted, unless it begins with a summary.
LEMMA OneQuoted ==
  ASSUME NEW s, Sound(s), NEW h \in 1..Len(s), h + 1 <= Len(s), s[h + 1].role = "user"
  PROVE  s[h + 1].summary \/ s[h + 1].own \in MiddleQuotes(s, h, h + 1)
  <1>. DEFINE x == s[h + 1]
              j == Min({h + 1, Len(s)})
              one == SubSeq(s, h + 1, j)
              users == UserBehind(one, 0)
  <1>1. s \in Seq(Message) /\ Len(s) \in Nat /\ DOMAIN s = 1..Len(s) /\ h \in Nat
    BY SoundSeq
  <1>2. j = h + 1
    <2>1. {h + 1, Len(s)} \in SUBSET Nat /\ {h + 1, Len(s)} # {}
      BY <1>1
    <2>2. j \in {h + 1, Len(s)} /\ j <= h + 1
      BY <2>1, LeastNat
    <2>. HIDE DEF j, one, users, x
    <2>3. \A a, b, c \in Nat : a <= b /\ c \in {a, b} /\ c <= a => c = a
      OBVIOUS
    <2>4. h + 1 \in Nat
      BY <1>1
    <2>5. j \in Nat
      BY <1>1, <2>2, <2>4
    <2>. QED BY <1>1, <2>2, <2>3, <2>4, <2>5
  <1>3. h + 1 \in Nat \ {0} /\ (h + 1) - (h + 1) + 1 = 1 /\ h + 1 <= h + 1 /\ h + 1 - 1 + 1 = h + 1
    BY <1>1
  <1>4. one = SubSeq(s, h + 1, h + 1)
    BY <1>2
  <1>. HIDE DEF one, x, j
  <1>5. Len(one) = 1 /\ one[1] = x
    <2>1. /\ Len(one) = IF h + 1 <= h + 1 THEN (h + 1) - (h + 1) + 1 ELSE 0
          /\ \A p \in 1..Len(one) : one[p] = s[h + 1 - 1 + p]
      BY <1>1, <1>3, <1>4, PartOf
    <2>2. Len(one) = 1
      BY <1>3, <2>1
    <2>3. one[1] = s[h + 1 - 1 + 1]
      BY <2>1, <2>2
    <2>. QED BY <1>3, <2>2, <2>3 DEF x
  <1>6. x.role = "user"
    BY DEF x
  <1>7. users = {1}
    BY <1>5, <1>6 DEF UserBehind
  <1>8. Max({1}) = 1
    <2>1. {1} \in SUBSET Nat /\ {1} # {} /\ \A y \in {1} : y <= 1
      OBVIOUS
    <2>2. Max({1}) \in {1}
      BY <2>1, GreatestNat
    <2>. QED BY <2>2
  <1>9. Quoted(one) = IF users = {} \/ one[Max(users)].summary THEN {} ELSE {one[Max(users)].own}
    BY Zenon DEF Quoted
  <1>. HIDE DEF users
  <1>10. x.summary \/ x.own \in Quoted(one)
    BY <1>5, <1>7, <1>8, <1>9
  <1>11. MiddleQuotes(s, h, h + 1) = Quoted(one)
    BY Zenon DEF MiddleQuotes, one, j
  <1>. QED BY <1>10, <1>11 DEF x

\* The request stays, or it is the message right behind the head and goes into the
\* summary.
Swallowed(s, t, n) ==
  LET h == HeadLen(s) IN
  /\ ProtectFirst < Len(s) /\ h < Len(s) /\ s[h + 1].own = n
  /\ s[h + 1].summary \/ Told(t, n)

LEMMA AssembledSafe ==
  ASSUME NEW s, NEW h, h = HeadLen(s), NEW cut, CutAt(s, h, cut),
         NEW n \in Nat, RequestSafe(s, n), NEW t, t = Assembled(s, h, cut)
  PROVE  /\ RequestSafe(t, n)
         /\ n # 0 /\ n \in Standing(s) => n \in Standing(t) \/ Swallowed(s, t, n)
  <1>1. /\ Sound(s) /\ ~TooShort(s) /\ h \in 1..Len(s) /\ Gap(s, h) /\ ProtectFirst <= h
        /\ \A i \in ProtectFirst + 1..h : IsResult(s[i])
        /\ cut \in Nat /\ h < cut
    BY DEF CutAt
  <1>2. /\ Len(s) \in Nat /\ DOMAIN s = 1..Len(s) /\ h \in Nat /\ 1 <= h /\ h <= Len(s)
        /\ ProtectFirst \in Nat /\ Slack \in Nat \ {0}
    BY <1>1, SoundSeq, LogLimits
  <1>3. ASSUME NEW r \in DOMAIN s, s[r].own = n, n # 0
        PROVE  r \in 1..h \/ r \in cut + 1..Len(s) \/ (r = h + 1 /\ cut = h + 1)
    BY <1>3, RequestPlace
  <1>4. \A r \in DOMAIN s : s[r].own = n /\ n # 0 => s[r].role = "user"
    BY DEF RequestSafe
  \* What is quoted of a request that is cut out.
  <1>5. ASSUME NEW m, m.of = 0, MiddleQuotes(s, h, cut) \subseteq m.quotes,
               h + 1 \in DOMAIN t, t[h + 1] = m,
               h + 1 \in DOMAIN s, s[h + 1].own = n, n # 0, cut = h + 1
        PROVE  Swallowed(s, t, n)
    <2>1. h + 1 <= Len(s) /\ s[h + 1].role = "user"
      BY <1>2, <1>4, <1>5
    <2>2. s[h + 1].summary \/ n \in MiddleQuotes(s, h, h + 1)
      BY <1>1, <1>5, <2>1, OneQuoted
    <2>3. n \in MiddleQuotes(s, h, h + 1) => Told(t, n)
      BY <1>5 DEF Told
    <2>4. ProtectFirst < Len(s) /\ h < Len(s)
      BY <1>1, <1>2, <2>1
    <2>. QED BY <1>5, <2>1, <2>2, <2>3, <2>4 DEF Swallowed
  <1>6. ASSUME NEW m, OwnSummary(s, h, cut, t, m)
        PROVE  /\ RequestSafe(t, n)
               /\ n # 0 /\ n \in Standing(s) => n \in Standing(t) \/ Swallowed(s, t, n)
    <2>1. Neutral(m) /\ m.own = 0 /\ m.quotes = MiddleQuotes(s, h, cut) /\ t = Spliced(s, h, cut, m)
      BY <1>6 DEF OwnSummary
    <2>2. RequestSafe(t, n)
      BY <1>1, <2>1, SplicedSafe
    <2>3. HasHead(s, t, h) /\ HasTail(s, t, cut) /\ h + 1 \in DOMAIN t /\ t[h + 1] = m
      <3>1. s \in Seq(Message)
        BY <1>1, SoundSeq
      <3>2. HasHead(s, t, h) /\ HasTail(s, t, cut)
        BY <1>1, <2>1, <3>1, SplicedSpots
      <3>3. h + 1 \in DOMAIN t
        BY <1>1, <2>1, <3>1, SplicedSpots
      <3>4. t[h + 1] = m
        BY <1>1, <2>1, <3>1, SplicedSpots
      <3>. QED BY <3>2, <3>3, <3>4
    <2>4. ASSUME NEW r \in DOMAIN s, s[r].own = n, n # 0
          PROVE  n \in Standing(t) \/ Swallowed(s, t, n)
      <3>1. CASE r \in 1..h
        BY <2>3, <2>4, <3>1 DEF HasHead, Standing
      <3>2. CASE r \in cut + 1..Len(s)
        BY <2>3, <2>4, <3>2 DEF HasTail, Standing
      <3>3. CASE r = h + 1 /\ cut = h + 1
        BY <1>5, <2>1, <2>3, <2>4, <3>3 DEF Neutral
      <3>. QED BY <1>3, <2>4, <3>1, <3>2, <3>3
    <2>. QED BY <2>2, <2>4 DEF Standing
  <1>7. ASSUME NoSummary(s, h, cut, t)
        PROVE  /\ RequestSafe(t, n)
               /\ n # 0 /\ n \in Standing(s) => n \in Standing(t) \/ Swallowed(s, t, n)
    <2>1. Len(s) <= cut /\ s[h].role = "assistant" /\ t = SubSeq(s, 1, h)
      BY <1>7 DEF NoSummary
    <2>2. RequestSafe(t, n) /\ HasHead(s, t, h)
      BY <1>1, <2>1, HeadSafe
    <2>3. ASSUME NEW r \in DOMAIN s, s[r].own = n, n # 0 PROVE n \in Standing(t)
      <3>1. CASE r \in 1..h
        BY <2>2, <2>3, <3>1 DEF HasHead, Standing
      <3>2. r \notin cut + 1..Len(s)
        BY <1>1, <1>2, <2>1
      <3>3. ~(r = h + 1 /\ cut = h + 1)
        <4>1. ~IsResult(s[h])
          BY <2>1 DEF IsResult
        <4>2. h <= ProtectFirst
          BY <1>1, <1>2, <4>1
        <4>3. ProtectFirst + Slack < Len(s)
          BY <1>1, <1>2 DEF TooShort
        <4>. QED BY <1>1, <1>2, <2>1, <4>2, <4>3
      <3>. QED BY <1>3, <2>3, <3>1, <3>2, <3>3
    <2>. QED BY <2>2, <2>3 DEF Standing
  <1>8. ASSUME NEW m, MergedSummary(s, h, cut, t, m)
        PROVE  /\ RequestSafe(t, n)
               /\ n # 0 /\ n \in Standing(s) => n \in Standing(t) \/ Swallowed(s, t, n)
    <2>1. /\ cut + 1 \in DOMAIN s /\ Neutral(m) /\ m.own = s[cut + 1].own /\ m.role = s[cut + 1].role
          /\ MiddleQuotes(s, h, cut) \subseteq m.quotes /\ t = Spliced(s, h, cut + 1, m)
      BY <1>8 DEF MergedSummary
    <2>2. cut + 1 \in Nat /\ h < cut + 1
      BY <1>1, <1>2
    <2>3. RequestSafe(t, n)
      BY <1>1, <2>1, <2>2, SplicedSafe
    <2>4. HasHead(s, t, h) /\ HasTail(s, t, cut + 1) /\ h + 1 \in DOMAIN t /\ t[h + 1] = m
      <3>1. s \in Seq(Message)
        BY <1>1, SoundSeq
      <3>2. HasHead(s, t, h) /\ HasTail(s, t, cut + 1)
        BY <1>1, <2>1, <2>2, <3>1, SplicedSpots
      <3>3. h + 1 \in DOMAIN t
        BY <1>1, <2>1, <2>2, <3>1, SplicedSpots
      <3>4. t[h + 1] = m
        BY <1>1, <2>1, <2>2, <3>1, SplicedSpots
      <3>. QED BY <3>2, <3>3, <3>4
    <2>5. ASSUME NEW r \in DOMAIN s, s[r].own = n, n # 0
          PROVE  n \in Standing(t) \/ Swallowed(s, t, n)
      <3>1. CASE r \in 1..h
        BY <2>4, <2>5, <3>1 DEF HasHead, Standing
      <3>2. CASE r \in cut + 1..Len(s) /\ r # cut + 1
        <4>1. r \in (cut + 1) + 1..Len(s)
          BY <1>1, <1>2, <3>2
        <4>. QED BY <2>4, <2>5, <4>1 DEF HasTail, Standing
      <3>3. CASE r = cut + 1
        BY <2>1, <2>4, <2>5, <3>3 DEF Standing
      <3>4. CASE r = h + 1 /\ cut = h + 1
        BY <1>5, <2>1, <2>4, <2>5, <3>4 DEF Neutral
      <3>. QED BY <1>3, <2>5, <3>1, <3>2, <3>3, <3>4
    <2>. QED BY <2>3, <2>5 DEF Standing
  <1>9. \/ \E m : OwnSummary(s, h, cut, t, m)
        \/ NoSummary(s, h, cut, t)
        \/ \E m : MergedSummary(s, h, cut, t, m)
    BY <1>1, AssembledForms
  <1>. QED BY <1>6, <1>7, <1>8, <1>9

LEMMA SanitizedStands ==
  ASSUME NEW s, Sound(s), s # <<>>, s[1].role = "system", NEW n \in Nat, RequestSafe(s, n)
  PROVE  /\ RequestSafe(Sanitized(s), n)
         /\ n # 0 /\ n \in Standing(s) => n \in Standing(Sanitized(s))
         /\ Told(s, n) => Told(Sanitized(s), n)
  <1>. DEFINE t == Sanitized(s)
  <1>1. RequestSafe(t, n) /\ \A i \in DOMAIN s : s[i].of = 0 => \E p \in DOMAIN t : t[p] = s[i]
    BY SanitizedSafe
  <1>. HIDE DEF t
  <1>2. ASSUME n # 0, n \in Standing(s) PROVE n \in Standing(t)
    <2>1. PICK i \in DOMAIN s : s[i].own = n
      BY <1>2 DEF Standing
    <2>2. s[i].of = 0
      BY <1>2, <2>1, RequestOf
    <2>. QED BY <1>1, <2>1, <2>2 DEF Standing
  <1>3. ASSUME Told(s, n) PROVE Told(t, n)
    <2>1. PICK i \in DOMAIN s : s[i].of = 0 /\ n \in s[i].quotes
      BY <1>3 DEF Told
    <2>. QED BY <1>1, <2>1 DEF Told
  <1>. QED BY <1>1, <1>2, <1>3 DEF t

\* A log that compress makes has the request, or quotes it.
LEMMA CompressedSafe ==
  ASSUME NEW s, NEW k, Kept(s, k), ~TooShort(s), NEW n \in Nat, RequestSafe(s, n),
         NEW t \in Compressed(s)
  PROVE  /\ RequestSafe(t, n)
         /\ n # 0 /\ n \in Standing(s) => n \in Standing(t) \/ Swallowed(s, t, n)
  <1>1. Sound(s) /\ s # <<>> /\ s[1].role = "system" /\ s \in Seq(Message)
    BY SoundSeq DEF Kept
  <1>2. PICK cut \in Cuts(s) :
          t = Sanitized(Assembled(s, HeadLen(s), TailCut(s, cut)))
    BY DEF Compressed
  <1>. DEFINE h == HeadLen(s)
              c == TailCut(s, cut)
              u == Assembled(s, h, c)
  <1>3. /\ h \in 1..Len(s) /\ Gap(s, h) /\ ProtectFirst <= h
        /\ \A i \in ProtectFirst + 1..h : IsResult(s[i])
    BY <1>1, HeadLenGap
  <1>4. cut \in Nat
    BY <1>1, CutsNat
  <1>5. CutAt(s, h, c)
    BY <1>1, <1>3, <1>4, TailCutBehind DEF CutAt
  <1>6. t = Sanitized(u) /\ h = HeadLen(s) /\ c \in Nat /\ h < c
    BY <1>2, <1>5 DEF CutAt
  <1>. HIDE DEF h, c
  <1>7. u = Assembled(s, h, c)
    OBVIOUS
  <1>. HIDE DEF u
  <1>8. /\ RequestSafe(u, n)
        /\ n # 0 /\ n \in Standing(s) => n \in Standing(u) \/ Swallowed(s, u, n)
    BY <1>5, <1>6, <1>7, AssembledSafe
  <1>9. Sound(u) /\ u # <<>> /\ u[1].role = "system"
    BY <1>1, <1>3, <1>6, <1>7, AssembledSound
  <1>10. /\ RequestSafe(t, n)
         /\ n # 0 /\ n \in Standing(u) => n \in Standing(t)
         /\ Told(u, n) => Told(t, n)
    BY <1>6, <1>8, <1>9, SanitizedStands
  <1>. QED BY <1>8, <1>10 DEF Swallowed

\* What an agent adds makes no request.
LEMMA AddedSafe ==
  ASSUME NEW s \in Seq(Message), NEW n \in Nat, RequestSafe(s, n),
         NEW t \in Seq(Message), Len(s) <= Len(t), \A i \in DOMAIN s : t[i] = s[i],
         \A i \in Len(s) + 1..Len(t) : t[i].own = 0 /\ t[i].role # "user"
  PROVE  RequestSafe(t, n) /\ Standing(s) \subseteq Standing(t)
  <1>1. /\ Len(s) \in Nat /\ DOMAIN s = 1..Len(s) /\ Len(t) \in Nat /\ DOMAIN t = 1..Len(t)
    BY LenProperties
  <1>2. \A i \in DOMAIN s : i \in DOMAIN t
    BY <1>1
  <1>3. \A i \in DOMAIN t : i \in DOMAIN s \/ i \in Len(s) + 1..Len(t)
    BY <1>1
  <1>4. Answered(s) \subseteq Answered(t)
    <2>1. ASSUME NEW c \in Answered(s) PROVE c \in Answered(t)
      <3>1. PICK i \in DOMAIN s : c = s[i].of /\ c # 0
        BY CalledAnswered
      <3>. QED BY <1>2, <3>1, CalledAnswered
    <2>. QED BY <2>1
  <1>5. /\ \A i \in DOMAIN s : s[i].own \in 0..n /\ (s[i].own # 0 => s[i].role = "user")
        /\ \A r \in DOMAIN s : s[r].own = n /\ n # 0 =>
             /\ \A i \in 1..r : s[i].calls \subseteq Answered(s)
             /\ r <= ProtectFirst \/ \A i \in r + 1..Len(s) : s[i].role # "user"
    BY DEF RequestSafe
  <1>6. ASSUME NEW r \in DOMAIN t, t[r].own = n, n # 0
        PROVE  /\ \A i \in 1..r : t[i].calls \subseteq Answered(t)
               /\ r <= ProtectFirst \/ \A i \in r + 1..Len(t) : t[i].role # "user"
    <2>1. r \in DOMAIN s /\ s[r].own = n
      BY <1>3, <1>6
    <2>2. \A i \in 1..r : i \in DOMAIN s
      BY <1>1, <2>1
    <2>3. \A i \in 1..r : t[i].calls \subseteq Answered(t)
      BY <1>4, <1>5, <1>6, <2>1, <2>2
    <2>4. \A i \in r + 1..Len(t) : i \in Len(s) + 1..Len(t) \/ (i \in r + 1..Len(s) /\ i \in DOMAIN s)
      BY <1>1, <2>1
    <2>. QED BY <1>5, <1>6, <2>1, <2>3, <2>4
  <1>7. \A i \in DOMAIN t : t[i].own \in 0..n /\ (t[i].own # 0 => t[i].role = "user")
    BY <1>3, <1>5
  <1>8. RequestSafe(t, n)
    BY <1>6, <1>7 DEF RequestSafe
  <1>. QED BY <1>2, <1>8 DEF Standing

LEMMA SafeLater ==
  ASSUME NEW s, NEW n \in Nat, RequestSafe(s, n)
  PROVE  RequestSafe(s, n + 1)
  <1>1. \A x \in 0..n : x \in 0..n + 1 /\ x # n + 1
    OBVIOUS
  <1>. QED BY <1>1 DEF RequestSafe

\* The next request: what was called before has its answers.
LEMMA RequestAdded ==
  ASSUME NEW s, Sound(s), Whole(s), NEW n \in Nat, n + 1 \in Requests, RequestSafe(s, n)
  PROVE  /\ RequestSafe(Append(s, Request(n + 1)), n + 1)
         /\ Standing(s) \subseteq Standing(Append(s, Request(n + 1)))
  <1>. DEFINE m == Request(n + 1)
              t == Append(s, m)
              l == Len(s)
  <1>1. s \in Seq(Message) /\ l \in Nat /\ DOMAIN s = 1..l
    BY SoundSeq
  <1>2. m \in Message /\ m.calls = {} /\ m.own = n + 1 /\ m.role = "user"
    <2>1. m \in Message /\ m.calls = {}
      BY RequestType
    <2>2. m.own = n + 1 /\ m.role = "user"
      <3>1. Plain("user") \in Message /\ Plain("user").role = "user"
        BY PlainType DEF Roles
      <3>. QED BY <3>1 DEF Request, Message
    <2>. QED BY <2>1, <2>2
  <1>. HIDE DEF m
  <1>3. /\ t \in Seq(Message) /\ Len(t) = l + 1 /\ DOMAIN t = 1..l + 1 /\ t[l + 1] = m
        /\ \A i \in 1..l : t[i] = s[i]
    BY <1>1, <1>2
  <1>. HIDE DEF t, l
  <1>4. \A i \in 1..l : i \in DOMAIN t /\ i \in DOMAIN s
    BY <1>1, <1>3
  <1>5. \A i \in DOMAIN t : i \in 1..l \/ i = l + 1
    BY <1>1, <1>3
  <1>6. Answered(s) \subseteq Answered(t)
    <2>1. ASSUME NEW c \in Answered(s) PROVE c \in Answered(t)
      <3>1. PICK i \in DOMAIN s : c = s[i].of /\ c # 0
        BY CalledAnswered
      <3>. QED BY <1>1, <1>3, <1>4, <3>1, CalledAnswered
    <2>. QED BY <2>1
  <1>7. \A i \in DOMAIN s : s[i].own \in 0..n /\ (s[i].own # 0 => s[i].role = "user")
    BY DEF RequestSafe
  <1>8. \A x \in 0..n : x \in 0..n + 1 /\ x # n + 1
    OBVIOUS
  <1>9. \A i \in DOMAIN t : t[i].own \in 0..n + 1 /\ (t[i].own # 0 => t[i].role = "user")
    <2>1. n + 1 \in 0..n + 1
      OBVIOUS
    <2>. QED BY <1>2, <1>3, <1>4, <1>5, <1>7, <1>8, <2>1
  <1>10. ASSUME NEW r \in DOMAIN t, t[r].own = n + 1
         PROVE  /\ \A i \in 1..r : t[i].calls \subseteq Answered(t)
                /\ \A i \in r + 1..Len(t) : t[i].role # "user"
    <2>1. r = l + 1
      BY <1>3, <1>4, <1>5, <1>7, <1>8, <1>10
    <2>2. \A i \in 1..r : i \in 1..l \/ i = l + 1
      BY <1>1, <2>1
    <2>3. \A i \in DOMAIN s : s[i].calls \subseteq Answered(s)
      BY CalledAnswered DEF Whole
    <2>4. \A i \in 1..r : t[i].calls \subseteq Answered(t)
      BY <1>2, <1>3, <1>4, <1>6, <2>2, <2>3
    <2>5. r + 1..Len(t) = {}
      BY <1>1, <1>3, <2>1
    <2>. QED BY <2>4, <2>5
  <1>11. RequestSafe(t, n + 1)
    BY <1>9, <1>10 DEF RequestSafe
  <1>12. Standing(s) \subseteq Standing(t)
    BY <1>1, <1>3, <1>4 DEF Standing
  <1>. QED BY <1>11, <1>12 DEF t, m

\* The instructions make no request.
LEMMA InstructionsStand ==
  ASSUME NEW s, NEW k, Kept(s, k), NEW n, RequestSafe(s, n)
  PROVE  0 \in Standing(s)
  <1>1. Sound(s) /\ s # <<>> /\ s[1].role = "system"
    BY DEF Kept
  <1>2. 1 \in DOMAIN s
    BY <1>1, SoundSeq, EmptySeq
  <1>3. s[1].own = 0
    BY <1>1, <1>2 DEF RequestSafe
  <1>. QED BY <1>2, <1>3 DEF Standing

-----------------------------------------------------------------------------
(* The steps of a turn keep the request.                                     *)

\* The copies come from an earlier state of the log, in which fewer requests stood.
ReqInv ==
  /\ LogInv
  /\ RequestSafe(log, said)
  /\ pending = None \/ RequestSafe(pending, said)
  /\ ready = None \/ RequestSafe(ready, said)

\* What a step does with the latest request.
Passed ==
  said # 0 /\ said \in Standing(log) =>
    \/ said \in Standing(log') \/ Swallowed(log, log', said)
    \/ ready # None /\ ready' = None

LEMMA ReqFacts ==
  ASSUME ReqInv
  PROVE  /\ LogInv /\ said \in Nat /\ RequestSafe(log, said)
         /\ Kept(log, made) /\ Sound(log) /\ log # <<>> /\ log[1].role = "system"
         /\ log \in Seq(Message)
         /\ pending = None \/ RequestSafe(pending, said)
         /\ ready = None \/ RequestSafe(ready, said)
  <1>1. LogInv /\ said \in Nat
    BY LogFacts, LogLimits DEF ReqInv
  <1>2. Kept(log, made)
    BY <1>1, LogFacts
  <1>. QED BY <1>1, <1>2, SoundSeq DEF ReqInv, Kept

\* A step in which no request is made.
LEMMA ReqStep ==
  ASSUME ReqInv, LogInv', said' = said, RequestSafe(log', said),
         pending' \in {None, pending, log},
         ready' \in {None, ready} \/ RequestSafe(ready', said)
  PROVE  ReqInv'
  <1>1. pending' = None \/ RequestSafe(pending', said)
    BY ReqFacts
  <1>2. ready' = None \/ RequestSafe(ready', said)
    BY ReqFacts
  <1>. QED BY <1>1, <1>2 DEF ReqInv

LEMMA RepairSafe ==
  ASSUME ReqInv, log' = Sanitized(log)
  PROVE  RequestSafe(log', said) /\ Passed
  <1>1. /\ RequestSafe(log', said)
        /\ said # 0 /\ said \in Standing(log) => said \in Standing(log')
    BY ReqFacts, SanitizedStands
  <1>. QED BY <1>1 DEF Passed

LEMMA TrimSafe ==
  ASSUME ReqInv, NEW force, Trim(force)
  PROVE  RequestSafe(log', said) /\ Passed /\ ready' \in {None, ready}
  <1>1. CASE ready # None
    <2>1. log' = Sanitized(ready) /\ ready' = None
      BY <1>1 DEF Trim
    <2>2. Kept(ready, made) /\ RequestSafe(ready, said) /\ said \in Nat
      BY <1>1, ReqFacts, LogFacts
    <2>3. RequestSafe(log', said)
      BY <2>1, <2>2, SanitizedStands DEF Kept
    <2>. QED BY <1>1, <2>1, <2>3 DEF Passed
  <1>2. CASE ready = None /\ ~TooShort(log) /\ (force \/ useless < 2)
    <2>1. ready' = ready /\ \E s \in Compressed(log) : log' = Sanitized(s) /\ Judged
      BY <1>2 DEF Trim
    <2>2. PICK s \in Compressed(log) : log' = Sanitized(s)
      BY <2>1
    <2>3. /\ Kept(log, made) /\ said \in Nat /\ RequestSafe(log, said)
      BY ReqFacts
    <2>4. /\ RequestSafe(s, said)
          /\ said # 0 /\ said \in Standing(log) => said \in Standing(s) \/ Swallowed(log, s, said)
      BY <1>2, <2>2, <2>3, CompressedSafe
    <2>5. Kept(s, made)
      BY <1>2, <2>2, <2>3, CompressedKept
    <2>6. /\ RequestSafe(log', said)
          /\ said # 0 /\ said \in Standing(s) => said \in Standing(log')
          /\ Told(s, said) => Told(log', said)
      BY <2>2, <2>3, <2>4, <2>5, SanitizedStands DEF Kept
    <2>7. Swallowed(log, s, said) => Swallowed(log, log', said)
      BY <2>6 DEF Swallowed
    <2>. QED BY <2>1, <2>4, <2>6, <2>7 DEF Passed
  <1>3. CASE ready = None /\ ~(~TooShort(log) /\ (force \/ useless < 2))
    <2>1. ready' = ready /\ log' = Sanitized(log)
      BY <1>3 DEF Trim, RepairPairs
    <2>. QED BY <2>1, RepairSafe
  <1>. QED BY <1>1, <1>2, <1>3

LEMMA PreflightSafe ==
  ASSUME ReqInv, NEW force, Preflight(force)
  PROVE  RequestSafe(log', said) /\ Passed /\ ready' \in {None, ready}
  <1>1. CASE Trim(force)
    BY <1>1, TrimSafe
  <1>2. CASE log' = Sanitized(log) /\ ready' = ready
    BY <1>2, RepairSafe
  <1>. QED BY <1>1, <1>2 DEF Preflight, RepairPairs

LEMMA SpeakSafe ==
  ASSUME ReqInv, Speak
  PROVE  ReqInv' /\ Passed
  <1>1. /\ said' = said + 1 /\ said < MaxRequests
        /\ log' = Append(Sanitized(log), Request(said + 1))
        /\ pending' = pending /\ ready' = ready
    BY DEF Speak, backgroundVars
  <1>2. said \in Nat /\ said + 1 \in Requests
    BY <1>1, ReqFacts, LogLimits DEF Requests
  <1>. DEFINE t == Sanitized(log)
  <1>3. Kept(t, made) /\ Whole(t)
    BY ReqFacts, SanitizedKept
  <1>4. /\ RequestSafe(t, said)
        /\ said # 0 /\ said \in Standing(log) => said \in Standing(t)
    BY <1>2, ReqFacts, SanitizedStands
  <1>. HIDE DEF t
  <1>5. Sound(t)
    BY <1>3 DEF Kept
  <1>6. log' = Append(t, Request(said + 1))
    BY <1>1 DEF t
  <1>7. RequestSafe(log', said + 1) /\ Standing(t) \subseteq Standing(log')
    BY <1>2, <1>3, <1>4, <1>5, <1>6, RequestAdded
  <1>8. pending = None \/ RequestSafe(pending, said + 1)
    BY <1>2, ReqFacts, SafeLater
  <1>9. ready = None \/ RequestSafe(ready, said + 1)
    BY <1>2, ReqFacts, SafeLater
  <1>10. LogInv'
    BY ReqFacts, SpeakKeeps
  <1>11. ReqInv'
    BY <1>1, <1>7, <1>8, <1>9, <1>10 DEF ReqInv
  <1>. QED BY <1>4, <1>7, <1>11 DEF Passed

LEMMA AskSafe ==
  ASSUME ReqInv, Ask
  PROVE  ReqInv' /\ Passed
  <1>1. Preflight(FALSE) /\ said' = said /\ pending' \in {log, pending}
    BY DEF Ask, RunDeferred
  <1>2. RequestSafe(log', said) /\ Passed /\ ready' \in {None, ready}
    BY <1>1, PreflightSafe
  <1>3. LogInv'
    BY ReqFacts, AskKeeps
  <1>. QED BY <1>1, <1>2, <1>3, ReqStep

LEMMA AskPlannerSafe ==
  ASSUME ReqInv, AskPlanner
  PROVE  ReqInv' /\ Passed
  <1>1. Preflight(TRUE) /\ said' = said /\ pending' = pending
    BY DEF AskPlanner
  <1>2. RequestSafe(log', said) /\ Passed /\ ready' \in {None, ready}
    BY <1>1, PreflightSafe
  <1>3. LogInv'
    BY ReqFacts, AskPlannerKeeps
  <1>. QED BY <1>1, <1>2, <1>3, ReqStep

LEMMA ReplyOwn ==
  ASSUME NEW C \in SUBSET Calls, NEW text \in BOOLEAN
  PROVE  Reply(C, text).own = 0 /\ Reply(C, text).role = "assistant"
  <1>1. /\ Plain("assistant") \in Message /\ Plain("assistant").own = 0
        /\ Plain("assistant").role = "assistant"
    BY PlainType DEF Roles
  <1>. QED BY <1>1 DEF Reply, Message

LEMMA ReplySafe ==
  ASSUME NEW s \in Seq(Message), NEW n \in Nat, RequestSafe(s, n), NEW C \in SUBSET Calls,
         NEW text \in BOOLEAN, NEW t, t = Append(s, Reply(C, text))
  PROVE  t \in Seq(Message) /\ RequestSafe(t, n) /\ Standing(s) \subseteq Standing(t)
  <1>. DEFINE m == Reply(C, text)
  <1>1. m \in Message /\ m.own = 0 /\ m.role # "user"
    BY ReplyType, ReplyOwn
  <1>. HIDE DEF m
  <1>2. t = Append(s, m)
    BY DEF m
  <1>3. /\ t \in Seq(Message) /\ Len(s) \in Nat /\ Len(t) = Len(s) + 1 /\ t[Len(s) + 1] = m
        /\ DOMAIN s = 1..Len(s) /\ \A i \in 1..Len(s) : t[i] = s[i]
    BY <1>1, <1>2, LenProperties
  <1>4. \A i \in Len(s) + 1..Len(t) : i = Len(s) + 1
    BY <1>3
  <1>5. Len(s) <= Len(t)
    BY <1>3
  <1>. QED BY <1>1, <1>3, <1>4, <1>5, AddedSafe

LEMMA StubbedSafe ==
  ASSUME NEW s \in Seq(Message), NEW n \in Nat, RequestSafe(s, n), NEW C \in SUBSET Calls,
         NEW t, t = s \o Stubs(C)
  PROVE  RequestSafe(t, n) /\ Standing(s) \subseteq Standing(t)
  <1>. DEFINE u == Stubs(C)
              l == Len(s)
              k == Len(u)
  <1>1. u \in Seq(Message) /\ \A j \in DOMAIN u : \E c \in C : u[j] = Result(c)
    BY StubsType
  <1>2. l \in Nat /\ DOMAIN s = 1..l /\ k \in Nat /\ DOMAIN u = 1..k
    BY <1>1, LenProperties
  <1>. HIDE DEF u
  <1>3. /\ t \in Seq(Message) /\ Len(t) = l + k
        /\ \A p \in 1..l + k : t[p] = IF p <= l THEN s[p] ELSE u[p - l]
    BY <1>1, ConcatProperties DEF u
  <1>. HIDE DEF l, k
  <1>4. ASSUME NEW i \in DOMAIN s PROVE t[i] = s[i]
    <2>1. i \in 1..l + k /\ i <= l
      BY <1>2
    <2>. QED BY <1>3, <2>1
  <1>5. ASSUME NEW i \in l + 1..Len(t) PROVE t[i].own = 0 /\ t[i].role # "user"
    <2>1. i \in 1..l + k /\ ~(i <= l) /\ i - l \in 1..k
      BY <1>2, <1>3
    <2>2. t[i] = u[i - l] /\ i - l \in DOMAIN u
      BY <1>2, <1>3, <2>1
    <2>3. PICK c \in C : u[i - l] = Result(c)
      BY <1>1, <2>2
    <2>4. c \in Calls
      OBVIOUS
    <2>. QED BY <2>2, <2>3, <2>4, ResultOwn
  <1>6. l <= Len(t)
    BY <1>2, <1>3
  <1>. QED BY <1>3, <1>4, <1>5, <1>6, AddedSafe DEF l

LEMMA CallToolsSafe ==
  ASSUME ReqInv, NEW n \in 1..2, NEW answered \in SUBSET Calls,
         NEW text \in BOOLEAN, CallTools(n, answered, text)
  PROVE  ReqInv' /\ Passed
  <1>. DEFINE calls == made + 1..made + n
              r == Reply(calls, text)
              u == Append(log, r)
  <1>1. /\ made + n <= MaxCalls
        /\ log' = log \o <<r>> \o Stubs(answered)
        /\ said' = said /\ pending' = pending /\ ready' = ready
    BY DEF CallTools, backgroundVars
  <1>2. calls \in SUBSET Calls
    BY <1>1, ReqFacts, LogFacts, LogLimits DEF Calls
  <1>3. r \in Message /\ log \in Seq(Message)
    BY <1>2, ReqFacts, ReplyType
  <1>. HIDE DEF r
  <1>4. log \o <<r>> = u
    BY <1>3
  <1>. HIDE DEF calls
  <1>5. u = Append(log, Reply(calls, text))
    BY DEF r, calls
  <1>6. log' = u \o Stubs(answered)
    BY <1>1, <1>4
  <1>. HIDE DEF u
  <1>7. u \in Seq(Message) /\ RequestSafe(u, said) /\ Standing(log) \subseteq Standing(u)
    BY <1>2, <1>5, ReqFacts, ReplySafe
  <1>8. RequestSafe(log', said) /\ Standing(u) \subseteq Standing(log')
    BY <1>6, <1>7, ReqFacts, StubbedSafe
  <1>9. LogInv'
    BY ReqFacts, CallToolsKeeps
  <1>10. ReqInv'
    BY <1>1, <1>8, <1>9, ReqStep
  <1>. QED BY <1>7, <1>8, <1>10 DEF Passed

LEMMA RepliedSafe ==
  ASSUME ReqInv, NEW text \in BOOLEAN, log' = Append(log, Reply({}, text)) \/ log' = log
  PROVE  RequestSafe(log', said) /\ Passed
  <1>1. CASE log' = Append(log, Reply({}, text))
    <2>1. RequestSafe(log', said) /\ Standing(log) \subseteq Standing(log')
      BY <1>1, ReqFacts, ReplySafe
    <2>. QED BY <2>1 DEF Passed
  <1>2. CASE log' = log
    BY <1>2, ReqFacts DEF Passed
  <1>. QED BY <1>1, <1>2

LEMMA SelfRepairSafe ==
  ASSUME ReqInv, LogSelfRepair
  PROVE  ReqInv' /\ Passed
  <1>. DEFINE gone == {i \in DOMAIN log : log[i].role = "assistant" /\ ~log[i].text}
  <1>1. /\ said' = said /\ pending' = pending /\ ready' = ready
        /\ log' = Sanitized(log) \/ log' = Without(log, gone)
    BY DEF LogSelfRepair, backgroundVars, RepairPairs, DropEmpty
  <1>2. RequestSafe(log', said) /\ Passed
    <2>1. CASE log' = Sanitized(log)
      BY <2>1, RepairSafe
    <2>2. CASE log' = Without(log, gone)
      <3>1. \A i \in gone : log[i].role = "assistant"
        OBVIOUS
      <3>. HIDE DEF gone
      <3>2. /\ RequestSafe(log', said)
            /\ \A i \in DOMAIN log : log[i].own # 0 => \E p \in DOMAIN log' : log'[p] = log[i]
        BY <2>2, <3>1, ReqFacts, DropEmptySafe
      <3>. QED BY <3>2 DEF Passed, Standing
    <2>. QED BY <1>1, <2>1, <2>2
  <1>3. LogInv'
    BY ReqFacts, SelfRepairKeeps
  <1>. QED BY <1>1, <1>2, <1>3, ReqStep

LEMMA OverflowSafe ==
  ASSUME ReqInv, Overflow
  PROVE  ReqInv' /\ Passed
  <1>1. Trim(TRUE) /\ said' = said /\ pending' = pending
    BY DEF Overflow
  <1>2. RequestSafe(log', said) /\ Passed /\ ready' \in {None, ready}
    BY <1>1, TrimSafe
  <1>3. LogInv'
    BY ReqFacts, OverflowKeeps
  <1>. QED BY <1>1, <1>2, <1>3, ReqStep

\* The snapshot is compressed, whatever the log has become.
LEMMA BackgroundSafe ==
  ASSUME ReqInv, Background
  PROVE  ReqInv' /\ Passed
  <1>1. pending # None /\ pending' = None /\ log' = log /\ said' = said
    BY DEF Background
  <1>2. ready' \in {None, ready} \/ RequestSafe(ready', said)
    <2>1. CASE TooShort(pending)
      BY <2>1 DEF Background
    <2>2. CASE ~TooShort(pending)
      <3>1. ready' \in Compressed(pending)
        BY <2>2 DEF Background
      <3>2. Kept(pending, made) /\ RequestSafe(pending, said) /\ said \in Nat
        BY <1>1, ReqFacts, LogFacts
      <3>. QED BY <2>2, <3>1, <3>2, CompressedSafe
    <2>. QED BY <2>1, <2>2
  <1>3. LogInv'
    BY ReqFacts, BackgroundKeeps
  <1>4. RequestSafe(log', said) /\ Passed
    BY <1>1, ReqFacts DEF Passed
  <1>. QED BY <1>1, <1>2, <1>3, <1>4, ReqStep

LEMMA OtherSafe ==
  ASSUME ReqInv, Finalize \/ ReplyFails \/ Cancel \/ Elsewhere \/ UNCHANGED logVars
  PROVE  ReqInv' /\ Passed
  <1>1. said' = said /\ pending' = pending /\ ready' = ready
    BY DEF Finalize, ReplyFails, Cancel, Elsewhere, backgroundVars, logVars
  <1>2. \E text \in BOOLEAN : log' = Append(log, Reply({}, text)) \/ log' = log
    BY DEF Finalize, ReplyFails, Cancel, Elsewhere, backgroundVars, logVars
  <1>3. RequestSafe(log', said) /\ Passed
    BY <1>2, RepliedSafe
  <1>4. LogInv'
    BY ReqFacts, LogStays DEF LogNext
  <1>. QED BY <1>1, <1>3, <1>4, ReqStep

LEMMA ReqStays ==
  ASSUME ReqInv, [LogNext]_logVars
  PROVE  ReqInv' /\ Passed
  <1>1. ASSUME NEW n \in 1..2, NEW answered \in SUBSET Calls, NEW text \in BOOLEAN,
               CallTools(n, answered, text)
        PROVE  ReqInv' /\ Passed
    BY <1>1, CallToolsSafe
  <1>. QED BY <1>1, SpeakSafe, AskSafe, AskPlannerSafe, OverflowSafe, SelfRepairSafe,
              BackgroundSafe, OtherSafe
           DEF LogNext

LEMMA ReqInitial ==
  ASSUME LogInit
  PROVE  ReqInv
  <1>. DEFINE m == Plain("system")
  <1>1. log = <<m>> /\ said = 0 /\ pending = None /\ ready = None
    BY DEF LogInit
  <1>2. m \in Message /\ m.own = 0
    BY PlainType DEF Roles
  <1>. HIDE DEF m
  <1>3. DOMAIN log = {1} /\ log[1] = m
    BY <1>1, <1>2
  <1>4. RequestSafe(log, said)
    BY <1>1, <1>2, <1>3 DEF RequestSafe
  <1>5. LogInv
    BY LogInitial
  <1>. QED BY <1>1, <1>4, <1>5 DEF ReqInv

\* No step but the use of a background result takes the latest request from the log,
\* however often it is compressed, repaired or sent again: it stays a message of the
\* log, or it is the message right behind the head that _find_tail_cut leaves to be
\* summarized, and then the summary quotes it or it had a summary in front.
THEOREM RequestStays == LogSpec => RequestKept
  <1>1. LogInit => ReqInv
    BY ReqInitial
  <1>2. ReqInv /\ [LogNext]_logVars => ReqInv'
    BY ReqStays
  <1>. DEFINE Kind == \/ ready # None /\ ready' = None
                      \/ said \notin Standing(log)
                      \/ said \in Standing(log')
                      \/ Summarized
  <1>3. ReqInv /\ ReqInv' /\ [LogNext]_logVars => [Kind]_logVars
    <2>. SUFFICES ASSUME ReqInv, ReqInv', [LogNext]_logVars, said \in Standing(log),
                         ~(ready # None /\ ready' = None), said \notin Standing(log')
                  PROVE  Summarized
      OBVIOUS
    <2>1. Kept(log', made') /\ RequestSafe(log', said')
      BY DEF ReqInv, LogInv
    <2>2. 0 \in Standing(log')
      BY <2>1, InstructionsStand
    <2>3. said # 0
      BY <2>2
    <2>4. Swallowed(log, log', said)
      BY <2>3, ReqStays DEF Passed
    <2>5. Told(log', said) => said \in QuotedIn(log')
      BY DEF Told, QuotedIn
    <2>. QED BY <2>4, <2>5 DEF Swallowed, Summarized
  <1>. QED BY <1>1, <1>2, <1>3, PTL DEF LogSpec, RequestKept
=============================================================================
