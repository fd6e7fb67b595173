------------------------- MODULE TurnKernel_proofs -------------------------
(***************************************************************************)
(* The loop controller counts every call, bounds the calls of a turn, and the *)
(* kernel flag belongs to a kernel, for any turns, conversations, calls and   *)
(* limits: proofs for the run kernel_turns.                                   *)
(***************************************************************************)
EXTENDS TurnKernel, FiniteSetTheorems, SequenceTheorems, TLAPS

Counts == [Convs -> [Calls -> Nat]]
TurnRec == [conv: Convs \cup {None}, stage: Stages, step: 0..MaxKernelSteps,
            tried: SUBSET Calls, call: Calls \cup {None}, round: 0..MaxCont]
FlightRec == [call: Calls \cup {None}, before: Convs \cup {None}, first: BOOLEAN,
              inside: SUBSET Calls]

ListsOK ==
  /\ steps \in [Convs -> Seq(Entry)] /\ usage \in [Convs -> Seq(Entry)]
  /\ \A c \in Convs : Len(steps[c]) <= MaxTrace /\ Len(usage[c]) <= MaxToolUsage

LEMMA TypeParts ==
  TypeOK <=> /\ turn \in [Runs -> TurnRec]
             /\ calls \in 0..MaxCalls
             /\ flight \in [Runs -> [Slots -> FlightRec]]
             /\ ListsOK /\ executed \in Counts
             /\ rounds \in [Convs -> Nat]
             /\ active \in Convs \cup {None}
             /\ kernelMode \in BOOLEAN
  BY Zenon DEF TypeOK, TurnRec, FlightRec, Counts, ListsOK

LEMMA TypePartsNext ==
  TypeOK' <=> /\ turn' \in [Runs -> TurnRec]
              /\ calls' \in 0..MaxCalls
              /\ flight' \in [Runs -> [Slots -> FlightRec]]
              /\ ListsOK' /\ executed' \in Counts
              /\ rounds' \in [Convs -> Nat]
              /\ active' \in Convs \cup {None}
              /\ kernelMode' \in BOOLEAN
  BY Zenon DEF TypeOK, TurnRec, FlightRec, Counts, ListsOK

\* A turn has its conversation from its beginning on, and a tool the kernel runs.
TurnsOK ==
  /\ \A r \in Runs : turn[r].conv = None <=> turn[r].stage = "idle"
  /\ \A r \in Runs : turn[r].stage = "tool" => turn[r].call \in Calls

\* Only an agent that was asked has calls under way, each with calls of its own.
FlightOK ==
  /\ \A r \in Runs : turn[r].stage # "direct" => \A i \in Slots : flight[r][i].call = None
  /\ \A r \in Runs : \A i \in Slots :
       IF flight[r][i].call = None
       THEN flight[r][i].inside = {}
       ELSE flight[r][i].inside \subseteq Specs[flight[r][i].call]

Shape == TypeOK /\ TurnsOK /\ FlightOK

CountOK(c, k) ==
  /\ executed[c][k] <= Recorded(c, k) + Under(Turns(c), k)
  /\ executed[c][k] = 0 \/ executed[c][k] <= Stop - 1 + (Capacity(c) - 1)

CountsOK == \A c \in Convs, k \in Calls : CountOK(c, k)

IInv == Shape /\ CountsOK /\ FlagMeansKernel

-----------------------------------------------------------------------------
(* Sets of places, the counts.                                               *)

LEMMA Limits ==
  /\ Stop \in Nat /\ MaxFlight \in Nat /\ MaxKernelSteps \in Nat
  /\ Stop >= 1 /\ MaxFlight >= 1 /\ MaxKernelSteps >= 1 /\ 1 \in Slots
  /\ MaxCont \in Nat /\ MaxCalls \in Nat
  /\ MaxTrace \in Nat \ {0} /\ MaxToolUsage \in Nat \ {0}
  BY LimitAssumption, BoundAssumption DEF Slots

LEMMA PlacesFinite ==
  ASSUME NEW R \in SUBSET Runs, NEW S \in SUBSET (R \X Slots)
  PROVE  /\ IsFiniteSet(R) /\ Cardinality(R) \in Nat
         /\ IsFiniteSet(S) /\ Cardinality(S) \in Nat
         /\ Cardinality(S) <= Cardinality(R) * MaxFlight
  <1>1. IsFiniteSet(R)
    BY SetAssumption, FS_Subset
  <1>2. IsFiniteSet(Slots) /\ Cardinality(Slots) = MaxFlight
    BY Limits, FS_Interval DEF Slots
  <1>3. IsFiniteSet(R \X Slots) /\ Cardinality(R \X Slots) = Cardinality(R) * MaxFlight
    BY <1>1, <1>2, FS_Product
  <1>4. IsFiniteSet(S) /\ Cardinality(S) <= Cardinality(R \X Slots)
    BY <1>3, FS_Subset
  <1>. QED BY <1>1, <1>3, <1>4, FS_CardinalityType

LEMMA FirstSteps ==
  {0, 1} \subseteq 0..MaxKernelSteps /\ 0 \in 0..MaxCont /\ 0 \in 0..MaxCalls
  BY Limits

\* A place that is not taken.
LEMMA RoomLeft ==
  ASSUME NEW R \in SUBSET Runs, NEW S \in SUBSET (R \X Slots),
         NEW x \in R \X Slots, x \notin S
  PROVE  Cardinality(S) <= Cardinality(R) * MaxFlight - 1
  <1>1. IsFiniteSet(S) /\ Cardinality(S) \in Nat
    BY PlacesFinite
  <1>2. Cardinality(S \cup {x}) = Cardinality(S) + 1
    BY <1>1, FS_AddElement
  <1>3. S \cup {x} \in SUBSET (R \X Slots)
    OBVIOUS
  <1>4. Cardinality(S \cup {x}) <= Cardinality(R) * MaxFlight
    BY <1>3, PlacesFinite
  <1>5. Cardinality(R) * MaxFlight \in Int
    BY PlacesFinite, Limits
  <1>. QED BY <1>1, <1>2, <1>4, <1>5

LEMMA CountAdds ==
  ASSUME NEW f \in Counts, NEW c \in Convs, NEW S
  PROVE  /\ Count(f, c, S) \in Counts
         /\ \A d \in Convs, k \in Calls :
              Count(f, c, S)[d][k] = f[d][k] + IF d = c /\ k \in S THEN 1 ELSE 0
  BY DEF Count, Counts

LEMMA MaxZero == \A n \in Int : Max({0, n}) = IF n > 0 THEN n ELSE 0
  <1>. TAKE n \in Int
  <1>. DEFINE m == IF n > 0 THEN n ELSE 0
  <1>1. m \in {0, n} /\ \A y \in {0, n} : m >= y
    OBVIOUS
  <1>2. \A z \in {0, n} : (\A y \in {0, n} : z >= y) => z = m
    OBVIOUS
  <1>. QED BY <1>1, <1>2 DEF Max

LEMMA ForgetTakes ==
  ASSUME NEW f \in Counts, NEW c \in Convs, NEW n \in [Calls -> Nat]
  PROVE  /\ Forget(f, c, n) \in Counts
         /\ \A d \in Convs, k \in Calls :
              Forget(f, c, n)[d][k] =
                IF d # c THEN f[d][k] ELSE IF f[c][k] > n[k] THEN f[c][k] - n[k] ELSE 0
  <1>1. \A k \in Calls : f[c][k] \in Nat /\ n[k] \in Nat
    BY DEF Counts
  <1>2. \A k \in Calls : Max({0, f[c][k] - n[k]}) =
          IF f[c][k] > n[k] THEN f[c][k] - n[k] ELSE 0
    BY <1>1, MaxZero
  <1>. QED BY <1>1, <1>2 DEF Forget, Counts

-----------------------------------------------------------------------------
(* The lists and what they tell of.                                          *)

\* The entries of a call, and those that were executed, are finitely many.
LEMMA RanFinite ==
  ASSUME NEW s \in Seq(Entry), NEW k \in Calls
  PROVE  /\ IsFiniteSet(Ran(s, k)) /\ Cardinality(Ran(s, k)) \in Nat
         /\ IsFiniteSet(Of(s, {k})) /\ Cardinality(Of(s, {k})) \in Nat
         /\ Cardinality(Ran(s, k)) <= Cardinality(Of(s, {k}))
  <1>1. IsFiniteSet(DOMAIN s)
    BY FS_Interval
  <1>2. Of(s, {k}) \subseteq DOMAIN s /\ Ran(s, k) \subseteq Of(s, {k})
    BY DEF Of, Ran
  <1>. QED BY <1>1, <1>2, FS_Subset, FS_CardinalityType

\* One entry more at the end.
LEMMA RanAppend ==
  ASSUME NEW s \in Seq(Entry), NEW j \in Calls, NEW b \in BOOLEAN, NEW k \in Calls
  PROVE  /\ Append(s, [call |-> j, ran |-> b]) \in Seq(Entry)
         /\ s \o <<[call |-> j, ran |-> b]>> = Append(s, [call |-> j, ran |-> b])
         /\ Cardinality(Ran(Append(s, [call |-> j, ran |-> b]), k)) =
              Cardinality(Ran(s, k)) + IF b /\ j = k THEN 1 ELSE 0
  <1>. DEFINE e == [call |-> j, ran |-> b]
              t == Append(s, e)
              m == Len(s) + 1
  <1>0. e \in Entry
    BY DEF Entry
  <1>1. t \in Seq(Entry) /\ s \o <<e>> = t
    BY <1>0
  <1>2. /\ m \in Nat /\ m >= 1 /\ DOMAIN s = 1..(m - 1) /\ DOMAIN t = 1..m
        /\ \A i \in 1..(m - 1) : t[i] = s[i]
        /\ t[m] = e
    BY <1>0
  <1>3. e = [call |-> k, ran |-> TRUE] <=> b /\ j = k
    OBVIOUS
  <1>. HIDE DEF t, m, e
  <1>4. ASSUME NEW i PROVE i \in Ran(t, k) <=> i \in Ran(s, k) \/ (i = m /\ b /\ j = k)
    <2>1. CASE i \in 1..(m - 1)
      <3>1. i \in DOMAIN t /\ i \in DOMAIN s /\ t[i] = s[i] /\ i # m
        BY <1>2, <2>1
      <3>. QED BY <3>1 DEF Ran
    <2>2. CASE i = m
      <3>1. i \in DOMAIN t /\ i \notin DOMAIN s /\ t[i] = e
        BY <1>2, <2>2
      <3>. QED BY <1>3, <2>2, <3>1 DEF Ran
    <2>3. CASE i \notin 1..m
      <3>1. i \notin DOMAIN t /\ i \notin DOMAIN s /\ i # m
        BY <1>2, <2>3
      <3>. QED BY <3>1 DEF Ran
    <2>4. i \in 1..m => i \in 1..(m - 1) \/ i = m
      BY <1>2
    <2>. QED BY <2>1, <2>2, <2>3, <2>4
  <1>5. m \notin Ran(s, k)
    BY <1>2 DEF Ran
  <1>6. IsFiniteSet(Ran(s, k)) /\ Cardinality(Ran(s, k)) \in Nat
    BY RanFinite
  <1>7. Cardinality(Ran(t, k)) = Cardinality(Ran(s, k)) + IF b /\ j = k THEN 1 ELSE 0
    <2>1. CASE b /\ j = k
      <3>1. Ran(t, k) = Ran(s, k) \cup {m}
        BY <1>4, <2>1
      <3>2. Cardinality(Ran(s, k) \cup {m}) = Cardinality(Ran(s, k)) + 1
        BY <1>5, <1>6, FS_AddElement
      <3>. QED BY <2>1, <3>1, <3>2
    <2>2. CASE ~(b /\ j = k)
      <3>1. Ran(t, k) = Ran(s, k)
        BY <1>4, <2>2
      <3>2. Cardinality(Ran(t, k)) = Cardinality(Ran(s, k))
        BY <3>1
      <3>. QED BY <1>6, <2>2, <3>2
    <2>. QED BY <2>1, <2>2
  <1>. QED BY <1>1, <1>7 DEF t, e

\* Refused calls tell of no execution.
LEMMA RanRefused ==
  ASSUME NEW s \in Seq(Entry), NEW new \in Seq(Entry), \A i \in DOMAIN new : ~new[i].ran,
         NEW k \in Calls
  PROVE  s \o new \in Seq(Entry) /\ Ran(s \o new, k) = Ran(s, k)
  <1>1. /\ s \o new \in Seq(Entry) /\ Len(s \o new) = Len(s) + Len(new)
        /\ \A i \in 1..(Len(s) + Len(new)) :
             (s \o new)[i] = IF i <= Len(s) THEN s[i] ELSE new[i - Len(s)]
    OBVIOUS
  <1>2. ASSUME NEW i \in 1..(Len(s) + Len(new)), i > Len(s)
        PROVE  (s \o new)[i] # [call |-> k, ran |-> TRUE]
    <2>1. i - Len(s) \in 1..Len(new)
      BY <1>2
    <2>2. (s \o new)[i] = new[i - Len(s)] /\ ~new[i - Len(s)].ran
      BY <1>1, <1>2, <2>1
    <2>. QED BY <2>2
  <1>3. DOMAIN s = 1..Len(s) /\ DOMAIN (s \o new) = 1..(Len(s) + Len(new))
    BY <1>1
  <1>4. Len(s) \in Nat /\ Len(new) \in Nat
    OBVIOUS
  <1>5. ASSUME NEW i PROVE i \in Ran(s \o new, k) <=> i \in Ran(s, k)
    BY <1>1, <1>2, <1>3, <1>4 DEF Ran
  <1>. QED BY <1>1, <1>5

\* A trimmed list is short, and what it does not tell of any more is lost.
LEMMA Trims ==
  ASSUME NEW s \in Seq(Entry), NEW max \in Nat \ {0}
  PROVE  /\ Trimmed(s, max) \in Seq(Entry) /\ Len(Trimmed(s, max)) <= max
         /\ Lost(s, max) \in [Calls -> Nat]
         /\ \A k \in Calls :
              Cardinality(Ran(s, k)) <= Cardinality(Ran(Trimmed(s, max), k)) + Lost(s, max)[k]
  <1>. DEFINE t == Trimmed(s, max)
              over == Len(s) - max
              Gone(k) == {i \in Ran(s, k) : i <= over}
  <1>1. Len(s) \in Nat /\ DOMAIN s = 1..Len(s) /\ over \in Int
    OBVIOUS
  <1>2. Lost(s, max) = [k \in Calls |-> Cardinality(Gone(k))]
    BY DEF Lost
  <1>3. ASSUME NEW k \in Calls
        PROVE  /\ Cardinality(Gone(k)) \in Nat /\ IsFiniteSet(Ran(s, k) \ Gone(k))
               /\ Cardinality(Ran(s, k)) = Cardinality(Ran(s, k) \ Gone(k)) + Cardinality(Gone(k))
    <2>1. /\ IsFiniteSet(Ran(s, k)) /\ Cardinality(Ran(s, k)) \in Nat
          /\ Gone(k) \subseteq Ran(s, k) /\ Ran(s, k) \cap Gone(k) = Gone(k)
      BY RanFinite
    <2>. HIDE DEF Gone
    <2>2. IsFiniteSet(Gone(k)) /\ Cardinality(Gone(k)) \in Nat
      BY <2>1, FS_Subset, FS_CardinalityType
    <2>. DEFINE R == Ran(s, k)
                G == Gone(k)
    <2>3. IsFiniteSet(R) /\ Cardinality(R) \in Nat /\ R \cap G = G /\ Cardinality(G) \in Nat
      BY <2>1, <2>2
    <2>4. IsFiniteSet(R \ G) /\ Cardinality(R \ G) = Cardinality(R) - Cardinality(R \cap G)
      BY <2>3, FS_Difference
    <2>. HIDE DEF R, G
    <2>5. Cardinality(R \cap G) = Cardinality(G)
      BY <2>3, Zenon
    <2>6. Cardinality(R) = Cardinality(R \ G) + Cardinality(G)
      BY <2>3, <2>4, <2>5
    <2>. QED BY <2>3, <2>4, <2>6 DEF R, G
  <1>4. CASE Len(s) > max
    <2>1. t = SubSeq(s, over + 1, Len(s)) /\ over + 1 \in 1..Len(s)
      BY <1>1, <1>4 DEF Trimmed
    <2>2. /\ t \in Seq(Entry) /\ Len(t) = max /\ DOMAIN t = 1..max
          /\ \A i \in 1..max : t[i] = s[i + over]
      BY <1>1, <1>4, <2>1
    <2>3. ASSUME NEW k \in Calls
          PROVE  Cardinality(Ran(s, k) \ Gone(k)) <= Cardinality(Ran(t, k))
      <3>. DEFINE f == [i \in Ran(s, k) \ Gone(k) |-> i - over]
      <3>1. ASSUME NEW i \in Ran(s, k) \ Gone(k)
            PROVE  i \in Nat /\ i - over \in 1..max /\ i - over \in Ran(t, k)
        <4>1. i \in 1..Len(s) /\ s[i] = [call |-> k, ran |-> TRUE] /\ ~(i <= over)
          BY <1>1 DEF Ran
        <4>2. i - over \in 1..max /\ (i - over) + over = i
          BY <1>1, <4>1
        <4>3. t[i - over] = s[i]
          BY <2>2, <4>2
        <4>. QED BY <2>2, <4>1, <4>2, <4>3 DEF Ran
      <3>2. f \in Injection(Ran(s, k) \ Gone(k), Ran(t, k))
        <4>1. f \in [Ran(s, k) \ Gone(k) -> Ran(t, k)]
          BY <3>1
        <4>2. \A i, j \in Ran(s, k) \ Gone(k) : f[i] = f[j] => i = j
          BY <1>1, <3>1
        <4>. QED BY <4>1, <4>2 DEF Injection, IsInjective
      <3>3. IsFiniteSet(Ran(t, k))
        BY <2>2, RanFinite
      <3>. QED BY <3>2, <3>3, FS_Injection
    <2>4. ASSUME NEW k \in Calls
          PROVE  Cardinality(Ran(s, k)) <= Cardinality(Ran(t, k)) + Cardinality(Gone(k))
      <3>1. Cardinality(Ran(t, k)) \in Nat /\ Cardinality(Ran(s, k) \ Gone(k)) \in Nat
        BY <1>3, <2>2, RanFinite, FS_CardinalityType
      <3>. QED BY <1>3, <2>3, <3>1
    <2>. HIDE DEF Gone, t
    <2>5. Lost(s, max) \in [Calls -> Nat] /\ \A k \in Calls : Lost(s, max)[k] = Cardinality(Gone(k))
      BY <1>2, <1>3
    <2>6. Len(t) <= max
      BY <2>2
    <2>. QED BY <2>2, <2>4, <2>5, <2>6 DEF t
  <1>5. CASE ~(Len(s) > max)
    <2>1. t = s /\ Len(s) <= max
      BY <1>1, <1>5 DEF Trimmed
    <2>2. \A k \in Calls : Cardinality(Ran(s, k)) \in Nat
      BY RanFinite
    <2>. HIDE DEF Gone, t
    <2>3. Lost(s, max) \in [Calls -> Nat] /\ \A k \in Calls : Lost(s, max)[k] = Cardinality(Gone(k))
      BY <1>2, <1>3
    <2>4. \A k \in Calls : Cardinality(Ran(s, k)) <= Cardinality(Ran(s, k)) + Lost(s, max)[k]
      BY <2>2, <2>3
    <2>. QED BY <2>1, <2>3, <2>4 DEF t
  <1>. QED BY <1>4, <1>5

LEMMA RecordedType ==
  ASSUME ListsOK, NEW c \in Convs, NEW k \in Calls
  PROVE  Recorded(c, k) \in Nat /\ Recorded(c, k) <= Entries(c, {k}) /\ Entries(c, {k}) \in Nat
  <1>1. steps[c] \in Seq(Entry) /\ usage[c] \in Seq(Entry)
    BY DEF ListsOK
  <1>2. /\ Cardinality(Ran(steps[c], k)) \in Nat /\ Cardinality(Ran(usage[c], k)) \in Nat
        /\ Cardinality(Of(steps[c], {k})) \in Nat /\ Cardinality(Of(usage[c], {k})) \in Nat
        /\ Cardinality(Ran(steps[c], k)) <= Cardinality(Of(steps[c], {k}))
        /\ Cardinality(Ran(usage[c], k)) <= Cardinality(Of(usage[c], {k}))
    BY <1>1, RanFinite
  <1>. QED BY <1>2 DEF Recorded, Entries

\* The lists of c get entries of executions of the calls in T, those in S begin, and
\* what the lists lose is forgotten.
Given(c, d, k, S) == IF d = c /\ k \in S THEN 1 ELSE 0

Notes(c, S, T) ==
  /\ ListsOK' /\ executed' \in Counts
  /\ \A d \in Convs, k \in Calls : \E n \in Nat :
       /\ executed'[d][k] = IF executed[d][k] + Given(c, d, k, S) > n
                            THEN (executed[d][k] + Given(c, d, k, S)) - n ELSE 0
       /\ Recorded(d, k)' \in Nat
       /\ Recorded(d, k)' + n >= Recorded(d, k) + Given(c, d, k, T)

\* What one list does.
LEMMA ListNotes ==
  ASSUME ListsOK, executed \in Counts, NEW c \in Convs, NEW S \in SUBSET Calls, NEW T,
         NEW s \in Seq(Entry), NEW old \in Seq(Entry), NEW max \in Nat \ {0},
         \A k \in Calls : Cardinality(Ran(s, k)) = Cardinality(Ran(old, k)) + IF k \in T THEN 1 ELSE 0,
         executed' = Forget(Count(executed, c, S), c, Lost(s, max)),
         \/ /\ old = steps[c] /\ max = MaxTrace
            /\ steps' = [steps EXCEPT ![c] = Trimmed(s, max)] /\ usage' = usage
         \/ /\ old = usage[c] /\ max = MaxToolUsage
            /\ usage' = [usage EXCEPT ![c] = Trimmed(s, max)] /\ steps' = steps
  PROVE  Notes(c, S, T)
  <1>1. /\ Trimmed(s, max) \in Seq(Entry) /\ Len(Trimmed(s, max)) <= max
        /\ Lost(s, max) \in [Calls -> Nat]
        /\ \A k \in Calls :
             Cardinality(Ran(s, k)) <= Cardinality(Ran(Trimmed(s, max), k)) + Lost(s, max)[k]
    BY Trims
  <1>. DEFINE t == Trimmed(s, max)
              lost == Lost(s, max)
              f == Count(executed, c, S)
  <1>2. ListsOK'
    BY <1>1 DEF ListsOK
  <1>3. /\ Count(executed, c, S) \in Counts
        /\ \A d \in Convs, k \in Calls :
             Count(executed, c, S)[d][k] = executed[d][k] + Given(c, d, k, S)
    BY CountAdds DEF Given
  <1>4. /\ executed' \in Counts
        /\ \A d \in Convs \ {c}, k \in Calls :
             executed'[d][k] = executed[d][k] + Given(c, d, k, S)
        /\ \A k \in Calls :
             executed'[c][k] = IF executed[c][k] + Given(c, c, k, S) > lost[k]
                               THEN (executed[c][k] + Given(c, c, k, S)) - lost[k] ELSE 0
    <2>1. executed' = Forget(f, c, lost) /\ lost \in [Calls -> Nat] /\ f \in Counts
      BY <1>1, <1>3
    <2>2. \A d \in Convs, k \in Calls : f[d][k] = executed[d][k] + Given(c, d, k, S)
      BY <1>3
    <2>. HIDE DEF lost, f
    <2>3. \A d \in Convs, k \in Calls :
            executed'[d][k] = IF d # c THEN f[d][k]
                              ELSE IF f[c][k] > lost[k] THEN f[c][k] - lost[k] ELSE 0
      BY <2>1, ForgetTakes
    <2>4. executed' \in Counts
      BY <2>1, ForgetTakes
    <2>5. ASSUME NEW d \in Convs \ {c}, NEW k \in Calls
          PROVE  executed'[d][k] = executed[d][k] + Given(c, d, k, S)
      <3>1. executed'[d][k] = f[d][k]
        BY <2>3
      <3>. QED BY <2>2, <3>1
    <2>6. ASSUME NEW k \in Calls
          PROVE  executed'[c][k] = IF executed[c][k] + Given(c, c, k, S) > lost[k]
                                   THEN (executed[c][k] + Given(c, c, k, S)) - lost[k] ELSE 0
      <3>. DEFINE z == executed[c][k] + Given(c, c, k, S)
      <3>1. executed'[c][k] = IF f[c][k] > lost[k] THEN f[c][k] - lost[k] ELSE 0
        BY <2>3
      <3>2. f[c][k] = z
        BY <2>2
      <3>. HIDE DEF z
      <3>3. executed'[c][k] = IF z > lost[k] THEN z - lost[k] ELSE 0
        BY <3>1, <3>2
      <3>. QED BY <3>3 DEF z
    <2>. QED BY <2>4, <2>5, <2>6
  <1>. HIDE DEF lost, t, f
  <1>5. ASSUME NEW d \in Convs, NEW k \in Calls
        PROVE  \E n \in Nat :
                 /\ executed'[d][k] = IF executed[d][k] + Given(c, d, k, S) > n
                                      THEN (executed[d][k] + Given(c, d, k, S)) - n ELSE 0
                 /\ Recorded(d, k)' \in Nat
                 /\ Recorded(d, k)' + n >= Recorded(d, k) + Given(c, d, k, T)
    <2>1. /\ executed[d][k] \in Nat /\ Given(c, d, k, S) \in {0, 1}
          /\ Given(c, d, k, T) = IF d = c /\ k \in T THEN 1 ELSE 0
      BY DEF Counts, Given
    <2>2. Recorded(d, k)' \in Nat /\ Recorded(d, k) \in Nat
      <3>1. /\ steps[d] \in Seq(Entry) /\ usage[d] \in Seq(Entry)
            /\ steps'[d] \in Seq(Entry) /\ usage'[d] \in Seq(Entry)
        BY <1>2 DEF ListsOK
      <3>2. /\ Cardinality(Ran(steps[d], k)) \in Nat /\ Cardinality(Ran(usage[d], k)) \in Nat
            /\ Cardinality(Ran(steps'[d], k)) \in Nat /\ Cardinality(Ran(usage'[d], k)) \in Nat
        BY <3>1, RanFinite
      <3>. QED BY <3>2 DEF Recorded
    <2>3. CASE d # c
      <3>1. steps'[d] = steps[d] /\ usage'[d] = usage[d]
        BY <2>3 DEF ListsOK
      <3>2. Recorded(d, k)' = Recorded(d, k)
        BY <3>1 DEF Recorded
      <3>3. executed'[d][k] = executed[d][k] /\ Given(c, d, k, S) = 0
        BY <1>4, <2>1, <2>3 DEF Given
      <3>4. WITNESS 0 \in Nat
      <3>. QED BY <2>1, <2>2, <2>3, <3>2, <3>3
    <2>4. CASE d = c
      <3>1. lost[k] \in Nat
        BY <1>1 DEF lost
      <3>2. /\ Cardinality(Ran(old, k)) \in Nat /\ Cardinality(Ran(t, k)) \in Nat
            /\ Cardinality(Ran(old, k)) + (IF k \in T THEN 1 ELSE 0)
                 <= Cardinality(Ran(t, k)) + lost[k]
        BY <1>1, RanFinite DEF lost, t
      <3>3. \/ /\ Recorded(d, k) = Cardinality(Ran(old, k)) + Cardinality(Ran(usage[c], k))
               /\ Recorded(d, k)' = Cardinality(Ran(t, k)) + Cardinality(Ran(usage[c], k))
            \/ /\ Recorded(d, k) = Cardinality(Ran(steps[c], k)) + Cardinality(Ran(old, k))
               /\ Recorded(d, k)' = Cardinality(Ran(steps[c], k)) + Cardinality(Ran(t, k))
        BY <2>4 DEF Recorded, ListsOK, t
      <3>4. Cardinality(Ran(usage[c], k)) \in Nat /\ Cardinality(Ran(steps[c], k)) \in Nat
        BY RanFinite DEF ListsOK
      <3>5. Recorded(d, k)' + lost[k] >= Recorded(d, k) + Given(c, d, k, T)
        <4>. DEFINE x == Cardinality(Ran(old, k))
                    y == Cardinality(Ran(t, k))
                    v == IF k \in T THEN 1 ELSE 0
        <4>1. x \in Nat /\ y \in Nat /\ v \in Nat /\ x + v <= y + lost[k]
          BY <3>2
        <4>2. Given(c, d, k, T) = v
          BY <2>1, <2>4
        <4>. HIDE DEF x, y, v
        <4>3. \E u \in Nat : \/ /\ Recorded(d, k) = x + u
                               /\ Recorded(d, k)' = y + u
                            \/ /\ Recorded(d, k) = u + x
                               /\ Recorded(d, k)' = u + y
          BY <3>3, <3>4 DEF x, y
        <4>. QED BY <3>1, <4>1, <4>2, <4>3
      <3>6. WITNESS lost[k] \in Nat
      <3>. QED BY <1>4, <2>2, <2>4, <3>5
    <2>. QED BY <2>3, <2>4
  <1>. QED BY <1>2, <1>4, <1>5 DEF Notes

LEMMA StepNotes ==
  ASSUME ListsOK, executed \in Counts, NEW c \in Convs, NEW k \in Calls, NEW ran \in BOOLEAN,
         RecordStep(c, k, ran)
  PROVE  Notes(c, IF ran THEN {k} ELSE {}, IF ran THEN {k} ELSE {})
  <1>. DEFINE old == steps[c]
              s == Append(old, [call |-> k, ran |-> ran])
              S == IF ran THEN {k} ELSE {}
  <1>1. old \in Seq(Entry)
    BY DEF ListsOK
  <1>2. s \in Seq(Entry) /\ \A j \in Calls :
          Cardinality(Ran(s, j)) = Cardinality(Ran(old, j)) + IF j \in S THEN 1 ELSE 0
    BY <1>1, RanAppend
  <1>3. /\ steps' = [steps EXCEPT ![c] = Trimmed(s, MaxTrace)] /\ usage' = usage
        /\ executed' = Forget(Count(executed, c, S), c, Lost(s, MaxTrace))
    BY DEF RecordStep
  <1>4. S \in SUBSET Calls
    OBVIOUS
  <1>. HIDE DEF S, s
  <1>5. Notes(c, S, S)
    BY <1>1, <1>2, <1>3, <1>4, Limits, ListNotes
  <1>. QED BY <1>5 DEF S

LEMMA UsageNotes ==
  ASSUME ListsOK, executed \in Counts, NEW c \in Convs, NEW k \in Calls, NEW ran \in BOOLEAN,
         RecordUsage(c, <<[call |-> k, ran |-> ran]>>, {})
  PROVE  Notes(c, {}, IF ran THEN {k} ELSE {})
  <1>. DEFINE old == usage[c]
              s == old \o <<[call |-> k, ran |-> ran]>>
              T == IF ran THEN {k} ELSE {}
  <1>1. old \in Seq(Entry)
    BY DEF ListsOK
  <1>2. s \in Seq(Entry) /\ \A j \in Calls :
          Cardinality(Ran(s, j)) = Cardinality(Ran(old, j)) + IF j \in T THEN 1 ELSE 0
    <2>1. s \in Seq(Entry) /\ s = Append(old, [call |-> k, ran |-> ran])
      BY <1>1, RanAppend
    <2>2. ASSUME NEW j \in Calls
          PROVE  Cardinality(Ran(s, j)) = Cardinality(Ran(old, j)) + IF j \in T THEN 1 ELSE 0
      <3>1. Cardinality(Ran(Append(old, [call |-> k, ran |-> ran]), j)) =
              Cardinality(Ran(old, j)) + IF ran /\ k = j THEN 1 ELSE 0
        BY <1>1, RanAppend
      <3>2. j \in T <=> ran /\ k = j
        OBVIOUS
      <3>. HIDE DEF T, s
      <3>. QED BY <2>1, <3>1, <3>2
    <2>. QED BY <2>1, <2>2
  <1>3. /\ usage' = [usage EXCEPT ![c] = Trimmed(s, MaxToolUsage)] /\ steps' = steps
        /\ executed' = Forget(Count(executed, c, {}), c, Lost(s, MaxToolUsage))
    BY DEF RecordUsage
  <1>. HIDE DEF T, s
  <1>4. Notes(c, {}, T)
    BY <1>1, <1>2, <1>3, Limits, ListNotes
  <1>. QED BY <1>4 DEF T

LEMMA RefusedNotes ==
  ASSUME ListsOK, executed \in Counts, NEW c \in Convs, NEW S \in SUBSET Calls,
         NEW new \in Seq(Entry), \A i \in DOMAIN new : ~new[i].ran, RecordUsage(c, new, S)
  PROVE  Notes(c, S, {})
  <1>. DEFINE old == usage[c]
              s == old \o new
  <1>1. old \in Seq(Entry)
    BY DEF ListsOK
  <1>2. /\ s \in Seq(Entry)
        /\ \A j \in Calls :
             Cardinality(Ran(s, j)) = Cardinality(Ran(old, j)) + IF j \in {} THEN 1 ELSE 0
    <2>1. ASSUME NEW j \in Calls
          PROVE  s \in Seq(Entry) /\ Ran(s, j) = Ran(old, j) /\ Cardinality(Ran(old, j)) \in Nat
      BY <1>1, RanRefused, RanFinite
    <2>2. s \in Seq(Entry)
      BY <1>1
    <2>. QED BY <2>1, <2>2
  <1>3. /\ usage' = [usage EXCEPT ![c] = Trimmed(s, MaxToolUsage)] /\ steps' = steps
        /\ executed' = Forget(Count(executed, c, S), c, Lost(s, MaxToolUsage))
    BY DEF RecordUsage
  <1>. HIDE DEF s
  <1>. QED BY <1>1, <1>2, <1>3, Limits, ListNotes

\* The counts stay in order when no more executions begin than get under way or into
\* the lists, and those that begin have room below the bound.
LEMMA NotesKeep ==
  ASSUME ListsOK, executed \in Counts, CountsOK, NEW c \in Convs, NEW S, NEW T, Notes(c, S, T),
         NEW d \in Convs, NEW k \in Calls, Capacity(d)' = Capacity(d), Capacity(d) \in Nat,
         Under(Turns(d), k) \in Nat, Under(Turns(d), k)' \in Nat,
         Under(Turns(d), k) + Given(c, d, k, S) <= Under(Turns(d), k)' + Given(c, d, k, T),
         d = c /\ k \in S => executed[d][k] + 1 <= Stop - 1 + (Capacity(d) - 1)
  PROVE  CountOK(d, k)'
  <1>. PICK n \in Nat :
         /\ executed'[d][k] = IF executed[d][k] + Given(c, d, k, S) > n
                              THEN (executed[d][k] + Given(c, d, k, S)) - n ELSE 0
         /\ Recorded(d, k)' \in Nat
         /\ Recorded(d, k)' + n >= Recorded(d, k) + Given(c, d, k, T)
    BY DEF Notes
  <1>. DEFINE x == Given(c, d, k, S)
              y == Given(c, d, k, T)
  <1>1. x \in {0, 1} /\ y \in {0, 1} /\ (x = 1 => d = c /\ k \in S)
    BY DEF Given
  <1>2. executed[d][k] \in Nat /\ Recorded(d, k) \in Nat
    BY RecordedType DEF Counts
  <1>3. CountOK(d, k)
    BY DEF CountsOK
  <1>4. /\ executed[d][k] <= Recorded(d, k) + Under(Turns(d), k)
        /\ executed[d][k] = 0 \/ executed[d][k] <= Stop - 1 + (Capacity(d) - 1)
    BY <1>3 DEF CountOK
  <1>. HIDE DEF x, y
  <1>5. executed'[d][k] <= Recorded(d, k)' + Under(Turns(d), k)'
    BY <1>1, <1>2, <1>4 DEF x, y
  <1>6. executed'[d][k] = 0 \/ executed'[d][k] <= Stop - 1 + (Capacity(d) - 1)
    BY <1>1, <1>2, <1>4, Limits DEF x
  <1>. QED BY <1>5, <1>6 DEF CountOK

-----------------------------------------------------------------------------
(* Where no turn changes its conversation.                                   *)

KeepsConv == \A r \in Runs : turn'[r].conv = turn[r].conv

LEMMA KeepsTurns ==
  ASSUME KeepsConv, NEW c \in Convs
  PROVE  Turns(c)' = Turns(c) /\ Capacity(c)' = Capacity(c)
  BY DEF KeepsConv, Turns, Capacity

LEMMA InitOK == Init => IInv
  <1>. SUFFICES ASSUME Init PROVE IInv
    OBVIOUS
  <1>1. TypeOK
    <2>1. Fresh \in TurnRec
      BY Limits DEF TurnRec, Fresh, Stages
    <2>a. turn \in [Runs -> TurnRec]
      BY <2>1 DEF Init
    <2>2. flight \in [Runs -> [Slots -> FlightRec]]
      BY DEF Init, FlightRec, Free
    <2>3. ListsOK /\ executed \in Counts
      <3>1. <<>> \in Seq(Entry) /\ Len(<<>>) = 0
        OBVIOUS
      <3>. QED BY <3>1, Limits DEF Init, Counts, Zero, ListsOK
    <2>4. /\ calls \in 0..MaxCalls /\ rounds \in [Convs -> Nat]
          /\ active \in Convs \cup {None} /\ kernelMode \in BOOLEAN
      <3>1. calls = 0 /\ active = None /\ kernelMode = FALSE /\ rounds = [c \in Convs |-> 0]
        BY DEF Init
      <3>. QED BY <3>1, FirstSteps
    <2>. QED BY <2>a, <2>2, <2>3, <2>4, TypeParts
  <1>2. TurnsOK /\ FlightOK /\ FlagMeansKernel
    BY DEF Init, TurnsOK, FlightOK, FlagMeansKernel, Fresh, Free
  <1>3. ASSUME NEW c \in Convs, NEW k \in Calls PROVE CountOK(c, k)
    <2>1. Under(Turns(c), k) \in Nat
      BY PlacesFinite DEF Under, Places, Turns
    <2>2. Recorded(c, k) \in Nat
      BY <1>1, TypeParts, RecordedType
    <2>. QED BY <2>1, <2>2 DEF Init, CountOK, Zero
  <1>. QED BY <1>1, <1>2, <1>3 DEF IInv, Shape, CountsOK

LEMMA CapacityType == \A c : Capacity(c) \in Nat
  <1>. SUFFICES ASSUME NEW c PROVE Capacity(c) \in Nat
    OBVIOUS
  <1>1. Turns(c) \in SUBSET Runs /\ {} \in SUBSET (Turns(c) \X Slots)
    BY DEF Turns
  <1>2. Cardinality(Turns(c)) \in Nat
    BY <1>1, PlacesFinite
  <1>. QED BY <1>2, Limits DEF Capacity

\* What touches neither calls under way, executions nor lists keeps the counts in order,
\* and so does an entry of a call that was not executed.
LEMMA QuietKeepsCounts ==
  ASSUME Shape, CountsOK, KeepsConv, UNCHANGED flight,
         UNCHANGED <<lists, executed>> \/ \E c \in Convs : Notes(c, {}, {})
  PROVE  CountsOK'
  <1>. SUFFICES ASSUME NEW d \in Convs, NEW k \in Calls PROVE CountOK(d, k)'
    BY DEF CountsOK
  <1>1. executed \in Counts /\ ListsOK
    BY TypeParts DEF Shape
  <1>2. Turns(d)' = Turns(d) /\ Capacity(d)' = Capacity(d)
    BY KeepsTurns
  <1>3. Under(Turns(d), k)' = Under(Turns(d), k)
    BY <1>2 DEF Under, Places
  <1>4. Under(Turns(d), k) \in Nat /\ Capacity(d) \in Nat
    BY PlacesFinite, CapacityType DEF Under, Places, Turns
  <1>5. CASE UNCHANGED <<lists, executed>>
    <2>1. Recorded(d, k)' = Recorded(d, k) /\ executed' = executed
      BY <1>5 DEF Recorded, lists
    <2>. QED BY <1>2, <1>3, <2>1 DEF CountOK, CountsOK
  <1>6. ASSUME NEW c \in Convs, Notes(c, {}, {}) PROVE CountOK(d, k)'
    BY <1>1, <1>2, <1>3, <1>4, <1>6, NotesKeep DEF Given
  <1>. QED BY <1>5, <1>6

-----------------------------------------------------------------------------
(* Turns that move on.                                                       *)

\* The turn r moves to a stage; its conversation stays.
Moves(r, stage) ==
  /\ turn' \in [Runs -> TurnRec]
  /\ \A p \in Runs \ {r} : turn'[p] = turn[p]
  /\ turn'[r].conv = turn[r].conv /\ turn'[r].stage = stage

LEMMA DoneMoves ==
  ASSUME TypeOK, NEW r \in Runs, turn' = Done(r)
  PROVE  Moves(r, "done")
  <1>. DEFINE d == [Fresh EXCEPT !.conv = turn[r].conv, !.stage = "done"]
  <1>2. turn \in [Runs -> TurnRec]
    BY TypeParts
  <1>1. d \in TurnRec /\ d.conv = turn[r].conv /\ d.stage = "done"
    BY <1>2, FirstSteps DEF Fresh, TurnRec, Stages
  <1>. QED BY <1>1, <1>2 DEF Done, Moves

LEMMA LeaveMoves ==
  ASSUME TypeOK, NEW r \in Runs, NEW next \in Stages, LeaveKernel(r, next)
  PROVE  Moves(r, next) /\ kernelMode' = FALSE
  <1>. DEFINE d == [turn[r] EXCEPT !.stage = next, !.step = 0, !.tried = {}, !.call = None]
  <1>1. turn' = [turn EXCEPT ![r] = d]
    BY DEF LeaveKernel
  <1>3. turn \in [Runs -> TurnRec]
    BY TypeParts
  <1>2. d \in TurnRec /\ d.conv = turn[r].conv /\ d.stage = next
    BY <1>3, FirstSteps DEF TurnRec
  <1>. QED BY <1>1, <1>2, <1>3 DEF LeaveKernel, Moves

LEMMA NextStepMoves ==
  ASSUME TypeOK, NEW r \in Runs, NEW tried \in SUBSET Calls, NextStep(r, tried)
  PROVE  \/ Moves(r, "judge") /\ kernelMode' = FALSE
         \/ Moves(r, "plan") /\ kernelMode' = kernelMode
  <1>1. CASE turn[r].step = MaxKernelSteps
    BY <1>1, LeaveMoves DEF NextStep, Stages
  <1>2. CASE turn[r].step # MaxKernelSteps
    <2>. DEFINE d == [turn[r] EXCEPT !.stage = "plan", !.step = @ + 1, !.tried = tried,
                                     !.call = None]
    <2>1. turn' = [turn EXCEPT ![r] = d] /\ kernelMode' = kernelMode
      BY <1>2 DEF NextStep
    <2>4. turn \in [Runs -> TurnRec]
      BY TypeParts
    <2>2. turn[r].step + 1 \in 0..MaxKernelSteps
      BY <1>2, <2>4, Limits DEF TurnRec
    <2>3. d \in TurnRec /\ d.conv = turn[r].conv /\ d.stage = "plan"
      BY <2>2, <2>4 DEF TurnRec, Stages
    <2>. QED BY <2>1, <2>3, <2>4 DEF Moves
  <1>. QED BY <1>1, <1>2

\* A turn under way that keeps its calls stays in shape, if it leaves its agent
\* only without calls.
LEMMA MovesKeepShape ==
  ASSUME Shape, NEW r \in Runs, NEW stage \in Stages \ {"idle"}, Moves(r, stage),
         turn[r].stage # "idle", flight' = flight,
         stage = "tool" => turn'[r].call \in Calls,
         stage # "direct" => turn[r].stage # "direct" \/ Occupied(r) = {}
  PROVE  KeepsConv /\ TurnsOK' /\ FlightOK'
  <1>1. KeepsConv
    BY DEF Moves, KeepsConv
  <1>2. TurnsOK'
    BY DEF Moves, TurnsOK, Shape
  <1>3. \A i \in Slots : stage # "direct" => flight[r][i].call = None
    BY DEF Shape, FlightOK, Occupied
  <1>4. FlightOK'
    BY <1>3 DEF Shape, FlightOK, Moves
  <1>. QED BY <1>1, <1>2, <1>4

\* The flag of a kernel: it stays on only while a turn stays in its kernel.
LEMMA MovesKeepFlag ==
  ASSUME FlagMeansKernel, NEW r \in Runs, NEW stage, Moves(r, stage),
         kernelMode' => /\ kernelMode
                        /\ turn[r].stage \in InKernel => stage \in InKernel
  PROVE  FlagMeansKernel'
  BY DEF FlagMeansKernel, Moves

\* The steps that leave calls and executions alone.
QuietStep(r) ==
  \/ StartKernel(r) \/ PlannerEnds(r) \/ PlannerFails(r)
  \/ \E k \in Calls : PlannerRepeats(r, k) \/ PlannerRefused(r, k)
  \/ ToolReturns(r) \/ AgentReplies(r) \/ Continue(r) \/ Finish(r)

\* Where a quiet step leads, and what it does to the flag.
QuietTo(r, stage) ==
  /\ Moves(r, stage)
  /\ turn[r].stage # "idle" /\ stage \notin {"idle", "tool"}
  /\ stage # "direct" => turn[r].stage # "direct" \/ Occupied(r) = {}
  /\ \/ kernelMode' = FALSE
     \/ stage = "plan" /\ kernelMode' \in BOOLEAN /\ (kernelMode' => turn'[r].stage = "plan")
     \/ turn[r].stage \notin InKernel /\ kernelMode' = kernelMode

LEMMA QuietLeads ==
  ASSUME TypeOK, TurnsOK, NEW r \in Runs, QuietStep(r)
  PROVE  /\ \E stage \in Stages : QuietTo(r, stage)
         /\ UNCHANGED <<flight, lists, executed, active, calls>>
         /\ rounds' \in [Convs -> Nat]
  <1>0. turn \in [Runs -> TurnRec] /\ kernelMode \in BOOLEAN /\ rounds \in [Convs -> Nat]
    BY TypeParts
  <1>1. CASE StartKernel(r)
    <2>1. Moves(r, "plan")
      <3>. DEFINE d == [turn[r] EXCEPT !.stage = "plan", !.step = 1]
      <3>1. d \in TurnRec /\ d.conv = turn[r].conv /\ d.stage = "plan"
        BY <1>0, FirstSteps DEF TurnRec, Stages
      <3>2. turn' = [turn EXCEPT ![r] = d]
        BY <1>1 DEF StartKernel
      <3>. QED BY <1>0, <3>1, <3>2 DEF Moves
    <2>. QED BY <1>0, <1>1, <2>1 DEF StartKernel, sharedVars, QuietTo, Stages, Moves
  <1>2. CASE PlannerEnds(r)
    <2>1. Moves(r, "judge") /\ kernelMode' = FALSE
      BY <1>2, LeaveMoves DEF PlannerEnds, Stages
    <2>. QED BY <1>0, <1>2, <2>1 DEF PlannerEnds, sharedVars, QuietTo, Stages
  <1>3. CASE PlannerFails(r)
    <2>1. \E stage \in {"direct", "judge"} : Moves(r, stage) /\ kernelMode' = FALSE
      BY <1>3, LeaveMoves DEF PlannerFails, Stages
    <2>. QED BY <1>0, <1>3, <2>1 DEF PlannerFails, sharedVars, QuietTo, Stages
  <1>4. ASSUME NEW k \in Calls, PlannerRepeats(r, k)
        PROVE  QuietTo(r, "judge") /\ UNCHANGED <<flight, lists, executed, sharedVars>>
    <2>1. Moves(r, "judge") /\ kernelMode' = FALSE
      BY <1>4, LeaveMoves DEF PlannerRepeats, Stages
    <2>. QED BY <1>4, <2>1 DEF PlannerRepeats, QuietTo
  <1>5. ASSUME NEW tried \in SUBSET Calls, NextStep(r, tried), turn[r].stage \in InKernel
        PROVE  QuietTo(r, "judge") \/ QuietTo(r, "plan")
    <2>1. \/ Moves(r, "judge") /\ kernelMode' = FALSE
          \/ Moves(r, "plan") /\ kernelMode' = kernelMode
      BY <1>5, NextStepMoves
    <2>2. turn[r].stage \notin {"idle", "direct"}
      BY <1>5 DEF InKernel
    <2>. QED BY <1>0, <2>1, <2>2 DEF QuietTo, Moves
  <1>6. ASSUME NEW k \in Calls, PlannerRefused(r, k)
        PROVE  /\ QuietTo(r, "judge") \/ QuietTo(r, "plan")
               /\ UNCHANGED <<flight, lists, executed, sharedVars>>
    BY <1>0, <1>5, <1>6 DEF PlannerRefused, TurnRec, InKernel
  <1>7. CASE ToolReturns(r)
    <2>1. turn[r].tried \cup {turn[r].call} \in SUBSET Calls
      BY <1>0, <1>7 DEF TurnRec, TurnsOK, ToolReturns
    <2>2. QuietTo(r, "judge") \/ QuietTo(r, "plan")
      BY <1>5, <1>7, <2>1 DEF ToolReturns, InKernel
    <2>. QED BY <1>0, <1>7, <2>2 DEF ToolReturns, sharedVars, Stages
  <1>8. CASE AgentReplies(r)
    <2>1. Moves(r, "judge")
      BY <1>0, <1>8 DEF AgentReplies, Moves, TurnRec, Stages
    <2>. QED BY <1>0, <1>8, <2>1 DEF AgentReplies, sharedVars, QuietTo, Stages, InKernel
  <1>9. CASE Finish(r)
    <2>1. Moves(r, "done")
      BY <1>9, DoneMoves DEF Finish
    <2>. QED BY <1>0, <1>9, <2>1 DEF Finish, sharedVars, QuietTo, Stages, InKernel
  <1>10. CASE Continue(r)
    <2>1. Moves(r, "ready") \/ Moves(r, "done")
      BY <1>0, <1>10, DoneMoves, Limits DEF Continue, Moves, TurnRec, Stages
    <2>2. rounds' \in [Convs -> Nat]
      <3>1. turn[r].conv \in Convs
        BY <1>0, <1>10 DEF Continue, TurnsOK, TurnRec
      <3>2. rounds' = [rounds EXCEPT ![turn[r].conv] = rounds[turn[r].conv] + 1]
        BY <1>10 DEF Continue
      <3>. QED BY <1>0, <3>1, <3>2
    <2>. QED BY <1>0, <1>10, <2>1, <2>2 DEF Continue, QuietTo, Stages, InKernel
  <1>. QED
    BY <1>0, <1>1, <1>2, <1>3, <1>4, <1>6, <1>7, <1>8, <1>9, <1>10
    DEF QuietStep, sharedVars, Stages

LEMMA QuietKeeps ==
  ASSUME IInv, NEW r \in Runs, QuietStep(r)
  PROVE  IInv'
  <1>0. Shape /\ TypeOK /\ TurnsOK /\ CountsOK /\ FlagMeansKernel
    BY DEF IInv, Shape
  <1>1. PICK stage \in Stages : QuietTo(r, stage)
    BY <1>0, QuietLeads
  <1>2. /\ UNCHANGED <<flight, lists, executed, active, calls>>
        /\ rounds' \in [Convs -> Nat] /\ Moves(r, stage)
    BY <1>0, <1>1, QuietLeads DEF QuietTo
  <1>3. KeepsConv /\ TurnsOK' /\ FlightOK'
    BY <1>0, <1>1, <1>2, MovesKeepShape DEF QuietTo
  <1>4. CountsOK'
    BY <1>0, <1>2, <1>3, QuietKeepsCounts
  <1>5. FlagMeansKernel'
    <2>1. CASE kernelMode' = FALSE
      BY <2>1 DEF FlagMeansKernel
    <2>2. CASE kernelMode' => turn'[r].stage = "plan"
      BY <2>2 DEF FlagMeansKernel, InKernel
    <2>3. CASE turn[r].stage \notin InKernel /\ kernelMode' = kernelMode
      BY <1>0, <1>2, <2>3 DEF FlagMeansKernel, Moves
    <2>. QED BY <1>1, <2>1, <2>2, <2>3 DEF QuietTo
  <1>6. TypeOK'
    <2>1. kernelMode' \in BOOLEAN
      BY <1>0, <1>1, TypeParts DEF QuietTo
    <2>2. turn' \in [Runs -> TurnRec]
      BY <1>2 DEF Moves
    <2>3. ListsOK'
      BY <1>0, <1>2, TypeParts DEF ListsOK, lists
    <2>. QED BY <1>0, <1>2, <2>1, <2>2, <2>3, TypeParts, TypePartsNext
  <1>. QED BY <1>3, <1>4, <1>5, <1>6 DEF IInv, Shape

-----------------------------------------------------------------------------
(* Calls that begin.                                                         *)

\* Whatever is executed was judged on lists that tell of fewer than the limit.
LEMMA BelowStop ==
  ASSUME TypeOK, NEW c \in Convs, NEW k \in Calls,
         Verdict(c, k) = "ok" \/ ~Blocked(c, k)
  PROVE  Recorded(c, k) + 1 <= Stop - 1
  <1>1. Recorded(c, k) \in Nat /\ Recorded(c, k) <= Entries(c, {k}) /\ Entries(c, {k}) \in Nat
    BY TypeParts, RecordedType
  <1>2. ~(Identical(c, k) >= Stop)
    BY DEF Verdict, Blocked
  <1>. QED BY <1>1, <1>2, Limits DEF Identical

\* The bound leaves room for a call that has a free place in a turn of c.
LEMMA RoomForCall ==
  ASSUME TypeOK, CountsOK, NEW c \in Convs, NEW k \in Calls,
         NEW r \in Turns(c), NEW i \in Slots, <<r, i>> \notin Places(Turns(c), k),
         Verdict(c, k) = "ok" \/ ~Blocked(c, k)
  PROVE  executed[c][k] + 1 <= Stop - 1 + (Capacity(c) - 1)
  <1>1. Recorded(c, k) + 1 <= Stop - 1
    BY BelowStop
  <1>2. Places(Turns(c), k) \in SUBSET (Turns(c) \X Slots) /\ Turns(c) \in SUBSET Runs
    BY DEF Places, Turns
  <1>3. Under(Turns(c), k) <= Capacity(c) - 1
    BY <1>2, RoomLeft DEF Under, Capacity
  <1>4. executed[c][k] <= Recorded(c, k) + Under(Turns(c), k)
    BY DEF CountsOK, CountOK
  <1>5. /\ Recorded(c, k) \in Nat /\ executed[c][k] \in Nat
        /\ Under(Turns(c), k) \in Nat /\ Capacity(c) \in Int
    <2>1. Cardinality(Turns(c)) \in Nat /\ Under(Turns(c), k) \in Nat
      BY <1>2, PlacesFinite DEF Under
    <2>2. Capacity(c) \in Int
      BY <2>1, Limits DEF Capacity
    <2>3. ListsOK /\ executed \in Counts
      BY TypeParts
    <2>. QED BY <2>1, <2>2, <2>3, RecordedType DEF Counts
  <1>. QED BY <1>1, <1>3, <1>4, <1>5, Limits

LEMMA PlannerCallKeeps ==
  ASSUME IInv, NEW r \in Runs, NEW k \in Calls, PlannerCalls(r, k)
  PROVE  IInv'
  <1>. DEFINE c == turn[r].conv
              S == IF Tool[k] # Parallel THEN {k} ELSE {}
  <1>0. Shape /\ TypeOK /\ TurnsOK /\ FlightOK /\ CountsOK /\ FlagMeansKernel
    BY DEF IInv, Shape
  <1>1. /\ turn \in [Runs -> TurnRec] /\ ListsOK /\ executed \in Counts
    BY <1>0, TypeParts
  <1>2. c \in Convs
    BY <1>0, <1>1 DEF PlannerCalls, TurnsOK, TurnRec
  <1>3. Moves(r, "tool") /\ turn'[r].call = k
    <2>. DEFINE d == [turn[r] EXCEPT !.stage = "tool", !.call = k]
    <2>1. d \in TurnRec /\ d.conv = turn[r].conv /\ d.stage = "tool" /\ d.call = k
      BY <1>1 DEF TurnRec, Stages
    <2>2. turn' = [turn EXCEPT ![r] = d]
      BY DEF PlannerCalls
    <2>. QED BY <1>1, <2>1, <2>2 DEF Moves
  <1>4. KeepsConv /\ TurnsOK' /\ FlightOK'
    <2>1. turn[r].stage = "plan" /\ flight' = flight
      BY DEF PlannerCalls
    <2>. QED BY <1>0, <1>3, <2>1, MovesKeepShape DEF Stages
  <1>5. Notes(c, S, S)
    <2>1. RecordStep(c, k, Tool[k] # Parallel) /\ (Tool[k] # Parallel) \in BOOLEAN
      BY DEF PlannerCalls
    <2>. QED BY <1>1, <1>2, <2>1, StepNotes
  <1>6. TypeOK'
    BY <1>0, <1>3, <1>5, TypeParts, TypePartsNext DEF Moves, PlannerCalls, sharedVars, Notes
  <1>7. ASSUME NEW d \in Convs, NEW j \in Calls PROVE CountOK(d, j)'
    <2>1. Turns(d)' = Turns(d) /\ Capacity(d)' = Capacity(d)
      BY <1>4, KeepsTurns
    <2>2. Under(Turns(d), j)' = Under(Turns(d), j)
      BY <2>1 DEF Under, Places, PlannerCalls
    <2>3. Under(Turns(d), j) \in Nat /\ Capacity(d) \in Nat /\ Given(c, d, j, S) \in {0, 1}
      BY PlacesFinite, CapacityType DEF Under, Places, Turns, Given
    <2>4. ASSUME d = c, j \in S
          PROVE  executed[d][j] + 1 <= Stop - 1 + (Capacity(d) - 1)
      <3>1. j = k /\ Verdict(c, k) = "ok"
        BY <2>4 DEF PlannerCalls
      <3>2. r \in Turns(c) /\ <<r, 1>> \notin Places(Turns(c), k)
        <4>1. flight[r][1].call = None /\ flight[r][1].inside = {}
          BY <1>0, Limits DEF PlannerCalls, FlightOK
        <4>. QED BY <4>1, SetAssumption DEF Turns, Places
      <3>. QED BY <1>0, <1>2, <2>4, <3>1, <3>2, RoomForCall, Limits
    <2>. HIDE DEF S, c
    <2>. QED BY <1>0, <1>1, <1>2, <1>5, <2>1, <2>2, <2>3, <2>4, NotesKeep
  <1>8. FlagMeansKernel'
    BY <1>0, <1>3, MovesKeepFlag DEF PlannerCalls, InKernel
  <1>. QED BY <1>4, <1>6, <1>7, <1>8 DEF IInv, Shape, CountsOK

LEMMA CallBlockedKeeps ==
  ASSUME IInv, NEW r \in Runs, NEW k \in Calls, CallBlocked(r, k)
  PROVE  IInv'
  <1>0. Shape /\ TypeOK /\ TurnsOK /\ FlightOK /\ CountsOK /\ FlagMeansKernel
    BY DEF IInv, Shape
  <1>1. turn[r].conv \in Convs /\ turn \in [Runs -> TurnRec] /\ ListsOK /\ executed \in Counts
    BY <1>0, TypeParts DEF CallBlocked, Calling, TurnsOK, TurnRec
  <1>2. /\ UNCHANGED <<turn, flight, rounds, active, kernelMode>>
        /\ calls < MaxCalls /\ calls' = calls + 1
    BY DEF CallBlocked, Calling
  <1>3. KeepsConv /\ TurnsOK' /\ FlightOK' /\ FlagMeansKernel'
    BY <1>0, <1>2 DEF KeepsConv, TurnsOK, FlightOK, FlagMeansKernel
  <1>4. Notes(turn[r].conv, {}, {})
    BY <1>1, UsageNotes DEF CallBlocked
  <1>5. CountsOK'
    BY <1>0, <1>1, <1>2, <1>3, <1>4, QuietKeepsCounts
  <1>6. TypeOK'
    <2>1. calls' \in 0..MaxCalls
      BY <1>0, <1>2, TypeParts, Limits
    <2>. QED BY <1>0, <1>2, <1>4, <2>1, TypeParts, TypePartsNext DEF Notes
  <1>. QED BY <1>3, <1>5, <1>6 DEF IInv, Shape

-----------------------------------------------------------------------------
(* One place of an agent's calls changes.                                    *)

Holds(f, k) == k = f.call \/ k \in f.inside

SetPlace(r, i, new) ==
  /\ new \in FlightRec
  /\ flight' = [flight EXCEPT ![r][i] = new]
  /\ UNCHANGED <<turn, rounds, active, kernelMode>>
  /\ calls' \in 0..MaxCalls

LEMMA PlaceChanges ==
  ASSUME TypeOK, NEW r \in Runs, NEW i \in Slots, NEW new, SetPlace(r, i, new),
         NEW c \in Convs, NEW k \in Calls
  PROVE  /\ Under(Turns(c), k) \in Nat /\ Under(Turns(c), k)' \in Nat
         /\ Turns(c)' = Turns(c) /\ Capacity(c)' = Capacity(c)
         /\ Under(Turns(c), k)' =
              Under(Turns(c), k)
                + (IF turn[r].conv = c /\ Holds(new, k) THEN 1 ELSE 0)
                - (IF turn[r].conv = c /\ Holds(flight[r][i], k) THEN 1 ELSE 0)
  <1>. DEFINE P == Places(Turns(c), k)
              Q == Places(Turns(c), k)'
              x == <<r, i>>
  <1>0. flight \in [Runs -> [Slots -> FlightRec]]
    BY TypeParts
  <1>1. Turns(c)' = Turns(c) /\ Capacity(c)' = Capacity(c) /\ Turns(c) \in SUBSET Runs
    BY DEF Turns, Capacity, SetPlace
  <1>2. P \in SUBSET (Turns(c) \X Slots) /\ Q \in SUBSET (Turns(c) \X Slots)
    BY <1>1 DEF Places
  <1>3. /\ IsFiniteSet(P) /\ Cardinality(P) \in Nat
        /\ IsFiniteSet(Q) /\ Cardinality(Q) \in Nat
    BY <1>1, <1>2, PlacesFinite
  <1>4. P \ {x} = Q \ {x}
    <2>1. ASSUME NEW y \in Turns(c) \X Slots, y # x
          PROVE  y \in P <=> y \in Q
      <3>1. y[1] \in Runs /\ y[2] \in Slots /\ (y[1] # r \/ y[2] # i)
        BY <1>1, <2>1
      <3>2. flight'[y[1]][y[2]] = flight[y[1]][y[2]]
        BY <1>0, <3>1 DEF SetPlace
      <3>. QED BY <1>1, <3>2 DEF Places
    <2>. QED BY <1>2, <2>1
  <1>5. x \in P <=> turn[r].conv = c /\ Holds(flight[r][i], k)
    BY DEF Places, Turns, Holds
  <1>6. x \in Q <=> turn[r].conv = c /\ Holds(new, k)
    <2>1. flight'[r][i] = new
      BY <1>0 DEF SetPlace
    <2>2. x \in Turns(c) \X Slots <=> turn[r].conv = c
      BY DEF Turns
    <2>. QED BY <1>1, <2>1, <2>2 DEF Places, Holds
  <1>. HIDE DEF P, Q, x
  <1>7. /\ Cardinality(P \ {x}) = IF x \in P THEN Cardinality(P) - 1 ELSE Cardinality(P)
        /\ Cardinality(Q \ {x}) = IF x \in Q THEN Cardinality(Q) - 1 ELSE Cardinality(Q)
    BY <1>3, FS_RemoveElement
  <1>8. Cardinality(Q) = Cardinality(P) + (IF x \in Q THEN 1 ELSE 0)
                                        - (IF x \in P THEN 1 ELSE 0)
    BY <1>3, <1>4, <1>7
  <1>9. Under(Turns(c), k) = Cardinality(P) /\ Under(Turns(c), k)' = Cardinality(Q)
    BY DEF Under, P, Q
  <1>. QED BY <1>1, <1>3, <1>5, <1>6, <1>8, <1>9

\* A new state of one place keeps shape and flag, whatever it is counted as.
LEMMA PlaceKeepsShape ==
  ASSUME Shape, FlagMeansKernel, NEW r \in Runs, NEW i \in Slots, NEW new,
         SetPlace(r, i, new), turn[r].stage = "direct" \/ new.call = None,
         IF new.call = None THEN new.inside = {} ELSE new.inside \subseteq Specs[new.call],
         ListsOK', executed' \in Counts
  PROVE  Shape' /\ FlagMeansKernel'
  <1>1. flight \in [Runs -> [Slots -> FlightRec]] /\ TypeOK /\ TurnsOK /\ FlightOK
    BY TypeParts DEF Shape
  <1>2. flight' \in [Runs -> [Slots -> FlightRec]]
    BY <1>1 DEF SetPlace
  <1>3. TypeOK'
    BY <1>1, <1>2, TypeParts, TypePartsNext DEF SetPlace
  <1>4. TurnsOK' /\ FlagMeansKernel'
    BY <1>1 DEF SetPlace, TurnsOK, FlagMeansKernel
  <1>5. FlightOK'
    <2>1. \A p \in Runs, j \in Slots :
            flight'[p][j] = IF p = r /\ j = i THEN new ELSE flight[p][j]
      BY <1>1 DEF SetPlace
    <2>. QED BY <1>1, <2>1 DEF SetPlace, FlightOK
  <1>. QED BY <1>3, <1>4, <1>5 DEF Shape

\* An agent with a call under way was asked, in a conversation.
LEMMA BusyTurn ==
  ASSUME Shape, NEW r \in Runs, NEW i \in Slots,
         flight[r][i].call # None \/ flight[r][i].inside # {}
  PROVE  /\ turn[r].stage = "direct" /\ turn[r].conv \in Convs
         /\ flight[r][i] \in FlightRec /\ flight[r][i].call \in Calls
         /\ flight[r][i].inside \subseteq Specs[flight[r][i].call]
  <1>1. turn[r] \in TurnRec /\ flight[r][i] \in FlightRec
    BY TypeParts DEF Shape
  <1>. QED BY <1>1 DEF Shape, FlightOK, TurnsOK, TurnRec, FlightRec

\* The end of the execution of k at a place: counted, or forgotten.
LEMMA EndKeepsCounts ==
  ASSUME Shape, CountsOK, NEW r \in Runs, NEW i \in Slots, NEW new, SetPlace(r, i, new),
         NEW k \in Calls, turn[r].conv \in Convs, Holds(flight[r][i], k),
         \A j \in Calls : Holds(new, j) <=> j # k /\ Holds(flight[r][i], j),
         \/ Notes(turn[r].conv, {}, {k})
         \/ /\ executed' = Forget(executed, turn[r].conv, [Zero EXCEPT ![k] = 1])
            /\ UNCHANGED lists
  PROVE  CountsOK' /\ ListsOK' /\ executed' \in Counts
  <1>. DEFINE n == [Zero EXCEPT ![k] = 1]
              c == turn[r].conv
  <1>0. TypeOK /\ ListsOK /\ executed \in Counts
    BY TypeParts DEF Shape
  <1>1. n \in [Calls -> Nat] /\ \A j \in Calls : n[j] = IF j = k THEN 1 ELSE 0
    BY DEF Zero
  <1>2. ASSUME NEW d \in Convs, NEW j \in Calls
        PROVE  /\ Under(Turns(d), j) \in Nat /\ Under(Turns(d), j)' \in Nat
               /\ Capacity(d)' = Capacity(d) /\ Capacity(d) \in Nat
               /\ Under(Turns(d), j)' = Under(Turns(d), j) - IF d = c /\ j = k THEN 1 ELSE 0
    BY <1>0, PlaceChanges, CapacityType
  <1>3. CASE Notes(c, {}, {k})
    <2>1. ASSUME NEW d \in Convs, NEW j \in Calls PROVE CountOK(d, j)'
      <3>1. /\ Given(c, d, j, {}) = 0
            /\ Given(c, d, j, {k}) = IF d = c /\ j = k THEN 1 ELSE 0
        BY DEF Given
      <3>2. Under(Turns(d), j) + Given(c, d, j, {}) <= Under(Turns(d), j)' + Given(c, d, j, {k})
        BY <1>2, <3>1
      <3>. HIDE DEF c
      <3>. QED BY <1>0, <1>2, <1>3, <3>2, NotesKeep DEF c
    <2>. QED BY <1>3, <2>1 DEF CountsOK, Notes
  <1>4. CASE executed' = Forget(executed, c, n) /\ UNCHANGED lists
    <2>1. ListsOK'
      BY <1>0, <1>4 DEF ListsOK, lists
    <2>. HIDE DEF n
    <2>2. /\ executed' \in Counts
          /\ \A d \in Convs, j \in Calls : executed'[d][j] =
               IF d # c THEN executed[d][j]
               ELSE IF executed[c][j] > n[j] THEN executed[c][j] - n[j] ELSE 0
      BY <1>0, <1>1, <1>4, ForgetTakes
    <2>3. ASSUME NEW d \in Convs, NEW j \in Calls PROVE CountOK(d, j)'
      <3>1. executed[d][j] \in Nat /\ Recorded(d, j) \in Nat
        BY <1>0, RecordedType DEF Counts
      <3>2. Recorded(d, j)' = Recorded(d, j)
        BY <1>4 DEF Recorded, lists
      <3>3. executed'[d][j] = IF d = c /\ j = k
                              THEN IF executed[d][j] > 1 THEN executed[d][j] - 1 ELSE 0
                              ELSE executed[d][j]
        <4>1. CASE j = k
          BY <1>1, <2>2, <4>1
        <4>2. CASE j # k
          <5>1. n[j] = 0
            BY <1>1, <4>2
          <5>. QED BY <2>2, <3>1, <4>2, <5>1
        <4>. QED BY <4>1, <4>2
      <3>4. CountOK(d, j)
        BY DEF CountsOK
      <3>. QED BY <1>2, <3>1, <3>2, <3>3, <3>4, Limits DEF CountOK
    <2>. QED BY <2>1, <2>2, <2>3 DEF CountsOK
  <1>. QED BY <1>3, <1>4

-----------------------------------------------------------------------------
(* The calls of an agent.                                                    *)

LEMMA CallToolKeeps ==
  ASSUME IInv, NEW r \in Runs, NEW k \in Calls, CallTool(r, k)
  PROVE  IInv'
  <1>. DEFINE c == turn[r].conv
              refused == {j \in Specs[k] : Blocked(c, j)}
              i == CHOOSE i \in FreeSlots(r) : TRUE
              new == [call |-> k, before |-> active, first |-> TRUE,
                      inside |-> Specs[k] \ refused]
              S == {k} \cup (Specs[k] \ refused)
  <1>0. Shape /\ TypeOK /\ FlightOK /\ CountsOK /\ FlagMeansKernel
    BY DEF IInv, Shape
  <1>1. /\ ListsOK /\ executed \in Counts /\ active \in Convs \cup {None}
        /\ calls \in 0..MaxCalls
    BY <1>0, TypeParts
  <1>2. c \in Convs /\ turn[r].stage = "direct"
    BY <1>0, TypeParts DEF CallTool, Calling, Shape, TurnsOK, TurnRec
  <1>3. i \in FreeSlots(r) /\ i \in Slots /\ flight[r][i].call = None
    BY DEF CallTool, FreeSlots, Occupied
  <1>4. Specs[k] \subseteq Calls /\ k \notin Specs[k] /\ k # None
    BY CallAssumption, SetAssumption
  <1>5. SetPlace(r, i, new)
    <2>1. new \in FlightRec
      BY <1>1, <1>4 DEF FlightRec
    <2>2. calls' \in 0..MaxCalls
      BY <1>1, Limits DEF CallTool, Calling
    <2>. QED BY <2>1, <2>2 DEF CallTool, SetPlace
  <1>6. Notes(c, S, {})
    <2>1. PICK q \in SetToSeqs(refused) :
            RecordUsage(c, [m \in DOMAIN q |-> [call |-> q[m], ran |-> FALSE]], S)
      BY DEF CallTool
    <2>2. IsFiniteSet(refused) /\ Cardinality(refused) \in Nat /\ refused \subseteq Calls
      BY <1>4, CallAssumption, FS_Subset, FS_CardinalityType
    <2>3. q \in [1..Cardinality(refused) -> refused]
      BY DEF SetToSeqs
    <2>. DEFINE e == [m \in DOMAIN q |-> [call |-> q[m], ran |-> FALSE]]
    <2>4. e \in [1..Cardinality(refused) -> Entry] /\ \A m \in DOMAIN e : ~e[m].ran
      BY <2>2, <2>3 DEF Entry
    <2>5. e \in Seq(Entry)
      <3>. HIDE DEF e
      <3>1. \E n \in Nat : e \in [1..n -> Entry]
        BY <2>2, <2>4
      <3>. QED BY <3>1, SeqDef
    <2>6. S \in SUBSET Calls
      BY <1>4
    <2>. HIDE DEF e, S
    <2>. QED BY <1>1, <1>2, <2>1, <2>4, <2>5, <2>6, RefusedNotes DEF e
  <1>7. ListsOK' /\ executed' \in Counts
    BY <1>6 DEF Notes
  <1>8. new.call = k /\ new.inside = Specs[k] \ refused
    OBVIOUS
  <1>. HIDE DEF i, new
  <1>9. Shape' /\ FlagMeansKernel'
    BY <1>0, <1>2, <1>3, <1>4, <1>5, <1>7, <1>8, PlaceKeepsShape
  <1>10. ASSUME NEW d \in Convs, NEW j \in Calls PROVE CountOK(d, j)'
    <2>1. ~Holds(flight[r][i], j)
      BY <1>0, <1>3, SetAssumption DEF FlightOK, Holds
    <2>2. Holds(new, j) <=> j \in S
      BY <1>8 DEF Holds
    <2>3. /\ Under(Turns(d), j) \in Nat
          /\ Capacity(d)' = Capacity(d) /\ Capacity(d) \in Nat
          /\ Under(Turns(d), j)' =
               Under(Turns(d), j) + IF c = d /\ j \in S THEN 1 ELSE 0
      <3>1. /\ Under(Turns(d), j) \in Nat /\ Capacity(d)' = Capacity(d)
            /\ Under(Turns(d), j)' =
                 Under(Turns(d), j)
                   + (IF turn[r].conv = d /\ Holds(new, j) THEN 1 ELSE 0)
                   - (IF turn[r].conv = d /\ Holds(flight[r][i], j) THEN 1 ELSE 0)
        BY <1>0, <1>3, <1>5, PlaceChanges
      <3>. QED BY <2>1, <2>2, <3>1, CapacityType
    <2>4. ASSUME c = d, j \in S
          PROVE  executed[d][j] + 1 <= Stop - 1 + (Capacity(d) - 1)
      <3>1. ~Blocked(c, j)
        BY <1>4, <2>4 DEF CallTool
      <3>2. r \in Turns(c) /\ <<r, i>> \notin Places(Turns(c), j)
        BY <2>1 DEF Turns, Places, Holds
      <3>. QED BY <1>0, <1>2, <1>3, <2>4, <3>1, <3>2, RoomForCall
    <2>5. /\ Given(c, d, j, S) = IF c = d /\ j \in S THEN 1 ELSE 0
          /\ Given(c, d, j, {}) = 0
      BY DEF Given
    <2>. HIDE DEF S, c
    <2>6. /\ Under(Turns(d), j)' \in Nat
          /\ Under(Turns(d), j) + Given(c, d, j, S) <= Under(Turns(d), j)' + Given(c, d, j, {})
      BY <2>3, <2>5
    <2>. QED BY <1>0, <1>1, <1>2, <1>6, <2>3, <2>4, <2>6, NotesKeep
  <1>. QED BY <1>9, <1>10 DEF IInv, CountsOK

LEMMA SpecReturnsKeeps ==
  ASSUME IInv, NEW r \in Runs, NEW i \in Slots, NEW k \in Calls, SpecReturns(r, i, k)
  PROVE  IInv'
  <1>. DEFINE f == flight[r][i]
              new == [f EXCEPT !.inside = @ \ {k}]
  <1>0. Shape /\ TypeOK /\ CountsOK /\ FlagMeansKernel
    BY DEF IInv, Shape
  <1>1. /\ turn[r].stage = "direct" /\ turn[r].conv \in Convs
        /\ f \in FlightRec /\ f.call \in Calls /\ f.inside \subseteq Specs[f.call]
    BY <1>0, BusyTurn DEF SpecReturns
  <1>2. k \in f.inside /\ k # f.call /\ f.call # None
    BY <1>1, CallAssumption, SetAssumption DEF SpecReturns
  <1>3. new \in FlightRec /\ new.call = f.call /\ new.inside = f.inside \ {k}
    BY <1>1 DEF FlightRec
  <1>4. SetPlace(r, i, new)
    BY <1>0, <1>3, TypeParts DEF SpecReturns, sharedVars, SetPlace
  <1>5. Notes(turn[r].conv, {}, {k})
    BY <1>0, <1>1, TypeParts, UsageNotes DEF SpecReturns
  <1>. HIDE DEF new
  <1>6. /\ Holds(f, k)
        /\ \A j \in Calls : Holds(new, j) <=> j # k /\ Holds(f, j)
    BY <1>2, <1>3 DEF Holds
  <1>7. CountsOK' /\ ListsOK' /\ executed' \in Counts
    BY <1>0, <1>1, <1>4, <1>5, <1>6, EndKeepsCounts
  <1>8. Shape' /\ FlagMeansKernel'
    BY <1>0, <1>1, <1>2, <1>3, <1>4, <1>7, PlaceKeepsShape
  <1>. QED BY <1>7, <1>8 DEF IInv

\* The end of a call whose inner calls are over, counted or forgotten.
LEMMA EndOfCallKeeps ==
  ASSUME IInv, NEW r \in Runs, NEW i \in Slots, Returning(r, i),
         flight' = [flight EXCEPT ![r][i] = Free],
         UNCHANGED <<turn, kernelMode, sharedVars>>,
         \/ RecordUsage(turn[r].conv, <<[call |-> flight[r][i].call, ran |-> TRUE]>>, {})
         \/ /\ executed' = Forget(executed, turn[r].conv, [Zero EXCEPT ![flight[r][i].call] = 1])
            /\ UNCHANGED lists
  PROVE  IInv'
  <1>. DEFINE f == flight[r][i]
  <1>0. Shape /\ TypeOK /\ CountsOK /\ FlagMeansKernel
    BY DEF IInv, Shape
  <1>1. f.call # None /\ f.inside = {}
    BY DEF Returning, Occupied
  <1>2. turn[r].conv \in Convs /\ f.call \in Calls
    BY <1>0, <1>1, BusyTurn
  <1>3. Free \in FlightRec /\ Free.call = None /\ Free.inside = {}
    BY DEF Free, FlightRec
  <1>4. SetPlace(r, i, Free)
    BY <1>0, <1>3, TypeParts DEF sharedVars, SetPlace
  <1>5. /\ Holds(f, f.call)
        /\ \A j \in Calls : Holds(Free, j) <=> j # f.call /\ Holds(f, j)
    BY <1>1, <1>3, SetAssumption DEF Holds
  <1>n. \/ Notes(turn[r].conv, {}, {f.call})
        \/ /\ executed' = Forget(executed, turn[r].conv, [Zero EXCEPT ![f.call] = 1])
           /\ UNCHANGED lists
    BY <1>0, <1>2, TypeParts, UsageNotes
  <1>6. CountsOK' /\ ListsOK' /\ executed' \in Counts
    BY <1>0, <1>2, <1>4, <1>5, <1>n, EndKeepsCounts
  <1>7. Shape' /\ FlagMeansKernel'
    BY <1>0, <1>3, <1>4, <1>6, PlaceKeepsShape
  <1>. QED BY <1>6, <1>7 DEF IInv

LEMMA CallReturnsKeeps ==
  ASSUME IInv, NEW r \in Runs, NEW i \in Slots, CallReturns(r, i)
  PROVE  IInv'
  BY EndOfCallKeeps DEF CallReturns

LEMMA CallRaisesKeeps ==
  ASSUME IInv, NEW r \in Runs, NEW i \in Slots, CallRaises(r, i)
  PROVE  IInv'
  <1>0. Shape /\ TypeOK /\ CountsOK /\ FlagMeansKernel
    BY DEF IInv, Shape
  <1>1. CASE flight[r][i].first
    <2>. DEFINE f == flight[r][i]
                new == [f EXCEPT !.first = FALSE]
    <2>1. f.call # None
      BY DEF CallRaises, Returning, Occupied
    <2>2. /\ turn[r].stage = "direct" /\ f \in FlightRec
          /\ f.inside \subseteq Specs[f.call]
      BY <1>0, <2>1, BusyTurn
    <2>3. new \in FlightRec /\ new.call = f.call /\ new.inside = f.inside
      BY <2>2 DEF FlightRec
    <2>4. /\ flight' = [flight EXCEPT ![r][i] = new]
          /\ UNCHANGED <<lists, executed, turn, kernelMode, sharedVars>>
      <3>1. [flight EXCEPT ![r][i].first = FALSE] = [flight EXCEPT ![r][i] = new]
        BY <1>0, TypeParts
      <3>. QED BY <1>1, <3>1 DEF CallRaises
    <2>5. SetPlace(r, i, new) /\ ListsOK' /\ executed' \in Counts
      BY <1>0, <2>3, <2>4, TypeParts DEF sharedVars, SetPlace, ListsOK, lists
    <2>. HIDE DEF new
    <2>6. Shape' /\ FlagMeansKernel'
      BY <1>0, <2>1, <2>2, <2>3, <2>5, PlaceKeepsShape
    <2>7. ASSUME NEW d \in Convs, NEW j \in Calls PROVE CountOK(d, j)'
      <3>1. Holds(new, j) <=> Holds(f, j)
        BY <2>3 DEF Holds
      <3>2. /\ Under(Turns(d), j)' = Under(Turns(d), j)
            /\ Capacity(d)' = Capacity(d)
        BY <1>0, <2>5, <3>1, PlaceChanges
      <3>3. Recorded(d, j)' = Recorded(d, j)
        BY <2>4 DEF Recorded, lists
      <3>. QED BY <1>0, <2>4, <3>2, <3>3 DEF CountsOK, CountOK
    <2>. QED BY <2>6, <2>7 DEF IInv, CountsOK
  <1>2. CASE ~flight[r][i].first
    BY <1>2, EndOfCallKeeps DEF CallRaises
  <1>. QED BY <1>1, <1>2

-----------------------------------------------------------------------------
(* The end of a turn with its calls, and its beginning.                      *)

LEMMA DropKeeps ==
  ASSUME IInv, NEW r \in Runs, turn[r].stage \notin {"idle", "done"}, turn' = Done(r),
         DropCalls(r), UNCHANGED <<lists, sharedVars>>,
         kernelMode' = (kernelMode /\ turn[r].stage \notin InKernel)
  PROVE  IInv'
  <1>. DEFINE c == turn[r].conv
              n == [k \in Calls |-> Under({r}, k)]
  <1>0. Shape /\ TypeOK /\ TurnsOK /\ FlightOK /\ CountsOK /\ FlagMeansKernel
    BY DEF IInv, Shape
  <1>1. /\ ListsOK /\ executed \in Counts /\ turn \in [Runs -> TurnRec]
        /\ flight \in [Runs -> [Slots -> FlightRec]] /\ kernelMode \in BOOLEAN
    BY <1>0, TypeParts
  <1>2. c \in Convs
    BY <1>0, <1>1 DEF TurnsOK, TurnRec
  <1>3. Moves(r, "done")
    BY <1>0, DoneMoves
  <1>4. KeepsConv /\ TurnsOK'
    BY <1>0, <1>3 DEF Moves, KeepsConv, TurnsOK
  <1>5. /\ \A i \in Slots : flight'[r][i] = Free
        /\ \A p \in Runs \ {r} : flight'[p] = flight[p]
        /\ flight' \in [Runs -> [Slots -> FlightRec]]
    <2>1. Free \in FlightRec
      BY DEF Free, FlightRec
    <2>. QED BY <1>1, <2>1 DEF DropCalls
  <1>6. FlightOK'
    <2>1. \A p \in Runs \ {r} : turn'[p] = turn[p] /\ flight'[p] = flight[p]
      BY <1>3, <1>5 DEF Moves
    <2>2. \A i \in Slots : flight'[r][i].call = None /\ flight'[r][i].inside = {}
      BY <1>5 DEF Free
    <2>. QED BY <1>0, <2>1, <2>2 DEF FlightOK
  <1>7. \A k \in Calls : Under({r}, k) \in Nat /\ IsFiniteSet(Places({r}, k))
    BY PlacesFinite DEF Under, Places
  <1>8. n \in [Calls -> Nat] /\ executed' = Forget(executed, c, n)
    BY <1>7 DEF DropCalls
  <1>9. /\ executed' \in Counts
        /\ \A d \in Convs, k \in Calls :
             executed'[d][k] = IF d # c THEN executed[d][k]
                               ELSE IF executed[c][k] > Under({r}, k)
                                    THEN executed[c][k] - Under({r}, k) ELSE 0
    <2>1. \A k \in Calls : n[k] = Under({r}, k)
      OBVIOUS
    <2>. HIDE DEF n
    <2>2. /\ executed' \in Counts
          /\ \A d \in Convs, k \in Calls :
               executed'[d][k] = IF d # c THEN executed[d][k]
                                 ELSE IF executed[c][k] > n[k]
                                      THEN executed[c][k] - n[k] ELSE 0
      BY <1>1, <1>2, <1>8, ForgetTakes
    <2>. QED BY <2>1, <2>2
  <1>10. TypeOK'
    <2>1. ListsOK'
      BY <1>1 DEF ListsOK, lists
    <2>. QED BY <1>0, <1>1, <1>3, <1>5, <1>9, <2>1, TypeParts, TypePartsNext DEF Moves, sharedVars
  <1>11. FlagMeansKernel'
    BY <1>0, <1>3 DEF FlagMeansKernel, Moves
  <1>12. ASSUME NEW d \in Convs, NEW k \in Calls PROVE CountOK(d, k)'
    <2>. DEFINE P == Places(Turns(d), k)
                Q == Places(Turns(d), k)'
                R == Places({r}, k)
    <2>1. Turns(d)' = Turns(d) /\ Capacity(d)' = Capacity(d) /\ Turns(d) \in SUBSET Runs
      BY <1>4, KeepsTurns DEF Turns
    <2>2. /\ P \in SUBSET (Turns(d) \X Slots) /\ Q \in SUBSET (Turns(d) \X Slots)
          /\ IsFiniteSet(P) /\ Cardinality(P) \in Nat /\ Cardinality(Q) \in Nat
      <3>1. P \in SUBSET (Turns(d) \X Slots) /\ Q \in SUBSET (Turns(d) \X Slots)
        BY <2>1 DEF Places
      <3>. QED BY <2>1, <3>1, PlacesFinite
    <2>3. Q = P \ R
      <3>1. ASSUME NEW y \in Turns(d) \X Slots
            PROVE  y \in Q <=> y \in P /\ y[1] # r
        <4>1. y[1] \in Runs /\ y[2] \in Slots
          BY <2>1
        <4>2. CASE y[1] = r
          <5>1. flight'[y[1]][y[2]] = Free
            BY <1>5, <4>1, <4>2
          <5>. QED BY <2>1, <4>2, <5>1, SetAssumption DEF Places, Free
        <4>3. CASE y[1] # r
          <5>1. flight'[y[1]][y[2]] = flight[y[1]][y[2]]
            BY <1>5, <4>1, <4>3
          <5>. QED BY <2>1, <4>3, <5>1 DEF Places
        <4>. QED BY <4>2, <4>3
      <3>2. ASSUME NEW y \in P
            PROVE  y[1] = r <=> y \in R
        BY DEF Places
      <3>. QED BY <2>2, <3>1, <3>2
    <2>4. d = c => P \cap R = R
      BY DEF Places, Turns
    <2>5. d # c => P \cap R = {}
      BY DEF Places, Turns
    <2>. HIDE DEF P, Q, R
    <2>6. Cardinality(Q) = Cardinality(P) - Cardinality(P \cap R)
      BY <2>2, <2>3, FS_Difference
    <2>7. /\ Under(Turns(d), k) = Cardinality(P) /\ Under(Turns(d), k)' = Cardinality(Q)
          /\ Under({r}, k) = Cardinality(R)
      BY DEF Under, P, Q, R
    <2>8. /\ Recorded(d, k)' = Recorded(d, k) /\ Recorded(d, k) \in Nat
          /\ executed[d][k] \in Nat /\ Capacity(d) \in Nat
      <3>1. Recorded(d, k)' = Recorded(d, k)
        BY DEF Recorded, lists
      <3>. QED BY <1>1, <3>1, CapacityType, RecordedType DEF Counts
    <2>9. CountOK(d, k)
      BY <1>0 DEF CountsOK
    <2>10. CASE d = c
      <3>1. executed'[d][k] = IF executed[d][k] > Under({r}, k)
                              THEN executed[d][k] - Under({r}, k) ELSE 0
        BY <1>9, <2>10
      <3>2. Under(Turns(d), k)' = Under(Turns(d), k) - Under({r}, k)
        BY <2>4, <2>6, <2>7, <2>10
      <3>3. /\ executed[d][k] <= Recorded(d, k) + Under(Turns(d), k)
            /\ executed[d][k] = 0 \/ executed[d][k] <= Stop - 1 + (Capacity(d) - 1)
        BY <2>9 DEF CountOK
      <3>4. /\ Under(Turns(d), k) \in Nat /\ Under(Turns(d), k)' \in Nat
            /\ Under({r}, k) \in Nat
        BY <1>7, <2>2, <2>7
      <3>5. executed'[d][k] <= Recorded(d, k) + Under(Turns(d), k)'
        BY <2>8, <3>1, <3>2, <3>3, <3>4
      <3>6. executed'[d][k] = 0 \/ executed'[d][k] <= Stop - 1 + (Capacity(d) - 1)
        BY <2>8, <3>1, <3>3, <3>4, Limits
      <3>. QED BY <2>1, <2>8, <3>5, <3>6 DEF CountOK
    <2>11. CASE d # c
      <3>1. executed'[d][k] = executed[d][k]
        BY <1>9, <2>11
      <3>2. Under(Turns(d), k)' = Under(Turns(d), k)
        <4>1. Cardinality(P \cap R) = 0
          BY <2>5, <2>11, FS_EmptySet
        <4>. QED BY <2>2, <2>6, <2>7, <4>1
      <3>. QED BY <2>1, <2>8, <2>9, <3>1, <3>2 DEF CountOK
    <2>. QED BY <2>10, <2>11
  <1>. QED BY <1>4, <1>6, <1>10, <1>11, <1>12 DEF IInv, Shape, CountsOK

LEMMA BeginKeeps ==
  ASSUME IInv, NEW r \in Runs, NEW c \in Convs, Begin(r, c)
  PROVE  IInv'
  <1>0. Shape /\ TypeOK /\ TurnsOK /\ FlightOK /\ CountsOK /\ FlagMeansKernel
    BY DEF IInv, Shape
  <1>1. /\ ListsOK /\ executed \in Counts /\ turn \in [Runs -> TurnRec]
        /\ rounds \in [Convs -> Nat]
    BY <1>0, TypeParts
  <1>2. /\ turn' \in [Runs -> TurnRec] /\ turn'[r].conv = c /\ turn'[r].stage = "ready"
        /\ \A p \in Runs \ {r} : turn'[p] = turn[p]
    <2>. DEFINE t == [turn[r] EXCEPT !.conv = c, !.stage = "ready"]
    <2>1. t \in TurnRec /\ t.conv = c /\ t.stage = "ready"
      BY <1>1 DEF TurnRec, Stages
    <2>2. turn' = [turn EXCEPT ![r] = t]
      BY DEF Begin
    <2>. QED BY <1>1, <2>1, <2>2
  <1>3. turn[r].stage = "idle" /\ turn[r].conv = None /\ None \notin Convs
    BY <1>0, SetAssumption DEF Begin, TurnsOK
  <1>4. /\ ListsOK' /\ executed' \in Counts
        /\ \A k \in Calls : executed'[c][k] = 0
        /\ \A d \in Convs \ {c} : /\ executed'[d] = executed[d]
                                 /\ steps'[d] = steps[d] /\ usage'[d] = usage[d]
    <2>1. <<>> \in Seq(Entry) /\ Len(<<>>) = 0
      OBVIOUS
    <2>2. ListsOK'
      BY <1>1, <2>1, Limits DEF Begin, ListsOK
    <2>. QED BY <1>1, <2>2 DEF Begin, Counts, Zero, ListsOK
  <1>5. TypeOK'
    <2>1. rounds' \in [Convs -> Nat]
      BY <1>1 DEF Begin
    <2>2. /\ flight' = flight /\ active' = c /\ kernelMode' = kernelMode /\ calls' = calls
      BY DEF Begin
    <2>. QED BY <1>0, <1>2, <1>4, <2>1, <2>2, TypeParts, TypePartsNext
  <1>6. TurnsOK'
    BY <1>0, <1>2, <1>3 DEF TurnsOK
  <1>7. FlightOK' /\ FlagMeansKernel'
    <2>1. flight' = flight /\ kernelMode' = kernelMode
      BY DEF Begin
    <2>. QED BY <1>0, <1>2, <1>3, <2>1 DEF FlightOK, FlagMeansKernel, InKernel
  <1>8. ASSUME NEW d \in Convs, NEW k \in Calls PROVE CountOK(d, k)'
    <2>1. CASE d = c
      <3>1. Places(Turns(d), k)' \in SUBSET (Turns(d)' \X Slots) /\ Turns(d)' \in SUBSET Runs
        BY DEF Places, Turns
      <3>2. Under(Turns(d), k)' \in Nat
        BY <3>1, PlacesFinite DEF Under
      <3>3. executed'[d][k] = 0 /\ Recorded(d, k)' \in Nat
        <4>1. steps'[d] \in Seq(Entry) /\ usage'[d] \in Seq(Entry)
          BY <1>4 DEF ListsOK
        <4>2. Cardinality(Ran(steps'[d], k)) \in Nat /\ Cardinality(Ran(usage'[d], k)) \in Nat
          BY <4>1, RanFinite
        <4>. QED BY <1>4, <2>1, <4>2 DEF Recorded
      <3>. QED BY <3>2, <3>3 DEF CountOK
    <2>2. CASE d # c
      <3>1. Turns(d)' = Turns(d)
        BY <1>2, <1>3, <2>2 DEF Turns
      <3>2. Under(Turns(d), k)' = Under(Turns(d), k) /\ Capacity(d)' = Capacity(d)
        BY <3>1 DEF Under, Places, Capacity, Begin
      <3>3. Recorded(d, k)' = Recorded(d, k) /\ executed'[d] = executed[d]
        BY <1>4, <2>2 DEF Recorded
      <3>. QED BY <1>0, <3>2, <3>3 DEF CountsOK, CountOK
    <2>. QED BY <2>1, <2>2
  <1>. QED BY <1>5, <1>6, <1>7, <1>8 DEF IInv, Shape, CountsOK

-----------------------------------------------------------------------------
(* The theorems.                                                             *)

LEMMA Step == IInv /\ [Next]_vars => IInv'
  <1>. SUFFICES ASSUME IInv, [Next]_vars PROVE IInv'
    OBVIOUS
  <1>1. CASE UNCHANGED vars
    <2>1. UNCHANGED <<turn, flight, steps, usage, rounds, active, kernelMode, calls, executed>>
      BY <1>1 DEF vars
    <2>2. TypeOK'
      BY <2>1, TypeParts, TypePartsNext DEF IInv, Shape, ListsOK
    <2>3. TurnsOK' /\ FlightOK' /\ FlagMeansKernel'
      BY <2>1 DEF IInv, Shape, TurnsOK, FlightOK, FlagMeansKernel
    <2>4. CountsOK'
      BY <2>1 DEF IInv, CountsOK, CountOK, Recorded, Under, Places, Turns, Capacity
    <2>. QED BY <2>2, <2>3, <2>4 DEF IInv, Shape
  <1>2. ASSUME NEW r \in Runs, Work(r) PROVE IInv'
    BY <1>2, QuietKeeps, CallReturnsKeeps, SpecReturnsKeeps DEF Work, QuietStep
  <1>3. ASSUME NEW r \in Runs, Answers(r) PROVE IInv'
    <2>1. CASE AgentTimesOut(r)
      <3>1. kernelMode' = (kernelMode /\ turn[r].stage \notin InKernel)
        BY <2>1, TypeParts DEF AgentTimesOut, InKernel, IInv, Shape
      <3>. QED BY <2>1, <3>1, DropKeeps DEF AgentTimesOut
    <2>2. CASE ~AgentTimesOut(r)
      BY <1>3, <2>2, QuietKeeps, PlannerCallKeeps DEF Answers, QuietStep
    <2>. QED BY <2>1, <2>2
  <1>4. ASSUME NEW r \in Runs, Cancel(r) PROVE IInv'
    BY <1>4, DropKeeps DEF Cancel
  <1>5. ASSUME NEW r \in Runs, Continue(r) PROVE IInv'
    BY <1>5, QuietKeeps DEF QuietStep
  <1>. QED
    BY <1>1, <1>2, <1>3, <1>4, <1>5, BeginKeeps, CallRaisesKeeps, CallBlockedKeeps,
       CallToolKeeps
    DEF Next

LEMMA InvariantHolds == Spec => []IInv
  <1>. QED BY InitOK, Step, PTL DEF Spec

\* Turns, calls under way, counts and flags keep their types, for any numbers of
\* turns, conversations and calls (orchestrator.py, turn_kernel.py,
\* loop_controller.py).
THEOREM TypeCorrect == Spec => []TypeOK
  <1>1. IInv => TypeOK
    BY DEF IInv, Shape
  <1>. QED BY <1>1, InvariantHolds, PTL

\* Whatever path makes a call and however it ends, the loop controller records it, but
\* for those it cannot know of (turn_kernel.py:326-371, internal_llm.py:846-913,
\* misc_tools.py:222-330), and its record is only lost to later ones, when the list is
\* trimmed to its last entries (loop_controller.py:147, 376).
THEOREM EveryCallCounted == Spec => []NoCallForgotten
  <1>1. IInv => NoCallForgotten
    BY DEF IInv, CountsOK, CountOK, NoCallForgotten
  <1>. QED BY <1>1, InvariantHolds, PTL

\* Among the calls of the window that the lists keep and those under way, the stop limit
\* is passed by no more executions than can be under way at a time besides one, whatever
\* turns share the conversation (loop_controller.py:29-33, 379-430).
THEOREM CallsBounded == Spec => []StopBound
  <1>1. IInv => StopBound
    BY DEF IInv, CountsOK, CountOK, StopBound
  <1>. QED BY <1>1, InvariantHolds, PTL

\* The kernel flag, one for all turns, is on only while a kernel runs
\* (turn_kernel.py, patches.py:652).
THEOREM FlagNeverLeft == Spec => []FlagMeansKernel
  <1>1. IInv => FlagMeansKernel
    BY DEF IInv
  <1>. QED BY <1>1, InvariantHolds, PTL
=============================================================================
