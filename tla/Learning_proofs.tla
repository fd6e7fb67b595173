--------------------------- MODULE Learning_proofs ---------------------------
(***************************************************************************)
(* The files of Learning keep their promises for any number of patterns,     *)
(* calls and entries: proofs for the run learning_queue.                      *)
(*                                                                           *)
(* What the file says is written from the copies that the calls hold, and a   *)
(* copy was read from the file: the inductive invariant says the same of every *)
(* copy as of the file, but for the confirm that has not been to the memory.   *)
(***************************************************************************)
EXTENDS Learning, TLAPS

CallType == [stage: Stages, kind: Kinds, pattern: Patterns \cup {None},
             todo: SUBSET Patterns, copy: Payload \cup {None},
             counts: Counts \cup {None}, notes: Memory \cup {None}]

QueueKinds == {"add", "dismiss", "block", "confirm"}

\* What a call has in its hands at each stage.
Equipped(r) ==
  /\ r.stage # "idle" => r.pattern \in Patterns
  /\ r.stage = "count" => r.counts \in Counts
  /\ r.stage \in {"screen", "load", "open", "write"} => r.kind \in QueueKinds
  /\ r.stage \in {"open", "write"} => r.copy \in Payload
  /\ r.stage = "save" => r.notes \in Memory
  /\ r.stage \in {"read", "save"} /\ r.kind = "confirm" => r.copy \in Payload
  /\ r.copy # None => r.stage \in {"read", "save", "open", "write"}
  /\ r.copy # None /\ r.stage \in {"read", "save"} => r.kind = "confirm"

\* What a payload may list when the patterns in off were handed to the memory.
Lists(payload, off) ==
  /\ payload.pending \cap payload.learned = {}
  /\ payload.learned \subseteq off

\* The pattern of a confirm counts before it was handed over.
Handed(r, off) == IF r.stage \in {"read", "save"} THEN off \cup {r.pattern} ELSE off

CallOK(r, off) ==
  /\ r \in CallType
  /\ Equipped(r)
  /\ r.copy # None => Lists(r.copy, Handed(r, off))

FilesOK ==
  /\ observed \in Counts
  /\ queue \in Payload \cup {None}
  /\ memory \in Memory
  /\ made \in 0..MaxCalls
  /\ offered \subseteq Patterns
  /\ queue # None => Lists(queue, offered)

IInv ==
  /\ FilesOK
  /\ call \in [Calls -> CallType]
  /\ \A c \in Calls : CallOK(call[c], offered)

-----------------------------------------------------------------------------
(* Records.                                                                  *)

\* A call that is idle has nothing in its hands.
LEMMA IdleOK == ASSUME NEW off PROVE CallOK(Idle, off)
  <1>1. Idle \in CallType
    BY DEF Idle, Fresh, CallType, Stages, Kinds
  <1>2. Equipped(Idle) /\ Idle.copy = None
    BY DEF Idle, Fresh, Equipped
  <1>. QED BY <1>1, <1>2 DEF CallOK

\* A call that begins knows its kind and its pattern.
LEMMA BegunOK ==
  ASSUME NEW kind \in Kinds, NEW p \in Patterns, NEW stage \in Stages, NEW off,
         stage \in {"observe", "load", "read", "screen"},
         stage \in {"screen", "load"} => kind \in QueueKinds,
         stage = "read" => kind # "confirm",
         NEW todo \in SUBSET Patterns
  PROVE  CallOK(Fresh(stage, kind, p, todo), off)
  <1>. DEFINE new == Fresh(stage, kind, p, todo)
  <1>1. new \in CallType
    BY DEF CallType, Fresh
  <1>2. Equipped(new) /\ new.copy = None
    BY DEF Equipped, Fresh
  <1>. QED BY <1>1, <1>2 DEF CallOK

\* What was handed to the memory stays handed.
LEMMA Grows ==
  ASSUME NEW r, NEW off, NEW more, off \subseteq more, CallOK(r, off)
  PROVE  CallOK(r, more)
  BY DEF CallOK, Lists, Handed

\* A step of the call c to the record new keeps the invariant, if the record and
\* the files are in order.
LEMMA StepOK ==
  ASSUME IInv, NEW c \in Calls, NEW new, Becomes(c, new), CallOK(new, offered'),
         offered \subseteq offered', FilesOK'
  PROVE  IInv'
  <1>1. new \in CallType
    BY DEF CallOK
  <1>2. call' \in [Calls -> CallType]
    BY <1>1 DEF IInv, Becomes
  <1>3. ASSUME NEW d \in Calls PROVE CallOK(call'[d], offered')
    <2>1. CASE d = c
      BY <2>1 DEF IInv, Becomes
    <2>2. CASE d # c
      <3>1. call'[d] = call[d] /\ CallOK(call[d], offered)
        BY <2>2 DEF IInv, Becomes
      <3>. QED BY <3>1, Grows
    <2>. QED BY <2>1, <2>2
  <1>. QED BY <1>2, <1>3 DEF IInv

\* Propose: the call is over, or goes on with the next candidate.
LEMMA ProposeOK ==
  ASSUME IInv, NEW c \in Calls, NEW candidates \in SUBSET Patterns, Propose(c, candidates),
         offered' = offered, FilesOK'
  PROVE  IInv'
  <1>1. CASE candidates = {}
    <2>1. Becomes(c, Idle)
      BY <1>1 DEF Propose
    <2>. QED BY <2>1, IdleOK, StepOK
  <1>2. CASE candidates # {}
    <2>1. PICK p \in candidates :
            Becomes(c, Fresh("screen", "add", p, candidates \ {p}))
      BY <1>2 DEF Propose
    <2>2. candidates \ {p} \in SUBSET Patterns /\ p \in Patterns
      OBVIOUS
    <2>3. CallOK(Fresh("screen", "add", p, candidates \ {p}), offered')
      BY <2>2, BegunOK DEF Kinds, Stages, QueueKinds
    <2>. QED BY <2>1, <2>3, StepOK
  <1>. QED BY <1>1, <1>2

-----------------------------------------------------------------------------
(* Initially.                                                                *)

\* Nothing was observed, listed, remembered or begun.
LEMMA InitOK == Init => IInv
  <1>. SUFFICES ASSUME Init PROVE IInv
    OBVIOUS
  <1>1. FilesOK
    BY BoundAssumption DEF Init, FilesOK, Counts, Empty, Payload, Memory, Lists
  <1>2. call \in [Calls -> CallType] /\ \A c \in Calls : CallOK(call[c], offered)
    BY IdleOK DEF Init, CallOK
  <1>. QED BY <1>1, <1>2 DEF IInv

-----------------------------------------------------------------------------
(* Every step.                                                               *)

\* A step that leaves the files alone keeps them in order.
LEMMA FilesUnchanged ==
  ASSUME FilesOK, UNCHANGED <<observed, queue, memory, made, offered>>
  PROVE  FilesOK' /\ offered' = offered
  BY DEF FilesOK, Lists

\* A call that begins.
LEMMA BeginOK ==
  ASSUME IInv, NEW c \in Calls, NEW kind \in Kinds, NEW p \in Patterns,
         NEW stage \in {"observe", "load", "read"},
         stage = "load" => kind \in QueueKinds,
         stage = "read" => kind # "confirm",
         Begin(c, kind, p, stage)
  PROVE  IInv'
  <1>1. Becomes(c, Fresh(stage, kind, p, {})) /\ offered' = offered
    BY DEF Begin
  <1>2. stage \in Stages
    BY DEF Stages
  <1>3. CallOK(Fresh(stage, kind, p, {}), offered')
    BY <1>2, BegunOK
  <1>4. FilesOK'
    BY BoundAssumption DEF IInv, FilesOK, Begin, Lists
  <1>. QED BY <1>1, <1>3, <1>4, StepOK

\* The patterns of the queue are patterns.
LEMMA PendingPatterns == ASSUME IInv PROVE Loaded \in Payload /\ Lists(Loaded, offered)
  BY DEF IInv, FilesOK, Loaded, Empty, Payload, Lists

LEMMA StartOK == ASSUME IInv, NEW c \in Calls, Start(c) PROVE IInv'
  <1>1. CASE Capture(c)
    BY <1>1, BeginOK DEF Capture, Kinds
  <1>2. CASE Dismiss(c)
    BY <1>2, BeginOK, PendingPatterns DEF Dismiss, Kinds, QueueKinds, Payload
  <1>3. CASE Block(c)
    BY <1>3, BeginOK, PendingPatterns DEF Block, Kinds, QueueKinds, Payload
  <1>4. CASE Confirm(c)
    BY <1>4, BeginOK, PendingPatterns DEF Confirm, Kinds, QueueKinds, Payload
  <1>5. CASE Remember(c)
    BY <1>5, BeginOK DEF Remember, Kinds
  <1>6. CASE Delete(c)
    BY <1>6, BeginOK DEF Delete, Kinds
  <1>. QED BY <1>1, <1>2, <1>3, <1>4, <1>5, <1>6 DEF Start

LEMMA ObserveOK ==
  ASSUME IInv, NEW c \in Calls, LoadObservations(c) \/ SaveObservations(c)
  PROVE  IInv'
  <1>. DEFINE r == call[c]
  <1>1. r \in CallType /\ CallOK(r, offered)
    BY DEF IInv
  <1>2. CASE LoadObservations(c)
    <2>. DEFINE new == [r EXCEPT !.stage = "count", !.counts = observed]
    <2>1. /\ Becomes(c, new) /\ r.stage = "observe"
          /\ UNCHANGED <<observed, queue, memory, made, offered>>
      BY <1>2 DEF LoadObservations, At
    <2>2. /\ new \in CallType /\ new.stage = "count" /\ new.counts = observed
          /\ new.kind = r.kind /\ new.pattern = r.pattern /\ new.copy = r.copy
      BY <1>1 DEF CallType, IInv, FilesOK, Stages
    <2>3. FilesOK' /\ offered' = offered
      BY <2>1, FilesUnchanged DEF IInv
    <2>4. CallOK(new, offered')
      <3>1. observed \in Counts
        BY DEF IInv, FilesOK
      <3>. HIDE DEF new
      <3>. QED BY <1>1, <2>1, <2>2, <3>1 DEF CallOK, Equipped
    <2>. QED BY <2>1, <2>3, <2>4, StepOK
  <1>3. CASE SaveObservations(c)
    <2>. DEFINE new == [r EXCEPT !.stage = "detect", !.counts = None]
    <2>1. /\ Becomes(c, new) /\ r.stage = "count"
          /\ UNCHANGED <<queue, memory, made, offered>>
      BY <1>3 DEF SaveObservations, At
    <2>2. /\ new \in CallType /\ new.stage = "detect"
          /\ new.kind = r.kind /\ new.pattern = r.pattern /\ new.copy = r.copy
      BY <1>1 DEF CallType, Stages
    <2>3. observed' \in Counts
      <3>1. r.counts \in Counts
        BY <1>1, <2>1 DEF CallOK, Equipped
      <3>2. Frequency \in Nat
        BY BoundAssumption
      <3>3. PICK n \in Counts, p \in Patterns :
              observed' = [n EXCEPT ![p] = IF @ < Frequency THEN @ + 1 ELSE @]
        BY <1>1, <1>3, <2>1, <3>1 DEF SaveObservations, CallOK, Equipped
      <3>4. (IF n[p] < Frequency THEN n[p] + 1 ELSE n[p]) \in 0..Frequency
        BY <3>2 DEF Counts
      <3>. QED BY <3>3, <3>4 DEF Counts
    <2>4. FilesOK' /\ offered' = offered
      BY <2>1, <2>3 DEF IInv, FilesOK, Lists
    <2>5. CallOK(new, offered')
      <3>. HIDE DEF new
      <3>. QED BY <1>1, <2>1, <2>2, <2>4 DEF CallOK, Equipped
    <2>. QED BY <2>1, <2>4, <2>5, StepOK
  <1>. QED BY <1>2, <1>3

LEMMA DetectOK ==
  ASSUME IInv, NEW c \in Calls, DetectCandidates(c) \/ IsBlocked(c)
  PROVE  IInv'
  <1>. DEFINE r == call[c]
  <1>1. r \in CallType /\ CallOK(r, offered)
    BY DEF IInv
  <1>2. FilesOK' /\ offered' = offered
    BY FilesUnchanged DEF IInv, DetectCandidates, IsBlocked
  <1>3. CASE DetectCandidates(c)
    <2>1. PICK confident \in SUBSET Patterns :
            Propose(c, {p \in confident : observed[p] >= Frequency})
      BY <1>3 DEF DetectCandidates
    <2>. QED BY <1>2, <2>1, ProposeOK
  <1>4. CASE IsBlocked(c) /\ r.pattern \in Loaded.blocked
    <2>1. Propose(c, r.todo)
      BY <1>4 DEF IsBlocked
    <2>2. r.todo \in SUBSET Patterns
      BY <1>1 DEF CallType
    <2>. QED BY <1>2, <2>1, <2>2, ProposeOK
  <1>5. CASE IsBlocked(c) /\ r.pattern \notin Loaded.blocked
    <2>. DEFINE new == [r EXCEPT !.stage = "load"]
    <2>1. Becomes(c, new) /\ r.stage = "screen"
      BY <1>5 DEF IsBlocked, Goto, At
    <2>2. /\ new \in CallType /\ new.stage = "load"
          /\ new.kind = r.kind /\ new.pattern = r.pattern /\ new.copy = r.copy
      BY <1>1 DEF CallType, Stages
    <2>3. CallOK(new, offered')
      <3>. HIDE DEF new
      <3>. QED BY <1>1, <1>2, <2>1, <2>2 DEF CallOK, Equipped
    <2>. QED BY <1>2, <2>1, <2>3, StepOK
  <1>. QED BY <1>3, <1>4, <1>5

\* A change that is accepted leaves a payload in order, once its pattern counts
\* as handed over.
LEMMA ChangedOK ==
  ASSUME NEW kind \in QueueKinds, NEW p \in Patterns, NEW payload \in Payload, NEW off,
         Lists(payload, off), Accepts(kind, p, payload)
  PROVE  /\ Changed(kind, p, payload) \in Payload
         /\ Lists(Changed(kind, p, payload),
                  IF kind = "confirm" THEN off \cup {p} ELSE off)
  <1>. DEFINE new == Changed(kind, p, payload)
  <1>1. CASE kind = "add"
    <2>1. new = [payload EXCEPT !.pending = @ \cup {p}]
      BY <1>1 DEF Changed
    <2>2. /\ new \in Payload /\ new.pending = payload.pending \cup {p}
          /\ new.learned = payload.learned
      BY <2>1 DEF Payload
    <2>. QED BY <1>1, <2>2 DEF Lists, Accepts
  <1>2. CASE kind = "dismiss"
    <2>1. new = [payload EXCEPT !.pending = @ \ {p}]
      BY <1>2 DEF Changed
    <2>2. /\ new \in Payload /\ new.pending = payload.pending \ {p}
          /\ new.learned = payload.learned
      BY <2>1 DEF Payload
    <2>. QED BY <1>2, <2>2 DEF Lists
  <1>3. CASE kind = "block"
    <2>1. new = [payload EXCEPT !.pending = @ \ {p}, !.blocked = @ \cup {p}]
      BY <1>3 DEF Changed
    <2>2. /\ new \in Payload /\ new.pending = payload.pending \ {p}
          /\ new.learned = payload.learned
      BY <2>1 DEF Payload
    <2>. QED BY <1>3, <2>2 DEF Lists
  <1>4. CASE kind = "confirm"
    <2>1. new = [payload EXCEPT !.pending = @ \ {p}, !.learned = @ \cup {p}]
      BY <1>4 DEF Changed
    <2>2. /\ new \in Payload /\ new.pending = payload.pending \ {p}
          /\ new.learned = payload.learned \cup {p}
      BY <2>1 DEF Payload
    <2>. QED BY <1>4, <2>2 DEF Lists
  <1>. QED BY <1>1, <1>2, <1>3, <1>4 DEF QueueKinds

LEMMA LoadOK == ASSUME IInv, NEW c \in Calls, LoadPayload(c) PROVE IInv'
  <1>. DEFINE r == call[c]
              p == r.pattern
              stage == IF r.kind = "confirm" THEN "read" ELSE "open"
              copy == Changed(r.kind, p, Loaded)
  <1>1. r \in CallType /\ CallOK(r, offered) /\ r.stage = "load"
    BY DEF IInv, LoadPayload, At
  <1>2. r.kind \in QueueKinds /\ p \in Patterns /\ r.todo \in SUBSET Patterns
    BY <1>1 DEF CallOK, Equipped, CallType
  <1>3. FilesOK' /\ offered' = offered
    BY FilesUnchanged DEF IInv, LoadPayload
  <1>4. CASE ~Accepts(r.kind, p, Loaded)
    <2>1. Propose(c, r.todo)
      BY <1>4 DEF LoadPayload
    <2>. QED BY <1>2, <1>3, <2>1, ProposeOK
  <1>5. CASE Accepts(r.kind, p, Loaded)
    <2>1. /\ copy \in Payload
          /\ Lists(copy, IF r.kind = "confirm" THEN offered \cup {p} ELSE offered)
      BY <1>2, <1>5, PendingPatterns, ChangedOK
    <2>. DEFINE new == [r EXCEPT !.copy = copy, !.stage = stage]
    <2>2. Becomes(c, new)
      BY <1>5 DEF LoadPayload
    <2>. HIDE DEF copy
    <2>3. /\ new \in CallType /\ new.stage = stage /\ new.copy = copy
          /\ new.kind = r.kind /\ new.pattern = p
      BY <1>1, <2>1 DEF CallType, Stages
    <2>4. CallOK(new, offered')
      <3>. HIDE DEF new
      <3>1. Equipped(new)
        BY <1>2, <2>1, <2>3 DEF Equipped
      <3>2. Lists(new.copy, Handed(new, offered))
        BY <2>1, <2>3 DEF Handed
      <3>. QED BY <1>3, <2>3, <3>1, <3>2 DEF CallOK
    <2>. QED BY <1>3, <2>2, <2>4, StepOK
  <1>. QED BY <1>4, <1>5

\* The file is emptied, then written from the copy; or it cannot be parsed.
LEMMA WriteOK ==
  ASSUME IInv, NEW c \in Calls, OpenQueue(c) \/ WriteQueue(c)
  PROVE  IInv'
  <1>. DEFINE r == call[c]
  <1>1. r \in CallType /\ CallOK(r, offered)
    BY DEF IInv
  <1>2. CASE OpenQueue(c)
    <2>. DEFINE new == [r EXCEPT !.stage = "write"]
    <2>1. /\ Becomes(c, new) /\ r.stage = "open" /\ queue' = None
          /\ UNCHANGED <<observed, memory, made, offered>>
      BY <1>2 DEF OpenQueue, Goto, At
    <2>2. /\ new \in CallType /\ new.stage = "write" /\ new.copy = r.copy
          /\ new.kind = r.kind /\ new.pattern = r.pattern
      BY <1>1 DEF CallType, Stages
    <2>3. FilesOK' /\ offered' = offered
      BY <2>1 DEF IInv, FilesOK
    <2>4. CallOK(new, offered')
      <3>. HIDE DEF new
      <3>. QED BY <1>1, <2>1, <2>2, <2>3 DEF CallOK, Equipped, Handed
    <2>. QED BY <2>1, <2>3, <2>4, StepOK
  <1>3. CASE WriteQueue(c)
    <2>1. /\ r.stage = "write" /\ Propose(c, r.todo)
          /\ queue' \in {r.copy, None}
          /\ UNCHANGED <<observed, memory, made, offered>>
      BY <1>3 DEF WriteQueue, At
    <2>2. r.copy \in Payload /\ r.todo \in SUBSET Patterns
      BY <1>1, <2>1 DEF CallOK, Equipped, CallType
    <2>3. r.copy # None => Lists(r.copy, offered)
      BY <1>1, <2>1 DEF CallOK, Handed
    <2>4. FilesOK' /\ offered' = offered
      BY <2>1, <2>2, <2>3 DEF IInv, FilesOK
    <2>. QED BY <2>1, <2>2, <2>4, ProposeOK
  <1>. QED BY <1>2, <1>3

\* A call that is through with the memory, with or without an exception.
LEMMA MemoryDoneOK ==
  ASSUME IInv, NEW c \in Calls, call[c].stage \in {"read", "save"}, MemoryDone(c),
         offered' = offered \cup Offers(c), memory' \in Memory,
         UNCHANGED <<observed, queue, made>>
  PROVE  IInv'
  <1>. DEFINE r == call[c]
  <1>1. r \in CallType /\ CallOK(r, offered) /\ r.pattern \in Patterns
    BY DEF IInv, CallOK, Equipped
  <1>2. FilesOK' /\ offered \subseteq offered'
    BY <1>1 DEF IInv, FilesOK, Lists, Offers
  <1>3. CASE r.kind = "confirm"
    <2>. DEFINE new == [r EXCEPT !.stage = "open", !.notes = None]
    <2>1. Becomes(c, new) /\ offered' = offered \cup {r.pattern}
      BY <1>3 DEF MemoryDone, Offers
    <2>2. /\ new \in CallType /\ new.stage = "open" /\ new.copy = r.copy
          /\ new.kind = r.kind /\ new.pattern = r.pattern
      BY <1>1 DEF CallType, Stages
    <2>3. CallOK(new, offered')
      <3>. HIDE DEF new
      <3>1. Equipped(new)
        BY <1>1, <1>3, <2>2 DEF CallOK, Equipped, QueueKinds
      <3>2. new.copy # None => Lists(new.copy, Handed(new, offered'))
        BY <1>1, <2>1, <2>2 DEF CallOK, Handed
      <3>. QED BY <2>2, <3>1, <3>2 DEF CallOK
    <2>. QED BY <1>2, <2>1, <2>3, StepOK
  <1>4. CASE r.kind # "confirm"
    <2>1. Becomes(c, Idle)
      BY <1>4 DEF MemoryDone
    <2>. QED BY <1>2, <2>1, IdleOK, StepOK
  <1>. QED BY <1>3, <1>4

LEMMA MemoryOK ==
  ASSUME IInv, NEW c \in Calls, ReadMemory(c) \/ WriteMemory(c) \/ MemoryFails(c)
  PROVE  IInv'
  <1>. DEFINE r == call[c]
  <1>1. r \in CallType /\ CallOK(r, offered) /\ memory \in Memory
    BY DEF IInv, FilesOK
  <1>2. CASE ReadMemory(c)
    <2>. DEFINE new == [r EXCEPT !.stage = "save", !.notes = memory]
    <2>1. /\ Becomes(c, new) /\ r.stage = "read"
          /\ UNCHANGED <<observed, queue, memory, made, offered>>
      BY <1>2 DEF ReadMemory, At
    <2>2. /\ new \in CallType /\ new.stage = "save" /\ new.notes = memory
          /\ new.kind = r.kind /\ new.pattern = r.pattern /\ new.copy = r.copy
      BY <1>1 DEF CallType, Stages
    <2>3. FilesOK' /\ offered' = offered
      BY <2>1, FilesUnchanged DEF IInv
    <2>4. CallOK(new, offered')
      <3>. HIDE DEF new
      <3>. QED BY <1>1, <2>1, <2>2, <2>3 DEF CallOK, Equipped, Handed
    <2>. QED BY <2>1, <2>3, <2>4, StepOK
  <1>3. CASE WriteMemory(c)
    <2>1. r.stage = "save" /\ r.notes \in Memory /\ r.pattern \in Patterns
      BY <1>1, <1>3 DEF WriteMemory, At, CallOK, Equipped
    <2>2. MemoryValue(c) \in Patterns \cup {Note, None}
      BY <2>1 DEF MemoryValue
    <2>3. memory' \in Memory
      BY <1>3, <2>1, <2>2 DEF WriteMemory, Saved, Memory
    <2>. QED BY <1>3, <2>1, <2>3, MemoryDoneOK DEF WriteMemory
  <1>4. CASE MemoryFails(c)
    BY <1>1, <1>4, MemoryDoneOK DEF MemoryFails
  <1>. QED BY <1>2, <1>3, <1>4

\* The inductive invariant is kept by every step.
LEMMA NextOK == IInv /\ [Next]_vars => IInv'
  <1>. SUFFICES ASSUME IInv, [Next]_vars PROVE IInv'
    OBVIOUS
  <1>1. CASE UNCHANGED vars
    BY <1>1 DEF vars, IInv, FilesOK, CallOK, Lists, Handed
  <1>2. ASSUME NEW c \in Calls, Start(c) PROVE IInv'
    BY <1>2, StartOK
  <1>3. ASSUME NEW c \in Calls, Work(c) PROVE IInv'
    BY <1>3, ObserveOK, DetectOK, LoadOK, WriteOK, MemoryOK DEF Work
  <1>4. CASE Crash
    <2>1. FilesOK' /\ offered' = offered
      BY <1>4, FilesUnchanged DEF IInv, Crash
    <2>2. call' = [c \in Calls |-> Idle]
      BY <1>4 DEF Crash
    <2>3. CallOK(Idle, offered')
      BY IdleOK
    <2>. QED BY <2>1, <2>2, <2>3 DEF IInv, CallOK
  <1>. QED BY <1>1, <1>2, <1>3, <1>4 DEF Next

-----------------------------------------------------------------------------
(* The theorems.                                                             *)

\* The inductive invariant holds in every reachable state.
THEOREM Invariance == Spec => []IInv
  BY InitOK, NextOK, PTL DEF Spec

\* Every file and every call keeps its type (habit_detector.py, pending_insights.py,
\* memory_store.py).
THEOREM TypeCorrect == Spec => []TypeOK
  <1>1. IInv => TypeOK
    BY DEF IInv, FilesOK, CallType, TypeOK
  <1>. QED BY <1>1, Invariance, PTL

\* No overlap of captures and answers, and no crash, leaves an insight both pending
\* and learned (pending_insights.py:160-198, 241-251).
THEOREM InsightsHandledOnce == Spec => []HandledOnce
  <1>1. IInv => HandledOnce
    BY DEF IInv, FilesOK, Lists, HandledOnce
  <1>. QED BY <1>1, Invariance, PTL

\* What the file lists as learned was handed to the memory, whatever was written
\* over what (pending_insights.py:255-299).
THEOREM LearnedInsightsOffered == Spec => []LearnedWasOffered
  <1>1. IInv => LearnedWasOffered
    BY DEF IInv, FilesOK, Lists, LearnedWasOffered
  <1>. QED BY <1>1, Invariance, PTL
=============================================================================
