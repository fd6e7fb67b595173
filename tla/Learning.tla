------------------------------ MODULE Learning ------------------------------
(***************************************************************************)
(* Passive learning: the observations of habits (runtime/utils/              *)
(* habit_detector.py, habit_learning.py), the queue of insights the user is   *)
(* asked about (runtime/storage/pending_insights.py) and the user memory that  *)
(* a confirmed insight is written to (runtime/storage/memory_store.py).        *)
(*                                                                           *)
(* Each is one file that is read, changed and written whole.  dismiss, block   *)
(* and add do so in executor threads, confirm on the event loop, with the jobs *)
(* of the memory in between; nothing keeps them apart.  A write of the queue   *)
(* empties the file first, and a file that cannot be parsed is read as empty.  *)
(* An insight is known by its pattern.  The confidence of a candidate, which   *)
(* depends on the days observed, and whether the memory job fails, are choices. *)
(***************************************************************************)
EXTENDS Naturals, FiniteSets

CONSTANTS Patterns,  \* habits: a behaviour at an hour of the day
          MemoryKey, \* MemoryKey[p]: the key that _normalize_key makes of pattern p
          Calls,     \* operations that can be under way together
          Frequency, \* observations a candidate needs
          Capacity,  \* entries that USER.md has room for
          MaxCalls,  \* bound of the model: calls made
          Note,      \* what the memory tool saves: not a pattern
          None       \* no entry, no copy

Keys == {MemoryKey[p] : p \in Patterns}

ASSUME PatternAssumption == Note \notin Patterns /\ None \notin Patterns \cup {Note}
ASSUME BoundAssumption == {Frequency, Capacity, MaxCalls} \subseteq Nat

VARIABLES
  observed, \* habit-observations.json: how often each pattern was seen
  queue,    \* pending-insights.json, or None while it cannot be parsed
  memory,   \* USER.md: the value of each key
  call,     \* the operations under way
  made,     \* number of calls made
  offered   \* history: patterns that a confirm has handed to the memory

vars == <<observed, queue, memory, call, made, offered>>

Payload == [pending: SUBSET Patterns, learned: SUBSET Patterns, blocked: SUBSET Patterns]
Empty == [pending |-> {}, learned |-> {}, blocked |-> {}]
Memory == [Keys -> Patterns \cup {Note, None}]
Counts == [Patterns -> 0..Frequency]

Stages == {"idle", "observe", "count", "detect", "screen", "load", "open", "write",
           "read", "save"}
Kinds == {"none", "capture", "add", "dismiss", "block", "confirm", "remember", "forget"}

\* A call that holds no copy of a file.
Fresh(stage, kind, p, todo) ==
  [stage |-> stage, kind |-> kind, pattern |-> p, todo |-> todo,
   copy |-> None, counts |-> None, notes |-> None]

Idle == Fresh("idle", "none", None, {})

TypeOK ==
  /\ observed \in Counts
  /\ queue \in Payload \cup {None}
  /\ memory \in Memory
  /\ call \in [Calls -> [stage: Stages, kind: Kinds, pattern: Patterns \cup {None},
                         todo: SUBSET Patterns, copy: Payload \cup {None},
                         counts: Counts \cup {None}, notes: Memory \cup {None}]]
  /\ made \in 0..MaxCalls
  /\ offered \subseteq Patterns

Init ==
  /\ observed = [p \in Patterns |-> 0]
  /\ queue = Empty
  /\ memory = [k \in Keys |-> None]
  /\ call = [c \in Calls |-> Idle]
  /\ made = 0
  /\ offered = {}

-----------------------------------------------------------------------------
(* Calls and the files.                                                      *)

At(c, stage) == call[c].stage = stage
Becomes(c, new) == call' = [call EXCEPT ![c] = new]
Goto(c, stage) == Becomes(c, [call[c] EXCEPT !.stage = stage])

\* _load_payload: a file that is missing or being written counts as empty.
Loaded == IF queue = None THEN Empty ELSE queue

Begin(c, kind, p, stage) ==
  /\ At(c, "idle") /\ made < MaxCalls
  /\ made' = made + 1
  /\ Becomes(c, Fresh(stage, kind, p, {}))
  /\ UNCHANGED <<observed, queue, memory, offered>>

\* A turn is captured; the user answers for an insight the queue has shown; the
\* memory tool saves an entry or deletes one.
Capture(c) == \E p \in Patterns : Begin(c, "capture", p, "observe")
Dismiss(c) == \E p \in Loaded.pending : Begin(c, "dismiss", p, "load")
Block(c)   == \E p \in Loaded.pending : Begin(c, "block", p, "load")
Confirm(c) == \E p \in Loaded.pending : Begin(c, "confirm", p, "load")
Remember(c) == \E p \in Patterns : Begin(c, "remember", p, "read")
Delete(c)   == \E p \in Patterns : Begin(c, "forget", p, "read")

-----------------------------------------------------------------------------
(* The passive capture: count the observation, then queue what is frequent.   *)

LoadObservations(c) ==
  /\ At(c, "observe")
  /\ Becomes(c, [call[c] EXCEPT !.stage = "count", !.counts = observed])
  /\ UNCHANGED <<observed, queue, memory, made, offered>>

\* Observations that are never thrown away.
SaveEveryObservation(c) ==
  /\ At(c, "count")
  /\ observed' = [call[c].counts EXCEPT ![call[c].pattern] = @ + 1]
  /\ Becomes(c, [call[c] EXCEPT !.stage = "detect", !.counts = None])
  /\ UNCHANGED <<queue, memory, made, offered>>

SaveObservations(c) ==
  /\ At(c, "count")
  /\ observed' = [call[c].counts EXCEPT
                    ![call[c].pattern] = IF @ < Frequency THEN @ + 1 ELSE @]
  /\ Becomes(c, [call[c] EXCEPT !.stage = "detect", !.counts = None])
  /\ UNCHANGED <<queue, memory, made, offered>>

\* The next candidate is handed to add; after the last one the capture is over.
Propose(c, candidates) ==
  IF candidates = {} THEN Becomes(c, Idle)
  ELSE \E p \in candidates :
         Becomes(c, Fresh("screen", "add", p, candidates \ {p}))

DetectCandidates(c) ==
  /\ At(c, "detect")
  /\ \E confident \in SUBSET Patterns :
       Propose(c, {p \in confident : observed[p] >= Frequency})
  /\ UNCHANGED <<observed, queue, memory, made, offered>>

\* is_blocked reads the file, and add reads it again.
IsBlocked(c) ==
  /\ At(c, "screen")
  /\ IF call[c].pattern \in Loaded.blocked THEN Propose(c, call[c].todo)
     ELSE Goto(c, "load")
  /\ UNCHANGED <<observed, queue, memory, made, offered>>

-----------------------------------------------------------------------------
(* add, dismiss, block and confirm.                                          *)

AcceptsLearned(kind, p, payload) ==
  IF kind = "add" THEN p \notin payload.pending ELSE p \in payload.pending
Accepts(kind, p, payload) ==
  IF kind = "add" THEN p \notin payload.pending \cup payload.learned
  ELSE p \in payload.pending

Changed(kind, p, payload) ==
  CASE kind = "add"     -> [payload EXCEPT !.pending = @ \cup {p}]
    [] kind = "dismiss" -> [payload EXCEPT !.pending = @ \ {p}]
    [] kind = "block"   -> [payload EXCEPT !.pending = @ \ {p}, !.blocked = @ \cup {p}]
    [] kind = "confirm" -> [payload EXCEPT !.pending = @ \ {p}, !.learned = @ \cup {p}]

\* confirm saves the queue without having gone to the memory.
LoadAndSave(c) ==
  /\ At(c, "load")
  /\ LET kind == call[c].kind
         p == call[c].pattern IN
     IF ~Accepts(kind, p, Loaded) THEN Propose(c, call[c].todo)
     ELSE Becomes(c, [call[c] EXCEPT !.copy = Changed(kind, p, Loaded), !.stage = "open"])
  /\ UNCHANGED <<observed, queue, memory, made, offered>>

\* The change is made to the copy; confirm goes to the memory before it is saved.
LoadPayload(c) ==
  /\ At(c, "load")
  /\ LET kind == call[c].kind
         p == call[c].pattern IN
     IF ~Accepts(kind, p, Loaded) THEN Propose(c, call[c].todo)
     ELSE Becomes(c, [call[c] EXCEPT !.copy = Changed(kind, p, Loaded),
                                     !.stage = IF kind = "confirm" THEN "read" ELSE "open"])
  /\ UNCHANGED <<observed, queue, memory, made, offered>>

OpenQueue(c) ==
  /\ At(c, "open")
  /\ queue' = None
  /\ Goto(c, "write")
  /\ UNCHANGED <<observed, memory, made, offered>>

\* Over what another call has written since, the text may not parse.
WriteQueue(c) ==
  /\ At(c, "write")
  /\ queue' \in {call[c].copy} \cup (IF queue = None THEN {} ELSE {None})
  /\ Propose(c, call[c].todo)
  /\ UNCHANGED <<observed, memory, made, offered>>

-----------------------------------------------------------------------------
(* The user memory.                                                          *)

Full(notes) == Cardinality({k \in Keys : notes[k] # None}) >= Capacity

\* _prepare_memory_save: an entry of that key is replaced, a new one needs room.
Saved(notes, key, value) ==
  IF notes[key] = None /\ Full(notes) THEN notes ELSE [notes EXCEPT ![key] = value]

MemoryValue(c) ==
  CASE call[c].kind = "confirm" -> call[c].pattern
    [] call[c].kind = "remember" -> Note
    [] OTHER -> None

\* A call is through with the memory.
MemoryDone(c) ==
  IF call[c].kind = "confirm"
  THEN Becomes(c, [call[c] EXCEPT !.stage = "open", !.notes = None])
  ELSE Becomes(c, Idle)

Offers(c) == IF call[c].kind = "confirm" THEN {call[c].pattern} ELSE {}

ReadMemory(c) ==
  /\ At(c, "read")
  /\ Becomes(c, [call[c] EXCEPT !.stage = "save", !.notes = memory])
  /\ UNCHANGED <<observed, queue, memory, made, offered>>

WriteMemory(c) ==
  /\ At(c, "save")
  /\ LET key == MemoryKey[call[c].pattern]
         value == MemoryValue(c) IN
     memory' = IF value = None THEN [call[c].notes EXCEPT ![key] = None]
               ELSE Saved(call[c].notes, key, value)
  /\ MemoryDone(c)
  /\ offered' = offered \cup Offers(c)
  /\ UNCHANGED <<observed, queue, made>>

\* confirm logs an exception of the memory and goes on.
MemoryFails(c) ==
  /\ call[c].stage \in {"read", "save"}
  /\ MemoryDone(c)
  /\ offered' = offered \cup Offers(c)
  /\ UNCHANGED <<observed, queue, memory, made>>

\* Home Assistant stops, in the middle of what it was doing.
Crash ==
  /\ \E c \in Calls : ~At(c, "idle")
  /\ call' = [c \in Calls |-> Idle]
  /\ UNCHANGED <<observed, queue, memory, made, offered>>

-----------------------------------------------------------------------------
Start(c) == Capture(c) \/ Dismiss(c) \/ Block(c) \/ Confirm(c) \/ Remember(c) \/ Delete(c)
Work(c) ==
  \/ LoadObservations(c) \/ SaveObservations(c) \/ DetectCandidates(c) \/ IsBlocked(c)
  \/ LoadPayload(c) \/ OpenQueue(c) \/ WriteQueue(c)
  \/ ReadMemory(c) \/ WriteMemory(c) \/ MemoryFails(c)

Next == (\E c \in Calls : Start(c) \/ Work(c)) \/ Crash

Spec == Init /\ [][Next]_vars

-----------------------------------------------------------------------------
(* Properties.                                                               *)

\* Whatever the overlap of captures and answers, and whatever a crash leaves, the
\* file never lists an insight both as pending and as learned: the user is not asked
\* again about what the file says is learned (pending_insights.py:160-198, 241-251).
HandledOnce == queue # None => queue.pending \cap queue.learned = {}

\* A pattern the file lists as learned was handed to the memory first, also when a
\* crash cuts a confirm in two or a stale copy is written (pending_insights.py:255-299).
LearnedWasOffered == queue # None => queue.learned \subseteq offered
=============================================================================
