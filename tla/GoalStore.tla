------------------------------ MODULE GoalStore ------------------------------
(* Goal managers and the file behind them (runtime/storage/goals.py).          *)
(*                                                                            *)
(* A manager keeps one GoalState object per conversation and changes it on the *)
(* event loop; load_goal, save_goal and delete_goal run in executor threads,   *)
(* each on the whole of goals.json, with no lock.  An operation is one call of *)
(* GoalManager by a message or by a turn that ended; operations of one or of   *)
(* several conversations overlap at every await and in every thread step.      *)
(*                                                                            *)
(* to_dict is taken as one step of its thread, and so is os.replace, which is   *)
(* atomic.  Nobody learns of an error of the disk: a file that cannot be read    *)
(* counts as empty (_read_all), a write that fails is dropped (_write_all).     *)
EXTENDS Goals, FiniteSets

CONSTANTS
  Convs,     \* conversations with a manager
  Names,     \* goal texts
  Ops,       \* operations that can be in flight at once
  Ids,       \* GoalState objects that can be referenced at once
  Wants,     \* the operations callers ask for
  NoGoal, NoEntry

ASSUME NamesAssumption == Names # {} /\ Convs # {}
ASSUME WantsAssumption == Wants \subseteq {"set", "pause", "resume", "clear", "evaluate"}
ASSUME NoGoalIsNoId == NoGoal \notin Ids
\* Whatever the managers and the operations refer to, an object is left to create.
ASSUME IdsAssumption ==
  \A m \in [Convs -> Ids \cup {NoGoal}], w \in [Ops -> Ids \cup {NoGoal}] :
    \E i \in Ids : (\A c \in Convs : m[c] # i) /\ (\A o \in Ops : w[o] # i)
ASSUME NoEntryIsNoGoal == NoEntry \notin [name : Names, state : Goal]

VARIABLES
  loaded,  \* GoalManager._loaded
  mem,     \* GoalManager._state: an object or NoGoal
  heap,    \* the GoalState objects
  op,      \* the operations: what the caller wants and how far its thread is
  file,    \* goals.json
  disturbed, \* history: since Home Assistant started, operations overlapped or the caller
             \* of one was cancelled
  apart      \* history: conversations whose goal an error of the disk kept out of memory
             \* or file, since the last access to it that succeeded

vars == <<loaded, mem, heap, op, file, disturbed, apart>>

-------------------------------------------------------------------------------
Object == [name : Names, state : Goal]
Blank == [name |-> CHOOSE n \in Names : TRUE, state |-> NewGoal]
File == [Convs -> Object \cup {NoEntry}]

\* pc: where the caller is; job: where its executor job is.  An orphan job goes on
\* after its caller was cancelled.
Op == [pc : {"idle", "load", "judge", "save", "delete", "orphan"},
       job : {"none", "queued", "read", "copied", "finished"},
       kind : {"none", "load", "save", "delete"},
       want : Wants \cup {"none"}, conv : Convs, obj : Ids \cup {NoGoal},
       buf : File, rec : Object]

NoFile == [c \in Convs |-> NoEntry]
Idle == [pc |-> "idle", job |-> "none", kind |-> "none", want |-> "none",
         conv |-> CHOOSE c \in Convs : TRUE, obj |-> NoGoal, buf |-> NoFile, rec |-> Blank]

TypeOK ==
  /\ loaded \in [Convs -> BOOLEAN]
  /\ mem \in [Convs -> Ids \cup {NoGoal}]
  /\ heap \in [Ids -> Object]
  /\ op \in [Ops -> Op]
  /\ file \in File
  /\ disturbed \in BOOLEAN
  /\ apart \subseteq Convs

Held(m, ops) == {m[c] : c \in Convs} \cup {ops[o].obj : o \in Ops}
Unheld(m) == CHOOSE i \in Ids \ Held(m, op) : TRUE
Keep(h) == [i \in Ids |-> IF i \in Held(mem', op') THEN h[i] ELSE Blank]

IsActive(m, h, c) == m[c] # NoGoal /\ h[m[c]].state.status = "active"

-------------------------------------------------------------------------------
(* The caller's side.                                                         *)

Call(o, pc, kind, obj) ==
  op' = [op EXCEPT ![o] = [Idle EXCEPT !.pc = pc, !.conv = op[o].conv, !.want = op[o].want,
                             !.job = IF kind = "none" THEN "none" ELSE "queued",
                             !.kind = kind, !.obj = obj]]

Return(o) == op' = [op EXCEPT ![o] = Idle]

Begin(o) ==
  /\ op[o].pc = "idle"
  /\ \E c \in Convs, w \in Wants :
       op' = [op EXCEPT ![o] = [Idle EXCEPT !.pc = "load", !.conv = c, !.want = w,
                                  !.job = IF loaded[c] THEN "none" ELSE "queued",
                                  !.kind = IF loaded[c] THEN "none" ELSE "load"]]
  /\ disturbed' = (disturbed \/ \E p \in Ops \ {o} : op[p].pc # "idle")
  /\ UNCHANGED <<loaded, mem, heap, file, apart>>

\* async_set: a new object, in memory at once, then saved.
SetGoal(o, m, h) ==
  \E n \in Names :
    LET i == Unheld(m)
    IN /\ mem' = [m EXCEPT ![op[o].conv] = i]
       /\ Call(o, "save", "save", i)
       /\ heap' = Keep([h EXCEPT ![i] = [name |-> n, state |-> NewGoal]])

\* A change that is never written.
ChangeUnsaved(o, m, h, state) ==
  /\ mem' = m
  /\ Return(o)
  /\ heap' = Keep([h EXCEPT ![m[op[o].conv]].state = state])

\* async_pause and async_resume change the object whatever its status.
Change(o, m, h, state) ==
  LET i == m[op[o].conv]
  IN /\ mem' = m
     /\ Call(o, "save", "save", i)
     /\ heap' = Keep([h EXCEPT ![i].state = state])

\* async_clear: the file first, the memory when the job is done.
ClearGoal(o, m, h) ==
  /\ mem' = m
  /\ Call(o, "delete", "delete", NoGoal)
  /\ heap' = Keep(h)

\* async_evaluate_after_turn up to the judge; _gate_goal has the same guard.
Evaluate(o, m, h) ==
  LET i == m[op[o].conv]
  IN /\ mem' = m
     /\ Call(o, "judge", "none", i)
     /\ heap' = Keep([h EXCEPT ![i].state = TurnCounted(@)])

\* Nothing to do: no goal, or no active one to evaluate.
Skip(o, m, h) ==
  /\ mem' = m
  /\ Return(o)
  /\ heap' = Keep(h)

Perform(o, m, h) ==
  LET c == op[o].conv
      want == op[o].want
      state == h[m[c]].state
  IN \/ want = "set" /\ SetGoal(o, m, h)
     \/ want = "pause" /\ m[c] # NoGoal /\ Change(o, m, h, Paused(state))
     \/ want = "resume" /\ m[c] # NoGoal /\ Change(o, m, h, Resumed(state))
     \/ want = "clear" /\ m[c] # NoGoal /\ ClearGoal(o, m, h)
     \/ want = "evaluate" /\ IsActive(m, h, c) /\ Evaluate(o, m, h)
     \/ want \in {"pause", "resume", "clear"} /\ m[c] = NoGoal /\ Skip(o, m, h)
     \/ want = "evaluate" /\ ~IsActive(m, h, c) /\ Skip(o, m, h)

\* async_ensure_loaded returned at once.
PerformLoaded(o) ==
  /\ op[o].pc = "load" /\ op[o].job = "none"
  /\ Perform(o, mem, heap)
  /\ UNCHANGED <<loaded, file, disturbed, apart>>

\* async_ensure_loaded awaited load_goal: what that read becomes the state, whatever
\* another operation has put there meanwhile.
PerformAfterLoad(o) ==
  LET c == op[o].conv
      entry == op[o].buf[c]
      i == Unheld(mem)
  IN /\ op[o].pc = "load" /\ op[o].job = "finished"
     /\ loaded' = [loaded EXCEPT ![c] = TRUE]
     /\ IF entry = NoEntry
        THEN Perform(o, [mem EXCEPT ![c] = NoGoal], heap)
        ELSE Perform(o, [mem EXCEPT ![c] = i], [heap EXCEPT ![i] = entry])
     /\ UNCHANGED <<file, disturbed, apart>>

\* The judge answered: the object that was judged changes and is saved.
JudgeAnswered(o) ==
  /\ op[o].pc = "judge"
  /\ \E v \in Verdicts :
       heap' = [heap EXCEPT ![op[o].obj].state = Judged(@, v)]
  /\ Call(o, "save", "save", op[o].obj)
  /\ UNCHANGED <<loaded, mem, file, disturbed, apart>>

SaveReturned(o) ==
  /\ op[o].pc = "save" /\ op[o].job = "finished"
  /\ UNCHANGED <<loaded, mem, file, disturbed, apart>>
  /\ Return(o)
  /\ heap' = Keep(heap)

ClearReturned(o) ==
  /\ op[o].pc = "delete" /\ op[o].job = "finished"
  /\ mem' = [mem EXCEPT ![op[o].conv] = NoGoal]
  /\ Return(o)
  /\ heap' = Keep(heap)
  /\ UNCHANGED <<loaded, file, disturbed, apart>>

\* The caller is cancelled where it waits; a job that has started goes on.
Cancelled(o) ==
  /\ op[o].pc \in {"load", "judge", "save", "delete"}
  /\ IF op[o].job \in {"none", "finished"} \/ op[o].kind = "load"
     THEN Return(o)
     ELSE op' = [op EXCEPT ![o].pc = "orphan"]
  /\ disturbed' = TRUE
  /\ UNCHANGED <<loaded, mem, file, apart>>
  /\ heap' = Keep(heap)

OrphanDone(o) ==
  /\ op[o].pc = "orphan" /\ op[o].job = "finished"
  /\ Return(o)
  /\ UNCHANGED <<loaded, mem, file, disturbed, apart>>
  /\ heap' = Keep(heap)

-------------------------------------------------------------------------------
(* The thread's side.                                                         *)

\* Whose goal is left out when the thread of o finds nothing in the file: what is saved
\* loses all other entries, what is deleted stays.
Missed(o) == IF op[o].kind = "save" THEN Convs \ {op[o].conv} ELSE {op[o].conv}

\* _read_all: the whole file, or nothing if it cannot be read.
JobReads(o) ==
  /\ op[o].job = "queued"
  /\ \E seen \in {file, NoFile} :
       /\ op' = [op EXCEPT ![o].buf = seen,
                           ![o].job = IF op[o].kind = "load" THEN "finished" ELSE "read"]
       /\ apart' = IF seen # file THEN apart \cup Missed(o)
                   ELSE IF op[o].kind = "load" THEN apart \ Missed(o) ELSE apart
  /\ UNCHANGED <<loaded, mem, heap, file, disturbed>>

\* state.to_dict(), of the object as it is now.
JobCopies(o) ==
  /\ op[o].job = "read" /\ op[o].kind = "save"
  /\ op' = [op EXCEPT ![o].rec = heap[op[o].obj], ![o].job = "copied"]
  /\ UNCHANGED <<loaded, mem, heap, file, disturbed, apart>>

Written(buf, c, entry) == [buf EXCEPT ![c] = entry]

JobOver(o) == op' = [op EXCEPT ![o].job = "finished", ![o].buf = NoFile, ![o].rec = Blank]

\* A write that fails leaves the file as it was, and the caller goes on as if it had not.
Write(c, contents) ==
  \/ file' = contents /\ apart' = apart \ {c}
  \/ UNCHANGED file /\ apart' = apart \cup {c}

\* _write_all: the whole file as this thread read it, with its own entry changed.
JobWrites(o) ==
  LET c == op[o].conv
      buf == op[o].buf
  IN /\ \/ op[o].job = "copied" /\ Write(c, Written(buf, c, op[o].rec))
        \/ /\ op[o].job = "read" /\ op[o].kind = "delete"
           /\ IF buf[c] = NoEntry THEN UNCHANGED <<file, apart>>
              ELSE Write(c, Written(buf, c, NoEntry))
     /\ JobOver(o)
     /\ UNCHANGED <<loaded, mem, heap, disturbed>>

\* Home Assistant restarts: only the file is left.
Restart ==
  /\ loaded' = [c \in Convs |-> FALSE]
  /\ mem' = [c \in Convs |-> NoGoal]
  /\ op' = [o \in Ops |-> Idle]
  /\ heap' = [i \in Ids |-> Blank]
  /\ disturbed' = FALSE
  /\ apart' = {}
  /\ UNCHANGED file

-------------------------------------------------------------------------------
Init ==
  /\ loaded = [c \in Convs |-> FALSE]
  /\ mem = [c \in Convs |-> NoGoal]
  /\ heap = [i \in Ids |-> Blank]
  /\ op = [o \in Ops |-> Idle]
  /\ file = NoFile
  /\ disturbed = FALSE
  /\ apart = {}

OpStep(o) ==
  \/ Begin(o) \/ PerformLoaded(o) \/ PerformAfterLoad(o)
  \/ JudgeAnswered(o) \/ SaveReturned(o) \/ ClearReturned(o)
  \/ Cancelled(o) \/ OrphanDone(o)
  \/ JobReads(o) \/ JobCopies(o) \/ JobWrites(o)

Next == (\E o \in Ops : OpStep(o)) \/ Restart

Spec == Init /\ [][Next]_vars

-------------------------------------------------------------------------------
(* Properties.                                                                *)

Judgeable(g) == g.status = "active" => g.failures < MaxParseFailures

\* A goal that is active - in memory, in what a thread is about to write, or in the
\* file a restart will load - still has judge failures to spare: no order of verdicts,
\* commands, overlapping saves and restarts brings back a goal that the failure limit
\* should have paused.
ActiveMeansJudgeable ==
  /\ \A i \in Ids : Judgeable(heap[i].state)
  /\ \A c \in Convs : file[c] # NoEntry => Judgeable(file[c].state)
  /\ \A o \in Ops : /\ Judgeable(op[o].rec.state)
                    /\ \A c \in Convs : op[o].buf[c] # NoEntry => Judgeable(op[o].buf[c].state)

Quiet == \A o \in Ops : op[o].pc = "idle"
Entry(c) == IF mem[c] = NoGoal THEN NoEntry ELSE heap[mem[c]]

\* Between operations the file holds exactly the goals in memory, so that a restart
\* loses nothing: in any sequence of operations, as long as none overlaps another and no
\* caller is cancelled.  An error of the disk sets apart only the goals it has kept from
\* being read or written, and the next access to each brings them together again; so does
\* a restart.
QuietFileIsMemory ==
  Quiet /\ ~disturbed => \A c \in Convs \ apart : loaded[c] => file[c] = Entry(c)
===============================================================================
