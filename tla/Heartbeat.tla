------------------------------ MODULE Heartbeat ------------------------------
(***************************************************************************)
(* Scheduled tasks: HEARTBEAT.md and heartbeat-state.json                    *)
(* (runtime/storage/heartbeat_store.py), the ticker that runs what is due     *)
(* (heartbeat_ticker.py), the tool and the services that edit and run tasks,  *)
(* and the config entry that starts and stops the ticker and the hook         *)
(* (__init__.py).                                                            *)
(*                                                                           *)
(* Every operation reads a whole file, changes its copy and writes the copy   *)
(* back, each in an executor job of its own; only the running flag keeps two  *)
(* operations apart, and only two ticks.  An operation is a record whose      *)
(* field "todo" lists the jobs it has still to do.                            *)
(*                                                                           *)
(* Time comes in ticks of the timer.  What the state file keeps of a task is  *)
(* how long ago it was checked, up to the longest time a schedule asks for.   *)
(* A file job that fails is not modelled.                                     *)
(***************************************************************************)
EXTENDS Naturals, Sequences, FiniteSets, SequencesExt

CONSTANTS Tasks,     \* slugs, in the order of the file
          Schedule,  \* Schedule[t]: [kind |-> "interval", every |-> ticks],
                     \*           or [kind |-> "cron", minute |-> minute of the day]
          Ticks,     \* the coroutines that can be inside _tick
          Edits,     \* the operations of tools and services
          Minute,    \* ticks in a minute
          Day,       \* minutes in a day
          MaxAge,    \* the longest time a schedule asks for
          MaxEdits,  \* bound of the model: edits, restarts, changes of the entry
          None       \* no task, no section, no state, no copy

Slugs == ToSet(Tasks)
Ops == Ticks \cup Edits

ASSUME TaskAssumption == IsInjective(Tasks)
ASSUME OpAssumption == Ticks \cap Edits = {}
ASSUME NoneAssumption ==
  /\ None \notin Slugs /\ None \notin 0..MaxAge
  /\ None \notin [enabled: BOOLEAN, once: BOOLEAN]
ASSUME TimeAssumption ==
  /\ {Minute, Day, MaxAge} \subseteq Nat \ {0} /\ MaxEdits \in Nat
  /\ Minute <= MaxAge
  /\ \A t \in Slugs :
       \/ Schedule[t].kind = "interval" /\ Schedule[t].every \in 1..MaxAge
       \/ Schedule[t].kind = "cron" /\ Schedule[t].minute \in 0..Day - 1

VARIABLES
  md,      \* HEARTBEAT.md: md[t] is the section of t
  st,      \* heartbeat-state.json: st[t] is how long ago t was last checked
  op,      \* the operations under way
  edits,   \* number of edits
  running, \* hass.data["heartbeat_ticker_running"]
  timer,   \* hass.data["heartbeat_ticker_unsub"]: the interval timer is on
  domain,  \* the keys of hass.data["claw_assistant"]
  hook,    \* the conversation hook is installed
  entry,   \* state of the config entry
  clock,   \* time of day: the minute, and the tick in it
  late,    \* history: late[t], times a tick began t after t was taken away
  stale,   \* history: a copy was written that another write had made stale
  ran      \* history: ran[t], times a tick began the cron task t this minute

fileVars == <<md, st>>
lifeVars == <<timer, domain, hook, entry>>
vars == <<fileVars, op, edits, running, lifeVars, clock, late, stale, ran>>

Section == [enabled: BOOLEAN, once: BOOLEAN]
Markdown == [Slugs -> Section \cup {None}]
States == [Slugs -> 0..MaxAge \cup {None}]

Kinds == {"none", "tick", "upsert", "enable", "delete", "clear", "record", "run"}
Jobs == {"due", "find", "run", "readMd", "readSt", "writeMd", "writeSt"}

\* task is what the operation is about, or what a tick runs; due is what the tick
\* will run afterwards, in the order of the file.
Op == [kind: Kinds, task: Slugs \cup {None}, section: Section \cup {None}, ok: BOOLEAN,
       due: SUBSET Slugs, todo: Seq(Jobs), md: Markdown \cup {None}, st: States \cup {None}]
Idle == [kind |-> "none", task |-> None, section |-> None, ok |-> FALSE, due |-> {},
         todo |-> <<>>, md |-> None, st |-> None]

TypeOK ==
  /\ md \in Markdown /\ st \in States
  /\ op \in [Ops -> Op]
  /\ edits \in 0..MaxEdits
  /\ {running, timer, hook, stale} \subseteq BOOLEAN
  /\ domain \subseteq {"entry_id", "runtime", "entry"}
  /\ entry \in {"none", "setup", "loaded", "unloaded", "removed"}
  /\ clock \in [minute: 0..Day - 1, tick: 0..Minute - 1]
  /\ late \in [Slugs -> Nat] /\ ran \in [Slugs -> Nat]

Init ==
  /\ md \in [Slugs -> {[enabled |-> TRUE, once |-> b] : b \in BOOLEAN}]
  /\ st = [t \in Slugs |-> None]
  /\ op = [o \in Ops |-> Idle]
  /\ edits = 0
  /\ running = FALSE /\ timer = FALSE /\ hook = FALSE
  /\ domain = {} /\ entry = "none"
  /\ clock = [minute |-> 0, tick |-> 0]
  /\ late = [t \in Slugs |-> 0] /\ ran = [t \in Slugs |-> 0]
  /\ stale = FALSE

-----------------------------------------------------------------------------
(* Which tasks are due.                                                      *)

Enabled(t) == md[t] # None /\ md[t].enabled
Checked(t, age) == st[t] # None /\ st[t] < age
InMinute(t) == Schedule[t].kind = "cron" /\ Schedule[t].minute = clock.minute

\* A cron task is due in its minute, whether it has run in it or not.
NextDueAlways(t) ==
  IF Schedule[t].kind = "interval" THEN ~Checked(t, Schedule[t].every)
  ELSE InMinute(t)
NextDue(t) ==
  IF Schedule[t].kind = "interval" THEN ~Checked(t, Schedule[t].every)
  ELSE ~Checked(t, Minute) /\ InMinute(t)

DueOrDisabled == {t \in Slugs : NextDue(t)}
GetDueTasks == {t \in Slugs : Enabled(t) /\ NextDue(t)}

\* The tasks of a list are taken in the order of the file.
FirstOf(list) ==
  {t \in list : \E i \in DOMAIN Tasks :
                   Tasks[i] = t /\ \A j \in 1..i - 1 : Tasks[j] \notin list}

-----------------------------------------------------------------------------
(* The jobs of an operation.                                                 *)

Doing(o, job) == op[o].todo # <<>> /\ Head(op[o].todo) = job
Remaining(o) == Tail(op[o].todo)
RecordJobs == <<"readMd", "readSt", "writeMd", "writeSt">>

OverStillRunning(o) ==
  /\ op' = [op EXCEPT ![o] = Idle]
  /\ UNCHANGED running

\* A tick that is over clears the running flag, whatever ended it.
Over(o) ==
  /\ op' = [op EXCEPT ![o] = Idle]
  /\ running' = (running /\ o \notin Ticks)

\* The operation goes on with the jobs todo.
Goes(o, new, todo) ==
  IF todo = <<>> THEN Over(o)
  ELSE op' = [op EXCEPT ![o] = [new EXCEPT !.todo = todo]] /\ UNCHANGED running

\* The tick o begins the first task of the list; begun counts this minute's.
RunNext(o, list, begun) ==
  IF list = {} \/ ~hook
  THEN Over(o) /\ UNCHANGED late /\ ran' = begun
  ELSE \E t \in FirstOf(list) :
         /\ op' = [op EXCEPT ![o] = [Idle EXCEPT !.kind = "tick", !.task = t,
                                                 !.due = list \ {t}, !.todo = <<"run">>]]
         /\ late' = [late EXCEPT ![t] = IF Enabled(t) THEN 0 ELSE @ + 1]
         /\ ran' = [begun EXCEPT ![t] = IF InMinute(t) THEN @ + 1 ELSE @]
         /\ UNCHANGED running

ReadDue(o) ==
  /\ Doing(o, "due")
  /\ RunNext(o, GetDueTasks, ran)
  /\ UNCHANGED <<fileVars, edits, lifeVars, clock, stale>>

\* run_now looks the task up and runs it, whether or not a tick is running.
Find(o) ==
  /\ Doing(o, "find")
  /\ Goes(o, op[o], IF md[op[o].task] = None \/ ~hook THEN <<>> ELSE <<"run">>)
  /\ UNCHANGED <<fileVars, edits, lifeVars, clock, late, stale, ran>>

\* The agent answers, and the result is recorded; only speech is a success.
Answer(o) ==
  /\ Doing(o, "run")
  /\ \E ok \in BOOLEAN : Goes(o, [op[o] EXCEPT !.ok = ok], RecordJobs)
  /\ UNCHANGED <<fileVars, edits, lifeVars, clock, late, stale, ran>>

\* The markdown asks for t to be removed once it has succeeded, and it has.
Removes(o, copy) ==
  op[o].ok /\ copy[op[o].task] # None /\ copy[op[o].task].once

\* set_enabled ends here when the task is not there; a record writes the markdown
\* only to remove the task.
ReadMd(o) ==
  /\ Doing(o, "readMd")
  /\ Goes(o, [op[o] EXCEPT !.md = md],
          CASE op[o].kind = "enable" /\ md[op[o].task] = None -> <<>>
            [] op[o].todo = RecordJobs /\ ~Removes(o, md) -> <<"readSt", "writeSt">>
            [] OTHER -> Remaining(o))
  /\ UNCHANGED <<fileVars, edits, lifeVars, clock, late, stale, ran>>

ReadSt(o) ==
  /\ Doing(o, "readSt")
  /\ Goes(o, [op[o] EXCEPT !.st = st], Remaining(o))
  /\ UNCHANGED <<fileVars, edits, lifeVars, clock, late, stale, ran>>

\* What an operation makes of its copy of the markdown, and of the state.
EditedMd(o) ==
  LET t == op[o].task IN
  CASE op[o].kind = "upsert" -> [op[o].md EXCEPT ![t] = op[o].section]
    [] op[o].kind = "enable" -> [op[o].md EXCEPT ![t].enabled = op[o].section.enabled]
    [] OTHER -> [op[o].md EXCEPT ![t] = None]

EditedSt(o) ==
  IF op[o].kind = "clear" /\ op[o].task = None THEN [t \in Slugs |-> None]
  ELSE [op[o].st EXCEPT ![op[o].task] =
          IF op[o].kind \in {"clear", "delete"} \/ Removes(o, op[o].md) THEN None ELSE 0]

WriteMd(o) ==
  /\ Doing(o, "writeMd")
  /\ md' = EditedMd(o)
  /\ stale' = (stale \/ op[o].md # md)
  /\ late' = [t \in Slugs |-> IF md'[t] # None /\ md'[t].enabled THEN 0 ELSE late[t]]
  /\ Goes(o, op[o], Remaining(o))
  /\ UNCHANGED <<st, edits, lifeVars, clock, ran>>

\* The last job of a recorded run: the tick goes on to its next task.
WriteSt(o) ==
  /\ Doing(o, "writeSt")
  /\ st' = EditedSt(o)
  /\ stale' = (stale \/ op[o].st # st)
  /\ LET begun == [t \in Slugs |-> IF st'[t] = None THEN 0 ELSE ran[t]] IN
     IF o \in Ticks THEN RunNext(o, op[o].due, begun)
     ELSE Goes(o, op[o], Remaining(o)) /\ ran' = begun /\ UNCHANGED late
  /\ UNCHANGED <<md, edits, lifeVars, clock>>

-----------------------------------------------------------------------------
(* Ticks, edits and the life of the config entry.                            *)

\* Ten seconds pass; a file job or a step of an operation takes less.  The timer
\* starts a tick unless one is running.
TimePasses ==
  /\ \A o \in Ops : op[o] = Idle \/ Doing(o, "run")
  /\ st' = [t \in Slugs |-> IF st[t] \in 0..MaxAge - 1 THEN st[t] + 1 ELSE st[t]]
  /\ clock' = IF clock.tick < Minute - 1 THEN [clock EXCEPT !.tick = @ + 1]
              ELSE [minute |-> (clock.minute + 1) % Day, tick |-> 0]
  /\ ran' = [t \in Slugs |-> IF clock'.tick = 0 THEN 0 ELSE ran[t]]
  /\ IF timer /\ ~running
     THEN \E o \in Ticks :
            /\ op[o] = Idle
            /\ op' = [op EXCEPT ![o] = [Idle EXCEPT !.kind = "tick", !.todo = <<"due">>]]
            /\ running' = TRUE
     ELSE UNCHANGED <<op, running>>
  /\ UNCHANGED <<md, edits, lifeVars, late, stale>>

Edit(o, kind, t, section, ok, todo) ==
  /\ op[o] = Idle /\ edits < MaxEdits
  /\ op' = [op EXCEPT ![o] = [Idle EXCEPT !.kind = kind, !.task = t, !.section = section,
                                          !.ok = ok, !.todo = todo]]
  /\ edits' = edits + 1
  /\ UNCHANGED <<fileVars, running, lifeVars, clock, late, stale, ran>>

\* The text of a task is stored for its section.
UpsertText(o) == \E t \in Slugs :
               Edit(o, "upsert", t, t, FALSE, <<"readMd", "writeMd">>)
Upsert(o) == \E t \in Slugs, new \in Section :
               Edit(o, "upsert", t, new, FALSE, <<"readMd", "writeMd">>)
SetEnabled(o) == \E t \in Slugs, b \in BOOLEAN :
               Edit(o, "enable", t, [enabled |-> b, once |-> FALSE], FALSE, <<"readMd", "writeMd">>)
Delete(o) == \E t \in Slugs :
               Edit(o, "delete", t, None, FALSE, <<"readMd", "readSt", "writeSt", "writeMd">>)
Clear(o) == \E t \in Slugs \cup {None} :
               Edit(o, "clear", t, None, FALSE, <<"readSt", "writeSt">>)
Record(o) == \E t \in Slugs, ok \in BOOLEAN : Edit(o, "record", t, None, ok, RecordJobs)
RunNow(o) == \E t \in Slugs : Edit(o, "run", t, None, FALSE, <<"find">>)

\* The entry comes up: first the timer, at the end of the awaits the hook.
Setup ==
  /\ entry \in {"none", "unloaded"}
  /\ entry' = "setup"
  /\ domain' = domain \cup {"entry_id", "runtime"}
  /\ timer' = TRUE
  /\ UNCHANGED <<fileVars, op, edits, running, hook, clock, late, stale, ran>>

SetupEnds ==
  /\ entry = "setup"
  /\ entry' = "loaded"
  /\ domain' = domain \cup {"entry"}
  /\ hook' = TRUE
  /\ UNCHANGED <<fileVars, op, edits, running, timer, clock, late, stale, ran>>

\* Every key is dropped with the entry, and the flag with the ticker.
UnloadAll ==
  /\ entry = "loaded" /\ edits < MaxEdits
  /\ edits' = edits + 1
  /\ entry' = "unloaded"
  /\ domain' = {}
  /\ timer' = FALSE /\ running' = FALSE /\ hook' = FALSE
  /\ UNCHANGED <<fileVars, op, clock, late, stale, ran>>

\* The ticker and the hook go when no key is left.
Unload ==
  /\ entry = "loaded" /\ edits < MaxEdits
  /\ edits' = edits + 1
  /\ entry' = "unloaded"
  /\ domain' = domain \ {"entry_id"}
  /\ IF domain' = {} THEN timer' = FALSE /\ running' = FALSE /\ hook' = FALSE
     ELSE UNCHANGED <<timer, running, hook>>
  /\ UNCHANGED <<fileVars, op, clock, late, stale, ran>>

RemoveEntry ==
  /\ entry = "unloaded"
  /\ entry' = "removed"
  /\ UNCHANGED <<fileVars, op, edits, running, timer, domain, hook, clock, late, stale, ran>>

\* Home Assistant restarts between two jobs: the files stay, the rest is gone.
Restart ==
  /\ edits < MaxEdits
  /\ edits' = edits + 1
  /\ op' = [o \in Ops |-> Idle]
  /\ running' = FALSE /\ timer' = FALSE /\ hook' = FALSE /\ domain' = {}
  /\ entry' = IF entry = "removed" THEN "removed" ELSE "none"
  /\ ran' = [t \in Slugs |-> 0]
  /\ UNCHANGED <<fileVars, clock, late, stale>>

Job(o) == ReadDue(o) \/ Find(o) \/ ReadMd(o) \/ ReadSt(o) \/ WriteMd(o) \/ WriteSt(o)
User(o) == Upsert(o) \/ SetEnabled(o) \/ Delete(o) \/ Clear(o) \/ Record(o) \/ RunNow(o)

Next ==
  \/ \E o \in Ops : Job(o) \/ Answer(o)
  \/ \E o \in Edits : User(o)
  \/ TimePasses
  \/ Setup \/ SetupEnds \/ Unload \/ RemoveEntry \/ Restart

Spec == Init /\ [][Next]_vars

\* A file job ends, an agent answers (its provider or its time limit sees to it),
\* a setup gets through, and time goes on.
Fairness ==
  /\ \A o \in Ops : WF_vars(Job(o)) /\ WF_vars(Answer(o))
  /\ WF_vars(SetupEnds)
  /\ SF_vars(TimePasses)

FairSpec == Spec /\ Fairness

-----------------------------------------------------------------------------
(* Properties.                                                               *)

\* Two ticks are never under way together, and the flag says whether one is: no
\* reload of the entry lets go of the flag while a tick runs (heartbeat_ticker.py:
\* 80-87, 229-233).
OneTick ==
  /\ Cardinality({o \in Ticks : op[o] # Idle}) <= 1
  /\ running = (\E o \in Ticks : op[o] # Idle)

\* A tick works through a list of due tasks it has read before: it may still begin a
\* task that was deleted, disabled or completed in the meantime, but once only until
\* it is there again, whatever else is written (heartbeat_ticker.py:90-103,
\* heartbeat_store.py:347-413).
LateOnce == \A t \in Slugs : late[t] <= 1

\* A cron task is begun once in a minute it matches: the result recorded at the end
\* of the run holds it back until the minute is over, unless the state is cleared
\* or lost to a stale copy (heartbeat_store.py:466-511).
CronOnce == ~stale => \A t \in Slugs : ran[t] <= 1

\* While the ticker and the hook stay, an interval task that stays enabled is run
\* again and again, however long the other tasks of a list take.
KeepsRunning ==
  \A t \in Slugs :
    (Schedule[t].kind = "interval" /\ <>[](Enabled(t) /\ timer /\ hook))
      => []<>(\E o \in Ticks : Doing(o, "run") /\ op[o].task = t)

\* "Simply remove Claw Assistant from Settings, Integrations and all Hooks will
\* automatically revert" (README.md:246).
HooksRevert == entry = "removed" => ~hook
=============================================================================
