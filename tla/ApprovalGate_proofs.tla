------------------------- MODULE ApprovalGate_proofs -------------------------
(* Proofs about ApprovalGate: nothing runs unapproved, every entry gets one    *)
(* answer, and the gate implements ApprovalService, for any number of calls,   *)
(* threads, users, tools and entries.                                          *)
EXTENDS ApprovalGate, SequenceTheorems, TLAPS

\* A waiting call knows its entry; one that runs after a CONFIRM has it approved.
HoldsEntry(k) ==
  /\ call[k].pc = "poll" => call[k].decision = "CONFIRM" /\ call[k].id \in Ids
  /\ call[k].pc = "exec" /\ call[k].decision = "CONFIRM"
       => call[k].id \in Ids /\ status[call[k].id] = "approved"

CallsHoldEntries == \A k \in Calls : HoldsEntry(k)

\* Between the two halves of resolve an entry belongs to one thread: it has its
\* verdict, no other thread inserts it, and it is not in the history yet.
ThreadsOwnEntries ==
  /\ \A p \in Threads : thread[p].pc = "insert" =>
       /\ status[thread[p].id] = Verdict(thread[p].approved)
       /\ \A i \in DOMAIN history : history[i].id # thread[p].id
  /\ \A p, q \in Threads :
       thread[p].pc = "insert" /\ thread[q].pc = "insert" /\ thread[p].id = thread[q].id
         => p = q

ThreadsHoldIds == \A p \in Threads : thread[p].pc # "idle" => thread[p].id \in Ids

IndInv ==
  /\ TypeOK
  /\ AnsweredOnce
  /\ CallsHoldEntries
  /\ ThreadsHoldIds
  /\ ThreadsOwnEntries
  /\ AuditAgrees

-------------------------------------------------------------------------------
(* What the insertion into the history leaves there.                          *)

\* history.insert(0, entry); del history[_MAX_HISTORY:]: the entry comes first, the
\* older ones move down by one, the oldest may go.
LEMMA InsertedProperties ==
  ASSUME NEW h \in Seq(Resolution), Len(h) <= MaxHistory,
         NEW id \in Ids, NEW approved \in BOOLEAN
  PROVE  /\ Inserted(h, id, approved) \in Seq(Resolution)
         /\ Len(Inserted(h, id, approved)) \in Nat \ {0}
         /\ Len(Inserted(h, id, approved)) <= MaxHistory
         /\ Inserted(h, id, approved)[1] = [id |-> id, status |-> Verdict(approved)]
         /\ \A i \in 2..Len(Inserted(h, id, approved)) :
              i - 1 \in 1..Len(h) /\ Inserted(h, id, approved)[i] = h[i - 1]
<1> DEFINE new == [id |-> id, status |-> Verdict(approved)]
           s == <<new>> \o h
           n == IF Len(h) < MaxHistory THEN Len(h) + 1 ELSE MaxHistory
<1>1. new \in Resolution BY DEF Resolution, Verdict
<1>2. <<new>> \in Seq(Resolution) /\ Len(<<new>>) = 1 /\ <<new>>[1] = new BY <1>1
<1> HIDE DEF new
<1>3. /\ s \in Seq(Resolution) /\ Len(s) = Len(h) + 1
      /\ \A i \in 1..Len(h) + 1 : s[i] = IF i <= 1 THEN <<new>>[i] ELSE h[i - 1]
  BY <1>2, ConcatProperties
<1>4. n \in 1..Len(s) /\ n <= MaxHistory
  BY <1>3, WindowAssumption
<1> HIDE DEF s, n
<1>5. \A i \in 1..n : s[i] \in Resolution
  BY <1>3, <1>4, ElementOfSeq
<1>6. /\ SubSeq(s, 1, n) \in Seq(Resolution)
      /\ Len(SubSeq(s, 1, n)) = n
      /\ \A i \in 1..n : SubSeq(s, 1, n)[i] = s[i]
  BY <1>4, <1>5, SubSeqProperties
<1>7. Inserted(h, id, approved) = SubSeq(s, 1, n)
  BY DEF Inserted, s, n, new
<1> QED BY <1>2, <1>3, <1>4, <1>6, <1>7 DEF new

-------------------------------------------------------------------------------
(* One step.                                                                  *)

\* An idle call is typed.
LEMMA NoCallTyped == NoCall \in Call
BY ToolsAssumption DEF NoCall, Call

\* The same of a thread.
LEMMA NoThreadTyped == NoThread \in Thread
BY DEF NoThread, Thread

\* A verdict is one of the two.
LEMMA VerdictTyped ==
  ASSUME NEW approved \in BOOLEAN PROVE Verdict(approved) \in {"approved", "denied"}
BY DEF Verdict

\* A step of the queue on the event loop keeps the types of what it writes.
LEMMA ResolveNowTyped ==
  ASSUME TypeOK, NEW id \in Ids, NEW approved \in BOOLEAN, ResolveNow(id, approved)
  PROVE  /\ pending' \in [Ids -> Kinds]
         /\ status' \in [Ids -> {"new", "pending", "approved", "denied"}]
         /\ history' \in Seq(Resolution) /\ Len(history') <= MaxHistory
<1>1. Verdict(approved) \in {"approved", "denied"} BY VerdictTyped
<1>2. Inserted(history, id, approved) \in Seq(Resolution)
      /\ Len(Inserted(history, id, approved)) <= MaxHistory
  BY InsertedProperties DEF TypeOK
<1> QED BY <1>1, <1>2 DEF ResolveNow, Popped, TypeOK, Kinds

\* Every step keeps the types.
LEMMA TypeStep ==
  ASSUME IndInv, [Next]_vars PROVE TypeOK'
<1> USE DEF TypeOK
<1>typed. TypeOK BY DEF IndInv
<1>1. CASE Speak BY <1>1, <1>typed DEF Speak
<1>2. CASE ConfigStage
  BY <1>2, <1>typed DEF ConfigStage, Created, Kinds, Unused
<1>3. CASE ConfigCancel
  <2> PICK id \in Waiting : ResolveNow(id, FALSE) BY <1>3 DEF ConfigCancel
  <2>1. id \in Ids BY DEF Waiting
  <2> QED BY <1>3, <1>typed, <2>1, ResolveNowTyped DEF ConfigCancel
<1>4. ASSUME NEW k \in Calls, CallStep(k) PROVE TypeOK'
  <2>typed. call[k] \in Call BY <1>typed
  <2>1. CASE Request(k)
    <3> PICK t \in Tools : call' = [call EXCEPT ![k] = [NoCall EXCEPT !.pc = "pre", !.tool = t]]
      BY <2>1 DEF Request
    <3>1. [NoCall EXCEPT !.pc = "pre", !.tool = t] \in Call BY NoCallTyped DEF Call
    <3> QED BY <2>1, <3>1, <1>typed DEF Request
  <2>2. CASE Refused(k) BY <2>2, <1>typed, NoCallTyped DEF Refused
  <2>3. CASE Allowed(k)
    <3>1. [call[k] EXCEPT !.pc = "exec", !.decision = "ALLOW"] \in Call BY <2>typed DEF Call
    <3>2. call' = [call EXCEPT ![k] = [call[k] EXCEPT !.pc = "exec", !.decision = "ALLOW"]]
      BY <2>3, <1>typed DEF Allowed, Call
    <3> QED BY <2>3, <3>1, <3>2, <1>typed DEF Allowed
  <2>4. CASE Confirm(k)
    <3> PICK id \in Unused :
          /\ Created(id, "tool_approval")
          /\ call' = [call EXCEPT ![k].pc = "poll", ![k].decision = "CONFIRM", ![k].id = id]
          /\ audit' = [audit EXCEPT ![id] = {"pending"}]
      BY <2>4 DEF Confirm
    <3>1. id \in Ids BY DEF Unused
    <3>2. [call[k] EXCEPT !.pc = "poll", !.decision = "CONFIRM", !.id = id] \in Call
      BY <2>typed, <3>1 DEF Call
    <3>3. call' \in [Calls -> Call] BY <3>2, <1>typed DEF Call
    <3>4. audit' \in [Ids -> SUBSET {"pending", "approved", "cancelled"}]
      BY <1>typed, <3>1
    <3>5. pending' \in [Ids -> Kinds] /\ status' \in [Ids -> {"new", "pending", "approved", "denied"}]
      BY <1>typed, <3>1 DEF Created, Kinds
    <3> QED BY <2>4, <3>3, <3>4, <3>5, <1>typed DEF Confirm
  <2>5. ASSUME NEW approved \in BOOLEAN, Answered(k, approved), call[k].pc = "poll"
        PROVE  /\ call' \in [Calls -> Call]
               /\ audit' \in [Ids -> SUBSET {"pending", "approved", "cancelled"}]
    <3>1. [call[k] EXCEPT !.pc = "exec"] \in Call BY <2>typed DEF Call
    <3>2. call' \in [Calls -> Call]
      BY <2>5, <3>1, NoCallTyped, <1>typed DEF Answered, Call
    <3>3. call[k].id \in Ids BY <2>5 DEF IndInv, CallsHoldEntries, HoldsEntry
    <3> QED BY <2>5, <3>2, <3>3, <1>typed DEF Answered
  <2>6. CASE Poll(k)
    <3>1. FoundApproved(call[k].id) \in BOOLEAN BY DEF FoundApproved
    <3> QED BY <2>6, <2>5, <3>1, <1>typed DEF Poll
  <2>7. CASE TimedOut(k)
    <3>1. call[k].id \in Ids BY <2>7 DEF TimedOut, IndInv, CallsHoldEntries, HoldsEntry
    <3> QED BY <2>7, <2>5, <3>1, ResolveNowTyped, <1>typed DEF TimedOut
  <2>8. CASE TurnCancelled(k)
    <3>1. call[k].pc = "poll" => call[k].id \in Ids BY DEF IndInv, CallsHoldEntries, HoldsEntry
    <3>2. call' \in [Calls -> Call] BY <2>8, <1>typed, NoCallTyped DEF TurnCancelled
    <3>3. orphans' \subseteq Ids BY <2>8, <3>1, <1>typed DEF TurnCancelled
    <3> QED BY <2>8, <3>2, <3>3, <1>typed DEF TurnCancelled
  <2>9. CASE Executed(k) BY <2>9, <1>typed, NoCallTyped DEF Executed
  <2> QED BY <1>4, <2>1, <2>2, <2>3, <2>4, <2>6, <2>7, <2>8, <2>9 DEF CallStep
<1>5. ASSUME NEW p \in Threads, ThreadStep(p) PROVE TypeOK'
  <2>typed. thread[p] \in Thread BY <1>typed
  <2>1. CASE PanelResolves(p)
    BY <2>1, <1>typed DEF PanelResolves, Thread, Unused
  <2>2. CASE ConfigApply(p)
    BY <2>2, <1>typed DEF ConfigApply, Thread, Waiting
  <2>3. CASE ThreadPops(p)
    <3>1. /\ thread[p].id \in Ids
          /\ Verdict(thread[p].approved) \in {"approved", "denied"}
      BY <2>3, <2>typed, VerdictTyped DEF ThreadPops, IndInv, ThreadsHoldIds, Thread
    <3>2. [thread[p] EXCEPT !.pc = "insert"] \in Thread BY <2>typed DEF Thread
    <3>3. thread' \in [Threads -> Thread]
      BY <2>3, <3>2, NoThreadTyped, <1>typed DEF ThreadPops, Thread
    <3>4. pending' \in [Ids -> Kinds] /\ status' \in [Ids -> {"new", "pending", "approved", "denied"}]
      BY <2>3, <3>1, <1>typed DEF ThreadPops, Popped, Kinds
    <3> QED BY <2>3, <3>3, <3>4, <1>typed DEF ThreadPops
  <2>4. CASE ThreadInserts(p)
    <3>1. thread[p].id \in Ids /\ thread[p].approved \in BOOLEAN
      BY <2>4, <2>typed DEF ThreadInserts, IndInv, ThreadsHoldIds, Thread
    <3>2. history' \in Seq(Resolution) /\ Len(history') <= MaxHistory
      BY <2>4, <3>1, <1>typed, InsertedProperties DEF ThreadInserts
    <3> QED BY <2>4, <3>2, <1>typed, NoThreadTyped DEF ThreadInserts
  <2>5. CASE ConfigApplied(p)
    <3>1. [thread[p] EXCEPT !.pc = "pop"] \in Thread BY <2>typed DEF Thread
    <3> QED BY <2>5, <3>1, <1>typed DEF ConfigApplied, Thread
  <2> QED BY <1>5, <2>1, <2>2, <2>3, <2>4, <2>5 DEF ThreadStep
<1>6. CASE UNCHANGED vars BY <1>6, <1>typed DEF vars
<1> QED BY <1>1, <1>2, <1>3, <1>4, <1>5, <1>6 DEF Next

\* An answer is final: the queue answers only entries that still wait.
LEMMA AnswersStand ==
  ASSUME IndInv, [Next]_vars, NEW i \in Ids, status[i] \in {"approved", "denied"}
  PROVE  status'[i] = status[i]
<1>typed. TypeOK BY DEF IndInv
<1>1. i \notin Unused /\ i \notin Waiting
  BY DEF IndInv, AnsweredOnce, Unused
<1>2. ASSUME NEW id \in Unused, NEW kind, Created(id, kind) PROVE status'[i] = status[i]
  BY <1>1, <1>2, <1>typed DEF Created, TypeOK
<1>3. ASSUME NEW id \in Ids, NEW approved, ResolveNow(id, approved) PROVE status'[i] = status[i]
  BY <1>1, <1>3, <1>typed DEF ResolveNow, Popped, TypeOK
<1>4. CASE Speak \/ UNCHANGED vars BY <1>4 DEF Speak, vars
<1>5. CASE ConfigStage BY <1>5, <1>2 DEF ConfigStage
<1>6. CASE ConfigCancel BY <1>6, <1>3 DEF ConfigCancel, Waiting
<1>7. ASSUME NEW k \in Calls, CallStep(k) PROVE status'[i] = status[i]
  <2>1. CASE Confirm(k) BY <2>1, <1>2 DEF Confirm
  <2>2. CASE TimedOut(k)
    BY <2>2, <1>3 DEF TimedOut, IndInv, CallsHoldEntries, HoldsEntry
  <2>3. CASE Request(k) \/ Refused(k) \/ Allowed(k) \/ Poll(k) \/ TurnCancelled(k) \/ Executed(k)
    BY <2>3 DEF Request, Refused, Allowed, Poll, TurnCancelled, Executed
  <2> QED BY <1>7, <2>1, <2>2, <2>3 DEF CallStep
<1>8. ASSUME NEW p \in Threads, ThreadStep(p) PROVE status'[i] = status[i]
  <2>1. CASE ThreadPops(p)
    BY <2>1, <1>1, <1>typed DEF ThreadPops, Popped, TypeOK
  <2>2. CASE PanelResolves(p) \/ ConfigApply(p) \/ ThreadInserts(p) \/ ConfigApplied(p)
    BY <2>2 DEF PanelResolves, ConfigApply, ThreadInserts, ConfigApplied
  <2> QED BY <1>8, <2>1, <2>2 DEF ThreadStep
<1> QED BY <1>4, <1>5, <1>6, <1>7, <1>8 DEF Next

\* What is in the recent history with a verdict has that verdict.
LEMMA FoundMeansApproved ==
  ASSUME IndInv, NEW id, FoundApproved(id)
  PROVE  status[id] = "approved"
<1>1. DOMAIN history = 1..Len(history) /\ Len(history) \in Nat
  BY LenProperties DEF IndInv, TypeOK
<1>2. PICK i \in 1..(IF Len(history) < Window THEN Len(history) ELSE Window) :
        [id |-> id, status |-> "approved"] = history[i]
  BY DEF FoundApproved, Recent
<1>3. i \in DOMAIN history BY <1>1, WindowAssumption
<1> QED BY <1>2, <1>3 DEF IndInv, AnsweredOnce

\* Every step keeps what the calls know of their entries.
LEMMA CallsStep ==
  ASSUME IndInv, [Next]_vars PROVE CallsHoldEntries'
<1>typed. TypeOK /\ TypeOK' BY TypeStep DEF IndInv
<1>stands. \A i \in Ids : status[i] = "approved" => status'[i] = "approved"
  BY AnswersStand
<1> SUFFICES ASSUME NEW j \in Calls PROVE HoldsEntry(j)'
  BY DEF CallsHoldEntries
<1>holds. HoldsEntry(j) /\ call[j] \in Call
  BY <1>typed DEF IndInv, CallsHoldEntries, TypeOK
<1>same. ASSUME call'[j] = call[j] PROVE HoldsEntry(j)'
  BY <1>same, <1>holds, <1>stands DEF HoldsEntry
<1>none. ASSUME call'[j] = NoCall PROVE HoldsEntry(j)'
  BY <1>none DEF NoCall, HoldsEntry
<1>1. CASE Speak \/ ConfigStage \/ ConfigCancel \/ UNCHANGED vars
  BY <1>1, <1>same DEF Speak, ConfigStage, ConfigCancel, vars
<1>2. ASSUME NEW p \in Threads, ThreadStep(p) PROVE HoldsEntry(j)'
  BY <1>2, <1>same
  DEF ThreadStep, PanelResolves, ConfigApply, ThreadPops, ThreadInserts, ConfigApplied
<1>3. ASSUME NEW k \in Calls, CallStep(k) PROVE HoldsEntry(j)'
  <2> SUFFICES ASSUME k = j PROVE HoldsEntry(j)'
    <3>1. k # j => call'[j] = call[j]
      BY <1>3, <1>typed
      DEF TypeOK, CallStep, Request, Refused, Allowed, Confirm, Poll, TimedOut, Answered,
          TurnCancelled, Executed
    <3> QED BY <3>1, <1>same
  <2>1. CASE Request(j)
    BY <2>1, <1>typed DEF Request, TypeOK, HoldsEntry, NoCall
  <2>2. CASE Refused(j) \/ TurnCancelled(j) \/ Executed(j)
    BY <2>2, <1>none, <1>typed DEF Refused, TurnCancelled, Executed, TypeOK
  <2>3. CASE Allowed(j)
    BY <2>3, <1>holds, <1>typed DEF Allowed, TypeOK, HoldsEntry, Call
  <2>4. CASE Confirm(j)
    <3> PICK id \in Unused :
          call' = [call EXCEPT ![j].pc = "poll", ![j].decision = "CONFIRM", ![j].id = id]
      BY <2>4 DEF Confirm
    <3>1. id \in Ids BY DEF Unused
    <3> QED BY <3>1, <1>holds, <1>typed DEF TypeOK, HoldsEntry, Call
  <2>5. CASE Poll(j)
    <3>1. CASE FoundApproved(call[j].id)
      <4>1. status[call[j].id] = "approved" BY <3>1, FoundMeansApproved
      <4>2. call[j].id \in Ids BY <2>5, <1>holds DEF Poll, HoldsEntry
      <4>3. call'[j] = [call[j] EXCEPT !.pc = "exec"]
        BY <3>1, <2>5, <1>typed DEF Poll, Answered, TypeOK, Call
      <4> QED BY <4>1, <4>2, <4>3, <1>holds, <1>stands DEF HoldsEntry, Call
    <3>2. CASE ~FoundApproved(call[j].id)
      BY <3>2, <2>5, <1>none, <1>typed DEF Poll, Answered, TypeOK
    <3> QED BY <3>1, <3>2
  <2>6. CASE TimedOut(j)
    BY <2>6, <1>none, <1>typed DEF TimedOut, Answered, TypeOK
  <2> QED BY <1>3, <2>1, <2>2, <2>3, <2>4, <2>5, <2>6 DEF CallStep
<1> QED BY <1>1, <1>2, <1>3 DEF Next

\* Every step keeps the audit log in agreement with the verdicts.
LEMMA AuditStep ==
  ASSUME IndInv, [Next]_vars PROVE AuditAgrees'
<1>typed. TypeOK /\ TypeOK' BY TypeStep DEF IndInv
<1>agrees. AuditAgrees BY DEF IndInv
<1>stands. \A i \in Ids : status[i] = "approved" => status'[i] = "approved"
  BY AnswersStand
<1> SUFFICES ASSUME NEW i \in Ids, "approved" \in audit'[i], "approved" \notin audit[i]
             PROVE  status'[i] = "approved"
  BY <1>agrees, <1>stands DEF AuditAgrees
<1>1. CASE Speak \/ ConfigStage \/ ConfigCancel \/ UNCHANGED vars
  BY <1>1 DEF Speak, ConfigStage, ConfigCancel, vars
<1>2. ASSUME NEW p \in Threads, ThreadStep(p) PROVE FALSE
  BY <1>2 DEF ThreadStep, PanelResolves, ConfigApply, ThreadPops, ThreadInserts, ConfigApplied
<1>3. ASSUME NEW k \in Calls, CallStep(k) PROVE status'[i] = "approved"
  <2>1. CASE Confirm(k)
    <3> PICK id \in Unused : audit' = [audit EXCEPT ![id] = {"pending"}]
      BY <2>1 DEF Confirm
    <3> QED BY <1>typed DEF TypeOK
  <2>2. CASE Poll(k)
    <3>1. FoundApproved(call[k].id) /\ call[k].id = i
      BY <2>2, <1>typed DEF Poll, Answered, TypeOK
    <3> QED BY <3>1, FoundMeansApproved, <1>stands
  <2>3. CASE TimedOut(k)
    BY <2>3, <1>typed DEF TimedOut, Answered, TypeOK
  <2>4. CASE Request(k) \/ Refused(k) \/ Allowed(k) \/ TurnCancelled(k) \/ Executed(k)
    BY <2>4 DEF Request, Refused, Allowed, TurnCancelled, Executed
  <2> QED BY <1>3, <2>1, <2>2, <2>3, <2>4 DEF CallStep
<1> QED BY <1>1, <1>2, <1>3 DEF Next

\* Every step keeps the queue consistent with the history and with the threads.
LEMMA QueueStep ==
  ASSUME IndInv, [Next]_vars PROVE AnsweredOnce' /\ ThreadsOwnEntries' /\ ThreadsHoldIds'
<1> DEFINE Queue == AnsweredOnce /\ ThreadsOwnEntries /\ ThreadsHoldIds
<1>typed. TypeOK /\ TypeOK' BY TypeStep DEF IndInv
<1>queue. Queue BY DEF IndInv
<1>dom. /\ DOMAIN history = 1..Len(history) /\ Len(history) \in Nat
        /\ \A i \in DOMAIN history : history[i].id \in Ids
  <2>1. history \in Seq(Resolution) BY <1>typed DEF TypeOK
  <2>2. DOMAIN history = 1..Len(history) /\ Len(history) \in Nat BY <2>1, LenProperties
  <2>3. \A i \in 1..Len(history) : history[i] \in Resolution BY <2>1, ElementOfSeq
  <2> QED BY <2>2, <2>3 DEF Resolution
\* What waits, or is not created yet, has no place in the history and no thread.
<1>free. ASSUME NEW id \in Waiting \cup Unused
         PROVE  /\ \A i \in DOMAIN history : history[i].id # id
                /\ \A p \in Threads : thread[p].pc = "insert" => thread[p].id # id
  <2>1. id \in Ids /\ status[id] \in {"new", "pending"}
    BY <1>queue DEF AnsweredOnce, Waiting, Unused
  <2>2. \A i \in DOMAIN history : history[i].status \in {"approved", "denied"}
    <3> TAKE i \in DOMAIN history
    <3>1. history[i] \in Resolution BY <1>typed, <1>dom, ElementOfSeq DEF TypeOK
    <3> QED BY <3>1 DEF Resolution
  <2>3. \A p \in Threads : Verdict(thread[p].approved) \in {"approved", "denied"}
    BY <1>typed, VerdictTyped DEF TypeOK, Thread
  <2> QED BY <2>1, <2>2, <2>3, <1>queue DEF AnsweredOnce, ThreadsOwnEntries
\* Steps that leave queue and threads alone, and the creation of an entry.
<1>same. ASSUME UNCHANGED <<pending, status, history, thread>> PROVE Queue'
  BY <1>same, <1>queue
  DEF AnsweredOnce, ThreadsOwnEntries, ThreadsHoldIds, Waiting
<1>created. ASSUME NEW id \in Unused, NEW kind, kind # "none", Created(id, kind),
                   UNCHANGED <<history, thread>>
            PROVE Queue'
  <2>1. id \in Ids BY DEF Unused
  <2>2. \A i \in Ids : i \in Waiting' <=> status'[i] = "pending"
    BY <1>created, <1>queue, <1>typed, <2>1 DEF Created, Waiting, AnsweredOnce, TypeOK
  <2>3. \A i \in Ids : i # id => status'[i] = status[i]
    BY <1>created, <1>typed DEF Created, TypeOK
  <2>4. AnsweredOnce' BY <2>2, <2>3, <1>free, <1>dom, <1>created, <1>queue DEF AnsweredOnce
  <2>5. ThreadsOwnEntries' /\ ThreadsHoldIds'
    BY <2>3, <1>free, <1>created, <1>queue DEF ThreadsOwnEntries, ThreadsHoldIds
  <2> QED BY <2>4, <2>5
\* The insertion of an entry that is not in the history yet.
<1>inserted. ASSUME NEW id \in Ids, NEW approved \in BOOLEAN,
                    \A i \in DOMAIN history : history[i].id # id,
                    \A i \in DOMAIN history : status'[history[i].id] = history[i].status,
                    status'[id] = Verdict(approved),
                    history' = Inserted(history, id, approved)
             PROVE  /\ \A i, j \in DOMAIN history' : history'[i].id = history'[j].id => i = j
                    /\ \A i \in DOMAIN history' : history'[i].status = status'[history'[i].id]
                    /\ \A i \in DOMAIN history' :
                         \/ history'[i].id = id
                         \/ \E j \in DOMAIN history : history'[i].id = history[j].id
  <2>1. /\ history' \in Seq(Resolution) /\ Len(history') \in Nat \ {0}
        /\ history'[1] = [id |-> id, status |-> Verdict(approved)]
        /\ \A i \in 2..Len(history') : i - 1 \in DOMAIN history /\ history'[i] = history[i - 1]
    BY <1>inserted, <1>typed, <1>dom, InsertedProperties DEF TypeOK
  <2>2. DOMAIN history' = {1} \cup 2..Len(history')
    <3>1. DOMAIN history' = 1..Len(history') BY <2>1, LenProperties
    <3> QED BY <3>1, <2>1
  <2>3. ASSUME NEW i \in DOMAIN history', NEW j \in DOMAIN history',
               history'[i].id = history'[j].id
        PROVE  i = j
    <3>1. CASE i = 1 /\ j # 1 BY <3>1, <2>1, <2>2, <2>3, <1>inserted
    <3>2. CASE i # 1 /\ j = 1 BY <3>2, <2>1, <2>2, <2>3, <1>inserted
    <3>3. CASE i # 1 /\ j # 1
      <4>1. /\ i \in 2..Len(history') /\ j \in 2..Len(history')
            /\ history[i - 1].id = history[j - 1].id
        BY <3>3, <2>1, <2>2, <2>3
      <4>2. i - 1 = j - 1 BY <4>1, <2>1, <1>queue DEF AnsweredOnce
      <4> QED BY <4>1, <4>2
    <3> QED BY <3>1, <3>2, <3>3
  <2>4. ASSUME NEW i \in DOMAIN history'
        PROVE  /\ history'[i].status = status'[history'[i].id]
               /\ \/ history'[i].id = id
                  \/ \E j \in DOMAIN history : history'[i].id = history[j].id
    <3>1. CASE i = 1 BY <3>1, <2>1, <1>inserted
    <3>2. CASE i \in 2..Len(history') BY <3>2, <2>1, <1>inserted
    <3> QED BY <3>1, <3>2, <2>2
  <2> QED BY <2>3, <2>4
\* A verdict on the event loop: both halves of resolve at once.
<1>resolved. ASSUME NEW id \in Ids, ResolveNow(id, FALSE), UNCHANGED thread PROVE Queue'
  <2>1. CASE id \notin Waiting
    BY <2>1, <1>resolved, <1>same DEF ResolveNow
  <2>2. CASE id \in Waiting
    <3>1. Popped(id, FALSE) /\ history' = Inserted(history, id, FALSE)
      BY <2>2, <1>resolved DEF ResolveNow
    <3>2. /\ status'[id] = Verdict(FALSE)
          /\ \A i \in Ids : i # id => status'[i] = status[i] /\ (i \in Waiting' <=> i \in Waiting)
          /\ id \notin Waiting'
      BY <3>1, <1>typed DEF Popped, Waiting, TypeOK
    <3>3. Verdict(FALSE) # "pending" BY DEF Verdict
    <3>4. \A i \in DOMAIN history : history[i].id # id /\ status'[history[i].id] = history[i].status
      BY <2>2, <3>2, <1>free, <1>dom, <1>queue DEF AnsweredOnce
    <3>5. AnsweredOnce'
      <4>1. \A i \in Ids : i \in Waiting' <=> status'[i] = "pending"
        BY <3>2, <3>3, <1>queue DEF AnsweredOnce
      <4>2. \A i \in DOMAIN history : history[i].id # id BY <3>4
      <4>3. \A i \in DOMAIN history : status'[history[i].id] = history[i].status BY <3>4
      <4>4. /\ \A i, j \in DOMAIN history' : history'[i].id = history'[j].id => i = j
            /\ \A i \in DOMAIN history' : history'[i].status = status'[history'[i].id]
        BY <3>1, <3>2, <4>2, <4>3, <1>inserted
      <4> QED BY <4>1, <4>4 DEF AnsweredOnce
    <3>6. \A i \in DOMAIN history' : \/ history'[i].id = id
                                     \/ \E j \in DOMAIN history : history'[i].id = history[j].id
      BY <3>1, <3>2, <3>4, <1>inserted
    <3>7. ThreadsOwnEntries' /\ ThreadsHoldIds'
      BY <2>2, <3>2, <3>6, <1>free, <1>resolved, <1>queue DEF ThreadsOwnEntries, ThreadsHoldIds
    <3> QED BY <3>5, <3>7
  <2> QED BY <2>1, <2>2
<1>1. CASE Speak \/ UNCHANGED vars BY <1>1, <1>same DEF Speak, vars
<1>2. CASE ConfigStage BY <1>2, <1>created DEF ConfigStage
<1>3. CASE ConfigCancel BY <1>3, <1>resolved DEF ConfigCancel, Waiting
<1>4. ASSUME NEW k \in Calls, CallStep(k) PROVE Queue'
  <2>1. CASE Confirm(k) BY <2>1, <1>created DEF Confirm
  <2>2. CASE TimedOut(k)
    <3>1. call[k].id \in Ids BY <2>2 DEF TimedOut, IndInv, CallsHoldEntries, HoldsEntry
    <3> QED BY <3>1, <2>2, <1>resolved DEF TimedOut
  <2>3. CASE Request(k) \/ Refused(k) \/ Allowed(k) \/ Poll(k) \/ TurnCancelled(k) \/ Executed(k)
    BY <2>3, <1>same DEF Request, Refused, Allowed, Poll, TurnCancelled, Executed
  <2> QED BY <1>4, <2>1, <2>2, <2>3 DEF CallStep
<1>5. ASSUME NEW p \in Threads, ThreadStep(p) PROVE Queue'
  <2>typed. thread[p] \in Thread BY <1>typed DEF TypeOK
  <2>1. CASE PanelResolves(p) \/ ConfigApply(p) \/ ConfigApplied(p)
    <3>1. /\ UNCHANGED <<pending, status, history>>
          /\ \A q \in Threads : thread'[q] # thread[q] =>
               thread'[q].pc # "insert" /\ thread'[q].id \in Ids
      <4>1. CASE PanelResolves(p)
        BY <4>1, <1>typed DEF PanelResolves, TypeOK
      <4>2. CASE ConfigApply(p)
        BY <4>2, <1>typed DEF ConfigApply, TypeOK, Waiting
      <4>3. CASE ConfigApplied(p)
        BY <4>3, <2>typed, <1>typed, <1>queue DEF ConfigApplied, TypeOK, Thread, ThreadsHoldIds
      <4> QED BY <2>1, <4>1, <4>2, <4>3
    <3> QED BY <3>1, <1>queue DEF AnsweredOnce, ThreadsOwnEntries, ThreadsHoldIds, Waiting
  <2>2. CASE ThreadPops(p)
    <3>1. CASE thread[p].id \notin Waiting
      <4>1. /\ UNCHANGED <<pending, status, history>>
            /\ \A q \in Threads : thread'[q] = thread[q] \/ thread'[q].pc = "idle"
        BY <2>2, <3>1, <1>typed DEF ThreadPops, NoThread, TypeOK
      <4> QED BY <4>1, <1>queue DEF AnsweredOnce, ThreadsOwnEntries, ThreadsHoldIds, Waiting
    <3>2. CASE thread[p].id \in Waiting
      <4> DEFINE id == thread[p].id
      <4>1. /\ id \in Ids /\ id \notin Waiting'
            /\ status'[id] = Verdict(thread[p].approved)
            /\ \A i \in Ids : i # id => status'[i] = status[i] /\ (i \in Waiting' <=> i \in Waiting)
            /\ UNCHANGED history
        BY <2>2, <3>2, <1>typed DEF ThreadPops, Popped, Waiting, TypeOK
      <4>2. /\ thread'[p].pc = "insert" /\ thread'[p].id = id
            /\ thread'[p].approved = thread[p].approved
            /\ \A q \in Threads : q # p => thread'[q] = thread[q]
        BY <2>2, <3>2, <1>typed DEF ThreadPops, TypeOK, Thread
      <4>3. Verdict(thread[p].approved) # "pending" BY DEF Verdict
      <4>4. /\ \A i \in DOMAIN history : history[i].id # id
            /\ \A q \in Threads : thread[q].pc = "insert" => thread[q].id # id
        BY <3>2, <1>free
      <4> HIDE DEF id
      <4>5. AnsweredOnce' BY <4>1, <4>3, <4>4, <1>dom, <1>queue DEF AnsweredOnce
      <4>6. ThreadsOwnEntries' /\ ThreadsHoldIds'
        BY <4>1, <4>2, <4>4, <1>queue DEF ThreadsOwnEntries, ThreadsHoldIds
      <4> QED BY <4>5, <4>6
    <3> QED BY <3>1, <3>2
  <2>3. CASE ThreadInserts(p)
    <3> DEFINE id == thread[p].id
    <3>1. /\ id \in Ids /\ thread[p].approved \in BOOLEAN
          /\ status[id] = Verdict(thread[p].approved)
          /\ \A i \in DOMAIN history : history[i].id # id
          /\ \A q \in Threads : q # p /\ thread[q].pc = "insert" => thread[q].id # id
      BY <2>3, <2>typed, <1>queue DEF ThreadInserts, ThreadsOwnEntries, ThreadsHoldIds, Thread
    <3>2. /\ UNCHANGED <<pending, status>>
          /\ history' = Inserted(history, id, thread[p].approved)
          /\ \A q \in Threads : thread'[q] = IF q = p THEN NoThread ELSE thread[q]
      BY <2>3, <1>typed DEF ThreadInserts, TypeOK
    <3> HIDE DEF id
    <3>3. \A i \in DOMAIN history : status'[history[i].id] = history[i].status
      BY <3>2, <1>queue DEF AnsweredOnce
    <3>4. /\ \A i, j \in DOMAIN history' : history'[i].id = history'[j].id => i = j
          /\ \A i \in DOMAIN history' : history'[i].status = status'[history'[i].id]
          /\ \A i \in DOMAIN history' :
               \/ history'[i].id = id
               \/ \E j \in DOMAIN history : history'[i].id = history[j].id
      BY <3>1, <3>2, <3>3, <1>inserted
    <3>5. AnsweredOnce' BY <3>2, <3>4, <1>queue DEF AnsweredOnce, Waiting
    <3>6. ThreadsOwnEntries' /\ ThreadsHoldIds'
      BY <3>1, <3>2, <3>4, <1>queue DEF ThreadsOwnEntries, ThreadsHoldIds, NoThread
    <3> QED BY <3>5, <3>6
  <2> QED BY <1>5, <2>1, <2>2, <2>3 DEF ThreadStep
<1> QED BY <1>1, <1>2, <1>3, <1>4, <1>5 DEF Next

-------------------------------------------------------------------------------
(* The theorems.                                                              *)

\* It holds when Home Assistant starts.
LEMMA InitInv == Init => IndInv
<1> SUFFICES ASSUME Init PROVE IndInv OBVIOUS
<1> USE DEF Init
<1>1. TypeOK
  <2>1. history \in Seq(Resolution) /\ Len(history) <= MaxHistory
    BY EmptySeq, WindowAssumption
  <2> QED BY <2>1, NoCallTyped, NoThreadTyped DEF TypeOK, Kinds
<1>2. AnsweredOnce BY EmptySeq DEF AnsweredOnce, Waiting
<1>3. CallsHoldEntries BY DEF CallsHoldEntries, HoldsEntry, NoCall
<1>4. ThreadsHoldIds /\ ThreadsOwnEntries
  BY DEF ThreadsHoldIds, ThreadsOwnEntries, NoThread
<1>5. AuditAgrees BY DEF AuditAgrees
<1> QED BY <1>1, <1>2, <1>3, <1>4, <1>5 DEF IndInv

\* IndInv holds in every state of the gate, the queue and its threads.
THEOREM Invariant == Spec => []IndInv
<1>1. IndInv /\ [Next]_vars => IndInv'
  BY TypeStep, CallsStep, QueueStep, AuditStep DEF IndInv
<1> QED BY InitInv, <1>1, PTL DEF Spec

\* The types are right in every state: in particular the history keeps its limit.
THEOREM TypeCorrect == Spec => []TypeOK
<1>1. IndInv => TypeOK BY DEF IndInv
<1> QED BY Invariant, <1>1, PTL

\* execute_kernel_tool runs a tool that needed confirmation only if resolve found the
\* call's own entry waiting and approved it.
THEOREM NothingRunsUnapproved == Spec => []ExecutedMeansApproved
<1>1. IndInv => ExecutedMeansApproved
  BY DEF IndInv, CallsHoldEntries, HoldsEntry, ExecutedMeansApproved
<1> QED BY Invariant, <1>1, PTL

\* approval_store.resolve gives every entry one answer, whoever races for it.
THEOREM EveryEntryAnsweredOnce == Spec => []AnsweredOnce
<1>1. IndInv => AnsweredOnce BY DEF IndInv
<1> QED BY Invariant, <1>1, PTL

\* What _enforce_policy_gate has audited as approved was approved.
THEOREM AuditTrue == Spec => []AuditAgrees
<1>1. IndInv => AuditAgrees BY DEF IndInv
<1> QED BY Invariant, <1>1, PTL

\* A tool approval the panel shows belongs to a call that still waits for it, unless
\* that call was cancelled: _wait_for_approval leaves nothing behind.
THEOREM NoOrphans == Spec => []PendingHasCaller
<1>1. Init => PendingHasCaller BY DEF Init, PendingHasCaller
<1>2. IndInv /\ PendingHasCaller /\ [Next]_vars => PendingHasCaller'
  <2> SUFFICES ASSUME IndInv, PendingHasCaller, [Next]_vars, NEW i \in Ids,
                      i \notin orphans', pending'[i] = "tool_approval"
               PROVE  \E k \in Calls : call'[k].pc = "poll" /\ call'[k].id = i
    BY DEF PendingHasCaller
  <2>typed. TypeOK /\ TypeOK' BY TypeStep DEF IndInv
  <2>kept. i \notin orphans
    BY <2>typed DEF Next, vars, Speak, ConfigStage, ConfigCancel, CallStep, Request, Refused,
       Allowed, Confirm, Poll, TimedOut, TurnCancelled, Executed, ThreadStep, PanelResolves,
       ConfigApply, ThreadPops, ThreadInserts, ConfigApplied
  <2>same. ASSUME pending[i] = "tool_approval", UNCHANGED call
           PROVE  \E k \in Calls : call'[k].pc = "poll" /\ call'[k].id = i
    BY <2>same, <2>kept DEF PendingHasCaller
  <2>1. CASE Speak \/ UNCHANGED vars BY <2>1, <2>same DEF Speak, vars
  <2>2. CASE ConfigStage
    BY <2>2, <2>same, <2>typed DEF ConfigStage, Created, TypeOK
  <2>3. CASE ConfigCancel
    BY <2>3, <2>same, <2>typed DEF ConfigCancel, ResolveNow, Popped, TypeOK
  <2>4. ASSUME NEW p \in Threads, ThreadStep(p)
        PROVE  \E k \in Calls : call'[k].pc = "poll" /\ call'[k].id = i
    BY <2>4, <2>same, <2>typed
    DEF ThreadStep, PanelResolves, ConfigApply, ThreadPops, Popped, ThreadInserts, ConfigApplied, TypeOK
  <2>5. ASSUME NEW k \in Calls, CallStep(k)
        PROVE  \E q \in Calls : call'[q].pc = "poll" /\ call'[q].id = i
    <3>1. CASE Confirm(k)
      <4> PICK id \in Unused :
            /\ Created(id, "tool_approval")
            /\ call' = [call EXCEPT ![k].pc = "poll", ![k].decision = "CONFIRM", ![k].id = id]
        BY <3>1 DEF Confirm
      <4>1. call'[k].pc = "poll" /\ call'[k].id = id BY <2>typed DEF TypeOK, Call
      <4>2. CASE i = id BY <4>1, <4>2
      <4>3. CASE i # id
        <5>1. pending[i] = "tool_approval" BY <4>3, <2>typed DEF Created, TypeOK
        <5>2. PICK q \in Calls : call[q].pc = "poll" /\ call[q].id = i
          BY <5>1, <2>kept DEF PendingHasCaller
        <5>3. call[k].pc = "pre" BY <3>1 DEF Confirm
        <5> QED BY <5>2, <5>3, <2>typed DEF TypeOK
      <4> QED BY <4>2, <4>3
    <3>2. CASE Poll(k) \/ TimedOut(k)
      <4>1. /\ pending[i] = "tool_approval" /\ i # call[k].id
            /\ \A q \in Calls : q # k => call'[q] = call[q]
        <5>0. call \in [Calls -> Call] /\ pending \in [Ids -> Kinds] BY <2>typed DEF TypeOK
        <5>1. \A q \in Calls : q # k => call'[q] = call[q]
          BY <3>2, <5>0 DEF Poll, TimedOut, Answered
        <5>2. CASE Poll(k)
          <6>1. pending' = pending /\ call[k].id \notin Waiting BY <5>2 DEF Poll
          <6> QED BY <5>1, <6>1 DEF Waiting
        <5>3. CASE TimedOut(k)
          <6>1. IF call[k].id \in Waiting THEN pending' = [pending EXCEPT ![call[k].id] = "none"]
                ELSE pending' = pending
            BY <5>3 DEF TimedOut, ResolveNow, Popped
          <6> QED BY <5>0, <5>1, <6>1 DEF Waiting
        <5> QED BY <3>2, <5>2, <5>3
      <4> QED BY <4>1, <2>kept DEF PendingHasCaller
    <3>3. CASE Request(k) \/ Refused(k) \/ Allowed(k) \/ Executed(k)
      <4>1. /\ pending[i] = "tool_approval" /\ call[k].pc # "poll"
            /\ \A q \in Calls : q # k => call'[q] = call[q]
        BY <3>3, <2>typed DEF Request, Refused, Allowed, Executed, TypeOK
      <4> QED BY <4>1, <2>kept DEF PendingHasCaller
    <3>4. CASE TurnCancelled(k)
      <4>1. /\ pending[i] = "tool_approval"
            /\ \A q \in Calls : q # k => call'[q] = call[q]
        BY <3>4, <2>typed DEF TurnCancelled, TypeOK
      <4>2. ~(call[k].pc = "poll" /\ call[k].id = i) BY <3>4 DEF TurnCancelled
      <4> QED BY <4>1, <4>2, <2>kept DEF PendingHasCaller
    <3> QED BY <2>5, <3>1, <3>2, <3>3, <3>4 DEF CallStep
  <2> QED BY <2>1, <2>2, <2>3, <2>4, <2>5 DEF Next
<1> QED BY Invariant, <1>1, <1>2, PTL DEF Spec

-------------------------------------------------------------------------------
(* The refinement.                                                            *)

\* A waiting call is the only one to wait for its entry, and no call has gone on by it.
OwnEntries ==
  /\ \A k \in Calls : call[k].pc = "poll" =>
       status[call[k].id] # "new" /\ "approved" \notin audit[call[k].id]
  /\ \A k, l \in Calls :
       call[k].pc = "poll" /\ call[l].pc = "poll" /\ call[k].id = call[l].id => k = l

\* An entry that was created stays created.
LEMMA NeverNewAgain ==
  ASSUME IndInv, [Next]_vars, NEW i \in Ids, status[i] # "new"
  PROVE  status'[i] # "new"
<1>typed. TypeOK BY DEF IndInv
<1>1. ASSUME NEW id, NEW kind, Created(id, kind) PROVE status'[i] # "new"
  BY <1>1, <1>typed DEF Created, TypeOK
<1>2. ASSUME NEW id, NEW approved, Popped(id, approved) PROVE status'[i] # "new"
  BY <1>2, <1>typed DEF Popped, Verdict, TypeOK
<1>3. ASSUME NEW id, NEW approved, ResolveNow(id, approved) PROVE status'[i] # "new"
  BY <1>2, <1>3 DEF ResolveNow
<1>4. CASE Speak \/ UNCHANGED vars BY <1>4 DEF Speak, vars
<1>5. CASE ConfigStage BY <1>1, <1>5 DEF ConfigStage
<1>6. CASE ConfigCancel BY <1>3, <1>6 DEF ConfigCancel
<1>7. ASSUME NEW k \in Calls, CallStep(k) PROVE status'[i] # "new"
  BY <1>1, <1>3, <1>7 DEF CallStep, Request, Refused, Allowed, Confirm, Poll, TimedOut,
                          TurnCancelled, Executed
<1>8. ASSUME NEW p \in Threads, ThreadStep(p) PROVE status'[i] # "new"
  BY <1>2, <1>8 DEF ThreadStep, PanelResolves, ConfigApply, ThreadPops, ThreadInserts,
                    ConfigApplied
<1> QED BY <1>4, <1>5, <1>6, <1>7, <1>8 DEF Next

\* A step of a call leaves the others where they are.
LEMMA OthersStay ==
  ASSUME IndInv, NEW k \in Calls, CallStep(k)
  PROVE  \A l \in Calls \ {k} : call'[l] = call[l]
  BY DEF IndInv, TypeOK, CallStep, Request, Refused, Allowed, Confirm, Poll, TimedOut, Answered,
         TurnCancelled, Executed

\* Every step keeps the entries apart.
LEMMA OwnStep == IndInv /\ OwnEntries /\ [Next]_vars => OwnEntries'
<1> SUFFICES ASSUME IndInv, OwnEntries, [Next]_vars PROVE OwnEntries' OBVIOUS
<1>typed. TypeOK BY DEF IndInv
<1>ids. \A k \in Calls : call[k].pc = "poll" => call[k].id \in Ids
  BY DEF IndInv, CallsHoldEntries, HoldsEntry
<1>old. \A i \in Ids : status[i] # "new" => status'[i] # "new" BY NeverNewAgain
<1>1. CASE UNCHANGED <<call, audit>> BY <1>1, <1>ids, <1>old DEF OwnEntries
<1>2. ASSUME NEW k \in Calls, CallStep(k) PROVE OwnEntries'
  <2>others. \A l \in Calls \ {k} : call'[l] = call[l] BY <1>2, OthersStay
  <2>1. CASE Confirm(k)
    <3> PICK id \in Unused :
          /\ Created(id, "tool_approval")
          /\ call' = [call EXCEPT ![k].pc = "poll", ![k].decision = "CONFIRM", ![k].id = id]
          /\ audit' = [audit EXCEPT ![id] = {"pending"}]
      BY <2>1 DEF Confirm
    <3>1. id \in Ids /\ status[id] = "new" BY DEF Unused
    <3>2. /\ call'[k].pc = "poll" /\ call'[k].id = id
          /\ status'[id] = "pending" /\ audit'[id] = {"pending"}
          /\ \A i \in Ids \ {id} : audit'[i] = audit[i]
      BY <1>typed, <3>1 DEF Created, TypeOK, Call
    <3>3. \A l \in Calls \ {k} : call[l].pc = "poll" => call[l].id # id
      BY <3>1 DEF OwnEntries
    <3>4. ASSUME NEW l \in Calls, call'[l].pc = "poll", l # k
          PROVE  /\ call[l].pc = "poll" /\ call'[l].id = call[l].id /\ call[l].id \in Ids \ {id}
                 /\ status'[call[l].id] # "new" /\ audit'[call[l].id] = audit[call[l].id]
      <4>1. call[l].pc = "poll" /\ call'[l].id = call[l].id /\ call[l].id # id
        BY <2>others, <3>3, <3>4
      <4>2. call[l].id \in Ids BY <1>ids, <4>1
      <4>3. status[call[l].id] # "new" BY <4>1 DEF OwnEntries
      <4>4. status'[call[l].id] # "new" BY <1>old, <4>2, <4>3
      <4>5. audit'[call[l].id] = audit[call[l].id] BY <3>2, <4>1, <4>2
      <4> QED BY <4>1, <4>2, <4>4, <4>5
    <3>5. ASSUME NEW l \in Calls, call'[l].pc = "poll"
          PROVE  status'[call'[l].id] # "new" /\ "approved" \notin audit'[call'[l].id]
      <4>1. CASE l = k BY <3>2, <4>1
      <4>2. CASE l # k
        <5>1. /\ call[l].pc = "poll" /\ call'[l].id = call[l].id
              /\ status'[call[l].id] # "new" /\ audit'[call[l].id] = audit[call[l].id]
          BY <3>4, <3>5, <4>2
        <5>2. "approved" \notin audit[call[l].id] BY <5>1 DEF OwnEntries
        <5> QED BY <5>1, <5>2
      <4> QED BY <4>1, <4>2
    <3>6. ASSUME NEW l \in Calls, NEW m \in Calls, call'[l].pc = "poll", call'[m].pc = "poll",
                 call'[l].id = call'[m].id
          PROVE  l = m
      <4>1. CASE l = k \/ m = k
        <5>1. ASSUME l = k, m # k PROVE FALSE
          <6>1. call'[m].id \in Ids \ {id} BY <3>4, <3>6, <5>1
          <6> QED BY <3>2, <3>6, <5>1, <6>1
        <5>2. ASSUME m = k, l # k PROVE FALSE
          <6>1. call'[l].id \in Ids \ {id} BY <3>4, <3>6, <5>2
          <6> QED BY <3>2, <3>6, <5>2, <6>1
        <5> QED BY <4>1, <5>1, <5>2
      <4>2. CASE l # k /\ m # k
        <5>1. call[l].pc = "poll" /\ call[m].pc = "poll" /\ call[l].id = call[m].id
          BY <3>4, <3>6, <4>2
        <5> QED BY <5>1 DEF OwnEntries
      <4> QED BY <4>1, <4>2
    <3> QED BY <3>5, <3>6 DEF OwnEntries
  <2>2. CASE ~Confirm(k)
    <3>1. call'[k].pc # "poll"
      <4>0. CASE Request(k) BY <1>typed, <4>0, NoCallTyped DEF Request, TypeOK, Call
      <4>1. CASE Refused(k) \/ TurnCancelled(k) \/ Executed(k)
        <5>1. call'[k] = NoCall
          BY <1>typed, <4>1 DEF Refused, TurnCancelled, Executed, TypeOK
        <5> QED BY <5>1 DEF NoCall
      <4>2. CASE Allowed(k) BY <1>typed, <4>2 DEF Allowed, TypeOK, Call
      <4>3. ASSUME NEW approved, Answered(k, approved) PROVE call'[k].pc # "poll"
        BY <1>typed, <4>3 DEF Answered, NoCall, TypeOK, Call
      <4> QED BY <1>2, <2>2, <4>0, <4>1, <4>2, <4>3 DEF CallStep, Poll, TimedOut
    <3>2. \A i \in Ids : i # call[k].id \/ call[k].pc # "poll" => audit'[i] = audit[i]
      BY <1>2, <1>typed, <2>2 DEF CallStep, Request, Refused, Allowed, Poll, TimedOut, Answered,
           TurnCancelled, Executed, TypeOK
    <3> QED BY <1>ids, <1>old, <2>others, <3>1, <3>2 DEF OwnEntries
  <2> QED BY <2>1, <2>2
<1>3. CASE Speak \/ ConfigStage \/ ConfigCancel \/ (\E p \in Threads : ThreadStep(p))
           \/ UNCHANGED vars
  BY <1>1, <1>3 DEF Speak, ConfigStage, ConfigCancel, ThreadStep, PanelResolves, ConfigApply,
                    ThreadPops, ThreadInserts, ConfigApplied, vars
<1> QED BY <1>2, <1>3 DEF Next

\* A call, seen from outside.
Asked(x) == IF x.pc = "poll" THEN x.id ELSE NoId
Acts(x) == IF x.pc = "exec" /\ x.decision = "CONFIRM" THEN x.id ELSE NoId
Asking == [k \in Calls |-> Asked(call[k])]
Running == [k \in Calls |-> Acts(call[k])]
Granted == {i \in Ids : "approved" \in audit[i]}

\* An idle call asks nothing and does not act.
LEMMA UnaskedCall == Asked(NoCall) = NoId /\ Acts(NoCall) = NoId
BY DEF Asked, Acts, NoCall

\* When one call moves, the others are seen as before.
LEMMA Seen ==
  ASSUME NEW k \in Calls, \A l \in Calls \ {k} : call'[l] = call[l]
  PROVE  /\ Asking' = [Asking EXCEPT ![k] = Asked(call'[k])]
         /\ Running' = [Running EXCEPT ![k] = Acts(call'[k])]
<1>1. /\ Asking' = [l \in Calls |-> Asked(call'[l])]
      /\ Running' = [l \in Calls |-> Acts(call'[l])]
  BY DEF Asking, Running, Asked, Acts
<1> QED BY <1>1 DEF Asking, Running

\* What is neither asked, answered nor granted is not seen.
LEMMA Unseen ==
  ASSUME status' = status, Asking' = Asking, Running' = Running, Granted' = Granted
  PROVE  UNCHANGED Service!vars
BY DEF Asking, Running, Granted, Asked, Acts, Service!vars

\* An answer to an entry that waits, with all calls where they are.
LEMMA Resolved ==
  ASSUME NEW i \in Ids, NEW approved \in BOOLEAN, status[i] = "pending",
         status' = [status EXCEPT ![i] = Verdict(approved)], UNCHANGED <<call, audit>>
  PROVE  Service!Next
<1>1. Asking' = Asking /\ Running' = Running /\ Granted' = Granted
  BY DEF Asking, Running, Granted, Asked, Acts
<1>2. Service!Answer(i, Verdict(approved))
  BY <1>1 DEF Asking, Running, Granted, Asked, Acts, Service!Answer
<1> QED BY <1>2, VerdictTyped DEF Service!Next

\* A call that stops waiting without an approval.
LEMMA Leaves ==
  ASSUME IndInv, NEW k \in Calls, call[k].pc = "poll", call'[k] = NoCall,
         \A l \in Calls \ {k} : call'[l] = call[l], Granted' = Granted,
         \/ status' = status
         \/ status[call[k].id] = "pending" /\ status' = [status EXCEPT ![call[k].id] = "denied"]
  PROVE  Service!Next
<1>1. call[k].id \in Ids BY DEF IndInv, CallsHoldEntries, HoldsEntry
<1>2. Asking[k] = call[k].id /\ Asking[k] # NoId /\ Running[k] = NoId
  BY <1>1, NoIdAssumption DEF Asking, Asked, Running, Acts
<1>3. Asking' = [Asking EXCEPT ![k] = NoId] /\ Running' = Running
  <2>1. Asked(NoCall) = NoId /\ Acts(NoCall) = NoId BY UnaskedCall
  <2>2. Asking' = [Asking EXCEPT ![k] = NoId] /\ Running' = [Running EXCEPT ![k] = NoId]
    BY <2>1, Seen
  <2> QED BY <1>2, <2>2 DEF Running
<1>4. CASE status' = status
  <2>1. Service!GiveUp(k, FALSE)
    BY <1>2, <1>3, <1>4 DEF Asking, Running, Granted, Asked, Acts, Service!GiveUp
  <2> QED BY <2>1 DEF Service!Next
<1>5. CASE status[call[k].id] = "pending" /\ status' = [status EXCEPT ![call[k].id] = "denied"]
  <2>1. Service!GiveUp(k, TRUE)
    BY <1>2, <1>3, <1>5 DEF Asking, Running, Granted, Asked, Acts, Service!GiveUp
  <2> QED BY <2>1 DEF Service!Next
<1> QED BY <1>4, <1>5

\* A call that is over has finished, if it ran by an approval.
LEMMA Finishes ==
  ASSUME NEW k \in Calls, call[k].pc # "poll", call'[k] = NoCall,
         \A l \in Calls \ {k} : call'[l] = call[l], UNCHANGED <<status, audit>>
  PROVE  Service!Next \/ UNCHANGED Service!vars
<1>1. Granted' = Granted BY DEF Granted
<1>2. Asking' = Asking /\ Running' = [Running EXCEPT ![k] = NoId]
  <2>1. Asked(NoCall) = NoId /\ Acts(NoCall) = NoId BY UnaskedCall
  <2>2. Asking' = [Asking EXCEPT ![k] = NoId] /\ Running' = [Running EXCEPT ![k] = NoId]
    BY <2>1, Seen
  <2>3. Asking[k] = NoId BY DEF Asking, Asked
  <2> QED BY <2>2, <2>3 DEF Asking
<1>3. CASE Running[k] = NoId
  <2>1. Running' = Running BY <1>2, <1>3 DEF Running
  <2> QED BY <1>1, <1>2, <2>1, Unseen
<1>4. CASE Running[k] # NoId
  <2>1. Service!Finish(k)
    BY <1>1, <1>2, <1>4 DEF Asking, Running, Granted, Asked, Acts, Service!Finish
  <2> QED BY <2>1 DEF Service!Next
<1> QED BY <1>3, <1>4

\* Each step of a call is one of the service, or not seen.
LEMMA ServiceCall ==
  ASSUME IndInv, OwnEntries, NEW k \in Calls, CallStep(k)
  PROVE  Service!Next \/ UNCHANGED Service!vars
<1>typed. TypeOK BY DEF IndInv
<1>others. \A l \in Calls \ {k} : call'[l] = call[l] BY OthersStay
<1>1. CASE Request(k) \/ Allowed(k)
  <2>1. /\ call[k].pc \in {"idle", "pre"} /\ Asked(call'[k]) = NoId /\ Acts(call'[k]) = NoId
        /\ UNCHANGED <<status, audit>>
    <3>typed. call \in [Calls -> Call] BY <1>typed DEF TypeOK
    <3>1. CASE Request(k)
      <4> PICK t \in Tools : call' = [call EXCEPT ![k] = [NoCall EXCEPT !.pc = "pre", !.tool = t]]
        BY <3>1 DEF Request
      <4>1. call'[k] = [NoCall EXCEPT !.pc = "pre", !.tool = t] BY <3>typed
      <4>2. call'[k].pc = "pre" BY <4>1 DEF NoCall
      <4>3. call[k].pc = "idle" /\ UNCHANGED <<status, audit>> BY <3>1 DEF Request
      <4> QED BY <4>2, <4>3 DEF Asked, Acts
    <3>2. CASE Allowed(k)
      <4>1. /\ call' = [call EXCEPT ![k].pc = "exec", ![k].decision = "ALLOW"]
            /\ call[k].pc = "pre" /\ UNCHANGED <<status, audit>>
        BY <3>2 DEF Allowed
      <4>2. call[k] \in Call BY <3>typed
      <4>3. call'[k].pc = "exec" /\ call'[k].decision = "ALLOW"
        BY <3>typed, <4>1, <4>2 DEF Call
      <4> QED BY <4>1, <4>3 DEF Asked, Acts
    <3> QED BY <1>1, <3>1, <3>2
  <2>2. Asking' = Asking /\ Running' = Running /\ Granted' = Granted
    BY <1>others, <2>1, Seen DEF Asking, Running, Granted, Asked, Acts
  <2> QED BY <2>1, <2>2, Unseen
<1>2. CASE Refused(k) \/ Executed(k)
  BY <1>2, <1>typed, <1>others, Finishes DEF Refused, Executed, TypeOK
<1>3. CASE TurnCancelled(k)
  <2>1. call'[k] = NoCall /\ UNCHANGED <<status, audit>>
    BY <1>3, <1>typed DEF TurnCancelled, TypeOK
  <2>2. CASE call[k].pc = "poll"
    <3>1. Granted' = Granted BY <2>1 DEF Granted
    <3> QED BY <1>others, <2>1, <2>2, <3>1, Leaves
  <2>3. CASE call[k].pc # "poll" BY <1>others, <2>1, <2>3, Finishes
  <2> QED BY <2>2, <2>3
<1>4. CASE Confirm(k)
  <2> PICK id \in Unused :
        /\ Created(id, "tool_approval")
        /\ call' = [call EXCEPT ![k].pc = "poll", ![k].decision = "CONFIRM", ![k].id = id]
        /\ audit' = [audit EXCEPT ![id] = {"pending"}]
    BY <1>4 DEF Confirm
  <2>1. id \in Ids /\ status[id] = "new" /\ status' = [status EXCEPT ![id] = "pending"]
    BY DEF Unused, Created
  <2>2. call[k].pc = "pre" /\ call'[k].pc = "poll" /\ call'[k].id = id
    BY <1>4, <1>typed DEF Confirm, TypeOK, Call
  <2>3. Asking[k] = NoId /\ Running[k] = NoId BY <2>2 DEF Asking, Running, Asked, Acts
  <2>4. Asking' = [Asking EXCEPT ![k] = id] /\ Running' = Running
    <3>1. Asked(call'[k]) = id /\ Acts(call'[k]) = NoId BY <2>2 DEF Asked, Acts
    <3>2. Asking' = [Asking EXCEPT ![k] = id] /\ Running' = [Running EXCEPT ![k] = NoId]
      BY <1>others, <3>1, Seen
    <3> QED BY <2>3, <3>2 DEF Running
  <2>5. "approved" \notin audit[id] BY <2>1 DEF IndInv, AuditAgrees
  <2>6. Granted' = Granted BY <1>typed, <2>1, <2>5 DEF Granted, TypeOK
  <2>7. Service!Ask(k, id)
    BY <2>1, <2>3, <2>4, <2>6 DEF Asking, Running, Granted, Asked, Acts, Service!Ask
  <2> QED BY <2>1, <2>7 DEF Service!Next
<1>5. ASSUME call[k].pc = "poll" PROVE call[k].id \in Ids /\ call[k].decision = "CONFIRM"
  BY <1>5 DEF IndInv, CallsHoldEntries, HoldsEntry
<1>refused. ASSUME call[k].pc = "poll", Answered(k, FALSE)
            PROVE  call'[k] = NoCall /\ Granted' = Granted
  BY <1>5, <1>refused, <1>typed DEF Answered, Granted, TypeOK
<1>6. CASE Poll(k)
  <2>1. CASE FoundApproved(call[k].id)
    <3> DEFINE i == call[k].id
    <3>1. i \in Ids /\ status[i] = "approved" /\ i \notin Granted
      BY <1>5, <1>6, <2>1, FoundMeansApproved DEF Poll, OwnEntries, Granted
    <3>2. call'[k] = [call[k] EXCEPT !.pc = "exec"] /\ audit' = [audit EXCEPT ![i] = @ \cup {"approved"}]
      BY <1>6, <1>typed, <2>1 DEF Poll, Answered, TypeOK
    <3>3. Granted' = Granted \cup {i} BY <1>typed, <3>1, <3>2 DEF Granted, TypeOK
    <3>4. Asking[k] = i /\ i # NoId
      BY <1>6, <3>1, NoIdAssumption DEF Poll, Asking, Asked
    <3>5. call'[k].pc = "exec" /\ call'[k].decision = "CONFIRM" /\ call'[k].id = i
      BY <1>5, <1>6, <1>typed, <3>2 DEF Poll, TypeOK, Call
    <3>6. Asked(call'[k]) = NoId /\ Acts(call'[k]) = i BY <3>5 DEF Asked, Acts
    <3> HIDE DEF i
    <3>7. Asking' = [Asking EXCEPT ![k] = NoId] /\ Running' = [Running EXCEPT ![k] = i]
      BY <1>others, <3>6, Seen
    <3>8. Service!GoOn(k)
      BY <1>6, <3>1, <3>3, <3>4, <3>7
      DEF Poll, Asking, Running, Granted, Asked, Acts, Service!GoOn
    <3> QED BY <3>8 DEF Service!Next
  <2>2. CASE ~FoundApproved(call[k].id)
    <3>1. FoundApproved(call[k].id) = FALSE BY <2>2 DEF FoundApproved
    <3>2. Answered(k, FALSE) BY <1>6, <3>1 DEF Poll
    <3> QED BY <1>6, <1>others, <1>refused, <3>2, Leaves DEF Poll
  <2> QED BY <2>1, <2>2
<1>7. CASE TimedOut(k)
  <2>1. \/ status' = status
        \/ status[call[k].id] = "pending" /\ status' = [status EXCEPT ![call[k].id] = "denied"]
    BY <1>7 DEF TimedOut, ResolveNow, Popped, Verdict, IndInv, AnsweredOnce, Waiting
  <2> QED BY <1>7, <1>others, <1>refused, <2>1, Leaves DEF TimedOut
<1> QED BY <1>1, <1>2, <1>3, <1>4, <1>6, <1>7 DEF CallStep

LEMMA ServiceInit == Init => Service!Init
BY DEF Init, NoCall, Service!Init

LEMMA ServiceStep == IndInv /\ OwnEntries /\ [Next]_vars => [Service!Next]_Service!vars
<1> SUFFICES ASSUME IndInv, OwnEntries, [Next]_vars
             PROVE  Service!Next \/ UNCHANGED Service!vars
  OBVIOUS
<1>typed. TypeOK BY DEF IndInv
<1>waits. \A i \in Waiting : i \in Ids /\ status[i] = "pending"
  BY DEF IndInv, AnsweredOnce, Waiting
<1>same. ASSUME UNCHANGED <<call, audit>>
         PROVE  Asking' = Asking /\ Running' = Running /\ Granted' = Granted
  BY <1>same DEF Asking, Running, Granted, Asked, Acts
<1>1. CASE UNCHANGED <<call, audit, status>> BY <1>1, <1>same, Unseen
<1>2. CASE ConfigStage
  <2>1. PICK i \in Unused : Created(i, "config_operation") BY <1>2 DEF ConfigStage
  <2>2. i \in Ids /\ status[i] = "new" /\ status' = [status EXCEPT ![i] = "pending"]
    BY <2>1 DEF Unused, Created
  <2>3. Service!Stage(i)
    BY <1>2, <1>same, <2>2 DEF ConfigStage, Asking, Running, Granted, Asked, Acts, Service!Stage
  <2> QED BY <2>2, <2>3 DEF Service!Next
<1>3. CASE ConfigCancel
  <2>1. PICK i \in Waiting : ResolveNow(i, FALSE) BY <1>3 DEF ConfigCancel
  <2>2. status' = [status EXCEPT ![i] = Verdict(FALSE)] BY <2>1 DEF ResolveNow, Popped
  <2> QED BY <1>3, <1>waits, <2>2, Resolved DEF ConfigCancel
<1>4. ASSUME NEW p \in Threads, ThreadStep(p) PROVE Service!Next \/ UNCHANGED Service!vars
  <2>1. CASE ThreadPops(p) /\ thread[p].id \in Waiting
    <3>1. status' = [status EXCEPT ![thread[p].id] = Verdict(thread[p].approved)]
      BY <2>1 DEF ThreadPops, Popped
    <3>2. thread[p].approved \in BOOLEAN BY <1>typed DEF TypeOK, Thread
    <3> QED BY <1>waits, <2>1, <3>1, <3>2, Resolved DEF ThreadPops
  <2>2. CASE ~(ThreadPops(p) /\ thread[p].id \in Waiting)
    BY <1>1, <1>4, <2>2 DEF ThreadStep, PanelResolves, ConfigApply, ThreadPops, ThreadInserts,
                            ConfigApplied
  <2> QED BY <2>1, <2>2
<1>5. CASE Speak \/ UNCHANGED vars BY <1>1, <1>5 DEF Speak, vars
<1> QED BY <1>2, <1>3, <1>4, <1>5, ServiceCall DEF Next

\* The gate and its queue implement the abstract service: one answer for a request, and
\* that is final; a call goes on only by an approval of its own request, and once.
THEOREM Refinement == Spec => ImplementsService
<1>1. Init => OwnEntries BY DEF Init, OwnEntries, NoCall
<1> QED BY Invariant, <1>1, OwnStep, ServiceInit, ServiceStep, PTL
        DEF Spec, ImplementsService, Service!Spec
==============================================================================
