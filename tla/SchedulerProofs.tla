-------------------------- MODULE SchedulerProofs --------------------------
(***************************************************************************)
(* The scan scheduler for every number of workers, every set of modules,   *)
(* subscriptions and emitted events, every queue and deduper capacity, and *)
(* any number of faults, pauses and restarts.                              *)
(***************************************************************************)
EXTENDS Scheduler, FiniteSetTheorems, SequenceTheorems, TLAPS

\* The work that a module's events call for, as ScanWork names it.
LEMMA EmittedWorkHas ==
  ASSUME NEW m \in ModuleSet, NEW e \in Events
  PROVE  <<<<m, CkKey(e)>>, UNION {Owes(f) : f \in Range(Emits[m][e])}>> \in EmittedWork
BY DEF EmittedWork

USE WorkersAssumption, BoundsAssumption, EventsAssumption

\* Facts about the constants.
LEMMA NoItemType == NoItem \in Item
  BY DEF NoItem, Item

LEMMA CkKeyType == \A e \in Events : CkKey(e) \in Keys
  BY DEF Keys

LEMMA OwesType == \A e \in Events : Owes(e) \subseteq ModuleSet \X Keys
  BY CkKeyType DEF Owes, ChainFor

\* eventDeduper.seen keeps events in its set.
LEMMA RememberType == \A s \in Seq(Events), e \in Events : Remember(s, e) \in Seq(Events)
<1> TAKE s \in Seq(Events), e \in Events
<1> DEFINE t == Append(s, e)
<1>1. t \in Seq(Events)
  OBVIOUS
<1>2. Len(t) = Len(s) + 1 /\ Len(s) \in Nat /\ Len(<<>>) = 0
  OBVIOUS
<1> HIDE DEF t
<1>4. t # <<>>
  BY <1>2
<1> USE DEF t
<1>3. Tail(t) \in Seq(Events)
  BY <1>1, <1>4
<1> QED BY <1>1, <1>3 DEF Remember

\* The module a worker is at is a registered one.
LEMMA CurrentType ==
  ASSUME TypeOK, NEW w \in Workers, AtModule(w)
  PROVE  Current(w) \in ModuleSet
  BY DEF TypeOK, AtModule, Current, ModuleSet, Range

\* A stored event reads back with its type and target, so it calls for the
\* same work.
LEMMA ReloadSame == \A e \in Events : Reload[e] \in Events /\ Owes(Reload[e]) = Owes(e)
<1> TAKE e \in Events
<1>1. Reload[e] \in Events /\ Reload[e].type = e.type /\ Reload[e].target = e.target
  BY ReloadAssumption
<1> QED BY <1>1 DEF Owes, ChainFor, subscribes, CkKey

\* The rows of the events table as they are read back, in order.
LEMMA StoredRead ==
  ASSUME TypeOK
  PROVE  /\ StoredEvents \in Seq(Item) /\ Len(StoredEvents) = Len(eventLog)
         /\ \A i \in 1..Len(eventLog) : StoredEvents[i].e = Reload[eventLog[i]]
         /\ \A i \in 1..Len(eventLog) : StoredEvents[i].id
         /\ \A i \in 1..Len(eventLog) : eventLog[i] \in Events
<1>1. eventLog \in Seq(Events)
  BY DEF TypeOK
<1>2. Len(eventLog) \in Nat
  BY <1>1, LenProperties
<1>3. \A i \in 1..Len(eventLog) : eventLog[i] \in Events
  BY <1>1, ElementOfSeq
<1>4. \A i \in 1..Len(eventLog) : [e |-> Reload[eventLog[i]], id |-> TRUE] \in Item
  BY <1>3, ReloadSame DEF Item
<1>5. StoredEvents \in Seq(Item)
  BY <1>2, <1>4, IsASeq DEF StoredEvents
<1>6. Len(StoredEvents) = Len(eventLog)
  BY <1>2, <1>5 DEF StoredEvents
<1>7. \A i \in 1..Len(eventLog) : StoredEvents[i].e = Reload[eventLog[i]] /\ StoredEvents[i].id
  BY DEF StoredEvents
<1> QED BY <1>3, <1>5, <1>6, <1>7

\* What is enqueued before Run consists of events.
LEMMA BacklogType == TypeOK => InitialBacklog \in Seq(Item)
<1> SUFFICES ASSUME TypeOK PROVE InitialBacklog \in Seq(Item)
  OBVIOUS
<1>1. eventLog \in Seq(Events) /\ Targets \in Seq(Events)
  BY DEF TypeOK
<1>2. StoredEvents \in Seq(Item)
  BY StoredRead
<1>3. TargetEvents \in Seq(Item)
  <2>1. \A i \in 1..Len(Targets) : Targets[i] \in Events
    BY <1>1, ElementOfSeq
  <2>2. Len(Targets) \in Nat
    BY <1>1, LenProperties
  <2>3. \A i \in 1..Len(Targets) : [e |-> Targets[i], id |-> FALSE] \in Item
    BY <2>1 DEF Item
  <2> QED BY <2>2, <2>3, IsASeq DEF TargetEvents
<1> QED BY <1>2, <1>3, ConcatProperties DEF InitialBacklog

LEMMA InitTypeOK == Init => TypeOK
<1> SUFFICES ASSUME Init PROVE TypeOK
  OBVIOUS
<1>1. /\ <<>> \in Seq(Item)
      /\ <<>> \in Seq(Events)
  OBVIOUS
<1>2. /\ main \in Mains /\ pc \in [Workers -> PCs]
      /\ status \in {"none", "running", "paused", "completed", "failed"}
      /\ result \in {"none", "ok", "error"}
  BY DEF Init, Mains, PCs
<1>3. /\ queue \in [Prios -> Seq(Item)] /\ backlog \in Seq(Item)
      /\ item \in [Workers -> Item] /\ out \in [Workers -> Seq(Events)]
      /\ seen \in Seq(Events) /\ eventLog \in Seq(Events)
  BY <1>1, NoItemType DEF Init, EmptyQueue
<1>4. ck \in [ModuleSet -> [Keys -> {"none", "running", "failed", "completed"}]]
  BY DEF Init
<1>7. /\ closed \in BOOLEAN /\ errs \in BOOLEAN
      /\ cancelled \in BOOLEAN /\ failedRun \in BOOLEAN
  BY Zenon DEF Init
<1>5. /\ wg \in Int
      /\ mi \in [Workers -> 1..(Len(Modules) + 1)]
      /\ faults \in 0..MaxFaults /\ pauses \in 0..MaxPauses
      /\ runs \in 0..MaxRuns /\ late \in [Workers -> Nat]
  BY DEF Init
<1>6. /\ owed \subseteq ModuleSet \X Keys
      /\ handled \subseteq ModuleSet \X Keys
      /\ doneBefore \subseteq ModuleSet \X Keys
  BY DEF Init
<1> QED BY <1>2, <1>3, <1>4, <1>5, <1>6, <1>7 DEF TypeOK

\* The helper actions keep the types of what they assign.
LEMMA FaultTypes ==
  ASSUME TypeOK
  PROVE  /\ \A k : Fails(k) => faults' \in 0..MaxFaults
         /\ Succeeds => faults' \in 0..MaxFaults
<1>1. \A k : Fails(k) => faults' \in 0..MaxFaults
  BY DEF TypeOK, Fails, Fault
<1>2. Succeeds => faults' \in 0..MaxFaults
  BY DEF TypeOK, Succeeds
<1> QED BY <1>1, <1>2

LEMMA RecordFailureType ==
  ASSUME TypeOK, RecordFailure
  PROVE  failedRun' \in BOOLEAN /\ errs' \in BOOLEAN
<1>1. failedRun \in BOOLEAN
  BY DEF TypeOK
<1>2. failedRun' \in {failedRun, TRUE}
  BY DEF RecordFailure
<1>3. errs' \in BOOLEAN
  BY DEF RecordFailure
<1> QED BY <1>1, <1>2, <1>3

LEMMA GotoType ==
  ASSUME TypeOK, NEW w \in Workers, NEW l \in PCs, Goto(w, l)
  PROVE  pc' \in [Workers -> PCs]
  BY DEF TypeOK, Goto

LEMMA NextModuleType ==
  ASSUME TypeOK, NEW w \in Workers, NextModule(w)
  PROVE  /\ mi' \in [Workers -> 1..(Len(Modules) + 1)]
         /\ pc' \in [Workers -> PCs]
<1>1. Goto(w, "gate") /\ "gate" \in PCs
  BY DEF NextModule, PCs, Busy
<1>2. mi' \in [Workers -> 1..(Len(Modules) + 1)]
  BY DEF TypeOK, NextModule
<1> QED BY <1>1, <1>2, GotoType

LEMMA SetCheckpointType ==
  ASSUME TypeOK, NEW w \in Workers, AtModule(w),
         NEW st \in {"none", "running", "failed", "completed"},
         SetCheckpoint(w, st)
  PROVE  ck' \in [ModuleSet -> [Keys -> {"none", "running", "failed", "completed"}]]
<1> DEFINE m == Current(w)
           k == CkKey(item[w].e)
<1>1. m \in ModuleSet
  BY CurrentType
<1>2. item[w].e \in Events
  BY DEF TypeOK, Item
<1>3. k \in Keys
  BY <1>2, CkKeyType
<1>4. ck' = [ck EXCEPT ![m] = [ck[m] EXCEPT ![k] = st]]
  BY <1>1 DEF SetCheckpoint, TypeOK
<1> HIDE DEF m, k
<1> QED BY <1>1, <1>3, <1>4 DEF TypeOK

LEMMA NewSchedulerType ==
  ASSUME NewScheduler
  PROVE  /\ backlog' \in Seq(Item) /\ queue' \in [Prios -> Seq(Item)]
         /\ seen' \in Seq(Events) /\ wg' \in Int
         /\ closed' \in BOOLEAN /\ errs' \in BOOLEAN /\ cancelled' \in BOOLEAN
         /\ pc' \in [Workers -> PCs] /\ item' \in [Workers -> Item]
         /\ mi' \in [Workers -> 1..(Len(Modules) + 1)]
         /\ out' \in [Workers -> Seq(Events)]
<1>1. <<>> \in Seq(Item) /\ <<>> \in Seq(Events)
  OBVIOUS
<1>2. closed' \in BOOLEAN /\ errs' \in BOOLEAN /\ cancelled' \in BOOLEAN
  BY DEF NewScheduler
<1>3. mi' \in [Workers -> 1..(Len(Modules) + 1)] /\ wg' \in Int
  BY DEF NewScheduler
<1>4. /\ backlog' \in Seq(Item) /\ queue' \in [Prios -> Seq(Item)]
      /\ seen' \in Seq(Events) /\ out' \in [Workers -> Seq(Events)]
  BY <1>1 DEF NewScheduler, EmptyQueue
<1>5. item' \in [Workers -> Item] /\ pc' \in [Workers -> PCs]
  BY NoItemType DEF NewScheduler, PCs
<1> QED BY <1>2, <1>3, <1>4, <1>5

LEMMA TakeType ==
  ASSUME TypeOK, NEW w \in Workers, NEW p \in Prios, Take(w, p)
  PROVE  /\ queue' \in [Prios -> Seq(Item)]
         /\ item' \in [Workers -> Item]
         /\ mi' \in [Workers -> 1..(Len(Modules) + 1)]
         /\ pc' \in [Workers -> PCs]
<1> DEFINE q == queue[p]
           l == IF Head(q).id THEN "gate" ELSE "store"
<1>1. q \in Seq(Item) /\ q # <<>>
  BY DEF TypeOK, Take
<1>2. Head(q) \in Item /\ Tail(q) \in Seq(Item)
  BY <1>1
<1>3. queue' = [queue EXCEPT ![p] = Tail(q)]
  BY DEF Take
<1>4. item' = [item EXCEPT ![w] = Head(q)]
  BY DEF Take
<1>5. l \in PCs /\ Goto(w, l)
  BY DEF Take, PCs, Busy
<1>6. mi' \in [Workers -> 1..(Len(Modules) + 1)]
  BY DEF TypeOK, Take
<1>7. pc' \in [Workers -> PCs]
  BY <1>5, GotoType
<1> HIDE DEF q, l
<1> QED BY <1>2, <1>3, <1>4, <1>6, <1>7 DEF TypeOK

\* Every step keeps the types.
LEMMA NextTypeOK == CountInv /\ [Next]_vars => TypeOK'
<1> SUFFICES ASSUME CountInv, [Next]_vars PROVE TypeOK'
  OBVIOUS
<1>0. TypeOK /\ SendPending /\ LoopInside
  BY DEF CountInv
<1> USE FaultTypes DEF volatile, workers, stored, history
<1>1. ASSUME Start PROVE TypeOK'
  <2>1. /\ NewScheduler
        /\ runs' \in 0..MaxRuns
        /\ main' \in Mains
        /\ UNCHANGED <<eventLog, ck, failedRun, pauses, owed, handled, doneBefore, late>>
    BY <1>0, <1>1 DEF Start, TypeOK, Mains
  <2>2. /\ status' \in {"none", "running", "paused", "completed", "failed"}
        /\ result' \in {"none", "ok", "error"}
        /\ faults' \in 0..MaxFaults
    BY <1>0, <1>1 DEF Start, Fault, TypeOK
  <2> QED BY <1>0, <2>1, <2>2, NewSchedulerType DEF TypeOK
<1>2. ASSUME SetupFails PROVE TypeOK'
  BY <1>0, <1>2 DEF SetupFails, TypeOK, Mains
<1>3. ASSUME LoadBacklog PROVE TypeOK'
  <2>1. backlog' \in Seq(Item)
    BY <1>0, <1>3, BacklogType DEF LoadBacklog, TypeOK
  <2>2. owed' \subseteq ModuleSet \X Keys
    <3>1. \A e \in Range(Targets) : Owes(e) \subseteq ModuleSet \X Keys
      BY OwesType DEF Range
    <3> QED BY <1>0, <1>3, <3>1 DEF LoadBacklog, TypeOK
  <2>3. doneBefore' \subseteq ModuleSet \X Keys
    BY <1>0, <1>3 DEF LoadBacklog, TypeOK
  <2>4. /\ main' \in Mains /\ result' \in {"none", "ok", "error"}
        /\ faults' \in 0..MaxFaults
    BY <1>0, <1>3 DEF LoadBacklog, TypeOK, Mains
  <2>5. UNCHANGED <<queue, seen, wg, closed, errs, cancelled, pc, item, mi, out,
                    eventLog, ck, failedRun, status, pauses, runs, handled, late>>
    BY <1>3 DEF LoadBacklog
  <2> QED BY <1>0, <2>1, <2>2, <2>3, <2>4, <2>5 DEF TypeOK
<1>4. ASSUME LoadNext PROVE TypeOK'
  <2>1. Head(backlog) \in Item /\ Tail(backlog) \in Seq(Item)
    BY <1>0, <1>4 DEF LoadNext, TypeOK
  <2>2. Head(backlog).e \in Events
    BY <2>1 DEF Item
  <2>3. Remember(seen, Head(backlog).e) \in Seq(Events)
    BY <1>0, <2>2, RememberType DEF TypeOK
  <2>4. seen' \in Seq(Events) /\ backlog' \in Seq(Item)
    BY <1>0, <1>4, <2>1, <2>3 DEF LoadNext, TypeOK
  <2>5. main' \in Mains /\ wg' \in Int
    BY <1>0, <1>4 DEF LoadNext, TypeOK, Mains, wgAdd
  <2>6. UNCHANGED <<queue, closed, errs, cancelled, pc, item, mi, out, eventLog,
                    ck, failedRun, status, result, faults, pauses, runs, owed,
                    handled, doneBefore, late>>
    BY <1>4 DEF LoadNext
  <2> QED BY <1>0, <2>4, <2>5, <2>6 DEF TypeOK
<1>5. ASSUME LoadSend PROVE TypeOK'
  <2> DEFINE p == priorityFor(Head(backlog).e)
  <2>1. backlog # <<>>
    BY <1>0, <1>5 DEF SendPending, LoadSend
  <2>2. Head(backlog) \in Item /\ Tail(backlog) \in Seq(Item)
    BY <1>0, <2>1 DEF TypeOK
  <2>3. p \in Prios
    BY DEF priorityFor, Prios
  <2>4. queue' = [queue EXCEPT ![p] = Append(queue[p], Head(backlog))]
    BY <1>5 DEF LoadSend
  <2> HIDE DEF p
  <2>5. queue' \in [Prios -> Seq(Item)]
    BY <1>0, <2>2, <2>3, <2>4 DEF TypeOK
  <2>6. /\ backlog' = Tail(backlog) /\ main' \in Mains
        /\ UNCHANGED <<seen, wg, closed, errs, cancelled, pc, item, mi, out,
                       eventLog, ck, failedRun, status, result, faults, pauses,
                       runs, owed, handled, doneBefore, late>>
    BY <1>5 DEF LoadSend, Mains
  <2> QED BY <1>0, <2>2, <2>5, <2>6 DEF TypeOK
<1>6. ASSUME SpawnWorkers PROVE TypeOK'
  BY <1>0, <1>6 DEF SpawnWorkers, TypeOK, Mains, PCs
<1>7. ASSUME CloseQueues PROVE TypeOK'
  BY <1>0, <1>7 DEF CloseQueues, TypeOK, Mains
<1>8. ASSUME JoinWorkers PROVE TypeOK'
  BY <1>0, <1>8 DEF JoinWorkers, TypeOK, Mains
<1>9. ASSUME FinishScan PROVE TypeOK'
  BY <1>0, <1>9 DEF FinishScan, TypeOK, Mains
<1>10. ASSUME CheckHealth PROVE TypeOK'
  BY <1>0, <1>10 DEF CheckHealth, TypeOK, Mains
<1>11. ASSUME Pause PROVE TypeOK'
  BY <1>0, <1>11 DEF Pause, TypeOK
<1>12. ASSUME Resume PROVE TypeOK'
  BY <1>0, <1>12 DEF Resume, TypeOK
<1>13. ASSUME Cancel PROVE TypeOK'
  <2>1. cancelled' \in BOOLEAN
    BY <1>13 DEF Cancel
  <2>2. faults' \in 0..MaxFaults
    BY <1>0, <1>13 DEF Cancel, TypeOK
  <2> QED BY <1>0, <1>13, <2>1, <2>2 DEF Cancel, TypeOK
<1>14. ASSUME Crash PROVE TypeOK'
  <2>1. /\ NewScheduler
        /\ faults' \in 0..MaxFaults
        /\ main' \in Mains
        /\ UNCHANGED <<eventLog, ck, failedRun, status, result, pauses, runs,
                       owed, handled, doneBefore, late>>
    BY <1>0, <1>14 DEF Crash, TypeOK, Mains
  <2> QED BY <1>0, <2>1, NewSchedulerType DEF TypeOK
<1>15. ASSUME NEW w \in Workers, ResumeCheck(w) PROVE TypeOK'
  <2>1. pc' \in [Workers -> PCs] /\ faults' \in 0..MaxFaults
    BY <1>0, <1>15 DEF ResumeCheck, waitForScanResume, TypeOK, Goto, PCs
  <2> QED BY <1>0, <1>15, <2>1 DEF ResumeCheck, TypeOK
<1>16. ASSUME NEW w \in Workers, NEW p \in Prios, Poll(w, p) PROVE TypeOK'
  <2>1. UNCHANGED <<main, backlog, seen, wg, closed, errs, cancelled, out,
                    eventLog, ck, failedRun, status, result, faults, pauses,
                    runs, owed, handled, doneBefore, late>>
    BY <1>16 DEF Poll
  <2>2. CASE Take(w, p)
    BY <1>0, <2>1, <2>2, TakeType DEF TypeOK
  <2>3. CASE Goto(w, "exit") /\ UNCHANGED <<queue, item, mi>>
    BY <1>0, <2>1, <2>3 DEF TypeOK, Goto, PCs
  <2>4. CASE Goto(w, AfterPoll[p]) /\ UNCHANGED <<queue, item, mi>>
    <3>1. AfterPoll[p] \in PCs
      BY DEF Prios, AfterPoll, PCs
    <3>2. pc' \in [Workers -> PCs]
      BY <1>0, <2>4, <3>1, GotoType
    <3> QED BY <1>0, <2>1, <2>4, <3>2 DEF TypeOK
  <2> QED BY <1>16, <2>2, <2>3, <2>4 DEF Poll
<1>17. ASSUME NEW w \in Workers, Select(w) PROVE TypeOK'
  <2>1. UNCHANGED <<main, backlog, seen, wg, closed, errs, cancelled, out,
                    eventLog, ck, failedRun, status, result, faults, pauses,
                    runs, owed, handled, doneBefore, late>>
    BY <1>17 DEF Select
  <2>2. ASSUME NEW p \in Prios, Take(w, p) PROVE TypeOK'
    BY <1>0, <2>1, <2>2, TakeType DEF TypeOK
  <2>3. CASE Goto(w, "exit") /\ UNCHANGED <<queue, item, mi>>
    BY <1>0, <2>1, <2>3 DEF TypeOK, Goto, PCs
  <2> QED BY <1>17, <2>2, <2>3 DEF Select
<1>18. ASSUME NEW w \in Workers, StoreEvent(w) PROVE TypeOK'
  <2>1. /\ UNCHANGED <<main, backlog, queue, seen, wg, closed, cancelled, mi,
                       out, ck, status, result, pauses, runs, owed, handled,
                       doneBefore, late>>
        /\ Goto(w, "gate") /\ "gate" \in PCs
    BY <1>18 DEF StoreEvent, PCs, Busy
  <2>2. pc' \in [Workers -> PCs]
    BY <1>0, <2>1, GotoType
  <2>3. item[w] \in Item /\ item[w].e \in Events
    BY <1>0 DEF TypeOK, Item
  <2>4. eventLog' \in Seq(Events)
    <3>1. eventLog' = eventLog \/ eventLog' = Append(eventLog, item[w].e)
      BY <1>18 DEF StoreEvent
    <3>2. eventLog \in Seq(Events)
      BY <1>0 DEF TypeOK
    <3>3. Append(eventLog, item[w].e) \in Seq(Events)
      BY <2>3, <3>2
    <3> QED BY <3>1, <3>2, <3>3
  <2>5. item' \in [Workers -> Item]
    <3>1. [item[w] EXCEPT !.id = TRUE] \in Item
      BY <2>3 DEF Item
    <3>2. item' = item \/ item' = [item EXCEPT ![w] = [item[w] EXCEPT !.id = TRUE]]
      BY <1>18 DEF StoreEvent
    <3> QED BY <1>0, <3>1, <3>2 DEF TypeOK
  <2>6. errs' \in BOOLEAN /\ failedRun' \in BOOLEAN
    BY <1>0, <1>18, RecordFailureType DEF StoreEvent, TypeOK
  <2>7. faults' \in 0..MaxFaults
    BY <1>0, <1>18 DEF StoreEvent
  <2> QED BY <1>0, <2>1, <2>2, <2>4, <2>5, <2>6, <2>7 DEF TypeOK
<1>19. ASSUME NEW w \in Workers, Gate(w) PROVE TypeOK'
  <2>1. /\ pc' \in [Workers -> PCs]
        /\ wg' \in Int
    <3>1. wg' = wg \/ wg' = wg - 1
      BY <1>19 DEF Gate, wgDone
    <3>2. Goto(w, "check") \/ Goto(w, "exit")
      BY <1>19 DEF Gate
    <3>3. "check" \in PCs /\ "exit" \in PCs
      BY DEF PCs, Busy
    <3>4. wg \in Int
      BY <1>0 DEF TypeOK
    <3> QED BY <1>0, <3>1, <3>2, <3>3, <3>4, GotoType
  <2>2. faults' \in 0..MaxFaults
    BY <1>0, <1>19 DEF Gate, waitForScanResume
  <2>3. UNCHANGED <<main, backlog, queue, seen, closed, errs, cancelled, item,
                    mi, out, eventLog, ck, failedRun, status, result, pauses,
                    runs, owed, handled, doneBefore, late>>
    BY <1>19 DEF Gate
  <2> QED BY <1>0, <2>1, <2>2, <2>3 DEF TypeOK
<1>20. ASSUME NEW w \in Workers, CheckpointStatus(w) PROVE TypeOK'
  <2>1. /\ pc' \in [Workers -> PCs]
        /\ mi' \in [Workers -> 1..(Len(Modules) + 1)]
    <3>1. CASE NextModule(w)
      BY <1>0, <3>1, NextModuleType
    <3>2. CASE Goto(w, "mark") /\ UNCHANGED mi
      BY <1>0, <3>2 DEF TypeOK, Goto, PCs, Busy
    <3> QED BY <1>20, <3>1, <3>2 DEF CheckpointStatus
  <2>2. errs' \in BOOLEAN /\ failedRun' \in BOOLEAN
    BY <1>0, <1>20, RecordFailureType DEF CheckpointStatus, TypeOK
  <2>3. faults' \in 0..MaxFaults
    BY <1>0, <1>20 DEF CheckpointStatus
  <2>4. UNCHANGED <<main, backlog, queue, seen, wg, closed, cancelled, item, out,
                    eventLog, ck, status, result, pauses, runs, owed, handled,
                    doneBefore, late>>
    BY <1>20 DEF CheckpointStatus
  <2> QED BY <1>0, <2>1, <2>2, <2>3, <2>4 DEF TypeOK
<1>21. ASSUME NEW w \in Workers, MarkRunning(w) PROVE TypeOK'
  <2>1. /\ pc' \in [Workers -> PCs]
        /\ mi' \in [Workers -> 1..(Len(Modules) + 1)]
    <3>1. CASE NextModule(w)
      BY <1>0, <3>1, NextModuleType
    <3>2. CASE Goto(w, "handle") /\ UNCHANGED mi
      BY <1>0, <3>2 DEF TypeOK, Goto, PCs, Busy
    <3> QED BY <1>21, <3>1, <3>2 DEF MarkRunning
  <2>2. errs' \in BOOLEAN /\ failedRun' \in BOOLEAN
    BY <1>0, <1>21, RecordFailureType DEF MarkRunning, TypeOK
  <2>3. faults' \in 0..MaxFaults
    BY <1>0, <1>21 DEF MarkRunning
  <2>4. ck' \in [ModuleSet -> [Keys -> {"none", "running", "failed", "completed"}]]
    <3>1. AtModule(w)
      BY <1>0, <1>21 DEF MarkRunning, LoopInside, InModule
    <3>2. SetCheckpoint(w, "running") \/ UNCHANGED ck
      BY <1>21 DEF MarkRunning
    <3> QED BY <1>0, <3>1, <3>2, SetCheckpointType DEF TypeOK
  <2>5. UNCHANGED <<main, backlog, queue, seen, wg, closed, cancelled, item, out,
                    eventLog, status, result, pauses, runs, owed, handled,
                    doneBefore, late>>
    BY <1>21 DEF MarkRunning
  <2> QED BY <1>0, <2>1, <2>2, <2>3, <2>4, <2>5 DEF TypeOK
<1>22. ASSUME NEW w \in Workers, HandleOk(w) PROVE TypeOK'
  <2> DEFINE next == Emits[Current(w)][item[w].e]
  <2>1. Current(w) \in ModuleSet /\ item[w].e \in Events
    <3>1. AtModule(w)
      BY <1>0, <1>22 DEF HandleOk, LoopInside, InModule
    <3> QED BY <1>0, <3>1, CurrentType DEF TypeOK, Item
  <2>2. next \in Seq(Events)
    BY <2>1
  <2>3. /\ out' = [out EXCEPT ![w] = next]
        /\ owed' = owed \cup UNION {Owes(e) : e \in Range(next)}
        /\ handled' = handled \cup {<<Current(w), CkKey(item[w].e)>>}
        /\ UNCHANGED <<main, backlog, queue, seen, wg, closed, errs, cancelled,
                       item, mi, eventLog, ck, failedRun, status, result,
                       faults, pauses, runs, doneBefore>>
    BY <1>22 DEF HandleOk
  <2> HIDE DEF next
  <2>4. out' \in [Workers -> Seq(Events)]
    BY <1>0, <2>2, <2>3 DEF TypeOK
  <2>5. owed' \subseteq ModuleSet \X Keys
    <3>1. \A e \in Range(next) : Owes(e) \subseteq ModuleSet \X Keys
      BY <2>2, OwesType DEF Range
    <3> QED BY <1>0, <2>3, <3>1 DEF TypeOK
  <2>6. handled' \subseteq ModuleSet \X Keys
    BY <1>0, <2>1, <2>3, CkKeyType DEF TypeOK
  <2>7. late' \in [Workers -> Nat]
    BY <1>0, <1>22 DEF HandleOk, CountLate, TypeOK
  <2>8. pc' \in [Workers -> PCs]
    BY <1>0, <1>22 DEF HandleOk, Goto, PCs, Busy, TypeOK
  <2> QED BY <1>0, <2>3, <2>4, <2>5, <2>6, <2>7, <2>8 DEF TypeOK
<1>23. ASSUME NEW w \in Workers, HandleFail(w) PROVE TypeOK'
  <2>1. /\ pc' \in [Workers -> PCs]
        /\ mi' \in [Workers -> 1..(Len(Modules) + 1)]
    BY <1>0, <1>23, NextModuleType DEF HandleFail
  <2>2. errs' \in BOOLEAN /\ failedRun' \in BOOLEAN
    BY <1>0, <1>23, RecordFailureType DEF HandleFail
  <2>3. faults' \in 0..MaxFaults
    BY <1>0, <1>23 DEF HandleFail
  <2>4. ck' \in [ModuleSet -> [Keys -> {"none", "running", "failed", "completed"}]]
    <3>1. AtModule(w)
      BY <1>0, <1>23 DEF HandleFail, LoopInside, InModule
    <3>2. SetCheckpoint(w, "failed") \/ UNCHANGED ck
      BY <1>23 DEF HandleFail
    <3> QED BY <1>0, <3>1, <3>2, SetCheckpointType DEF TypeOK
  <2>5. late' \in [Workers -> Nat]
    BY <1>0, <1>23 DEF HandleFail, CountLate, TypeOK
  <2>6. UNCHANGED <<main, backlog, queue, seen, wg, closed, cancelled, item, out,
                    eventLog, status, result, pauses, runs, owed, handled,
                    doneBefore>>
    BY <1>23 DEF HandleFail
  <2> QED BY <1>0, <2>1, <2>2, <2>3, <2>4, <2>5, <2>6 DEF TypeOK
<1>24. ASSUME NEW w \in Workers, MarkCompleted(w) PROVE TypeOK'
  <2>1. faults' \in 0..MaxFaults /\ pc' \in [Workers -> PCs]
    BY <1>0, <1>24 DEF MarkCompleted, TypeOK, Goto, PCs, Busy
  <2>2. ck' \in [ModuleSet -> [Keys -> {"none", "running", "failed", "completed"}]]
    <3>1. AtModule(w)
      BY <1>0, <1>24 DEF MarkCompleted, LoopInside, InModule
    <3>2. SetCheckpoint(w, "completed") \/ UNCHANGED ck
      BY <1>24 DEF MarkCompleted
    <3> QED BY <1>0, <3>1, <3>2, SetCheckpointType DEF TypeOK
  <2>3. UNCHANGED <<main, backlog, queue, seen, wg, closed, errs, cancelled,
                    item, mi, out, eventLog, failedRun, status, result, pauses,
                    runs, owed, handled, doneBefore, late>>
    BY <1>24 DEF MarkCompleted
  <2> QED BY <1>0, <2>1, <2>2, <2>3 DEF TypeOK
<1>25. ASSUME NEW w \in Workers, Emit(w) PROVE TypeOK'
  <2>0. UNCHANGED <<main, backlog, queue, closed, errs, cancelled, item,
                    eventLog, ck, failedRun, status, result, faults, pauses,
                    runs, owed, handled, doneBefore, late>>
    BY <1>25 DEF Emit
  <2>1. CASE out[w] = <<>> /\ NextModule(w) /\ UNCHANGED <<seen, wg, out>>
    BY <1>0, <2>0, <2>1, NextModuleType DEF TypeOK
  <2>2. ASSUME out[w] # <<>>
        PROVE  Head(out[w]) \in Events /\ Tail(out[w]) \in Seq(Events)
    <3>1. out[w] \in Seq(Events)
      BY <1>0 DEF TypeOK
    <3> QED BY <2>2, <3>1
  <2>3. CASE /\ out[w] # <<>>
             /\ out' = [out EXCEPT ![w] = Tail(@)]
             /\ UNCHANGED <<seen, wg, pc, mi>>
    BY <1>0, <2>0, <2>2, <2>3 DEF TypeOK
  <2>4. CASE /\ out[w] # <<>>
             /\ seen' = Remember(seen, Head(out[w]))
             /\ wgAdd
             /\ Goto(w, "send")
             /\ UNCHANGED <<out, mi>>
    <3>1. seen' \in Seq(Events)
      BY <1>0, <2>2, <2>4, RememberType DEF TypeOK
    <3>2. wg' \in Int /\ pc' \in [Workers -> PCs]
      BY <1>0, <2>4 DEF TypeOK, wgAdd, Goto, PCs, Busy
    <3> QED BY <1>0, <2>0, <2>4, <3>1, <3>2 DEF TypeOK
  <2> QED BY <1>25, <2>1, <2>3, <2>4 DEF Emit
<1>26. ASSUME NEW w \in Workers, Send(w) PROVE TypeOK'
  <2> DEFINE e == Head(out[w])
             p == priorityFor(e)
             i == [e |-> e, id |-> FALSE]
  <2>1. out[w] \in Seq(Events) /\ out[w] # <<>>
    BY <1>0, <1>26 DEF TypeOK, Send, SendPending
  <2>2. e \in Events /\ Tail(out[w]) \in Seq(Events)
    BY <2>1
  <2>3. p \in Prios
    BY DEF priorityFor, Prios
  <2>4. i \in Item
    BY <2>2 DEF Item
  <2>5. queue' = [queue EXCEPT ![p] = Append(queue[p], i)]
    BY <1>26 DEF Send
  <2> HIDE DEF e, p, i
  <2>6. queue' \in [Prios -> Seq(Item)]
    BY <1>0, <2>3, <2>4, <2>5 DEF TypeOK
  <2>7. out' \in [Workers -> Seq(Events)]
    BY <1>0, <1>26, <2>2 DEF Send, TypeOK
  <2>8. pc' \in [Workers -> PCs]
    BY <1>0, <1>26 DEF Send, Goto, PCs, Busy, TypeOK
  <2>9. UNCHANGED <<main, backlog, seen, wg, closed, errs, cancelled, item, mi,
                    eventLog, ck, failedRun, status, result, faults, pauses,
                    runs, owed, handled, doneBefore, late>>
    BY <1>26 DEF Send
  <2> QED BY <1>0, <2>6, <2>7, <2>8, <2>9 DEF TypeOK
<1>27. ASSUME NEW w \in Workers, FinishEvent(w) PROVE TypeOK'
  BY <1>0, <1>27 DEF FinishEvent, TypeOK, Goto, PCs, wgDone
<1>28. ASSUME UNCHANGED vars PROVE TypeOK'
  BY <1>0, <1>28 DEF vars, TypeOK
<1> QED
  BY <1>1, <1>2, <1>3, <1>4, <1>5, <1>6, <1>7, <1>8, <1>9, <1>10, <1>11, <1>12,
     <1>13, <1>14, <1>15, <1>16, <1>17, <1>18, <1>19, <1>20, <1>21, <1>22,
     <1>23, <1>24, <1>25, <1>26, <1>27, <1>28
     DEF Next, EngineStep, WorkerStep, AtRest

-----------------------------------------------------------------------------
(* Counting.                                                               *)

\* What moving one worker does to the sets that are counted.
LEMMA BusyCount ==
  ASSUME TypeOK, NEW w \in Workers, NEW l, Goto(w, l)
  PROVE  /\ (pc[w] \in Busy <=> l \in Busy) => BusyWorkers' = BusyWorkers
         /\ pc[w] \notin Busy /\ l \in Busy =>
               Cardinality(BusyWorkers') = Cardinality(BusyWorkers) + 1
         /\ pc[w] \in Busy /\ l \notin Busy =>
               Cardinality(BusyWorkers') = Cardinality(BusyWorkers) - 1
<1>1. pc' = [pc EXCEPT ![w] = l] /\ pc \in [Workers -> PCs]
  BY DEF Goto, TypeOK
<1>2. IsFiniteSet(BusyWorkers)
  BY FS_Subset DEF BusyWorkers
<1>3. (pc[w] \in Busy <=> l \in Busy) => BusyWorkers' = BusyWorkers
  BY <1>1 DEF BusyWorkers
<1>4. ASSUME pc[w] \notin Busy, l \in Busy
      PROVE  Cardinality(BusyWorkers') = Cardinality(BusyWorkers) + 1
  <2>1. BusyWorkers' = BusyWorkers \cup {w} /\ w \notin BusyWorkers
    BY <1>1, <1>4 DEF BusyWorkers
  <2> QED BY <1>2, <2>1, FS_AddElement
<1>5. ASSUME pc[w] \in Busy, l \notin Busy
      PROVE  Cardinality(BusyWorkers') = Cardinality(BusyWorkers) - 1
  <2>1. BusyWorkers' = BusyWorkers \ {w} /\ w \in BusyWorkers
    BY <1>1, <1>5 DEF BusyWorkers
  <2> QED BY <1>2, <2>1, FS_RemoveElement
<1> QED BY <1>3, <1>4, <1>5

LEMMA SendCount ==
  ASSUME TypeOK, NEW w \in Workers, NEW l, Goto(w, l)
  PROVE  /\ (pc[w] = "send" <=> l = "send") => Senders' = Senders
         /\ pc[w] # "send" /\ l = "send" =>
               Cardinality(Senders') = Cardinality(Senders) + 1
         /\ pc[w] = "send" /\ l # "send" =>
               Cardinality(Senders') = Cardinality(Senders) - 1
<1>1. pc' = [pc EXCEPT ![w] = l] /\ pc \in [Workers -> PCs]
  BY DEF Goto, TypeOK
<1>2. IsFiniteSet(Senders)
  BY FS_Subset DEF Senders
<1>3. (pc[w] = "send" <=> l = "send") => Senders' = Senders
  BY <1>1 DEF Senders
<1>4. ASSUME pc[w] # "send", l = "send"
      PROVE  Cardinality(Senders') = Cardinality(Senders) + 1
  <2>1. Senders' = Senders \cup {w} /\ w \notin Senders
    BY <1>1, <1>4 DEF Senders
  <2> QED BY <1>2, <2>1, FS_AddElement
<1>5. ASSUME pc[w] = "send", l # "send"
      PROVE  Cardinality(Senders') = Cardinality(Senders) - 1
  <2>1. Senders' = Senders \ {w} /\ w \in Senders
    BY <1>1, <1>5 DEF Senders
  <2> QED BY <1>2, <2>1, FS_RemoveElement
<1> QED BY <1>3, <1>4, <1>5

\* The counts are numbers, and zero only of empty sets.
LEMMA CountTypes ==
  ASSUME TypeOK
  PROVE  /\ Queued \in Nat
         /\ Cardinality(BusyWorkers) \in Nat
         /\ Cardinality(Senders) \in Nat
         /\ Cardinality(BusyWorkers) = 0 => BusyWorkers = {}
         /\ Queued = 0 => \A p \in Prios : queue[p] = <<>>
<1>1. IsFiniteSet(BusyWorkers) /\ IsFiniteSet(Senders)
  BY FS_Subset DEF BusyWorkers, Senders
<1>2. \A p \in Prios : queue[p] \in Seq(Item) /\ Len(queue[p]) \in Nat
  <2>1. queue \in [Prios -> Seq(Item)]
    BY DEF TypeOK
  <2>2. \A s \in Seq(Item) : Len(s) \in Nat
    OBVIOUS
  <2> QED BY <2>1, <2>2
<1>3. \A p \in Prios : Len(queue[p]) = 0 => queue[p] = <<>>
  <2> TAKE p \in Prios
  <2> DEFINE s == queue[p]
  <2>1. s \in Seq(Item)
    BY <1>2
  <2> HIDE DEF s
  <2>2. Len(s) = 0 => s = <<>>
    BY <2>1
  <2> QED BY <2>2 DEF s
<1>4. "high" \in Prios /\ "normal" \in Prios /\ "low" \in Prios
  BY DEF Prios
<1> DEFINE n == [p \in Prios |-> Len(queue[p])]
<1>7. Queued = n["high"] + n["normal"] + n["low"] /\ \A p \in Prios : n[p] \in Nat
  BY <1>2, <1>4 DEF Queued
<1>8. \A p \in Prios : n[p] = Len(queue[p])
  OBVIOUS
<1> HIDE DEF n
<1>5. Queued \in Nat
  BY <1>4, <1>7
<1>9. Queued = 0 => \A p \in Prios : n[p] = 0
  BY <1>4, <1>7 DEF Prios
<1>6. Queued = 0 => \A p \in Prios : Len(queue[p]) = 0
  BY <1>8, <1>9
<1> QED BY <1>1, <1>3, <1>5, <1>6, FS_CardinalityType, FS_EmptySet

\* A send and a receive change the number of queued events by what they do
\* to their channel.
LEMMA QueueCount ==
  ASSUME TypeOK, NEW p \in Prios, NEW q \in Seq(Item),
         queue' = [queue EXCEPT ![p] = q]
  PROVE  Queued' = Queued + (Len(q) - Len(queue[p]))
<1>1. \A s \in Seq(Item) : Len(s) \in Nat
  OBVIOUS
<1>2. queue \in [Prios -> Seq(Item)]
  BY DEF TypeOK
<1>3. /\ "high" \in Prios /\ "normal" \in Prios /\ "low" \in Prios
      /\ p \in {"high", "normal", "low"}
  BY DEF Prios
<1> DEFINE n == [r \in Prios |-> Len(queue[r])]
           m == [r \in Prios |-> Len(queue'[r])]
<1>4. /\ Queued = n["high"] + n["normal"] + n["low"]
      /\ Queued' = m["high"] + m["normal"] + m["low"]
  BY <1>3 DEF Queued
<1>5. \A r \in Prios : n[r] \in Nat
  BY <1>1, <1>2
<1>6. m[p] = Len(q) /\ n[p] = Len(queue[p]) /\ Len(q) \in Nat
  BY <1>1, <1>2
<1>7. \A r \in Prios : r # p => m[r] = n[r]
  BY <1>2
<1> HIDE DEF n, m
<1>0. \A a, b, c, d \in Int : /\ d + b + c = (a + b + c) + (d - a)
                             /\ b + d + c = (b + a + c) + (d - a)
                             /\ b + c + d = (b + c + a) + (d - a)
  OBVIOUS
<1>8. CASE p = "high"
  <2>1. m["normal"] = n["normal"] /\ m["low"] = n["low"]
    BY <1>3, <1>7, <1>8
  <2>2. m["high"] = Len(q) /\ n["high"] = Len(queue[p]) /\ Len(q) \in Nat
    BY <1>6, <1>8
  <2>3. n["high"] \in Nat /\ n["normal"] \in Nat /\ n["low"] \in Nat
    BY <1>3, <1>5
  <2> QED BY <1>0, <1>4, <2>1, <2>2, <2>3
<1>9. CASE p = "normal"
  <2>1. m["high"] = n["high"] /\ m["low"] = n["low"]
    BY <1>3, <1>7, <1>9
  <2>2. m["normal"] = Len(q) /\ n["normal"] = Len(queue[p]) /\ Len(q) \in Nat
    BY <1>6, <1>9
  <2>3. n["high"] \in Nat /\ n["normal"] \in Nat /\ n["low"] \in Nat
    BY <1>3, <1>5
  <2> QED BY <1>0, <1>4, <2>1, <2>2, <2>3
<1>10. CASE p = "low"
  <2>1. m["high"] = n["high"] /\ m["normal"] = n["normal"]
    BY <1>3, <1>7, <1>10
  <2>2. m["low"] = Len(q) /\ n["low"] = Len(queue[p]) /\ Len(q) \in Nat
    BY <1>6, <1>10
  <2>3. n["high"] \in Nat /\ n["normal"] \in Nat /\ n["low"] \in Nat
    BY <1>3, <1>5
  <2> QED BY <1>0, <1>4, <2>1, <2>2, <2>3
<1> QED BY <1>3, <1>8, <1>9, <1>10

LEMMA TakeCount ==
  ASSUME TypeOK, NEW w \in Workers, NEW p \in Prios, Take(w, p), pc[w] \notin Busy
  PROVE  /\ Queued' = Queued - 1
         /\ Cardinality(BusyWorkers') = Cardinality(BusyWorkers) + 1
         /\ Senders' = Senders
<1> DEFINE l == IF Head(queue[p]).id THEN "gate" ELSE "store"
<1>1. /\ queue[p] \in Seq(Item) /\ queue[p] # <<>>
      /\ queue' = [queue EXCEPT ![p] = Tail(queue[p])]
      /\ Goto(w, l)
  BY DEF TypeOK, Take
<1>2. Queued' = Queued - 1
  <2> DEFINE s == queue[p]
             t == Tail(s)
  <2>1. s \in Seq(Item) /\ s # <<>>
    BY <1>1
  <2>2. t \in Seq(Item) /\ Len(t) = Len(s) - 1 /\ Len(s) \in Nat
    <3> HIDE DEF s
    <3> QED BY <2>1
  <2>3. queue' = [queue EXCEPT ![p] = t]
    BY <1>1
  <2> HIDE DEF t
  <2>4. Queued' = Queued + (Len(t) - Len(queue[p]))
    BY <2>2, <2>3, QueueCount
  <2> QED BY <2>2, <2>4, CountTypes
<1>4. l \in Busy /\ l # "send" /\ pc[w] # "send"
  BY DEF Busy
<1> HIDE DEF l
<1>5. Cardinality(BusyWorkers') = Cardinality(BusyWorkers) + 1
  BY <1>1, <1>4, BusyCount
<1>6. Senders' = Senders
  BY <1>1, <1>4, SendCount
<1> QED BY <1>2, <1>5, <1>6

-----------------------------------------------------------------------------
(* The inductive step.                                                     *)

\* A worker moved along its loop is still at a module, with something to
\* send whenever it sends.
LEMMA NextLoopInside == CountInv /\ [Next]_vars => LoopInside'
<1> SUFFICES ASSUME CountInv, [Next]_vars, NEW v \in Workers,
                    pc'[v] \in InModule
             PROVE  AtModule(v)'
  BY DEF LoopInside
<1>0. TypeOK /\ LoopInside /\ pc \in [Workers -> PCs] /\ mi \in [Workers -> 1..(Len(Modules) + 1)]
  BY DEF CountInv, TypeOK
<1>1. CASE pc'[v] = pc[v] /\ mi'[v] = mi[v]
  BY <1>0, <1>1 DEF LoopInside, AtModule
<1>2. ASSUME NewScheduler PROVE FALSE
  BY <1>2 DEF NewScheduler, InModule
<1>3. ASSUME NEW w \in Workers, NEW l, Goto(w, l), UNCHANGED mi,
             l \in InModule => AtModule(w)
      PROVE  AtModule(v)'
  BY <1>0, <1>3 DEF Goto, LoopInside, AtModule
<1>4. ASSUME NEW w \in Workers, NEW l, Goto(w, l), NEW j, mi' = [mi EXCEPT ![w] = j],
             l \notin InModule
      PROVE  AtModule(v)'
  BY <1>0, <1>4 DEF Goto, LoopInside, AtModule
<1>5. ASSUME NEW w \in Workers, NextModule(w) PROVE AtModule(v)'
  <2>1. /\ Goto(w, "gate") /\ "gate" \notin InModule
        /\ \E j : mi' = [mi EXCEPT ![w] = j]
    BY <1>5 DEF NextModule, InModule
  <2> QED BY <2>1, <1>4
<1>6. ASSUME NEW w \in Workers, NEW p \in Prios, Take(w, p) PROVE AtModule(v)'
  <2> DEFINE l == IF Head(queue[p]).id THEN "gate" ELSE "store"
  <2>1. /\ Goto(w, l) /\ l \notin InModule
        /\ \E j : mi' = [mi EXCEPT ![w] = j]
    BY <1>6 DEF Take, InModule
  <2> HIDE DEF l
  <2> QED BY <2>1, <1>4
<1>7. CASE UNCHANGED <<pc, mi>>
  BY <1>1, <1>7
<1>8. CASE Start \/ Crash
  BY <1>2, <1>8 DEF Start, Crash
<1>9. CASE SpawnWorkers
  BY <1>9 DEF SpawnWorkers, InModule
<1>10. ASSUME NEW w \in Workers, WorkerStep(w) PROVE AtModule(v)'
  <2>1. CASE ResumeCheck(w)
    BY <1>3, <2>1 DEF ResumeCheck, InModule
  <2>2. ASSUME NEW p \in Prios, Poll(w, p) PROVE AtModule(v)'
    <3>1. CASE Take(w, p)
      BY <1>6, <3>1
    <3>2. CASE Goto(w, "exit") /\ UNCHANGED <<queue, item, mi>>
      BY <1>3, <3>2 DEF InModule
    <3>3. CASE Goto(w, AfterPoll[p]) /\ UNCHANGED <<queue, item, mi>>
      <4>1. AfterPoll[p] \notin InModule
        BY DEF AfterPoll, Prios, InModule
      <4> QED BY <1>3, <3>3, <4>1
    <3> QED BY <2>2, <3>1, <3>2, <3>3 DEF Poll
  <2>3. CASE Select(w)
    <3>1. CASE Goto(w, "exit") /\ UNCHANGED <<queue, item, mi>>
      BY <1>3, <3>1 DEF InModule
    <3> QED BY <1>6, <2>3, <3>1 DEF Select
  <2>4. CASE StoreEvent(w)
    BY <1>3, <2>4 DEF StoreEvent, InModule
  <2>5. CASE Gate(w)
    BY <1>3, <2>5 DEF Gate
  <2>6. CASE CheckpointStatus(w)
    <3>1. AtModule(w)
      BY <1>0, <2>6 DEF CheckpointStatus, LoopInside, InModule
    <3> QED BY <1>3, <1>5, <2>6, <3>1 DEF CheckpointStatus
  <2>7. CASE MarkRunning(w)
    <3>1. AtModule(w)
      BY <1>0, <2>7 DEF MarkRunning, LoopInside, InModule
    <3> QED BY <1>3, <1>5, <2>7, <3>1 DEF MarkRunning
  <2>8. CASE HandleOk(w)
    <3>1. AtModule(w)
      BY <1>0, <2>8 DEF HandleOk, LoopInside, InModule
    <3> QED BY <1>3, <2>8, <3>1 DEF HandleOk
  <2>9. CASE HandleFail(w)
    BY <1>5, <2>9 DEF HandleFail
  <2>10. CASE MarkCompleted(w)
    <3>1. AtModule(w)
      BY <1>0, <2>10 DEF MarkCompleted, LoopInside, InModule
    <3> QED BY <1>3, <2>10, <3>1 DEF MarkCompleted
  <2>11. CASE Emit(w)
    <3>1. AtModule(w)
      BY <1>0, <2>11 DEF Emit, LoopInside, InModule
    <3> QED BY <1>3, <1>5, <1>7, <2>11, <3>1 DEF Emit
  <2>12. CASE Send(w)
    <3>1. AtModule(w)
      BY <1>0, <2>12 DEF Send, LoopInside, InModule
    <3> QED BY <1>3, <2>12, <3>1 DEF Send
  <2>13. CASE FinishEvent(w)
    BY <1>3, <2>13 DEF FinishEvent, InModule
  <2> QED BY <1>10, <2>1, <2>2, <2>3, <2>4, <2>5, <2>6, <2>7, <2>8, <2>9, <2>10,
             <2>11, <2>12, <2>13 DEF WorkerStep
<1>11. CASE SetupFails \/ LoadBacklog \/ LoadNext \/ LoadSend \/ CloseQueues
            \/ JoinWorkers \/ FinishScan \/ CheckHealth
  BY <1>7, <1>11 DEF SetupFails, LoadBacklog, LoadNext, LoadSend, CloseQueues,
         JoinWorkers, FinishScan, CheckHealth, workers
<1>12. CASE Pause \/ Resume \/ Cancel \/ UNCHANGED vars
  BY <1>7, <1>12 DEF Pause, Resume, Cancel, vars, workers
<1> QED BY <1>8, <1>9, <1>10, <1>11, <1>12 DEF Next, EngineStep, AtRest


\* A worker's step: it exists, it moves nothing but itself along, and the
\* engine stays where it is.
LEMMA WorkerFrame ==
  ASSUME TypeOK, NEW w \in Workers, WorkerStep(w)
  PROVE  /\ UNCHANGED <<main, backlog, closed>>
         /\ pc[w] # "none"
         /\ \E l : Goto(w, l)
<1>0. pc \in [Workers -> PCs]
  BY DEF TypeOK
<1>1. UNCHANGED pc => Goto(w, pc[w])
  BY <1>0 DEF Goto
<1>2. ASSUME NextModule(w) PROVE \E l : Goto(w, l)
  BY <1>2 DEF NextModule
<1>3. ASSUME NEW p \in Prios, Take(w, p) PROVE \E l : Goto(w, l)
  BY <1>3 DEF Take
<1>4. CASE ResumeCheck(w)
  BY <1>4 DEF ResumeCheck, volatile
<1>5. ASSUME NEW p \in Prios, Poll(w, p)
      PROVE  UNCHANGED <<main, backlog, closed>> /\ pc[w] # "none" /\ \E l : Goto(w, l)
  <2>1. pc[w] # "none"
    BY <1>5 DEF Poll, Prios
  <2> QED BY <1>3, <1>5, <2>1 DEF Poll
<1>6. CASE Select(w)
  BY <1>3, <1>6 DEF Select
<1>7. CASE StoreEvent(w)
  BY <1>7 DEF StoreEvent
<1>8. CASE Gate(w)
  BY <1>8 DEF Gate
<1>9. CASE CheckpointStatus(w)
  BY <1>2, <1>9 DEF CheckpointStatus
<1>10. CASE MarkRunning(w)
  BY <1>2, <1>10 DEF MarkRunning
<1>11. CASE HandleOk(w)
  BY <1>11 DEF HandleOk, volatile
<1>12. CASE HandleFail(w)
  BY <1>2, <1>12 DEF HandleFail
<1>13. CASE MarkCompleted(w)
  BY <1>13 DEF MarkCompleted, volatile
<1>14. CASE Emit(w)
  BY <1>1, <1>2, <1>14 DEF Emit
<1>15. CASE Send(w)
  BY <1>15 DEF Send
<1>16. CASE FinishEvent(w)
  BY <1>16 DEF FinishEvent
<1> QED BY <1>4, <1>5, <1>6, <1>7, <1>8, <1>9, <1>10, <1>11, <1>12, <1>13,
           <1>14, <1>15, <1>16 DEF WorkerStep

\* Before SpawnWorkers there is no worker.
LEMMA NextNoWorkersYet == CountInv /\ [Next]_vars => NoWorkersYet'
<1> SUFFICES ASSUME CountInv, [Next]_vars PROVE NoWorkersYet'
  OBVIOUS
<1>0. TypeOK /\ NoWorkersYet
  BY DEF CountInv
<1>1. ASSUME NewScheduler PROVE NoWorkersYet'
  BY <1>1 DEF NewScheduler, NoWorkersYet
<1>2. CASE Start \/ Crash
  BY <1>1, <1>2 DEF Start, Crash
<1>3. ASSUME UNCHANGED pc,
             main' \in {"starting", "loading", "loadsend"} =>
                main \in {"starting", "loading", "loadsend"}
      PROVE  NoWorkersYet'
  BY <1>0, <1>3 DEF NoWorkersYet
<1>4. CASE SetupFails \/ LoadBacklog \/ LoadNext \/ LoadSend \/ CloseQueues
           \/ JoinWorkers \/ FinishScan \/ CheckHealth
  BY <1>3, <1>4 DEF SetupFails, LoadBacklog, LoadNext, LoadSend, CloseQueues,
         JoinWorkers, FinishScan, CheckHealth, workers
<1>5. CASE SpawnWorkers
  BY <1>5 DEF SpawnWorkers, NoWorkersYet
<1>6. CASE Pause \/ Resume \/ Cancel \/ UNCHANGED vars
  BY <1>3, <1>6 DEF Pause, Resume, Cancel, vars, workers, volatile
<1>7. ASSUME NEW w \in Workers, WorkerStep(w) PROVE NoWorkersYet'
  BY <1>0, <1>7, WorkerFrame DEF NoWorkersYet
<1> QED BY <1>2, <1>4, <1>5, <1>6, <1>7 DEF Next, EngineStep, AtRest

\* The channels are closed after the workers were spawned.
LEMMA NextClosedLast == CountInv /\ [Next]_vars => ClosedLast'
<1> SUFFICES ASSUME CountInv, [Next]_vars PROVE ClosedLast'
  OBVIOUS
<1>0. TypeOK /\ ClosedLast
  BY DEF CountInv
<1>1. CASE Start \/ Crash
  BY <1>1 DEF Start, Crash, NewScheduler, ClosedLast
<1>2. CASE SetupFails \/ LoadBacklog \/ LoadNext \/ LoadSend \/ SpawnWorkers
           \/ CloseQueues \/ JoinWorkers \/ FinishScan
  BY <1>0, <1>2 DEF SetupFails, LoadBacklog, LoadNext, LoadSend, SpawnWorkers,
         CloseQueues, JoinWorkers, FinishScan, ClosedLast
<1>3. CASE CheckHealth
  BY <1>0, <1>3 DEF CheckHealth, ClosedLast
<1>4. CASE Pause \/ Resume \/ Cancel \/ UNCHANGED vars
  BY <1>0, <1>4 DEF Pause, Resume, Cancel, vars, volatile, ClosedLast
<1>5. ASSUME NEW w \in Workers, WorkerStep(w) PROVE ClosedLast'
  BY <1>0, <1>5, WorkerFrame DEF ClosedLast
<1> QED BY <1>1, <1>2, <1>3, <1>4, <1>5 DEF Next, EngineStep, AtRest

\* Whoever is sending has something to send.
LEMMA NextSendPending == CountInv /\ [Next]_vars => SendPending'
<1> SUFFICES ASSUME CountInv, [Next]_vars PROVE SendPending'
  OBVIOUS
<1>0. /\ TypeOK /\ SendPending /\ pc \in [Workers -> PCs]
      /\ out \in [Workers -> Seq(Events)]
  BY DEF CountInv, TypeOK
<1>1. CASE Start \/ Crash
  BY <1>1 DEF Start, Crash, NewScheduler, SendPending
<1>2. ASSUME UNCHANGED <<pc, out>>, main' = "loadsend" => backlog' # <<>>
      PROVE  SendPending'
  BY <1>0, <1>2 DEF SendPending
<1>3. CASE SetupFails \/ LoadBacklog \/ LoadNext \/ LoadSend \/ CloseQueues
           \/ JoinWorkers \/ FinishScan
  BY <1>0, <1>2, <1>3 DEF SetupFails, LoadBacklog, LoadNext, LoadSend,
         CloseQueues, JoinWorkers, FinishScan, workers
<1>4. CASE CheckHealth
  BY <1>2, <1>4 DEF CheckHealth, workers
<1>5. CASE SpawnWorkers
  BY <1>5 DEF SpawnWorkers, SendPending
<1>6. CASE Pause \/ Resume \/ Cancel \/ UNCHANGED vars
  BY <1>0, <1>2, <1>6 DEF Pause, Resume, Cancel, vars, volatile, workers,
         SendPending
<1>7. ASSUME NEW w \in Workers, WorkerStep(w) PROVE SendPending'
  <2>0. UNCHANGED <<main, backlog>>
    BY <1>0, <1>7, WorkerFrame
  <2>1. ASSUME NEW l, Goto(w, l), UNCHANGED out, l = "send" => out[w] # <<>>
        PROVE  SendPending'
    BY <1>0, <2>0, <2>1 DEF Goto, SendPending
  <2>2. ASSUME NEW l, Goto(w, l), NEW s, out' = [out EXCEPT ![w] = s], l # "send"
        PROVE  SendPending'
    BY <1>0, <2>0, <2>2 DEF Goto, SendPending
  <2>3. ASSUME NextModule(w), UNCHANGED out PROVE SendPending'
    BY <2>1, <2>3 DEF NextModule
  <2>4. ASSUME NEW p \in Prios, Take(w, p), UNCHANGED out PROVE SendPending'
    <3> DEFINE l == IF Head(queue[p]).id THEN "gate" ELSE "store"
    <3>1. Goto(w, l) /\ l # "send"
      BY <2>4 DEF Take
    <3> HIDE DEF l
    <3> QED BY <2>1, <2>4, <3>1
  <2>5. CASE ResumeCheck(w)
    BY <2>1, <2>5 DEF ResumeCheck
  <2>6. ASSUME NEW p \in Prios, Poll(w, p) PROVE SendPending'
    <3>1. AfterPoll[p] # "send"
      BY DEF AfterPoll, Prios
    <3> QED BY <2>1, <2>4, <2>6, <3>1 DEF Poll
  <2>7. CASE Select(w)
    BY <2>1, <2>4, <2>7 DEF Select
  <2>8. CASE StoreEvent(w)
    BY <2>1, <2>8 DEF StoreEvent
  <2>9. CASE Gate(w)
    BY <2>1, <2>9 DEF Gate
  <2>10. CASE CheckpointStatus(w)
    BY <2>1, <2>3, <2>10 DEF CheckpointStatus
  <2>11. CASE MarkRunning(w)
    BY <2>1, <2>3, <2>11 DEF MarkRunning
  <2>12. CASE HandleOk(w)
    <3> DEFINE s == Emits[Current(w)][item[w].e]
    <3>1. Goto(w, "complete") /\ out' = [out EXCEPT ![w] = s]
      BY <2>12 DEF HandleOk
    <3> HIDE DEF s
    <3> QED BY <1>0, <2>0, <3>1 DEF Goto, SendPending
  <2>13. CASE HandleFail(w)
    BY <2>3, <2>13 DEF HandleFail
  <2>14. CASE MarkCompleted(w)
    BY <2>1, <2>14 DEF MarkCompleted
  <2>15. CASE Emit(w)
    <3>1. CASE NextModule(w) /\ UNCHANGED out
      BY <2>3, <3>1
    <3>2. CASE out' = [out EXCEPT ![w] = Tail(@)] /\ UNCHANGED pc
      <4>1. Goto(w, pc[w]) /\ pc[w] # "send" /\ out' = [out EXCEPT ![w] = Tail(out[w])]
        BY <1>0, <2>15, <3>2 DEF Emit, Goto
      <4> QED BY <2>2, <4>1
    <3>3. CASE out[w] # <<>> /\ Goto(w, "send") /\ UNCHANGED out
      BY <2>1, <3>3
    <3> QED BY <2>15, <3>1, <3>2, <3>3 DEF Emit
  <2>16. CASE Send(w)
    <3> DEFINE s == Tail(out[w])
    <3>1. Goto(w, "emit") /\ out' = [out EXCEPT ![w] = s]
      BY <2>16 DEF Send
    <3> HIDE DEF s
    <3> QED BY <1>0, <2>0, <3>1 DEF Goto, SendPending
  <2>17. CASE FinishEvent(w)
    BY <2>1, <2>17 DEF FinishEvent
  <2> QED BY <1>7, <2>5, <2>6, <2>7, <2>8, <2>9, <2>10, <2>11, <2>12, <2>13,
             <2>14, <2>15, <2>16, <2>17 DEF WorkerStep
<1> QED BY <1>1, <1>3, <1>4, <1>5, <1>6, <1>7 DEF Next, EngineStep, AtRest


\* What the WaitGroup should count.
Total == Queued + Cardinality(BusyWorkers) + Cardinality(Senders)

TotalIsCount == Total \in Nat

LEMMA TotalType == TypeOK => Total \in Nat
BY CountTypes DEF Total

LEMMA TotalTypeNext == TypeOK' => TotalIsCount'
<1>1. TypeOK => TotalIsCount
  BY TotalType DEF TotalIsCount
<1> QED BY <1>1, PTL

\* A worker's step keeps the WaitGroup in step with what it counts.
LEMMA WorkerCount ==
  ASSUME CountInv, NEW w \in Workers, WorkerStep(w)
  PROVE  wg' - Total' = wg - Total
<1>0. TypeOK /\ wg \in Int
  BY DEF CountInv, TypeOK
<1>1. /\ Queued \in Nat
      /\ Cardinality(BusyWorkers) \in Nat
      /\ Cardinality(Senders) \in Nat
  BY <1>0, CountTypes
<1>2. ASSUME UNCHANGED queue PROVE Queued' = Queued
  BY <1>2 DEF Queued
\* Moving inside the loop over the modules, or outside of it.
<1>3. ASSUME NEW l, Goto(w, l), l # "send", pc[w] # "send",
             pc[w] \in Busy <=> l \in Busy, UNCHANGED <<queue, wg>>
      PROVE  wg' - Total' = wg - Total
  <2>1. BusyWorkers' = BusyWorkers /\ Senders' = Senders
    BY <1>0, <1>3, BusyCount, SendCount
  <2> QED BY <1>2, <1>3, <2>1 DEF Total
<1>4. ASSUME NextModule(w), pc[w] \in Busy, pc[w] # "send", UNCHANGED <<queue, wg>>
      PROVE  wg' - Total' = wg - Total
  <2>1. Goto(w, "gate") /\ "gate" \in Busy
    BY <1>4 DEF NextModule, Busy
  <2> QED BY <1>3, <1>4, <2>1
<1>5. ASSUME NEW p \in Prios, Take(w, p), pc[w] \notin Busy, UNCHANGED wg
      PROVE  wg' - Total' = wg - Total
  <2>1. /\ Queued' = Queued - 1
        /\ Cardinality(BusyWorkers') = Cardinality(BusyWorkers) + 1
        /\ Senders' = Senders
    BY <1>0, <1>5, TakeCount
  <2> QED BY <1>0, <1>1, <1>5, <2>1 DEF Total
\* Leaving the loop: wg.Done.
<1>6. ASSUME NEW l, Goto(w, l), l \notin Busy, pc[w] = "gate", UNCHANGED queue,
             wgDone
      PROVE  wg' - Total' = wg - Total
  <2>0. "gate" \in Busy /\ "send" \in Busy
    BY DEF Busy
  <2>1. Cardinality(BusyWorkers') = Cardinality(BusyWorkers) - 1 /\ Senders' = Senders
    BY <1>0, <1>6, <2>0, BusyCount, SendCount
  <2>2. wg' = wg - 1 /\ Queued' = Queued
    BY <1>2, <1>6 DEF wgDone
  <2>3. Total' = Total - 1
    BY <1>1, <2>1, <2>2 DEF Total
  <2> QED BY <1>0, <2>2, <2>3, TotalType
<1>7. CASE ResumeCheck(w)
  <2>1. pc[w] = "resume" /\ UNCHANGED <<queue, wg>>
    BY <1>7 DEF ResumeCheck, volatile
  <2>2. "resume" \notin Busy /\ "high" \notin Busy /\ "exit" \notin Busy
    BY DEF Busy
  <2> QED BY <1>3, <1>7, <2>1, <2>2 DEF ResumeCheck
<1>8. ASSUME NEW p \in Prios, Poll(w, p) PROVE wg' - Total' = wg - Total
  <2>1. pc[w] \notin Busy /\ pc[w] # "send" /\ UNCHANGED wg
    BY <1>8 DEF Poll, Prios, Busy
  <2>2. AfterPoll[p] \notin Busy /\ AfterPoll[p] # "send" /\ "exit" \notin Busy
    BY DEF AfterPoll, Prios, Busy
  <2> QED BY <1>3, <1>5, <1>8, <2>1, <2>2 DEF Poll
<1>9. CASE Select(w)
  <2>1. pc[w] \notin Busy /\ pc[w] # "send" /\ UNCHANGED wg /\ "exit" \notin Busy
    BY <1>9 DEF Select, Busy
  <2> QED BY <1>3, <1>5, <1>9, <2>1 DEF Select
<1>10. CASE StoreEvent(w)
  <2>1. /\ pc[w] \in Busy /\ pc[w] # "send" /\ UNCHANGED <<queue, wg>>
        /\ "gate" \in Busy /\ Goto(w, "gate")
    BY <1>10 DEF StoreEvent, Busy
  <2> QED BY <1>3, <2>1
<1>11. CASE Gate(w)
  <2>1. /\ pc[w] = "gate" /\ UNCHANGED queue
        /\ "gate" \in Busy /\ "check" \in Busy /\ "exit" \notin Busy
    BY <1>11 DEF Gate, Busy
  <2>2. \/ Goto(w, "check") /\ UNCHANGED wg
        \/ Goto(w, "exit") /\ wgDone
    BY <1>11 DEF Gate
  <2> QED BY <1>3, <1>6, <2>1, <2>2
<1>12. CASE CheckpointStatus(w)
  <2>1. pc[w] \in Busy /\ pc[w] # "send" /\ UNCHANGED <<queue, wg>> /\ "mark" \in Busy
    BY <1>12 DEF CheckpointStatus, Busy
  <2> QED BY <1>3, <1>4, <1>12, <2>1 DEF CheckpointStatus
<1>13. CASE MarkRunning(w)
  <2>1. pc[w] \in Busy /\ pc[w] # "send" /\ UNCHANGED <<queue, wg>> /\ "handle" \in Busy
    BY <1>13 DEF MarkRunning, Busy
  <2> QED BY <1>3, <1>4, <1>13, <2>1 DEF MarkRunning
<1>14. CASE HandleOk(w)
  <2>1. /\ pc[w] \in Busy /\ pc[w] # "send" /\ UNCHANGED <<queue, wg>>
        /\ "complete" \in Busy /\ Goto(w, "complete")
    BY <1>14 DEF HandleOk, Busy, volatile
  <2> QED BY <1>3, <2>1
<1>15. CASE HandleFail(w)
  <2>1. pc[w] \in Busy /\ pc[w] # "send" /\ UNCHANGED <<queue, wg>> /\ NextModule(w)
    BY <1>15 DEF HandleFail, Busy
  <2> QED BY <1>4, <2>1
<1>16. CASE MarkCompleted(w)
  <2>1. /\ pc[w] \in Busy /\ pc[w] # "send" /\ UNCHANGED <<queue, wg>>
        /\ "emit" \in Busy /\ Goto(w, "emit")
    BY <1>16 DEF MarkCompleted, Busy, volatile
  <2> QED BY <1>3, <2>1
<1>17. CASE Emit(w)
  <2>1. pc[w] = "emit" /\ UNCHANGED queue /\ "emit" \in Busy /\ "send" \in Busy
    BY <1>17 DEF Emit, Busy
  <2>2. CASE NextModule(w) /\ UNCHANGED wg
    BY <1>4, <2>1, <2>2
  <2>3. CASE UNCHANGED <<wg, pc>>
    BY <2>1, <2>3 DEF Total, Queued, BusyWorkers, Senders
  <2>4. CASE wgAdd /\ Goto(w, "send")
    <3>1. BusyWorkers' = BusyWorkers /\ Cardinality(Senders') = Cardinality(Senders) + 1
      BY <1>0, <2>1, <2>4, BusyCount, SendCount
    <3>2. wg' = wg + 1 /\ Queued' = Queued
      BY <1>2, <2>1, <2>4 DEF wgAdd
    <3>3. Total' = Total + 1
      BY <1>1, <3>1, <3>2 DEF Total
    <3> QED BY <1>0, <3>2, <3>3, TotalType
  <2> QED BY <1>17, <2>2, <2>3, <2>4 DEF Emit
<1>18. CASE Send(w)
  <2>1. pc[w] = "send" /\ Goto(w, "emit") /\ UNCHANGED wg
    BY <1>18 DEF Send
  <2>2. "emit" \in Busy /\ "send" \in Busy
    BY DEF Busy
  <2>3. BusyWorkers' = BusyWorkers /\ Cardinality(Senders') = Cardinality(Senders) - 1
    BY <1>0, <2>1, <2>2, BusyCount, SendCount
  <2>4. Queued' = Queued + 1
    <3> DEFINE e == Head(out[w])
               p == priorityFor(e)
               i == [e |-> e, id |-> FALSE]
               s == queue[p]
               q == Append(s, i)
    <3>1. out[w] \in Seq(Events) /\ out[w] # <<>>
      BY <1>0, <1>18 DEF CountInv, TypeOK, Send, SendPending
    <3>2. e \in Events
      BY <3>1
    <3>3. p \in Prios
      BY DEF priorityFor, Prios
    <3>4. i \in Item
      BY <3>2 DEF Item
    <3>5. queue' = [queue EXCEPT ![p] = q]
      BY <1>18 DEF Send
    <3> HIDE DEF e, p, i
    <3>6. s \in Seq(Item)
      BY <1>0, <3>3 DEF TypeOK
    <3>7. q \in Seq(Item) /\ Len(q) = Len(s) + 1 /\ Len(s) \in Nat
      <4> HIDE DEF s
      <4> QED BY <3>4, <3>6
    <3> HIDE DEF q
    <3>8. Queued' = Queued + (Len(q) - Len(queue[p]))
      BY <1>0, <3>3, <3>5, <3>7, QueueCount
    <3> QED BY <1>1, <3>7, <3>8
  <2> QED BY <1>0, <1>1, <2>1, <2>3, <2>4 DEF Total
<1>19. CASE FinishEvent(w)
  <2>1. /\ pc[w] = "gate" /\ UNCHANGED queue /\ "resume" \notin Busy
        /\ Goto(w, "resume") /\ wgDone
    BY <1>19 DEF FinishEvent, Busy
  <2> QED BY <1>6, <2>1
<1> QED BY <1>7, <1>8, <1>9, <1>10, <1>11, <1>12, <1>13, <1>14, <1>15, <1>16,
           <1>17, <1>18, <1>19 DEF WorkerStep


\* The engine's own sends are counted too.
Loading == IF main = "loadsend" THEN 1 ELSE 0

LEMMA NextWaitGroupExact == CountInv /\ [Next]_vars => WaitGroupExact'
<1> SUFFICES ASSUME CountInv, [Next]_vars PROVE WaitGroupExact'
  OBVIOUS
<1>0. TypeOK /\ wg \in Int /\ wg = Total + Loading
  BY DEF CountInv, TypeOK, WaitGroupExact, Total, Loading
<1>1. /\ Queued \in Nat
      /\ Cardinality(BusyWorkers) \in Nat
      /\ Cardinality(Senders) \in Nat
  BY <1>0, CountTypes
<1>2. Total \in Nat /\ Loading \in Nat
  BY <1>1 DEF Total, Loading
<1>3. SUFFICES wg' = Total' + Loading'
  BY DEF WaitGroupExact, Total, Loading
<1>4. ASSUME UNCHANGED <<pc, queue>> PROVE Total' = Total
  BY <1>4 DEF Total, Queued, BusyWorkers, Senders
<1>5. ASSUME UNCHANGED <<pc, queue, wg>>, main' = "loadsend" <=> main = "loadsend"
      PROVE  wg' = Total' + Loading'
  BY <1>0, <1>4, <1>5 DEF Loading
<1>6. ASSUME NewScheduler, main' # "loadsend" PROVE wg' = Total' + Loading'
  <2>1. BusyWorkers' = {} /\ Senders' = {}
    BY <1>6 DEF NewScheduler, BusyWorkers, Senders, Busy
  <2>2. Queued' = 0
    BY <1>6 DEF NewScheduler, Queued, EmptyQueue, Prios
  <2> QED BY <1>6, <2>1, <2>2, FS_EmptySet DEF Total, Loading, NewScheduler
<1>7. CASE Start \/ Crash
  BY <1>6, <1>7 DEF Start, Crash
<1>8. CASE SetupFails \/ LoadBacklog \/ CloseQueues \/ JoinWorkers \/ FinishScan
  BY <1>5, <1>8 DEF SetupFails, LoadBacklog, CloseQueues, JoinWorkers,
         FinishScan, workers
<1>9. CASE CheckHealth
  BY <1>5, <1>9 DEF CheckHealth, workers
<1>10. CASE LoadNext
  <2>1. UNCHANGED <<pc, queue>> /\ main = "loading"
    BY <1>10 DEF LoadNext, workers
  <2>2. \/ UNCHANGED <<wg, main>>
        \/ wg' = wg + 1 /\ main' = "loadsend"
    BY <1>10 DEF LoadNext, wgAdd
  <2> QED BY <1>0, <1>2, <1>4, <2>1, <2>2 DEF Loading
<1>11. CASE LoadSend
  <2> DEFINE i == Head(backlog)
             p == priorityFor(i.e)
             s == queue[p]
             q == Append(s, i)
  <2>1. /\ UNCHANGED <<pc, wg>> /\ main = "loadsend" /\ main' = "loading"
        /\ queue' = [queue EXCEPT ![p] = q]
    BY <1>11 DEF LoadSend, workers
  <2>2. backlog \in Seq(Item) /\ backlog # <<>>
    BY <1>0, <2>1 DEF CountInv, TypeOK, SendPending
  <2>3. i \in Item
    BY <2>2
  <2>4. p \in Prios
    BY DEF priorityFor, Prios
  <2> HIDE DEF i, p
  <2>5. s \in Seq(Item)
    BY <1>0, <2>4 DEF TypeOK
  <2>6. q \in Seq(Item) /\ Len(q) = Len(s) + 1 /\ Len(s) \in Nat
    <3> HIDE DEF s
    <3> QED BY <2>3, <2>5
  <2> HIDE DEF q
  <2>7. Queued' = Queued + (Len(q) - Len(queue[p]))
    BY <1>0, <2>1, <2>4, <2>6, QueueCount
  <2>8. Queued' = Queued + 1
    BY <1>1, <2>6, <2>7
  <2>9. BusyWorkers' = BusyWorkers /\ Senders' = Senders
    BY <2>1 DEF BusyWorkers, Senders
  <2> QED BY <1>0, <1>1, <2>1, <2>8, <2>9 DEF Total, Loading
<1>12. CASE SpawnWorkers
  <2>1. /\ UNCHANGED <<queue, wg>> /\ main = "loading" /\ main' = "waiting"
        /\ pc' = [w \in Workers |-> "resume"]
    BY <1>12 DEF SpawnWorkers
  <2>2. \A w \in Workers : pc[w] = "none"
    BY <2>1 DEF CountInv, NoWorkersYet
  <2>3. BusyWorkers' = BusyWorkers
    BY <2>1, <2>2 DEF BusyWorkers, Busy
  <2>4. Senders' = Senders
    BY <2>1, <2>2 DEF Senders
  <2>5. Queued' = Queued
    BY <2>1 DEF Queued
  <2> QED BY <1>0, <2>1, <2>3, <2>4, <2>5 DEF Total, Loading
<1>13. CASE Pause \/ Resume \/ Cancel \/ UNCHANGED vars
  BY <1>5, <1>13 DEF Pause, Resume, Cancel, vars, volatile, workers
<1>14. ASSUME NEW w \in Workers, WorkerStep(w) PROVE wg' = Total' + Loading'
  <2>1. UNCHANGED main /\ wg' - Total' = wg - Total
    BY <1>0, <1>14, WorkerFrame, WorkerCount
  <2>2. TypeOK'
    BY NextTypeOK
  <2>3. Total' \in Nat
    BY <2>2, TotalTypeNext DEF TotalIsCount
  <2>4. Total' \in Int /\ wg' \in Int
    BY <2>2, <2>3 DEF TypeOK
  <2>5. Loading' = Loading
    BY <2>1 DEF Loading
  <2>6. wg - Total = Loading
    BY <1>0, <1>2
  <2>7. \A a, b, c \in Int : a - b = c => a = b + c
    OBVIOUS
  <2>8. wg' - Total' = Loading' /\ Loading' \in Int
    BY <1>2, <2>1, <2>5, <2>6
  <2> QED BY <2>4, <2>7, <2>8
<1> QED BY <1>7, <1>8, <1>9, <1>10, <1>11, <1>12, <1>13, <1>14
           DEF Next, EngineStep, AtRest

LEMMA NextCloseIsQuiet == CountInv /\ [Next]_vars => CloseIsQuiet'
<1> SUFFICES ASSUME CountInv, [Next]_vars, closed'
             PROVE  BusyWorkers' = {} /\ \A p \in Prios : queue'[p] = <<>>
  BY DEF CloseIsQuiet
<1>0. TypeOK /\ CloseIsQuiet
  BY DEF CountInv
<1>1. ASSUME closed, UNCHANGED <<pc, queue>>
      PROVE  BusyWorkers' = {} /\ \A p \in Prios : queue'[p] = <<>>
  BY <1>0, <1>1 DEF CloseIsQuiet, BusyWorkers
<1>2. CASE Start \/ Crash
  BY <1>2 DEF Start, Crash, NewScheduler
<1>3. CASE SetupFails \/ LoadBacklog \/ JoinWorkers \/ FinishScan
  BY <1>1, <1>3 DEF SetupFails, LoadBacklog, JoinWorkers, FinishScan, workers
<1>4. CASE CheckHealth
  BY <1>1, <1>4 DEF CheckHealth, workers
<1>5. CASE LoadNext \/ LoadSend \/ SpawnWorkers
  BY <1>5 DEF LoadNext, LoadSend, SpawnWorkers, CountInv, ClosedLast
\* wg.Wait has returned: the WaitGroup counts nothing.
<1>6. CASE CloseQueues
  <2>1. UNCHANGED <<pc, queue>> /\ wg = 0 /\ main = "waiting"
    BY <1>6 DEF CloseQueues, wgWait, workers
  <2>2. Queued + Cardinality(BusyWorkers) + Cardinality(Senders) = 0
    <3>1. wg = Queued + Cardinality(BusyWorkers) + Cardinality(Senders) + 0
      BY <2>1 DEF CountInv, WaitGroupExact
    <3> QED BY <1>0, <2>1, <3>1, CountTypes
  <2>3. Queued = 0 /\ Cardinality(BusyWorkers) = 0
    BY <1>0, <2>2, CountTypes
  <2>4. BusyWorkers = {} /\ \A p \in Prios : queue[p] = <<>>
    BY <1>0, <2>3, CountTypes
  <2> QED BY <2>1, <2>4 DEF BusyWorkers
<1>7. CASE Pause \/ Resume \/ Cancel \/ UNCHANGED vars
  BY <1>1, <1>7 DEF Pause, Resume, Cancel, vars, volatile, workers
\* A worker finds nothing more to take, and is not inside its loop.
<1>8. ASSUME NEW w \in Workers, WorkerStep(w)
      PROVE  BusyWorkers' = {} /\ \A p \in Prios : queue'[p] = <<>>
  <2>1. closed /\ BusyWorkers = {} /\ \A p \in Prios : queue[p] = <<>>
    BY <1>0, <1>8, WorkerFrame DEF CloseIsQuiet
  <2>2. pc[w] \notin Busy
    BY <2>1 DEF BusyWorkers
  <2>3. ASSUME NEW l, Goto(w, l), l \notin Busy, UNCHANGED queue
        PROVE  BusyWorkers' = {} /\ \A p \in Prios : queue'[p] = <<>>
    BY <1>0, <2>1, <2>2, <2>3, BusyCount
  <2>4. \A p \in Prios : ~Take(w, p)
    BY <2>1 DEF Take
  <2>5. "high" \notin Busy /\ "exit" \notin Busy
    BY DEF Busy
  <2>6. CASE ResumeCheck(w)
    BY <2>3, <2>5, <2>6 DEF ResumeCheck, volatile
  <2>7. ASSUME NEW p \in Prios, Poll(w, p)
        PROVE  BusyWorkers' = {} /\ \A r \in Prios : queue'[r] = <<>>
    <3>1. AfterPoll[p] \notin Busy
      BY DEF AfterPoll, Prios, Busy
    <3> QED BY <2>3, <2>4, <2>5, <2>7, <3>1 DEF Poll
  <2>8. CASE Select(w)
    BY <2>3, <2>4, <2>5, <2>8 DEF Select
  <2>9. ~( \/ StoreEvent(w) \/ Gate(w) \/ CheckpointStatus(w) \/ MarkRunning(w)
           \/ HandleOk(w) \/ HandleFail(w) \/ MarkCompleted(w)
           \/ Emit(w) \/ Send(w) \/ FinishEvent(w))
    BY <2>2 DEF StoreEvent, Gate, CheckpointStatus, MarkRunning, HandleOk,
           HandleFail, MarkCompleted, Emit, Send, FinishEvent, Busy
  <2> QED BY <1>8, <2>6, <2>7, <2>8, <2>9 DEF WorkerStep
<1> QED BY <1>2, <1>3, <1>4, <1>5, <1>6, <1>7, <1>8 DEF Next, EngineStep, AtRest

LEMMA InitCountInv == Init => CountInv
<1> SUFFICES ASSUME Init PROVE CountInv
  OBVIOUS
<1>1. TypeOK
  BY InitTypeOK
<1>2. NoWorkersYet /\ SendPending /\ LoopInside /\ ClosedLast
  BY DEF Init, NoWorkersYet, SendPending, LoopInside, InModule, ClosedLast
<1>3. BusyWorkers = {} /\ Senders = {}
  BY DEF Init, BusyWorkers, Senders, Busy
<1>4. Queued = 0
  BY DEF Init, Queued, EmptyQueue, Prios
<1>5. WaitGroupExact
  BY <1>3, <1>4, FS_EmptySet DEF Init, WaitGroupExact
<1>6. CloseIsQuiet
  BY DEF Init, CloseIsQuiet
<1> QED BY <1>1, <1>2, <1>5, <1>6 DEF CountInv

LEMMA CountInvariant == Spec => []CountInv
<1>1. CountInv /\ [Next]_vars => CountInv'
  BY NextTypeOK, NextNoWorkersYet, NextSendPending, NextLoopInside,
     NextClosedLast, NextWaitGroupExact, NextCloseIsQuiet DEF CountInv
<1> QED BY <1>1, InitCountInv, PTL DEF Spec

-----------------------------------------------------------------------------
(* Checkpoints and pausing.                                                *)

\* A worker's step leaves the other workers alone.
LEMMA WorkerOthers ==
  ASSUME TypeOK, NEW w \in Workers, WorkerStep(w), NEW v \in Workers, v # w
  PROVE  /\ pc'[v] = pc[v] /\ mi'[v] = mi[v]
         /\ item'[v] = item[v] /\ late'[v] = late[v]
<1>0. /\ pc \in [Workers -> PCs] /\ item \in [Workers -> Item]
      /\ mi \in [Workers -> 1..(Len(Modules) + 1)] /\ late \in [Workers -> Nat]
  BY DEF TypeOK
<1>1. pc'[v] = pc[v]
  BY <1>0, WorkerFrame DEF Goto
<1>2. ASSUME NextModule(w) PROVE mi'[v] = mi[v]
  BY <1>0, <1>2 DEF NextModule
<1>3. ASSUME NEW p \in Prios, Take(w, p) PROVE mi'[v] = mi[v] /\ item'[v] = item[v]
  BY <1>0, <1>3 DEF Take
<1>4. ASSUME CountLate(w) PROVE late'[v] = late[v]
  BY <1>0, <1>4 DEF CountLate
<1>5. CASE ResumeCheck(w) \/ MarkCompleted(w) \/ Gate(w) \/ Send(w) \/ FinishEvent(w)
  BY <1>1, <1>5 DEF ResumeCheck, MarkCompleted, Gate, Send, FinishEvent, history
<1>6. CASE CheckpointStatus(w) \/ MarkRunning(w) \/ Emit(w)
  BY <1>1, <1>2, <1>6 DEF CheckpointStatus, MarkRunning, Emit, history
<1>7. CASE (\E p \in Prios : Poll(w, p)) \/ Select(w)
  BY <1>1, <1>3, <1>7 DEF Poll, Select, history
<1>8. CASE StoreEvent(w)
  BY <1>0, <1>1, <1>8 DEF StoreEvent, history
<1>9. CASE HandleOk(w)
  BY <1>1, <1>4, <1>9 DEF HandleOk
<1>10. CASE HandleFail(w)
  BY <1>1, <1>2, <1>4, <1>10 DEF HandleFail
<1> QED BY <1>5, <1>6, <1>7, <1>8, <1>9, <1>10 DEF WorkerStep

\* How a worker gets to the steps of a module.
LEMMA WorkerArrives ==
  ASSUME TypeOK, NEW w \in Workers, WorkerStep(w)
  PROVE  /\ pc'[w] = "check" => Gate(w) /\ status # "paused"
         /\ pc'[w] = "mark" => CheckpointStatus(w) /\ ~AlreadyDone(w) /\ UNCHANGED <<mi, item>>
         /\ pc'[w] = "handle" => MarkRunning(w) /\ UNCHANGED <<mi, item>>
         /\ pc'[w] = "complete" => HandleOk(w)
<1>0. pc \in [Workers -> PCs]
  BY DEF TypeOK
<1>1. ASSUME NEW l, Goto(w, l) PROVE pc'[w] = l
  BY <1>0, <1>1 DEF Goto
<1>2. ASSUME NextModule(w) PROVE pc'[w] = "gate"
  BY <1>1, <1>2 DEF NextModule
<1>3. ASSUME NEW p \in Prios, Take(w, p) PROVE pc'[w] \in {"gate", "store"}
  <2> DEFINE l == IF Head(queue[p]).id THEN "gate" ELSE "store"
  <2>1. Goto(w, l) /\ l \in {"gate", "store"}
    BY <1>3 DEF Take
  <2> HIDE DEF l
  <2> QED BY <1>1, <2>1
<1>4. CASE ResumeCheck(w) \/ StoreEvent(w) \/ MarkCompleted(w) \/ Send(w) \/ FinishEvent(w)
  BY <1>1, <1>4 DEF ResumeCheck, StoreEvent, MarkCompleted, Send, FinishEvent
<1>5. ASSUME NEW p \in Prios, Poll(w, p)
      PROVE  pc'[w] \notin {"check", "mark", "handle", "complete"}
  <2>1. AfterPoll[p] \in {"normal", "low", "select"}
    BY DEF AfterPoll, Prios
  <2> QED BY <1>1, <1>3, <1>5, <2>1 DEF Poll
<1>6. CASE Select(w)
  BY <1>1, <1>3, <1>6 DEF Select
<1>7. CASE Gate(w)
  BY <1>1, <1>7 DEF Gate, waitForScanResume
<1>8. CASE CheckpointStatus(w)
  BY <1>1, <1>2, <1>8 DEF CheckpointStatus
<1>9. CASE MarkRunning(w)
  BY <1>1, <1>2, <1>9 DEF MarkRunning
<1>10. CASE HandleOk(w)
  BY <1>1, <1>10 DEF HandleOk
<1>11. CASE HandleFail(w)
  BY <1>2, <1>11 DEF HandleFail
<1>12. CASE Emit(w)
  BY <1>1, <1>2, <1>12 DEF Emit
<1> QED BY <1>4, <1>5, <1>6, <1>7, <1>8, <1>9, <1>10, <1>11, <1>12 DEF WorkerStep

\* What a worker's step writes: checkpoints, and the history of the modules.
LEMMA WorkerWrites ==
  ASSUME TypeOK, NEW w \in Workers, WorkerStep(w)
  PROVE  /\ UNCHANGED <<status, doneBefore>>
         /\ handled \subseteq handled'
         /\ \/ UNCHANGED ck
            \/ pc[w] = "mark" /\ SetCheckpoint(w, "running")
            \/ pc[w] = "handle" /\ SetCheckpoint(w, "failed")
            \/ pc[w] = "complete" /\ SetCheckpoint(w, "completed")
         /\ \/ UNCHANGED late
            \/ /\ pc[w] = "handle" /\ CountLate(w)
               /\ pc'[w] \in {"complete", "gate"}
<1>0. pc \in [Workers -> PCs]
  BY DEF TypeOK
<1>1. CASE ResumeCheck(w) \/ (\E p \in Prios : Poll(w, p)) \/ Select(w)
           \/ StoreEvent(w) \/ Gate(w) \/ CheckpointStatus(w) \/ Emit(w)
           \/ Send(w) \/ FinishEvent(w)
  BY <1>1 DEF ResumeCheck, Poll, Select, StoreEvent, Gate, CheckpointStatus,
         Emit, Send, FinishEvent, stored, history
<1>2. CASE MarkRunning(w)
  BY <1>2 DEF MarkRunning, history
<1>3. CASE HandleOk(w)
  BY <1>0, <1>3 DEF HandleOk, Goto, stored
<1>4. CASE HandleFail(w)
  BY <1>0, <1>4 DEF HandleFail, NextModule, Goto
<1>5. CASE MarkCompleted(w)
  BY <1>5 DEF MarkCompleted, history
<1> QED BY <1>1, <1>2, <1>3, <1>4, <1>5 DEF WorkerStep


\* What the steps of the engine, the operator and the process do to the same
\* state.
LEMMA OtherSteps ==
  ASSUME [Next]_vars, \A w \in Workers : ~WorkerStep(w)
  PROVE  /\ UNCHANGED <<ck, handled>>
         /\ \/ UNCHANGED <<pc, mi, item>>
            \/ \A w \in Workers : pc'[w] \in {"none", "resume"}
         /\ UNCHANGED doneBefore \/ LoadBacklog
         /\ \/ UNCHANGED late /\ (UNCHANGED status \/ status' # "paused")
            \/ Pause
<1>1. CASE Start \/ Crash
  BY <1>1 DEF Start, Crash, NewScheduler, stored, history
<1>2. CASE SetupFails \/ LoadNext \/ LoadSend \/ CloseQueues \/ JoinWorkers
           \/ FinishScan
  BY <1>2 DEF SetupFails, LoadNext, LoadSend, CloseQueues, JoinWorkers,
         FinishScan, stored, history, workers
<1>3. CASE LoadBacklog
  BY <1>3 DEF LoadBacklog, stored, workers
<1>4. CASE SpawnWorkers
  BY <1>4 DEF SpawnWorkers, stored, history
<1>5. CASE CheckHealth
  BY <1>5 DEF CheckHealth, history, workers
<1>6. CASE Pause
  BY <1>6 DEF Pause, workers
<1>7. CASE Resume \/ Cancel \/ UNCHANGED vars
  BY <1>7 DEF Resume, Cancel, vars, stored, history, workers
<1> QED BY <1>1, <1>2, <1>3, <1>4, <1>5, <1>6, <1>7 DEF Next, EngineStep, AtRest

\* A worker past the gate is at a module of ModuleSet, and its event's key is
\* one of Keys.
LEMMA AtKey ==
  ASSUME CountInv, NEW w \in Workers, pc[w] \in InModule
  PROVE  Current(w) \in ModuleSet /\ CkKey(item[w].e) \in Keys
<1>1. TypeOK /\ AtModule(w)
  BY DEF CountInv, LoopInside
<1>2. item[w].e \in Events
  BY <1>1 DEF TypeOK, Item
<1> QED BY <1>1, <1>2, CurrentType, CkKeyType

\* A module is recorded as completed only after its Handle returned.
CheckpointInv == CheckpointSound /\ HandledFirst

LEMMA NextCheckpointInv == CountInv /\ CheckpointInv /\ [Next]_vars => CheckpointInv'
<1> SUFFICES ASSUME CountInv, CheckpointInv, [Next]_vars PROVE CheckpointInv'
  OBVIOUS
<1>0. TypeOK /\ CheckpointSound /\ HandledFirst
  BY DEF CountInv, CheckpointInv
<1>1. CASE \A w \in Workers : ~WorkerStep(w)
  <2>1. CheckpointSound'
    BY <1>0, <1>1, OtherSteps DEF CheckpointSound
  <2>2. HandledFirst'
    <3>1. CASE UNCHANGED <<pc, mi, item>>
      BY <1>0, <1>1, <3>1, OtherSteps DEF HandledFirst, Current
    <3>2. CASE \A w \in Workers : pc'[w] \in {"none", "resume"}
      BY <3>2 DEF HandledFirst
    <3> QED BY <1>1, <3>1, <3>2, OtherSteps
  <2> QED BY <2>1, <2>2 DEF CheckpointInv
<1>2. ASSUME NEW w \in Workers, WorkerStep(w) PROVE CheckpointInv'
  <2>1. CheckpointSound'
    <3> SUFFICES ASSUME NEW m \in ModuleSet, NEW k \in Keys, ck'[m][k] = "completed"
                 PROVE  <<m, k>> \in handled'
      BY DEF CheckpointSound
    <3>0. /\ ck \in [ModuleSet -> [Keys -> {"none", "running", "failed", "completed"}]]
          /\ handled \subseteq handled'
      BY <1>0, <1>2, WorkerWrites DEF TypeOK
    <3>1. CASE ck[m][k] = "completed"
      BY <1>0, <3>0, <3>1 DEF CheckpointSound
    <3>2. ASSUME NEW st, SetCheckpoint(w, st), pc[w] \in InModule, ck[m][k] # "completed"
          PROVE  st = "completed" /\ m = Current(w) /\ k = CkKey(item[w].e)
      <4> DEFINE c == Current(w)
                 h == CkKey(item[w].e)
      <4>1. c \in ModuleSet /\ h \in Keys
        BY <3>2, AtKey
      <4>2. ck' = [ck EXCEPT ![c] = [ck[c] EXCEPT ![h] = st]]
        BY <3>2 DEF SetCheckpoint
      <4> HIDE DEF c, h
      <4>3. st = "completed" /\ m = c /\ k = h
        BY <3>0, <3>2, <4>1, <4>2
      <4> QED BY <4>3 DEF c, h
    <3>3. "mark" \in InModule /\ "handle" \in InModule /\ "complete" \in InModule
      BY DEF InModule
    <3>4. CASE ck[m][k] # "completed"
      <4>1. /\ pc[w] = "complete"
            /\ m = Current(w) /\ k = CkKey(item[w].e)
        <5>1. ~UNCHANGED ck
          BY <3>4
        <5>2. ~(pc[w] = "mark" /\ SetCheckpoint(w, "running"))
          BY <3>2, <3>3, <3>4
        <5>3. ~(pc[w] = "handle" /\ SetCheckpoint(w, "failed"))
          BY <3>2, <3>3, <3>4
        <5>4. pc[w] = "complete" /\ SetCheckpoint(w, "completed")
          BY <1>0, <1>2, <5>1, <5>2, <5>3, WorkerWrites
        <5> QED BY <3>2, <3>3, <3>4, <5>4
      <4> QED BY <1>0, <3>0, <4>1 DEF HandledFirst
    <3> QED BY <3>1, <3>4
  <2>2. HandledFirst'
    <3> SUFFICES ASSUME NEW v \in Workers, pc'[v] = "complete"
                 PROVE  <<Current(v)', CkKey(item'[v].e)>> \in handled'
      BY DEF HandledFirst
    <3>1. CASE v # w
      BY <1>0, <1>2, <3>1, WorkerOthers, WorkerWrites DEF HandledFirst, Current
    <3>2. CASE v = w
      <4>1. HandleOk(w)
        BY <1>0, <1>2, <3>2, WorkerArrives
      <4> QED BY <3>2, <4>1 DEF HandleOk, Current
    <3> QED BY <3>1, <3>2
  <2> QED BY <2>1, <2>2 DEF CheckpointInv
<1> QED BY <1>1, <1>2

LEMMA CheckpointInvariant == Spec => []CheckpointInv
<1>1. Init => CheckpointInv
  BY DEF Init, CheckpointInv, CheckpointSound, HandledFirst
<1> QED BY <1>1, CountInvariant, NextCheckpointInv, PTL DEF Spec

\* A resumed run leaves alone what was completed when it began.
ResumeInv == ResumeSkipsDone /\ DoneStays

LEMMA NextResumeInv == CountInv /\ ResumeInv /\ [Next]_vars => ResumeInv'
<1> SUFFICES ASSUME CountInv, ResumeInv, [Next]_vars PROVE ResumeInv'
  OBVIOUS
<1>0. /\ TypeOK /\ ResumeSkipsDone /\ DoneStays
      /\ doneBefore \subseteq ModuleSet \X Keys
      /\ ck \in [ModuleSet -> [Keys -> {"none", "running", "failed", "completed"}]]
  BY DEF CountInv, ResumeInv, TypeOK
<1>1. CASE LoadBacklog
  <2>1. UNCHANGED <<ck, pc, mi, item>> /\ \A w \in Workers : pc[w] = "none"
    BY <1>1 DEF LoadBacklog, CountInv, NoWorkersYet, stored, workers
  <2>2. ResumeSkipsDone'
    BY <2>1 DEF ResumeSkipsDone
  <2>3. DoneStays'
    BY <1>0, <1>1, <2>1 DEF LoadBacklog, DoneStays
  <2> QED BY <2>2, <2>3 DEF ResumeInv
<1>2. CASE ~LoadBacklog /\ \A w \in Workers : ~WorkerStep(w)
  <2>1. UNCHANGED <<ck, doneBefore>>
    BY <1>2, OtherSteps
  <2>2. DoneStays'
    BY <1>0, <2>1 DEF DoneStays
  <2>3. ResumeSkipsDone'
    <3>1. CASE UNCHANGED <<pc, mi, item>>
      BY <1>0, <2>1, <3>1 DEF ResumeSkipsDone, Current
    <3>2. CASE \A w \in Workers : pc'[w] \in {"none", "resume"}
      BY <3>2 DEF ResumeSkipsDone
    <3> QED BY <1>2, <3>1, <3>2, OtherSteps
  <2> QED BY <2>2, <2>3 DEF ResumeInv
<1>3. ASSUME NEW w \in Workers, WorkerStep(w) PROVE ResumeInv'
  <2>0. UNCHANGED doneBefore
    BY <1>0, <1>3, WorkerWrites
  <2>1. ResumeSkipsDone'
    <3> SUFFICES ASSUME NEW v \in Workers, pc'[v] \in {"mark", "handle", "complete"}
                 PROVE  <<Current(v)', CkKey(item'[v].e)>> \notin doneBefore
      BY <2>0 DEF ResumeSkipsDone
    <3>1. CASE v # w
      BY <1>0, <1>3, <3>1, WorkerOthers DEF ResumeSkipsDone, Current
    <3>2. CASE v = w /\ pc'[w] = "mark"
      <4>1. ~AlreadyDone(w) /\ UNCHANGED <<mi, item>>
        BY <1>0, <1>3, <3>2, WorkerArrives
      <4> DEFINE c == Current(w)
                 h == CkKey(item[w].e)
      <4>2. ck[c][h] # "completed"
        BY <4>1 DEF AlreadyDone
      <4>3. <<c, h>> \notin doneBefore
        <5> HIDE DEF c, h
        <5> QED BY <1>0, <4>2 DEF DoneStays
      <4> QED BY <3>2, <4>1, <4>3 DEF Current
    <3>3. CASE v = w /\ pc'[w] = "handle"
      BY <1>0, <1>3, <3>3, WorkerArrives DEF MarkRunning, ResumeSkipsDone, Current
    <3>4. CASE v = w /\ pc'[w] = "complete"
      BY <1>0, <1>3, <3>4, WorkerArrives DEF HandleOk, ResumeSkipsDone, Current
    <3> QED BY <3>1, <3>2, <3>3, <3>4
  <2>2. DoneStays'
    <3>1. CASE UNCHANGED ck
      BY <1>0, <2>0, <3>1 DEF DoneStays
    <3>2. ASSUME NEW st, SetCheckpoint(w, st), pc[w] \in {"mark", "handle", "complete"}
          PROVE  DoneStays'
      <4> DEFINE c == Current(w)
                 h == CkKey(item[w].e)
      <4>1. c \in ModuleSet /\ h \in Keys
        BY <3>2, AtKey DEF InModule
      <4>2. ck' = [ck EXCEPT ![c] = [ck[c] EXCEPT ![h] = st]]
        BY <3>2 DEF SetCheckpoint
      <4>3. <<c, h>> \notin doneBefore
        BY <1>0, <3>2 DEF ResumeSkipsDone
      <4> HIDE DEF c, h
      <4>4. ASSUME NEW mk \in doneBefore PROVE ck'[mk[1]][mk[2]] = "completed"
        <5>1. /\ mk = <<mk[1], mk[2]>> /\ mk[1] \in ModuleSet /\ mk[2] \in Keys
              /\ ck[mk[1]][mk[2]] = "completed"
          BY <1>0 DEF DoneStays
        <5>2. mk[1] # c \/ mk[2] # h
          BY <4>3, <5>1
        <5> QED BY <1>0, <4>1, <4>2, <5>1, <5>2
      <4> QED BY <2>0, <4>4 DEF DoneStays
    <3> QED BY <1>0, <1>3, <3>1, <3>2, WorkerWrites
  <2> QED BY <2>1, <2>2 DEF ResumeInv
<1> QED BY <1>1, <1>2, <1>3

\* After a pause a worker ends the module it is in, and no other.
LEMMA NextPauseInv == CountInv /\ PauseInv /\ [Next]_vars => PauseInv'
<1> SUFFICES ASSUME CountInv, PauseInv, [Next]_vars, NEW v \in Workers,
                    status' = "paused"
             PROVE  \/ late'[v] = 0
                    \/ late'[v] = 1 /\ pc'[v] \notin {"check", "mark", "handle"}
  BY DEF PauseInv
<1>0. TypeOK /\ late \in [Workers -> Nat]
  BY DEF CountInv, TypeOK
<1>1. CASE \A w \in Workers : ~WorkerStep(w)
  <2>1. UNCHANGED <<pc, mi, item>> \/ \A w \in Workers : pc'[w] \in {"none", "resume"}
    BY <1>1, OtherSteps
  <2>2. CASE UNCHANGED <<late, status>>
    BY <2>1, <2>2 DEF PauseInv
  <2>3. CASE Pause
    <3>1. late' = IF status = "paused" THEN late ELSE [w \in Workers |-> 0]
      BY <2>3 DEF Pause
    <3> QED BY <2>1, <3>1 DEF PauseInv
  <2> QED BY <1>1, <2>2, <2>3, OtherSteps
<1>2. ASSUME NEW w \in Workers, WorkerStep(w)
      PROVE  \/ late'[v] = 0
             \/ late'[v] = 1 /\ pc'[v] \notin {"check", "mark", "handle"}
  <2>0. status = "paused"
    BY <1>0, <1>2, WorkerWrites
  <2>1. CASE v # w
    BY <1>0, <1>2, <2>0, <2>1, WorkerOthers DEF PauseInv
  <2>2. CASE v = w /\ UNCHANGED late
    <3>1. pc'[w] # "check"
      BY <1>0, <1>2, <2>0, WorkerArrives
    <3>2. pc'[w] = "mark" => pc[w] = "check"
      BY <1>0, <1>2, WorkerArrives DEF CheckpointStatus
    <3>3. pc'[w] = "handle" => pc[w] = "mark"
      BY <1>0, <1>2, WorkerArrives DEF MarkRunning
    <3> QED BY <2>0, <2>2, <3>1, <3>2, <3>3 DEF PauseInv
  <2>3. CASE /\ v = w /\ pc[w] = "handle" /\ CountLate(w)
             /\ pc'[w] \in {"complete", "gate"}
    <3>1. late[w] = 0
      BY <2>0, <2>3 DEF PauseInv
    <3>2. late'[w] = 1
      BY <1>0, <2>0, <2>3, <3>1 DEF CountLate
    <3> QED BY <2>3, <3>2
  <2> QED BY <1>0, <1>2, <2>1, <2>2, <2>3, WorkerWrites
<1> QED BY <1>1, <1>2

-----------------------------------------------------------------------------
(* Sequences: what a receive, a send and an insertion change.              *)

LEMMA RangeOf ==
  ASSUME NEW S, NEW s \in Seq(S), NEW x
  PROVE  x \in Range(s) <=> \E i \in 1..Len(s) : s[i] = x
  BY DEF Range

LEMMA RangeAppend ==
  ASSUME NEW S, NEW s \in Seq(S), NEW x \in S, NEW e
  PROVE  e \in Range(Append(s, x)) <=> e \in Range(s) \/ e = x
<1> DEFINE t == Append(s, x)
<1>1. /\ t \in Seq(S) /\ Len(s) \in Nat /\ Len(t) = Len(s) + 1
      /\ \A i \in 1..Len(s) : t[i] = s[i]
      /\ t[Len(s) + 1] = x
  BY AppendProperties, LenProperties
<1> HIDE DEF t
<1>2. e \in Range(t) <=> \E i \in 1..Len(t) : t[i] = e
  BY <1>1, RangeOf
<1>3. e \in Range(s) <=> \E i \in 1..Len(s) : s[i] = e
  BY RangeOf
<1>4. Len(s) + 1 \in 1..Len(t) /\ \A i \in 1..Len(t) : i = Len(s) + 1 \/ i \in 1..Len(s)
  BY <1>1
<1>5. \A i \in 1..Len(s) : i \in 1..Len(t)
  BY <1>1
<1> QED BY <1>1, <1>2, <1>3, <1>4, <1>5 DEF t

LEMMA AppendAt ==
  ASSUME NEW S, NEW s \in Seq(S), NEW x \in S, NEW t, t = Append(s, x)
  PROVE  /\ t \in Seq(S) /\ Len(s) \in Nat /\ Len(t) = Len(s) + 1
         /\ t[Len(t)] = x
         /\ \A i \in 1..Len(s) : i \in 1..Len(t) /\ t[i] = s[i]
         /\ \A i \in 1..Len(t) : i = Len(t) \/ i \in 1..Len(s)
  BY AppendProperties, LenProperties

LEMMA TailAt ==
  ASSUME NEW S, NEW s \in Seq(S), s # <<>>, NEW t, t = Tail(s)
  PROVE  /\ t \in Seq(S) /\ Len(s) \in Nat /\ Len(t) = Len(s) - 1
         /\ 1 \in 1..Len(s) /\ Head(s) = s[1] /\ s[1] \in S
         /\ \A i \in 1..Len(t) : i + 1 \in 1..Len(s) /\ i + 1 # 1 /\ t[i] = s[i + 1]
         /\ \A i \in 1..Len(s) : i = 1 \/ (i - 1 \in 1..Len(t) /\ t[i - 1] = s[i])
<1>1. t \in Seq(S) /\ Len(t) = Len(s) - 1 /\ \A i \in 1..Len(t) : t[i] = s[i + 1]
  BY HeadTailProperties
<1>2. Len(s) \in Nat /\ Len(s) > 0 /\ Head(s) = s[1] /\ s[1] \in S
  OBVIOUS
<1> QED BY <1>1, <1>2

\* eventDeduper.seen never has to forget an event when there are no more
\* events than it holds.
LEMMA NeverEvicts ==
  ASSUME IsFiniteSet(Events), Cardinality(Events) <= DedupCap,
         seen \in Seq(Events), SeenOnce, NEW e \in Events, e \notin Range(seen)
  PROVE  /\ Remember(seen, e) = Append(seen, e)
         /\ \A i, j \in 1..Len(Append(seen, e)) :
               Append(seen, e)[i] = Append(seen, e)[j] => i = j
<1> DEFINE t == Append(seen, e)
<1>1. /\ t \in Seq(Events) /\ Len(seen) \in Nat /\ Len(t) = Len(seen) + 1 /\ t[Len(t)] = e
      /\ \A i \in 1..Len(seen) : i \in 1..Len(t) /\ t[i] = seen[i]
      /\ \A i \in 1..Len(t) : i = Len(t) \/ i \in 1..Len(seen)
  BY AppendAt
<1>2. \A i \in 1..Len(seen) : seen[i] # e
  BY RangeOf
<1> HIDE DEF t
<1>3. \A i, j \in 1..Len(t) : t[i] = t[j] => i = j
  BY <1>1, <1>2 DEF SeenOnce
<1>4. Len(t) \in Nat /\ t \in [1..Len(t) -> Events]
  BY <1>1, LenProperties
<1>5. t \in Injection(1..Len(t), Events)
  BY <1>3, <1>4 DEF Injection, IsInjective
<1>6. Cardinality(1..Len(t)) <= Cardinality(Events)
  BY <1>5, FS_Injection
<1>7. Cardinality(1..Len(t)) = Len(t)
  BY <1>1, FS_Interval
<1>8. Cardinality(Events) \in Nat
  BY FS_CardinalityType
<1>9. ~(Len(t) > DedupCap)
  BY <1>4, <1>6, <1>7, <1>8
<1> QED BY <1>3, <1>9 DEF Remember, t

-----------------------------------------------------------------------------
(* What a step does to the events on their way.                            *)

\* A receive removes the first item of a channel and moves the others up.
LEMMA QueueTake ==
  ASSUME TypeOK, NEW w \in Workers, NEW p \in Prios, Take(w, p)
  PROVE  /\ Head(queue[p]) \in Item /\ Head(queue[p]) = queue[p][1] /\ 1 \in 1..Len(queue[p])
         /\ \A r \in Prios : \A i \in 1..Len(queue'[r]) :
               \E j \in 1..Len(queue[r]) : /\ queue'[r][i] = queue[r][j]
                                          /\ j = IF r = p THEN i + 1 ELSE i
         /\ \A r \in Prios : \A j \in 1..Len(queue[r]) :
               (r = p /\ j = 1) \/ \E i \in 1..Len(queue'[r]) : queue'[r][i] = queue[r][j]
<1> DEFINE q == queue[p]
           t == Tail(q)
<1>1. q \in Seq(Item) /\ q # <<>> /\ queue \in [Prios -> Seq(Item)]
  BY DEF TypeOK, Take
<1>2. queue' = [queue EXCEPT ![p] = t]
  BY DEF Take
<1>3. /\ t \in Seq(Item) /\ Len(q) \in Nat /\ Len(t) = Len(q) - 1
      /\ 1 \in 1..Len(q) /\ Head(q) = q[1] /\ q[1] \in Item
      /\ \A i \in 1..Len(t) : i + 1 \in 1..Len(q) /\ i + 1 # 1 /\ t[i] = q[i + 1]
      /\ \A i \in 1..Len(q) : i = 1 \/ (i - 1 \in 1..Len(t) /\ t[i - 1] = q[i])
  BY <1>1, TailAt
<1> HIDE DEF t
<1>4. queue'[p] = t /\ \A r \in Prios : r # p => queue'[r] = queue[r]
  BY <1>1, <1>2
<1>5. ASSUME NEW r \in Prios, NEW i \in 1..Len(queue'[r])
      PROVE  \E j \in 1..Len(queue[r]) : /\ queue'[r][i] = queue[r][j]
                                         /\ j = IF r = p THEN i + 1 ELSE i
  <2>1. CASE r = p
    BY <1>3, <1>4, <2>1
  <2>2. CASE r # p
    BY <1>4, <2>2
  <2> QED BY <2>1, <2>2
<1>6. ASSUME NEW r \in Prios, NEW j \in 1..Len(queue[r]), ~(r = p /\ j = 1)
      PROVE  \E i \in 1..Len(queue'[r]) : queue'[r][i] = queue[r][j]
  <2>1. CASE r = p
    BY <1>3, <1>4, <1>6, <2>1
  <2>2. CASE r # p
    BY <1>4, <2>2
  <2> QED BY <2>1, <2>2
<1> QED BY <1>3, <1>5, <1>6

\* A send adds an item behind those of its channel.
LEMMA QueueSend ==
  ASSUME TypeOK, NEW p \in Prios, NEW it \in Item,
         queue' = [queue EXCEPT ![p] = Append(queue[p], it)]
  PROVE  /\ Len(queue[p]) + 1 \in 1..Len(queue'[p]) /\ queue'[p][Len(queue[p]) + 1] = it
         /\ \A r \in Prios : \A i \in 1..Len(queue[r]) :
               i \in 1..Len(queue'[r]) /\ queue'[r][i] = queue[r][i]
         /\ \A r \in Prios : \A i \in 1..Len(queue'[r]) :
               \/ i \in 1..Len(queue[r]) /\ queue'[r][i] = queue[r][i]
               \/ r = p /\ i = Len(queue[p]) + 1 /\ queue'[r][i] = it
<1> DEFINE q == queue[p]
           t == Append(q, it)
<1>1. q \in Seq(Item) /\ queue \in [Prios -> Seq(Item)]
  BY DEF TypeOK
<1>2. queue' = [queue EXCEPT ![p] = t]
  OBVIOUS
<1>3. /\ t \in Seq(Item) /\ Len(q) \in Nat /\ Len(t) = Len(q) + 1
      /\ t[Len(t)] = it
      /\ \A i \in 1..Len(q) : i \in 1..Len(t) /\ t[i] = q[i]
      /\ \A i \in 1..Len(t) : i = Len(t) \/ i \in 1..Len(q)
  BY <1>1, AppendAt
<1> HIDE DEF t
<1>4. queue'[p] = t /\ \A r \in Prios : r # p => queue'[r] = queue[r]
  BY <1>1, <1>2
<1>5. Len(t) \in 1..Len(t)
  BY <1>3
<1>6. ASSUME NEW r \in Prios, NEW i \in 1..Len(queue'[r])
      PROVE  \/ i \in 1..Len(queue[r]) /\ queue'[r][i] = queue[r][i]
             \/ r = p /\ i = Len(queue[p]) + 1 /\ queue'[r][i] = it
  <2>1. CASE r = p
    BY <1>3, <1>4, <2>1
  <2>2. CASE r # p
    BY <1>4, <2>2
  <2> QED BY <2>1, <2>2
<1>7. ASSUME NEW r \in Prios, NEW i \in 1..Len(queue[r])
      PROVE  i \in 1..Len(queue'[r]) /\ queue'[r][i] = queue[r][i]
  <2>1. CASE r = p
    BY <1>3, <1>4, <2>1
  <2>2. CASE r # p
    BY <1>4, <2>2
  <2> QED BY <2>1, <2>2
<1> QED BY <1>3, <1>4, <1>5, <1>6, <1>7

\* A worker's step leaves alone what the others have returned.
LEMMA OthersOut ==
  ASSUME TypeOK, NEW w \in Workers, WorkerStep(w), NEW v \in Workers, v # w
  PROVE  out'[v] = out[v]
<1>0. out \in [Workers -> Seq(Events)]
  BY DEF TypeOK
<1>1. CASE ResumeCheck(w) \/ (\E p \in Prios : Poll(w, p)) \/ Select(w)
           \/ StoreEvent(w) \/ Gate(w) \/ CheckpointStatus(w) \/ MarkRunning(w)
           \/ HandleFail(w) \/ MarkCompleted(w) \/ FinishEvent(w)
  BY <1>1 DEF ResumeCheck, Poll, Select, StoreEvent, Gate, CheckpointStatus,
         MarkRunning, HandleFail, MarkCompleted, FinishEvent
<1>2. CASE HandleOk(w)
  BY <1>0, <1>2 DEF HandleOk
<1>3. CASE Emit(w)
  BY <1>0, <1>3 DEF Emit
<1>4. CASE Send(w)
  BY <1>0, <1>4 DEF Send
<1> QED BY <1>1, <1>2, <1>3, <1>4 DEF WorkerStep

\* A worker step that neither takes, stores nor enqueues an event.
Passes(w) == /\ UNCHANGED <<queue, seen, eventLog>>
             /\ pc'[w] \notin {"none", "store", "send"}

\* nextEvent hands over an event.
Receives(w, p) == Take(w, p) /\ UNCHANGED <<seen, eventLog, out>> /\ pc'[w] # "none"

\* AddEvent succeeds.
Stores(w) == /\ pc[w] = "store" /\ pc'[w] = "gate"
             /\ eventLog' = Append(eventLog, item[w].e)
             /\ UNCHANGED <<queue, seen, out>>

\* An event of out passes the deduper.
Accepts(w) == /\ pc[w] = "emit" /\ pc'[w] = "send"
              /\ out[w] # <<>> /\ Head(out[w]) \notin Range(seen)
              /\ seen' = Remember(seen, Head(out[w]))
              /\ UNCHANGED <<queue, eventLog, out>>

\* It is sent.
Sends(w) == /\ pc[w] = "send" /\ pc'[w] = "emit"
            /\ \E p \in Prios : queue' = [queue EXCEPT ![p] = Append(@, [e |-> Head(out[w]), id |-> FALSE])]
            /\ out' = [out EXCEPT ![w] = Tail(@)]
            /\ UNCHANGED <<seen, eventLog>>

LEMMA WorkerMoves ==
  ASSUME TypeOK, NEW w \in Workers, WorkerStep(w)
  PROVE  Passes(w) \/ (\E p \in Prios : Receives(w, p)) \/ Stores(w) \/ Accepts(w) \/ Sends(w)
<1>0. pc \in [Workers -> PCs]
  BY DEF TypeOK
<1>1. ASSUME NEW l, Goto(w, l) PROVE pc'[w] = l
  BY <1>0, <1>1 DEF Goto
<1>2. ASSUME NextModule(w) PROVE pc'[w] = "gate"
  BY <1>1, <1>2 DEF NextModule
<1>3. ASSUME NEW p \in Prios, Take(w, p) PROVE pc'[w] # "none"
  <2> DEFINE l == IF Head(queue[p]).id THEN "gate" ELSE "store"
  <2>1. Goto(w, l) /\ l # "none"
    BY <1>3 DEF Take
  <2> HIDE DEF l
  <2> QED BY <1>1, <2>1
<1>4. CASE ResumeCheck(w) \/ MarkCompleted(w) \/ FinishEvent(w) \/ Gate(w) \/ HandleOk(w)
  BY <1>1, <1>4 DEF ResumeCheck, MarkCompleted, FinishEvent, Gate, HandleOk, Passes, volatile, stored
<1>5. CASE CheckpointStatus(w) \/ MarkRunning(w) \/ HandleFail(w)
  BY <1>1, <1>2, <1>5 DEF CheckpointStatus, MarkRunning, HandleFail, Passes
<1>6. ASSUME NEW p \in Prios, Poll(w, p)
      PROVE  Passes(w) \/ Receives(w, p)
  <2>1. AfterPoll[p] \in {"normal", "low", "select"}
    BY DEF AfterPoll, Prios
  <2>2. CASE Take(w, p)
    BY <1>3, <1>6, <2>2 DEF Poll, Receives, stored
  <2>3. CASE Goto(w, "exit") /\ UNCHANGED <<queue, item, mi>>
    BY <1>1, <1>6, <2>3 DEF Poll, Passes, stored
  <2>4. CASE Goto(w, AfterPoll[p]) /\ UNCHANGED <<queue, item, mi>>
    <3>1. pc'[w] = AfterPoll[p]
      BY <1>1, <2>4
    <3> QED BY <1>6, <2>1, <2>4, <3>1 DEF Poll, Passes, stored
  <2> QED BY <1>6, <2>2, <2>3, <2>4 DEF Poll
<1>7. CASE Select(w)
  <2>1. ASSUME NEW p \in Prios, Take(w, p) PROVE Receives(w, p)
    BY <1>3, <1>7, <2>1 DEF Select, Receives, stored
  <2>2. CASE Goto(w, "exit") /\ UNCHANGED <<queue, item, mi>>
    BY <1>1, <1>7, <2>2 DEF Select, Passes, stored
  <2> QED BY <1>7, <2>1, <2>2 DEF Select
<1>8. CASE StoreEvent(w)
  <2>1. pc[w] = "store" /\ pc'[w] = "gate" /\ UNCHANGED <<queue, seen, out>>
    BY <1>1, <1>8 DEF StoreEvent
  <2>2. eventLog' = Append(eventLog, item[w].e) \/ UNCHANGED eventLog
    BY <1>8 DEF StoreEvent
  <2> QED BY <2>1, <2>2 DEF Passes, Stores
<1>9. CASE Emit(w)
  <2>0. pc[w] = "emit" /\ UNCHANGED <<queue, eventLog>>
    BY <1>9 DEF Emit, stored
  <2>1. CASE NextModule(w) /\ UNCHANGED <<seen, wg, out>>
    BY <1>2, <2>0, <2>1 DEF Passes
  <2>2. CASE UNCHANGED <<seen, wg, pc, mi>>
    BY <2>0, <2>2 DEF Passes
  <2>3. CASE /\ out[w] # <<>> /\ Head(out[w]) \notin Range(seen)
             /\ seen' = Remember(seen, Head(out[w])) /\ Goto(w, "send") /\ UNCHANGED <<out, mi>>
    BY <1>1, <2>0, <2>3 DEF Accepts
  <2> QED BY <1>9, <2>1, <2>2, <2>3 DEF Emit
<1>10. CASE Send(w)
  <2>1. priorityFor(Head(out[w])) \in Prios
    BY DEF priorityFor, Prios
  <2> QED BY <1>1, <1>10, <2>1 DEF Send, Sends, stored
<1> QED BY <1>4, <1>5, <1>6, <1>7, <1>8, <1>9, <1>10 DEF WorkerStep

-----------------------------------------------------------------------------
(* An event has one row.                                                   *)

\* No event is twice in the channels.
QueueOnce ==
  \A p, q \in Prios : \A i \in 1..Len(queue[p]), j \in 1..Len(queue[q]) :
     queue[p][i].e = queue[q][j].e => p = q /\ i = j

\* An item whose event is in no channel is sent.
LEMMA SentOnce ==
  ASSUME TypeOK, QueueOnce, NEW p \in Prios, NEW it \in Item, it.e \notin InChannel,
         queue' = [queue EXCEPT ![p] = Append(queue[p], it)]
  PROVE  /\ QueueOnce' /\ InChannel' = InChannel \cup {it.e}
<1>0. /\ it.e \in Events
      /\ \A r \in Prios : \A i \in 1..Len(queue[r]) : queue[r][i].e \in Events
  <2>1. queue \in [Prios -> Seq(Item)]
    BY DEF TypeOK
  <2>2. \A r \in Prios : \A i \in 1..Len(queue[r]) : queue[r][i] \in Item
    BY <2>1
  <2>3. \A x \in Item : x.e \in Events
    BY DEF Item
  <2> QED BY <2>2, <2>3
<1>1. /\ \E i \in 1..Len(queue'[p]) : queue'[p][i] = it
      /\ \A r \in Prios : \A i \in 1..Len(queue[r]) :
            i \in 1..Len(queue'[r]) /\ queue'[r][i] = queue[r][i]
      /\ \A r \in Prios : \A i \in 1..Len(queue'[r]) :
            \/ i \in 1..Len(queue[r]) /\ queue'[r][i] = queue[r][i]
            \/ r = p /\ i = Len(queue[p]) + 1 /\ queue'[r][i] = it
  <2>1. Len(queue[p]) + 1 \in 1..Len(queue'[p]) /\ queue'[p][Len(queue[p]) + 1] = it
    BY QueueSend
  <2>2. \A r \in Prios : \A i \in 1..Len(queue[r]) :
            i \in 1..Len(queue'[r]) /\ queue'[r][i] = queue[r][i]
    BY QueueSend
  <2>3. \A r \in Prios : \A i \in 1..Len(queue'[r]) :
            \/ i \in 1..Len(queue[r]) /\ queue'[r][i] = queue[r][i]
            \/ r = p /\ i = Len(queue[p]) + 1 /\ queue'[r][i] = it
    BY QueueSend
  <2> QED BY <2>1, <2>2, <2>3
<1>2. \A r \in Prios : \A i \in 1..Len(queue[r]) : queue[r][i].e # it.e
  BY <1>0 DEF InChannel
<1>3. QueueOnce'
  <2> SUFFICES ASSUME NEW q \in Prios, NEW r \in Prios, NEW i \in 1..Len(queue'[q]),
                      NEW j \in 1..Len(queue'[r]), queue'[q][i].e = queue'[r][j].e
               PROVE  q = r /\ i = j
    BY DEF QueueOnce
  <2>1. \/ i \in 1..Len(queue[q]) /\ queue'[q][i] = queue[q][i]
        \/ q = p /\ i = Len(queue[p]) + 1 /\ queue'[q][i] = it
    BY <1>1
  <2>2. \/ j \in 1..Len(queue[r]) /\ queue'[r][j] = queue[r][j]
        \/ r = p /\ j = Len(queue[p]) + 1 /\ queue'[r][j] = it
    BY <1>1
  <2> QED BY <1>2, <2>1, <2>2 DEF QueueOnce
<1>4. InChannel' = InChannel \cup {it.e}
  <2>1. ASSUME NEW e \in InChannel' PROVE e \in InChannel \/ e = it.e
    <3>1. PICK r \in Prios : \E i \in 1..Len(queue'[r]) : queue'[r][i].e = e
      BY DEF InChannel
    <3>2. PICK i \in 1..Len(queue'[r]) : queue'[r][i].e = e
      BY <3>1
    <3>3. \/ i \in 1..Len(queue[r]) /\ queue'[r][i] = queue[r][i]
          \/ queue'[r][i] = it
      BY <1>1
    <3> QED BY <1>0, <3>2, <3>3 DEF InChannel
  <2>2. ASSUME NEW e \in InChannel PROVE e \in InChannel'
    <3>1. PICK r \in Prios : \E i \in 1..Len(queue[r]) : queue[r][i].e = e
      BY DEF InChannel
    <3>2. PICK i \in 1..Len(queue[r]) : queue[r][i].e = e
      BY <3>1
    <3>3. i \in 1..Len(queue'[r]) /\ queue'[r][i].e = e /\ e \in Events
      BY <1>1, <3>2 DEF InChannel
    <3> QED BY <3>3 DEF InChannel
  <2>3. it.e \in InChannel'
    BY <1>0, <1>1 DEF InChannel
  <2> QED BY <2>1, <2>2, <2>3
<1> QED BY <1>3, <1>4

LEMMA SentUnstored ==
  ASSUME TypeOK, NEW p \in Prios, NEW it \in Item, it.id \/ it.e \notin Logged,
         \A r \in Prios : \A i \in 1..Len(queue[r]) : ~queue[r][i].id => queue[r][i].e \notin Logged,
         queue' = [queue EXCEPT ![p] = Append(queue[p], it)]
  PROVE  \A r \in Prios : \A i \in 1..Len(queue'[r]) : ~queue'[r][i].id => queue'[r][i].e \notin Logged
<1> SUFFICES ASSUME NEW r \in Prios, NEW i \in 1..Len(queue'[r]), ~queue'[r][i].id
             PROVE  queue'[r][i].e \notin Logged
  OBVIOUS
<1>1. \/ i \in 1..Len(queue[r]) /\ queue'[r][i] = queue[r][i]
      \/ queue'[r][i] = it
  BY QueueSend
<1> QED BY <1>1

LEMMA HeldOthers ==
  ASSUME TypeOK, NEW w \in Workers, WorkerStep(w), NEW v \in Workers, v # w
  PROVE  Held'[v] = Held[v]
<1>1. pc'[v] = pc[v] /\ item'[v] = item[v] /\ out'[v] = out[v]
  BY WorkerOthers, OthersOut
<1> QED BY <1>1 DEF Held

LEMMA OnePlaceKept ==
  ASSUME OnePlace, UNCHANGED queue, InChannel' = InChannel, InLoad' \subseteq InLoad,
         \A v \in Workers : Held'[v] \subseteq Held[v]
  PROVE  OnePlace'
<1>1. InLoad' \cap InChannel' = {}
  BY DEF OnePlace
<1>2. ASSUME NEW v \in Workers PROVE Held'[v] \cap InChannel' = {}
  <2>1. Held[v] \cap InChannel = {} /\ Held'[v] \subseteq Held[v]
    BY DEF OnePlace
  <2> QED BY <2>1
<1>3. ASSUME NEW v \in Workers, NEW u \in Workers, v # u PROVE Held'[v] \cap Held'[u] = {}
  <2>1. Held[v] \cap Held[u] = {} /\ Held'[v] \subseteq Held[v] /\ Held'[u] \subseteq Held[u]
    BY <1>3 DEF OnePlace
  <2> QED BY <2>1
<1>4. \A p, q \in Prios : \A i \in 1..Len(queue'[p]), j \in 1..Len(queue'[q]) :
        queue'[p][i].e = queue'[q][j].e => p = q /\ i = j
  BY DEF OnePlace
<1> QED BY <1>1, <1>2, <1>3, <1>4 DEF OnePlace

\* A step that passes keeps every part of the invariant.
LEMMA PassesStoreInv ==
  ASSUME CountInv, StoreInv, NEW w \in Workers, WorkerStep(w), Passes(w)
  PROVE  StoreInv'
<1>0. TypeOK /\ UNCHANGED <<main, backlog, queue, seen, eventLog>> /\ pc[w] # "none"
  BY WorkerFrame DEF CountInv, Passes
<1>1. \A v \in Workers : Held'[v] \subseteq Held[v]
  <2>1. Held'[w] = {}
    BY DEF Held, Passes
  <2> QED BY <1>0, <2>1, HeldOthers
<1>2. InChannel' = InChannel /\ InLoad' = InLoad /\ Logged' = Logged
  BY <1>0 DEF InChannel, InLoad, Logged
<1>3. SeenOnce' /\ FaithfulStoredOnce'
  BY <1>0 DEF StoreInv, SeenOnce, FaithfulStoredOnce
<1>4. OnePlace'
  BY <1>0, <1>1, <1>2, OnePlaceKept DEF StoreInv
<1>5. PassedDedup'
  BY <1>0, <1>1, <1>2 DEF StoreInv, PassedDedup
<1>6. NotYetStored'
  BY <1>0, <1>1, <1>2 DEF StoreInv, NotYetStored
<1>7. LogKnown'
  BY <1>0, <1>2 DEF StoreInv, LogKnown
<1> QED BY <1>3, <1>4, <1>5, <1>6, <1>7 DEF StoreInv

\* A received event is no longer in a channel, and nobody else has it.
LEMMA ReceivesStoreInv ==
  ASSUME CountInv, StoreInv, NEW w \in Workers, WorkerStep(w), NEW p \in Prios, Receives(w, p)
  PROVE  StoreInv'
<1>0. /\ TypeOK /\ UNCHANGED <<main, backlog, seen, eventLog>> /\ pc[w] # "none"
      /\ Take(w, p) /\ pc'[w] # "none"
  BY WorkerFrame DEF CountInv, Receives
<1> DEFINE h == Head(queue[p])
<1>1. /\ h \in Item /\ h = queue[p][1] /\ 1 \in 1..Len(queue[p])
      /\ \A r \in Prios : \A i \in 1..Len(queue'[r]) :
            \E j \in 1..Len(queue[r]) : /\ queue'[r][i] = queue[r][j]
                                       /\ j = IF r = p THEN i + 1 ELSE i
  BY <1>0, QueueTake
<1>2. h.e \in Events
  BY <1>1 DEF Item
<1>3. Held'[w] \subseteq {h.e} /\ (Held'[w] # {} => ~h.id)
  <2>1. item'[w] = h
    BY <1>0 DEF Take, TypeOK
  <2>2. pc' = [pc EXCEPT ![w] = IF h.id THEN "gate" ELSE "store"]
    BY <1>0 DEF Take, Goto
  <2>3. pc'[w] = IF h.id THEN "gate" ELSE "store"
    BY <1>0, <2>2 DEF TypeOK
  <2> HIDE DEF h
  <2> QED BY <2>1, <2>3 DEF Held
<1>4. \A v \in Workers : v # w => Held'[v] = Held[v]
  BY <1>0, HeldOthers
<1>5. h.e \in InChannel /\ InChannel' \subseteq InChannel
  <2>1. h.e \in InChannel
    BY <1>1, <1>2 DEF InChannel
  <2>2. ASSUME NEW e \in InChannel' PROVE e \in InChannel
    <3>1. PICK r \in Prios : \E i \in 1..Len(queue'[r]) : queue'[r][i].e = e
      BY DEF InChannel
    <3>2. PICK i \in 1..Len(queue'[r]) : queue'[r][i].e = e
      BY <3>1
    <3>3. PICK j \in 1..Len(queue[r]) : queue'[r][i] = queue[r][j]
      BY <1>1
    <3>4. e \in Events
      BY DEF InChannel
    <3> QED BY <3>2, <3>3, <3>4 DEF InChannel
  <2> QED BY <2>1, <2>2
<1>6. h.e \notin InChannel'
  <2> SUFFICES ASSUME h.e \in InChannel' PROVE FALSE
    OBVIOUS
  <2>1. PICK r \in Prios : \E i \in 1..Len(queue'[r]) : queue'[r][i].e = h.e
    BY DEF InChannel
  <2>2. PICK i \in 1..Len(queue'[r]) : queue'[r][i].e = h.e
    BY <2>1
  <2>3. PICK j \in 1..Len(queue[r]) : queue'[r][i] = queue[r][j] /\ j = IF r = p THEN i + 1 ELSE i
    BY <1>1
  <2>4. queue[r][j].e = queue[p][1].e
    BY <1>1, <2>2, <2>3
  <2>5. r = p /\ j = 1
    BY <1>1, <2>4 DEF StoreInv, OnePlace
  <2> QED BY <2>3, <2>5
<1>7. InLoad' = InLoad /\ Logged' = Logged
  BY <1>0 DEF InLoad, Logged
<1> HIDE DEF h
<1>8. OnePlace'
  <2>1. ASSUME NEW q \in Prios, NEW r \in Prios, NEW i \in 1..Len(queue'[q]), NEW j \in 1..Len(queue'[r]),
               queue'[q][i].e = queue'[r][j].e
        PROVE  q = r /\ i = j
    <3>1. PICK a \in 1..Len(queue[q]) : queue'[q][i] = queue[q][a] /\ a = IF q = p THEN i + 1 ELSE i
      BY <1>1
    <3>2. PICK b \in 1..Len(queue[r]) : queue'[r][j] = queue[r][b] /\ b = IF r = p THEN j + 1 ELSE j
      BY <1>1
    <3>0. queue[q][a].e = queue[r][b].e
      BY <2>1, <3>1, <3>2
    <3>3. q = r /\ a = b
      BY <3>0 DEF StoreInv, OnePlace
    <3>4. i \in Int /\ j \in Int
      OBVIOUS
    <3>5. CASE q = p
      BY <3>1, <3>2, <3>3, <3>4, <3>5
    <3>6. CASE q # p
      BY <3>1, <3>2, <3>3, <3>6
    <3> QED BY <3>5, <3>6
  <2>2. ASSUME NEW v \in Workers PROVE Held'[v] \cap InChannel' = {}
    BY <1>3, <1>4, <1>5, <1>6 DEF StoreInv, OnePlace
  <2>3. ASSUME NEW v \in Workers, NEW u \in Workers, v # u PROVE Held'[v] \cap Held'[u] = {}
    <3>1. \A x \in Workers : h.e \notin Held[x]
      BY <1>5 DEF StoreInv, OnePlace
    <3>2. CASE v = w
      BY <1>3, <1>4, <2>3, <3>1, <3>2
    <3>3. CASE u = w
      BY <1>3, <1>4, <2>3, <3>1, <3>3
    <3>4. CASE v # w /\ u # w
      BY <1>4, <2>3, <3>4 DEF StoreInv, OnePlace
    <3> QED BY <3>2, <3>3, <3>4
  <2>4. InLoad' \cap InChannel' = {}
    BY <1>5, <1>7 DEF StoreInv, OnePlace
  <2> QED BY <2>1, <2>2, <2>3, <2>4 DEF OnePlace
<1>9. PassedDedup'
  BY <1>0, <1>3, <1>4, <1>5, <1>7 DEF StoreInv, PassedDedup
<1>10. NotYetStored'
  <2>1. \A q \in Prios : \A i \in 1..Len(queue[q]) : ~queue[q][i].id => queue[q][i].e \notin Logged
    BY DEF StoreInv, NotYetStored
  <2>2. \A q \in Prios : \A i \in 1..Len(queue'[q]) : ~queue'[q][i].id => queue'[q][i].e \notin Logged'
    <3> SUFFICES ASSUME NEW q \in Prios, NEW i \in 1..Len(queue'[q]), ~queue'[q][i].id
                 PROVE  queue'[q][i].e \notin Logged
      BY <1>7
    <3>1. PICK j \in 1..Len(queue[q]) : queue'[q][i] = queue[q][j]
      BY <1>1
    <3> QED BY <2>1, <3>1
  <2>3. ~h.id => h.e \notin Logged
    BY <1>1, <2>1
  <2>4. ASSUME NEW v \in Workers PROVE Held'[v] \cap Logged' = {}
    <3>1. CASE v = w
      BY <1>3, <1>7, <2>3, <3>1
    <3>2. CASE v # w
      BY <1>4, <1>7, <3>2 DEF StoreInv, NotYetStored
    <3> QED BY <3>1, <3>2
  <2>5. main' = "loadsend" /\ ~Head(backlog').id => InLoad' \cap Logged' = {}
    BY <1>0, <1>7 DEF StoreInv, NotYetStored
  <2> QED BY <2>2, <2>4, <2>5 DEF NotYetStored
<1>11. LogKnown'
  BY <1>0, <1>7 DEF StoreInv, LogKnown
<1>12. SeenOnce' /\ FaithfulStoredOnce'
  BY <1>0 DEF StoreInv, SeenOnce, FaithfulStoredOnce
<1> QED BY <1>8, <1>9, <1>10, <1>11, <1>12 DEF StoreInv

\* A new row is of an event that had none, and of no other that waits.
LEMMA StoresStoreInv ==
  ASSUME CountInv, StoreInv, NEW w \in Workers, WorkerStep(w), Stores(w)
  PROVE  StoreInv'
<1>0. /\ TypeOK /\ UNCHANGED <<main, backlog, queue, seen>>
      /\ pc[w] = "store" /\ pc'[w] = "gate"
  BY WorkerFrame DEF CountInv, Stores
<1> DEFINE x == item[w].e
<1>1. x \in Events /\ eventLog \in Seq(Events) /\ eventLog' = Append(eventLog, x)
  BY <1>0 DEF TypeOK, Item, Stores
<1>2. x \in Held[w]
  BY <1>0, <1>1 DEF Held
<1>3. Held'[w] = {} /\ \A v \in Workers : v # w => Held'[v] = Held[v]
  <2>1. Held'[w] = {}
    BY <1>0 DEF Held
  <2> QED BY <1>0, <2>1, HeldOthers
<1>4. InChannel' = InChannel /\ InLoad' = InLoad
  BY <1>0 DEF InChannel, InLoad
<1> HIDE DEF x
<1>5. /\ Len(eventLog) \in Nat /\ Len(eventLog') = Len(eventLog) + 1
      /\ eventLog'[Len(eventLog')] = x /\ eventLog' \in Seq(Events)
      /\ \A i \in 1..Len(eventLog) : i \in 1..Len(eventLog') /\ eventLog'[i] = eventLog[i]
      /\ \A i \in 1..Len(eventLog') : i = Len(eventLog') \/ i \in 1..Len(eventLog)
  BY <1>1, AppendAt
<1>6. \A e : e \in Logged' => e \in Logged \/ e = x
  <2>1. \A e : e \in Logged <=> (\E i \in 1..Len(eventLog) : eventLog[i] = e) /\ Reload[e] = e
    BY <1>1, RangeOf DEF Logged
  <2>2. \A e : e \in Logged' <=> (\E i \in 1..Len(eventLog') : eventLog'[i] = e) /\ Reload[e] = e
    BY <1>5, RangeOf DEF Logged
  <2> QED BY <1>5, <2>1, <2>2
<1>7. x \notin Logged /\ x \notin InChannel /\ x \in Range(seen)
  BY <1>2 DEF StoreInv, NotYetStored, OnePlace, PassedDedup
<1>8. \A v \in Workers : v # w => x \notin Held[v]
  BY <1>2 DEF StoreInv, OnePlace
<1>9. OnePlace'
  <2>1. \A v \in Workers : Held'[v] \subseteq Held[v]
    BY <1>3
  <2>2. OnePlace /\ UNCHANGED queue
    BY <1>0 DEF StoreInv
  <2> QED BY <1>4, <2>1, <2>2, OnePlaceKept
<1>10. PassedDedup'
  BY <1>0, <1>3, <1>4 DEF StoreInv, PassedDedup
<1>11. NotYetStored'
  <2>1. ASSUME NEW p \in Prios, NEW i \in 1..Len(queue[p]), ~queue[p][i].id
        PROVE  queue[p][i].e \notin Logged'
    <3>1. queue[p][i].e \in InChannel
      <4>1. queue[p][i] \in Item
        BY <1>0 DEF TypeOK
      <4>2. queue[p][i].e \in Events
        BY <4>1 DEF Item
      <4> QED BY <4>2 DEF InChannel
    <3>2. queue[p][i].e \notin Logged
      BY <2>1 DEF StoreInv, NotYetStored
    <3> QED BY <1>6, <1>7, <3>1, <3>2
  <2>2. ASSUME NEW v \in Workers PROVE Held'[v] \cap Logged' = {}
    BY <1>3, <1>6, <1>8 DEF StoreInv, NotYetStored
  <2>3. main # "loadsend"
    BY <1>0 DEF CountInv, NoWorkersYet
  <2> QED BY <1>0, <2>1, <2>2, <2>3 DEF NotYetStored
<1>12. LogKnown'
  <2>1. Logged' \subseteq Range(seen')
    BY <1>0, <1>6, <1>7 DEF StoreInv, LogKnown
  <2> QED BY <2>1 DEF LogKnown
<1>13. FaithfulStoredOnce'
  <2>1. \A i \in 1..Len(eventLog) : Reload[x] = x => eventLog[i] # x
    BY <1>1, <1>7, RangeOf DEF Logged
  <2> QED BY <1>5, <2>1 DEF StoreInv, FaithfulStoredOnce
<1>14. SeenOnce'
  BY <1>0 DEF StoreInv, SeenOnce
<1> QED BY <1>9, <1>10, <1>11, <1>12, <1>13, <1>14 DEF StoreInv

\* An event that passes the deduper is nowhere on its way yet, and has no row.
LEMMA AcceptsStoreInv ==
  ASSUME IsFiniteSet(Events), Cardinality(Events) <= DedupCap,
         CountInv, StoreInv, NEW w \in Workers, WorkerStep(w), Accepts(w)
  PROVE  StoreInv'
<1>0. /\ TypeOK /\ UNCHANGED <<main, backlog, queue, eventLog, out>>
      /\ pc[w] = "emit" /\ pc'[w] = "send" /\ out[w] # <<>>
  BY WorkerFrame DEF CountInv, Accepts
<1> DEFINE x == Head(out[w])
<1>1. x \in Events /\ seen \in Seq(Events)
  <2>1. out[w] \in Seq(Events) /\ seen \in Seq(Events)
    BY <1>0 DEF TypeOK
  <2> QED BY <1>0, <2>1
<1>2. x \notin Range(seen) /\ seen' = Remember(seen, x)
  BY DEF Accepts
<1>3. Held'[w] = {x} /\ \A v \in Workers : v # w => Held'[v] = Held[v]
  <2>1. Held'[w] = {e \in Events : x = e}
    BY <1>0 DEF Held
  <2> HIDE DEF x
  <2>2. Held'[w] = {x}
    BY <1>1, <2>1
  <2> QED BY <1>0, <2>2, HeldOthers
<1>4. InChannel' = InChannel /\ InLoad' = InLoad /\ Logged' = Logged
  BY <1>0 DEF InChannel, InLoad, Logged
<1> HIDE DEF x
<1>5. SeenOnce /\ OnePlace /\ PassedDedup /\ NotYetStored /\ LogKnown
  BY DEF StoreInv
<1>6. /\ seen' = Append(seen, x)
      /\ \A i, j \in 1..Len(Append(seen, x)) : Append(seen, x)[i] = Append(seen, x)[j] => i = j
  BY <1>1, <1>2, <1>5, NeverEvicts
<1>7. \A e : e \in Range(seen') <=> e \in Range(seen) \/ e = x
  BY <1>1, <1>6, RangeAppend
<1>8. x \notin InChannel /\ x \notin Logged /\ \A v \in Workers : x \notin Held[v]
  BY <1>0, <1>2, <1>5 DEF PassedDedup, LogKnown
<1>9. SeenOnce'
  BY <1>6 DEF SeenOnce
<1>10. OnePlace'
  <2>0. /\ \A v \in Workers : Held[v] \cap InChannel = {}
        /\ \A v, u \in Workers : v # u => Held[v] \cap Held[u] = {}
    BY <1>5 DEF OnePlace
  <2>1. ASSUME NEW v \in Workers PROVE Held'[v] \cap InChannel' = {}
    <3>1. CASE v = w
      BY <1>3, <1>4, <1>8, <3>1
    <3>2. CASE v # w
      BY <1>3, <1>4, <2>0, <3>2
    <3> QED BY <3>1, <3>2
  <2>2. ASSUME NEW v \in Workers, NEW u \in Workers, v # u PROVE Held'[v] \cap Held'[u] = {}
    <3>1. CASE v = w
      BY <1>3, <1>8, <2>2, <3>1
    <3>2. CASE u = w
      BY <1>3, <1>8, <2>2, <3>2
    <3>3. CASE v # w /\ u # w
      BY <1>3, <2>0, <2>2, <3>3
    <3> QED BY <3>1, <3>2, <3>3
  <2>3. InLoad' \cap InChannel' = {}
    BY <1>4, <1>5 DEF OnePlace
  <2>4. \A p, q \in Prios : \A i \in 1..Len(queue'[p]), j \in 1..Len(queue'[q]) :
          queue'[p][i].e = queue'[q][j].e => p = q /\ i = j
    BY <1>0, <1>5 DEF OnePlace
  <2> QED BY <2>1, <2>2, <2>3, <2>4 DEF OnePlace
<1>11. PassedDedup'
  <2>1. ASSUME NEW v \in Workers PROVE Held'[v] \subseteq Range(seen')
    BY <1>3, <1>5, <1>7 DEF PassedDedup
  <2>2. InChannel' \subseteq Range(seen') /\ InLoad' \subseteq Range(seen')
    BY <1>4, <1>5, <1>7 DEF PassedDedup
  <2> QED BY <2>1, <2>2 DEF PassedDedup
<1>12. NotYetStored'
  <2>1. ASSUME NEW v \in Workers PROVE Held'[v] \cap Logged' = {}
    <3>0. Held[v] \cap Logged = {}
      BY <1>5 DEF NotYetStored
    <3>1. CASE v = w
      BY <1>3, <1>4, <1>8, <3>1
    <3>2. CASE v # w
      BY <1>3, <1>4, <3>0, <3>2
    <3> QED BY <3>1, <3>2
  <2>2. \A p \in Prios : \A i \in 1..Len(queue'[p]) : ~queue'[p][i].id => queue'[p][i].e \notin Logged'
    BY <1>0, <1>4, <1>5 DEF NotYetStored
  <2>3. main' # "loadsend"
    BY <1>0 DEF CountInv, NoWorkersYet
  <2> QED BY <2>1, <2>2, <2>3 DEF NotYetStored
<1>13. LogKnown'
  <2>1. Logged' \subseteq Range(seen')
    BY <1>0, <1>4, <1>5, <1>7 DEF LogKnown
  <2> QED BY <2>1 DEF LogKnown
<1>14. FaithfulStoredOnce'
  BY <1>0 DEF StoreInv, FaithfulStoredOnce
<1> QED BY <1>9, <1>10, <1>11, <1>12, <1>13, <1>14 DEF StoreInv

\* A sent event is in its channel and no longer with its worker.
LEMMA SendsStoreInv ==
  ASSUME CountInv, StoreInv, NEW w \in Workers, WorkerStep(w), Sends(w)
  PROVE  StoreInv'
<1>0. /\ TypeOK /\ UNCHANGED <<main, backlog, seen, eventLog>>
      /\ pc[w] = "send" /\ pc'[w] = "emit" /\ out[w] # <<>>
  BY WorkerFrame DEF CountInv, Sends, SendPending
<1> DEFINE x == Head(out[w])
           it == [e |-> x, id |-> FALSE]
<1>1. x \in Events
  <2>1. out[w] \in Seq(Events)
    BY <1>0 DEF TypeOK
  <2> QED BY <1>0, <2>1
<1>2. x \in Held[w]
  BY <1>0, <1>1 DEF Held
<1>3. Held'[w] = {} /\ \A v \in Workers : v # w => Held'[v] = Held[v]
  <2>1. Held'[w] = {}
    BY <1>0 DEF Held
  <2> QED BY <1>0, <2>1, HeldOthers
<1>4. PICK p \in Prios : queue' = [queue EXCEPT ![p] = Append(queue[p], it)]
  BY DEF Sends
<1> HIDE DEF x
<1>5. it \in Item /\ it.e = x
  BY <1>1 DEF Item
<1>6. InLoad' = InLoad /\ Logged' = Logged
  BY <1>0 DEF InLoad, Logged
<1>7. SeenOnce /\ OnePlace /\ PassedDedup /\ NotYetStored /\ LogKnown
  BY DEF StoreInv
<1> HIDE DEF it
<1>8. main # "loadsend"
  BY <1>0 DEF CountInv, NoWorkersYet
<1>9. x \notin InChannel /\ x \notin Logged /\ x \in Range(seen) /\ \A v \in Workers : v # w => x \notin Held[v]
  BY <1>2, <1>7 DEF OnePlace, NotYetStored, PassedDedup
<1>10. /\ QueueOnce' /\ InChannel' = InChannel \cup {x}
       /\ \A r \in Prios : \A i \in 1..Len(queue'[r]) : ~queue'[r][i].id => queue'[r][i].e \notin Logged
  <2>1. QueueOnce
    BY <1>7 DEF OnePlace, QueueOnce
  <2>2. \A r \in Prios : \A i \in 1..Len(queue[r]) : ~queue[r][i].id => queue[r][i].e \notin Logged
    BY <1>7 DEF NotYetStored
  <2>3. it.e \notin InChannel /\ it.e \notin Logged
    BY <1>5, <1>9
  <2>4. QueueOnce' /\ InChannel' = InChannel \cup {it.e}
    BY <1>0, <1>4, <1>5, <2>1, <2>3, SentOnce
  <2>5. \A r \in Prios : \A i \in 1..Len(queue'[r]) : ~queue'[r][i].id => queue'[r][i].e \notin Logged
    BY <1>0, <1>4, <1>5, <2>2, <2>3, SentUnstored
  <2> QED BY <1>5, <2>4, <2>5
<1>11. OnePlace'
  <2>1. ASSUME NEW v \in Workers PROVE Held'[v] \cap InChannel' = {}
    <3>0. Held[v] \cap InChannel = {}
      BY <1>7 DEF OnePlace
    <3>1. CASE v = w
      BY <1>3, <3>1
    <3>2. CASE v # w
      BY <1>3, <1>9, <1>10, <3>0, <3>2
    <3> QED BY <3>1, <3>2
  <2>2. ASSUME NEW v \in Workers, NEW u \in Workers, v # u PROVE Held'[v] \cap Held'[u] = {}
    BY <1>3, <1>7, <2>2 DEF OnePlace
  <2>3. InLoad' \cap InChannel' = {}
    BY <1>0, <1>8 DEF InLoad
  <2> QED BY <1>10, <2>1, <2>2, <2>3 DEF OnePlace, QueueOnce
<1>12. PassedDedup'
  <2>1. ASSUME NEW v \in Workers PROVE Held'[v] \subseteq Range(seen')
    BY <1>0, <1>3, <1>7 DEF PassedDedup
  <2>2. InChannel' \subseteq Range(seen') /\ InLoad' \subseteq Range(seen')
    BY <1>0, <1>6, <1>7, <1>9, <1>10 DEF PassedDedup
  <2> QED BY <2>1, <2>2 DEF PassedDedup
<1>13. NotYetStored'
  <2>1. ASSUME NEW v \in Workers PROVE Held'[v] \cap Logged' = {}
    BY <1>3, <1>6, <1>7 DEF NotYetStored
  <2>2. main' # "loadsend"
    BY <1>0, <1>8
  <2> QED BY <1>6, <1>10, <2>1, <2>2 DEF NotYetStored
<1>14. LogKnown'
  BY <1>0, <1>6, <1>7 DEF LogKnown
<1>15. SeenOnce' /\ FaithfulStoredOnce'
  BY <1>0 DEF StoreInv, SeenOnce, FaithfulStoredOnce
<1> QED BY <1>11, <1>12, <1>13, <1>14, <1>15 DEF StoreInv

\* The steps of the engine before the workers exist.
LEMMA LoadBacklogStoreInv ==
  ASSUME CountInv, StoreInv, LoadBacklog, main' = "loading"
  PROVE  StoreInv'
<1>0. /\ TypeOK /\ UNCHANGED <<queue, seen, eventLog, pc, item, out>>
      /\ backlog' = InitialBacklog /\ main = "starting"
      /\ \A w \in Workers : pc[w] = "none"
  BY DEF CountInv, NoWorkersYet, LoadBacklog, workers, stored
<1>1. InChannel' = InChannel /\ Logged' = Logged /\ \A w \in Workers : Held'[w] = Held[w]
  BY <1>0 DEF InChannel, Logged, Held
<1>2. InLoad' = {} /\ InLoad = {}
  BY <1>0 DEF InLoad
<1>3. SeenOnce' /\ FaithfulStoredOnce'
  BY <1>0 DEF StoreInv, SeenOnce, FaithfulStoredOnce
<1>4. OnePlace'
  BY <1>0, <1>1, <1>2, OnePlaceKept DEF StoreInv
<1>5. PassedDedup'
  BY <1>0, <1>1, <1>2 DEF StoreInv, PassedDedup
<1>6. NotYetStored'
  BY <1>0, <1>1 DEF StoreInv, NotYetStored
<1>7. LogKnown'
  <2>1. ASSUME NEW e \in Logged
        PROVE  \E k \in 1..Len(backlog') : backlog'[k].e = e /\ \A i \in 1..k : backlog'[i].id
    <3>1. eventLog \in Seq(Events) /\ Targets \in Seq(Events)
      BY <1>0 DEF TypeOK
    <3>2. PICK k \in 1..Len(eventLog) : eventLog[k] = e
      BY <3>1, RangeOf DEF Logged
    <3>0. Reload[e] = e
      BY DEF Logged
    <3>3. /\ StoredEvents \in Seq(Item) /\ Len(StoredEvents) = Len(eventLog)
          /\ \A i \in 1..Len(eventLog) : StoredEvents[i].e = Reload[eventLog[i]]
          /\ \A i \in 1..Len(eventLog) : StoredEvents[i].id
      BY <1>0, StoredRead
    <3>4. TargetEvents \in Seq(Item)
      <4>1. \A i \in 1..Len(Targets) : [e |-> Targets[i], id |-> FALSE] \in Item
        BY <3>1, ElementOfSeq DEF Item
      <4>2. Len(Targets) \in Nat
        BY <3>1, LenProperties
      <4> QED BY <4>1, <4>2, IsASeq DEF TargetEvents
    <3>5. /\ Len(backlog') = Len(StoredEvents) + Len(TargetEvents)
          /\ \A i \in 1..(Len(StoredEvents) + Len(TargetEvents)) :
                i <= Len(StoredEvents) => backlog'[i] = StoredEvents[i]
      BY <1>0, <3>3, <3>4, ConcatProperties DEF InitialBacklog
    <3>6. Len(TargetEvents) \in Nat /\ Len(eventLog) \in Nat
      BY <3>1, <3>4, LenProperties
    <3>7. \A i \in 1..Len(eventLog) : i \in 1..Len(backlog') /\ backlog'[i] = StoredEvents[i]
      BY <3>3, <3>5, <3>6
    <3>8. k \in 1..Len(backlog') /\ backlog'[k].e = e
      BY <3>0, <3>2, <3>3, <3>7
    <3>9. \A i \in 1..k : backlog'[i].id
      <4>1. \A i \in 1..k : i \in 1..Len(eventLog)
        BY <3>6
      <4> QED BY <3>3, <3>7, <4>1
    <3> QED BY <3>8, <3>9
  <2> QED BY <1>0, <1>1, <2>1 DEF LogKnown
<1> QED BY <1>3, <1>4, <1>5, <1>6, <1>7 DEF StoreInv

\* A step that leaves alone the events on their way.
LEMMA QuietStoreInv ==
  ASSUME StoreInv, UNCHANGED <<queue, seen, eventLog, pc, item, out>>,
         main' \notin {"loading", "loadsend"} \/ UNCHANGED <<main, backlog>>
  PROVE  StoreInv'
<1>1. /\ InChannel' = InChannel /\ Logged' = Logged /\ \A w \in Workers : Held'[w] = Held[w]
      /\ InLoad' \subseteq InLoad
  BY DEF InChannel, Logged, Held, InLoad
<1>2. SeenOnce' /\ FaithfulStoredOnce'
  BY DEF StoreInv, SeenOnce, FaithfulStoredOnce
<1>3. OnePlace' /\ PassedDedup' /\ NotYetStored' /\ LogKnown'
  <2>1. OnePlace'
    BY <1>1, OnePlaceKept DEF StoreInv
  <2>2. PassedDedup'
    BY <1>1 DEF StoreInv, PassedDedup
  <2>3. NotYetStored'
    BY <1>1 DEF StoreInv, NotYetStored
  <2>4. LogKnown'
    <3>0. LogKnown
      BY DEF StoreInv
    <3>1. CASE UNCHANGED <<main, backlog>>
      BY <1>1, <3>0, <3>1 DEF LogKnown
    <3>2. CASE main' \notin {"loading", "loadsend"}
      BY <1>1, <3>0, <3>2 DEF LogKnown
    <3> QED BY <3>1, <3>2
  <2> QED BY <2>1, <2>2, <2>3, <2>4
<1> QED BY <1>2, <1>3 DEF StoreInv

\* A new scheduler has nothing on its way.
LEMMA NewSchedulerStoreInv ==
  ASSUME StoreInv, NewScheduler, UNCHANGED eventLog, main' \in {"down", "starting"}
  PROVE  StoreInv'
<1>1. \A p \in Prios : queue'[p] = <<>> /\ Len(queue'[p]) = 0
  BY DEF NewScheduler, EmptyQueue
<1>2. seen' = <<>> /\ \A w \in Workers : pc'[w] = "none"
  BY DEF NewScheduler
<1>3. InChannel' = {} /\ InLoad' = {} /\ \A w \in Workers : Held'[w] = {}
  <2>1. InChannel' = {}
    BY <1>1 DEF InChannel
  <2>2. InLoad' = {}
    BY DEF InLoad
  <2>3. \A w \in Workers : Held'[w] = {}
    BY <1>2 DEF Held
  <2> QED BY <2>1, <2>2, <2>3
<1>4. SeenOnce' /\ FaithfulStoredOnce'
  <2>1. Len(seen') = 0
    BY <1>2
  <2>2. SeenOnce'
    BY <2>1 DEF SeenOnce
  <2> QED BY <2>2 DEF StoreInv, FaithfulStoredOnce
<1>5. OnePlace'
  BY <1>1, <1>3 DEF OnePlace
<1>6. PassedDedup'
  BY <1>3 DEF PassedDedup
<1>7. NotYetStored'
  BY <1>1, <1>3 DEF NotYetStored
<1>8. LogKnown'
  BY <1>2 DEF LogKnown
<1> QED BY <1>4, <1>5, <1>6, <1>7, <1>8 DEF StoreInv

\* A stored event that is not at the head of the backlog stays ahead of the targets.
LEMMA BacklogShift ==
  ASSUME TypeOK, backlog # <<>>, backlog' = Tail(backlog), NEW e, e # Head(backlog).e,
         \E k \in 1..Len(backlog) : backlog[k].e = e /\ \A i \in 1..k : backlog[i].id
  PROVE  \E k \in 1..Len(backlog') : backlog'[k].e = e /\ \A i \in 1..k : backlog'[i].id
<1>1. /\ Len(backlog) \in Nat /\ Len(backlog') = Len(backlog) - 1
      /\ 1 \in 1..Len(backlog) /\ Head(backlog) = backlog[1]
      /\ \A i \in 1..Len(backlog') : i + 1 \in 1..Len(backlog) /\ i + 1 # 1 /\ backlog'[i] = backlog[i + 1]
      /\ \A i \in 1..Len(backlog) : i = 1 \/ (i - 1 \in 1..Len(backlog') /\ backlog'[i - 1] = backlog[i])
  <2>1. backlog \in Seq(Item)
    BY DEF TypeOK
  <2> QED BY <2>1, TailAt
<1>2. PICK k \in 1..Len(backlog) : backlog[k].e = e /\ \A i \in 1..k : backlog[i].id
  OBVIOUS
<1>3. k # 1
  BY <1>1, <1>2
<1>4. k - 1 \in 1..Len(backlog') /\ backlog'[k - 1].e = e
  BY <1>1, <1>2, <1>3
<1>5. \A i \in 1..(k - 1) : backlog'[i].id
  <2>1. \A i \in 1..(k - 1) : i + 1 \in 1..k /\ i \in 1..Len(backlog')
    BY <1>1
  <2> QED BY <1>1, <1>2, <2>1
<1> QED BY <1>4, <1>5

\* The engine drops a stored event or a target the deduper knows.
LEMMA DropStoreInv ==
  ASSUME CountInv, StoreInv, LoadNext, Head(backlog).e \in Range(seen)
  PROVE  StoreInv'
<1>0. /\ TypeOK /\ UNCHANGED <<queue, seen, eventLog, pc, item, out, main>>
      /\ backlog' = Tail(backlog) /\ backlog # <<>> /\ main = "loading"
  BY DEF CountInv, LoadNext, workers, stored
<1>1. /\ InChannel' = InChannel /\ Logged' = Logged /\ \A w \in Workers : Held'[w] = Held[w]
      /\ InLoad' = InLoad
  BY <1>0 DEF InChannel, Logged, Held, InLoad
<1>2. SeenOnce' /\ FaithfulStoredOnce'
  BY <1>0 DEF StoreInv, SeenOnce, FaithfulStoredOnce
<1>3. OnePlace'
  BY <1>0, <1>1, OnePlaceKept DEF StoreInv
<1>4. PassedDedup'
  BY <1>0, <1>1 DEF StoreInv, PassedDedup
<1>5. NotYetStored'
  BY <1>0, <1>1 DEF StoreInv, NotYetStored
<1>6. LogKnown'
  <2>1. ASSUME NEW e \in Logged, e \notin Range(seen)
        PROVE  \E k \in 1..Len(backlog') : backlog'[k].e = e /\ \A i \in 1..k : backlog'[i].id
    <3>1. \E k \in 1..Len(backlog) : backlog[k].e = e /\ \A i \in 1..k : backlog[i].id
      BY <1>0, <2>1 DEF StoreInv, LogKnown
    <3>2. e # Head(backlog).e
      BY <2>1
    <3> QED BY <1>0, <3>1, <3>2, BacklogShift
  <2>2. \A w \in Workers : pc'[w] = "none"
    BY <1>0 DEF CountInv, NoWorkersYet
  <2> QED BY <1>0, <1>1, <2>1, <2>2 DEF LogKnown
<1> QED BY <1>2, <1>3, <1>4, <1>5, <1>6 DEF StoreInv

\* A stored event or a target passes the deduper.  A target that does has no
\* row: the stored events are ahead of it, so the deduper knows them all.
LEMMA LoadStoreInv ==
  ASSUME IsFiniteSet(Events), Cardinality(Events) <= DedupCap,
         CountInv, StoreInv, LoadNext, Head(backlog).e \notin Range(seen)
  PROVE  StoreInv'
<1> DEFINE x == Head(backlog).e
<1>0. /\ TypeOK /\ UNCHANGED <<queue, eventLog, pc, item, out, backlog>>
      /\ backlog # <<>> /\ main = "loading" /\ main' = "loadsend"
      /\ seen' = Remember(seen, x)
      /\ \A w \in Workers : pc[w] = "none"
  BY DEF CountInv, LoadNext, workers, stored, NoWorkersYet
<1>1. Head(backlog) \in Item /\ seen \in Seq(Events) /\ Head(backlog) = backlog[1] /\ 1 \in 1..Len(backlog)
  <2>1. backlog \in Seq(Item) /\ seen \in Seq(Events)
    BY <1>0 DEF TypeOK
  <2> QED BY <1>0, <2>1
<1>2. x \in Events
  BY <1>1 DEF Item
<1>3. /\ InChannel' = InChannel /\ Logged' = Logged /\ \A w \in Workers : Held'[w] = Held[w]
      /\ \A w \in Workers : Held[w] = {}
  BY <1>0 DEF InChannel, Logged, Held
<1>4. InLoad' = {x}
  <2>1. InLoad' = {e \in Events : x = e}
    BY <1>0 DEF InLoad
  <2> HIDE DEF x
  <2> QED BY <1>2, <2>1
<1>5. SeenOnce /\ OnePlace /\ PassedDedup /\ NotYetStored /\ LogKnown
  BY DEF StoreInv
<1>6. ~Head(backlog).id => x \notin Logged
  <2> SUFFICES ASSUME ~Head(backlog).id, x \in Logged PROVE FALSE
    OBVIOUS
  <2>1. PICK k \in 1..Len(backlog) : \A i \in 1..k : backlog[i].id
    BY <1>0, <1>5 DEF LogKnown
  <2>2. 1 \in 1..k
    OBVIOUS
  <2> QED BY <1>1, <2>1, <2>2
<1> HIDE DEF x
<1>7. /\ seen' = Append(seen, x)
      /\ \A i, j \in 1..Len(Append(seen, x)) : Append(seen, x)[i] = Append(seen, x)[j] => i = j
  <2>1. x \notin Range(seen)
    BY DEF x
  <2> QED BY <1>0, <1>1, <1>2, <1>5, <2>1, NeverEvicts
<1>8. \A e : e \in Range(seen') <=> e \in Range(seen) \/ e = x
  BY <1>1, <1>2, <1>7, RangeAppend
<1>9. SeenOnce' /\ FaithfulStoredOnce'
  <2>1. SeenOnce'
    BY <1>7 DEF SeenOnce
  <2> QED BY <1>0, <2>1 DEF StoreInv, FaithfulStoredOnce
<1>10. OnePlace'
  <2>1. x \notin InChannel
    BY <1>5 DEF PassedDedup, x
  <2>2. InLoad' \cap InChannel' = {}
    BY <1>3, <1>4, <2>1
  <2>3. \A p, q \in Prios : \A i \in 1..Len(queue'[p]), j \in 1..Len(queue'[q]) :
          queue'[p][i].e = queue'[q][j].e => p = q /\ i = j
    BY <1>0, <1>5 DEF OnePlace
  <2>4. \A w \in Workers : Held'[w] = {}
    BY <1>3
  <2> QED BY <2>2, <2>3, <2>4 DEF OnePlace
<1>11. PassedDedup'
  BY <1>3, <1>4, <1>5, <1>8 DEF PassedDedup
<1>12. NotYetStored'
  <2>1. ~Head(backlog').id => InLoad' \cap Logged' = {}
    BY <1>0, <1>3, <1>4, <1>6
  <2>2. \A p \in Prios : \A i \in 1..Len(queue'[p]) : ~queue'[p][i].id => queue'[p][i].e \notin Logged'
    BY <1>0, <1>3, <1>5 DEF NotYetStored
  <2> QED BY <1>3, <2>1, <2>2 DEF NotYetStored
<1>13. LogKnown'
  BY <1>0, <1>3, <1>5, <1>8 DEF LogKnown
<1> QED BY <1>9, <1>10, <1>11, <1>12, <1>13 DEF StoreInv

\* The engine's send, before there are workers.
LEMMA LoadSendStoreInv ==
  ASSUME CountInv, StoreInv, LoadSend
  PROVE  StoreInv'
<1> DEFINE it == Head(backlog)
           p == priorityFor(Head(backlog).e)
<1>0. /\ TypeOK /\ UNCHANGED <<seen, eventLog, pc, item, out>>
      /\ backlog # <<>> /\ backlog' = Tail(backlog) /\ main = "loadsend" /\ main' = "loading"
      /\ queue' = [queue EXCEPT ![p] = Append(queue[p], it)]
      /\ \A w \in Workers : pc[w] = "none"
  BY DEF CountInv, SendPending, LoadSend, workers, stored, NoWorkersYet
<1>1. it \in Item /\ p \in Prios
  <2>1. backlog \in Seq(Item)
    BY <1>0 DEF TypeOK
  <2>2. p \in Prios
    BY DEF priorityFor, Prios
  <2> QED BY <1>0, <2>1, <2>2
<1> HIDE DEF p
<1>2. it.e \in Events
  BY <1>1 DEF Item
<1>3. InLoad = {it.e} /\ InLoad' = {}
  <2>1. InLoad = {e \in Events : it.e = e}
    BY <1>0 DEF InLoad
  <2>2. InLoad' = {}
    BY <1>0 DEF InLoad
  <2> HIDE DEF it
  <2> QED BY <1>2, <2>1, <2>2
<1>4. SeenOnce /\ OnePlace /\ PassedDedup /\ NotYetStored /\ LogKnown
  BY DEF StoreInv
<1>5. Logged' = Logged /\ \A w \in Workers : Held'[w] = {} /\ Held[w] = {}
  BY <1>0 DEF Logged, Held
<1>6. it.e \notin InChannel /\ it.e \in Range(seen) /\ (it.id \/ it.e \notin Logged)
  <2>1. it.e \notin InChannel
    BY <1>3, <1>4 DEF OnePlace
  <2>2. it.e \in Range(seen)
    BY <1>3, <1>4 DEF PassedDedup
  <2>3. ~Head(backlog).id => InLoad \cap Logged = {}
    BY <1>0, <1>4 DEF NotYetStored
  <2> QED BY <1>3, <2>1, <2>2, <2>3
<1>7. QueueOnce' /\ InChannel' = InChannel \cup {it.e}
  <2>1. QueueOnce
    BY <1>4 DEF OnePlace, QueueOnce
  <2> HIDE DEF it
  <2> QED BY <1>0, <1>1, <1>6, <2>1, SentOnce
<1>8. \A r \in Prios : \A i \in 1..Len(queue'[r]) : ~queue'[r][i].id => queue'[r][i].e \notin Logged
  <2>1. \A r \in Prios : \A i \in 1..Len(queue[r]) : ~queue[r][i].id => queue[r][i].e \notin Logged
    BY <1>4 DEF NotYetStored
  <2> HIDE DEF it
  <2> QED BY <1>0, <1>1, <1>6, <2>1, SentUnstored
<1>9. OnePlace'
  BY <1>3, <1>5, <1>7 DEF OnePlace, QueueOnce
<1>10. PassedDedup'
  <2> HIDE DEF it
  <2> QED BY <1>0, <1>3, <1>4, <1>5, <1>6, <1>7 DEF PassedDedup
<1>11. NotYetStored'
  BY <1>0, <1>5, <1>8 DEF NotYetStored
<1>12. LogKnown'
  <2>1. ASSUME NEW e \in Logged, e \notin Range(seen)
        PROVE  \E k \in 1..Len(backlog') : backlog'[k].e = e /\ \A i \in 1..k : backlog'[i].id
    <3>1. \E k \in 1..Len(backlog) : backlog[k].e = e /\ \A i \in 1..k : backlog[i].id
      BY <1>0, <1>4, <2>1 DEF LogKnown
    <3>2. e # Head(backlog).e
      BY <1>6, <2>1
    <3> QED BY <1>0, <3>1, <3>2, BacklogShift
  <2> QED BY <1>0, <1>5, <2>1 DEF LogKnown
<1>13. SeenOnce' /\ FaithfulStoredOnce'
  BY <1>0 DEF StoreInv, SeenOnce, FaithfulStoredOnce
<1> QED BY <1>9, <1>10, <1>11, <1>12, <1>13 DEF StoreInv

\* The workers start when the deduper knows every stored event.
LEMMA SpawnStoreInv ==
  ASSUME CountInv, StoreInv, SpawnWorkers
  PROVE  StoreInv'
<1>0. /\ UNCHANGED <<queue, seen, eventLog, item, out>>
      /\ backlog = <<>> /\ main = "loading" /\ main' = "waiting"
      /\ \A w \in Workers : pc'[w] = "resume"
  BY DEF SpawnWorkers, stored
<1>1. /\ InChannel' = InChannel /\ Logged' = Logged /\ InLoad' = InLoad
      /\ \A w \in Workers : Held'[w] = {}
  BY <1>0 DEF InChannel, Logged, Held, InLoad
<1>2. Logged \subseteq Range(seen)
  <2>1. Len(backlog) = 0
    BY <1>0
  <2>2. ASSUME NEW e \in Logged, NEW k \in 1..Len(backlog) PROVE FALSE
    BY <2>1
  <2> QED BY <1>0, <2>2 DEF StoreInv, LogKnown
<1>3. OnePlace'
  BY <1>0, <1>1 DEF StoreInv, OnePlace
<1>4. PassedDedup'
  BY <1>0, <1>1 DEF StoreInv, PassedDedup
<1>5. NotYetStored'
  BY <1>0, <1>1 DEF StoreInv, NotYetStored
<1>6. LogKnown'
  BY <1>0, <1>1, <1>2 DEF LogKnown
<1>7. SeenOnce' /\ FaithfulStoredOnce'
  BY <1>0 DEF StoreInv, SeenOnce, FaithfulStoredOnce
<1> QED BY <1>3, <1>4, <1>5, <1>6, <1>7 DEF StoreInv

LEMMA NextStoreInv ==
  ASSUME IsFiniteSet(Events), Cardinality(Events) <= DedupCap,
         CountInv, StoreInv, [Next]_vars
  PROVE  StoreInv'
<1>1. CASE Start
  BY <1>1, NewSchedulerStoreInv DEF Start
<1>2. CASE Crash
  BY <1>2, NewSchedulerStoreInv DEF Crash, stored
<1>3. CASE SetupFails \/ CloseQueues \/ JoinWorkers \/ FinishScan \/ CheckHealth
  <2>1. UNCHANGED <<queue, seen, eventLog, pc, item, out>> /\ main' \notin {"loading", "loadsend"}
    BY <1>3 DEF SetupFails, CloseQueues, JoinWorkers, FinishScan, CheckHealth, workers, stored
  <2> QED BY <2>1, QuietStoreInv
<1>4. CASE LoadBacklog
  <2>1. CASE main' = "loading"
    BY <1>4, <2>1, LoadBacklogStoreInv
  <2>2. CASE main' # "loading"
    <3>1. UNCHANGED <<queue, seen, eventLog, pc, item, out>> /\ main' = "down"
      BY <1>4, <2>2 DEF LoadBacklog, workers, stored
    <3> QED BY <3>1, QuietStoreInv
  <2> QED BY <2>1, <2>2
<1>5. CASE LoadNext
  BY <1>5, DropStoreInv, LoadStoreInv
<1>6. CASE LoadSend
  BY <1>6, LoadSendStoreInv
<1>7. CASE SpawnWorkers
  BY <1>7, SpawnStoreInv
<1>8. ASSUME NEW w \in Workers, WorkerStep(w) PROVE StoreInv'
  <2>1. TypeOK
    BY DEF CountInv
  <2>2. Passes(w) \/ (\E p \in Prios : Receives(w, p)) \/ Stores(w) \/ Accepts(w) \/ Sends(w)
    BY <1>8, <2>1, WorkerMoves
  <2> QED BY <1>8, <2>2, PassesStoreInv, ReceivesStoreInv, StoresStoreInv, AcceptsStoreInv, SendsStoreInv
<1>9. CASE Pause \/ Resume \/ Cancel \/ AtRest \/ UNCHANGED vars
  <2>1. UNCHANGED <<queue, seen, eventLog, pc, item, out, main, backlog>>
    BY <1>9 DEF Pause, Resume, Cancel, AtRest, vars, volatile, workers, stored
  <2> QED BY <2>1, QuietStoreInv
<1> QED BY <1>1, <1>2, <1>3, <1>4, <1>5, <1>6, <1>7, <1>8, <1>9 DEF Next, EngineStep

LEMMA InitStoreInv == Init => StoreInv
<1> SUFFICES ASSUME Init PROVE StoreInv
  OBVIOUS
<1>1. /\ \A p \in Prios : queue[p] = <<>> /\ Len(queue[p]) = 0
      /\ seen = <<>> /\ eventLog = <<>> /\ main = "down" /\ \A w \in Workers : pc[w] = "none"
  BY DEF Init, EmptyQueue
<1>2. InChannel = {} /\ InLoad = {} /\ \A w \in Workers : Held[w] = {}
  <2>1. InChannel = {}
    BY <1>1 DEF InChannel
  <2>2. InLoad = {} /\ \A w \in Workers : Held[w] = {}
    BY <1>1 DEF InLoad, Held
  <2> QED BY <2>1, <2>2
<1>3. OnePlace /\ PassedDedup /\ NotYetStored
  BY <1>1, <1>2 DEF OnePlace, PassedDedup, NotYetStored
<1>4. SeenOnce /\ FaithfulStoredOnce /\ LogKnown
  BY <1>1 DEF SeenOnce, FaithfulStoredOnce, LogKnown
<1> QED BY <1>3, <1>4 DEF StoreInv

-----------------------------------------------------------------------------
(* A successful first run has done everything it was called for.           *)

\* What a worker's step does to the rest of the scan.
LEMMA WorkerErrs ==
  ASSUME NEW w \in Workers, WorkerStep(w)
  PROVE  /\ UNCHANGED <<cancelled, runs, result>>
         /\ errs' = errs \/ (errs' = TRUE /\ pc[w] \in Busy)
<1>1. CASE ResumeCheck(w) \/ (\E p \in Prios : Poll(w, p)) \/ Select(w)
  BY <1>1 DEF ResumeCheck, Poll, Select, volatile
<1>2. CASE StoreEvent(w) \/ Gate(w) \/ CheckpointStatus(w)
  BY <1>2 DEF StoreEvent, Gate, CheckpointStatus, RecordFailure, Busy
<1>3. CASE MarkRunning(w) \/ HandleOk(w) \/ HandleFail(w)
  BY <1>3 DEF MarkRunning, HandleOk, HandleFail, RecordFailure, Busy, volatile
<1>4. CASE MarkCompleted(w) \/ Emit(w) \/ Send(w) \/ FinishEvent(w)
  BY <1>4 DEF MarkCompleted, Emit, Send, FinishEvent, volatile
<1> QED BY <1>1, <1>2, <1>3, <1>4 DEF WorkerStep

\* Events that are carried, and work that is assigned or done, is settled.
LEMMA SettledIf ==
  /\ \A e \in Events : e \in Carried => Owes(e) \subseteq Settled
  /\ \A w \in Workers : Assigned[w] \subseteq Settled
  /\ \A mk \in ModuleSet \X Keys : mk \in handled => mk \in Settled
<1>1. \A e \in Events : e \in Carried => Owes(e) \subseteq Settled
  BY OwesType DEF Settled
<1>2. \A w \in Workers : Assigned[w] \subseteq Settled
  BY DEF Settled, Assigned
<1> QED BY <1>1, <1>2 DEF Settled

LEMMA SettledIfNext ==
  /\ \A e \in Events : e \in Carried' => Owes(e) \subseteq Settled'
  /\ \A w \in Workers : Assigned'[w] \subseteq Settled'
  /\ \A mk \in ModuleSet \X Keys : mk \in handled' => mk \in Settled'
<1>1. \A e \in Events : e \in Carried' => Owes(e) \subseteq Settled'
  BY OwesType DEF Settled
<1>2. \A w \in Workers : Assigned'[w] \subseteq Settled'
  BY DEF Settled, Assigned
<1> QED BY <1>1, <1>2 DEF Settled

\* Settled work stays settled, and so does what is owed.
LEMMA CoveredKept ==
  ASSUME TypeOK, TypeOK', Covered, handled \subseteq handled',
         \A e \in Carried : e \in Carried' \/ Owes(e) \subseteq Settled',
         \A w \in Workers : \A mk \in Assigned[w] : mk \in Settled',
         \A e \in Range(seen') : e \in Range(seen) \/ e \in Carried',
         \A mk \in owed' : mk \in owed \/ \E e \in Returned' : mk \in Owes(e),
         \A e \in Returned : e \in Returned' \/ e \in Range(seen) \/ e \in Carried'
  PROVE  Covered'
<1>0. /\ \A e \in Events : e \in Carried' => Owes(e) \subseteq Settled'
      /\ \A mk \in ModuleSet \X Keys : mk \in handled' => mk \in Settled'
  BY SettledIfNext
<1>1. Settled \subseteq Settled'
  <2> SUFFICES ASSUME NEW mk \in Settled PROVE mk \in Settled'
    OBVIOUS
  <2>1. mk \in ModuleSet \X Keys
    BY DEF Settled
  <2>2. CASE mk \in handled
    BY <1>0, <2>1, <2>2
  <2>3. ASSUME NEW e \in Carried, mk \in Owes(e) PROVE mk \in Settled'
    <3>1. e \in Events
      BY DEF Carried
    <3> QED BY <1>0, <2>3, <3>1
  <2>4. ASSUME NEW w \in Workers, mk \in Assigned[w] PROVE mk \in Settled'
    BY <2>4
  <2> QED BY <2>2, <2>3, <2>4 DEF Settled
<1>2. \A e \in Range(seen) : Owes(e) \subseteq Settled'
  BY <1>1 DEF Covered
<1>3. Carried' \subseteq Events
  BY DEF Carried
<1>4. \A e \in Range(seen') : Owes(e) \subseteq Settled'
  BY <1>0, <1>2, <1>3
<1>5. ASSUME NEW mk \in owed', mk \notin Settled' PROVE \E e \in Returned' : mk \in Owes(e)
  <2>1. CASE mk \in owed
    <3>1. PICK e \in Returned : mk \in Owes(e)
      BY <1>1, <1>5, <2>1 DEF Covered
    <3>2. e \in Returned'
      BY <1>0, <1>2, <1>3, <1>5, <3>1
    <3> QED BY <3>1, <3>2
  <2> QED BY <2>1
<1> QED BY <1>4, <1>5 DEF Covered

\* A worker's step leaves the events and the work of the others alone.
LEMMA OthersCover ==
  ASSUME TypeOK, NEW w \in Workers, WorkerStep(w), NEW v \in Workers, v # w
  PROVE  Sending'[v] = Sending[v] /\ Unsent'[v] = Unsent[v] /\ Assigned'[v] = Assigned[v]
<1>1. pc'[v] = pc[v] /\ item'[v] = item[v] /\ mi'[v] = mi[v] /\ out'[v] = out[v]
  BY WorkerOthers, OthersOut
<1>2. Sending'[v] = Sending[v]
  BY <1>1 DEF Sending
<1>3. Unsent'[v] = Unsent[v]
  BY <1>1 DEF Unsent
<1>4. Assigned'[v] = Assigned[v]
  BY <1>1 DEF Assigned
<1> QED BY <1>2, <1>3, <1>4

\* What is left to show for a worker's step.
LEMMA WorkerCovered ==
  ASSUME TypeOK, TypeOK', Covered, NEW w \in Workers, WorkerStep(w), handled \subseteq handled',
         \A e \in InChannel : e \in Carried' \/ Owes(e) \subseteq Assigned'[w],
         \A e \in Sending[w] : e \in Carried',
         \A mk \in Assigned[w] : mk \in Assigned'[w] \/ mk \in handled',
         \A e \in Range(seen') : e \in Range(seen) \/ e \in Carried',
         \A mk \in owed' : mk \in owed \/ \E e \in Unsent'[w] : mk \in Owes(e),
         \A e \in Unsent[w] : e \in Unsent'[w] \/ e \in Range(seen) \/ e \in Carried'
  PROVE  Covered'
<1>0. /\ \A v \in Workers : Assigned'[v] \subseteq Settled'
      /\ \A mk \in ModuleSet \X Keys : mk \in handled' => mk \in Settled'
  BY SettledIfNext
<1>1. UNCHANGED <<main, backlog>>
  BY WorkerFrame
<1>2. InLoad' = InLoad /\ Unloaded' = Unloaded
  BY <1>1 DEF InLoad, Unloaded
<1>3. \A v \in Workers : v # w =>
        Sending'[v] = Sending[v] /\ Unsent'[v] = Unsent[v] /\ Assigned'[v] = Assigned[v]
  BY OthersCover
<1>4. ASSUME NEW e \in Carried PROVE e \in Carried' \/ Owes(e) \subseteq Settled'
  <2>1. e \in Events
    BY DEF Carried
  <2>2. CASE e \in InChannel
    BY <1>0, <2>2
  <2>3. CASE e \in InLoad
    BY <1>2, <2>1, <2>3 DEF Carried
  <2>4. ASSUME NEW v \in Workers, e \in Sending[v] PROVE e \in Carried'
    <3>1. CASE v = w
      BY <2>4, <3>1
    <3>2. CASE v # w
      BY <1>3, <2>1, <2>4, <3>2 DEF Carried
    <3> QED BY <3>1, <3>2
  <2> QED BY <2>2, <2>3, <2>4 DEF Carried
<1>5. ASSUME NEW v \in Workers, NEW mk \in Assigned[v] PROVE mk \in Settled'
  <2>1. mk \in ModuleSet \X Keys
    BY DEF Assigned
  <2>2. CASE v = w
    BY <1>0, <2>1, <2>2
  <2>3. CASE v # w
    BY <1>0, <1>3, <2>3
  <2> QED BY <2>2, <2>3
<1>6. Unsent'[w] \subseteq Returned'
  BY DEF Unsent, Returned
<1>7. ASSUME NEW e \in Returned PROVE e \in Returned' \/ e \in Range(seen) \/ e \in Carried'
  <2>1. e \in Events
    BY DEF Returned
  <2>2. CASE e \in Unloaded
    BY <1>2, <2>1, <2>2 DEF Returned
  <2>3. ASSUME NEW v \in Workers, e \in Unsent[v]
        PROVE  e \in Returned' \/ e \in Range(seen) \/ e \in Carried'
    <3>1. CASE v = w
      BY <1>6, <2>3, <3>1
    <3>2. CASE v # w
      BY <1>3, <2>1, <2>3, <3>2 DEF Returned
    <3> QED BY <3>1, <3>2
  <2> QED BY <2>2, <2>3 DEF Returned
<1>8. \A mk \in owed' : mk \in owed \/ \E e \in Returned' : mk \in Owes(e)
  BY <1>6
<1> QED BY <1>4, <1>5, <1>7, <1>8, CoveredKept

\* A step of a worker that touches no event on its way.
LEMMA StillCovered ==
  ASSUME TypeOK, TypeOK', Covered, NEW w \in Workers, WorkerStep(w), pc[w] # "send",
         UNCHANGED <<queue, seen, out, owed, handled>>,
         \A mk \in Assigned[w] : mk \in Assigned'[w] \/ mk \in handled
  PROVE  Covered'
<1>1. InChannel' = InChannel /\ Unsent'[w] = Unsent[w] /\ Sending[w] = {}
  BY DEF InChannel, Unsent, Sending
<1>2. \A e \in InChannel : e \in Carried'
  BY <1>1 DEF Carried, InChannel
<1> QED BY <1>1, <1>2, WorkerCovered

\* A module that consumes an event is at or behind the next subscriber.
LEMMA SubscriberAhead ==
  ASSUME NEW e \in Events, NEW mk \in Owes(e), NEW i \in Nat, NEW j, NextSubscriber(e, i, j),
         NEW k \in i..Len(Modules), Modules[k] = mk[1]
  PROVE  k \in j..Len(Modules)
<1>1. Len(Modules) \in Nat /\ j \in i..(Len(Modules) + 1)
  BY LenProperties DEF NextSubscriber
<1>2. subscribes(mk[1], e)
  BY DEF Owes, ChainFor
<1>3. ~(k \in i..(j - 1))
  BY <1>2 DEF NextSubscriber
<1> QED BY <1>1, <1>3

\* Assigned, spelled out.
LEMMA AssignedHas ==
  ASSUME NEW w \in Workers, NEW mk
  PROVE  mk \in Assigned[w] <=> /\ mk \in ModuleSet \X Keys /\ pc[w] \in Busy
                                /\ mk \in Owes(item[w].e)
                                /\ \E j \in mi[w]..Len(Modules) : Modules[j] = mk[1]
  BY DEF Assigned

LEMMA AssignedHasNext ==
  ASSUME NEW w \in Workers, NEW mk
  PROVE  mk \in Assigned'[w] <=> /\ mk \in ModuleSet \X Keys /\ pc'[w] \in Busy
                                 /\ mk \in Owes(item'[w].e)
                                 /\ \E j \in mi'[w]..Len(Modules) : Modules[j] = mk[1]
  BY DEF Assigned

\* The loop over the modules goes on: the module it leaves is done.
LEMMA NextModuleAssigned ==
  ASSUME CountInv, NEW w \in Workers, pc[w] \in InModule, NextModule(w), UNCHANGED item,
         <<Current(w), CkKey(item[w].e)>> \in handled,
         NEW mk \in Assigned[w]
  PROVE  mk \in Assigned'[w] \/ mk \in handled
<1>0. TypeOK /\ AtModule(w)
  BY DEF CountInv, LoopInside
<1> DEFINE e == item[w].e
<1>1. e \in Events /\ mi[w] \in 1..(Len(Modules) + 1) /\ Len(Modules) \in Nat
  <2>1. item[w] \in Item /\ mi[w] \in 1..(Len(Modules) + 1)
    BY <1>0 DEF TypeOK
  <2> QED BY <2>1, LenProperties DEF Item
<1>2. PICK j \in 1..(Len(Modules) + 1) : NextSubscriber(e, mi[w] + 1, j) /\ mi'[w] = j
  BY <1>0 DEF NextModule, TypeOK
<1>3. /\ mk \in ModuleSet \X Keys /\ mk \in Owes(e)
      /\ \E k \in mi[w]..Len(Modules) : Modules[k] = mk[1]
  BY AssignedHas
<1>4. PICK k \in mi[w]..Len(Modules) : Modules[k] = mk[1]
  BY <1>3
<1>5. pc'[w] \in Busy /\ item'[w].e = e
  BY <1>0 DEF NextModule, Goto, TypeOK, Busy
<1>6. CASE k = mi[w]
  <2>1. mk = <<Modules[mi[w]], CkKey(e)>>
    BY <1>3, <1>4, <1>6 DEF Owes
  <2> QED BY <2>1 DEF Current
<1>7. CASE k # mi[w]
  <2> DEFINE n == mi[w]
  <2>0. n \in Nat /\ k \in n..Len(Modules) /\ k # n
    BY <1>1, <1>4, <1>7
  <2>3. NextSubscriber(e, n + 1, j)
    BY <1>2
  <2> HIDE DEF e, n
  <2>1. k \in (n + 1)..Len(Modules) /\ n + 1 \in Nat
    BY <1>1, <2>0
  <2>2. k \in j..Len(Modules)
    BY <1>1, <1>3, <1>4, <2>1, <2>3, SubscriberAhead
  <2> QED BY <1>2, <1>3, <1>4, <1>5, <2>2, AssignedHasNext
<1> QED BY <1>6, <1>7

\* nextEvent: the event's work is the worker's.
LEMMA TakeAssigned ==
  ASSUME TypeOK, NEW w \in Workers, NEW p \in Prios, Take(w, p)
  PROVE  Owes(Head(queue[p]).e) \subseteq Assigned'[w]
<1> DEFINE h == Head(queue[p])
           e == h.e
<1>1. h \in Item
  BY DEF TypeOK, Take
<1>2. e \in Events
  BY <1>1 DEF Item
<1>3. item'[w].e = e
  BY DEF Take, TypeOK
<1>4. PICK j \in 1..(Len(Modules) + 1) : NextSubscriber(e, 1, j) /\ mi'[w] = j
  BY DEF Take, TypeOK
<1>5. pc'[w] \in Busy
  <2>1. pc' = [pc EXCEPT ![w] = IF h.id THEN "gate" ELSE "store"]
    BY DEF Take, Goto
  <2>2. pc'[w] = IF h.id THEN "gate" ELSE "store"
    BY <2>1 DEF TypeOK
  <2> HIDE DEF h
  <2> QED BY <2>2 DEF Busy
<1> HIDE DEF e
<1> SUFFICES ASSUME NEW mk \in Owes(e) PROVE mk \in Assigned'[w]
  BY DEF e
<1>6. mk \in ModuleSet \X Keys
  BY <1>2, OwesType
<1>7. mk[1] \in ModuleSet
  BY <1>6
<1>8. PICK k \in 1..Len(Modules) : Modules[k] = mk[1]
  <2>1. DOMAIN Modules = 1..Len(Modules)
    BY LenProperties
  <2> QED BY <1>7, <2>1 DEF ModuleSet, Range
<1>9. k \in j..Len(Modules)
  BY <1>2, <1>4, <1>8, SubscriberAhead
<1> QED BY <1>3, <1>4, <1>5, <1>6, <1>8, <1>9, AssignedHasNext

\* An event is taken.
LEMMA TakeCovered ==
  ASSUME TypeOK, TypeOK', Covered, NEW w \in Workers, WorkerStep(w), pc[w] \notin Busy,
         NEW p \in Prios, Take(w, p), UNCHANGED <<seen, out, owed, handled>>
  PROVE  Covered'
<1>1. Unsent'[w] = Unsent[w] /\ Sending[w] = {} /\ Assigned[w] = {}
  BY DEF Unsent, Sending, Assigned, Busy
<1>2. ASSUME NEW e \in InChannel PROVE e \in Carried' \/ Owes(e) \subseteq Assigned'[w]
  <2>1. PICK r \in Prios : \E i \in 1..Len(queue[r]) : queue[r][i].e = e
    BY DEF InChannel
  <2>2. PICK i \in 1..Len(queue[r]) : queue[r][i].e = e
    BY <2>1
  <2>3. e \in Events
    BY DEF InChannel
  <2>4. CASE r = p /\ i = 1
    <3>1. Head(queue[p]).e = e
      BY <2>2, <2>4, QueueTake
    <3> QED BY <3>1, TakeAssigned
  <2>5. CASE ~(r = p /\ i = 1)
    <3>1. \E k \in 1..Len(queue'[r]) : queue'[r][k] = queue[r][i]
      BY <2>5, QueueTake
    <3>2. e \in InChannel'
      BY <2>2, <2>3, <3>1 DEF InChannel
    <3> QED BY <2>3, <3>2 DEF Carried
  <2> QED BY <2>4, <2>5
<1> QED BY <1>1, <1>2, WorkerCovered

\* The deduper gains at most the new event.
LEMMA RangeRemember ==
  ASSUME NEW s \in Seq(Events), NEW x \in Events, NEW e \in Range(Remember(s, x))
  PROVE  e \in Range(s) \/ e = x
<1> DEFINE t == Append(s, x)
<1>1. /\ t \in Seq(Events) /\ Len(s) \in Nat /\ Len(t) = Len(s) + 1
  BY AppendAt
<1>2. e \in Range(t) => e \in Range(s) \/ e = x
  BY RangeAppend
<1> HIDE DEF t
<1>3. t # <<>>
  BY <1>1
<1>4. e \in Range(Tail(t)) => e \in Range(t)
  <2>1. /\ Tail(t) \in Seq(Events)
        /\ \A i \in 1..Len(Tail(t)) : i + 1 \in 1..Len(t) /\ i + 1 # 1 /\ Tail(t)[i] = t[i + 1]
    BY <1>1, <1>3, TailAt
  <2> HAVE e \in Range(Tail(t))
  <2>2. PICK i \in 1..Len(Tail(t)) : Tail(t)[i] = e
    BY <2>1, RangeOf
  <2>3. i + 1 \in 1..Len(t) /\ t[i + 1] = e
    BY <2>1, <2>2
  <2> QED BY <1>1, <2>3, RangeOf
<1>5. e \in Range(t) \/ e \in Range(Tail(t))
  BY DEF Remember, t
<1> QED BY <1>2, <1>4, <1>5

\* What is left of a worker's returned events after the first one.
LEMMA UnsentTail ==
  ASSUME TypeOK, NEW w \in Workers, out[w] # <<>>, out' = [out EXCEPT ![w] = Tail(out[w])],
         NEW e \in Unsent[w], e # Head(out[w])
  PROVE  e \in Unsent'[w]
<1> DEFINE s == out[w]
           t == Tail(s)
<1>1. s \in Seq(Events) /\ out'[w] = t /\ s # <<>>
  BY DEF TypeOK
<1>2. /\ Head(s) = s[1]
      /\ \A i \in 1..Len(s) : i = 1 \/ (i - 1 \in 1..Len(t) /\ t[i - 1] = s[i])
  <2> HIDE DEF s
  <2> QED BY <1>1, TailAt
<1> HIDE DEF t
<1>3. PICK i \in 1..Len(out[w]) : out[w][i] = e
  BY DEF Unsent
<1>4. i - 1 \in 1..Len(t) /\ t[i - 1] = e /\ e \in Events
  BY <1>2, <1>3 DEF Unsent
<1>5. \E j \in 1..Len(t) : t[j] = e
  BY <1>4
<1>6. Unsent'[w] = {x \in Events : \E j \in 1..Len(out'[w]) : out'[w][j] = x}
  BY DEF Unsent
<1> QED BY <1>1, <1>4, <1>5, <1>6

\* A worker that stays at its module keeps its work.
LEMMA SameAssigned ==
  ASSUME NEW w \in Workers, mi'[w] = mi[w], item'[w].e = item[w].e, pc'[w] \in Busy
  PROVE  \A mk \in Assigned[w] : mk \in Assigned'[w]
  BY DEF Assigned

\* Handle returns: the module is done, and what it returned is owed.
LEMMA HandleCovered ==
  ASSUME TypeOK, TypeOK', Covered, NEW w \in Workers, HandleOk(w), out[w] = <<>>
  PROVE  Covered'
<1> DEFINE next == Emits[Current(w)][item[w].e]
<1>1. /\ UNCHANGED <<queue, seen, item, mi>> /\ pc[w] = "handle" /\ pc'[w] = "complete"
      /\ handled \subseteq handled'
      /\ owed' = owed \cup UNION {Owes(e) : e \in Range(next)}
      /\ out'[w] = next
  BY DEF HandleOk, volatile, Goto, TypeOK
<1>2. InChannel' = InChannel /\ Sending[w] = {} /\ Unsent[w] = {}
  <2>1. Unsent[w] = {}
    BY DEF Unsent
  <2> QED BY <1>1, <2>1 DEF InChannel, Sending
<1>3. \A e \in InChannel : e \in Carried'
  BY <1>2 DEF Carried, InChannel
<1>4. \A mk \in Assigned[w] : mk \in Assigned'[w]
  <2>1. pc'[w] \in Busy
    BY <1>1 DEF Busy
  <2> QED BY <1>1, <2>1, SameAssigned
<1>5. ASSUME NEW e \in Range(next) PROVE e \in Unsent'[w]
  <2>1. out'[w] \in Seq(Events)
    BY DEF TypeOK
  <2>2. PICK i \in 1..Len(out'[w]) : out'[w][i] = e
    BY <1>1, <2>1, RangeOf
  <2>3. e \in Events
    BY <2>1, <2>2
  <2> QED BY <2>2, <2>3 DEF Unsent
<1> HIDE DEF next
<1>6. ASSUME NEW mk \in owed', mk \notin owed PROVE \E e \in Unsent'[w] : mk \in Owes(e)
  <2>1. PICK e \in Range(next) : mk \in Owes(e)
    BY <1>1, <1>6
  <2> QED BY <1>5, <2>1
<1>7. WorkerStep(w)
  BY DEF WorkerStep
<1>8. UNCHANGED seen
  BY <1>1
<1> QED BY <1>1, <1>2, <1>3, <1>4, <1>6, <1>7, <1>8, WorkerCovered

\* A duplicate is dropped.
LEMMA DropCovered ==
  ASSUME TypeOK, TypeOK', Covered, NEW w \in Workers, Emit(w),
         out[w] # <<>>, Head(out[w]) \in Range(seen)
  PROVE  Covered'
<1>1. /\ UNCHANGED <<queue, seen, item, mi, pc, owed, handled>> /\ pc[w] = "emit"
      /\ out' = [out EXCEPT ![w] = Tail(out[w])]
  BY DEF Emit, history
<1>2. InChannel' = InChannel /\ Sending[w] = {}
  BY <1>1 DEF InChannel, Sending
<1>3. \A e \in InChannel : e \in Carried'
  BY <1>2 DEF Carried, InChannel
<1>4. \A mk \in Assigned[w] : mk \in Assigned'[w]
  <2>1. pc'[w] \in Busy
    BY <1>1 DEF Busy
  <2> QED BY <1>1, <2>1, SameAssigned
<1>5. \A e \in Unsent[w] : e \in Unsent'[w] \/ e \in Range(seen)
  BY <1>1, UnsentTail
<1>6. WorkerStep(w)
  BY DEF WorkerStep
<1>7. Range(seen') = Range(seen)
  BY <1>1
<1> QED BY <1>1, <1>2, <1>3, <1>4, <1>5, <1>6, <1>7, WorkerCovered

\* A returned event passes the deduper.
LEMMA AcceptCovered ==
  ASSUME TypeOK, TypeOK', Covered, NEW w \in Workers, Emit(w),
         out[w] # <<>>, Head(out[w]) \notin Range(seen)
  PROVE  Covered'
<1> DEFINE x == Head(out[w])
<1>1. /\ UNCHANGED <<queue, out, item, mi, owed, handled>> /\ pc[w] = "emit" /\ pc'[w] = "send"
      /\ seen' = Remember(seen, x)
  BY DEF Emit, history, Goto, TypeOK
<1>2. x \in Events /\ seen \in Seq(Events)
  <2>1. out[w] \in Seq(Events) /\ seen \in Seq(Events)
    BY DEF TypeOK
  <2> QED BY <2>1
<1>3. InChannel' = InChannel /\ Sending[w] = {} /\ Unsent'[w] = Unsent[w]
  BY <1>1 DEF InChannel, Sending, Unsent
<1>4. \A e \in InChannel : e \in Carried'
  BY <1>3 DEF Carried, InChannel
<1>5. \A mk \in Assigned[w] : mk \in Assigned'[w]
  <2>1. pc'[w] \in Busy
    BY <1>1 DEF Busy
  <2> QED BY <1>1, <2>1, SameAssigned
<1>6. x \in Carried'
  <2>1. x \in Sending'[w]
    BY <1>1, <1>2 DEF Sending
  <2> QED BY <1>2, <2>1 DEF Carried
<1> HIDE DEF x
<1>7. \A e \in Range(seen') : e \in Range(seen) \/ e \in Carried'
  BY <1>1, <1>2, <1>6, RangeRemember
<1>8. WorkerStep(w)
  BY DEF WorkerStep
<1> QED BY <1>1, <1>3, <1>4, <1>5, <1>7, <1>8, WorkerCovered

\* It is sent.
LEMMA SendCovered ==
  ASSUME TypeOK, TypeOK', Covered, NEW w \in Workers, Send(w), out[w] # <<>>
  PROVE  Covered'
<1> DEFINE x == Head(out[w])
           p == priorityFor(x)
           it == [e |-> x, id |-> FALSE]
<1>1. /\ UNCHANGED <<seen, item, mi, owed, handled>> /\ pc[w] = "send" /\ pc'[w] = "emit"
      /\ out' = [out EXCEPT ![w] = Tail(out[w])]
      /\ queue' = [queue EXCEPT ![p] = Append(queue[p], it)]
  BY DEF Send, history, Goto, TypeOK
<1>2. x \in Events /\ p \in Prios
  <2>1. out[w] \in Seq(Events)
    BY DEF TypeOK
  <2>2. p \in Prios
    BY DEF priorityFor, Prios
  <2> QED BY <2>1, <2>2
<1>3. Sending[w] \subseteq {x}
  BY DEF Sending
<1>4. \A e \in Unsent[w] : e \in Unsent'[w] \/ e = x
  BY <1>1, UnsentTail
<1> HIDE DEF x, p
<1>5. it \in Item /\ it.e = x
  BY <1>2 DEF Item
<1> HIDE DEF it
<1>6. x \in InChannel' /\ InChannel \subseteq InChannel'
  <2>1. Len(queue[p]) + 1 \in 1..Len(queue'[p]) /\ queue'[p][Len(queue[p]) + 1] = it
    BY <1>1, <1>2, <1>5, QueueSend
  <2>2. x \in InChannel'
    BY <1>2, <1>5, <2>1 DEF InChannel
  <2>3. \A r \in Prios : \A i \in 1..Len(queue[r]) :
               i \in 1..Len(queue'[r]) /\ queue'[r][i] = queue[r][i]
    BY <1>1, <1>2, <1>5, QueueSend
  <2>4. ASSUME NEW e \in InChannel PROVE e \in InChannel'
    <3>1. PICK r \in Prios : \E i \in 1..Len(queue[r]) : queue[r][i].e = e
      BY DEF InChannel
    <3>2. PICK i \in 1..Len(queue[r]) : queue[r][i].e = e
      BY <3>1
    <3>3. i \in 1..Len(queue'[r]) /\ queue'[r][i].e = e /\ e \in Events
      BY <2>3, <3>2 DEF InChannel
    <3> QED BY <3>3 DEF InChannel
  <2> QED BY <2>2, <2>4
<1>7. InChannel' \subseteq Carried'
  BY DEF Carried, InChannel
<1>8. \A mk \in Assigned[w] : mk \in Assigned'[w]
  <2>1. pc'[w] \in Busy
    BY <1>1 DEF Busy
  <2> QED BY <1>1, <2>1, SameAssigned
<1>9. WorkerStep(w)
  BY DEF WorkerStep
<1>10. Range(seen') = Range(seen)
  BY <1>1
<1> QED BY <1>1, <1>3, <1>4, <1>6, <1>7, <1>8, <1>9, <1>10, WorkerCovered

\* While nothing fails, a worker's step forgets nothing.
LEMMA WorkerKeepsCovered ==
  ASSUME "status" \notin Faults, CountInv, TypeOK', CheckpointInv, NothingBehind, HandledThrough,
         Covered, ~cancelled, ~errs', NEW w \in Workers, WorkerStep(w)
  PROVE  Covered'
<1>0. TypeOK /\ pc \in [Workers -> PCs] /\ item \in [Workers -> Item]
  BY DEF CountInv, TypeOK
<1>1. ASSUME NEW l, Goto(w, l) PROVE pc'[w] = l
  BY <1>0, <1>1 DEF Goto
<1>2. ~Fails("status")
  BY DEF Fails, Fault
<1>3. ASSUME RecordFailure PROVE FALSE
  BY <1>3 DEF RecordFailure
<1>4. ASSUME pc[w] \notin Busy, UNCHANGED <<queue, seen, out, owed, handled>> PROVE Covered'
  <2>1. Assigned[w] = {} /\ pc[w] # "send"
    BY <1>4 DEF Assigned, Busy
  <2> QED BY <1>0, <1>4, <2>1, StillCovered
<1>5. ASSUME pc[w] # "send", UNCHANGED <<queue, seen, out, owed, handled, mi>>,
             item'[w].e = item[w].e, pc'[w] \in Busy
      PROVE  Covered'
  <2>1. \A mk \in Assigned[w] : mk \in Assigned'[w]
    BY <1>5, SameAssigned
  <2> QED BY <1>0, <1>5, <2>1, StillCovered
<1>6. ASSUME pc[w] \in InModule, pc[w] # "send", UNCHANGED <<queue, seen, out, owed, handled, item>>,
             NextModule(w), <<Current(w), CkKey(item[w].e)>> \in handled
      PROVE  Covered'
  <2>1. \A mk \in Assigned[w] : mk \in Assigned'[w] \/ mk \in handled
    BY <1>6, NextModuleAssigned
  <2> QED BY <1>0, <1>6, <2>1, StillCovered
<1>7. CASE ResumeCheck(w)
  BY <1>4, <1>7 DEF ResumeCheck, volatile, history, Busy
<1>8. ASSUME NEW p \in Prios, Poll(w, p) PROVE Covered'
  <2>1. pc[w] \notin Busy /\ UNCHANGED <<seen, out, owed, handled>>
    BY <1>8 DEF Poll, Prios, Busy, history
  <2>2. CASE Take(w, p)
    BY <1>0, <2>1, <2>2, TakeCovered
  <2>3. CASE UNCHANGED queue
    BY <1>4, <2>1, <2>3
  <2> QED BY <1>8, <2>2, <2>3 DEF Poll
<1>9. CASE Select(w)
  <2>1. pc[w] \notin Busy /\ UNCHANGED <<seen, out, owed, handled>>
    BY <1>9 DEF Select, Busy, history
  <2>2. ASSUME NEW p \in Prios, Take(w, p) PROVE Covered'
    BY <1>0, <2>1, <2>2, TakeCovered
  <2>3. CASE UNCHANGED queue
    BY <1>4, <2>1, <2>3
  <2> QED BY <1>9, <2>2, <2>3 DEF Select
<1>10. CASE StoreEvent(w)
  <2>1. pc[w] # "send" /\ UNCHANGED <<queue, seen, out, owed, handled, mi>> /\ pc'[w] = "gate"
    BY <1>1, <1>10 DEF StoreEvent, history
  <2>2. item' = [item EXCEPT ![w] = [item[w] EXCEPT !.id = TRUE]]
    BY <1>3, <1>10 DEF StoreEvent
  <2>3. item'[w] = [item[w] EXCEPT !.id = TRUE] /\ item[w] \in Item
    BY <1>0, <2>2
  <2>4. item'[w].e = item[w].e
    BY <2>3 DEF Item
  <2> QED BY <1>5, <2>1, <2>4 DEF Busy
<1>11. CASE Gate(w)
  <2>1. pc[w] = "gate" /\ UNCHANGED <<queue, seen, out, owed, handled, mi, item>> /\ pc'[w] = "check"
    BY <1>1, <1>2, <1>11 DEF Gate, history
  <2> QED BY <1>5, <2>1 DEF Busy
<1>12. CASE CheckpointStatus(w)
  <2>1. pc[w] = "check" /\ UNCHANGED <<queue, seen, out, owed, handled, item>>
    BY <1>12 DEF CheckpointStatus, history
  <2>2. CASE AlreadyDone(w) /\ NextModule(w)
    <3>1. Current(w) \in ModuleSet /\ CkKey(item[w].e) \in Keys
      BY <2>1, AtKey DEF InModule
    <3>2. <<Current(w), CkKey(item[w].e)>> \in handled
      BY <2>2, <3>1 DEF AlreadyDone, CheckpointInv, CheckpointSound
    <3> QED BY <1>6, <2>1, <2>2, <3>2 DEF InModule
  <2>3. CASE Goto(w, "mark") /\ UNCHANGED mi
    BY <1>1, <1>5, <2>1, <2>3 DEF Busy
  <2> QED BY <1>3, <1>12, <2>2, <2>3 DEF CheckpointStatus
<1>13. CASE MarkRunning(w)
  <2>1. pc[w] = "mark" /\ UNCHANGED <<queue, seen, out, owed, handled, mi, item>> /\ pc'[w] = "handle"
    BY <1>1, <1>3, <1>13 DEF MarkRunning, history
  <2> QED BY <1>5, <2>1 DEF Busy
<1>14. CASE HandleOk(w)
  <2>1. out[w] = <<>>
    BY <1>14 DEF HandleOk, NothingBehind
  <2> QED BY <1>0, <1>14, <2>1, HandleCovered
<1>15. CASE HandleFail(w)
  BY <1>3, <1>15 DEF HandleFail
<1>16. CASE MarkCompleted(w)
  <2>1. pc[w] = "complete" /\ UNCHANGED <<queue, seen, out, owed, handled, mi, item>> /\ pc'[w] = "emit"
    BY <1>1, <1>16 DEF MarkCompleted, history, volatile
  <2> QED BY <1>5, <2>1 DEF Busy
<1>17. CASE Emit(w)
  <2>1. CASE out[w] # <<>>
    BY <1>0, <1>17, <2>1, DropCovered, AcceptCovered
  <2>2. CASE out[w] = <<>>
    <3>1. pc[w] = "emit" /\ UNCHANGED <<queue, seen, out, owed, handled, item>> /\ NextModule(w)
      BY <1>17, <2>2 DEF Emit, history
    <3>2. <<Current(w), CkKey(item[w].e)>> \in handled
      BY <3>1 DEF HandledThrough
    <3> QED BY <1>6, <3>1, <3>2 DEF InModule
  <2> QED BY <2>1, <2>2
<1>18. CASE Send(w)
  <2>1. out[w] # <<>>
    BY <1>18 DEF Send, CountInv, SendPending
  <2> QED BY <1>0, <1>18, <2>1, SendCovered
<1>19. CASE FinishEvent(w)
  <2>1. pc[w] = "gate" /\ UNCHANGED <<queue, seen, out, owed, handled>> /\ ~AtModule(w)
    BY <1>19 DEF FinishEvent, history
  <2>2. mi[w] \in Nat /\ Len(Modules) \in Nat /\ mi[w] > Len(Modules)
    BY <1>0, <2>1, LenProperties DEF AtModule, TypeOK
  <2>3. Assigned[w] = {}
    BY <2>2 DEF Assigned
  <2> QED BY <1>0, <2>1, <2>3, StillCovered, <1>19 
<1> QED BY <1>7, <1>8, <1>9, <1>10, <1>11, <1>12, <1>13, <1>14, <1>15, <1>16, <1>17, <1>18, <1>19 DEF WorkerStep

\* The engine's steps that touch no event.
LEMMA QuietCovered ==
  ASSUME TypeOK, TypeOK', Covered, UNCHANGED <<queue, seen, out, backlog, owed, handled, item, mi>>,
         UNCHANGED pc \/ \A w \in Workers : pc[w] \notin Busy /\ pc'[w] \notin Busy,
         UNCHANGED main \/ (main # "loadsend" /\ main' # "loadsend")
  PROVE  Covered'
<1>1. InChannel' = InChannel /\ InLoad' = InLoad /\ Unloaded' = Unloaded
  <2>1. InChannel' = InChannel /\ Unloaded' = Unloaded
    BY DEF InChannel, Unloaded
  <2>2. InLoad' = InLoad
    BY DEF InLoad
  <2> QED BY <2>1, <2>2
<1>2. ASSUME NEW w \in Workers
      PROVE  Sending'[w] = Sending[w] /\ Unsent'[w] = Unsent[w] /\ Assigned'[w] = Assigned[w]
  <2>1. Unsent'[w] = Unsent[w]
    BY DEF Unsent
  <2>2. CASE UNCHANGED pc
    BY <2>1, <2>2 DEF Sending, Assigned
  <2>3. CASE pc[w] \notin Busy /\ pc'[w] \notin Busy
    <3>1. Sending'[w] = {} /\ Sending[w] = {}
      BY <2>3 DEF Sending, Busy
    <3>2. Assigned'[w] = {} /\ Assigned[w] = {}
      BY <2>3 DEF Assigned
    <3> QED BY <2>1, <3>1, <3>2
  <2> QED BY <2>2, <2>3
<1>3. Carried' = Carried
  BY <1>1, <1>2 DEF Carried
<1>4. Returned' = Returned
  BY <1>1, <1>2 DEF Returned
<1>5. \A w \in Workers : \A mk \in Assigned[w] : mk \in Settled'
  BY <1>2, SettledIfNext
<1> QED BY <1>3, <1>4, <1>5, CoveredKept

\* The engine's steps before there are workers: only the backlog, the channels
\* and the deduper change.
LEMMA LoadCovered ==
  ASSUME TypeOK, TypeOK', Covered, UNCHANGED <<out, owed, handled, pc>>,
         \A w \in Workers : pc[w] = "none",
         \A e \in InChannel : e \in Carried',
         \A e \in InLoad : e \in Carried',
         \A e \in Range(seen') : e \in Range(seen) \/ e \in Carried',
         \A e \in Unloaded : e \in Unloaded' \/ e \in Range(seen) \/ e \in Carried'
  PROVE  Covered'
<1>1. \A w \in Workers : Sending[w] = {} /\ Assigned[w] = {}
  BY DEF Sending, Assigned, Busy
<1>2. \A w \in Workers : Unsent'[w] = Unsent[w]
  BY DEF Unsent
<1>3. \A e \in Carried : e \in Carried'
  BY <1>1 DEF Carried
<1>4. \A e \in Returned : e \in Returned' \/ e \in Range(seen) \/ e \in Carried'
  BY <1>2 DEF Returned
<1> QED BY <1>1, <1>3, <1>4, CoveredKept

\* What is left of the backlog after its first event.
LEMMA UnloadedTail ==
  ASSUME TypeOK, backlog # <<>>, backlog' = Tail(backlog), NEW e \in Unloaded, e # Head(backlog).e
  PROVE  e \in Unloaded'
<1>1. backlog \in Seq(Item)
  BY DEF TypeOK
<1>2. /\ Head(backlog) = backlog[1]
      /\ \A i \in 1..Len(backlog) : i = 1 \/ (i - 1 \in 1..Len(backlog') /\ backlog'[i - 1] = backlog[i])
  BY <1>1, TailAt
<1>3. PICK i \in 1..Len(backlog) : backlog[i].e = e
  BY DEF Unloaded
<1>4. i - 1 \in 1..Len(backlog') /\ backlog'[i - 1].e = e /\ e \in Events
  BY <1>2, <1>3 DEF Unloaded
<1> QED BY <1>4 DEF Unloaded

LEMMA LoadNextCovered ==
  ASSUME CountInv, TypeOK', Covered, LoadNext
  PROVE  Covered'
<1>0. /\ TypeOK /\ UNCHANGED <<queue, out, owed, handled, pc>> /\ main = "loading" /\ backlog # <<>>
      /\ \A w \in Workers : pc[w] = "none"
  BY DEF CountInv, NoWorkersYet, LoadNext, workers, history
<1>1. InChannel' = InChannel /\ InLoad = {}
  BY <1>0 DEF InChannel, InLoad
<1>2. \A e \in InChannel : e \in Carried'
  BY <1>1 DEF Carried, InChannel
<1> DEFINE x == Head(backlog).e
<1>3. CASE x \in Range(seen)
  <2>1. backlog' = Tail(backlog) /\ UNCHANGED seen
    BY <1>3 DEF LoadNext
  <2>2. \A e \in Unloaded : e \in Unloaded' \/ e \in Range(seen)
    BY <1>0, <1>3, <2>1, UnloadedTail
  <2>3. Range(seen') = Range(seen)
    BY <2>1
  <2> QED BY <1>0, <1>1, <1>2, <2>2, <2>3, LoadCovered
<1>4. CASE x \notin Range(seen)
  <2>1. UNCHANGED backlog /\ seen' = Remember(seen, x) /\ main' = "loadsend"
    BY <1>4 DEF LoadNext
  <2>2. x \in Events /\ seen \in Seq(Events)
    <3>1. backlog \in Seq(Item) /\ seen \in Seq(Events)
      BY <1>0 DEF TypeOK
    <3>2. Head(backlog) \in Item
      BY <1>0, <3>1
    <3> QED BY <3>1, <3>2 DEF Item
  <2>3. x \in InLoad'
    BY <2>1, <2>2 DEF InLoad
  <2> HIDE DEF x
  <2>4. x \in Carried'
    BY <2>2, <2>3 DEF Carried
  <2>5. \A e \in Range(seen') : e \in Range(seen) \/ e \in Carried'
    BY <2>1, <2>2, <2>4, RangeRemember
  <2>6. Unloaded' = Unloaded
    BY <2>1 DEF Unloaded
  <2> QED BY <1>0, <1>1, <1>2, <2>5, <2>6, LoadCovered
<1> QED BY <1>3, <1>4

LEMMA LoadSendCovered ==
  ASSUME CountInv, TypeOK', Covered, LoadSend
  PROVE  Covered'
<1> DEFINE it == Head(backlog)
           p == priorityFor(Head(backlog).e)
<1>0. /\ TypeOK /\ UNCHANGED <<seen, out, owed, handled, pc>>
      /\ backlog # <<>> /\ backlog' = Tail(backlog)
      /\ queue' = [queue EXCEPT ![p] = Append(queue[p], it)]
      /\ \A w \in Workers : pc[w] = "none"
  BY DEF CountInv, NoWorkersYet, SendPending, LoadSend, workers, history
<1>1. it \in Item /\ p \in Prios
  <2>1. backlog \in Seq(Item)
    BY <1>0 DEF TypeOK
  <2>2. p \in Prios
    BY DEF priorityFor, Prios
  <2> QED BY <1>0, <2>1, <2>2
<1> HIDE DEF p
<1>2. it.e \in Events
  BY <1>1 DEF Item
<1>3. InLoad \subseteq {it.e}
  BY DEF InLoad
<1>4. \A e \in Unloaded : e \in Unloaded' \/ e = it.e
  BY <1>0, UnloadedTail
<1> HIDE DEF it
<1>5. it.e \in InChannel' /\ InChannel \subseteq InChannel'
  <2>1. Len(queue[p]) + 1 \in 1..Len(queue'[p]) /\ queue'[p][Len(queue[p]) + 1] = it
    BY <1>0, <1>1, QueueSend
  <2>2. it.e \in InChannel'
    BY <1>1, <1>2, <2>1 DEF InChannel
  <2>3. \A r \in Prios : \A i \in 1..Len(queue[r]) :
               i \in 1..Len(queue'[r]) /\ queue'[r][i] = queue[r][i]
    BY <1>0, <1>1, QueueSend
  <2>4. ASSUME NEW e \in InChannel PROVE e \in InChannel'
    <3>1. PICK r \in Prios : \E i \in 1..Len(queue[r]) : queue[r][i].e = e
      BY DEF InChannel
    <3>2. PICK i \in 1..Len(queue[r]) : queue[r][i].e = e
      BY <3>1
    <3>3. i \in 1..Len(queue'[r]) /\ queue'[r][i].e = e /\ e \in Events
      BY <2>3, <3>2 DEF InChannel
    <3> QED BY <3>3 DEF InChannel
  <2> QED BY <2>2, <2>4
<1>6. InChannel' \subseteq Carried'
  BY DEF Carried, InChannel
<1>7. Range(seen') = Range(seen)
  BY <1>0
<1> QED BY <1>0, <1>3, <1>4, <1>5, <1>6, <1>7, LoadCovered

\* The first targets are owed, and in the backlog.
LEMMA LoadBacklogCovered ==
  ASSUME CountInv, LoadBacklog, main' = "loading", owed = {}, seen = <<>>
  PROVE  Covered'
<1>0. /\ TypeOK /\ UNCHANGED <<seen>> /\ backlog' = StoredEvents \o TargetEvents
      /\ owed' = owed \cup UNION {Owes(e) : e \in Range(Targets)}
  BY DEF CountInv, LoadBacklog, InitialBacklog
<1>1. eventLog \in Seq(Events) /\ Targets \in Seq(Events)
  BY <1>0 DEF TypeOK
<1>2. StoredEvents \in Seq(Item)
  BY <1>0, StoredRead
<1>3. /\ TargetEvents \in Seq(Item) /\ Len(TargetEvents) = Len(Targets) /\ Len(Targets) \in Nat
      /\ \A i \in 1..Len(Targets) : TargetEvents[i].e = Targets[i]
  <2>1. \A i \in 1..Len(Targets) : [e |-> Targets[i], id |-> FALSE] \in Item
    BY <1>1, ElementOfSeq DEF Item
  <2>2. Len(Targets) \in Nat
    BY <1>1, LenProperties
  <2>3. TargetEvents \in Seq(Item)
    BY <2>1, <2>2, IsASeq DEF TargetEvents
  <2>4. Len(TargetEvents) = Len(Targets)
    BY <2>2, <2>3 DEF TargetEvents
  <2>5. \A i \in 1..Len(Targets) : TargetEvents[i].e = Targets[i]
    BY DEF TargetEvents
  <2> QED BY <2>2, <2>3, <2>4, <2>5
<1> DEFINE s == StoredEvents
           t == TargetEvents
<1>4. s \in Seq(Item) /\ t \in Seq(Item) /\ backlog' = s \o t
  BY <1>0, <1>2, <1>3
<1> HIDE DEF s, t
<1>5. /\ Len(s) \in Nat /\ Len(t) \in Nat /\ Len(backlog') = Len(s) + Len(t)
      /\ \A i \in 1..(Len(s) + Len(t)) : i > Len(s) => backlog'[i] = t[i - Len(s)]
  BY <1>4, ConcatProperties, LenProperties
<1>6. ASSUME NEW e \in Range(Targets) PROVE e \in Returned'
  <2>1. PICK i \in 1..Len(Targets) : Targets[i] = e
    BY <1>1, RangeOf
  <2>2. i \in 1..Len(t) /\ t[i].e = e /\ e \in Events
    BY <1>1, <1>3, <2>1 DEF t
  <2>3. Len(s) + i \in 1..Len(backlog') /\ Len(s) + i > Len(s) /\ (Len(s) + i) - Len(s) = i
    BY <1>5, <2>2
  <2>4. backlog'[Len(s) + i] = t[i]
    BY <1>5, <2>3
  <2>5. e \in Unloaded'
    BY <2>2, <2>3, <2>4 DEF Unloaded
  <2> QED BY <2>2, <2>5 DEF Returned
<1>7. \A mk \in owed' : \E e \in Returned' : mk \in Owes(e)
  BY <1>0, <1>6
<1>8. Range(seen') = {}
  BY <1>0 DEF Range
<1> QED BY <1>7, <1>8 DEF Covered

\* A closed scheduler has no worker at work.
LEMMA ClosedIdle ==
  ASSUME CountInv, closed, NEW w \in Workers
  PROVE  pc[w] \notin Busy
  BY DEF CountInv, CloseIsQuiet, BusyWorkers

\* What a worker has returned and not enqueued, it is enqueueing.
LEMMA WorkerNothingBehind ==
  ASSUME CountInv, NothingBehind, NEW w \in Workers, WorkerStep(w)
  PROVE  NothingBehind'
<1> DEFINE Emitting == {"complete", "emit", "send"}
<1>0. /\ TypeOK /\ pc \in [Workers -> PCs] /\ out \in [Workers -> Seq(Events)]
      /\ UNCHANGED <<main, backlog, closed>>
  BY WorkerFrame DEF CountInv, TypeOK
<1>1. ASSUME NEW l, Goto(w, l) PROVE pc'[w] = l
  BY <1>0, <1>1 DEF Goto
<1>2. pc[w] \notin Emitting => out[w] = <<>>
  BY DEF NothingBehind
<1>3. pc'[w] \notin Emitting => out'[w] = <<>>
  <2>1. CASE ResumeCheck(w) \/ (\E p \in Prios : Poll(w, p)) \/ Select(w) \/ StoreEvent(w) \/ Gate(w)
             \/ CheckpointStatus(w) \/ MarkRunning(w) \/ HandleFail(w) \/ FinishEvent(w)
    BY <1>2, <2>1 DEF ResumeCheck, Poll, Select, StoreEvent, Gate, CheckpointStatus, MarkRunning,
           HandleFail, FinishEvent, Prios
  <2>2. CASE HandleOk(w)
    BY <1>1, <2>2 DEF HandleOk
  <2>3. CASE MarkCompleted(w)
    BY <1>1, <2>3 DEF MarkCompleted
  <2>4. CASE Emit(w)
    <3>1. CASE out[w] = <<>>
      BY <2>4, <3>1 DEF Emit
    <3>2. CASE UNCHANGED pc
      BY <2>4, <3>2 DEF Emit
    <3>3. CASE Goto(w, "send")
      BY <1>1, <3>3
    <3> QED BY <2>4, <3>1, <3>2, <3>3 DEF Emit
  <2>5. CASE Send(w)
    BY <1>1, <2>5 DEF Send
  <2> QED BY <2>1, <2>2, <2>3, <2>4, <2>5 DEF WorkerStep
<1>4. \A v \in Workers : pc'[v] \notin Emitting => out'[v] = <<>>
  <2>1. \A v \in Workers : v # w => pc'[v] = pc[v] /\ out'[v] = out[v]
    BY <1>0, WorkerOthers, OthersOut
  <2> QED BY <1>3, <2>1 DEF NothingBehind
<1>5. main' = "health" => ~errs'
  <2>1. main = "health" => closed /\ ~errs
    BY DEF NothingBehind
  <2> QED BY <1>0, <2>1, ClosedIdle, WorkerErrs
<1> QED BY <1>0, <1>4, <1>5 DEF NothingBehind

\* A worker that enqueues has completed its module.
LEMMA WorkerHandledThrough ==
  ASSUME CountInv, HandledThrough, NEW w \in Workers, WorkerStep(w)
  PROVE  HandledThrough'
<1>0. /\ TypeOK /\ pc \in [Workers -> PCs] /\ handled \subseteq handled'
  BY WorkerWrites DEF CountInv, TypeOK
<1>1. ASSUME NEW l, Goto(w, l) PROVE pc'[w] = l
  BY <1>0, <1>1 DEF Goto
<1>2. ASSUME NextModule(w) PROVE pc'[w] = "gate"
  BY <1>1, <1>2 DEF NextModule
<1>6. ASSUME NEW p \in Prios, Take(w, p) PROVE pc'[w] \in {"gate", "store"}
  <2> DEFINE l == IF Head(queue[p]).id THEN "gate" ELSE "store"
  <2>1. Goto(w, l) /\ l \in {"gate", "store"}
    BY <1>6 DEF Take
  <2> HIDE DEF l
  <2> QED BY <1>1, <2>1
<1> DEFINE Emitting == {"complete", "emit", "send"}
<1>3. pc'[w] \in Emitting => <<Modules[mi'[w]], CkKey(item'[w].e)>> \in handled'
  <2>1. CASE HandleOk(w)
    BY <2>1 DEF HandleOk, Current
  <2>2. CASE MarkCompleted(w) \/ Send(w)
    BY <1>0, <2>2 DEF MarkCompleted, Send, HandledThrough, Current
  <2>3. CASE Emit(w)
    BY <1>0, <1>2, <2>3 DEF Emit, HandledThrough, Current
  <2>4. ASSUME NEW p \in Prios, Poll(w, p) PROVE pc'[w] \notin Emitting
    <3>1. AfterPoll[p] \in {"normal", "low", "select"}
      BY DEF AfterPoll, Prios
    <3> QED BY <1>1, <1>6, <2>4, <3>1 DEF Poll
  <2>5. CASE ResumeCheck(w) \/ StoreEvent(w) \/ Gate(w) \/ FinishEvent(w)
    BY <1>1, <2>5 DEF ResumeCheck, StoreEvent, Gate, FinishEvent
  <2>6. CASE CheckpointStatus(w) \/ MarkRunning(w) \/ HandleFail(w)
    BY <1>1, <1>2, <2>6 DEF CheckpointStatus, MarkRunning, HandleFail
  <2>7. CASE Select(w)
    BY <1>1, <1>6, <2>7 DEF Select
  <2> QED BY <2>1, <2>2, <2>3, <2>4, <2>5, <2>6, <2>7 DEF WorkerStep
<1>4. \A v \in Workers : v # w => pc'[v] = pc[v] /\ mi'[v] = mi[v] /\ item'[v] = item[v]
  BY <1>0, WorkerOthers
<1>5. ASSUME NEW v \in Workers, pc'[v] \in Emitting
      PROVE  <<Modules[mi'[v]], CkKey(item'[v].e)>> \in handled'
  <2>1. CASE v = w
    BY <1>3, <1>5, <2>1
  <2>2. CASE v # w
    BY <1>0, <1>4, <1>5, <2>2 DEF HandledThrough, Current
  <2> QED BY <2>1, <2>2
<1> QED BY <1>5 DEF HandledThrough, Current

\* Only Handle, at work on an event, adds to what is owed.
LEMMA WorkerOwes ==
  ASSUME NEW w \in Workers, WorkerStep(w), pc[w] \notin Busy
  PROVE  owed' = owed
<1>1. CASE ResumeCheck(w) \/ (\E p \in Prios : Poll(w, p)) \/ Select(w)
  BY <1>1 DEF ResumeCheck, Poll, Select, history
<1>2. CASE StoreEvent(w) \/ Gate(w) \/ CheckpointStatus(w) \/ MarkRunning(w) \/ HandleOk(w)
           \/ HandleFail(w) \/ MarkCompleted(w) \/ Emit(w) \/ Send(w) \/ FinishEvent(w)
  BY <1>2 DEF StoreEvent, Gate, CheckpointStatus, MarkRunning, HandleOk, HandleFail,
         MarkCompleted, Emit, Send, FinishEvent, Busy
<1> QED BY <1>1, <1>2 DEF WorkerStep

LEMMA NextNothingBehind ==
  ASSUME CountInv, NothingBehind, [Next]_vars
  PROVE  NothingBehind'
<1>1. CASE Start \/ Crash
  BY <1>1 DEF Start, Crash, NewScheduler, NothingBehind
<1>2. CASE SetupFails \/ LoadBacklog \/ LoadNext \/ LoadSend
  <2>1. UNCHANGED <<pc, out>> /\ main' \in {"down", "loading", "loadsend"}
    BY <1>2 DEF SetupFails, LoadBacklog, LoadNext, LoadSend, workers
  <2> QED BY <2>1 DEF NothingBehind
<1>3. CASE SpawnWorkers
  <2>1. \A w \in Workers : pc[w] = "none"
    BY <1>3 DEF SpawnWorkers, CountInv, NoWorkersYet
  <2> QED BY <1>3, <2>1 DEF SpawnWorkers, NothingBehind
<1>4. CASE CloseQueues \/ JoinWorkers \/ FinishScan \/ CheckHealth
  BY <1>4 DEF CloseQueues, JoinWorkers, FinishScan, CheckHealth, NothingBehind, workers
<1>5. CASE Pause \/ Resume \/ Cancel \/ AtRest \/ UNCHANGED vars
  BY <1>5 DEF Pause, Resume, Cancel, AtRest, vars, volatile, workers, NothingBehind
<1>6. ASSUME NEW w \in Workers, WorkerStep(w) PROVE NothingBehind'
  BY <1>6, WorkerNothingBehind
<1> QED BY <1>1, <1>2, <1>3, <1>4, <1>5, <1>6 DEF Next, EngineStep

LEMMA NextHandledThrough ==
  ASSUME CountInv, HandledThrough, [Next]_vars
  PROVE  HandledThrough'
<1>1. ASSUME NEW w \in Workers, WorkerStep(w) PROVE HandledThrough'
  BY <1>1, WorkerHandledThrough
<1>2. CASE \A w \in Workers : ~WorkerStep(w)
  <2>1. /\ UNCHANGED handled
        /\ UNCHANGED <<pc, mi, item>> \/ \A w \in Workers : pc'[w] \in {"none", "resume"}
    BY <1>2, OtherSteps
  <2>2. CASE UNCHANGED <<pc, mi, item>>
    BY <2>1, <2>2 DEF HandledThrough, Current
  <2>3. CASE \A w \in Workers : pc'[w] \in {"none", "resume"}
    BY <2>3 DEF HandledThrough
  <2> QED BY <2>1, <2>2, <2>3
<1> QED BY <1>1, <1>2

\* At the end of an undisturbed run nothing is on its way any more.
LEMMA AllDone ==
  ASSUME CountInv, NothingBehind, Covered, main = "health"
  PROVE  owed \subseteq handled
<1>0. closed /\ backlog = <<>>
  BY DEF NothingBehind
<1>1. \A w \in Workers : pc[w] \notin Busy /\ out[w] = <<>>
  <2>1. \A w \in Workers : pc[w] \notin Busy
    BY <1>0, ClosedIdle
  <2> QED BY <2>1 DEF NothingBehind, Busy
<1>2. Returned = {}
  <2>1. Unloaded = {}
    BY <1>0 DEF Unloaded
  <2>2. \A w \in Workers : Unsent[w] = {}
    BY <1>1 DEF Unsent
  <2> QED BY <2>1, <2>2 DEF Returned
<1>3. Carried = {}
  <2>1. \A p \in Prios : queue[p] = <<>> /\ Len(queue[p]) = 0
    BY <1>0 DEF CountInv, CloseIsQuiet
  <2>2. InChannel = {}
    BY <2>1 DEF InChannel
  <2>3. InLoad = {}
    BY DEF InLoad
  <2>4. \A w \in Workers : Sending[w] = {}
    BY <1>1 DEF Sending, Busy
  <2> QED BY <2>2, <2>3, <2>4 DEF Carried
<1>4. \A w \in Workers : Assigned[w] = {}
  BY <1>1 DEF Assigned
<1> QED BY <1>2, <1>3, <1>4 DEF Covered, Settled

\* Success is reported last, and changes nothing of what is owed.
LEMMA NextFirstRun ==
  ASSUME CountInv, CoverInv, [Next]_vars
  PROVE  FirstRun'
<1>0. FirstRun /\ NothingBehind /\ Covering /\ TypeOK
  BY DEF CoverInv, CountInv
<1>1. CASE Start
  <2>1. main = "down" /\ runs' = runs + 1 /\ runs \in Nat /\ UNCHANGED owed /\ seen' = <<>>
    BY <1>0, <1>1 DEF Start, NewScheduler, history, TypeOK
  <2>2. runs' # 0 /\ (runs' <= 1 => runs = 0)
    BY <2>1
  <2>3. result' # "ok"
    BY <1>1 DEF Start
  <2> QED BY <1>0, <2>1, <2>2, <2>3 DEF FirstRun
<1>2. CASE Crash
  BY <1>0, <1>2 DEF Crash, NewScheduler, history, FirstRun
<1>3. CASE SetupFails \/ LoadNext \/ LoadSend \/ SpawnWorkers \/ CloseQueues \/ JoinWorkers \/ FinishScan
  <2>1. main # "down" /\ main' # "starting" /\ (result' = result \/ result' = "error") /\ UNCHANGED runs
    BY <1>3 DEF SetupFails, LoadNext, LoadSend, SpawnWorkers, CloseQueues, JoinWorkers, FinishScan
  <2> QED BY <1>0, <2>1 DEF FirstRun
<1>4. CASE LoadBacklog
  <2>1. main # "down" /\ main' # "starting" /\ (result' = result \/ result' = "error") /\ UNCHANGED runs
    BY <1>4 DEF LoadBacklog
  <2> QED BY <1>0, <2>1 DEF FirstRun
<1>5. CASE CheckHealth
  <2>1. main = "health" /\ main' = "down" /\ UNCHANGED <<runs, owed, handled, closed>>
    BY <1>5 DEF CheckHealth, history
  <2>2. ASSUME runs <= 1, result' = "ok" PROVE closed /\ owed \subseteq handled
    <3>1. ~cancelled
      BY <1>5, <2>2 DEF CheckHealth, Succeeds
    <3>2. ~errs /\ closed
      BY <1>0, <2>1 DEF NothingBehind
    <3>3. Covered
      BY <1>0, <2>1, <2>2, <3>1, <3>2 DEF Covering, Undisturbed
    <3> QED BY <1>0, <2>1, <3>2, <3>3, AllDone
  <2>3. runs # 0
    BY <1>0, <2>1 DEF FirstRun
  <2> QED BY <2>1, <2>2, <2>3 DEF FirstRun
<1>6. CASE Pause \/ Resume \/ Cancel \/ AtRest \/ UNCHANGED vars
  <2>1. UNCHANGED <<main, seen, closed, pc, result, runs, owed, handled>>
    BY <1>6 DEF Pause, Resume, Cancel, AtRest, vars, volatile, workers, history
  <2> QED BY <1>0, <2>1 DEF FirstRun
<1>7. ASSUME NEW w \in Workers, WorkerStep(w) PROVE FirstRun'
  <2>1. UNCHANGED <<main, closed, runs, result>> /\ pc[w] # "none" /\ handled \subseteq handled'
    BY <1>0, <1>7, WorkerFrame, WorkerErrs, WorkerWrites
  <2>2. runs # 0 /\ main # "starting"
    BY <1>0, <2>1 DEF FirstRun, CountInv, NoWorkersYet
  <2>3. ASSUME runs <= 1, result = "ok" PROVE main = "down" /\ closed /\ owed' \subseteq handled'
    <3>1. closed /\ main = "down" /\ owed \subseteq handled
      BY <1>0, <2>3 DEF FirstRun
    <3>2. pc[w] \notin Busy
      BY <3>1, ClosedIdle
    <3>3. owed' = owed
      BY <1>7, <3>2, WorkerOwes
    <3> QED BY <2>1, <3>1, <3>3
  <2> QED BY <2>1, <2>2, <2>3 DEF FirstRun
<1> QED BY <1>1, <1>2, <1>3, <1>4, <1>5, <1>6, <1>7 DEF Next, EngineStep

\* While nothing has failed, no step forgets an event.
LEMMA NextCovering ==
  ASSUME "status" \notin Faults, CountInv, TypeOK', CheckpointInv, CoverInv, [Next]_vars
  PROVE  Covering'
<1> SUFFICES ASSUME Undisturbed' PROVE Covered'
  BY DEF Covering
<1>0. FirstRun /\ NothingBehind /\ HandledThrough /\ Covering /\ TypeOK
  BY DEF CoverInv, CountInv
<1>u. /\ main' \in {"loading", "loadsend", "waiting", "joining", "finishing", "health"}
      /\ runs' <= 1 /\ ~errs' /\ ~cancelled'
  BY DEF Undisturbed
<1>1. CASE Start \/ Crash \/ SetupFails \/ CheckHealth
  <2>1. main' \in {"starting", "down"}
    BY <1>1 DEF Start, Crash, SetupFails, CheckHealth
  <2> QED BY <1>u, <2>1
<1>2. CASE LoadBacklog
  <2>1. main' = "loading" /\ main = "starting" /\ UNCHANGED runs
    BY <1>2, <1>u DEF LoadBacklog
  <2>2. owed = {} /\ seen = <<>>
    BY <1>0, <1>u, <2>1 DEF FirstRun
  <2> QED BY <1>2, <2>1, <2>2, LoadBacklogCovered
<1>3. CASE LoadNext
  <2>1. Undisturbed
    BY <1>3, <1>u DEF LoadNext, Undisturbed
  <2> QED BY <1>0, <1>3, <2>1, LoadNextCovered DEF Covering
<1>4. CASE LoadSend
  <2>1. Undisturbed
    BY <1>4, <1>u DEF LoadSend, Undisturbed
  <2> QED BY <1>0, <1>4, <2>1, LoadSendCovered DEF Covering
<1>5. CASE SpawnWorkers
  <2>1. Undisturbed
    BY <1>5, <1>u DEF SpawnWorkers, Undisturbed
  <2>2. UNCHANGED <<queue, seen, out, backlog, owed, handled, item, mi>> /\ main # "loadsend" /\ main' # "loadsend"
    BY <1>5 DEF SpawnWorkers, history
  <2>3. \A w \in Workers : pc[w] = "none" /\ pc'[w] = "resume"
    BY <1>5 DEF SpawnWorkers, CountInv, NoWorkersYet
  <2>4. \A w \in Workers : pc[w] \notin Busy /\ pc'[w] \notin Busy
    BY <2>3 DEF Busy
  <2>5. Covered
    BY <1>0, <2>1 DEF Covering
  <2> QED BY <1>0, <2>2, <2>4, <2>5, QuietCovered
<1>6. CASE CloseQueues \/ JoinWorkers \/ FinishScan
  <2>1. UNCHANGED <<queue, seen, out, backlog, owed, handled, item, mi, pc, errs, cancelled, runs>>
    BY <1>6 DEF CloseQueues, JoinWorkers, FinishScan, workers, history
  <2>2. main \in {"waiting", "joining", "finishing"} /\ main' # "loadsend"
    BY <1>6 DEF CloseQueues, JoinWorkers, FinishScan
  <2>3. Covered
    BY <1>0, <1>u, <2>1, <2>2 DEF Covering, Undisturbed
  <2> QED BY <1>0, <2>1, <2>2, <2>3, QuietCovered
<1>7. CASE Pause \/ Resume \/ AtRest \/ UNCHANGED vars
  <2>1. UNCHANGED <<queue, seen, out, backlog, owed, handled, item, mi, pc, errs, cancelled, runs, main>>
    BY <1>7 DEF Pause, Resume, AtRest, vars, volatile, workers, history
  <2>3. Covered
    BY <1>0, <1>u, <2>1 DEF Covering, Undisturbed
  <2> QED BY <1>0, <2>1, <2>3, QuietCovered
<1>8. CASE Cancel
  BY <1>8, <1>u DEF Cancel
<1>9. ASSUME NEW w \in Workers, WorkerStep(w) PROVE Covered'
  <2>1. UNCHANGED <<main, cancelled, runs>> /\ ~errs
    BY <1>0, <1>9, <1>u, WorkerFrame, WorkerErrs
  <2>2. Covered
    BY <1>0, <1>u, <2>1 DEF Covering, Undisturbed
  <2> QED BY <1>0, <1>9, <1>u, <2>1, <2>2, WorkerKeepsCovered
<1> QED BY <1>1, <1>2, <1>3, <1>4, <1>5, <1>6, <1>7, <1>8, <1>9 DEF Next, EngineStep

LEMMA InitCoverInv == Init => CoverInv
<1> SUFFICES ASSUME Init PROVE CoverInv
  OBVIOUS
<1>1. /\ main = "down" /\ owed = {} /\ seen = <<>> /\ runs = 0 /\ result = "none"
      /\ \A w \in Workers : pc[w] = "none" /\ out[w] = <<>>
  BY DEF Init
<1>2. Covering /\ NothingBehind
  BY <1>1 DEF Covering, Undisturbed, NothingBehind
<1>3. HandledThrough /\ FirstRun
  BY <1>1 DEF HandledThrough, FirstRun
<1> QED BY <1>2, <1>3 DEF CoverInv

\* In a run none of whose status lookups fails, CoverInv holds throughout.
LEMMA CoverInvariant ==
  ASSUME "status" \notin Faults
  PROVE  Spec => []CoverInv
<1>1. Init => CoverInv
  BY InitCoverInv
<1>2. CountInv /\ CountInv' /\ CheckpointInv /\ CoverInv /\ [Next]_vars => CoverInv'
  <2> SUFFICES ASSUME CountInv, CountInv', CheckpointInv, CoverInv, [Next]_vars PROVE CoverInv'
    OBVIOUS
  <2>1. TypeOK' /\ NothingBehind /\ HandledThrough
    BY DEF CountInv, CoverInv
  <2>2. NothingBehind' /\ HandledThrough' /\ FirstRun' /\ Covering'
    BY <2>1, NextNothingBehind, NextHandledThrough, NextFirstRun, NextCovering
  <2> QED BY <2>2 DEF CoverInv
<1>3. Spec => []CheckpointInv
  BY CheckpointInvariant
<1> QED BY <1>1, <1>2, <1>3, CountInvariant, PTL DEF Spec

-----------------------------------------------------------------------------
(* Engine.Run implements ScanWork.                                         *)

\* What a worker's step does to the tables: it takes or sends an event, stores
\* the one it holds, or has a module's events before it.
LEMMA WorkerTables ==
  ASSUME TypeOK, NEW w \in Workers, WorkerStep(w)
  PROVE  /\ owed \subseteq owed'
         /\ UNCHANGED out \/ HandleOk(w) \/ (out[w] # <<>> /\ out' = [out EXCEPT ![w] = Tail(out[w])])
                          \/ (pc[w] = "send" /\ out' = [out EXCEPT ![w] = Tail(out[w])])
         /\ pc[w] # "exit"
<1>1. CASE ResumeCheck(w) \/ (\E p \in Prios : Poll(w, p)) \/ Select(w)
  BY <1>1 DEF ResumeCheck, Poll, Select, history, Prios
<1>2. CASE StoreEvent(w) \/ Gate(w) \/ CheckpointStatus(w) \/ MarkRunning(w) \/ HandleFail(w)
           \/ MarkCompleted(w) \/ FinishEvent(w)
  BY <1>2 DEF StoreEvent, Gate, CheckpointStatus, MarkRunning, HandleFail, MarkCompleted, FinishEvent, history
<1>3. CASE HandleOk(w)
  BY <1>3 DEF HandleOk
<1>4. CASE Emit(w)
  BY <1>4 DEF Emit, history
<1>5. CASE Send(w)
  BY <1>5 DEF Send, history
<1> QED BY <1>1, <1>2, <1>3, <1>4, <1>5 DEF WorkerStep

\* Where the event of a busy worker, and the module it is at, come from.
LEMMA WorkerHolds ==
  ASSUME TypeOK, NEW w \in Workers, WorkerStep(w), pc'[w] \in Busy
  PROVE  \/ \E p \in Prios : Take(w, p)
         \/ /\ pc[w] \in Busy /\ item'[w].e = item[w].e
            /\ mi'[w] = mi[w] \/ \E i, j : NextSubscriber(item[w].e, i, j) /\ mi'[w] = j
<1>0. pc \in [Workers -> PCs] /\ item \in [Workers -> Item] /\ mi \in [Workers -> 1..(Len(Modules) + 1)]
  BY DEF TypeOK
<1>1. ASSUME NextModule(w) PROVE \E i, j : NextSubscriber(item[w].e, i, j) /\ mi'[w] = j
  BY <1>0, <1>1 DEF NextModule
<1>2. ASSUME NEW l, Goto(w, l) PROVE pc'[w] = l
  BY <1>0, <1>2 DEF Goto
<1>3. CASE ResumeCheck(w)
  BY <1>2, <1>3 DEF ResumeCheck, Busy
<1>4. CASE (\E p \in Prios : Poll(w, p)) \/ Select(w)
  <2>1. ASSUME NEW p \in Prios, Goto(w, AfterPoll[p]) PROVE FALSE
    <3>1. pc'[w] = AfterPoll[p]
      BY <1>2, <2>1
    <3> QED BY <3>1 DEF AfterPoll, Prios, Busy
  <2>2. ~Goto(w, "exit")
    BY <1>2 DEF Busy
  <2> QED BY <1>4, <2>1, <2>2 DEF Poll, Select
<1>5. CASE StoreEvent(w)
  <2>1. pc[w] = "store" /\ UNCHANGED mi /\ (UNCHANGED item \/ item' = [item EXCEPT ![w] = [@ EXCEPT !.id = TRUE]])
    BY <1>5 DEF StoreEvent
  <2>2. item'[w].e = item[w].e
    BY <1>0, <2>1 DEF Item
  <2> QED BY <2>1, <2>2 DEF Busy
<1>6. CASE Gate(w) \/ FinishEvent(w) \/ MarkCompleted(w) \/ HandleOk(w) \/ Send(w)
  BY <1>6 DEF Gate, FinishEvent, MarkCompleted, HandleOk, Send, Busy
<1>7. CASE CheckpointStatus(w) \/ MarkRunning(w) \/ HandleFail(w) \/ Emit(w)
  <2>1. pc[w] \in Busy /\ UNCHANGED item
    BY <1>7 DEF CheckpointStatus, MarkRunning, HandleFail, Emit, Busy
  <2>2. UNCHANGED mi \/ NextModule(w)
    BY <1>7 DEF CheckpointStatus, MarkRunning, HandleFail, Emit
  <2> QED BY <1>1, <2>1, <2>2
<1> QED BY <1>3, <1>4, <1>5, <1>6, <1>7 DEF WorkerStep

\* What a module is handed and returns.
LEMMA HandledStep ==
  ASSUME CountInv, NEW w \in Workers, pc[w] = "handle"
  PROVE  /\ Current(w) \in ModuleSet /\ item[w].e \in Events
         /\ Emits[Current(w)][item[w].e] \in Seq(Events)
<1>1. Current(w) \in ModuleSet
  BY AtKey DEF InModule
<1>2. item[w] \in Item
  BY DEF CountInv, TypeOK
<1>3. item[w].e \in Events
  BY <1>2 DEF Item
<1>4. Emits[Current(w)] \in [Events -> Seq(Events)]
  BY <1>1, EventsAssumption
<1> QED BY <1>1, <1>3, <1>4

\* A worker's step keeps every event called for.
LEMMA WorkerWorkInv ==
  ASSUME CountInv, WorkInv, NEW w \in Workers, WorkerStep(w)
  PROVE  WorkInv'
<1>0. /\ TypeOK /\ LogCalled /\ BacklogCalled /\ QueueCalled /\ HeldCalled /\ OutCalled /\ AtSubscriber /\ Resting
      /\ SendPending
  BY DEF CountInv, WorkInv
<1>1. /\ owed \subseteq owed' /\ pc[w] # "exit"
      /\ UNCHANGED out \/ HandleOk(w) \/ (out[w] # <<>> /\ out' = [out EXCEPT ![w] = Tail(out[w])])
  BY <1>0, WorkerTables DEF SendPending
<1>2. ASSUME NEW e, Owes(e) \subseteq owed PROVE Owes(e) \subseteq owed'
  BY <1>1, <1>2
<1>3. UNCHANGED <<main, backlog, closed>> /\ pc[w] # "none" /\ UNCHANGED result
  BY <1>0, WorkerFrame, WorkerErrs
<1>4. /\ UNCHANGED queue \/ (\E p \in Prios : Take(w, p)) \/ Sends(w)
      /\ UNCHANGED eventLog \/ (pc[w] = "store" /\ eventLog' = Append(eventLog, item[w].e))
  BY <1>0, WorkerMoves DEF Passes, Receives, Stores, Accepts, Sends
<1>5. BacklogCalled'
  BY <1>0, <1>2, <1>3 DEF BacklogCalled, Called
<1>6. LogCalled'
  <2>1. CASE UNCHANGED eventLog
    BY <1>0, <1>2, <2>1 DEF LogCalled, Called
  <2>2. CASE pc[w] = "store" /\ eventLog' = Append(eventLog, item[w].e)
    <3>0. eventLog \in Seq(Events) /\ item[w] \in Item
      BY <1>0 DEF TypeOK
    <3>1. PICK x \in Events : x = item[w].e
      BY <3>0 DEF Item
    <3>2. Owes(x) \subseteq owed
      BY <1>0, <2>2, <3>1 DEF HeldCalled, Busy, Called
    <3>3. PICK t : t = Append(eventLog, x)
      OBVIOUS
    <3>4. \A i \in 1..Len(t) : t[i] = x \/ (i \in 1..Len(eventLog) /\ t[i] = eventLog[i])
      BY <3>0, <3>3, AppendAt
    <3>5. eventLog' = t
      BY <2>2, <3>1, <3>3
    <3> QED BY <1>0, <1>2, <3>2, <3>4, <3>5 DEF LogCalled, Called
  <2> QED BY <1>4, <2>1, <2>2
<1>7. QueueCalled'
  <2>1. CASE UNCHANGED queue
    BY <1>0, <1>2, <2>1 DEF QueueCalled, Called
  <2>2. ASSUME NEW p \in Prios, Take(w, p) PROVE QueueCalled'
    <3>1. \A r \in Prios : \A i \in 1..Len(queue'[r]) :
             \E j \in 1..Len(queue[r]) : /\ queue'[r][i] = queue[r][j]
                                        /\ j = IF r = p THEN i + 1 ELSE i
      BY <1>0, <2>2, QueueTake
    <3>2. \A r \in Prios : \A i \in 1..Len(queue'[r]) : \E j \in 1..Len(queue[r]) : queue'[r][i] = queue[r][j]
      BY <3>1
    <3>3. ASSUME NEW r \in Prios, NEW i \in 1..Len(queue'[r]) PROVE Owes(queue'[r][i].e) \subseteq owed'
      <4>1. PICK j \in 1..Len(queue[r]) : queue'[r][i] = queue[r][j]
        BY <3>2, <3>3
      <4>2. Owes(queue[r][j].e) \subseteq owed
        BY <1>0, <4>1 DEF QueueCalled, Called
      <4> QED BY <1>2, <4>1, <4>2
    <3> QED BY <3>3 DEF QueueCalled, Called
  <2>3. CASE Sends(w)
    <3>0. pc[w] = "send" /\ out[w] # <<>> /\ out[w] \in Seq(Events)
      BY <1>0, <2>3 DEF Sends, SendPending, TypeOK
    <3>1. Head(out[w]) = out[w][1] /\ 1 \in 1..Len(out[w]) /\ Head(out[w]) \in Events
      BY <3>0, TailAt
    <3>2. Owes(Head(out[w])) \subseteq owed
      BY <1>0, <3>1 DEF OutCalled, Called
    <3> DEFINE it == [e |-> Head(out[w]), id |-> FALSE]
    <3>3. it \in Item /\ it.e = Head(out[w])
      BY <3>1 DEF Item
    <3>4. PICK p \in Prios : queue' = [queue EXCEPT ![p] = Append(queue[p], it)]
      BY <2>3 DEF Sends
    <3> HIDE DEF it
    <3>5. \A r \in Prios : \A i \in 1..Len(queue'[r]) :
             (i \in 1..Len(queue[r]) /\ queue'[r][i] = queue[r][i]) \/ queue'[r][i] = it
      BY <1>0, <3>3, <3>4, QueueSend
    <3> QED BY <1>0, <1>2, <3>2, <3>3, <3>5 DEF QueueCalled, Called
  <2> QED BY <1>4, <2>1, <2>2, <2>3
<1>8. ASSUME NEW v \in Workers, v # w
      PROVE  /\ pc'[v] = pc[v] /\ mi'[v] = mi[v] /\ item'[v] = item[v] /\ out'[v] = out[v]
  BY <1>0, <1>8, WorkerOthers, OthersOut
<1>9. ASSUME NEW p \in Prios, Take(w, p)
      PROVE  /\ Owes(item'[w].e) \subseteq owed
             /\ \E j : NextSubscriber(item'[w].e, 1, j) /\ mi'[w] = j
  <2>1. item \in [Workers -> Item] /\ mi \in [Workers -> 1..(Len(Modules) + 1)]
    BY <1>0 DEF TypeOK
  <2>2. item'[w] = Head(queue[p]) /\ \E j : NextSubscriber(Head(queue[p]).e, 1, j) /\ mi'[w] = j
    BY <1>9, <2>1 DEF Take
  <2>3. Head(queue[p]) = queue[p][1] /\ 1 \in 1..Len(queue[p])
    BY <1>0, <1>9, QueueTake
  <2> QED BY <1>0, <2>2, <2>3 DEF QueueCalled, Called
<1>10. HeldCalled'
  <2>1. ASSUME pc'[w] \in Busy PROVE Owes(item'[w].e) \subseteq owed
    BY <1>0, <1>9, <2>1, WorkerHolds DEF HeldCalled, Called
  <2> QED BY <1>0, <1>2, <1>8, <2>1 DEF HeldCalled, Called
<1>11. AtSubscriber'
  <2>1. ASSUME NEW i, NEW j, NEW e, NextSubscriber(e, i, j), j <= Len(Modules) PROVE subscribes(Modules[j], e)
    BY <2>1 DEF NextSubscriber
  <2>2. ASSUME pc'[w] \in Busy, mi'[w] <= Len(Modules) PROVE subscribes(Modules[mi'[w]], item'[w].e)
    <3>1. CASE \E p \in Prios : Take(w, p)
      BY <1>9, <2>1, <2>2, <3>1
    <3>2. CASE pc[w] \in Busy /\ item'[w].e = item[w].e /\ mi'[w] = mi[w]
      BY <1>0, <2>2, <3>2 DEF AtSubscriber, AtModule, Current
    <3>3. CASE item'[w].e = item[w].e /\ \E i, j : NextSubscriber(item[w].e, i, j) /\ mi'[w] = j
      BY <2>1, <2>2, <3>3
    <3> QED BY <1>0, <2>2, <3>1, <3>2, <3>3, WorkerHolds
  <2>3. ASSUME NEW v \in Workers, v # w, pc'[v] \in Busy, mi'[v] <= Len(Modules)
        PROVE  subscribes(Modules[mi'[v]], item'[v].e)
    <3>1. pc[v] \in Busy /\ mi[v] <= Len(Modules) /\ mi'[v] = mi[v] /\ item'[v] = item[v]
      BY <1>8, <2>3
    <3>2. subscribes(Modules[mi[v]], item[v].e)
      BY <1>0, <3>1 DEF AtSubscriber, AtModule, Current
    <3> QED BY <3>1, <3>2
  <2> QED BY <2>2, <2>3 DEF AtSubscriber, AtModule, Current
<1>12. OutCalled'
  <2>0. out[w] \in Seq(Events) /\ out \in [Workers -> Seq(Events)]
    BY <1>0 DEF TypeOK
  <2>1. ASSUME NEW i \in 1..Len(out'[w]) PROVE Owes(out'[w][i]) \subseteq owed'
    <3>1. CASE UNCHANGED out
      BY <1>0, <1>2, <2>1, <3>1 DEF OutCalled, Called
    <3>2. CASE out[w] # <<>> /\ out' = [out EXCEPT ![w] = Tail(out[w])]
      <4>1. out'[w] = Tail(out[w])
        BY <2>0, <3>2
      <4>2. PICK t : t = Tail(out[w])
        OBVIOUS
      <4>3. \A k \in 1..Len(t) : k + 1 \in 1..Len(out[w]) /\ t[k] = out[w][k + 1]
        BY <2>0, <3>2, <4>2, TailAt
      <4>4. i + 1 \in 1..Len(out[w]) /\ out'[w][i] = out[w][i + 1]
        BY <2>1, <4>1, <4>2, <4>3
      <4> QED BY <1>0, <1>2, <4>4 DEF OutCalled, Called
    <3>3. CASE HandleOk(w)
      <4> DEFINE next == Emits[Current(w)][item[w].e]
      <4>1. out'[w] = next /\ owed' = owed \cup UNION {Owes(e) : e \in Range(next)}
        BY <2>0, <3>3 DEF HandleOk
      <4>2. next \in Seq(Events)
        BY <3>3, HandledStep DEF HandleOk
      <4> HIDE DEF next
      <4>3. next[i] \in Range(next)
        BY <2>1, <4>1, <4>2, RangeOf
      <4> QED BY <4>1, <4>3
    <3> QED BY <1>1, <3>1, <3>2, <3>3
  <2>2. ASSUME NEW v \in Workers, v # w, NEW i \in 1..Len(out'[v]) PROVE Owes(out'[v][i]) \subseteq owed'
    BY <1>0, <1>2, <1>8, <2>2 DEF OutCalled, Called
  <2> QED BY <2>1, <2>2 DEF OutCalled, Called
<1>13. Resting'
  <2>1. main \in {"waiting", "joining"}
    BY <1>0, <1>1, <1>3 DEF Resting
  <2> QED BY <1>0, <1>3, <2>1 DEF Resting
<1> QED BY <1>5, <1>6, <1>7, <1>10, <1>11, <1>12, <1>13 DEF WorkInv

\* What is loaded again was called for when it was stored, or is a target.
LEMMA LoadBacklogCalled ==
  ASSUME TypeOK, LogCalled, LoadBacklog, main' = "loading"
  PROVE  BacklogCalled'
<1>0. /\ backlog' = StoredEvents \o TargetEvents
      /\ owed' = owed \cup UNION {Owes(e) : e \in Range(Targets)}
  BY DEF LoadBacklog, InitialBacklog
<1>1. eventLog \in Seq(Events) /\ Targets \in Seq(Events)
  BY EventsAssumption DEF TypeOK
<1>2. /\ StoredEvents \in Seq(Item) /\ Len(StoredEvents) = Len(eventLog)
      /\ \A i \in 1..Len(eventLog) : Owes(StoredEvents[i].e) = Owes(eventLog[i])
  BY StoredRead, ReloadSame
<1>3. /\ TargetEvents \in Seq(Item) /\ Len(TargetEvents) = Len(Targets)
      /\ \A i \in 1..Len(Targets) : TargetEvents[i].e = Targets[i]
  <2>1. \A i \in 1..Len(Targets) : [e |-> Targets[i], id |-> FALSE] \in Item
    BY <1>1, ElementOfSeq DEF Item
  <2>2. Len(Targets) \in Nat
    BY <1>1, LenProperties
  <2>3. TargetEvents \in Seq(Item)
    BY <2>1, <2>2, IsASeq DEF TargetEvents
  <2>4. Len(TargetEvents) = Len(Targets)
    BY <2>2, <2>3 DEF TargetEvents
  <2>5. \A i \in 1..Len(Targets) : TargetEvents[i].e = Targets[i]
    BY DEF TargetEvents
  <2> QED BY <2>3, <2>4, <2>5
<1> DEFINE s == StoredEvents
           t == TargetEvents
<1>4. s \in Seq(Item) /\ t \in Seq(Item) /\ backlog' = s \o t
  BY <1>0, <1>2, <1>3
<1>5. ASSUME NEW i \in 1..Len(s) PROVE Owes(s[i].e) \subseteq owed'
  BY <1>0, <1>2, <1>5 DEF LogCalled, Called
<1>6. ASSUME NEW i \in 1..Len(t) PROVE Owes(t[i].e) \subseteq owed'
  <2>1. i \in 1..Len(Targets) /\ t[i].e = Targets[i]
    BY <1>3, <1>6
  <2>2. Targets[i] \in Range(Targets)
    BY <1>1, <2>1, RangeOf
  <2> QED BY <1>0, <2>1, <2>2
<1> HIDE DEF s, t
<1>7. /\ Len(s) \in Nat /\ Len(t) \in Nat /\ Len(backlog') = Len(s) + Len(t)
      /\ \A i \in 1..(Len(s) + Len(t)) : backlog'[i] = IF i <= Len(s) THEN s[i] ELSE t[i - Len(s)]
  BY <1>4, ConcatProperties, LenProperties
<1>8. ASSUME NEW i \in 1..Len(backlog') PROVE Owes(backlog'[i].e) \subseteq owed'
  <2>1. CASE i <= Len(s)
    <3>1. i \in 1..Len(s) /\ backlog'[i] = s[i]
      BY <1>7, <1>8, <2>1
    <3> QED BY <1>5, <3>1
  <2>2. CASE ~(i <= Len(s))
    <3>1. i - Len(s) \in 1..Len(t) /\ backlog'[i] = t[i - Len(s)]
      BY <1>7, <1>8, <2>2
    <3> QED BY <1>6, <3>1
  <2> QED BY <2>1, <2>2
<1> QED BY <1>8 DEF BacklogCalled, Called

\* The engine takes an event off its backlog.
LEMMA BacklogTailCalled ==
  ASSUME TypeOK, BacklogCalled, backlog # <<>>, backlog' = Tail(backlog), UNCHANGED owed
  PROVE  /\ BacklogCalled' /\ Head(backlog) \in Item /\ Owes(Head(backlog).e) \subseteq owed
<1>0. backlog \in Seq(Item)
  BY DEF TypeOK
<1>1. PICK t : t = Tail(backlog)
  OBVIOUS
<1>2. /\ 1 \in 1..Len(backlog) /\ Head(backlog) = backlog[1] /\ backlog[1] \in Item
      /\ \A i \in 1..Len(t) : i + 1 \in 1..Len(backlog) /\ t[i] = backlog[i + 1]
  BY <1>0, <1>1, TailAt
<1>3. backlog' = t
  BY <1>1
<1>4. \A i \in 1..Len(t) : Owes(t[i].e) \subseteq owed
  BY <1>2 DEF BacklogCalled, Called
<1>5. BacklogCalled'
  BY <1>3, <1>4 DEF BacklogCalled, Called
<1>6. Owes(backlog[1].e) \subseteq owed
  BY <1>2 DEF BacklogCalled, Called
<1> QED BY <1>2, <1>5, <1>6

\* The engine's send puts an event that was called for into a channel.
LEMMA LoadSendCalled ==
  ASSUME TypeOK, SendPending, BacklogCalled, QueueCalled, LoadSend
  PROVE  BacklogCalled' /\ QueueCalled'
<1>0. backlog # <<>> /\ backlog' = Tail(backlog) /\ UNCHANGED owed
  BY DEF LoadSend, SendPending, history
<1>1. BacklogCalled' /\ Head(backlog) \in Item /\ Owes(Head(backlog).e) \subseteq owed
  BY <1>0, BacklogTailCalled
<1>2. PICK it \in Item : it = Head(backlog)
  BY <1>1
<1>3. PICK p \in Prios : queue' = [queue EXCEPT ![p] = Append(queue[p], it)]
  BY <1>2 DEF LoadSend, priorityFor, Prios
<1>4. \A r \in Prios : \A i \in 1..Len(queue'[r]) :
         (i \in 1..Len(queue[r]) /\ queue'[r][i] = queue[r][i]) \/ queue'[r][i] = it
  BY <1>2, <1>3, QueueSend
<1>5. QueueCalled'
  BY <1>0, <1>1, <1>2, <1>4 DEF QueueCalled, Called
<1> QED BY <1>1, <1>5

\* A fresh scheduler holds nothing.
LEMMA NewSchedulerCalled ==
  ASSUME WorkInv, NewScheduler, UNCHANGED <<eventLog, owed>>, main' # "down" => result' = "none"
  PROVE  WorkInv'
<1>1. LogCalled'
  BY DEF WorkInv, LogCalled, Called
<1>2. backlog' = <<>> /\ \A p \in Prios : queue'[p] = <<>>
  BY DEF NewScheduler, EmptyQueue
<1>3. \A w \in Workers : pc'[w] = "none" /\ out'[w] = <<>>
  BY DEF NewScheduler
<1>4. BacklogCalled' /\ QueueCalled' /\ OutCalled'
  BY <1>2, <1>3 DEF BacklogCalled, QueueCalled, OutCalled
<1>5. HeldCalled' /\ AtSubscriber'
  BY <1>3 DEF HeldCalled, AtSubscriber, Busy
<1>6. Resting'
  BY <1>3 DEF Resting
<1> QED BY <1>1, <1>4, <1>5, <1>6 DEF WorkInv

\* No step brings an event in that was not called for.
LEMMA NextWorkInv ==
  ASSUME CountInv, WorkInv, [Next]_vars
  PROVE  WorkInv'
<1>0. /\ TypeOK /\ LogCalled /\ BacklogCalled /\ QueueCalled /\ HeldCalled /\ OutCalled /\ AtSubscriber /\ Resting
      /\ SendPending /\ NoWorkersYet
  BY DEF CountInv, WorkInv
<1>w. ASSUME UNCHANGED <<pc, item, mi, out>>, owed \subseteq owed'
      PROVE  HeldCalled' /\ OutCalled' /\ AtSubscriber'
  BY <1>0, <1>w DEF HeldCalled, OutCalled, AtSubscriber, AtModule, Current, Called
<1>q. ASSUME UNCHANGED <<queue, eventLog>>, owed \subseteq owed' PROVE QueueCalled' /\ LogCalled'
  BY <1>0, <1>q DEF QueueCalled, LogCalled, Called
<1>1. CASE Start \/ Crash
  <2>1. NewScheduler /\ UNCHANGED <<eventLog, owed>> /\ (main' # "down" => result' = "none")
    BY <1>1 DEF Start, Crash, stored, history
  <2> QED BY <2>1, NewSchedulerCalled
<1>2. CASE SetupFails \/ CloseQueues \/ JoinWorkers \/ FinishScan \/ CheckHealth
  <2>1. UNCHANGED <<backlog, queue, eventLog, pc, item, mi, out, owed>>
    BY <1>2 DEF SetupFails, CloseQueues, JoinWorkers, FinishScan, CheckHealth, workers, stored, history
  <2>2. BacklogCalled'
    BY <1>0, <2>1 DEF BacklogCalled, Called
  <2>3. Resting'
    BY <1>0, <1>2, <2>1 DEF Resting, SetupFails, CloseQueues, JoinWorkers, FinishScan, CheckHealth
  <2> QED BY <1>w, <1>q, <2>1, <2>2, <2>3 DEF WorkInv
<1>3. CASE LoadBacklog
  <2>1. UNCHANGED <<queue, eventLog, pc, item, mi, out>> /\ owed \subseteq owed'
    BY <1>3 DEF LoadBacklog, workers, stored
  <2>2. BacklogCalled'
    <3>1. CASE main' = "loading"
      BY <1>0, <1>3, <3>1, LoadBacklogCalled
    <3>2. CASE UNCHANGED <<backlog, owed>>
      BY <1>0, <3>2 DEF BacklogCalled, Called
    <3> QED BY <1>3, <3>1, <3>2 DEF LoadBacklog
  <2>3. Resting'
    BY <1>0, <1>3, <2>1 DEF Resting, LoadBacklog
  <2> QED BY <1>w, <1>q, <2>1, <2>2, <2>3 DEF WorkInv
<1>4. CASE LoadNext
  <2>1. /\ UNCHANGED <<queue, eventLog, pc, item, mi, out, owed, result>> /\ backlog # <<>>
        /\ UNCHANGED backlog \/ backlog' = Tail(backlog)
        /\ main = "loading" /\ main' \in {"loading", "loadsend"}
    BY <1>4 DEF LoadNext, workers, stored, history
  <2>2. BacklogCalled'
    <3>1. CASE UNCHANGED backlog
      BY <1>0, <2>1, <3>1 DEF BacklogCalled, Called
    <3> QED BY <1>0, <2>1, <3>1, BacklogTailCalled
  <2>3. Resting'
    BY <1>0, <2>1 DEF Resting
  <2> QED BY <1>w, <1>q, <2>1, <2>2, <2>3 DEF WorkInv
<1>5. CASE LoadSend
  <2>1. /\ UNCHANGED <<eventLog, pc, item, mi, out, owed, result>>
        /\ main = "loadsend" /\ main' = "loading"
    BY <1>5 DEF LoadSend, workers, stored, history
  <2>2. BacklogCalled' /\ QueueCalled'
    BY <1>0, <1>5, LoadSendCalled
  <2>3. Resting' /\ LogCalled'
    BY <1>0, <2>1 DEF Resting, LogCalled, Called
  <2> QED BY <1>w, <2>1, <2>2, <2>3 DEF WorkInv
<1>6. CASE SpawnWorkers
  <2>1. UNCHANGED <<backlog, queue, eventLog, item, mi, out, owed, result>> /\ main = "loading" /\ main' = "waiting"
    BY <1>6 DEF SpawnWorkers, stored, history
  <2>2. \A w \in Workers : pc'[w] = "resume"
    BY <1>6 DEF SpawnWorkers
  <2>3. BacklogCalled' /\ OutCalled'
    BY <1>0, <2>1 DEF BacklogCalled, OutCalled, Called
  <2>4. HeldCalled' /\ AtSubscriber'
    BY <2>2 DEF HeldCalled, AtSubscriber, Busy
  <2>5. Resting'
    BY <1>0, <2>1 DEF Resting
  <2> QED BY <1>q, <2>1, <2>3, <2>4, <2>5 DEF WorkInv
<1>7. CASE Pause \/ Resume \/ Cancel \/ AtRest \/ UNCHANGED vars
  <2>1. UNCHANGED <<main, backlog, queue, eventLog, pc, item, mi, out, owed, result>>
    BY <1>7 DEF Pause, Resume, Cancel, AtRest, vars, volatile, workers, stored, history
  <2>2. BacklogCalled' /\ Resting'
    BY <1>0, <2>1 DEF BacklogCalled, Resting, Called
  <2> QED BY <1>w, <1>q, <2>1, <2>2 DEF WorkInv
<1>8. ASSUME NEW w \in Workers, WorkerStep(w) PROVE WorkInv'
  BY <1>8, WorkerWorkInv
<1> QED BY <1>1, <1>2, <1>3, <1>4, <1>5, <1>6, <1>7, <1>8 DEF Next, EngineStep

LEMMA InitWorkInv == Init => WorkInv
<1> SUFFICES ASSUME Init PROVE WorkInv
  OBVIOUS
<1>1. /\ main = "down" /\ backlog = <<>> /\ eventLog = <<>>
      /\ \A p \in Prios : queue[p] = <<>>
      /\ \A w \in Workers : pc[w] = "none" /\ out[w] = <<>>
  BY DEF Init, EmptyQueue
<1>2. LogCalled /\ BacklogCalled /\ QueueCalled /\ OutCalled
  BY <1>1 DEF LogCalled, BacklogCalled, QueueCalled, OutCalled
<1>3. HeldCalled /\ AtSubscriber /\ Resting
  BY <1>1 DEF HeldCalled, AtSubscriber, Resting, Busy
<1> QED BY <1>2, <1>3 DEF WorkInv

\* A worker's step does one piece of work that was called for, or none.
LEMMA WorkerDoesWork ==
  ASSUME CountInv, WorkInv, NEW w \in Workers, WorkerStep(w)
  PROVE  [Promise!Next]_Promise!state
<1>0. /\ TypeOK /\ HeldCalled /\ AtSubscriber /\ Resting /\ LoopInside
  BY DEF CountInv, WorkInv
<1>1. CASE HandleOk(w)
  <2>1. PICK m \in ModuleSet, e \in Events : m = Current(w) /\ e = item[w].e
    BY <1>1, HandledStep DEF HandleOk
  <2>2. PICK x : x = UNION {Owes(f) : f \in Range(Emits[m][e])}
    OBVIOUS
  <2>3. PICK k : k = <<m, CkKey(e)>>
    OBVIOUS
  <2>4. /\ owed' = owed \cup x /\ handled' = handled \cup {k} /\ UNCHANGED <<runs, result>>
    BY <1>1, <2>1, <2>2, <2>3 DEF HandleOk
  <2>5. pc[w] = "handle" /\ pc[w] \in Busy /\ pc[w] \in InModule
    BY <1>1 DEF HandleOk, Busy, InModule
  <2>6. subscribes(m, e) /\ Owes(e) \subseteq owed
    BY <1>0, <2>1, <2>5 DEF AtSubscriber, HeldCalled, LoopInside, Called
  <2>7. k \in owed
    BY <2>3, <2>6 DEF Owes, ChainFor
  <2>8. result = "none"
    BY <1>0, <2>5 DEF Resting
  <2>9. PICK step : step = <<k, x>>
    OBVIOUS
  <2>10. step \in EmittedWork
    <3>1. step = <<<<m, CkKey(e)>>, UNION {Owes(f) : f \in Range(Emits[m][e])}>>
      BY <2>2, <2>3, <2>9
    <3> QED BY <3>1, EmittedWorkHas
  <2>11. step[1] = k /\ step[2] = x
    BY <2>9
  <2>12. Promise!Handle(step)
    BY <2>4, <2>7, <2>8, <2>11 DEF Promise!Handle
  <2> QED BY <2>10, <2>12 DEF Promise!Next
<1>2. CASE ~HandleOk(w)
  <2>1. UNCHANGED <<owed, handled>>
    BY <1>2 DEF WorkerStep, ResumeCheck, Poll, Select, StoreEvent, Gate, CheckpointStatus, MarkRunning,
           HandleFail, MarkCompleted, Emit, Send, FinishEvent, history
  <2>2. UNCHANGED <<runs, result>>
    BY WorkerErrs
  <2> QED BY <2>1, <2>2 DEF Promise!state
<1> QED BY <1>1, <1>2

\* Every step of Engine.Run, the operator and the process is one of ScanWork.
LEMMA NextDoesWork ==
  ASSUME CountInv, WorkInv, CoverInv', [Next]_vars
  PROVE  [Promise!Next]_Promise!state
<1>0. Resting /\ FirstRun'
  BY DEF WorkInv, CoverInv
<1>1. CASE Start
  BY <1>1 DEF Start, history, Promise!Next, Promise!Begin
<1>2. CASE LoadBacklog
  <2>0. result = "none" /\ UNCHANGED <<runs, handled>>
    BY <1>0, <1>2 DEF LoadBacklog, Resting
  <2>1. CASE UNCHANGED result
    <3>1. owed' = owed \cup InitialWork
      BY <1>2, <2>0, <2>1 DEF LoadBacklog, InitialWork
    <3> QED BY <2>0, <2>1, <3>1 DEF Promise!Next, Promise!CallTargets
  <2>2. CASE result' = "error" /\ UNCHANGED owed
    BY <2>0, <2>2 DEF Promise!Next, Promise!Report
  <2> QED BY <1>2, <2>1, <2>2 DEF LoadBacklog
<1>3. CASE SetupFails \/ FinishScan \/ CheckHealth
  <2>1. main # "down" /\ UNCHANGED <<runs, owed, handled>> /\ result' \in {result, "ok", "error"}
    BY <1>3 DEF SetupFails, FinishScan, CheckHealth, history
  <2>2. result = "none"
    BY <1>0, <2>1 DEF Resting
  <2>3. CASE result' = result
    BY <2>1, <2>3 DEF Promise!state
  <2>4. CASE result' \in {"ok", "error"}
    <3>1. result' = "ok" /\ runs = 1 => owed \subseteq handled
      BY <1>0, <2>1 DEF FirstRun
    <3>2. PICK v \in {"ok", "error"} : v = result'
      BY <2>4
    <3>3. Promise!Report(v)
      BY <2>1, <2>2, <3>1, <3>2 DEF Promise!Report
    <3> QED BY <3>3 DEF Promise!Next
  <2> QED BY <2>1, <2>3, <2>4
<1>4. CASE \/ LoadNext \/ LoadSend \/ SpawnWorkers \/ CloseQueues \/ JoinWorkers
           \/ Pause \/ Resume \/ Cancel \/ Crash \/ AtRest \/ UNCHANGED vars
  <2>1. UNCHANGED <<runs, owed, handled, result>>
    BY <1>4 DEF LoadNext, LoadSend, SpawnWorkers, CloseQueues, JoinWorkers, Pause, Resume, Cancel, Crash,
           AtRest, vars, history
  <2> QED BY <2>1 DEF Promise!state
<1>5. ASSUME NEW w \in Workers, WorkerStep(w) PROVE [Promise!Next]_Promise!state
  BY <1>5, WorkerDoesWork
<1> QED BY <1>1, <1>2, <1>3, <1>4, <1>5 DEF Next, EngineStep

-----------------------------------------------------------------------------
(* The theorems.                                                           *)

\* Every variable of the engine, the scheduler and the scan state keeps its
\* type, whatever the modules emit, however many workers there are and
\* whatever fails.
THEOREM SchedulerTypeCorrect == Spec => []TypeOK
BY CountInvariant, PTL DEF CountInv

\* Scheduler.wg counts exactly the queued, held and travelling events, on
\* every path of worker, nextEvent and EnqueuePriority, error paths included.
THEOREM WaitGroupTheorem == Spec => []WaitGroupExact
BY CountInvariant, PTL DEF CountInv

\* Scheduler.Run closes its channels only when no worker can still send on
\* them and nothing is left in them.
THEOREM CloseTheorem == Spec => []CloseIsQuiet
BY CountInvariant, PTL DEF CountInv


\* A checkpoint row says "completed" only of a module whose Handle returned
\* on that type and target: the order of Handle and UpsertCheckpoint in
\* worker survives failed writes, cancellation and crashes.
THEOREM CheckpointTheorem == Spec => []CheckpointSound
<1>1. CheckpointInv => CheckpointSound
  BY DEF CheckpointInv
<1> QED BY <1>1, CheckpointInvariant, PTL

\* A run started again under the same scan ID never gives a module an event
\* it had completed when the run began.
THEOREM ResumeTheorem == Spec => []ResumeSkipsDone
<1>1. Init => ResumeInv
  BY DEF Init, ResumeInv, ResumeSkipsDone, DoneStays
<1>2. ResumeInv => ResumeSkipsDone
  BY DEF ResumeInv
<1> QED BY <1>1, <1>2, CountInvariant, NextResumeInv, PTL DEF Spec

\* waitForScanResume before every module bounds what a worker still does
\* after the operator paused the scan.
THEOREM PauseTheorem == Spec => []PauseHolds
<1>1. Init => PauseInv
  BY DEF Init, PauseInv
<1>2. CountInv /\ PauseInv => PauseHolds
  <2> SUFFICES ASSUME PauseInv, NEW w \in Workers, status = "paused"
               PROVE  late[w] <= 1
    BY DEF PauseHolds
  <2>1. late[w] = 0 \/ late[w] = 1
    BY DEF PauseInv
  <2> QED BY <2>1
<1> QED BY <1>1, <1>2, CountInvariant, NextPauseInv, PTL DEF Spec

\* However often a scan is interrupted and started again, an event that reads
\* back as it was written has at most one row, whatever flatten and inflate
\* make of the others, as long as the deduper has room for every event of the
\* scan: eventDeduper (deduper.go) forgets the oldest one beyond its capacity.
THEOREM EventStoredTheorem ==
  ASSUME IsFiniteSet(Events), Cardinality(Events) <= DedupCap
  PROVE  Spec => []FaithfulStoredOnce
<1>1. Init => StoreInv
  BY InitStoreInv
<1>2. CountInv /\ StoreInv /\ [Next]_vars => StoreInv'
  BY NextStoreInv
<1>3. StoreInv => FaithfulStoredOnce
  BY DEF StoreInv
<1> QED BY <1>1, <1>2, <1>3, CountInvariant, PTL DEF Spec

\* Engine.Run returns no error from the first run of a scan only if every
\* module that some event called for has completed on that event's type and
\* target, whatever database call or module failed and whatever was paused:
\* a failure is always reported.  Excluded are a failed status lookup, after
\* which worker gives its event up without an error, and a resumed scan, where
\* an event returned before a crash may be lost (scheduler_crash).
THEOREM CoverTheorem ==
  ASSUME "status" \notin Faults
  PROVE  Spec => [](runs <= 1 => CompletedCovers)
<1>1. CoverInv => (runs <= 1 => CompletedCovers)
  BY DEF CoverInv, FirstRun, CompletedCovers
<1>2. Spec => []CoverInv
  BY CoverInvariant
<1> QED BY <1>1, <1>2, PTL

\* Engine.Run and its workers implement ScanWork, through crashes, restarts,
\* pauses, cancellation and failing calls: a module is handed only events it
\* subscribes to and that a target or an event handled before led to, none
\* once Engine.Run has returned, and a first run that returns no error has
\* handled all of them.  Excluded is a failed status lookup, after which
\* worker gives its event up without an error.
THEOREM ScanWorkTheorem ==
  ASSUME "status" \notin Faults
  PROVE  Spec => ImplementsScanWork
<1>1. Init => Promise!Init
  BY DEF Init, Promise!Init
<1>2. CountInv /\ WorkInv /\ CoverInv' /\ [Next]_vars => [Promise!Next]_Promise!state
  BY NextDoesWork
<1>3. CountInv /\ WorkInv /\ [Next]_vars => WorkInv'
  BY NextWorkInv
<1>4. Spec => []CoverInv
  BY CoverInvariant
<1> QED BY <1>1, <1>2, <1>3, <1>4, InitWorkInv, CountInvariant, PTL DEF Spec, ImplementsScanWork, Promise!Spec

=============================================================================
