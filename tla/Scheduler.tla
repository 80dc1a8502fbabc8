----------------------------- MODULE Scheduler -----------------------------
(***************************************************************************)
(* One scan of enumscan: engine.Engine.Run (internal/engine/engine.go)     *)
(* driving scheduler.Scheduler (internal/scheduler/scheduler.go) with a    *)
(* fixed number of workers, on top of the persisted scan state of          *)
(* internal/store (scan_runs, events, checkpoints, module_runs).           *)
(*                                                                         *)
(* An event is a record [type, target, data].  Modules are subscribed by   *)
(* event type; a module that handles an event may emit further events.     *)
(* Every database call of a worker is a step of its own, because any other *)
(* worker, the operator's pause/resume API, a cancelled context or a       *)
(* process crash can come between two of them.                             *)
(*                                                                         *)
(* Time is abstracted away: rate limiters and timeouts only delay a step   *)
(* (a module timeout is a module failure).                                 *)
(***************************************************************************)
EXTENDS Integers, FiniteSets, Sequences, Functions

CONSTANTS
    Workers,        \* worker goroutines (Scheduler.concurrency of them)
    Events,         \* the events that can exist in this scan
    Targets,        \* cfg.Scan.Targets as "target" events, a sequence
    Modules,        \* registered modules, in registration order
    Subscriptions,  \* Subscriptions[m]: the event types m consumes
    Emits,          \* Emits[m][e]: events m's Handle returns for e
    Reload,         \* Reload[e]: the event that e's stored row reads back as
    QueueCap,       \* capacity of each of the three channels (1024)
    DedupCap,       \* capacity of the exact set of the deduper (100000)
    Faults,         \* fault kinds that may happen, see FaultKinds
    MaxFaults,      \* bound: faults in one behaviour
    MaxPauses,      \* bound: pause requests in one behaviour
    MaxRuns         \* bound: times the scan is started with this scan ID

Prios == {"high", "normal", "low"}

\* "status": GetScanStatus fails; "db": any other scan-state call fails;
\* "module": a Handle returns an error; "cancel": the scan context ends;
\* "crash": the process dies and only the database survives.
FaultKinds == {"status", "db", "module", "cancel", "crash"}

ModuleSet == Range(Modules)

\* The key of a checkpoint row: the event's Data is not part of it.
CkKey(e) == <<e.type, e.target>>

Keys == {CkKey(e) : e \in Events}

ASSUME WorkersAssumption == IsFiniteSet(Workers)
ASSUME BoundsAssumption == /\ QueueCap \in Nat \ {0}
                           /\ DedupCap \in Nat \ {0}
                           /\ MaxFaults \in Nat
                           /\ MaxPauses \in Nat
                           /\ MaxRuns \in Nat
ASSUME FaultsAssumption == Faults \subseteq FaultKinds
ASSUME EventsAssumption == /\ Events # {}
                           /\ Targets \in Seq(Events)
                           /\ Modules \in Seq(ModuleSet)
                           /\ Emits \in [ModuleSet -> [Events -> Seq(Events)]]

\* AddEvent stores flatten(Data), key=value pairs joined by ";", and Events
\* reads it back with inflate: a value that holds a ";" (a banner, a response)
\* comes back cut short.  Type and target have columns of their own.
ASSUME ReloadAssumption == /\ Reload \in [Events -> Events]
                           /\ \A e \in Events : /\ Reload[e].type = e.type
                                                /\ Reload[e].target = e.target

VARIABLES
    main,       \* where Engine.Run is
    backlog,    \* events Engine.Run has still to enqueue before Run
    queue,      \* the three channels
    seen,       \* the deduper's exact set, in insertion order
    wg,         \* the WaitGroup counting accepted, unfinished events
    closed,     \* channels and done have been closed
    errs,       \* the one-slot error channel holds an error
    cancelled,  \* the scan's context has ended
    pc,         \* where each worker is
    item,       \* the event each worker holds
    mi,         \* index, in Modules, of the module it is at
    out,        \* returned events it has still to enqueue
    eventLog,   \* rows of the events table, by id
    ck,         \* rows of the checkpoints table
    failedRun,  \* module_runs holds a failed row for this scan
    status,     \* scan_runs.status
    result,     \* what Engine.Run returned
    faults, pauses, runs,   \* faults, pauses and starts used so far
    owed,       \* history: <<module, key>> that some event called for
    handled,    \* history: <<module, key>> some Handle call completed
    doneBefore, \* history: <<module, key>> completed when this run began
    late        \* history: modules a worker ended since the scan was paused

volatile == <<main, backlog, queue, seen, wg, closed, errs, cancelled>>
workers  == <<pc, item, mi, out>>
stored   == <<eventLog, ck, failedRun, status>>
history  == <<owed, handled, doneBefore, late>>
vars == <<volatile, workers, stored, result, faults, pauses, runs, history>>

-----------------------------------------------------------------------------
(* Definitions shared by the actions.                                      *)

\* An event together with "has a row in the events table" (ID # 0).
Item == [e : Events, id : BOOLEAN]

NoItem == [e |-> CHOOSE e \in Events : TRUE, id |-> FALSE]

priorityFor(e) ==
    IF e.type \in {"target", "host.discovered", "port.open"} THEN "high"
    ELSE IF e.type \in {"http.url", "asset.changed"} THEN "normal"
    ELSE "low"

subscribes(m, e) == e.type \in Subscriptions[m]

\* The modules that consume an event.
ChainFor(e) == {m \in ModuleSet : subscribes(m, e)}

\* The loop without its question whether the module subscribes.
NextSubscriberAny(e, i, j) == j = i

\* The loop over s.modules, from index i on, stops next at index j.
NextSubscriber(e, i, j) ==
    /\ j \in i..(Len(Modules) + 1)
    /\ \A k \in i..(j - 1) : ~subscribes(Modules[k], e)
    /\ j <= Len(Modules) => subscribes(Modules[j], e)

\* eventDeduper.seen on a new key: remember it, evict the oldest.
Remember(s, e) == LET t == Append(s, e)
                  IN  IF Len(t) > DedupCap THEN Tail(t) ELSE t

EmptyQueue == [p \in Prios |-> <<>>]

\* A call that fails: every call does once the context has ended, and any
\* may as long as its kind of fault is allowed and the budget lasts.
Fault(kind) == /\ kind \in Faults
               /\ faults < MaxFaults
               /\ faults' = faults + 1

Fails(kind) == \/ cancelled /\ UNCHANGED faults
               \/ ~cancelled /\ Fault(kind)

Succeeds == /\ ~cancelled
            /\ UNCHANGED faults

\* s.wg.Add(1) and s.wg.Done().
wgAddMissing == UNCHANGED wg
wgAdd        == wg' = wg + 1

wgDoneMissing == UNCHANGED wg
wgDone        == wg' = wg - 1

\* s.wg.Wait() returns.
wgWaitOnQueues == \A p \in Prios : queue[p] = <<>>
wgWait         == wg = 0

\* waitForScanResume returns without error; while it does not, it spins.
waitForScanResumeOnce == Succeeds
waitForScanResume     == Succeeds /\ status # "paused"

\* RecordFailure that forgets the error channel.
RecordFailureUnreported == /\ failedRun' \in {failedRun, TRUE}
                           /\ UNCHANGED errs

\* recordRun(..., "failed", ...) uses the same database and ignores its own
\* failure; the error channel keeps the error regardless.
RecordFailure == /\ failedRun' \in IF cancelled THEN {failedRun}
                                   ELSE IF "db" \in Faults THEN {failedRun, TRUE}
                                   ELSE {TRUE}
                 /\ errs' = TRUE

\* What processing event e calls for.
Owes(e) == {<<m, CkKey(e)>> : m \in ChainFor(e)}

\* A worker counts on the WaitGroup from taking an event to finishing it.
Busy == {"store", "gate", "check", "mark", "handle", "complete", "emit",
         "send"}

PCs == {"none", "resume", "high", "normal", "low", "select", "exit"} \cup Busy

Mains == {"down", "starting", "loading", "loadsend", "waiting", "joining", "finishing",
          "health"}

Goto(w, l) == pc' = [pc EXCEPT ![w] = l]

\* The module a worker is at, until its loop over the modules ends.
Current(w) == Modules[mi[w]]

AtModule(w) == mi[w] <= Len(Modules)

\* "continue" in the loop over the modules.
NextModule(w) ==
    /\ \E j \in 1..(Len(Modules) + 1) :
          /\ NextSubscriber(item[w].e, mi[w] + 1, j)
          /\ mi' = [mi EXCEPT ![w] = j]
    /\ Goto(w, "gate")

\* SetCheckpoint with the status argument of another call.
SetCheckpointDone(w, st) ==
    ck' = [ck EXCEPT ![Current(w)] = [@ EXCEPT ![CkKey(item[w].e)] = "completed"]]

SetCheckpoint(w, st) ==
    ck' = [ck EXCEPT ![Current(w)] = [@ EXCEPT ![CkKey(item[w].e)] = st]]

-----------------------------------------------------------------------------
(* Engine.Run.                                                             *)

Init ==
    /\ main = "down"
    /\ backlog = <<>>
    /\ queue = EmptyQueue
    /\ seen = <<>>
    /\ wg = 0
    /\ closed = FALSE
    /\ errs = FALSE
    /\ cancelled = FALSE
    /\ pc = [w \in Workers |-> "none"]
    /\ item = [w \in Workers |-> NoItem]
    /\ mi = [w \in Workers |-> 1]
    /\ out = [w \in Workers |-> <<>>]
    /\ eventLog = <<>>
    /\ ck = [m \in ModuleSet |-> [k \in Keys |-> "none"]]
    /\ failedRun = FALSE
    /\ status = "none"
    /\ result = "none"
    /\ faults = 0
    /\ pauses = 0
    /\ runs = 0
    /\ owed = {}
    /\ handled = {}
    /\ doneBefore = {}
    /\ late = [w \in Workers |-> 0]

\* A fresh scheduler.New for the next run; nothing volatile survives.
NewScheduler ==
    /\ backlog' = <<>>
    /\ queue' = EmptyQueue
    /\ seen' = <<>>
    /\ wg' = 0
    /\ closed' = FALSE
    /\ errs' = FALSE
    /\ cancelled' = FALSE
    /\ pc' = [w \in Workers |-> "none"]
    /\ item' = [w \in Workers |-> NoItem]
    /\ mi' = [w \in Workers |-> 1]
    /\ out' = [w \in Workers |-> <<>>]

\* StartScan: first start and resume of an earlier run are the same call, each
\* under a context of its own.
Start ==
    /\ main = "down"
    /\ runs < MaxRuns
    /\ runs' = runs + 1
    /\ NewScheduler
    /\ \/ /\ UNCHANGED faults
          /\ status' = "running"
          /\ result' = "none"
          /\ main' = "starting"
       \/ /\ Fault("db")
          /\ result' = "error"
          /\ UNCHANGED <<main, status>>
    /\ UNCHANGED <<eventLog, ck, failedRun, pauses, history>>

\* A set-up step after StartScan fails (the audit record of authorised active
\* testing, or the list of raw techniques): FinishScan "failed", whose own
\* failure is ignored.
SetupFails ==
    /\ main = "starting"
    /\ Fails("db")
    /\ status' \in IF cancelled THEN {status} ELSE {status, "failed"}
    /\ main' = "down"
    /\ result' = "error"
    /\ UNCHANGED <<backlog, queue, seen, wg, closed, errs, cancelled, workers,
                   eventLog, ck, failedRun, pauses, runs, history>>

StoredEvents == [i \in 1..Len(eventLog) |-> [e |-> Reload[eventLog[i]], id |-> TRUE]]
TargetEvents == [i \in 1..Len(Targets) |-> [e |-> Targets[i], id |-> FALSE]]

\* What is enqueued before Run: stored events first, then the targets.
InitialBacklogSwapped == TargetEvents \o StoredEvents
InitialBacklog        == StoredEvents \o TargetEvents

\* db.Events.
LoadBacklog ==
    /\ main = "starting"
    /\ \/ /\ Succeeds
          /\ backlog' = InitialBacklog
          /\ main' = "loading"
          /\ owed' = owed \cup UNION {Owes(e) : e \in Range(Targets)}
          /\ doneBefore' = {mk \in ModuleSet \X Keys : ck[mk[1]][mk[2]] = "completed"}
          /\ UNCHANGED result
       \/ /\ Fails("db")
          /\ main' = "down"
          /\ result' = "error"
          /\ UNCHANGED <<backlog, owed, doneBefore>>
    /\ UNCHANGED <<queue, seen, wg, closed, errs, cancelled, workers, stored,
                   pauses, runs, handled, late>>

\* queue.Enqueue(event), up to the send: a duplicate is dropped here.
LoadNext ==
    /\ main = "loading"
    /\ backlog # <<>>
    /\ LET e == Head(backlog).e IN
       \/ /\ e \in Range(seen)
          /\ backlog' = Tail(backlog)
          /\ UNCHANGED <<seen, wg, main>>
       \/ /\ e \notin Range(seen)
          /\ seen' = Remember(seen, e)
          /\ wgAdd
          /\ main' = "loadsend"
          /\ UNCHANGED backlog
    /\ UNCHANGED <<queue, closed, errs, cancelled, workers, stored, result,
                   faults, pauses, runs, history>>

\* The blocking send of EnqueuePriority; no worker exists yet to receive.
LoadSend ==
    /\ main = "loadsend"
    /\ LET p == priorityFor(Head(backlog).e) IN
       /\ Len(queue[p]) < QueueCap
       /\ queue' = [queue EXCEPT ![p] = Append(@, Head(backlog))]
    /\ backlog' = Tail(backlog)
    /\ main' = "loading"
    /\ UNCHANGED <<seen, wg, closed, errs, cancelled, workers, stored, result,
                   faults, pauses, runs, history>>

\* Scheduler.Run spawns the workers.
SpawnWorkers ==
    /\ main = "loading"
    /\ backlog = <<>>
    /\ main' = "waiting"
    /\ pc' = [w \in Workers |-> "resume"]
    /\ UNCHANGED <<backlog, queue, seen, wg, closed, errs, cancelled, item, mi,
                   out, stored, result, faults, pauses, runs, history>>

\* wg.Wait returns: close the channels and done.
CloseQueues ==
    /\ main = "waiting"
    /\ wgWait
    /\ closed' = TRUE
    /\ main' = "joining"
    /\ UNCHANGED <<backlog, queue, seen, wg, errs, cancelled, workers, stored,
                   result, faults, pauses, runs, history>>

\* workers.Wait returns.
JoinWorkers ==
    /\ main = "joining"
    /\ \A w \in Workers : pc[w] = "exit"
    /\ main' = "finishing"
    /\ UNCHANGED <<backlog, queue, seen, wg, closed, errs, cancelled, workers,
                   stored, result, faults, pauses, runs, history>>

\* FinishScan after Run: "failed" if an error was reported (its own failure
\* ignored), else "completed".
FinishScan ==
    /\ main = "finishing"
    /\ \/ /\ errs
          /\ \/ Succeeds /\ status' = "failed"
             \/ Fails("db") /\ UNCHANGED status
          /\ main' = "down"
          /\ result' = "error"
       \/ /\ ~errs
          /\ Succeeds
          /\ status' = "completed"
          /\ main' = "health"
          /\ UNCHANGED result
       \/ /\ ~errs
          /\ Fails("db")
          /\ main' = "down"
          /\ result' = "error"
          /\ UNCHANGED status
    /\ UNCHANGED <<backlog, queue, seen, wg, closed, errs, cancelled, workers,
                   eventLog, ck, failedRun, pauses, runs, history>>

\* ScanHealth: status "completed" as read now, and no failed module run ever
\* recorded under this scan ID.
Healthy == status = "completed" /\ ~failedRun

\* The check after FinishScan; an unhealthy scan is FinishScan "failed", whose
\* own failure is ignored.
CheckHealth ==
    /\ main = "health"
    /\ main' = "down"
    /\ \/ /\ Succeeds
          /\ Healthy
          /\ result' = "ok"
          /\ UNCHANGED status
       \/ /\ Succeeds
          /\ ~Healthy
          /\ status' \in IF Faults \cap {"db", "cancel"} = {} THEN {"failed"}
                                                           ELSE {status, "failed"}
          /\ result' = "error"
       \/ /\ Fails("db")
          /\ result' = "error"
          /\ UNCHANGED status
    /\ UNCHANGED <<backlog, queue, seen, wg, closed, errs, cancelled, workers,
                   eventLog, ck, failedRun, pauses, runs, history>>

-----------------------------------------------------------------------------
(* Scheduler.worker.                                                       *)

\* waitForScanResume before the next event: spins while paused; an error
\* ends the worker, which holds no event here.
ResumeCheck(w) ==
    /\ pc[w] = "resume"
    /\ \/ waitForScanResume /\ Goto(w, "high")
       \/ Fails("status") /\ Goto(w, "exit")
    /\ UNCHANGED <<volatile, item, mi, out, stored, result, pauses, runs,
                   history>>

\* A receive from channel p.
Take(w, p) ==
    /\ queue[p] # <<>>
    /\ queue' = [queue EXCEPT ![p] = Tail(@)]
    /\ item' = [item EXCEPT ![w] = Head(queue[p])]
    /\ \E j \in 1..(Len(Modules) + 1) :
          /\ NextSubscriber(Head(queue[p]).e, 1, j)
          /\ mi' = [mi EXCEPT ![w] = j]
    /\ Goto(w, IF Head(queue[p]).id THEN "gate" ELSE "store")

AfterPoll == [high |-> "normal", normal |-> "low", low |-> "select"]

\* nextEvent, first half: try high, then normal, then low, without blocking.
Poll(w, p) ==
    /\ pc[w] = p
    /\ \/ /\ p = "high" /\ closed
          /\ Goto(w, "exit")
          /\ UNCHANGED <<queue, item, mi>>
       \/ /\ ~(p = "high" /\ closed)
          /\ Take(w, p)
       \/ /\ ~(p = "high" /\ closed)
          /\ queue[p] = <<>>
          /\ Goto(w, AfterPoll[p])
          /\ UNCHANGED <<queue, item, mi>>
    /\ UNCHANGED <<main, backlog, seen, wg, closed, errs, cancelled, out,
                   stored, result, faults, pauses, runs, history>>

\* nextEvent, second half: block on all three channels and done.
Select(w) ==
    /\ pc[w] = "select"
    /\ \/ \E p \in Prios : Take(w, p)
       \/ /\ closed
          /\ Goto(w, "exit")
          /\ UNCHANGED <<queue, item, mi>>
    /\ UNCHANGED <<main, backlog, seen, wg, closed, errs, cancelled, out,
                   stored, result, faults, pauses, runs, history>>

\* AddEvent; on failure the event is processed all the same, without a row.
StoreEvent(w) ==
    /\ pc[w] = "store"
    /\ Goto(w, "gate")
    /\ \/ /\ Succeeds
          /\ eventLog' = Append(eventLog, item[w].e)
          /\ item' = [item EXCEPT ![w] = [@ EXCEPT !.id = TRUE]]
          /\ UNCHANGED <<errs, failedRun>>
       \/ /\ Fails("db")
          /\ RecordFailure
          /\ UNCHANGED <<eventLog, item>>
    /\ UNCHANGED <<main, backlog, queue, seen, wg, closed, cancelled, mi, out,
                   ck, status, result, pauses, runs, history>>

\* waitForScanResume before a module: an error gives the event up.
Gate(w) ==
    /\ pc[w] = "gate"
    /\ AtModule(w)
    /\ \/ /\ waitForScanResume
          /\ Goto(w, "check")
          /\ UNCHANGED wg
       \/ /\ Fails("status")
          /\ wgDone
          /\ Goto(w, "exit")
    /\ UNCHANGED <<main, backlog, queue, seen, closed, errs, cancelled, item,
                   mi, out, stored, result, pauses, runs, history>>

\* The status a worker's checkpoint row is skipped for.
AlreadyDoneNever(w) == ck[Current(w)][CkKey(item[w].e)] = "done"
AlreadyDone(w)      == ck[Current(w)][CkKey(item[w].e)] = "completed"

\* CheckpointStatus: completed work is skipped.
CheckpointStatus(w) ==
    /\ pc[w] = "check"
    /\ \/ /\ Succeeds
          /\ IF AlreadyDone(w)
             THEN NextModule(w)
             ELSE Goto(w, "mark") /\ UNCHANGED mi
          /\ UNCHANGED <<errs, failedRun>>
       \/ /\ Fails("db")
          /\ RecordFailure
          /\ NextModule(w)
    /\ UNCHANGED <<main, backlog, queue, seen, wg, closed, cancelled, item,
                   out, eventLog, ck, status, result, pauses, runs, history>>

\* UpsertCheckpoint "running".
MarkRunning(w) ==
    /\ pc[w] = "mark"
    /\ \/ /\ Succeeds
          /\ SetCheckpoint(w, "running")
          /\ Goto(w, "handle")
          /\ UNCHANGED <<mi, errs, failedRun>>
       \/ /\ Fails("db")
          /\ RecordFailure
          /\ NextModule(w)
          /\ UNCHANGED ck
    /\ UNCHANGED <<main, backlog, queue, seen, wg, closed, cancelled, item,
                   out, eventLog, status, result, pauses, runs, history>>

CountLate(w) == late' = [late EXCEPT ![w] = IF status = "paused" THEN @ + 1
                                                                 ELSE @]

\* Handle returns events.  The module may ignore that its context has ended.
HandleOk(w) ==
    /\ pc[w] = "handle"
    /\ LET next == Emits[Current(w)][item[w].e] IN
       /\ out' = [out EXCEPT ![w] = next]
       /\ owed' = owed \cup UNION {Owes(e) : e \in Range(next)}
    /\ handled' = handled \cup {<<Current(w), CkKey(item[w].e)>>}
    /\ CountLate(w)
    /\ Goto(w, "complete")
    /\ UNCHANGED <<volatile, item, mi, stored, result, faults, pauses, runs,
                   doneBefore>>

\* Handle returns an error: UpsertCheckpoint "failed" (its failure ignored),
\* recordRun, error channel.
HandleFail(w) ==
    /\ pc[w] = "handle"
    /\ Fails("module")
    /\ \/ ~cancelled /\ SetCheckpoint(w, "failed")
       \/ (cancelled \/ "db" \in Faults) /\ UNCHANGED ck
    /\ RecordFailure
    /\ NextModule(w)
    /\ CountLate(w)
    /\ UNCHANGED <<main, backlog, queue, seen, wg, closed, cancelled, item,
                   out, eventLog, status, result, pauses, runs, owed, handled,
                   doneBefore>>

\* UpsertCheckpoint "completed", whose failure is ignored.
MarkCompleted(w) ==
    /\ pc[w] = "complete"
    /\ \/ Succeeds /\ SetCheckpoint(w, "completed")
       \/ Fails("db") /\ UNCHANGED ck
    /\ Goto(w, "emit")
    /\ UNCHANGED <<volatile, item, mi, out, eventLog, failedRun, status,
                   result, pauses, runs, history>>

\* s.Enqueue of the next returned event, up to the send.
Emit(w) ==
    /\ pc[w] = "emit"
    /\ \/ /\ out[w] = <<>>
          /\ NextModule(w)
          /\ UNCHANGED <<seen, wg, out>>
       \/ /\ out[w] # <<>>
          /\ Head(out[w]) \in Range(seen)
          /\ out' = [out EXCEPT ![w] = Tail(@)]
          /\ UNCHANGED <<seen, wg, pc, mi>>
       \/ /\ out[w] # <<>>
          /\ Head(out[w]) \notin Range(seen)
          /\ seen' = Remember(seen, Head(out[w]))
          /\ wgAdd
          /\ Goto(w, "send")
          /\ UNCHANGED <<out, mi>>
    /\ UNCHANGED <<main, backlog, queue, closed, errs, cancelled, item, stored,
                   result, faults, pauses, runs, history>>

\* The blocking send: waits while the channel is full.
Send(w) ==
    /\ pc[w] = "send"
    /\ LET e == Head(out[w])
           p == priorityFor(e) IN
       /\ Len(queue[p]) < QueueCap
       /\ queue' = [queue EXCEPT ![p] = Append(@, [e |-> e, id |-> FALSE])]
    /\ out' = [out EXCEPT ![w] = Tail(@)]
    /\ Goto(w, "emit")
    /\ UNCHANGED <<main, backlog, seen, wg, closed, errs, cancelled, item, mi,
                   stored, result, faults, pauses, runs, history>>

\* The loop over the modules ends: wg.Done.
FinishEvent(w) ==
    /\ pc[w] = "gate"
    /\ ~AtModule(w)
    /\ wgDone
    /\ Goto(w, "resume")
    /\ UNCHANGED <<main, backlog, queue, seen, closed, errs, cancelled, item,
                   mi, out, stored, result, faults, pauses, runs, history>>

-----------------------------------------------------------------------------
(* The environment: the operator's API requests, the context, the process. *)

\* handlePauseScan: UpdateScanStatus "paused", whatever the status is.
Pause ==
    /\ pauses < MaxPauses
    /\ pauses' = pauses + 1
    /\ status' = "paused"
    /\ late' = IF status = "paused" THEN late ELSE [w \in Workers |-> 0]
    /\ UNCHANGED <<volatile, workers, eventLog, ck, failedRun, result, faults,
                   runs, owed, handled, doneBefore>>

\* handleResumeScan: UpdateScanStatus "running", whatever the status is.
Resume ==
    /\ MaxPauses > 0
    /\ status # "running"
    /\ status' = "running"
    /\ UNCHANGED <<volatile, workers, eventLog, ck, failedRun, result, faults,
                   pauses, runs, history>>

\* The context of Engine.Run ends (the API gives a scan ten minutes).
Cancel ==
    /\ main # "down"
    /\ "cancel" \in Faults /\ faults < MaxFaults
    /\ ~cancelled
    /\ cancelled' = TRUE
    /\ faults' = faults + 1
    /\ UNCHANGED <<main, backlog, queue, seen, wg, closed, errs, workers,
                   stored, result, pauses, runs, history>>

\* The process dies: only what is in the database is left.
Crash ==
    /\ main # "down"
    /\ "crash" \in Faults /\ faults < MaxFaults
    /\ faults' = faults + 1
    /\ main' = "down"
    /\ NewScheduler
    /\ UNCHANGED <<stored, result, pauses, runs, history>>

\* Nothing runs between two runs of the scan.
AtRest == main = "down" /\ UNCHANGED vars

EngineStep == \/ SetupFails \/ LoadBacklog \/ LoadNext \/ LoadSend
              \/ SpawnWorkers \/ CloseQueues \/ JoinWorkers \/ FinishScan \/ CheckHealth

WorkerStep(w) ==
    \/ ResumeCheck(w) \/ (\E p \in Prios : Poll(w, p)) \/ Select(w)
    \/ StoreEvent(w) \/ Gate(w) \/ CheckpointStatus(w) \/ MarkRunning(w)
    \/ HandleOk(w) \/ HandleFail(w) \/ MarkCompleted(w)
    \/ Emit(w) \/ Send(w) \/ FinishEvent(w)

Next == \/ Start \/ EngineStep
        \/ \E w \in Workers : WorkerStep(w)
        \/ Pause \/ Resume \/ Cancel \/ Crash \/ AtRest

Spec == Init /\ [][Next]_vars

\* The Go scheduler eventually runs every goroutine that can make a step.
Fairness == /\ WF_vars(EngineStep)
            /\ \A w \in Workers : WF_vars(WorkerStep(w))

FairSpec == Spec /\ Fairness

-----------------------------------------------------------------------------
(* Correctness.                                                            *)

\* Every variable has its type.
TypeOK ==
    /\ main \in Mains
    /\ backlog \in Seq(Item)
    /\ queue \in [Prios -> Seq(Item)]
    /\ seen \in Seq(Events)
    /\ wg \in Int
    /\ closed \in BOOLEAN
    /\ errs \in BOOLEAN
    /\ cancelled \in BOOLEAN
    /\ pc \in [Workers -> PCs]
    /\ item \in [Workers -> Item]
    /\ mi \in [Workers -> 1..(Len(Modules) + 1)]
    /\ out \in [Workers -> Seq(Events)]
    /\ eventLog \in Seq(Events)
    /\ ck \in [ModuleSet -> [Keys -> {"none", "running", "failed", "completed"}]]
    /\ failedRun \in BOOLEAN
    /\ status \in {"none", "running", "paused", "completed", "failed"}
    /\ result \in {"none", "ok", "error"}
    /\ faults \in 0..MaxFaults
    /\ pauses \in 0..MaxPauses
    /\ runs \in 0..MaxRuns
    /\ owed \subseteq ModuleSet \X Keys
    /\ handled \subseteq ModuleSet \X Keys
    /\ doneBefore \subseteq ModuleSet \X Keys
    /\ late \in [Workers -> Nat]

Queued      == Len(queue["high"]) + Len(queue["normal"]) + Len(queue["low"])
BusyWorkers == {w \in Workers : pc[w] \in Busy}
Senders     == {w \in Workers : pc[w] = "send"}

\* The WaitGroup counts exactly the events in the channels, the events held
\* by workers and the events on their way into a channel.  In particular it
\* is never negative (sync.WaitGroup panics), whatever error path a worker
\* takes out of its loop.
WaitGroupExact ==
    wg = Queued + Cardinality(BusyWorkers) + Cardinality(Senders)
         + (IF main = "loadsend" THEN 1 ELSE 0)

\* Scheduler.Run closes the channels only when nobody can still send on them
\* (a send on a closed channel panics) and nothing is left in them.
CloseIsQuiet ==
    closed => /\ BusyWorkers = {}
              /\ \A p \in Prios : queue[p] = <<>>

\* Engine.Run reports success only if every module an event called for has
\* completed on that event's type and target, in this run or in an earlier
\* run of the same scan.
CompletedCovers == result = "ok" => owed \subseteq handled

\* A "completed" checkpoint is never wrong: the module did complete on that
\* type and target, whatever failed, was cancelled or crashed in between.
CheckpointSound ==
    \A m \in ModuleSet, k \in Keys :
        ck[m][k] = "completed" => <<m, k>> \in handled

\* A resumed run never repeats work that was completed when it began.
ResumeSkipsDone ==
    \A w \in Workers :
        pc[w] \in {"mark", "handle", "complete"} =>
            <<Current(w), CkKey(item[w].e)>> \notin doneBefore

\* An event that reads back as it was written has at most one row in the
\* events table: dedup within a run, and the reload of stored events ahead of
\* the targets across runs, whatever the others read back as.
FaithfulStoredOnce ==
    \A i, j \in 1..Len(eventLog) :
        eventLog[i] = eventLog[j] /\ Reload[eventLog[i]] = eventLog[i] => i = j

\* docs/field_validation.md fails a release whose restart or resume creates
\* duplicate evidence.  The deduper's key holds the event's data, so an event
\* that reads back otherwise is stored again by the module that is run again.
EventStoredOnce ==
    \A i, j \in 1..Len(eventLog) : eventLog[i] = eventLog[j] => i = j

\* Cooperative pause: after the scan is paused, a worker finishes at most the
\* module it had already passed the gate for.
PauseHolds == \A w \in Workers : status = "paused" => late[w] <= 1

\* A started scan ends, unless the operator leaves it paused.
ScanEnds == []<>(main = "down") \/ <>[](status = "paused")

\* A scan whose context is not cancelled ends, as long as status lookups leave
\* a worker running, whichever database call or module fails and wherever the
\* process is killed and started again.
UncancelledScanEnds == []~cancelled => ScanEnds

\* The work of the targets, and what a module's events call for.
InitialWork == UNION {Owes(e) : e \in Range(Targets)}

EmittedWork == {<<<<m, CkKey(e)>>, UNION {Owes(f) : f \in Range(Emits[m][e])}>> :
                    m \in ModuleSet, e \in Events}

Promise == INSTANCE ScanWork WITH Initial <- InitialWork, Leads <- EmittedWork,
                                  attempt <- runs, called <- owed, verdict <- result

\* Engine.Run and its workers implement ScanWork: a module gets only events it
\* subscribed to and that targets or handled events led to, and none after
\* Engine.Run has returned; and a first run returns success only when every
\* module called for has handled its event.
ImplementsScanWork == Promise!Spec

-----------------------------------------------------------------------------
(* The inductive strengthening of WaitGroupExact and CloseIsQuiet.         *)

\* Workers exist only between SpawnWorkers and the end of the run.
NoWorkersYet == main \in {"starting", "loading", "loadsend"} =>
                    \A w \in Workers : pc[w] = "none"

\* A send in progress has something to send.
SendPending == /\ main = "loadsend" => backlog # <<>>
               /\ \A w \in Workers : pc[w] = "send" => out[w] # <<>>

\* Past the gate a worker is at a module.
InModule == {"check", "mark", "handle", "complete", "emit", "send"}
LoopInside == \A w \in Workers : pc[w] \in InModule => AtModule(w)

\* The channels are closed at the end of a run only.
ClosedLast == closed => main \in {"joining", "finishing", "health", "down"}

CountInv == /\ TypeOK /\ NoWorkersYet /\ SendPending /\ LoopInside
            /\ ClosedLast /\ WaitGroupExact /\ CloseIsQuiet

\* The inductive strengthening of CheckpointSound: a worker about to write
\* "completed" has completed the module.
HandledFirst ==
    \A w \in Workers : pc[w] = "complete" =>
        <<Current(w), CkKey(item[w].e)>> \in handled

\* The inductive strengthening of ResumeSkipsDone: what was completed when
\* the run began stays completed.
DoneStays == \A mk \in doneBefore : ck[mk[1]][mk[2]] = "completed"

\* The inductive strengthening of PauseHolds: a worker that ended a module
\* since the pause does not pass the gate again.
PauseInv ==
    \A w \in Workers : status = "paused" =>
        \/ late[w] = 0
        \/ late[w] = 1 /\ pc[w] \notin {"check", "mark", "handle"}

-----------------------------------------------------------------------------
(* The inductive strengthening of FaithfulStoredOnce.                      *)

\* The events in the channels, those each worker has to store or is sending,
\* and the one the engine is sending.
InChannel == {e \in Events : \E p \in Prios : \E i \in 1..Len(queue[p]) : queue[p][i].e = e}

Held == [w \in Workers |-> {e \in Events : \/ pc[w] = "store" /\ item[w].e = e
                                           \/ pc[w] = "send" /\ Head(out[w]) = e}]

InLoad == {e \in Events : main = "loadsend" /\ Head(backlog).e = e}

\* The stored events that read back as themselves.
Logged == {e \in Range(eventLog) : Reload[e] = e}

\* The deduper has no event twice.
SeenOnce == \A i, j \in 1..Len(seen) : seen[i] = seen[j] => i = j

\* An event is in one place of one channel, with one worker, or with the engine.
OnePlace ==
    /\ \A p, q \in Prios : \A i \in 1..Len(queue[p]), j \in 1..Len(queue[q]) :
          queue[p][i].e = queue[q][j].e => p = q /\ i = j
    /\ \A w \in Workers : Held[w] \cap InChannel = {}
    /\ \A w, v \in Workers : w # v => Held[w] \cap Held[v] = {}
    /\ InLoad \cap InChannel = {}

\* Whatever is on its way has passed the deduper.
PassedDedup == /\ InChannel \subseteq Range(seen)
               /\ InLoad \subseteq Range(seen)
               /\ \A w \in Workers : Held[w] \subseteq Range(seen)

\* What has no row yet is not in the table.
NotYetStored ==
    /\ \A p \in Prios : \A i \in 1..Len(queue[p]) : ~queue[p][i].id => queue[p][i].e \notin Logged
    /\ \A w \in Workers : Held[w] \cap Logged = {}
    /\ main = "loadsend" /\ ~Head(backlog).id => InLoad \cap Logged = {}

\* The deduper knows every stored event, once the stored events were enqueued.
LogKnown ==
    /\ (\E w \in Workers : pc[w] # "none") => Logged \subseteq Range(seen)
    /\ main \in {"loading", "loadsend"} =>
          \A e \in Logged :
             \/ e \in Range(seen)
             \/ \E k \in 1..Len(backlog) : backlog[k].e = e /\ \A i \in 1..k : backlog[i].id

StoreInv == SeenOnce /\ OnePlace /\ PassedDedup /\ NotYetStored /\ LogKnown /\ FaithfulStoredOnce

-----------------------------------------------------------------------------
(* The inductive strengthening of CompletedCovers, in the first run.       *)

\* Events that passed the deduper and that no worker has taken.
Sending == [w \in Workers |-> {e \in Events : pc[w] = "send" /\ Head(out[w]) = e}]

Carried == {e \in Events : e \in InChannel \/ e \in InLoad \/ \E w \in Workers : e \in Sending[w]}

\* Events that have still to pass it: returned by a module, or in the backlog.
Unsent == [w \in Workers |-> {e \in Events : \E i \in 1..Len(out[w]) : out[w][i] = e}]

Unloaded == {e \in Events : \E i \in 1..Len(backlog) : backlog[i].e = e}

Returned == {e \in Events : e \in Unloaded \/ \E w \in Workers : e \in Unsent[w]}

\* What a worker has still to do with its event.
Assigned == [w \in Workers |-> {mk \in ModuleSet \X Keys :
                /\ pc[w] \in Busy
                /\ mk \in Owes(item[w].e)
                /\ \E j \in mi[w]..Len(Modules) : Modules[j] = mk[1]}]

Settled == {mk \in ModuleSet \X Keys :
                \/ mk \in handled
                \/ \E e \in Carried : mk \in Owes(e)
                \/ \E w \in Workers : mk \in Assigned[w]}

\* The first run, from the enqueued targets on, while nothing has failed.
Undisturbed == /\ main \in {"loading", "loadsend", "waiting", "joining", "finishing", "health"}
               /\ runs <= 1 /\ ~errs /\ ~cancelled

\* No event is forgotten: what the deduper knows and what is owed will be done.
Covered ==
    /\ \A e \in Range(seen) : Owes(e) \subseteq Settled
    /\ \A mk \in owed : mk \in Settled \/ \E e \in Returned : mk \in Owes(e)

Covering == Undisturbed => Covered

\* Nothing waits outside the channels when they are closed.
NothingBehind ==
    /\ \A w \in Workers : pc[w] \notin {"complete", "emit", "send"} => out[w] = <<>>
    /\ main \in {"waiting", "joining", "finishing", "health"} => backlog = <<>>
    /\ main \in {"joining", "finishing", "health"} => closed
    /\ main = "health" => ~errs

\* A worker that enqueues events has completed the module that returned them.
HandledThrough ==
    \A w \in Workers : pc[w] \in {"complete", "emit", "send"} =>
        <<Current(w), CkKey(item[w].e)>> \in handled

\* Nothing is owed before the first targets, and nothing after success.
FirstRun ==
    /\ runs = 0 => main = "down" /\ owed = {} /\ \A w \in Workers : pc[w] = "none"
    /\ runs <= 1 /\ main = "starting" => owed = {} /\ seen = <<>>
    /\ runs <= 1 /\ result = "ok" => main = "down" /\ closed /\ owed \subseteq handled

CoverInv == Covering /\ NothingBehind /\ HandledThrough /\ FirstRun

-----------------------------------------------------------------------------
(* The inductive strengthening of ImplementsScanWork.                      *)

\* Every event that is stored, loaded, queued, held or returned was called for.
Called(e) == Owes(e) \subseteq owed

LogCalled     == \A i \in 1..Len(eventLog) : Called(eventLog[i])
BacklogCalled == \A i \in 1..Len(backlog) : Called(backlog[i].e)
QueueCalled   == \A p \in Prios : \A i \in 1..Len(queue[p]) : Called(queue[p][i].e)
HeldCalled    == \A w \in Workers : pc[w] \in Busy => Called(item[w].e)
OutCalled     == \A w \in Workers : \A i \in 1..Len(out[w]) : Called(out[w][i])

\* A worker stops at modules that subscribe to its event.
AtSubscriber ==
    \A w \in Workers : pc[w] \in Busy /\ AtModule(w) => subscribes(Current(w), item[w].e)

\* A run that goes on has not reported, and a worker that moves is in one.
Resting ==
    /\ main # "down" => result = "none"
    /\ main \notin {"waiting", "joining"} => \A w \in Workers : pc[w] \in {"none", "exit"}

WorkInv == /\ LogCalled /\ BacklogCalled /\ QueueCalled /\ HeldCalled /\ OutCalled
           /\ AtSubscriber /\ Resting

=============================================================================
