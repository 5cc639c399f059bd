-------------------------------- MODULE Monitor --------------------------------
(***************************************************************************)
(* apps/monitor: the scheduler takes checks that are due from its queue and *)
(* gives them to a pool of workers; a check that ends changes the state of  *)
(* its device and opens and resolves incidents, which are found by reading  *)
(* all of them and saved one by one.  A discovery, a check like the others, *)
(* retires the checks of devices that have gone and schedules new ones.     *)
(*                                                                         *)
(* When a check is due is left open: a queued check may be taken at any     *)
(* time, so one that is put back is one that is not taken.                  *)
(***************************************************************************)
EXTENDS Integers, FiniteSets

CONSTANTS
    Device, Task,
    Discovery,          \* the task that looks for devices
    DeviceOf,           \* of a task other than the discovery
    KeyOf,              \* a key runs once at a time: its check and its target
    Cause,              \* of the incidents of failed checks and of checks in error
    FailedCause, ErrorCause,    \* "check.failed..." and "check.error..." of a task
    Presence,           \* the tasks whose result says whether a device is there
    OfflineCause,       \* "device.offline" of a device
    Workers,            \* the sizes the pool may be configured to have
    MaxPending,
    FailureThreshold,
    RecoveryThreshold,
    MaxEvents           \* bound, for a pool size: sessions, crashes, discoveries that
                        \* find something new

Check == Task \ {Discovery}
Key == {KeyOf[id] : id \in Task}

ASSUME MonitorAssumption ==
    /\ Discovery \in Task
    /\ DeviceOf \in [Check -> Device] /\ DOMAIN KeyOf = Task
    /\ FailedCause \in [Task -> Cause] /\ ErrorCause \in [Task -> Cause]
    /\ OfflineCause \in [Device -> Cause]
    /\ \A id, other \in Task :
          {FailedCause[id], ErrorCause[id]} \cap {FailedCause[other], ErrorCause[other]} # {} =>
              KeyOf[id] = KeyOf[other]
    /\ \A id, other \in Task : FailedCause[id] # ErrorCause[other]
    /\ \A id \in Task, d \in Device : OfflineCause[d] \notin {FailedCause[id], ErrorCause[id]}
    /\ Presence \subseteq Check
    /\ Workers \cup {MaxPending, FailureThreshold, RecoveryThreshold} \subseteq Nat \ {0}
    /\ MaxEvents \in [Workers -> Nat]

VARIABLES
    workers,        \* the size the pool has
    scheduler,      \* "none", "open", "closing"
    tasks, made,    \* the live instance of each task; the last one made
    queue, inflight,
    jobs,           \* the instances the pool has, and where each is
    device,         \* StateEvaluator: presence and counters of a device
    health,         \* ... and what the last run of each check found
    incidents,      \* the open ones, each a cause and a number
    untold,         \* history: the checks of which what was found last could not be told
    events

monitorVars == <<workers, scheduler, tasks, made, queue, inflight, jobs, device, health, incidents,
          untold, events>>

Happens == events < MaxEvents[workers] /\ events' = events + 1

Instance == Task \X Nat
Outstanding == DOMAIN jobs
Unknown == [presence |-> "unknown", health |-> "healthy", failures |-> 0, recoveries |-> 0]
NewJob == [at |-> "waiting", todo |-> {}, found |-> {}, changed |-> FALSE, plan |-> {}]

MonitorInit ==
    /\ workers \in Workers
    /\ scheduler = "none"
    /\ tasks = [id \in Task |-> 0] /\ made = tasks
    /\ queue = {} /\ inflight = {} /\ jobs = << >>
    /\ device = [d \in Device |-> Unknown]
    /\ incidents = {}
    /\ health = [id \in Check |-> "none"] /\ untold = {}
    /\ events = 0

-----------------------------------------------------------------------------
(* MonitorScheduler *)

Live(i) == tasks[i[1]] = i[2] /\ i[2] # 0
Due(i) == scheduler = "open" /\ i \in queue

\* start, for the devices of the assignments: their states are those of the database; what
\* each check found is not known.
Start(plan) ==
    /\ Happens
    /\ scheduler = "none" /\ scheduler' = "open"
    /\ made' = [id \in Task |-> 1]
    /\ tasks' = [id \in Task |-> IF id = Discovery \/ DeviceOf[id] \in plan THEN 1 ELSE 0]
    /\ queue' = {<<id, 1>> : id \in {x \in Task : x = Discovery \/ DeviceOf[x] \in plan}}
    /\ UNCHANGED <<workers, inflight, jobs, device, health, untold, incidents>>

\* An instance that was cancelled is dropped when it is due.
Drop(i) ==
    /\ Due(i) /\ ~Live(i)
    /\ queue' = queue \ {i}
    /\ UNCHANGED <<workers, scheduler, tasks, made, inflight, jobs, device, health, untold, incidents, events>>

\* Fault: the key is not looked for.
DispatchTwice(i) ==
    /\ Due(i) /\ Live(i)
    /\ Cardinality(Outstanding) < MaxPending
    /\ queue' = queue \ {i} /\ inflight' = inflight \cup {KeyOf[i[1]]}
    /\ jobs' = [j \in Outstanding \cup {i} |-> IF j = i THEN NewJob ELSE jobs[j]]
    /\ UNCHANGED <<workers, scheduler, tasks, made, device, health, untold, incidents, events>>

\* tick: a key in flight, and a pool that is full, put the instance back.
Dispatch(i) ==
    /\ Due(i) /\ Live(i)
    /\ KeyOf[i[1]] \notin inflight
    /\ Cardinality(Outstanding) < MaxPending
    /\ queue' = queue \ {i} /\ inflight' = inflight \cup {KeyOf[i[1]]}
    /\ jobs' = [j \in Outstanding \cup {i} |-> IF j = i THEN NewJob ELSE jobs[j]]
    /\ UNCHANGED <<workers, scheduler, tasks, made, device, health, untold, incidents, events>>

\* _done.  An instance that was cancelled or replaced meanwhile does not come back.
Requeue(i) ==
    /\ i \in Outstanding /\ jobs[i].at = "done"
    /\ jobs' = [j \in Outstanding \ {i} |-> jobs[j]]
    /\ inflight' = inflight \ {KeyOf[i[1]]}
    /\ queue' = IF scheduler = "open" /\ Live(i) THEN queue \cup {i} ELSE queue
    /\ UNCHANGED <<workers, scheduler, tasks, made, device, health, untold, incidents, events>>

-----------------------------------------------------------------------------
(* The handlers, and error_handler *)

Go(i, label) == jobs' = [jobs EXCEPT ![i].at = label]
At(i, label) == i \in Outstanding /\ jobs[i].at = label
Work(i, todo, label, changed) ==
    jobs' = [jobs EXCEPT ![i] = [NewJob EXCEPT !.at = label, !.todo = todo, !.changed = changed]]
Open(c) == [op |-> "open", cause |-> c]
Resolve(c) == [op |-> "resolve", cause |-> c]

\* A worker takes it.  The target is looked up now: if it was retired, that is all.  A
\* discovery reads the assignments and the inventory, which may have changed anyhow.
Begin(i, plan) ==
    /\ At(i, "waiting")
    /\ Cardinality({j \in Outstanding : jobs[j].at # "waiting"}) < workers
    /\ IF i[1] # Discovery /\ tasks[i[1]] = 0
       THEN plan = {} /\ Go(i, "done")
       ELSE /\ i[1] = Discovery \/ plan = {}
            /\ jobs' = [jobs EXCEPT ![i].at = "running", ![i].plan = plan]
    /\ UNCHANGED <<workers, scheduler, tasks, made, queue, inflight, device, health, untold, incidents, events>>

\* The check, or the discovery, raises before there is a result: _check_failed opens an incident.
Raise(i) ==
    /\ At(i, "running")
    /\ Work(i, {Open(ErrorCause[i[1]])}, "told", FALSE)
    /\ UNCHANGED <<workers, scheduler, tasks, made, queue, inflight, device, health, untold, incidents, events>>

\* StateEvaluator.evaluate
Counted(s, ok) ==
    LET f == IF ok THEN 0 ELSE s.failures + 1
        r == IF ok THEN s.recoveries + 1 ELSE 0
    IN [s EXCEPT !.presence = IF r >= RecoveryThreshold THEN "online"
                              ELSE IF f >= FailureThreshold THEN "offline" ELSE @,
                 !.failures = IF f > FailureThreshold THEN FailureThreshold ELSE f,
                 !.recoveries = IF r > RecoveryThreshold THEN RecoveryThreshold ELSE r]

Worst(h, d) == IF \E id \in Check : DeviceOf[id] = d /\ h[id] = "warning" THEN "warning" ELSE "healthy"

Evaluate(i) ==
    LET id == i[1]
        d == DeviceOf[id]
    IN /\ id # Discovery /\ At(i, "running")
       /\ \E ok \in BOOLEAN :
             LET own == IF id \in Presence THEN {}
                        ELSE {IF ok THEN Resolve(FailedCause[id]) ELSE Open(FailedCause[id])}
                 counted == IF id \in Presence THEN Counted(device[d], ok) ELSE device[d]
             IN /\ health' = [health EXCEPT ![id] = IF ok THEN "healthy" ELSE "warning"]
                /\ device' = [device EXCEPT ![d] = [counted EXCEPT !.health = Worst(health', d)]]
                /\ untold' = untold \ {id}
                /\ Work(i, own \cup {Resolve(ErrorCause[id])}, "told",
                        \/ device'[d].presence # device[d].presence
                        \/ device'[d].health # device[d].health)
       /\ UNCHANGED <<workers, scheduler, tasks, made, queue, inflight, incidents, events>>

\* _run_discovery: what has gone is cancelled, what is new is scheduled, under
\* one lock, by the plan that was read before it.
Rediscover(i) ==
    /\ i[1] = Discovery /\ At(i, "running")
    /\ LET gone == {id \in Check : tasks[id] # 0 /\ DeviceOf[id] \notin jobs[i].plan}
           new == {id \in Check : tasks[id] = 0 /\ DeviceOf[id] \in jobs[i].plan}
       IN /\ IF new = {} THEN UNCHANGED events ELSE Happens
          /\ made' = [id \in Task |-> IF id \in new THEN made[id] + 1 ELSE made[id]]
          /\ tasks' = [id \in Task |-> IF id \in gone THEN 0
                                       ELSE IF id \in new THEN made'[id] ELSE tasks[id]]
          /\ queue' = queue \cup {<<id, made'[id]>> : id \in new}
    /\ Work(i, {Resolve(ErrorCause[i[1]])}, "told", FALSE)
    /\ UNCHANGED <<workers, scheduler, inflight, device, health, untold, incidents>>

\* IncidentManager: open incidents of the causes are looked for...
Look(i) ==
    /\ At(i, "told")
    /\ LET first(c) == {x \in incidents : x[1] = c /\ \A y \in incidents : y[1] = c => x[2] <= y[2]}
       IN jobs' = [jobs EXCEPT ![i].at = "save", ![i].found = UNION {first(t.cause) : t \in jobs[i].todo}]
    /\ UNCHANGED <<workers, scheduler, tasks, made, queue, inflight, device, health, untold, incidents, events>>

New(c) ==
    LET known == incidents \cup UNION {jobs[j].found : j \in Outstanding}
    IN <<c, CHOOSE x \in 1 .. Cardinality(known) + 1 : <<c, x>> \notin known>>

\* Fault: one is opened though one was found.
SaveIncidentsAgain(i, told) ==
    LET resolved == {x \in jobs[i].found : Resolve(x[1]) \in told}
        missing == {t \in told : t.op = "open"}
    IN incidents' = (incidents \ resolved) \cup {New(t.cause) : t \in missing}

\* ...and new ones are saved, or those that were found are saved as resolved.  No other job
\* has a cause in common, but for the one of being offline, which is alone.
SaveIncidents(i, told) ==
    LET resolved == {x \in jobs[i].found : Resolve(x[1]) \in told}
        missing == {t \in told : t.op = "open" /\ \A x \in jobs[i].found : x[1] # t.cause}
    IN incidents' = (incidents \ resolved) \cup {New(t.cause) : t \in missing}

Tell(i) ==
    /\ At(i, "save")
    /\ SaveIncidents(i, jobs[i].todo)
    /\ Work(i, {}, IF jobs[i].changed THEN "device" ELSE "done", FALSE)
    /\ UNCHANGED <<workers, scheduler, tasks, made, queue, inflight, device, health, untold, events>>

\* Something raises after the evaluation, in the database, among the incidents, whose error
\* is told last, or in the history, which is written when all is told: _check_failed opens an
\* incident, as of a check that raised.  What raises in _check_failed itself is only noted.
TellFails(i) ==
    LET id == i[1]
        todo == jobs[i].todo
    IN /\ At(i, "save")
       /\ \E told \in SUBSET todo :
             /\ Resolve(ErrorCause[id]) \in told => told = todo
             /\ SaveIncidents(i, told)
             /\ untold' = untold \cup {x \in {id} : \E t \in todo \ told : t.cause = FailedCause[x]}
       /\ IF todo = {Open(ErrorCause[id])}
          THEN Work(i, {}, "done", FALSE)
          ELSE Work(i, {Open(ErrorCause[id])}, "told", FALSE)
       /\ UNCHANGED <<workers, scheduler, tasks, made, queue, inflight, device, health, events>>

\* A change of the device's state is told by the state it has by now.
TellDevice(i) ==
    /\ At(i, "device")
    /\ LET d == DeviceOf[i[1]]
       IN \/ device[d].presence = "offline" /\ Work(i, {Open(OfflineCause[d])}, "told", FALSE)
          \/ device[d].presence = "online" /\ Work(i, {Resolve(OfflineCause[d])}, "told", FALSE)
          \/ device[d].presence = "unknown" /\ Go(i, "done")
    /\ UNCHANGED <<workers, scheduler, tasks, made, queue, inflight, device, health, untold, incidents, events>>

-----------------------------------------------------------------------------
\* close, at the end of a session or of its time: what waits is cancelled, and
\* the cancellation is taken for a check that raised.
Close ==
    /\ scheduler = "open"
    /\ scheduler' = "closing"
    /\ tasks' = [id \in Task |-> 0] /\ queue' = {}
    /\ jobs' = [j \in Outstanding |-> IF jobs[j].at # "waiting" THEN jobs[j]
          ELSE [NewJob EXCEPT !.at = "told", !.todo = {Open(ErrorCause[j[1]])}]]
    /\ UNCHANGED <<workers, made, inflight, device, health, untold, incidents, events>>

Forget ==
    /\ tasks' = [id \in Task |-> 0] /\ made' = tasks' /\ queue' = {}
    /\ health' = [id \in Check |-> "none"] /\ untold' = {}

\* The executor has waited for its workers.
Closed ==
    /\ scheduler = "closing" /\ Outstanding = {}
    /\ scheduler' = "none"
    /\ Forget
    /\ UNCHANGED <<workers, inflight, jobs, device, incidents, events>>

\* The process dies.  States and incidents are in the database.
Crash ==
    /\ Happens
    /\ scheduler # "none" /\ scheduler' = "none"
    /\ Forget /\ inflight' = {} /\ jobs' = << >>
    /\ UNCHANGED <<workers, device, incidents>>

Handle(i) == \/ \E plan \in SUBSET Device : Begin(i, plan)
             \/ Raise(i) \/ Evaluate(i) \/ Rediscover(i)
             \/ Look(i) \/ Tell(i) \/ TellFails(i) \/ TellDevice(i)

MonitorNext ==
    \/ \E plan \in SUBSET Device : Start(plan)
    \/ Close \/ Closed \/ Crash
    \/ \E i \in queue : Drop(i) \/ Dispatch(i)
    \/ \E i \in Outstanding : Handle(i) \/ Requeue(i)

MonitorSpec == MonitorInit /\ [][MonitorNext]_monitorVars

-----------------------------------------------------------------------------
MonitorTypeOK ==
    /\ workers \in Workers
    /\ scheduler \in {"none", "open", "closing"}
    /\ tasks \in [Task -> Nat] /\ made \in [Task -> Nat]
    /\ queue \subseteq Instance /\ inflight \subseteq Key
    /\ Outstanding \subseteq Instance
    /\ \A i \in Outstanding :
          /\ jobs[i].at \in {"waiting", "running", "told", "save", "device", "done"}
          /\ jobs[i].plan \subseteq Device
    /\ \A d \in Device : device[d].presence \in {"unknown", "online", "offline"}
    /\ incidents \subseteq Cause \X Nat
    /\ untold \subseteq Check

\* "Cancelar una tarea también invalida su ejecución en vuelo": what the scheduler
\* knows of is in the queue or with the pool, and not in both; the pool has one
\* instance of a key at most, however often its task was retired and scheduled anew.
TasksKept ==
    /\ \A i, j \in Outstanding : KeyOf[i[1]] = KeyOf[j[1]] => i = j
    /\ queue \cap Outstanding = {}
    /\ scheduler = "open" => \A id \in Task :
          tasks[id] # 0 => <<id, tasks[id]>> \in queue \cup Outstanding

Opened(c) == {x \in incidents : x[1] = c}

\* Two checks of one service each, of one device, are told by the same cause.
OwnCause(id) == \A other \in Task \ {id} : FailedCause[other] # FailedCause[id]

\* A check has one open incident for its failures, and one for its errors, however
\* its runs follow each other and fail; when none is under way, the first of them is open if
\* what it found last was wrong, and resolved if it was not, unless it shares its cause or
\* what it found could not be told.
IncidentsTold ==
    \A id \in Task :
        /\ Cardinality(Opened(FailedCause[id])) <= 1 /\ Cardinality(Opened(ErrorCause[id])) <= 1
        /\ /\ id \in Check \ (Presence \cup untold) /\ OwnCause(id)
           /\ \A i \in Outstanding : KeyOf[i[1]] # KeyOf[id]
           => /\ health[id] = "warning" => Opened(FailedCause[id]) # {}
              /\ health[id] = "healthy" => Opened(FailedCause[id]) = {}

\* Nothing runs, and nothing waits, once the monitor has closed.
ClosedIsQuiet == scheduler = "none" => Outstanding = {} /\ inflight = {}
=============================================================================
