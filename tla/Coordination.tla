----------------------------- MODULE Coordination -----------------------------
(***************************************************************************)
(* core/coordination.py and core/session.py: the launchers one user runs   *)
(* share a SQLite file of sessions, tasks, commands and events.  Each      *)
(* session polls it from a thread of its own: it beats, reads the events   *)
(* behind its cursor, tells its interface that what it shows is no longer  *)
(* what is on disk, and claims the commands addressed to it.               *)
(*                                                                         *)
(* A method of Coordinator is one transaction and one step.  Time is what  *)
(* it decides: a heartbeat is fresh, stale (15 s) or old (one day), and a  *)
(* command is new or aged (30 s).  Events of other users take sequence     *)
(* numbers that this user's sessions never read.                           *)
(***************************************************************************)
EXTENDS Integers, Sequences, FiniteSets

CONSTANTS
    Session, Task, Command,
    Project,
    ProjectOf,      \* the project a session is pinned to
    Interface,      \* the sessions that show an inventory: GUI and TUI
    Everything,     \* what a change of the configuration is about
    NoNews,         \* what every other event is about
    Stranger,       \* a session of another user
    EventLimit,     \* events retained (10 000)
    BatchLimit,     \* events read at once (200)
    Mortal,         \* bound: the sessions that may be closed or die
    Late,           \* bound: the sessions whose heartbeat may be late
    Changes,        \* bound: what sessions write about
    Talkers,        \* bound: who publishes what is no news
    MaxEvents       \* bound: events published

ASSUME CoordinationAssumption ==
    /\ ProjectOf \in [Session -> Project]
    /\ Interface \subseteq Session /\ Mortal \cup Late \subseteq Session
    /\ Changes \subseteq Project \cup {Everything}
    /\ Talkers \subseteq Session \cup {Stranger}
    /\ {Everything, NoNews} \cap Project = {} /\ Everything # NoNews
    /\ Stranger \notin Session
    /\ {EventLimit, BatchLimit} \subseteq Nat \ {0}
    /\ MaxEvents \in Nat

VARIABLES
    row, controls,      \* table sessions: age of the heartbeat; takes commands?
    task,               \* table tasks: its session and state
    command,            \* table commands: target, state, and is it 30 s old?
    log, floor,         \* table events, by sequence number; those <= floor are gone
    life,               \* the process of a session
    stage,              \* where its poll is
    cursor, pending,    \* Session.cursor and _pending_changed
    changed, batch,     \* locals of poll: is there news? what is claimed
    handler,            \* has the interface installed its handler?
    notified, reading,  \* the interface: it was told; it is reloading
    writing,            \* what a session has written and not yet announced
    outdated,           \* ghost: files were replaced after they were read
    watching,           \* ghost: they were read after the handler was installed
    silent,             \* ghost: a change was never announced
    executed            \* ghost: how often a command was handled

tables == <<row, controls, task, command, log, floor>>
poller == <<stage, cursor, pending, changed, batch>>
display == <<handler, notified, reading, outdated, watching>>
vars == <<tables, poller, display, life, writing, silent, executed>>

NoTask == [session |-> Stranger, state |-> "none"]
NoCommand == [target |-> Stranger, state |-> "none", aged |-> FALSE]

Set(f, s, value) == [f EXCEPT ![s] = value]
Largest(S) == IF S = {} THEN 0 ELSE CHOOSE n \in S : \A m \in S : m <= n

\* Events this user's sessions can read, and those that concern one of them.
Retained == {n \in floor + 1 .. Len(log) : log[n].session # Stranger}
Concerns(n, s) == log[n].session # s /\ log[n].about \in {ProjectOf[s], Everything}

Init ==
    /\ row = [s \in Session |-> "none"] /\ controls = [s \in Session |-> FALSE]
    /\ task = [t \in Task |-> NoTask]
    /\ command = [c \in Command |-> NoCommand]
    /\ log = <<>> /\ floor = 0
    /\ life = [s \in Session |-> "off"]
    /\ stage = [s \in Session |-> "wait"]
    /\ cursor = [s \in Session |-> 0]
    /\ pending = [s \in Session |-> FALSE] /\ changed = [s \in Session |-> FALSE]
    /\ batch = [s \in Session |-> {}]
    /\ handler = [s \in Session |-> FALSE]
    /\ notified = [s \in Session |-> FALSE] /\ reading = [s \in Session |-> FALSE]
    /\ writing = [s \in Session |-> NoNews]
    /\ outdated = [s \in Session |-> FALSE] /\ watching = [s \in Session |-> FALSE]
    /\ silent = FALSE
    /\ executed = [c \in Command |-> 0]

-----------------------------------------------------------------------------
(* The tables. *)

Finished(state) == state \notin {"none", "queued", "running"}

\* Fault: neither tasks nor commands are looked after.
MaintainSessionsOnly(rows) ==
    /\ row' = [s \in Session |-> IF rows[s] = "old" THEN "none" ELSE rows[s]]
    /\ floor' = Largest({floor, Len(log) - EventLimit})
    /\ UNCHANGED <<task, command>>

\* maintain: sessions a day old, orphan tasks, commands too late or addressed to
\* nobody, events behind the limit, and what has been finished for a day.
Maintained(rows) ==
    LET available == {s \in Session : rows[s] = "fresh"}
        late(c) == command[c].aged \/ command[c].target \notin available
    IN \E oldTasks \in SUBSET {t \in Task : Finished(task[t].state)},
          oldCommands \in SUBSET {c \in Command : Finished(command[c].state)} :
          /\ row' = [s \in Session |-> IF rows[s] = "old" THEN "none" ELSE rows[s]]
          /\ task' = [t \in Task |->
                CASE t \in oldTasks -> [task[t] EXCEPT !.state = "purged"]
                  [] task[t].state = "running" /\ task[t].session \notin available ->
                        [task[t] EXCEPT !.state = "interrupted"]
                  [] OTHER -> task[t]]
          /\ command' = [c \in Command |->
                CASE c \in oldCommands -> [command[c] EXCEPT !.state = "purged"]
                  [] command[c].state = "queued" /\ late(c) ->
                        [command[c] EXCEPT !.state = "expired"]
                  [] OTHER -> command[c]]
          /\ floor' = Largest({floor, Len(log) - EventLimit})

\* Time passes for a heartbeat and for a command.
Age(s) ==
    /\ s \in Late /\ row[s] \in {"fresh", "stale"}
    /\ row' = Set(row, s, IF row[s] = "fresh" THEN "stale" ELSE "old")
    /\ UNCHANGED <<controls, task, command, log, floor, poller, display, life,
                   writing, silent, executed>>

Wait(c) ==
    /\ command[c].state = "queued" /\ ~command[c].aged
    /\ command' = [command EXCEPT ![c].aged = TRUE]
    /\ UNCHANGED <<row, controls, task, log, floor, poller, display, life,
                   writing, silent, executed>>

\* Fault: any session that was ever registered is accepted.
EnqueueUnchecked(c, s) ==
    /\ command[c].state = "none"
    /\ life[s] # "off"
    /\ command' = [command EXCEPT ![c] = [target |-> s, state |-> "queued", aged |-> FALSE]]
    /\ UNCHANGED <<row, controls, task, log, floor, poller, display, life,
                   writing, silent, executed>>

\* "backend refresh", "root forced-view", from any process: one transaction.
Enqueue(c, s) ==
    /\ command[c].state = "none"
    /\ row[s] = "fresh" /\ controls[s]
    /\ command' = [command EXCEPT ![c] = [target |-> s, state |-> "queued", aged |-> FALSE]]
    /\ UNCHANGED <<row, controls, task, log, floor, poller, display, life,
                   writing, silent, executed>>

-----------------------------------------------------------------------------
(* The life of a session. *)

\* Session(): register, maintain, latest; then its thread starts.
Start(s) ==
    /\ life[s] = "off"
    /\ Maintained(Set(row, s, "fresh"))
    /\ life' = Set(life, s, "on")
    /\ cursor' = Set(cursor, s, Largest({n \in Retained : n > floor'}))
    /\ UNCHANGED <<controls, log, stage, pending, changed, batch, display, writing,
                   silent, executed>>

\* The thread that polls is not waited for beyond six seconds.
Close(s) ==
    /\ s \in Mortal /\ life[s] = "on" /\ writing[s] = NoNews
    /\ life' = Set(life, s, "closed")
    /\ row' = Set(row, s, "none")
    /\ task' = [t \in Task |-> IF task[t] = [session |-> s, state |-> "running"]
                               THEN [task[t] EXCEPT !.state = "interrupted"] ELSE task[t]]
    /\ command' = [c \in Command |->
          IF command[c].target = s /\ command[c].state = "queued"
          THEN [command[c] EXCEPT !.state = "expired"] ELSE command[c]]
    /\ UNCHANGED <<controls, log, floor, poller, display, writing, silent, executed>>

\* The process dies with its memory, perhaps with a change nobody will hear of.
Crash(s) ==
    /\ s \in Mortal /\ life[s] \in {"on", "closed"}
    /\ life' = Set(life, s, "dead")
    /\ writing' = Set(writing, s, NoNews)
    /\ silent' = (silent \/ writing[s] # NoNews)
    /\ stage' = Set(stage, s, "wait") /\ cursor' = Set(cursor, s, 0)
    /\ pending' = Set(pending, s, FALSE) /\ changed' = Set(changed, s, FALSE)
    /\ batch' = Set(batch, s, {})
    /\ handler' = Set(handler, s, FALSE)
    /\ notified' = Set(notified, s, FALSE) /\ reading' = Set(reading, s, FALSE)
    /\ outdated' = Set(outdated, s, FALSE) /\ watching' = Set(watching, s, FALSE)
    /\ UNCHANGED <<tables, executed>>

BeginTask(t, s) ==
    /\ life[s] = "on" /\ task[t] = NoTask
    /\ task' = Set(task, t, [session |-> s, state |-> "running"])
    /\ UNCHANGED <<row, controls, command, log, floor, poller, display, life,
                   writing, silent, executed>>

\* "finished" or "failed", whatever the row says by now, "interrupted" included.
EndTask(t, s) ==
    /\ life[s] = "on" /\ task[t].session = s
    /\ task[t].state \in {"running", "interrupted"}
    /\ task' = [task EXCEPT ![t].state = "finished"]
    /\ UNCHANGED <<row, controls, command, log, floor, poller, display, life,
                   writing, silent, executed>>

-----------------------------------------------------------------------------
(* Files and events. *)

\* A file of a project, or the configuration, is replaced...
Write(s, about) ==
    /\ life[s] = "on" /\ writing[s] = NoNews
    /\ writing' = Set(writing, s, about)
    /\ outdated' = [r \in Session |->
          \/ outdated[r]
          \/ r \in Interface \ {s} /\ about \in {ProjectOf[r], Everything}]
    /\ UNCHANGED <<tables, poller, handler, notified, reading, watching, life, silent, executed>>

\* ...and then announced; a failure to publish is reported and forgotten.
Publish(s) ==
    /\ life[s] = "on" /\ writing[s] # NoNews
    /\ writing' = Set(writing, s, NoNews)
    /\ \/ /\ Len(log) < MaxEvents
          /\ log' = Append(log, [session |-> s, about |-> writing[s]])
          /\ UNCHANGED silent
       \/ silent' = TRUE /\ UNCHANGED log
    /\ UNCHANGED <<row, controls, task, command, floor, poller, display, life, executed>>

\* Sessions, tasks and plugins publish much more, and so do other users.
PublishOther(s) ==
    /\ s # Stranger => life[s] = "on"
    /\ Len(log) < MaxEvents
    /\ log' = Append(log, [session |-> s, about |-> NoNews])
    /\ UNCHANGED <<row, controls, task, command, floor, poller, display, life,
                   writing, silent, executed>>

-----------------------------------------------------------------------------
(* poll.  A session without an interface reads the events for observers of   *)
(* plugins only, which is left out.                                          *)

\* Nothing is updated when the row is gone.
Heartbeat(s) == IF row[s] = "none" THEN UNCHANGED <<row, controls>>
                ELSE row' = Set(row, s, "fresh") /\ controls' = Set(controls, s, handler'[s])

Beat(s) ==
    /\ life[s] = "on" /\ stage[s] = "wait"
    /\ UNCHANGED display
    /\ Heartbeat(s)
    /\ stage' = Set(stage, s, IF s \in Interface THEN "read" ELSE "done")
    /\ UNCHANGED <<task, command, log, floor, cursor, pending, changed, batch, life,
                   writing, silent, executed>>

Unread(s) == {n \in Retained : n > cursor[s]}
\* The first of them, up to the limit of one query.
Page(s) == {n \in Unread(s) : Cardinality({m \in Unread(s) : m <= n}) <= BatchLimit}
\* A number is missing before this one: events were deleted, or were not ours.
AfterGap(n, s) == n - 1 \notin Page(s) \cup {cursor[s]}

\* Fault: the cursor is left behind the last event that was read.
ReadSkips(s) ==
    /\ life[s] # "dead" /\ stage[s] = "read"
    /\ changed' = Set(changed, s, pending[s] \/ \E n \in Page(s) : AfterGap(n, s) \/ Concerns(n, s))
    /\ cursor' = Set(cursor, s, Largest(Page(s) \cup {cursor[s]}) + 1)
    /\ stage' = Set(stage, s, "tell")
    /\ UNCHANGED <<tables, pending, batch, display, life, writing, silent, executed>>

Read(s) ==
    /\ life[s] # "dead" /\ stage[s] = "read"
    /\ changed' = Set(changed, s, pending[s] \/ \E n \in Page(s) : AfterGap(n, s) \/ Concerns(n, s))
    /\ cursor' = Set(cursor, s, Largest(Page(s) \cup {cursor[s]}))
    /\ stage' = Set(stage, s, "tell")
    /\ UNCHANGED <<tables, pending, batch, display, life, writing, silent, executed>>

\* Fault: a notification that fails is not kept for the next poll.
TellForgets(s) ==
    /\ life[s] # "dead" /\ stage[s] = "tell"
    /\ changed' = Set(changed, s, FALSE)
    /\ \/ /\ ~handler[s]
          /\ stage' = Set(stage, s, "done") /\ UNCHANGED <<pending, notified>>
       \/ /\ handler[s] /\ ~changed[s]
          /\ stage' = Set(stage, s, "claim") /\ UNCHANGED <<pending, notified>>
       \/ /\ handler[s] /\ changed[s]
          /\ notified' = Set(notified, s, TRUE)
          /\ stage' = Set(stage, s, "claim") /\ pending' = Set(pending, s, FALSE)
       \/ /\ handler[s] /\ changed[s]
          /\ stage' = Set(stage, s, "wait") /\ UNCHANGED <<pending, notified>>
    /\ UNCHANGED <<tables, cursor, batch, handler, reading, outdated, watching, life,
                   writing, silent, executed>>

\* Without a handler the news is dropped.  A handler that raises ends the poll.
Tell(s) ==
    /\ life[s] # "dead" /\ stage[s] = "tell"
    /\ changed' = Set(changed, s, FALSE)
    /\ \/ /\ ~handler[s]
          /\ stage' = Set(stage, s, "done") /\ UNCHANGED <<pending, notified>>
       \/ /\ handler[s] /\ ~changed[s]
          /\ stage' = Set(stage, s, "claim") /\ UNCHANGED <<pending, notified>>
       \/ /\ handler[s] /\ changed[s]
          /\ notified' = Set(notified, s, TRUE)
          /\ stage' = Set(stage, s, "claim") /\ pending' = Set(pending, s, FALSE)
       \/ /\ handler[s] /\ changed[s]
          /\ stage' = Set(stage, s, "wait") /\ pending' = Set(pending, s, TRUE)
          /\ UNCHANGED notified
    /\ UNCHANGED <<tables, cursor, batch, handler, reading, outdated, watching, life,
                   writing, silent, executed>>

Claimable(s) == {c \in Command : /\ command[c].target = s
                                 /\ command[c].state = "queued" /\ ~command[c].aged}

\* Fault: what is claimed stays in the queue.
ClaimLeaves(s) ==
    /\ life[s] # "dead" /\ stage[s] = "claim"
    /\ batch' = Set(batch, s, Claimable(s))
    /\ stage' = Set(stage, s, IF Claimable(s) = {} THEN "done" ELSE "run")
    /\ UNCHANGED <<tables, cursor, pending, changed, display, life, writing, silent, executed>>

Claim(s) ==
    /\ life[s] # "dead" /\ stage[s] = "claim"
    /\ command' = [c \in Command |-> IF c \in Claimable(s)
                                     THEN [command[c] EXCEPT !.state = "delivered"]
                                     ELSE command[c]]
    /\ batch' = Set(batch, s, Claimable(s))
    /\ stage' = Set(stage, s, IF Claimable(s) = {} THEN "done" ELSE "run")
    /\ UNCHANGED <<row, controls, task, log, floor, cursor, pending, changed, display,
                   life, writing, silent, executed>>

\* The handler and the acknowledgement.  What is left of the batch is given up
\* when either raises ("none": it was the acknowledgement).
Run(s) ==
    /\ life[s] # "dead" /\ stage[s] = "run"
    /\ \E c \in batch[s], answer \in {"accepted", "failed", "none"} :
          /\ handler[s] \/ answer # "accepted"
          /\ command' = IF command[c].state = "purged" \/ answer = "none" THEN command
                        ELSE [command EXCEPT ![c].state = answer]
          /\ executed' = [executed EXCEPT ![c] = IF handler[s] THEN @ + 1 ELSE @]
          /\ IF answer = "accepted"
             THEN /\ batch' = Set(batch, s, batch[s] \ {c})
                  /\ stage' = Set(stage, s, IF batch[s] = {c} THEN "done" ELSE "run")
             ELSE batch' = Set(batch, s, {}) /\ stage' = Set(stage, s, "wait")
    /\ UNCHANGED <<row, controls, task, log, floor, cursor, pending, changed, display,
                   life, writing, silent>>

\* After every thirtieth poll that raised nothing.
Maintain(s) ==
    /\ life[s] # "dead" /\ stage[s] = "done"
    /\ Maintained(row)
    /\ stage' = Set(stage, s, "wait")
    /\ UNCHANGED <<controls, log, cursor, pending, changed, batch, display, life,
                   writing, silent, executed>>

EndPoll(s) ==
    /\ life[s] # "dead" /\ stage[s] = "done"
    /\ stage' = Set(stage, s, "wait")
    /\ UNCHANGED <<tables, cursor, pending, changed, batch, display, life, writing,
                   silent, executed>>

-----------------------------------------------------------------------------
(* The interface: RootInterfaceAgent and the loops of the GUI and the TUIs. *)

\* LANIP beats at once, LANWIRE leaves that to the next poll.
Install(s) ==
    /\ life[s] = "on" /\ s \in Interface /\ ~handler[s]
    /\ handler' = Set(handler, s, TRUE)
    /\ Heartbeat(s) \/ UNCHANGED <<row, controls>>
    /\ UNCHANGED <<task, command, log, floor, poller, notified, reading, outdated,
                   watching, life, writing, silent, executed>>

Uninstall(s) ==
    /\ life[s] = "on" /\ handler[s]
    /\ handler' = Set(handler, s, FALSE)
    /\ watching' = Set(watching, s, FALSE)
    /\ Heartbeat(s) \/ UNCHANGED <<row, controls>>
    /\ UNCHANGED <<task, command, log, floor, poller, notified, reading, outdated,
                   life, writing, silent, executed>>

\* Told or not (it may be the user who asks), the interface takes the notice down
\* and then reads the files.  It may do so again when there is nothing new to it:
\* that changes nothing and is left out.
Reload(s) ==
    /\ life[s] = "on" /\ s \in Interface /\ ~reading[s]
    /\ notified[s] \/ outdated[s] \/ (handler[s] /\ ~watching[s])
    /\ notified' = Set(notified, s, FALSE)
    /\ reading' = Set(reading, s, TRUE)
    /\ UNCHANGED <<tables, poller, handler, outdated, watching, life, writing, silent, executed>>

ReadFiles(s) ==
    /\ life[s] = "on" /\ reading[s]
    /\ reading' = Set(reading, s, FALSE)
    /\ outdated' = Set(outdated, s, FALSE)
    /\ watching' = Set(watching, s, handler[s])
    /\ UNCHANGED <<tables, poller, handler, notified, life, writing, silent, executed>>

-----------------------------------------------------------------------------
Poll(s) == Beat(s) \/ Read(s) \/ Tell(s) \/ Claim(s) \/ Run(s) \/ Maintain(s) \/ EndPoll(s)
Show(s) == Install(s) \/ Uninstall(s) \/ Reload(s) \/ ReadFiles(s)
Lifetime(s) == Start(s) \/ Close(s) \/ Crash(s) \/ Age(s)
Writes(s) == Publish(s) \/ \E about \in Changes : Write(s, about)

Next ==
    \/ \E s \in Session : Lifetime(s) \/ Poll(s) \/ Show(s) \/ Writes(s)
    \/ \E s \in Talkers : PublishOther(s)
    \/ \E t \in Task, s \in Session : BeginTask(t, s) \/ EndTask(t, s)
    \/ \E c \in Command : Wait(c) \/ \E s \in Session : Enqueue(c, s)

Spec == Init /\ [][Next]_vars

\* Threads poll, time passes, and one poll in thirty that ends maintains.
FairSpec ==
    /\ Spec
    /\ \A s \in Session : WF_vars(Poll(s)) /\ SF_vars(Maintain(s)) /\ WF_vars(Age(s))
    /\ \A c \in Command : WF_vars(Wait(c))

-----------------------------------------------------------------------------
\* What each variable may hold; no session is ahead of the events.
TypeOK ==
    /\ row \in [Session -> {"none", "fresh", "stale", "old"}]
    /\ controls \in [Session -> BOOLEAN]
    /\ task \in [Task -> [session : Session \cup {Stranger},
          state : {"none", "running", "finished", "interrupted", "purged"}]]
    /\ command \in [Command -> [target : Session \cup {Stranger},
          state : {"none", "queued", "delivered", "accepted", "failed", "expired", "purged"},
          aged : BOOLEAN]]
    /\ log \in Seq([session : Session \cup {Stranger}, about : Project \cup {Everything, NoNews}])
    /\ Len(log) <= MaxEvents /\ floor \in 0..Len(log)
    /\ life \in [Session -> {"off", "on", "closed", "dead"}]
    /\ stage \in [Session -> {"wait", "read", "tell", "claim", "run", "done"}]
    /\ cursor \in [Session -> 0..Len(log)]
    /\ pending \in [Session -> BOOLEAN] /\ changed \in [Session -> BOOLEAN]
    /\ batch \in [Session -> SUBSET Command]
    /\ handler \in [Session -> BOOLEAN]
    /\ notified \in [Session -> BOOLEAN] /\ reading \in [Session -> BOOLEAN]
    /\ writing \in [Session -> Project \cup {Everything, NoNews}]
    /\ outdated \in [Session -> BOOLEAN] /\ watching \in [Session -> BOOLEAN]
    /\ silent \in BOOLEAN
    /\ executed \in [Command -> Nat]

\* News of this session's files is still on its way to it.
Announced(s) ==
    \/ \E r \in Session \ {s} : writing[r] \in {ProjectOf[s], Everything}
    \/ \E n \in Unread(s) : Concerns(n, s)
    \/ floor > cursor[s]            \* it will find a gap
    \/ changed[s] \/ pending[s]     \* its poll knows
    \/ notified[s] \/ reading[s]    \* its interface knows

\* An interface that has read its files since it began to listen never shows old
\* ones with nothing on the way to tell it so.
NoLostRefresh ==
    \A s \in Session : life[s] = "on" /\ watching[s] /\ outdated[s] /\ ~silent => Announced(s)

\* No command is handled twice, nor handled and reported as expired.
ExecutedOnce ==
    \A c \in Command :
        /\ executed[c] <= 1
        /\ executed[c] = 1 => command[c].state \notin {"none", "queued", "expired"}

\* A command goes through its states in one direction, and only once.
Follows == [none |-> {"queued"}, queued |-> {"delivered", "expired"},
            delivered |-> {"accepted", "failed", "purged"},
            accepted |-> {"purged"}, failed |-> {"purged"}, expired |-> {"purged"},
            purged |-> {}]

CommandLifecycle ==
    [][\A c \in Command : command'[c].state # command[c].state =>
          command'[c].state \in Follows[command[c].state]]_vars

\* A session that was closed leaves no running task and no command waiting.
ClosedIsSettled ==
    \A s \in Session : life[s] = "closed" =>
        /\ \A t \in Task : task[t].session = s => task[t].state # "running"
        /\ \A c \in Command : command[c].target = s => command[c].state # "queued"

\* Some session stays, and its polls get through.
Survivor == \E s \in Session : <>[](life[s] = "on") /\ []<>(stage[s] = "done")

\* While there is one, every command is delivered or expires, though its target die;
CommandsEnd ==
    Survivor => \A c \in Command : command[c].state = "queued" ~> command[c].state # "queued"

\* and no task of a dead process is shown as running for ever.
OrphansInterrupted ==
    Survivor => \A t \in Task, s \in Session :
        (life[s] = "dead" /\ task[t] = [session |-> s, state |-> "running"])
           ~> task[t].state # "running"

-----------------------------------------------------------------------------
\* "Una sesión que se reanuda tras una pausa recupera su heartbeat": a session
\* that beats is available again.  Refuted: after a day its row is gone.
ResumedIsAvailable == [][\A s \in Session : Beat(s) => row'[s] = "fresh"]_vars
=============================================================================
