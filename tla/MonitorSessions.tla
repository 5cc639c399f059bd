----------------------------- MODULE MonitorSessions -----------------------------
(***************************************************************************)
(* apps/monitor/lifecycle.py, sessions.py, commands.py: the processes that  *)
(* want to be the monitor, the lock file that lets one of them, the table   *)
(* of sessions, and the commands that start, stop and restart it or measure *)
(* by themselves.  Looking whether a session is active, and saving one, are *)
(* two statements; the lock file is created, and then written.              *)
(*                                                                         *)
(* A process is meant with the time it was created, so that a number used   *)
(* again is another process.  What the monitor does meanwhile is in module  *)
(* Monitor; reports, measurements and the configuration are left out.       *)
(***************************************************************************)
EXTENDS Integers, Sequences, FiniteSets

CONSTANTS
    MonitorProcess,
    Admin,              \* commands that may run at the same time
    NoLock, Gone,
    MaxSessions, MaxLaunches, MaxCommands   \* bounds

ASSUME MonitorSessionsAssumption ==
    /\ NoLock \notin MonitorProcess /\ Gone \notin MonitorProcess
    /\ NoLock \notin [of : MonitorProcess \cup {Gone}, written : BOOLEAN]
    /\ {MaxSessions, MaxLaunches, MaxCommands} \subseteq Nat

VARIABLES
    sessionRows,    \* the table: status of each session in the order they began, and whether it expires
    lockFile,       \* which process has created it, and whether it has been written
    monitor,        \* of a process: where it is, its session, what it has read of the lock file,
                    \* whether it was asked to stop, and whether its service has a scheduler
    admin,          \* where a command is, and its session
    launches, commands,     \* for the bounds
    raced           \* ghost: a lock file of a process that lives was removed, not the one that
                    \* was judged, or not written yet

sessionsVars == <<sessionRows, lockFile, monitor, admin, launches, commands, raced>>
countVars == <<launches, commands>>
commandVars == <<admin, launches, commands, raced>>

Ended == {"completed", "cancelled", "error", "expired"}

\* SessionRepository.active: the newest of those that have not ended.
ActiveRows == {i \in 1..Len(sessionRows) : sessionRows[i].status = "active"}
Newest == CHOOSE i \in ActiveRows : \A j \in ActiveRows : j <= i

Marked(i, status) == sessionRows' = [sessionRows EXCEPT ![i].status = status]
MarksNewest(status) == IF ActiveRows = {} THEN UNCHANGED sessionRows ELSE Marked(Newest, status)

\* SessionManager.start, once no session was found.
Begins(limited) ==
    /\ Len(sessionRows) < MaxSessions
    /\ sessionRows' = Append(sessionRows, [status |-> "active", limited |-> limited])

Off == [at |-> "off", serves |-> 0, read |-> NoLock, stop |-> FALSE, checking |-> FALSE]

Lives(p) == p \in MonitorProcess /\ monitor[p].at # "off"
Written == lockFile # NoLock /\ lockFile.written

\* SingletonLock.status: the process that is noted is still there.
Locked == Written /\ Lives(lockFile.of)

At(p, step) == monitor[p].at = step
Goes(p, step) == monitor' = [monitor EXCEPT ![p].at = step]
Quits(p) == monitor' = [monitor EXCEPT ![p] = Off]

\* A monitor may have died before.
MonitorSessionsInit ==
    /\ sessionRows \in {<< >>, <<[status |-> "active", limited |-> FALSE]>>}
    /\ lockFile \in {NoLock, [of |-> Gone, written |-> TRUE]}
    /\ monitor = [p \in MonitorProcess |-> Off]
    /\ admin = [c \in Admin |-> [at |-> "idle", session |-> 0]]
    /\ launches = 0 /\ commands = 0 /\ raced = FALSE

-----------------------------------------------------------------------------
(* _run_foreground: the session *)

\* A process is started: by a user, by the service manager, by a command.
Spawned(p) ==
    /\ launches < MaxLaunches /\ launches' = launches + 1
    /\ At(p, "off") /\ Goes(p, "new")

Launch(p) == Spawned(p) /\ UNCHANGED <<sessionRows, lockFile, admin, commands, raced>>

\* It takes the session that is active, or else begins one.
TakeSession(p) ==
    /\ At(p, "new")
    /\ IF ActiveRows = {} THEN Goes(p, "begins")
       ELSE monitor' = [monitor EXCEPT ![p].at = "locks", ![p].serves = Newest]
    /\ UNCHANGED <<sessionRows, lockFile, commandVars>>

\* SessionManager.start refuses when there is one by now.
CheckOwn(p) ==
    /\ At(p, "begins") /\ IF ActiveRows = {} THEN Goes(p, "saves") ELSE Quits(p)
    /\ UNCHANGED <<sessionRows, lockFile, commandVars>>

SaveOwn(p) ==
    /\ At(p, "saves") /\ Begins(FALSE)
    /\ monitor' = [monitor EXCEPT ![p].at = "locks", ![p].serves = Len(sessionRows')]
    /\ UNCHANGED <<lockFile, commandVars>>

-----------------------------------------------------------------------------
(* SingletonLock.acquire *)

CreateLock(p) ==
    /\ At(p, "locks")
    /\ IF lockFile = NoLock THEN Goes(p, "writes") /\ lockFile' = [of |-> p, written |-> FALSE]
                            ELSE Goes(p, "reads") /\ UNCHANGED lockFile
    /\ UNCHANGED <<sessionRows, commandVars>>

\* Fault: whoever is noted is taken for gone.
ReadLockUnchecked(p) ==
    /\ At(p, "reads") /\ monitor' = [monitor EXCEPT ![p].at = "removes", ![p].read = lockFile]
    /\ UNCHANGED <<sessionRows, lockFile, commandVars>>

\* The owner that is noted lives: an error, which ends this process and leaves its session.
ReadLock(p) ==
    /\ At(p, "reads")
    /\ IF Locked THEN Quits(p)
                 ELSE monitor' = [monitor EXCEPT ![p].at = "removes", ![p].read = lockFile]
    /\ UNCHANGED <<sessionRows, lockFile, commandVars>>

\* Whatever file is there by now.
RemoveLock(p) ==
    /\ At(p, "removes") /\ lockFile' = NoLock
    /\ raced' = (raced \/ /\ lockFile # NoLock /\ Lives(lockFile.of)
                          /\ lockFile # monitor[p].read \/ ~lockFile.written)
    /\ monitor' = [monitor EXCEPT ![p].at = "locks", ![p].read = NoLock]
    /\ UNCHANGED <<sessionRows, admin, countVars>>

\* Into the file it has created, which may have been removed.
WriteLock(p) ==
    /\ At(p, "writes") /\ Goes(p, "owns")
    /\ lockFile' = IF lockFile # NoLock /\ lockFile.of = p THEN [lockFile EXCEPT !.written = TRUE]
                                                           ELSE lockFile
    /\ UNCHANGED <<sessionRows, commandVars>>

-----------------------------------------------------------------------------
(* MonitorService, under the lock *)

\* start: the session is active, whatever it has become; it may fail.
StartService(p) ==
    /\ At(p, "owns")
    /\ \/ /\ monitor' = [monitor EXCEPT ![p].at = "runs", ![p].checking = TRUE]
          /\ Marked(monitor[p].serves, "active")
       \/ Goes(p, "releases") /\ UNCHANGED sessionRows
    /\ UNCHANGED <<lockFile, commandVars>>

\* cycle: the session has expired.  The process stays.
ExpireSession(p) ==
    /\ At(p, "runs") /\ monitor[p].checking /\ ActiveRows # {} /\ sessionRows[Newest].limited
    /\ Marked(Newest, "expired") /\ monitor' = [monitor EXCEPT ![p].checking = FALSE]
    /\ UNCHANGED <<lockFile, commandVars>>

\* After the event, or an error, which is saved with the status the process has in mind.
LeaveLoop(p) ==
    /\ At(p, "runs")
    /\ \/ monitor[p].stop /\ Goes(p, "cancels") /\ UNCHANGED sessionRows
       \/ Goes(p, "fails") /\ Marked(monitor[p].serves, "active")
    /\ UNCHANGED <<lockFile, commandVars>>

\* stop: the session that is active ends, whose ever it is.
EndSession(p) ==
    /\ \/ At(p, "cancels") /\ MarksNewest("cancelled")
       \/ At(p, "fails") /\ MarksNewest("error")
    /\ monitor' = [monitor EXCEPT ![p].at = "releases", ![p].checking = FALSE]
    /\ UNCHANGED <<lockFile, commandVars>>

\* release: only the lock that is its own.
ReleaseLock(p) ==
    /\ At(p, "releases") /\ Quits(p)
    /\ lockFile' = IF Written /\ lockFile.of = p THEN NoLock ELSE lockFile
    /\ UNCHANGED <<sessionRows, commandVars>>

\* It dies, or is ended by the system; its lock stays, and names nobody.
Dies(p) ==
    /\ ~At(p, "off") /\ Quits(p)
    /\ lockFile' = IF lockFile # NoLock /\ lockFile.of = p THEN [lockFile EXCEPT !.of = Gone] ELSE lockFile

KillMonitor(p) == Dies(p) /\ UNCHANGED <<sessionRows, commandVars>>

MonitorStep(p) ==
    \/ Launch(p) \/ TakeSession(p) \/ CheckOwn(p) \/ SaveOwn(p)
    \/ CreateLock(p) \/ ReadLock(p) \/ RemoveLock(p) \/ WriteLock(p)
    \/ StartService(p) \/ ExpireSession(p) \/ LeaveLoop(p) \/ EndSession(p) \/ ReleaseLock(p)
    \/ KillMonitor(p)

-----------------------------------------------------------------------------
(* Commands *)

Proceeds(c, from, to, session) ==
    /\ admin[c].at = from /\ admin' = [admin EXCEPT ![c] = [at |-> to, session |-> session]]
    /\ commands' = commands + (IF from = "idle" THEN 1 ELSE 0) /\ commands' <= MaxCommands

\* os.kill: the event is set; on Windows the process is ended.
Signals(p) ==
    \/ monitor' = [monitor EXCEPT ![p].stop = TRUE] /\ UNCHANGED lockFile
    \/ Dies(p)

\* start, attach; once and ping, which measure in a session of their own.
AskSession(c) ==
    /\ ActiveRows = {} /\ (Proceeds(c, "idle", "starts", 0) \/ Proceeds(c, "idle", "measures", 0))
    /\ UNCHANGED <<sessionRows, lockFile, monitor, launches, raced>>

\* The session is saved and the monitor started in a process of its own.
StartMonitor(c, limited) ==
    /\ Begins(limited) /\ Proceeds(c, "starts", "idle", 0)
    /\ \E p \in MonitorProcess : Spawned(p)
    /\ UNCHANGED <<lockFile, raced>>

BeginMeasuring(c, limited) ==
    /\ Begins(limited) /\ Proceeds(c, "measures", "measuring", Len(sessionRows'))
    /\ UNCHANGED <<lockFile, monitor, launches, raced>>

\* The row gets the status this command has in mind.
EndMeasuring(c) ==
    /\ Proceeds(c, "measuring", "idle", 0)
    /\ \E status \in {"completed", "cancelled"} : Marked(admin[c].session, status)
    /\ UNCHANGED <<lockFile, monitor, launches, raced>>

\* stop, detach: first the process, then the session.
StopMonitor(c) ==
    /\ Proceeds(c, "idle", "stops", 0)
    /\ IF Locked THEN Signals(lockFile.of) ELSE UNCHANGED <<lockFile, monitor>>
    /\ UNCHANGED <<sessionRows, launches, raced>>

CancelSession(c) ==
    /\ Proceeds(c, "stops", "idle", 0) /\ MarksNewest("cancelled")
    /\ UNCHANGED <<lockFile, monitor, launches, raced>>

\* restart: it waits for the lock, five seconds at most, then begins another session, if the
\* former one has ended.
RestartMonitor(c) ==
    /\ ActiveRows # {} /\ Locked /\ Proceeds(c, "idle", "restarts", 0) /\ Signals(lockFile.of)
    /\ UNCHANGED <<sessionRows, launches, raced>>

AfterRestart(c) ==
    /\ \/ ~Locked /\ ActiveRows = {} /\ Proceeds(c, "restarts", "starts", 0)
       \/ (Locked \/ ActiveRows # {}) /\ Proceeds(c, "restarts", "idle", 0)
    /\ UNCHANGED <<sessionRows, lockFile, monitor, launches, raced>>

\* The command is interrupted, and leaves what it has begun.
AdminDies(c) ==
    /\ admin[c].at # "idle" /\ Proceeds(c, admin[c].at, "idle", 0)
    /\ UNCHANGED <<sessionRows, lockFile, monitor, launches, raced>>

AdminStep(c) ==
    \/ AskSession(c) \/ EndMeasuring(c) \/ StopMonitor(c) \/ CancelSession(c)
    \/ RestartMonitor(c) \/ AfterRestart(c) \/ AdminDies(c)
    \/ \E limited \in BOOLEAN : StartMonitor(c, limited) \/ BeginMeasuring(c, limited)

MonitorSessionsNext ==
    \/ \E p \in MonitorProcess : MonitorStep(p)
    \/ \E c \in Admin : AdminStep(c)

MonitorSessionsSpec == MonitorSessionsInit /\ [][MonitorSessionsNext]_sessionsVars

-----------------------------------------------------------------------------
(* Properties *)

Lock == [of : MonitorProcess \cup {Gone}, written : BOOLEAN] \cup {NoLock}

MonitorSessionsTypeOK ==
    /\ sessionRows \in Seq([status : Ended \cup {"active"}, limited : BOOLEAN])
    /\ lockFile \in Lock
    /\ monitor \in [MonitorProcess ->
           [at : {"off", "new", "begins", "saves", "locks", "reads", "removes", "writes", "owns", "runs",
                  "cancels", "fails", "releases"},
            serves : 0..Len(sessionRows), read : Lock, stop : BOOLEAN, checking : BOOLEAN]]
    /\ \A p \in MonitorProcess : At(p, "runs") => monitor[p].serves > 0
    /\ admin \in [Admin -> [at : {"idle", "starts", "measures", "measuring", "stops", "restarts"},
                            session : 0..Len(sessionRows)]]
    /\ launches \in 0..MaxLaunches /\ commands \in 0..MaxCommands /\ raced \in BOOLEAN

\* One process is the monitor, whatever dies, is stopped or is restarted, unless the lock file
\* of a process that lives was removed: just created, or put in the place of the stale one.
\* (SingletonLock: "verifica PID y tiempo de creación del proceso".)
IsMonitor(p) == monitor[p].at \in {"owns", "runs", "cancels", "fails"}

OneMonitor == raced \/ \A p, q \in MonitorProcess : IsMonitor(p) /\ IsMonitor(q) => p = q
================================================================================
