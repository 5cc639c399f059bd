------------------------------- MODULE FileLock -------------------------------
(***************************************************************************)
(* core/file_transaction.py: InterProcessLock on one path.  A thread takes *)
(* the RLock its process keeps for the path, then, unless it is nested in  *)
(* itself, the lock of the operating system on the lock file.  Both waits  *)
(* share one deadline.  _HELD_LOCKS counts, per thread, how often the path *)
(* is held.                                                                 *)
(*                                                                         *)
(* flock (msvcrt.locking) locks an open file, so two threads of a process  *)
(* exclude each other by it too; a process that dies loses it.  The table  *)
(* of RLocks is weak: one that no thread uses any more is made anew.       *)
(***************************************************************************)
EXTENDS Naturals

CONSTANTS
    Process, Thread,
    ProcessOf,      \* the process of a thread
    Main,           \* the threads that KeyboardInterrupt is raised in
    Nobody,
    MaxDepth,       \* bound: nested acquisitions
    MaxInterrupts   \* bound: interrupted acquisitions of a thread

ASSUME LockAssumption ==
    /\ ProcessOf \in [Thread -> Process]
    /\ Nobody \notin Thread
    /\ Main \subseteq Thread
    /\ MaxDepth \in Nat \ {0}
    /\ MaxInterrupts \in Nat

VARIABLES
    local,      \* process -> its RLock: the thread that owns it and how often
    os,         \* the thread whose open file has the lock
    held,       \* _HELD_LOCKS: thread -> how often it holds the path
    leaked,     \* ghost: acquisitions of its RLock that a thread has lost
    pc          \* thread -> "run", or where it is in acquire or release

vars == <<local, os, held, leaked, pc>>

Free == [owner |-> Nobody, count |-> 0]
RLock(t) == local[ProcessOf[t]]
At(t, label) == pc[t] = label
Goto(t, label) == pc' = [pc EXCEPT ![t] = label]

\* RLock.release
Released(t) ==
    LET lock == RLock(t)
    IN [local EXCEPT ![ProcessOf[t]] =
           IF lock.count = 1 THEN Free ELSE [lock EXCEPT !.count = @ - 1]]

Init ==
    /\ local = [p \in Process |-> Free]
    /\ os = Nobody
    /\ held = [t \in Thread |-> 0]
    /\ leaked = [t \in Thread |-> 0]
    /\ pc = [t \in Thread |-> "run"]

-----------------------------------------------------------------------------
(* acquire *)

\* From outside, or from inside a block that holds the path already.
Call(t) ==
    /\ At(t, "run") /\ held[t] < MaxDepth
    /\ Goto(t, "local")
    /\ UNCHANGED <<local, os, held, leaked>>

\* Fault: the thread is taken for nested as soon as its process has the lock.
AcquireLocalUnchecked(t) ==
    /\ At(t, "local")
    /\ local' = [local EXCEPT ![ProcessOf[t]] = [owner |-> t, count |-> @.count + 1]]
    /\ IF \E u \in Thread : ProcessOf[u] = ProcessOf[t] /\ held[u] > 0
       THEN held' = [held EXCEPT ![t] = @ + 1] /\ Goto(t, "run")
       ELSE Goto(t, "os") /\ UNCHANGED held
    /\ UNCHANGED <<os, leaked>>

\* RLock.acquire; then the path is counted once more, or its file is locked.
AcquireLocal(t) ==
    /\ At(t, "local") /\ RLock(t).owner \in {Nobody, t}
    /\ local' = [local EXCEPT ![ProcessOf[t]] = [owner |-> t, count |-> @.count + 1]]
    /\ IF held[t] > 0
       THEN held' = [held EXCEPT ![t] = @ + 1] /\ Goto(t, "run")
       ELSE Goto(t, "os") /\ UNCHANGED held
    /\ UNCHANGED <<os, leaked>>

LocalTimeout(t) ==
    /\ At(t, "local") /\ RLock(t).owner \notin {Nobody, t}
    /\ Goto(t, "run")
    /\ UNCHANGED <<local, os, held, leaked>>

\* Fault: the file is locked in shared mode.
AcquireOsShared(t) ==
    /\ At(t, "os")
    /\ os' = t
    /\ held' = [held EXCEPT ![t] = 1]
    /\ Goto(t, "run")
    /\ UNCHANGED <<local, leaked>>

\* The poll finds the file unlocked; the path is counted.
AcquireOs(t) ==
    /\ At(t, "os") /\ os = Nobody
    /\ os' = t
    /\ held' = [held EXCEPT ![t] = 1]
    /\ Goto(t, "run")
    /\ UNCHANGED <<local, leaked>>

\* The deadline, or any Exception of mkdir, open or write.
OsTimeout(t) ==
    /\ At(t, "os")
    /\ local' = Released(t)
    /\ Goto(t, "run")
    /\ UNCHANGED <<os, held, leaked>>

\* KeyboardInterrupt in the poll is no Exception: the RLock is not released.
Interrupt(t) ==
    /\ At(t, "os") /\ t \in Main /\ leaked[t] < MaxInterrupts
    /\ leaked' = [leaked EXCEPT ![t] = @ + 1]
    /\ Goto(t, "run")
    /\ UNCHANGED <<local, os, held>>

-----------------------------------------------------------------------------
(* release, in the order of the with blocks *)

ReleaseNested(t) ==
    /\ At(t, "run") /\ held[t] > 1
    /\ held' = [held EXCEPT ![t] = @ - 1]
    /\ local' = Released(t)
    /\ UNCHANGED <<os, leaked, pc>>

ReleaseOs(t) ==
    /\ At(t, "run") /\ held[t] = 1
    /\ os' = Nobody
    /\ Goto(t, "unlocked")
    /\ UNCHANGED <<local, held, leaked>>

\* The thread is counted out, and only then another of its process may go on.
ReleaseLocal(t) ==
    /\ At(t, "unlocked")
    /\ held' = [held EXCEPT ![t] = 0]
    /\ local' = Released(t)
    /\ Goto(t, "run")
    /\ UNCHANGED <<os, leaked>>

Members(p) == {t \in Thread : ProcessOf[t] = p}
NoLeaks(p) == [t \in Thread |-> IF t \in Members(p) THEN 0 ELSE leaked[t]]

\* The RLock is referred to by locks that threads hold or wait for, no others.
Collect(p) ==
    /\ \A t \in Members(p) : At(t, "run") /\ held[t] = 0
    /\ local' = [local EXCEPT ![p] = Free]
    /\ leaked' = NoLeaks(p)
    /\ UNCHANGED <<os, held, pc>>

\* The process dies.  (Its threads then stand for those of its successor.)
Die(p) ==
    /\ local' = [local EXCEPT ![p] = Free]
    /\ os' = IF os \in Members(p) THEN Nobody ELSE os
    /\ held' = [t \in Thread |-> IF t \in Members(p) THEN 0 ELSE held[t]]
    /\ leaked' = NoLeaks(p)
    /\ pc' = [t \in Thread |-> IF t \in Members(p) THEN "run" ELSE pc[t]]

Acquires(t) == \/ Call(t) \/ AcquireLocal(t) \/ LocalTimeout(t)
               \/ AcquireOs(t) \/ OsTimeout(t) \/ Interrupt(t)
Releases(t) == ReleaseNested(t) \/ ReleaseOs(t) \/ ReleaseLocal(t)

Next == \/ \E t \in Thread : Acquires(t) \/ Releases(t)
        \/ \E p \in Process : Collect(p) \/ Die(p)

Spec == Init /\ [][Next]_vars

-----------------------------------------------------------------------------
\* What each variable may hold.
TypeOK ==
    /\ local \in [Process -> [owner : Thread \cup {Nobody}, count : Nat]]
    /\ os \in Thread \cup {Nobody}
    /\ held \in [Thread -> 0..MaxDepth]
    /\ leaked \in [Thread -> 0..MaxInterrupts]
    /\ pc \in [Thread -> {"run", "local", "os", "unlocked"}]

\* How often a thread has its RLock: lost acquisitions count until it is collected.
Due(t) == leaked[t] + IF At(t, "os") THEN 1 ELSE held[t]

\* The three records of who holds the path agree: a thread that is counted, or
\* waits for the file, owns the RLock of its process exactly so often; and the
\* file is locked by the thread that is counted, until it has unlocked it.
Agrees(t) ==
    /\ Due(t) > 0 => RLock(t) = [owner |-> t, count |-> Due(t)]
    /\ RLock(t).owner = Nobody => RLock(t) = Free
    /\ RLock(t).owner = t => Due(t) > 0
    /\ os = t <=> held[t] > 0 /\ ~At(t, "unlocked")
    /\ At(t, "os") => held[t] = 0
    /\ At(t, "unlocked") => held[t] = 1
    /\ At(t, "local") => held[t] < MaxDepth

LockInv == TypeOK /\ \A t \in Thread : Agrees(t)

\* Inside a with block: counted, and not on the way out.
Inside(t) == held[t] > 0 /\ ~At(t, "unlocked")
Insider == IF \E t \in Thread : Inside(t) THEN CHOOSE t \in Thread : Inside(t) ELSE Nobody

\* No two threads, of one process or of two, are inside at the same time.
MutualExclusion == \A t, u \in Thread : Inside(t) /\ Inside(u) => t = u

Abstract == INSTANCE Mutex WITH inside <- Insider

\* One thread at a time is inside, and leaves before another enters.
IsMutex == Abstract!MutexSpec
=============================================================================
