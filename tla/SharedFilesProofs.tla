--------------------------- MODULE SharedFilesProofs ---------------------------
(***************************************************************************)
(* The components of SharedFiles, one section for each: the lock of a       *)
(* file, the migration of data, remote accounts, LANWIRE, remote servers,   *)
(* sequences of Wake-on-LAN; and their instance.                            *)
(***************************************************************************)
EXTENDS SharedFiles, FiniteSetTheorems, SequenceTheorems, TLAPS

-----------------------------------------------------------------------------
(* FileLock: the records of who holds a path agree, hence one thread at a   *)
(* time is inside, and entering and leaving implements Mutex.               *)

USE LockAssumption

Record == [owner : Thread \cup {Nobody}, count : Nat]

\* At the start no lock is held.
LEMMA InitLockInv == Init => LockInv
  BY DEF Init, LockInv, TypeOK, Due, RLock, Free, At, Agrees

\* The RLock of a thread that owns it, or that nobody owns, counts what is due.
LEMMA CountIsDue ==
  ASSUME LockInv, NEW t \in Thread
  PROVE  /\ ProcessOf[t] \in Process
         /\ RLock(t) \in Record
         /\ Due(t) \in Nat
         /\ leaked[t] \in Nat /\ held[t] \in Nat
         /\ RLock(t).owner \in {t, Nobody} => RLock(t).count = Due(t)
  <1>1. /\ ProcessOf[t] \in Process
        /\ RLock(t) \in Record
        /\ leaked[t] \in Nat /\ held[t] \in Nat
    BY DEF LockInv, TypeOK, RLock, Record
  <1>2. Due(t) \in Nat
    BY <1>1 DEF Due
  <1>3. CASE RLock(t).owner = t
    BY <1>1, <1>2, <1>3 DEF LockInv, Agrees
  <1>4. CASE RLock(t).owner = Nobody
    <2>1. ~(Due(t) > 0)
      BY <1>4 DEF LockInv, Agrees
    <2>2. RLock(t) = Free
      BY <1>4 DEF LockInv, Agrees
    <2>3. QED
      BY <1>1, <1>2, <2>1, <2>2 DEF Free
  <1>5. QED
    BY <1>1, <1>2, <1>3, <1>4

\* A step that sets the RLock of a thread sets it for the threads of its process.
LEMMA SetRLock ==
  ASSUME LockInv, NEW t \in Thread, NEW r \in Record,
         local' = [local EXCEPT ![ProcessOf[t]] = r]
  PROVE  /\ local' \in [Process -> Record]
         /\ \A u \in Thread : RLock(u)' = IF ProcessOf[u] = ProcessOf[t] THEN r ELSE RLock(u)
  BY DEF LockInv, TypeOK, RLock, Record

\* RLock.release takes one from the count.
LEMMA ReleasedLock ==
  ASSUME LockInv, NEW t \in Thread, RLock(t).owner = t, local' = Released(t)
  PROVE  /\ local' \in [Process -> Record]
         /\ RLock(t)' = IF Due(t) = 1 THEN Free ELSE [owner |-> t, count |-> Due(t) - 1]
         /\ \A u \in Thread : RLock(u)' = IF ProcessOf[u] = ProcessOf[t] THEN RLock(t)'
                                                                        ELSE RLock(u)
  <1> DEFINE r == IF RLock(t).count = 1 THEN Free
                  ELSE [RLock(t) EXCEPT !.count = RLock(t).count - 1]
  <1>1. /\ RLock(t) \in Record /\ RLock(t).count = Due(t)
        /\ Due(t) \in Nat /\ Due(t) > 0
    BY CountIsDue DEF LockInv, Agrees
  <1>2. RLock(t) = [owner |-> t, count |-> Due(t)]
    BY <1>1 DEF LockInv, Agrees
  <1>3. r = IF Due(t) = 1 THEN Free ELSE [owner |-> t, count |-> Due(t) - 1]
    BY <1>1, <1>2
  <1>4. r \in Record
    BY <1>1, <1>3 DEF Record, Free
  <1>5. local' = [local EXCEPT ![ProcessOf[t]] = r]
    BY DEF Released, RLock
  <1> HIDE DEF r
  <1>6. /\ local' \in [Process -> Record]
        /\ \A u \in Thread : RLock(u)' = IF ProcessOf[u] = ProcessOf[t] THEN r ELSE RLock(u)
    BY <1>4, <1>5, SetRLock
  <1>7. QED
    BY <1>3, <1>6

(* One lemma for each action: the acting thread, then the others. *)

LEMMA CallKeeps == ASSUME LockInv, NEW t \in Thread, Call(t) PROVE LockInv'
  <1>1. TypeOK'
    BY DEF LockInv, TypeOK, Call, Goto, At, Due, RLock, Agrees
  <1>2. Agrees(t)'
    BY DEF LockInv, TypeOK, Call, Goto, At, Due, RLock, Agrees
  <1>3. ASSUME NEW u \in Thread \ {t} PROVE Agrees(u)'
    BY DEF LockInv, TypeOK, Call, Goto, At, Due, RLock, Agrees
  <1>4. QED
    BY <1>1, <1>2, <1>3 DEF LockInv

LEMMA LocalTimeoutKeeps == ASSUME LockInv, NEW t \in Thread, LocalTimeout(t) PROVE LockInv'
  <1>1. TypeOK'
    BY DEF LockInv, TypeOK, LocalTimeout, Goto, At, Due, RLock, Agrees
  <1>2. Agrees(t)'
    BY DEF LockInv, TypeOK, LocalTimeout, Goto, At, Due, RLock, Agrees
  <1>3. ASSUME NEW u \in Thread \ {t} PROVE Agrees(u)'
    BY DEF LockInv, TypeOK, LocalTimeout, Goto, At, Due, RLock, Agrees
  <1>4. QED
    BY <1>1, <1>2, <1>3 DEF LockInv

LEMMA AcquireOsKeeps == ASSUME LockInv, NEW t \in Thread, AcquireOs(t) PROVE LockInv'
  <1>1. TypeOK'
    BY DEF LockInv, TypeOK, AcquireOs, Goto, At, Due, RLock, Agrees
  <1>2. Agrees(t)'
    BY DEF LockInv, TypeOK, AcquireOs, Goto, At, Due, RLock, Agrees
  <1>3. ASSUME NEW u \in Thread \ {t} PROVE Agrees(u)'
    BY DEF LockInv, TypeOK, AcquireOs, Goto, At, Due, RLock, Agrees
  <1>4. QED
    BY <1>1, <1>2, <1>3 DEF LockInv

LEMMA InterruptKeeps == ASSUME LockInv, NEW t \in Thread, Interrupt(t) PROVE LockInv'
  <1>1. /\ leaked[t] \in Nat /\ held[t] = 0 /\ Due(t) = leaked[t] + 1 /\ Agrees(t)
        /\ leaked'[t] = leaked[t] + 1 /\ pc'[t] = "run"
    BY CountIsDue DEF Interrupt, LockInv, TypeOK, Agrees, At, Due, Goto
  <1>2. TypeOK'
    BY <1>1 DEF LockInv, TypeOK, Interrupt, Goto
  <1>3. RLock(t)' = RLock(t) /\ Due(t)' = Due(t) /\ held' = held /\ os' = os
    BY <1>1 DEF Interrupt, RLock, Due, At
  <1>4. Agrees(t)'
    BY <1>1, <1>3 DEF Agrees, At, Interrupt
  <1>5. ASSUME NEW u \in Thread \ {t} PROVE Agrees(u)'
    BY DEF LockInv, TypeOK, Interrupt, Goto, At, Due, RLock, Agrees
  <1>6. QED
    BY <1>2, <1>4, <1>5 DEF LockInv

LEMMA ReleaseOsKeeps == ASSUME LockInv, NEW t \in Thread, ReleaseOs(t) PROVE LockInv'
  <1>1. Agrees(t) /\ os = t /\ pc'[t] = "unlocked"
    BY DEF LockInv, TypeOK, Agrees, ReleaseOs, At, Goto
  <1>2. TypeOK'
    BY DEF LockInv, TypeOK, ReleaseOs, Goto
  <1>3. ASSUME NEW u \in Thread PROVE RLock(u)' = RLock(u) /\ Due(u)' = Due(u)
    BY <1>1 DEF LockInv, TypeOK, ReleaseOs, Goto, RLock, Due, At
  <1>4. Agrees(t)'
    BY <1>1, <1>3 DEF Agrees, ReleaseOs, At
  <1>5. ASSUME NEW u \in Thread \ {t} PROVE Agrees(u)'
    <2>1. Agrees(u) /\ pc'[u] = pc[u] /\ os # u /\ os' # u
      BY <1>1 DEF LockInv, TypeOK, ReleaseOs, Goto
    <2>2. QED
      BY <1>3, <2>1 DEF Agrees, ReleaseOs, At
  <1>6. QED
    BY <1>2, <1>4, <1>5 DEF LockInv

LEMMA AcquireLocalKeeps == ASSUME LockInv, NEW t \in Thread, AcquireLocal(t) PROVE LockInv'
  <1> DEFINE r == [owner |-> t, count |-> Due(t) + 1]
  <1>1. /\ RLock(t) \in Record /\ RLock(t).count = Due(t) /\ Due(t) \in Nat
        /\ leaked[t] \in Nat /\ held[t] \in Nat /\ held[t] < MaxDepth
        /\ Due(t) = leaked[t] + held[t]
    BY CountIsDue DEF AcquireLocal, LockInv, Agrees, At, Due
  <1>2. r \in Record
    BY <1>1 DEF Record
  <1>3. local' = [local EXCEPT ![ProcessOf[t]] = r]
    BY <1>1 DEF AcquireLocal, RLock
  <1>4. /\ local' \in [Process -> Record]
        /\ \A u \in Thread : RLock(u)' = IF ProcessOf[u] = ProcessOf[t] THEN r ELSE RLock(u)
    BY <1>2, <1>3, SetRLock
  <1>5. TypeOK'
    <2>1. CASE held[t] > 0
      <3>1. held[t] + 1 \in 0..MaxDepth
        BY <1>1
      <3>2. held' = [held EXCEPT ![t] = held[t] + 1] /\ pc' = [pc EXCEPT ![t] = "run"]
        BY <2>1 DEF AcquireLocal, Goto
      <3>3. /\ held' \in [Thread -> 0..MaxDepth]
            /\ pc' \in [Thread -> {"run", "local", "os", "unlocked"}]
        BY <3>1, <3>2 DEF LockInv, TypeOK
      <3>4. QED
        BY <1>4, <3>3 DEF LockInv, TypeOK, Record, AcquireLocal
    <2>2. CASE ~(held[t] > 0)
      <3>1. held' = held /\ pc' \in [Thread -> {"run", "local", "os", "unlocked"}]
        BY <2>2 DEF LockInv, TypeOK, AcquireLocal, Goto
      <3>2. QED
        BY <1>4, <3>1 DEF LockInv, TypeOK, Record, AcquireLocal
    <2>3. QED
      BY <2>1, <2>2
  <1>6. Agrees(t)'
    <2>1. RLock(t)' = r /\ leaked' = leaked /\ os' = os /\ Agrees(t)
      BY <1>4 DEF AcquireLocal, LockInv
    <2>2. CASE held[t] > 0
      <3>1. held'[t] = held[t] + 1 /\ pc'[t] = "run"
        BY <2>2 DEF LockInv, TypeOK, AcquireLocal, Goto
      <3>2. Due(t)' = Due(t) + 1
        BY <1>1, <2>1, <3>1 DEF Due, At
      <3>3. QED
        BY <1>1, <2>1, <2>2, <3>1, <3>2 DEF Agrees, At, AcquireLocal
    <2>4. CASE ~(held[t] > 0)
      <3>1. held'[t] = 0 /\ held[t] = 0 /\ pc'[t] = "os"
        BY <1>1, <2>4 DEF LockInv, TypeOK, AcquireLocal, Goto
      <3>2. Due(t)' = Due(t) + 1
        BY <1>1, <2>1, <3>1 DEF Due, At
      <3>3. QED
        BY <1>1, <2>1, <3>1, <3>2 DEF Agrees, At, AcquireLocal
    <2>5. QED
      BY <2>2, <2>4
  <1>7. ASSUME NEW u \in Thread \ {t} PROVE Agrees(u)'
    <2>1. /\ Due(u)' = Due(u) /\ held'[u] = held[u] /\ pc'[u] = pc[u] /\ os' = os
          /\ Due(u) \in Nat
      BY CountIsDue DEF LockInv, TypeOK, Due, At, Goto, AcquireLocal
    <2>2. Agrees(u)
      BY DEF LockInv
    <2>3. CASE ProcessOf[u] # ProcessOf[t]
      BY <1>4, <2>1, <2>2, <2>3 DEF Agrees, At
    <2>4. CASE ProcessOf[u] = ProcessOf[t]
      <3>1. RLock(u) = RLock(t) /\ RLock(u)' = r
        BY <1>4, <2>4 DEF RLock
      <3>2. ~(Due(u) > 0)
        BY <2>2, <3>1 DEF Agrees, AcquireLocal
      <3>3. QED
        BY <2>1, <2>2, <3>1, <3>2 DEF Agrees, At
    <2>5. QED
      BY <2>3, <2>4
  <1>8. QED
    BY <1>5, <1>6, <1>7 DEF LockInv

LEMMA OsTimeoutKeeps == ASSUME LockInv, NEW t \in Thread, OsTimeout(t) PROVE LockInv'
  <1>1. /\ leaked[t] \in Nat /\ held[t] \in Nat /\ Due(t) = leaked[t] + 1 /\ Due(t) > 0
        /\ Agrees(t)
    BY CountIsDue DEF OsTimeout, LockInv, Agrees, At, Due
  <1>2. RLock(t).owner = t
    BY <1>1 DEF Agrees
  <1>3. /\ local' \in [Process -> Record]
        /\ RLock(t)' = IF Due(t) = 1 THEN Free ELSE [owner |-> t, count |-> Due(t) - 1]
        /\ \A u \in Thread : RLock(u)' = IF ProcessOf[u] = ProcessOf[t] THEN RLock(t)'
                                                                        ELSE RLock(u)
    BY <1>2, ReleasedLock DEF OsTimeout
  <1>4. TypeOK'
    BY <1>1, <1>3 DEF LockInv, TypeOK, Record, OsTimeout, Goto
  <1>5. leaked' = leaked /\ os' = os /\ pc'[t] = "run" /\ held'[t] = 0
    BY DEF LockInv, TypeOK, Agrees, At, Goto, OsTimeout
  <1>6. Due(t)' = Due(t) - 1
    BY <1>1, <1>5 DEF Due, At, OsTimeout
  <1>7. Agrees(t)'
    <2>1. CASE Due(t) = 1
      BY <1>1, <1>3, <1>5, <1>6, <2>1 DEF Agrees, At, Free, OsTimeout
    <2>2. CASE Due(t) # 1
      BY <1>1, <1>3, <1>5, <1>6, <2>2 DEF Agrees, At, Free, OsTimeout
    <2>3. QED
      BY <2>1, <2>2
  <1>8. ASSUME NEW u \in Thread \ {t} PROVE Agrees(u)'
    <2>1. /\ Due(u)' = Due(u) /\ held'[u] = held[u] /\ pc'[u] = pc[u] /\ os' = os
          /\ Due(u) \in Nat
      BY CountIsDue DEF LockInv, TypeOK, Due, At, Goto, OsTimeout
    <2>2. Agrees(u)
      BY DEF LockInv
    <2>3. CASE ProcessOf[u] # ProcessOf[t]
      BY <1>3, <2>1, <2>2, <2>3 DEF Agrees, At, Free
    <2>4. CASE ProcessOf[u] = ProcessOf[t]
      <3>1. RLock(u) = RLock(t) /\ RLock(u)' = RLock(t)'
        BY <1>3, <2>4 DEF RLock
      <3>2. ~(Due(u) > 0)
        BY <1>2, <2>2, <3>1 DEF Agrees
      <3>3. RLock(t)'.owner \in {t, Nobody} /\ (RLock(t)'.owner = Nobody => RLock(t)' = Free)
        BY <1>3 DEF Free
      <3>4. QED
        BY <2>1, <2>2, <3>1, <3>2, <3>3 DEF Agrees, At, Free
    <2>5. QED
      BY <2>3, <2>4
  <1>9. QED
    BY <1>4, <1>7, <1>8 DEF LockInv

LEMMA ReleaseNestedKeeps == ASSUME LockInv, NEW t \in Thread, ReleaseNested(t) PROVE LockInv'
  <1>1. /\ leaked[t] \in Nat /\ held[t] \in Nat /\ Due(t) = leaked[t] + held[t] /\ Due(t) > 0
        /\ Agrees(t)
    BY CountIsDue DEF ReleaseNested, LockInv, Agrees, At, Due
  <1>2. RLock(t).owner = t
    BY <1>1 DEF Agrees
  <1>3. /\ local' \in [Process -> Record]
        /\ RLock(t)' = IF Due(t) = 1 THEN Free ELSE [owner |-> t, count |-> Due(t) - 1]
        /\ \A u \in Thread : RLock(u)' = IF ProcessOf[u] = ProcessOf[t] THEN RLock(t)'
                                                                        ELSE RLock(u)
    BY <1>2, ReleasedLock DEF ReleaseNested
  <1>4. TypeOK'
    BY <1>1, <1>3 DEF LockInv, TypeOK, Record, ReleaseNested, Goto
  <1>5. leaked' = leaked /\ os' = os /\ pc'[t] = "run" /\ held'[t] = held[t] - 1
    BY DEF LockInv, TypeOK, Agrees, At, Goto, ReleaseNested
  <1>6. Due(t)' = Due(t) - 1
    BY <1>1, <1>5 DEF Due, At, ReleaseNested
  <1>7. Agrees(t)'
    <2>1. CASE Due(t) = 1
      BY <1>1, <1>3, <1>5, <1>6, <2>1 DEF Agrees, At, Free, ReleaseNested
    <2>2. CASE Due(t) # 1
      BY <1>1, <1>3, <1>5, <1>6, <2>2 DEF Agrees, At, Free, ReleaseNested
    <2>3. QED
      BY <2>1, <2>2
  <1>8. ASSUME NEW u \in Thread \ {t} PROVE Agrees(u)'
    <2>1. /\ Due(u)' = Due(u) /\ held'[u] = held[u] /\ pc'[u] = pc[u] /\ os' = os
          /\ Due(u) \in Nat
      BY CountIsDue DEF LockInv, TypeOK, Due, At, Goto, ReleaseNested
    <2>2. Agrees(u)
      BY DEF LockInv
    <2>3. CASE ProcessOf[u] # ProcessOf[t]
      BY <1>3, <2>1, <2>2, <2>3 DEF Agrees, At, Free
    <2>4. CASE ProcessOf[u] = ProcessOf[t]
      <3>1. RLock(u) = RLock(t) /\ RLock(u)' = RLock(t)'
        BY <1>3, <2>4 DEF RLock
      <3>2. ~(Due(u) > 0)
        BY <1>2, <2>2, <3>1 DEF Agrees
      <3>3. RLock(t)'.owner \in {t, Nobody} /\ (RLock(t)'.owner = Nobody => RLock(t)' = Free)
        BY <1>3 DEF Free
      <3>4. QED
        BY <2>1, <2>2, <3>1, <3>2, <3>3 DEF Agrees, At, Free
    <2>5. QED
      BY <2>3, <2>4
  <1>9. QED
    BY <1>4, <1>7, <1>8 DEF LockInv

LEMMA ReleaseLocalKeeps == ASSUME LockInv, NEW t \in Thread, ReleaseLocal(t) PROVE LockInv'
  <1>1. /\ leaked[t] \in Nat /\ held[t] \in Nat /\ Due(t) = leaked[t] + 1 /\ Due(t) > 0
        /\ Agrees(t)
    BY CountIsDue DEF ReleaseLocal, LockInv, Agrees, At, Due
  <1>2. RLock(t).owner = t
    BY <1>1 DEF Agrees
  <1>3. /\ local' \in [Process -> Record]
        /\ RLock(t)' = IF Due(t) = 1 THEN Free ELSE [owner |-> t, count |-> Due(t) - 1]
        /\ \A u \in Thread : RLock(u)' = IF ProcessOf[u] = ProcessOf[t] THEN RLock(t)'
                                                                        ELSE RLock(u)
    BY <1>2, ReleasedLock DEF ReleaseLocal
  <1>4. TypeOK'
    BY <1>1, <1>3 DEF LockInv, TypeOK, Record, ReleaseLocal, Goto
  <1>5. leaked' = leaked /\ os' = os /\ pc'[t] = "run" /\ held'[t] = 0
    BY DEF LockInv, TypeOK, Agrees, At, Goto, ReleaseLocal
  <1>6. Due(t)' = Due(t) - 1
    BY <1>1, <1>5 DEF Due, At, ReleaseLocal
  <1>7. Agrees(t)'
    <2>1. CASE Due(t) = 1
      BY <1>1, <1>3, <1>5, <1>6, <2>1 DEF Agrees, At, Free, ReleaseLocal
    <2>2. CASE Due(t) # 1
      BY <1>1, <1>3, <1>5, <1>6, <2>2 DEF Agrees, At, Free, ReleaseLocal
    <2>3. QED
      BY <2>1, <2>2
  <1>8. ASSUME NEW u \in Thread \ {t} PROVE Agrees(u)'
    <2>1. /\ Due(u)' = Due(u) /\ held'[u] = held[u] /\ pc'[u] = pc[u] /\ os' = os
          /\ Due(u) \in Nat
      BY CountIsDue DEF LockInv, TypeOK, Due, At, Goto, ReleaseLocal
    <2>2. Agrees(u)
      BY DEF LockInv
    <2>3. CASE ProcessOf[u] # ProcessOf[t]
      BY <1>3, <2>1, <2>2, <2>3 DEF Agrees, At, Free
    <2>4. CASE ProcessOf[u] = ProcessOf[t]
      <3>1. RLock(u) = RLock(t) /\ RLock(u)' = RLock(t)'
        BY <1>3, <2>4 DEF RLock
      <3>2. ~(Due(u) > 0)
        BY <1>2, <2>2, <3>1 DEF Agrees
      <3>3. RLock(t)'.owner \in {t, Nobody} /\ (RLock(t)'.owner = Nobody => RLock(t)' = Free)
        BY <1>3 DEF Free
      <3>4. QED
        BY <2>1, <2>2, <3>1, <3>2, <3>3 DEF Agrees, At, Free
    <2>5. QED
      BY <2>3, <2>4
  <1>9. QED
    BY <1>4, <1>7, <1>8 DEF LockInv

LEMMA CollectKeeps == ASSUME LockInv, NEW p \in Process, Collect(p) PROVE LockInv'
  <1>1. TypeOK'
    BY DEF LockInv, TypeOK, Collect, NoLeaks, Members, Free, At, Agrees
  <1>2. ASSUME NEW t \in Thread PROVE Agrees(t)'
    <2>1. CASE ProcessOf[t] = p
      <3>1. RLock(t)' = Free /\ leaked'[t] = 0 /\ held'[t] = 0 /\ pc'[t] = "run" /\ os' # t
        <4>1. /\ t \in Members(p) /\ local'[p] = Free /\ leaked' = NoLeaks(p)
              /\ held'[t] = 0 /\ pc'[t] = "run"
          BY <2>1 DEF LockInv, TypeOK, Collect, Members, At
        <4>2. os' # t
          BY <4>1 DEF LockInv, Agrees, Collect
        <4>3. QED
          BY <2>1, <4>1, <4>2 DEF NoLeaks, RLock
      <3>2. QED
        BY <3>1 DEF Agrees, Due, At, Free
    <2>2. CASE ProcessOf[t] # p
      BY <2>2 DEF LockInv, TypeOK, Collect, NoLeaks, Members, Free, At, Due, RLock, Agrees
    <2>3. QED
      BY <2>1, <2>2
  <1>3. QED
    BY <1>1, <1>2 DEF LockInv

LEMMA DieKeeps == ASSUME LockInv, NEW p \in Process, Die(p) PROVE LockInv'
  <1>1. TypeOK'
    BY DEF LockInv, TypeOK, Die, NoLeaks, Members, Free, At, Agrees
  <1>2. ASSUME NEW t \in Thread PROVE Agrees(t)'
    <2>1. CASE ProcessOf[t] = p
      <3>1. RLock(t)' = Free /\ leaked'[t] = 0 /\ held'[t] = 0 /\ pc'[t] = "run" /\ os' # t
        <4>1. /\ t \in Members(p) /\ local'[p] = Free /\ leaked' = NoLeaks(p)
              /\ held'[t] = 0 /\ pc'[t] = "run"
          BY <2>1 DEF LockInv, TypeOK, Die, Members, At
        <4>2. os' # t
          BY <4>1 DEF LockInv, Agrees, Die
        <4>3. QED
          BY <2>1, <4>1, <4>2 DEF NoLeaks, RLock
      <3>2. QED
        BY <3>1 DEF Agrees, Due, At, Free
    <2>2. CASE ProcessOf[t] # p
      BY <2>2 DEF LockInv, TypeOK, Die, NoLeaks, Members, Free, At, Due, RLock, Agrees
    <2>3. QED
      BY <2>1, <2>2
  <1>3. QED
    BY <1>1, <1>2 DEF LockInv

LEMMA NextKeeps == LockInv /\ [Next]_vars => LockInv'
  <1> SUFFICES ASSUME LockInv, [Next]_vars PROVE LockInv'
    OBVIOUS
  <1>1. CASE \E t \in Thread : Acquires(t) \/ Releases(t)
    BY <1>1, CallKeeps, AcquireLocalKeeps, LocalTimeoutKeeps, AcquireOsKeeps, OsTimeoutKeeps,
       InterruptKeeps, ReleaseNestedKeeps, ReleaseOsKeeps, ReleaseLocalKeeps
       DEF Acquires, Releases
  <1>2. CASE \E p \in Process : Collect(p) \/ Die(p)
    BY <1>2, CollectKeeps, DieKeeps
  <1>3. CASE UNCHANGED vars
    BY <1>3 DEF vars, LockInv, TypeOK, Agrees, Due, RLock, At
  <1>4. QED
    BY <1>1, <1>2, <1>3 DEF Next

\* InterProcessLock: the RLock of the process, the lock of the operating system
\* and the count of the thread agree, through interrupts and deaths.
THEOREM LockInvariant == Spec => []LockInv
  BY InitLockInv, NextKeeps, PTL DEF Spec

-----------------------------------------------------------------------------
\* Whoever is inside has the file: so there is at most one.
LEMMA InsideHasFile == ASSUME LockInv, NEW t \in Thread PROVE Inside(t) <=> os = t
  BY DEF LockInv, Agrees, Inside

LEMMA InsiderIsOs == LockInv => Insider = os
  <1> SUFFICES ASSUME LockInv PROVE Insider = os
    OBVIOUS
  <1>1. CASE os = Nobody
    BY <1>1, InsideHasFile DEF Insider
  <1>2. CASE os \in Thread
    BY <1>2, InsideHasFile DEF Insider
  <1>3. QED
    BY <1>1, <1>2 DEF LockInv, TypeOK

\* Two threads are never inside with blocks of the same path at once.
THEOREM LockExcludes == Spec => []MutualExclusion
  <1>1. LockInv => MutualExclusion
    BY InsideHasFile DEF MutualExclusion
  <1>2. QED
    BY <1>1, LockInvariant, PTL

\* Seen from outside the lock is a mutex: who takes it finds it free, and who
\* holds it leaves it free.
THEOREM LockIsMutex == Spec => IsMutex
  <1>1. Init => Abstract!MutexInit
    <2> SUFFICES ASSUME Init PROVE Insider = Nobody
      BY DEF Abstract!MutexInit
    <2>1. os = Nobody
      BY DEF Init
    <2>2. QED
      BY <2>1, InitLockInv, InsiderIsOs
  <1>2. LockInv /\ LockInv' /\ [Next]_vars =>
          [\E t \in Thread : Abstract!Enter(t) \/ Abstract!Leave(t)]_Insider
    <2> SUFFICES ASSUME LockInv, LockInv', [Next]_vars
                 PROVE  [\E t \in Thread : Abstract!Enter(t) \/ Abstract!Leave(t)]_Insider
      OBVIOUS
    <2>1. Insider = os /\ Insider' = os'
      <3>1. (LockInv => Insider = os)'
        BY InsiderIsOs, PTL
      <3>2. QED
        BY <3>1, InsiderIsOs
    <2>2. CASE os' = os
      BY <2>1, <2>2
    <2>3. CASE os' # os
      <3>1. /\ os # os'
            /\ \/ os = Nobody /\ os' \in Thread
               \/ os \in Thread /\ os' = Nobody
        <4>1. ASSUME NEW t \in Thread, Acquires(t) \/ Releases(t)
              PROVE  (os = Nobody /\ os' = t) \/ (os = t /\ os' = Nobody)
          BY <2>3, <4>1 DEF Acquires, Releases, Call, AcquireLocal, LocalTimeout, AcquireOs,
             OsTimeout, Interrupt, ReleaseNested, ReleaseOs, ReleaseLocal, LockInv, Agrees, At
        <4>2. ASSUME NEW p \in Process, Collect(p) \/ Die(p)
              PROVE  os \in Thread /\ os' = Nobody
          BY <2>3, <4>2 DEF Collect, Die, Members
        <4>3. QED
          BY <2>3, <4>1, <4>2 DEF Next, vars
      <3>2. QED
        BY <2>1, <3>1 DEF Abstract!Enter, Abstract!Leave
    <2>4. QED
      BY <2>2, <2>3
  <1>3. QED
    BY <1>1, <1>2, LockInvariant, PTL DEF Spec, IsMutex, Abstract!MutexSpec

HIDE LockAssumption

-----------------------------------------------------------------------------
(* DataMigration *)

\* Nothing, or what an older version had unless the user has changed it, is in the data.
Safe(x) == old[x] # Missing /\ x[2] \notin edited => here[x[2]] \in {old[x], <<old[x], "upgraded">>}
AllSafe == \A x \in Old \X File : Safe(x)

MigrationInv ==
    /\ old \in [Old \X File -> Content \cup {Missing}]
    /\ misplaced \in Content \cup {Missing}
    /\ MigrationTypeOK
    /\ complete => AllSafe
    /\ step = "copying" => \A x \in Old \X File : x \in left \/ conflict \/ Safe(x)
    /\ step \in {"creating", "upgrading"} => AllSafe

\* What is safe is there: a file that is missing may be written.
LEMMA SafeIsThere ==
  ASSUME MigrationInv, NEW x \in Old \X File, Safe(x), old[x] # Missing, x[2] \notin edited
  PROVE  here[x[2]] # Missing
  BY DataMigrationAssumption DEF MigrationInv, MigrationTypeOK, Safe, Upgraded

LEMMA MigrationTyped == ASSUME MigrationInv, [MigrationNext]_migrationVars PROVE MigrationTypeOK'
  <1> USE DataMigrationAssumption DEF MigrationInv, MigrationTypeOK
  <1>1. CASE StartLayout \/ Copied \/ CreateMissing \/ MarkComplete \/ StopLayout
    BY <1>1 DEF StartLayout, Copied, CreateMissing, MarkComplete, StopLayout
  <1>2. ASSUME NEW x \in Old \X File, CopyOld(x) PROVE MigrationTypeOK'
    BY <1>2 DEF CopyOld
  <1>3. ASSUME NEW f \in File, UpgradeOne(f) PROVE MigrationTypeOK'
    <2>1. <<here[f], "upgraded">> \in Upgraded
      BY <1>3 DEF UpgradeOne, Upgraded
    <2>2. QED
      BY <1>3, <2>1 DEF UpgradeOne
  <1>4. ASSUME NEW f \in File, EditData(f) PROVE MigrationTypeOK'
    BY <1>4 DEF EditData
  <1>5. CASE UNCHANGED migrationVars
    BY <1>5 DEF migrationVars
  <1>6. QED
    BY <1>1, <1>2, <1>3, <1>4, <1>5 DEF MigrationNext

\* No step loses what is safe.
LEMMA SafeStaysSafe ==
  ASSUME MigrationInv, [MigrationNext]_migrationVars, NEW x \in Old \X File, Safe(x)
  PROVE  Safe(x)'
  <1> SUFFICES ASSUME old'[x] # Missing, x[2] \notin edited'
               PROVE here'[x[2]] \in {old'[x], <<old'[x], "upgraded">>}
    BY DEF Safe
  <1>1. old' = old /\ edited \subseteq edited'
    BY DEF MigrationNext, StartLayout, Copied, CreateMissing, MarkComplete, StopLayout, CopyOld,
           UpgradeOne, EditData, migrationVars
  <1>2. here[x[2]] # Missing /\ here[x[2]] \in {old[x], <<old[x], "upgraded">>}
    BY <1>1, SafeIsThere DEF Safe
  <1>3. x[2] \in File /\ here \in [File -> Content \cup Upgraded \cup {Missing, Initial, Edited}]
    BY DEF MigrationInv, MigrationTypeOK
  <1>4. ASSUME here'[x[2]] = here[x[2]] PROVE here'[x[2]] \in {old'[x], <<old'[x], "upgraded">>}
    BY <1>1, <1>2, <1>4
  <1>5. CASE StartLayout \/ Copied \/ CreateMissing \/ MarkComplete \/ StopLayout
    BY <1>2, <1>3, <1>4, <1>5 DEF StartLayout, Copied, CreateMissing, MarkComplete, StopLayout
  <1>6. ASSUME NEW y \in Old \X File, CopyOld(y)
        PROVE here'[x[2]] \in {old'[x], <<old'[x], "upgraded">>}
    BY <1>2, <1>3, <1>4, <1>6 DEF CopyOld
  <1>7. ASSUME NEW f \in File, UpgradeOne(f)
        PROVE here'[x[2]] \in {old'[x], <<old'[x], "upgraded">>}
    <2>1. CASE f = x[2]
      <3>1. here[f] \in Content /\ here'[f] = <<here[f], "upgraded">>
        BY <1>3, <1>7, <2>1 DEF UpgradeOne
      <3>2. old[x] \in Content
        BY <1>1 DEF MigrationInv
      <3>3. <<old[x], "upgraded">> \in Upgraded
        BY <3>2 DEF Upgraded
      <3>4. here[f] = old[x]
        BY <1>2, <2>1, <3>1, <3>3, DataMigrationAssumption
      <3>5. QED
        BY <1>1, <2>1, <3>1, <3>4
    <2>2. CASE f # x[2]
      BY <1>3, <1>4, <1>7, <2>2 DEF UpgradeOne
    <2>3. QED
      BY <2>1, <2>2
  <1>8. ASSUME NEW f \in File, EditData(f)
        PROVE here'[x[2]] \in {old'[x], <<old'[x], "upgraded">>}
    BY <1>3, <1>4, <1>8 DEF EditData
  <1>9. CASE UNCHANGED migrationVars
    BY <1>4, <1>9 DEF migrationVars
  <1>10. QED
    BY <1>5, <1>6, <1>7, <1>8, <1>9 DEF MigrationNext

\* What has been looked at is safe, or a conflict.
LEMMA CopiesAreSafe ==
  ASSUME MigrationInv, [MigrationNext]_migrationVars, step' = "copying", NEW x \in Old \X File
  PROVE  x \in left' \/ conflict' \/ Safe(x)'
  <1>1. CASE StartLayout
    <2>1. CASE complete
      BY <2>1, SafeStaysSafe DEF MigrationInv, AllSafe
    <2>2. CASE ~complete
      BY <1>1, <2>2 DEF StartLayout, Safe
    <2>3. QED
      BY <2>1, <2>2
  <1>2. ASSUME NEW y \in Old \X File, CopyOld(y) PROVE x \in left' \/ conflict' \/ Safe(x)'
    <2>1. step = "copying" /\ (x \in left \/ conflict \/ Safe(x))
      BY <1>2 DEF CopyOld, MigrationInv
    <2>2. CASE x = y /\ x \in left
      <3>1. conflict' \/ here[x[2]] \in {Missing, old[x]}
        BY <1>2, <2>2 DEF CopyOld
      <3>2. here'[x[2]] = IF here[x[2]] = Missing THEN old[x] ELSE here[x[2]]
        BY <1>2, <2>2 DEF CopyOld, MigrationInv, MigrationTypeOK
      <3>3. QED
        BY <1>2, <3>1, <3>2 DEF CopyOld, Safe
    <2>3. CASE x # y /\ x \in left
      BY <1>2, <2>3 DEF CopyOld
    <2>4. CASE conflict
      BY <1>2, <2>4 DEF CopyOld
    <2>5. QED
      BY <2>1, <2>2, <2>3, <2>4, SafeStaysSafe
  <1>3. CASE ~StartLayout /\ (\A y \in Old \X File : ~CopyOld(y))
    <2>1. step = "copying" /\ left' = left /\ conflict' = conflict
      BY <1>3 DEF MigrationNext, Copied, CreateMissing, MarkComplete, StopLayout, UpgradeOne,
                  EditData, migrationVars
    <2>2. QED
      BY <2>1, SafeStaysSafe DEF MigrationInv
  <1>4. QED
    BY <1>1, <1>2, <1>3

LEMMA MigrationSteps ==
  ASSUME MigrationInv, [MigrationNext]_migrationVars
  PROVE  MigrationInv'
  <1>1. AllSafe => AllSafe'
    BY SafeStaysSafe DEF AllSafe
  <1>2. old' = old /\ misplaced' = misplaced
    BY DEF MigrationNext, StartLayout, Copied, CreateMissing, MarkComplete, StopLayout, CopyOld,
           UpgradeOne, EditData, migrationVars
  <1>3. complete' => AllSafe
    BY DEF MigrationInv, MigrationNext, StartLayout, Copied, CreateMissing, MarkComplete, StopLayout,
           CopyOld, UpgradeOne, EditData, migrationVars
  <1>4. step' \in {"creating", "upgrading"} => AllSafe
    <2>1. CASE Copied
      BY <2>1 DEF Copied, MigrationInv, AllSafe
    <2>2. CASE ~Copied
      BY <2>2 DEF MigrationInv, MigrationNext, StartLayout, CreateMissing, MarkComplete, StopLayout,
                  CopyOld, UpgradeOne, EditData, migrationVars
    <2>3. QED
      BY <2>1, <2>2
  <1>5. step' = "copying" => \A x \in Old \X File : x \in left' \/ conflict' \/ Safe(x)'
    BY CopiesAreSafe
  <1>6. QED
    BY <1>1, <1>2, <1>3, <1>4, <1>5, MigrationTyped DEF MigrationInv

\* The invariant of a start over older data (ensure_data_layout): until the marker
\* is written, each older file is still to be copied, in conflict, or safe here.
THEOREM MigrationInvariant == MigrationSpec => []MigrationInv
  <1>1. MigrationInit => MigrationInv
    <2> SUFFICES ASSUME MigrationInit PROVE MigrationInv
      OBVIOUS
    <2>1. MigrationTypeOK
      BY DEF MigrationInit, MigrationTypeOK
    <2>2. QED
      BY <2>1 DEF MigrationInit, MigrationInv
  <1>2. QED
    BY <1>1, MigrationSteps, PTL DEF MigrationSpec

\* The types, which the invariant of a migration has as a part.
THEOREM MigrationTypes == MigrationSpec => []MigrationTypeOK
  <1>1. MigrationInv => MigrationTypeOK
    BY DEF MigrationInv
  <1>2. QED
    BY <1>1, MigrationInvariant, PTL

\* For any number of older folders, however often the start was stopped and by what, a marked
\* migration has lost nothing (data_migration.py, _copy_legacy_tree to the marker).
THEOREM MigratedNothingLost == MigrationSpec => []MigratedIsComplete
  <1>1. MigrationInv => MigratedIsComplete
    BY DEF MigrationInv, AllSafe, Safe, MigratedIsComplete
  <1>2. QED
    BY <1>1, MigrationInvariant, PTL

-----------------------------------------------------------------------------
(* Accounts *)

Account == [enabled : BOOLEAN, failures : Nat, locked : BOOLEAN]
Session == [owner : User, revoked : BOOLEAN]
Kinds == {"login", "delete", "account", "session", "role", "open"}
Files == [users : [User -> Account \cup {Absent}], sessions : [Ticket -> Session \cup {Absent}]]
Asked == [does : Kinds, user : User, ticket : Ticket, read : Account \cup Session \cup Files \cup {Absent}]

AccountsTyped ==
    /\ users \in [User -> Account \cup {Absent}]
    /\ sessions \in [Ticket -> Session \cup {Absent}]
    /\ request \in [Request -> Asked \cup {NoRequest}]
    /\ guesses \in [User -> Nat]

\* What exists, has ended or is to be revoked had its identifier given: none is given again.
GivenOnce ==
    /\ \A u \in User : users[u] # Absent => u \in given
    /\ \A t \in Ticket : sessions[t] # Absent => t \in given
    /\ ended \subseteq given
    /\ \A u \in User : u \notin given => guesses[u] = 0
    /\ \A r \in Request : Doing(r, "session") =>
          request[r].read \in Session /\ request[r].ticket \in Ticket \cap given
    /\ \A r \in Request : Doing(r, "account") => request[r].read \in Account

\* An account counts the guesses, and is locked before they are too many.
Counts ==
    \A u \in User :
        /\ guesses[u] <= Limit
        /\ users[u] # Absent => /\ guesses[u] <= users[u].failures
                                /\ ~users[u].locked => guesses[u] < Limit

Ends ==
    /\ \A t \in Ticket \cap ended : sessions[t] = Absent \/ sessions[t].revoked
    /\ \A u \in User \cap ended : users[u] = Absent

AccountsInv == overwritten \/ (AccountsTyped /\ GivenOnce /\ Counts /\ Ends)

LEMMA AccountHas ==
  ASSUME NEW a \in Account
  PROVE  a # Absent /\ a.enabled \in BOOLEAN /\ a.failures \in Nat /\ a.locked \in BOOLEAN
  BY AccountsAssumption DEF Account

LEMMA WelcomeIs ==
  ASSUME NEW a \in Account
  PROVE  Welcome(a) \in Account /\ Welcome(a).failures = 0 /\ ~Welcome(a).locked
  BY DEF Account, Welcome

LEMMA MissedIs ==
  ASSUME NEW a \in Account
  PROVE  /\ Missed(a) \in Account
         /\ Missed(a).failures = a.failures + 1
         /\ ~Missed(a).locked => a.failures + 1 < Limit
  <1> DEFINE k == a.failures + 1 >= Limit
  <1>1. k \in BOOLEAN /\ a.failures + 1 \in Nat
    BY AccountHas
  <1>2. Missed(a) = [a EXCEPT !.failures = @ + 1, !.locked = k]
    BY DEF Missed
  <1>3. k \/ a.failures + 1 < Limit
    BY AccountHas, AccountsAssumption
  <1> HIDE DEF k
  <1>4. Missed(a) \in Account /\ Missed(a).failures = a.failures + 1 /\ Missed(a).locked = k
    BY <1>1, <1>2 DEF Account
  <1>5. QED
    BY <1>3, <1>4

LEMMA EditedIs ==
  ASSUME NEW a \in Account, NEW on \in BOOLEAN
  PROVE  /\ [a EXCEPT !.enabled = on] \in Account
         /\ [a EXCEPT !.enabled = on].failures = a.failures
         /\ [a EXCEPT !.enabled = on].locked = a.locked
  BY DEF Account

LEMMA UnlockedIs ==
  ASSUME NEW a \in Account
  PROVE  /\ [a EXCEPT !.locked = FALSE] \in Account
         /\ [a EXCEPT !.locked = FALSE].failures = a.failures
  BY DEF Account

\* A change of one account, and of what is counted of it.
LEMMA OneCounted ==
  ASSUME AccountsTyped, Counts, NEW u \in User, NEW a \in Account, NEW n \in Nat,
         users' = [users EXCEPT ![u] = a], guesses' = [guesses EXCEPT ![u] = n],
         n <= Limit, n <= a.failures, ~a.locked => n < Limit
  PROVE  Counts'
  <1>1. ASSUME NEW v \in User
        PROVE  /\ guesses'[v] <= Limit
               /\ users'[v] # Absent => /\ guesses'[v] <= users'[v].failures
                                        /\ ~users'[v].locked => guesses'[v] < Limit
    <2>1. CASE v = u
      BY <2>1 DEF AccountsTyped
    <2>2. CASE v # u
      BY <2>2 DEF AccountsTyped, Counts
    <2>3. QED
      BY <2>1, <2>2
  <1>2. QED
    BY <1>1 DEF Counts

LEMMA AccountsSteps ==
  ASSUME AccountsInv, [AccountsNext]_accountsVars
  PROVE  AccountsInv'
  <1> SUFFICES ASSUME ~overwritten' PROVE (AccountsTyped /\ GivenOnce /\ Counts /\ Ends)'
    BY DEF AccountsInv
  <1>1. ~overwritten
    BY DEF AccountsNext, AddUser, Unlock, SwitchUser, LookUp, Attempt, WriteBackUser, OpenSession,
           RevokeSession, DeleteUser, WriteBackAll, accountsVars
  <1>2. AccountsTyped /\ GivenOnce /\ Counts /\ Ends
    BY <1>1 DEF AccountsInv
  <1> USE <1>2, AccountsAssumption DEF AccountsTyped, GivenOnce, Counts, Ends
  <1>3. ASSUME NEW u \in User, AddUser(u) PROVE (AccountsTyped /\ GivenOnce /\ Counts /\ Ends)'
    BY <1>3 DEF AddUser, Account, Doing
  <1>4. ASSUME NEW u \in User, Unlock(u) PROVE (AccountsTyped /\ GivenOnce /\ Counts /\ Ends)'
    <2>1. users[u] \in Account /\ users[u] # Absent
      BY <1>4 DEF Unlock
    <2> DEFINE off == [users[u] EXCEPT !.locked = FALSE]
    <2>2. off \in Account /\ off.failures \in Nat
      BY <2>1, UnlockedIs, AccountHas
    <2>3. users' = [users EXCEPT ![u] = off] /\ guesses' = [guesses EXCEPT ![u] = 0]
      BY <1>4 DEF Unlock
    <2> HIDE DEF off
    <2>4. Counts'
      BY <2>2, <2>3, OneCounted
    <2>5. UNCHANGED <<sessions, given, request, ended>>
      BY <1>4 DEF Unlock
    <2>6. AccountsTyped'
      BY <2>2, <2>3, <2>5
    <2>7. GivenOnce'
      BY <2>1, <2>3, <2>5 DEF Doing
    <2>8. Ends'
      BY <2>1, <2>3, <2>5
    <2>9. QED
      BY <2>4, <2>6, <2>7, <2>8
  <1>5. ASSUME NEW u \in User, NEW on \in BOOLEAN, SwitchUser(u, on)
        PROVE (AccountsTyped /\ GivenOnce /\ Counts /\ Ends)'
    BY <1>5 DEF SwitchUser, Account, Doing
  <1>6. ASSUME NEW r \in Request, NEW what \in {"login", "delete", "account", "session", "role"},
               NEW u \in User, NEW t \in Ticket, LookUp(r, what, u, t)
        PROVE (AccountsTyped /\ GivenOnce /\ Counts /\ Ends)'
    <2>1. Document \in Files
      BY DEF Document, Files
    <2> DEFINE got == CASE what = "role" -> Document
                        [] what = "session" -> sessions[t]
                        [] what \in {"login", "account"} -> users[u]
                        [] what = "delete" -> Absent
               asks == [does |-> what, user |-> u, ticket |-> t, read |-> got]
    <2>2. /\ got \in Account \cup Session \cup Files \cup {Absent}
          /\ what = "session" => got \in Session
          /\ what = "account" => got \in Account
      BY <1>6, <2>1 DEF LookUp
    <2>3. asks \in Asked /\ asks.does = what /\ asks.ticket = t /\ asks.read = got
      BY <2>2 DEF Asked, Kinds
    <2>4. /\ request' = [request EXCEPT ![r] = asks]
          /\ UNCHANGED <<users, sessions, given, guesses, ended>>
          /\ what = "session" => sessions[t] # Absent
      BY <1>6 DEF LookUp, Becomes
    <2> HIDE DEF got, asks
    <2>5. request' \in [Request -> Asked \cup {NoRequest}]
      BY <2>3, <2>4
    <2>6. ASSUME NEW s \in Request
          PROVE  /\ Doing(s, "session")' =>
                       request'[s].read \in Session /\ request'[s].ticket \in Ticket \cap given
                 /\ Doing(s, "account")' => request'[s].read \in Account
      <3>1. CASE s = r
        BY <2>2, <2>3, <2>4, <3>1 DEF Doing
      <3>2. CASE s # r
        BY <2>4, <3>2 DEF Doing
      <3>3. QED
        BY <3>1, <3>2
    <2>7. QED
      BY <2>4, <2>5, <2>6
  <1>7. ASSUME NEW r \in Request, NEW right \in BOOLEAN, Attempt(r, right)
        PROVE (AccountsTyped /\ GivenOnce /\ Counts /\ Ends)'
    <2> DEFINE u == request[r].user
    <2>1. request[r] \in Asked /\ u \in User
      BY <1>7 DEF Attempt, Doing, NoRequest, Asked
    <2> DEFINE Kept == /\ request \in [Request -> Asked \cup {NoRequest}]
                       /\ \A s \in Request :
                             /\ Doing(s, "session") => /\ request[s].read \in Session
                                                       /\ request[s].ticket \in Ticket \cap given
                             /\ Doing(s, "account") => request[s].read \in Account
    <2>2. ASSUME NEW new \in Asked \cup {NoRequest}, new.does \notin {"session", "account"},
                 request' = [request EXCEPT ![r] = new], given' = given
          PROVE  Kept'
      BY <2>2 DEF Doing
    <2>3. /\ NoRequest.does \notin {"session", "account"}
          /\ LET new == [request[r] EXCEPT !.does = "open", !.read = Absent]
             IN new \in Asked /\ new.does \notin {"session", "account"}
      BY <2>1 DEF NoRequest, Asked, Kinds
    <2>4. UNCHANGED <<sessions, given, ended>>
      BY <1>7 DEF Attempt
    <2>5. Kept'
      BY <1>7, <2>2, <2>3, <2>4 DEF Attempt, Becomes, Done
    <2>6. CASE ~Usable(users[u])
      BY <1>7, <2>4, <2>5, <2>6 DEF Attempt
    <2>7. CASE Usable(users[u])
      <3>1. users[u] \in Account /\ ~users[u].locked
        BY <2>1, <2>7 DEF Usable
      <3>2. CASE right
        <4>1. users' = [users EXCEPT ![u] = Welcome(users[u])] /\ guesses' = [guesses EXCEPT ![u] = 0]
          BY <1>7, <2>7, <3>2 DEF Attempt
        <4>2. /\ Welcome(users[u]) \in Account /\ Welcome(users[u]).failures = 0
              /\ Welcome(users[u]) # Absent
          BY <3>1, WelcomeIs, AccountHas
        <4>3. u \in given /\ u \notin ended
          BY <2>1, <2>7 DEF Usable
        <4>4. QED
          BY <2>1, <2>4, <2>5, <4>1, <4>2, <4>3
      <3>3. CASE ~right
        <4>1. /\ users' = [users EXCEPT ![u] = Missed(users[u])]
              /\ guesses' = [guesses EXCEPT ![u] = OneMore(@)]
          BY <1>7, <2>7, <3>3 DEF Attempt
        <4>2. /\ Missed(users[u]) \in Account /\ Missed(users[u]) # Absent
              /\ Missed(users[u]).failures = users[u].failures + 1
              /\ ~Missed(users[u]).locked => users[u].failures + 1 < Limit
          BY <3>1, MissedIs, AccountHas
        <4>3. u \in given /\ u \notin ended /\ users[u].failures \in Nat
          BY <2>1, <2>7, <3>1 DEF Usable, Account
        <4>4. guesses[u] < Limit /\ OneMore(guesses[u]) = guesses[u] + 1 /\ guesses[u] \in Nat
          BY <2>1, <2>7, <3>1 DEF Usable, OneMore
        <4>5. guesses' = [guesses EXCEPT ![u] = guesses[u] + 1] /\ guesses[u] + 1 \in Nat
          BY <2>1, <4>1, <4>4
        <4>6. guesses[u] <= users[u].failures
          BY <2>1, <2>7 DEF Usable
        <4>7. Counts'
          BY <2>1, <4>1, <4>2, <4>3, <4>4, <4>5, <4>6, OneCounted
        <4>8. QED
          BY <2>1, <2>4, <2>5, <4>1, <4>2, <4>3, <4>5, <4>7
      <3>4. QED
        BY <3>2, <3>3
    <2>8. QED
      BY <2>6, <2>7
  <1>8. ASSUME NEW r \in Request, NEW on \in BOOLEAN, WriteBackUser(r, on)
        PROVE (AccountsTyped /\ GivenOnce /\ Counts /\ Ends)'
    <2> DEFINE u == request[r].user
    <2>1. u \in User
      BY <1>8 DEF WriteBackUser, Doing, NoRequest, Asked
    <2>2. users[u] = request[r].read
      BY <1>8 DEF WriteBackUser
    <2>3. users[u] \in Account
      BY <1>8, <2>2 DEF WriteBackUser
    <2>4. users' = [users EXCEPT ![u] = [users[u] EXCEPT !.enabled = on]]
      BY <1>8, <2>2 DEF WriteBackUser
    <2> DEFINE set == [users[u] EXCEPT !.enabled = on]
    <2>5. set \in Account /\ set.failures = users[u].failures /\ set.locked = users[u].locked
      BY <2>3, EditedIs
    <2>6. users' = [users EXCEPT ![u] = set] /\ users[u] # Absent /\ users[u].failures \in Nat
      BY <2>3, <2>4, AccountHas
    <2>7. guesses' = [guesses EXCEPT ![u] = guesses[u]]
      BY <1>8 DEF WriteBackUser
    <2> HIDE DEF set
    <2>8. Counts'
      BY <2>1, <2>5, <2>6, <2>7, OneCounted
    <2>9. QED
      BY <1>8, <2>1, <2>5, <2>6, <2>8 DEF WriteBackUser, Doing, Done, Becomes, NoRequest
  <1>9. ASSUME NEW r \in Request, NEW t \in Ticket, OpenSession(r, t)
        PROVE (AccountsTyped /\ GivenOnce /\ Counts /\ Ends)'
    <2>1. request[r].user \in User
      BY <1>9 DEF OpenSession, Doing, NoRequest, Asked
    <2>2. QED
      BY <1>9, <2>1 DEF OpenSession, Session, Doing, Done, Becomes, NoRequest
  <1>10. ASSUME NEW r \in Request, RevokeSession(r)
         PROVE (AccountsTyped /\ GivenOnce /\ Counts /\ Ends)'
    <2> DEFINE t == request[r].ticket
               closed == [request[r].read EXCEPT !.revoked = TRUE]
    <2>1. t \in Ticket \cap given /\ request[r].read \in Session
      BY <1>10 DEF RevokeSession
    <2>2. closed \in Session /\ closed.revoked
      BY <2>1 DEF Session
    <2>3. /\ sessions' = [sessions EXCEPT ![t] = closed] /\ ended' = ended \cup {t}
          /\ request' = [request EXCEPT ![r] = NoRequest]
          /\ UNCHANGED <<users, given, guesses>>
      BY <1>10 DEF RevokeSession, Done, Becomes
    <2> HIDE DEF closed, t
    <2>4. QED
      BY <2>1, <2>2, <2>3 DEF Doing, NoRequest
  <1>11. ASSUME NEW r \in Request, DeleteUser(r) PROVE (AccountsTyped /\ GivenOnce /\ Counts /\ Ends)'
    <2>1. request[r].user \in User
      BY <1>11 DEF DeleteUser, Doing, NoRequest, Asked
    <2>2. QED
      BY <1>11, <2>1 DEF DeleteUser, Doing, Done, Becomes, NoRequest
  <1>12. ASSUME NEW r \in Request, WriteBackAll(r) PROVE (AccountsTyped /\ GivenOnce /\ Counts /\ Ends)'
    <2>1. Document = request[r].read
      BY <1>12 DEF WriteBackAll
    <2>2. users' = users /\ sessions' = sessions
      BY <1>12, <2>1 DEF WriteBackAll, Document
    <2>3. QED
      BY <1>12, <2>2 DEF WriteBackAll, Doing, Done, Becomes, NoRequest
  <1>13. CASE UNCHANGED accountsVars
    BY <1>13 DEF accountsVars, Doing
  <1>14. QED
    BY <1>3, <1>4, <1>5, <1>6, <1>7, <1>8, <1>9, <1>10, <1>11, <1>12, <1>13 DEF AccountsNext

\* The invariant of remote accounts (auth.py, store.py): failures and locks agree
\* with the guesses made, unless an account was written back as it was read.
THEOREM AccountsInvariant == AccountsSpec => []AccountsInv
  <1>1. AccountsInit => AccountsInv
    BY AccountsAssumption DEF AccountsInit, AccountsInv, AccountsTyped, GivenOnce, Counts, Ends, Doing,
                              NoRequest
  <1>2. QED
    BY <1>1, AccountsSteps, PTL DEF AccountsSpec

\* For any number of clients and any limit, no more than that many wrong passwords are tried
\* (access/auth.py, authenticate_password).
THEOREM EveryGuessIsCounted == AccountsSpec => []GuessesAreCounted
  <1>1. AccountsInv => GuessesAreCounted
    BY AccountsAssumption DEF AccountsInv, AccountsTyped, Counts, GuessesAreCounted
  <1>2. QED
    BY <1>1, AccountsInvariant, PTL

\* For any requests that overlap, what was closed or deleted stays so (access/auth.py,
\* revoke; store.py, delete_user).
THEOREM EndedNeverReturns == AccountsSpec => []EndedStaysEnded
  <1>1. AccountsInv => EndedStaysEnded
    BY DEF AccountsInv, Ends, EndedStaysEnded
  <1>2. QED
    BY <1>1, AccountsInvariant, PTL

\* What is in a file has had its identifier given, and sessions that of their owner.
Known(us, ss) ==
    /\ \A u \in User : us[u] # Absent => u \in given
    /\ \A t \in Ticket : ss[t] # Absent => t \in given /\ ss[t].owner \in given

\* The types hold whatever is written back: what a request has read was known when it read it.
AccountsKnown ==
    /\ AccountsTyped
    /\ given \subseteq User \cup Ticket
    /\ Known(users, sessions)
    /\ \A r \in Request :
          /\ Doing(r, "role") => request[r].read \in Files /\ Known(request[r].read.users, request[r].read.sessions)
          /\ Doing(r, "session") => /\ request[r].read \in Session /\ request[r].read.owner \in given
                                    /\ request[r].ticket \in given
          /\ Doing(r, "account") => request[r].read \in Account
          /\ request[r].does \in {"login", "open", "account"} => request[r].user \in given

\* One request may change, and more be given.
LEMMA RequestKnown ==
  ASSUME AccountsKnown, given \subseteq given', given' \subseteq User \cup Ticket,
         NEW r \in Request, NEW q \in Asked \cup {NoRequest}, request' = [request EXCEPT ![r] = q],
         users' \in [User -> Account \cup {Absent}], sessions' \in [Ticket -> Session \cup {Absent}],
         guesses' \in [User -> Nat], Known(users, sessions)',
         q.does = "role" => q.read \in Files /\ Known(q.read.users, q.read.sessions),
         q.does = "session" => /\ q.read \in Session /\ q.read.owner \in given /\ q.ticket \in given,
         q.does = "account" => q.read \in Account,
         q.does \in {"login", "open", "account"} => q.user \in given
  PROVE  AccountsKnown'
  <1>1. request' \in [Request -> Asked \cup {NoRequest}] /\ AccountsTyped'
    BY DEF AccountsKnown, AccountsTyped
  <1>2. ASSUME NEW s \in Request
        PROVE  /\ Doing(s, "role")' => /\ request'[s].read \in Files
                                       /\ Known(request[s].read.users, request[s].read.sessions)'
               /\ Doing(s, "session")' => /\ request'[s].read \in Session /\ request'[s].read.owner \in given'
                                          /\ request'[s].ticket \in given'
               /\ Doing(s, "account")' => request'[s].read \in Account
               /\ request'[s].does \in {"login", "open", "account"} => request'[s].user \in given'
    <2>1. CASE s = r
      <3>1. request'[s] = q
        BY <2>1 DEF AccountsKnown, AccountsTyped
      <3>2. QED
        BY <3>1 DEF Doing, Known
    <2>2. CASE s # r
      <3>1. request'[s] = request[s]
        BY <2>2 DEF AccountsKnown, AccountsTyped
      <3>2. QED
        BY <3>1 DEF AccountsKnown, Doing, Known
    <2>3. QED
      BY <2>1, <2>2
  <1>3. QED
    BY <1>1, <1>2 DEF AccountsKnown

\* No request changes.
LEMMA RequestsStayKnown ==
  ASSUME AccountsKnown, given \subseteq given', given' \subseteq User \cup Ticket, request' = request,
         users' \in [User -> Account \cup {Absent}], sessions' \in [Ticket -> Session \cup {Absent}],
         guesses' \in [User -> Nat], Known(users, sessions)'
  PROVE  AccountsKnown'
  <1>1. AccountsTyped'
    BY DEF AccountsKnown, AccountsTyped
  <1>2. ASSUME NEW s \in Request
        PROVE  /\ Doing(s, "role")' => /\ request'[s].read \in Files
                                       /\ Known(request[s].read.users, request[s].read.sessions)'
               /\ Doing(s, "session")' => /\ request'[s].read \in Session /\ request'[s].read.owner \in given'
                                          /\ request'[s].ticket \in given'
               /\ Doing(s, "account")' => request'[s].read \in Account
               /\ request'[s].does \in {"login", "open", "account"} => request'[s].user \in given'
    BY DEF AccountsKnown, Doing, Known
  <1>3. QED
    BY <1>1, <1>2 DEF AccountsKnown

LEMMA AccountsStayKnown ==
  ASSUME AccountsKnown, [AccountsNext]_accountsVars
  PROVE  AccountsKnown'
  <1> USE AccountsAssumption
  <1>a. AccountsTyped /\ given \subseteq User \cup Ticket /\ Known(users, sessions)
    BY DEF AccountsKnown
  <1>b. /\ NoRequest.does = "nothing" /\ NoRequest \in Asked \cup {NoRequest}
        /\ \A r \in Request : request[r] \in Asked \/ Doing(r, "nothing")
    BY <1>a DEF NoRequest, AccountsTyped, Doing
  <1>1. ASSUME NEW u \in User, AddUser(u) PROVE AccountsKnown'
    <2>1. users' \in [User -> Account \cup {Absent}] /\ Known(users, sessions)'
      BY <1>1, <1>a DEF AddUser, Known, AccountsTyped, Account
    <2>2. QED
      BY <1>1, <1>a, <2>1, RequestsStayKnown DEF AddUser, AccountsTyped
  <1>2. ASSUME NEW u \in User, Unlock(u) PROVE AccountsKnown'
    <2>1. users[u] \in Account /\ users[u] # Absent
      BY <1>2, <1>a DEF Unlock, AccountsTyped
    <2>2. users' \in [User -> Account \cup {Absent}] /\ guesses' \in [User -> Nat]
      <3>1. [users[u] EXCEPT !.locked = FALSE] \in Account
        BY <2>1, UnlockedIs
      <3>2. QED
        BY <1>2, <1>a, <3>1 DEF Unlock, AccountsTyped
    <2>3. Known(users, sessions)'
      BY <1>2, <1>a, <2>1 DEF Unlock, Known, AccountsTyped
    <2>4. QED
      BY <1>2, <1>a, <2>2, <2>3, RequestsStayKnown DEF Unlock, AccountsTyped
  <1>3. ASSUME NEW u \in User, NEW on \in BOOLEAN, SwitchUser(u, on) PROVE AccountsKnown'
    <2>1. users[u] \in Account /\ users[u] # Absent
      BY <1>3, <1>a DEF SwitchUser, AccountsTyped
    <2>2. users' \in [User -> Account \cup {Absent}]
      <3>1. [users[u] EXCEPT !.enabled = on] \in Account
        BY <2>1, EditedIs
      <3>2. QED
        BY <1>3, <1>a, <3>1 DEF SwitchUser, AccountsTyped
    <2>3. Known(users, sessions)'
      BY <1>3, <1>a, <2>1 DEF SwitchUser, Known, AccountsTyped
    <2>4. QED
      BY <1>3, <1>a, <2>2, <2>3, RequestsStayKnown DEF SwitchUser, AccountsTyped
  <1>4. ASSUME NEW r \in Request, NEW what \in {"login", "delete", "account", "session", "role"},
               NEW u \in User, NEW t \in Ticket, LookUp(r, what, u, t)
        PROVE AccountsKnown'
    <2>1. Document \in Files /\ Document.users = users /\ Document.sessions = sessions
      BY <1>a DEF Document, Files, AccountsTyped
    <2> DEFINE got == CASE what = "role" -> Document
                        [] what = "session" -> sessions[t]
                        [] what \in {"login", "account"} -> users[u]
                        [] what = "delete" -> Absent
               asks == [does |-> what, user |-> u, ticket |-> t, read |-> got]
    <2>2. /\ got \in Account \cup Session \cup Files \cup {Absent}
          /\ what = "role" => got = Document
          /\ what = "session" => got \in Session /\ got.owner \in given /\ t \in given
          /\ what = "account" => got \in Account
          /\ what \in {"login", "account"} => u \in given
      BY <1>4, <1>a, <2>1 DEF LookUp, Known, AccountsTyped
    <2>3. /\ asks \in Asked /\ asks.does = what /\ asks.user = u
          /\ asks.ticket = t /\ asks.read = got
      BY <2>2 DEF Asked, Kinds
    <2>4. /\ request' = [request EXCEPT ![r] = asks]
          /\ UNCHANGED <<users, sessions, given, guesses>>
      BY <1>4 DEF LookUp, Becomes
    <2> HIDE DEF got, asks
    <2>5. Known(users, sessions)'
      BY <2>4, <1>a DEF Known
    <2>6. QED
      BY <1>a, <2>1, <2>2, <2>3, <2>4, <2>5, RequestKnown DEF AccountsTyped
  <1>5. ASSUME NEW r \in Request, NEW right \in BOOLEAN, Attempt(r, right) PROVE AccountsKnown'
    <2> DEFINE u == request[r].user
               new == [request[r] EXCEPT !.does = "open", !.read = Absent]
    <2>1. request[r] \in Asked /\ u \in User
      BY <1>5, <1>b DEF Attempt, Doing, Asked
    <2>2. new \in Asked /\ new.does = "open" /\ new.user = u
      BY <2>1 DEF Asked, Kinds
    <2>3. u \in given
      BY <1>5 DEF AccountsKnown, Attempt, Doing
    <2>4. /\ UNCHANGED <<sessions, given>>
          /\ request' = [request EXCEPT ![r] = NoRequest] \/ request' = [request EXCEPT ![r] = new]
      BY <1>5 DEF Attempt, Done, Becomes
    <2>5. users' \in [User -> Account \cup {Absent}] /\ guesses' \in [User -> Nat]
      <3>1. CASE ~Usable(users[u])
        BY <1>5, <1>a, <3>1 DEF Attempt, AccountsTyped
      <3>2. CASE Usable(users[u])
        <4>1. users[u] \in Account
          BY <1>a, <2>1, <3>2 DEF Usable, AccountsTyped
        <4>2. Welcome(users[u]) \in Account /\ Missed(users[u]) \in Account
          BY <4>1, WelcomeIs, MissedIs
        <4>3. OneMore(guesses[u]) \in Nat
          BY <1>a, <2>1 DEF OneMore, AccountsTyped
        <4>4. QED
          BY <1>5, <1>a, <2>1, <3>2, <4>2, <4>3 DEF Attempt, AccountsTyped
      <3>3. QED
        BY <3>1, <3>2
    <2>6. Known(users, sessions)'
      BY <1>5, <1>a, <2>3, <2>4 DEF Attempt, Known, AccountsTyped
    <2> HIDE DEF u, new
    <2>7. QED
      BY <1>a, <1>b, <2>2, <2>3, <2>4, <2>5, <2>6, RequestKnown DEF AccountsTyped
  <1>6. ASSUME NEW r \in Request, NEW on \in BOOLEAN, WriteBackUser(r, on) PROVE AccountsKnown'
    <2>1. request[r].user \in User /\ request[r].user \in given /\ request[r].read \in Account
      BY <1>6, <1>b DEF AccountsKnown, WriteBackUser, Doing, Asked
    <2>2. users' \in [User -> Account \cup {Absent}] /\ Known(users, sessions)'
      <3>1. [request[r].read EXCEPT !.enabled = on] \in Account
        BY <2>1, EditedIs
      <3>2. QED
        BY <1>6, <1>a, <2>1, <3>1 DEF WriteBackUser, Known, AccountsTyped
    <2>3. QED
      BY <1>6, <1>a, <1>b, <2>2, RequestKnown DEF WriteBackUser, Done, Becomes, AccountsTyped
  <1>7. ASSUME NEW r \in Request, NEW t \in Ticket, OpenSession(r, t) PROVE AccountsKnown'
    <2>1. request[r].user \in User /\ request[r].user \in given
      BY <1>7, <1>b DEF AccountsKnown, OpenSession, Doing, Asked
    <2>2. sessions' \in [Ticket -> Session \cup {Absent}] /\ Known(users, sessions)'
      BY <1>7, <1>a, <2>1 DEF OpenSession, Known, AccountsTyped, Session
    <2>3. QED
      BY <1>7, <1>a, <1>b, <2>2, RequestKnown DEF OpenSession, Done, Becomes, AccountsTyped
  <1>8. ASSUME NEW r \in Request, RevokeSession(r) PROVE AccountsKnown'
    <2> DEFINE t == request[r].ticket
               closed == [request[r].read EXCEPT !.revoked = TRUE]
    <2>1. t \in Ticket /\ t \in given /\ request[r].read \in Session /\ request[r].read.owner \in given
      BY <1>8, <1>b DEF AccountsKnown, RevokeSession, Doing, Asked
    <2>2. closed \in Session /\ closed.owner \in given
      BY <2>1 DEF Session
    <2>3. /\ sessions' = [sessions EXCEPT ![t] = closed]
          /\ request' = [request EXCEPT ![r] = NoRequest]
          /\ UNCHANGED <<users, given, guesses>>
      BY <1>8 DEF RevokeSession, Done, Becomes
    <2> HIDE DEF t, closed
    <2>4. sessions' \in [Ticket -> Session \cup {Absent}] /\ Known(users, sessions)'
      BY <1>a, <2>1, <2>2, <2>3 DEF Known, AccountsTyped
    <2>5. QED
      BY <1>a, <1>b, <2>3, <2>4, RequestKnown DEF AccountsTyped
  <1>9. ASSUME NEW r \in Request, DeleteUser(r) PROVE AccountsKnown'
    <2>1. /\ users' \in [User -> Account \cup {Absent}] /\ sessions' \in [Ticket -> Session \cup {Absent}]
          /\ Known(users, sessions)'
      BY <1>9, <1>a DEF DeleteUser, Known, AccountsTyped
    <2>2. QED
      BY <1>9, <1>a, <1>b, <2>1, RequestKnown DEF DeleteUser, Done, Becomes, AccountsTyped
  <1>10. ASSUME NEW r \in Request, WriteBackAll(r) PROVE AccountsKnown'
    <2>1. request[r].read \in Files /\ Known(request[r].read.users, request[r].read.sessions)
      BY <1>10 DEF AccountsKnown, WriteBackAll
    <2>2. /\ users' \in [User -> Account \cup {Absent}] /\ sessions' \in [Ticket -> Session \cup {Absent}]
          /\ Known(users, sessions)'
      BY <1>10, <2>1 DEF WriteBackAll, Files, Known
    <2>3. QED
      BY <1>10, <1>a, <1>b, <2>2, RequestKnown DEF WriteBackAll, Done, Becomes, AccountsTyped
  <1>11. CASE UNCHANGED accountsVars
    BY <1>11, <1>a, RequestsStayKnown DEF accountsVars, AccountsTyped, Known
  <1>12. QED
    BY <1>1, <1>2, <1>3, <1>4, <1>5, <1>6, <1>7, <1>8, <1>9, <1>10, <1>11 DEF AccountsNext

\* Accounts and sessions have their types, and had their identifiers given, even when commands
\* write back what they read long before (access/store.py, save and save_user).
THEOREM AccountsTypes == AccountsSpec => []AccountsTypeOK
  <1>1. AccountsInit => AccountsKnown
    BY AccountsAssumption DEF AccountsInit, AccountsKnown, AccountsTyped, Known, Doing, NoRequest
  <1>2. AccountsKnown => AccountsTypeOK
    BY AccountHas DEF AccountsKnown, AccountsTyped, Known, AccountsTypeOK
  <1>3. QED
    BY <1>1, <1>2, AccountsStayKnown, PTL DEF AccountsSpec

-----------------------------------------------------------------------------
(* Wire *)

AllPorts == [WireDevice -> (SUBSET Port) \cup {NoElement}]
AllEnds == [Cable -> (SUBSET End) \cup {NoElement}]

WireTyped ==
    /\ ports \in AllPorts /\ ends \in AllEnds
    /\ copy \in [Editor -> [ports : AllPorts, ends : AllEnds]]
    /\ checked \in BOOLEAN

\* What LinksAreSound says of what is in the file.
Sound(ps, es) ==
    \A w \in Cables(es) : \A x \in es[w] :
        IsPort(ps, x) /\ \A v \in Cables(es) : x \in es[v] => v = w

WireInv == WireTyped /\ (checked => Sound(ports, ends))

\* What every step does to the file, however it came to do it.
LEMMA WireIs ==
  ASSUME WireTyped
  PROVE  /\ \A d \in WireDevice : d \in Devices(ports) <=> ports[d] \in SUBSET Port
         /\ \A w \in Cable : w \in Cables(ends) <=> ends[w] \in SUBSET End
         /\ Devices(ports) \subseteq WireDevice /\ Cables(ends) \subseteq Cable
  <1>1. NoElement \notin SUBSET Port /\ NoElement \notin SUBSET End
    BY WireAssumption DEF End
  <1>2. /\ \A d \in WireDevice : ports[d] \in (SUBSET Port) \cup {NoElement}
        /\ \A w \in Cable : ends[w] \in (SUBSET End) \cup {NoElement}
    BY DEF WireTyped, AllPorts, AllEnds
  <1>3. \A d \in WireDevice : ports[d] # NoElement <=> ports[d] \in SUBSET Port
    BY <1>1, <1>2
  <1>4. \A w \in Cable : ends[w] # NoElement <=> ends[w] \in SUBSET End
    BY <1>1, <1>2
  <1>5. QED
    BY <1>3, <1>4 DEF Devices, Cables

LEMMA WireCopies ==
  ASSUME WireTyped, NEW e \in Editor
  PROVE  /\ copy[e].ports \in AllPorts /\ copy[e].ends \in AllEnds
         /\ \A w \in Cables(copy[e].ends) : w \in Cable /\ copy[e].ends[w] \in SUBSET End
  <1>1. copy[e].ports \in AllPorts /\ copy[e].ends \in AllEnds
    BY DEF WireTyped
  <1>2. \A w \in Cable : copy[e].ends[w] \in (SUBSET End) \cup {NoElement}
    BY <1>1 DEF AllEnds
  <1>3. QED
    BY <1>1, <1>2 DEF Cables

LEMMA ReloadTyped ==
  ASSUME WireTyped, NEW e \in Editor, Reload(e), ports' \in AllPorts, ends' \in AllEnds,
         checked' \in BOOLEAN
  PROVE  WireTyped'
  <1>1. [ports |-> ports', ends |-> ends'] \in [ports : AllPorts, ends : AllEnds]
    OBVIOUS
  <1>2. QED
    BY <1>1 DEF WireTyped, Reload

\* The operations of the database, as one of their callers does them.
AnyWireStep(e) ==
    \/ Refresh(e)
    \/ \E d \in WireDevice : \/ DeleteDevice(e, d)
                         \/ \E names \in SUBSET Port : AddDevice(e, d, names) \/ EditDevice(e, d, names)
                         \/ \E p, q \in Port : EditPort(e, d, p, q)
    \/ \E w \in Cable : \/ AddCable(e, w) \/ DeleteCable(e, w)
                        \/ \E data \in SUBSET End : UpdateCable(e, w, data) /\ checked' \in BOOLEAN

\* What an editor writes to a cable is a set of ends.
LEMMA WritesEnds ==
  ASSUME WireTyped, NEW e \in Editor, NEW w \in Cable,
         \/ EditCable(e, w)
         \/ \E x \in End : \/ Connect(e, w, x) \/ Disconnect(e, w, x)
                           \/ \E p \in Port : Move(e, w, x, p)
                           \/ \E y \in End : TypeEnd(e, w, x, y)
  PROVE  \E data \in SUBSET End : UpdateCable(e, w, data) /\ checked' \in BOOLEAN
  <1>1. w \in Cables(copy[e].ends) /\ copy[e].ends[w] \in SUBSET End
    BY WireCopies DEF EditCable, Connect, Disconnect, Move, TypeEnd
  <1>2. CASE EditCable(e, w)
    BY <1>1, <1>2 DEF EditCable, Checked
  <1>3. ASSUME NEW x \in End, Connect(e, w, x) \/ Disconnect(e, w, x)
        PROVE \E data \in SUBSET End : UpdateCable(e, w, data) /\ checked' \in BOOLEAN
    BY <1>1, <1>3 DEF Connect, Disconnect, Checked
  <1>4. ASSUME NEW x \in End, NEW p \in Port, Move(e, w, x, p)
        PROVE \E data \in SUBSET End : UpdateCable(e, w, data) /\ checked' \in BOOLEAN
    <2>1. <<x[1], p>> \in End
      BY DEF End
    <2>2. (copy[e].ends[w] \ {x}) \cup {<<x[1], p>>} \in SUBSET End
      BY <1>1, <2>1
    <2>3. QED
      BY <1>4, <2>2 DEF Move, Checked
  <1>5. ASSUME NEW x \in End, NEW y \in End, TypeEnd(e, w, x, y)
        PROVE \E data \in SUBSET End : UpdateCable(e, w, data) /\ checked' \in BOOLEAN
    BY <1>1, <1>5 DEF TypeEnd
  <1>6. QED
    BY <1>2, <1>3, <1>4, <1>5

LEMMA WireStepIs ==
  ASSUME WireTyped, WireNext
  PROVE  \E e \in Editor : AnyWireStep(e)
  BY WritesEnds DEF WireNext, AnyWireStep

LEMMA WireTypes == ASSUME WireTyped, [WireNext]_wireVars PROVE WireTyped'
  <1>1. CASE UNCHANGED wireVars
    BY <1>1 DEF wireVars, WireTyped
  <1>2. ASSUME NEW e \in Editor, AnyWireStep(e) PROVE WireTyped'
    <2>1. CASE Refresh(e)
      BY <2>1, ReloadTyped DEF Refresh, WireTyped
    <2>2. ASSUME NEW d \in WireDevice, DeleteDevice(e, d) PROVE WireTyped'
      <3>1. ports' = [ports EXCEPT ![d] = NoElement]
        BY <2>2 DEF DeleteDevice
      <3> ports' \in AllPorts
        BY <3>1 DEF WireTyped, AllPorts
      <3>2. ends' \in AllEnds
        BY <2>2, WireIs DEF DeleteDevice, WireTyped, AllEnds
      <3>3. QED
        BY <2>2, <3>1, <3>2, ReloadTyped DEF DeleteDevice, WireTyped
    <2>3. ASSUME NEW d \in WireDevice, NEW names \in SUBSET Port, AddDevice(e, d, names) PROVE WireTyped'
      <3>1. ports' \in AllPorts
        BY <2>3 DEF AddDevice, WireTyped, AllPorts
      <3>2. QED
        BY <2>3, <3>1, ReloadTyped DEF AddDevice, WireTyped
    <2>4. ASSUME NEW d \in WireDevice, NEW names \in SUBSET Port, EditDevice(e, d, names) PROVE WireTyped'
      <3>1. ports' \in AllPorts
        BY <2>4 DEF EditDevice, UpdateDevice, WireTyped, AllPorts
      <3>2. QED
        BY <2>4, <3>1, ReloadTyped DEF EditDevice, UpdateDevice, Checked, WireTyped
    <2>5. ASSUME NEW d \in WireDevice, NEW p \in Port, NEW q \in Port, EditPort(e, d, p, q) PROVE WireTyped'
      <3>1. ports' \in AllPorts
        BY <2>5, WireIs DEF EditPort, WireTyped, AllPorts
      <3>2. <<d, q>> \in End
        BY DEF End
      <3>3. ends' \in AllEnds
        BY <2>5, <3>2, WireIs DEF EditPort, WireTyped, AllEnds
      <3>4. QED
        BY <2>5, <3>1, <3>3, ReloadTyped DEF EditPort, WireTyped
    <2>6. ASSUME NEW w \in Cable, AddCable(e, w) \/ DeleteCable(e, w) PROVE WireTyped'
      <3>1. ends' = [ends EXCEPT ![w] = {}] \/ ends' = [ends EXCEPT ![w] = NoElement]
        BY <2>6 DEF AddCable, DeleteCable
      <3> ends' \in AllEnds
        BY <3>1 DEF WireTyped, AllEnds
      <3>2. QED
        BY <2>6, <3>1, ReloadTyped DEF AddCable, DeleteCable, WireTyped
    <2>7. ASSUME NEW w \in Cable, NEW data \in SUBSET End, UpdateCable(e, w, data), checked' \in BOOLEAN
          PROVE WireTyped'
      <3>1. ends' \in AllEnds
        BY <2>7 DEF UpdateCable, WireTyped, AllEnds
      <3>2. QED
        BY <2>7, <3>1, ReloadTyped DEF UpdateCable, WireTyped
    <2>8. QED
      BY <1>2, <2>1, <2>2, <2>3, <2>4, <2>5, <2>6, <2>7 DEF AnyWireStep
  <1>3. QED
    BY <1>1, <1>2, WireStepIs

LEMMA WireStarts == ASSUME WireInit PROVE WireTyped
  <1>1. ports \in AllPorts /\ ends \in AllEnds
    BY DEF WireInit, AllPorts, AllEnds
  <1>2. Current \in [ports : AllPorts, ends : AllEnds]
    BY <1>1 DEF Current
  <1>3. QED
    BY <1>1, <1>2 DEF WireInit, WireTyped

\* The file of LANWIRE and the copies that editors work on keep their types,
\* through every operation of IDFDatabaseManager and every commit of an editor.
THEOREM WireTypesHold == WireSpec => []WireTyped
  BY WireStarts, WireTypes, PTL DEF WireSpec

\* A port that a cable keeps is not taken from it by any step.
LEMMA PortsStay ==
  ASSUME WireTyped, [WireNext]_wireVars, NEW w \in Cables(ends) \cap Cables(ends'),
         NEW x \in ends[w] \cap ends'[w], IsPort(ports, x)
  PROVE  IsPort(ports', x)
  <1>1. w \in Cable /\ x \in End /\ x = <<x[1], x[2]>> /\ x[1] \in WireDevice
    BY WireIs DEF End
  <1>2. ASSUME ports' = ports PROVE IsPort(ports', x)
    BY <1>2
  <1>3. ASSUME NEW e \in Editor, AnyWireStep(e) PROVE IsPort(ports', x)
    <2>1. ASSUME NEW d \in WireDevice, DeleteDevice(e, d) PROVE IsPort(ports', x)
      <3>1. x[1] # d
        BY <1>1, <2>1 DEF DeleteDevice, WireTyped, AllEnds
      <3>2. QED
        BY <1>1, <2>1, <3>1 DEF DeleteDevice, IsPort, Devices, WireTyped, AllPorts
    <2>2. ASSUME NEW d \in WireDevice, NEW names \in SUBSET Port, AddDevice(e, d, names) PROVE IsPort(ports', x)
      BY <1>1, <2>2 DEF AddDevice, IsPort, Devices, WireTyped, AllPorts
    <2>3. ASSUME NEW d \in WireDevice, NEW names \in SUBSET Port, EditDevice(e, d, names) PROVE IsPort(ports', x)
      <3>1. x[1] = d => x[2] \in names
        BY <1>1, <2>3 DEF EditDevice, UpdateDevice, Used, Current, IsPort
      <3>2. names # NoElement
        BY WireAssumption
      <3>3. QED
        BY <1>1, <2>3, <3>1, <3>2 DEF EditDevice, UpdateDevice, IsPort, Devices, WireTyped, AllPorts
    <2>4. ASSUME NEW d \in WireDevice, NEW p \in Port, NEW q \in Port, EditPort(e, d, p, q)
          PROVE IsPort(ports', x)
      <3>1. p # q /\ ports[d] \in SUBSET Port
        BY <2>4, WireIs DEF EditPort
      <3>2. <<d, p>> \in ends[w] => ends'[w] = (ends[w] \ {<<d, p>>}) \cup {<<d, q>>}
        BY <1>1, <2>4 DEF EditPort, Cables
      <3>3. x # <<d, p>>
        BY <3>1, <3>2
      <3>4. (ports[d] \ {p}) \cup {q} # NoElement
        BY <3>1, WireAssumption
      <3>5. ports' = [ports EXCEPT ![d] = (ports[d] \ {p}) \cup {q}]
        BY <2>4 DEF EditPort
      <3>6. QED
        BY <1>1, <3>3, <3>4, <3>5 DEF IsPort, Devices, WireTyped, AllPorts
    <2>5. QED
      BY <1>2, <1>3, <2>1, <2>2, <2>3, <2>4 DEF AnyWireStep, Refresh, AddCable, DeleteCable, UpdateCable
  <1>4. CASE UNCHANGED wireVars
    BY <1>2, <1>4 DEF wireVars
  <1>5. QED
    BY <1>3, <1>4, WireStepIs

\* For any editors, however old their copies, a link that is kept keeps its port
\* (wire/idf/database.py, update, edit_port and delete).
THEOREM LinksKeepTheirPorts == WireSpec => UsedPortsStay
  <1>1. WireTyped /\ [WireNext]_wireVars =>
           [\A w \in Cables(ends) \cap Cables(ends') : \A x \in ends[w] \cap ends'[w] :
               IsPort(ports, x) => IsPort(ports', x)]_wireVars
    BY PortsStay
  <1>2. QED
    BY <1>1, WireTypesHold, PTL DEF WireSpec, UsedPortsStay

\* A cable that is written keeps what is sound, if its ends are sound and its own.
LEMMA OneCableSound ==
  ASSUME WireTyped, Sound(ports, ends), NEW w \in Cable, NEW data \in SUBSET End,
         ports' = ports, ends' = [ends EXCEPT ![w] = data],
         \A x \in data : IsPort(ports, x) /\ \A v \in Cables(ends) : x \in ends[v] => v = w
  PROVE  Sound(ports', ends')
  <1>1. /\ DOMAIN ends = Cable /\ ends'[w] = data
        /\ \A v \in Cable : v # w => ends'[v] = ends[v] /\ (v \in Cables(ends) <=> v \in Cables(ends'))
    BY DEF WireTyped, AllEnds, Cables
  <1>2. ASSUME NEW v \in Cables(ends'), NEW x \in ends'[v], NEW u \in Cables(ends'), x \in ends'[u]
        PROVE  IsPort(ports, x) /\ u = v
    <2>1. u \in Cable /\ v \in Cable
      BY DEF Cables
    <2>2. CASE v = w
      BY <1>1, <1>2, <2>1, <2>2
    <2>3. CASE v # w /\ u = w
      BY <1>1, <1>2, <2>1, <2>3
    <2>4. CASE v # w /\ u # w
      BY <1>1, <1>2, <2>1, <2>4 DEF Sound
    <2>5. QED
      BY <2>2, <2>3, <2>4
  <1>3. ASSUME NEW v \in Cables(ends'), NEW x \in ends'[v] PROVE IsPort(ports', x)
    <2>1. IsPort(ports, x)
      BY <1>2
    <2>2. QED
      BY <2>1
  <1>4. ASSUME NEW v \in Cables(ends'), NEW x \in ends'[v], NEW u \in Cables(ends'), x \in ends'[u]
        PROVE  u = v
    BY <1>2, <1>4
  <1>5. QED
    BY <1>3, <1>4 DEF Sound

\* An editor whose copy is the file.
LEMMA CheckedEditorsSound ==
  ASSUME WireTyped, Sound(ports, ends), checked', NEW e \in Editor, NEW w \in Cable,
         \/ EditCable(e, w)
         \/ \E x \in End : \/ Connect(e, w, x) \/ Disconnect(e, w, x)
                           \/ \E p \in Port : Move(e, w, x, p)
                           \/ \E y \in End : TypeEnd(e, w, x, y)
  PROVE  Sound(ports', ends')
  <1>1. copy[e].ports = ports /\ copy[e].ends = ends /\ copy[e] = Current
    <2>1. copy[e] = Current
      BY DEF EditCable, Connect, Disconnect, Move, TypeEnd, Checked
    <2>2. QED
      BY <2>1 DEF Current
  <1>2. w \in Cables(ends) /\ ends[w] \in SUBSET End
    BY <1>1, WireIs DEF EditCable, Connect, Disconnect, Move, TypeEnd
  <1>3. \A x \in ends[w] : IsPort(ports, x) /\ \A v \in Cables(ends) : x \in ends[v] => v = w
    BY <1>2 DEF Sound
  <1>4. ASSUME NEW end \in End, Uncabled(copy[e], end)
        PROVE  IsPort(ports, end) /\ \A v \in Cables(ends) : end \notin ends[v]
    BY <1>1, <1>4 DEF Uncabled, IsPort, Used
  <1>5. CASE EditCable(e, w)
    BY <1>1, <1>2, <1>3, <1>5, OneCableSound DEF EditCable, UpdateCable
  <1>6. ASSUME NEW x \in End, Disconnect(e, w, x) PROVE Sound(ports', ends')
    <2>1. ends[w] \ {x} \in SUBSET End
      BY <1>2
    <2>2. ports' = ports /\ ends' = [ends EXCEPT ![w] = ends[w] \ {x}]
      BY <1>1, <1>6 DEF Disconnect, UpdateCable
    <2>3. QED
      BY <1>3, <2>1, <2>2, OneCableSound
  <1>7. ASSUME NEW x \in End, Connect(e, w, x) PROVE Sound(ports', ends')
    <2>1. ends[w] \cup {x} \in SUBSET End
      BY <1>2
    <2>2. ports' = ports /\ ends' = [ends EXCEPT ![w] = ends[w] \cup {x}] /\ Uncabled(copy[e], x)
      BY <1>1, <1>7 DEF Connect, UpdateCable
    <2>3. \A y \in ends[w] \cup {x} : IsPort(ports, y) /\ \A v \in Cables(ends) : y \in ends[v] => v = w
      BY <1>3, <1>4, <2>2
    <2>4. QED
      BY <2>1, <2>2, <2>3, OneCableSound
  <1>8. ASSUME NEW x \in End, NEW p \in Port, Move(e, w, x, p) PROVE Sound(ports', ends')
    <2> DEFINE y == <<x[1], p>>
               data == (ends[w] \ {x}) \cup {y}
    <2>1. y \in End
      BY DEF End
    <2>2. data \in SUBSET End
      BY <1>2, <2>1
    <2>3. ports' = ports /\ ends' = [ends EXCEPT ![w] = data] /\ Uncabled(copy[e], y)
      BY <1>1, <1>8 DEF Move, UpdateCable
    <2>4. \A z \in data : IsPort(ports, z) /\ \A v \in Cables(ends) : z \in ends[v] => v = w
      BY <1>3, <1>4, <2>1, <2>3
    <2> HIDE DEF data
    <2>5. QED
      BY <2>2, <2>3, <2>4, OneCableSound
  <1>9. ASSUME NEW x \in End, NEW y \in End, TypeEnd(e, w, x, y) PROVE Sound(ports', ends')
    BY <1>9 DEF TypeEnd
  <1>10. QED
    BY <1>5, <1>6, <1>7, <1>8, <1>9

LEMMA WireSound ==
  ASSUME WireTyped, Sound(ports, ends), checked', NEW e \in Editor,
         \/ Refresh(e)
         \/ \E d \in WireDevice :
               \/ DeleteDevice(e, d)
               \/ \E names \in SUBSET Port : AddDevice(e, d, names) \/ EditDevice(e, d, names)
               \/ \E p, q \in Port : EditPort(e, d, p, q)
         \/ \E w \in Cable : AddCable(e, w) \/ DeleteCable(e, w)
  PROVE  Sound(ports', ends')
  <1> DEFINE Ended(v, x) == v \in Cables(ends) /\ x \in ends[v]
  <1>1. ASSUME NEW v \in Cable, NEW x, Ended(v, x)
        PROVE  /\ x \in End /\ x = <<x[1], x[2]>> /\ x[1] \in WireDevice
               /\ ports[x[1]] # NoElement /\ x[2] \in ports[x[1]]
               /\ \A u \in Cable : Ended(u, x) => u = v
    <2>1. x \in End
      BY <1>1, WireIs
    <2>2. QED
      BY <1>1, <2>1 DEF Sound, IsPort, Devices, End
  <1>2. CASE Refresh(e)
    BY <1>2 DEF Refresh
  <1>3. ASSUME NEW d \in WireDevice, DeleteDevice(e, d) PROVE Sound(ports', ends')
    <2>1. ASSUME NEW v \in Cables(ends'), NEW x \in ends'[v]
          PROVE  v \in Cable /\ Ended(v, x) /\ x[1] # d
      BY <1>3, <2>1 DEF DeleteDevice, Cables
    <2>2. ASSUME NEW v \in Cables(ends'), NEW x \in ends'[v] PROVE IsPort(ports', x)
      BY <1>1, <1>3, <2>1 DEF DeleteDevice, IsPort, Devices, WireTyped, AllPorts
    <2>3. QED
      BY <1>1, <2>1, <2>2 DEF Sound
  <1>4. ASSUME NEW d \in WireDevice, NEW names \in SUBSET Port, AddDevice(e, d, names)
        PROVE Sound(ports', ends')
    <2>1. ASSUME NEW v \in Cables(ends), NEW x \in ends[v] PROVE IsPort(ports', x)
      <3>1. v \in Cable /\ Ended(v, x)
        BY DEF Cables
      <3>2. x[1] # d
        BY <1>1, <1>4, <3>1 DEF AddDevice
      <3>3. QED
        BY <1>1, <1>4, <3>1, <3>2 DEF AddDevice, IsPort, Devices, WireTyped, AllPorts
    <2>2. ends' = ends
      BY <1>4 DEF AddDevice
    <2>3. QED
      BY <2>1, <2>2 DEF Sound
  <1>5. ASSUME NEW d \in WireDevice, NEW names \in SUBSET Port, EditDevice(e, d, names)
        PROVE Sound(ports', ends')
    <2>1. ends' = ends /\ ports' = [ports EXCEPT ![d] = names] /\ names # NoElement
      BY <1>5, WireAssumption DEF EditDevice, UpdateDevice
    <2>2. \A p \in ports[d] \ names : ~Used(Current, <<d, p>>)
      BY <1>5 DEF EditDevice, UpdateDevice
    <2>3. ASSUME NEW v \in Cables(ends), NEW x \in ends[v] PROVE IsPort(ports', x)
      <3>1. v \in Cable /\ Ended(v, x)
        BY DEF Cables
      <3>2. Used(Current, x)
        BY <2>3 DEF Used, Current
      <3>3. x[1] = d => x[2] \in names
        BY <1>1, <2>2, <3>1, <3>2
      <3>4. QED
        BY <1>1, <2>1, <3>1, <3>3 DEF IsPort, Devices, WireTyped, AllPorts
    <2>4. ends' = ends
      BY <2>1
    <2>5. QED
      BY <2>3, <2>4 DEF Sound
  <1>6. ASSUME NEW d \in WireDevice, NEW p \in Port, NEW q \in Port, EditPort(e, d, p, q)
        PROVE Sound(ports', ends')
    <2> DEFINE named(x) == IF x = <<d, p>> THEN <<d, q>> ELSE x
    <2>1. p \in ports[d] /\ q \notin ports[d] /\ ports[d] \in SUBSET Port
      BY <1>6, WireIs DEF EditPort
    <2>2. \A v \in Cable : ~Ended(v, <<d, q>>)
      BY <1>1, <2>1
    <2>3. ASSUME NEW v \in Cables(ends'), NEW y \in ends'[v]
          PROVE  /\ v \in Cable
                 /\ y # <<d, q>> => Ended(v, y) /\ y # <<d, p>>
                 /\ y = <<d, q>> => Ended(v, <<d, p>>)
      <3>1. v \in Cable /\ v \in Cables(ends)
        BY <1>6 DEF EditPort, Cables
      <3>2. ends'[v] = IF <<d, p>> \in ends[v] THEN (ends[v] \ {<<d, p>>}) \cup {<<d, q>>} ELSE ends[v]
        BY <1>6, <3>1 DEF EditPort
      <3>3. QED
        BY <2>2, <3>1, <3>2
    <2>4. ports' = [ports EXCEPT ![d] = (ports[d] \ {p}) \cup {q}]
      BY <1>6 DEF EditPort
    <2>5. (ports[d] \ {p}) \cup {q} # NoElement
      BY <2>1, WireAssumption
    <2>6. ASSUME NEW v \in Cables(ends'), NEW y \in ends'[v] PROVE IsPort(ports', y)
      <3>1. CASE y = <<d, q>>
        BY <2>4, <2>5, <3>1 DEF IsPort, Devices, WireTyped, AllPorts
      <3>2. CASE y # <<d, q>>
        <4>1. v \in Cable /\ Ended(v, y) /\ y # <<d, p>>
          BY <2>3, <3>2
        <4>2. QED
          BY <1>1, <2>4, <2>5, <4>1 DEF IsPort, Devices, WireTyped, AllPorts
      <3>3. QED
        BY <3>1, <3>2
    <2>7. ASSUME NEW v \in Cables(ends'), NEW y \in ends'[v], NEW u \in Cables(ends'), y \in ends'[u]
          PROVE  u = v
      <3>1. CASE y = <<d, q>>
        BY <1>1, <2>3, <2>7, <3>1
      <3>2. CASE y # <<d, q>>
        BY <1>1, <2>3, <2>7, <3>2
      <3>3. QED
        BY <3>1, <3>2
    <2>8. QED
      BY <2>6, <2>7 DEF Sound
  <1>7. ASSUME NEW w \in Cable, AddCable(e, w) \/ DeleteCable(e, w) PROVE Sound(ports', ends')
    <2>1. ports' = ports
      BY <1>7 DEF AddCable, DeleteCable
    <2>2. ASSUME NEW v \in Cables(ends'), NEW x \in ends'[v] PROVE v \in Cable /\ Ended(v, x)
      <3>1. ends' = [ends EXCEPT ![w] = {}] \/ ends' = [ends EXCEPT ![w] = NoElement]
        BY <1>7 DEF AddCable, DeleteCable
      <3>2. v \in Cable /\ v # w
        BY <2>2, <3>1 DEF Cables, WireTyped, AllEnds
      <3>3. QED
        BY <2>2, <3>1, <3>2 DEF Cables, WireTyped, AllEnds
    <2>3. QED
      BY <1>1, <2>1, <2>2 DEF Sound, IsPort, Devices
  <1>8. QED
    BY <1>2, <1>3, <1>4, <1>5, <1>6, <1>7

LEMMA WireSteps == ASSUME WireInv, [WireNext]_wireVars PROVE WireInv'
  <1>1. WireTyped'
    BY WireTypes DEF WireInv
  <1>2. ASSUME checked' PROVE Sound(ports', ends')
    <2>1. CASE UNCHANGED wireVars
      BY <1>2, <2>1 DEF WireInv, wireVars
    <2>2. CASE WireNext
      <3>1. checked
        <4>1. ASSUME NEW e \in Editor, NEW w \in Cable,
                     \/ EditCable(e, w)
                     \/ \E x \in End : \/ Connect(e, w, x) \/ Disconnect(e, w, x)
                                       \/ \E p \in Port : Move(e, w, x, p)
                                       \/ \E y \in End : TypeEnd(e, w, x, y)
              PROVE checked
          BY <1>2, <4>1 DEF EditCable, Connect, Disconnect, Move, TypeEnd, Checked
        <4>2. ASSUME NEW e \in Editor, NEW d \in WireDevice,
                     \/ DeleteDevice(e, d)
                     \/ \E names \in SUBSET Port : AddDevice(e, d, names) \/ EditDevice(e, d, names)
                     \/ \E p, q \in Port : EditPort(e, d, p, q)
              PROVE checked
          BY <1>2, <4>2 DEF DeleteDevice, AddDevice, EditDevice, EditPort, Checked
        <4>3. ASSUME NEW e \in Editor, NEW w \in Cable, Refresh(e) \/ AddCable(e, w) \/ DeleteCable(e, w)
              PROVE checked
          BY <1>2, <4>3 DEF Refresh, AddCable, DeleteCable
        <4>4. ASSUME NEW e \in Editor, Refresh(e) PROVE checked
          BY <1>2, <4>4 DEF Refresh
        <4>5. QED
          BY <2>2, <4>1, <4>2, <4>3, <4>4 DEF WireNext
      <3>2. WireTyped /\ Sound(ports, ends)
        BY <3>1 DEF WireInv
      <3>3. QED
        BY <1>2, <2>2, <3>2, WireSound, CheckedEditorsSound DEF WireNext
    <2>3. QED
      BY <2>1, <2>2
  <1>3. QED
    BY <1>1, <1>2 DEF WireInv

\* Topologies stay sound as long as nobody wrote an old copy or typed an end by hand, for any
\* devices and cables (wire/idf/database.py; wire/tui/app.py, the connection actions).
THEOREM TopologyIsSound == WireSpec => []LinksAreSound
  <1>1. WireInit => WireInv
    <2>1. WireInit => Cables(ends) = {}
      BY DEF WireInit, Cables
    <2>2. QED
      BY <2>1, WireStarts DEF WireInv, Sound
  <1>2. WireInv => LinksAreSound
    BY DEF WireInv, Sound, LinksAreSound
  <1>3. QED
    BY <1>1, <1>2, WireSteps, PTL DEF WireSpec

\* A cable has two ends at most, in the file and in every copy of it.
Ended(data) == \E x, y \in End : data \subseteq {x, y}
TwoEnds(es) == \A w \in Cables(es) : es[w] = {} \/ Ended(es[w])
WirePairs == WireTyped /\ TwoEnds(ends) /\ \A e \in Editor : TwoEnds(copy[e].ends)

LEMMA TwoIsTwo ==
  ASSUME NEW data \in SUBSET End, data = {} \/ Ended(data)
  PROVE  IsFiniteSet(data) /\ Cardinality(data) <= 2
  <1>1. CASE data = {}
    BY <1>1, FS_EmptySet
  <1>2. ASSUME NEW x \in End, NEW y \in End, data \subseteq {x, y}
        PROVE IsFiniteSet(data) /\ Cardinality(data) <= 2
    <2>1. IsFiniteSet({x}) /\ Cardinality({x}) = 1
      BY FS_Singleton
    <2>2. /\ IsFiniteSet({x} \cup {y})
          /\ Cardinality({x} \cup {y}) = IF y \in {x} THEN Cardinality({x}) ELSE Cardinality({x}) + 1
      BY <2>1, FS_AddElement
    <2>3. data \subseteq {x} \cup {y}
      BY <1>2
    <2>4. IsFiniteSet(data) /\ Cardinality(data) <= Cardinality({x} \cup {y}) /\ Cardinality(data) \in Nat
      BY <2>2, <2>3, FS_Subset, FS_CardinalityType
    <2>5. QED
      BY <2>1, <2>2, <2>4
  <1>3. QED
    BY <1>1, <1>2 DEF Ended

\* A set that has at most two, and not two, has room for one.
LEMMA RoomForOne ==
  ASSUME NEW data \in SUBSET End, data = {} \/ Ended(data), Cardinality(data) < 2, NEW z \in End
  PROVE  Ended(data \cup {z})
  <1>1. CASE data = {}
    BY <1>1 DEF Ended
  <1>2. ASSUME NEW x \in End, NEW y \in End, data \subseteq {x, y}
        PROVE Ended(data \cup {z})
    <2>1. CASE data = {x, y} /\ x # y
      <3>1. IsFiniteSet({x}) /\ Cardinality({x}) = 1
        BY FS_Singleton
      <3>2. Cardinality({x} \cup {y}) = 2
        BY <2>1, <3>1, FS_AddElement
      <3>3. data = {x} \cup {y}
        BY <2>1
      <3>4. QED
        BY <3>2, <3>3
    <2>2. CASE x = y \/ x \notin data \/ y \notin data
      <3>1. data \cup {z} \subseteq {y, z} \/ data \cup {z} \subseteq {x, z}
        BY <1>2, <2>2
      <3>2. QED
        BY <3>1 DEF Ended
    <2>3. QED
      BY <1>2, <2>1, <2>2
  <1>3. QED
    BY <1>1, <1>2 DEF Ended

LEMMA ReplacedEnd ==
  ASSUME NEW data \in SUBSET End, data = {} \/ Ended(data), NEW z \in data, NEW new \in End
  PROVE  Ended((data \ {z}) \cup {new})
  <1>1. ASSUME NEW x \in End, NEW y \in End, data \subseteq {x, y}
        PROVE Ended((data \ {z}) \cup {new})
    <2>1. (data \ {z}) \cup {new} \subseteq {x, new} \/ (data \ {z}) \cup {new} \subseteq {y, new}
      BY <1>1
    <2>2. QED
      BY <2>1 DEF Ended
  <1>2. QED
    BY <1>1 DEF Ended

LEMMA FewerEnds ==
  ASSUME NEW data, NEW less \in SUBSET data, data = {} \/ Ended(data)
  PROVE  less = {} \/ Ended(less)
  BY DEF Ended

\* What a step writes to a cable is two ends at most, if that is so of what its editor has read.
LEMMA WritesTwo ==
  ASSUME WirePairs, NEW e \in Editor, NEW w \in Cable,
         \/ EditCable(e, w)
         \/ \E x \in End : \/ Connect(e, w, x) \/ Disconnect(e, w, x)
                           \/ \E p \in Port : Move(e, w, x, p)
                           \/ \E y \in End : TypeEnd(e, w, x, y)
  PROVE  \E data \in SUBSET End : UpdateCable(e, w, data) /\ (data = {} \/ Ended(data))
  <1> DEFINE kept == copy[e].ends[w]
  <1>1. w \in Cables(copy[e].ends) /\ kept \in SUBSET End /\ (kept = {} \/ Ended(kept))
    BY WireCopies DEF WirePairs, TwoEnds, EditCable, Connect, Disconnect, Move, TypeEnd
  <1>2. CASE EditCable(e, w)
    BY <1>1, <1>2 DEF EditCable
  <1>3. ASSUME NEW x \in End, Connect(e, w, x)
        PROVE \E data \in SUBSET End : UpdateCable(e, w, data) /\ (data = {} \/ Ended(data))
    BY <1>1, <1>3, RoomForOne DEF Connect
  <1>4. ASSUME NEW x \in End, Disconnect(e, w, x)
        PROVE \E data \in SUBSET End : UpdateCable(e, w, data) /\ (data = {} \/ Ended(data))
    <2>1. kept \ {x} \in SUBSET End /\ (kept \ {x} = {} \/ Ended(kept \ {x}))
      BY <1>1, FewerEnds
    <2>2. QED
      BY <1>4, <2>1 DEF Disconnect
  <1>5. ASSUME NEW x \in End, NEW p \in Port, Move(e, w, x, p)
        PROVE \E data \in SUBSET End : UpdateCable(e, w, data) /\ (data = {} \/ Ended(data))
    <2>1. <<x[1], p>> \in End /\ x \in kept
      BY <1>5 DEF End, Move
    <2>2. (kept \ {x}) \cup {<<x[1], p>>} \in SUBSET End /\ Ended((kept \ {x}) \cup {<<x[1], p>>})
      BY <1>1, <2>1, ReplacedEnd
    <2>3. QED
      BY <1>5, <2>2 DEF Move
  <1>6. ASSUME NEW x \in End, NEW y \in End, TypeEnd(e, w, x, y)
        PROVE \E data \in SUBSET End : UpdateCable(e, w, data) /\ (data = {} \/ Ended(data))
    <2>1. (kept \ {x}) \cup {y} \in SUBSET End /\ Ended((kept \ {x}) \cup {y})
      BY <1>1, <1>6, ReplacedEnd DEF TypeEnd
    <2>2. QED
      BY <1>6, <2>1 DEF TypeEnd
  <1>7. QED
    BY <1>2, <1>3, <1>4, <1>5, <1>6

LEMMA WirePairsStep ==
  ASSUME WirePairs, [WireNext]_wireVars
  PROVE  WirePairs'
  <1>1. WireTyped /\ WireTyped'
    BY WireTypes DEF WirePairs
  <1>2. NoElement # {} /\ NoElement \notin SUBSET End
    BY WireAssumption DEF End
  <1>3. ASSUME NEW e \in Editor, Reload(e), TwoEnds(ends') PROVE WirePairs'
    <2>1. ASSUME NEW f \in Editor PROVE TwoEnds(copy'[f].ends)
      <3>1. CASE f = e
        BY <1>1, <1>3, <3>1 DEF Reload, WireTyped
      <3>2. CASE f # e
        BY <1>1, <1>3, <3>2 DEF Reload, WireTyped, WirePairs
      <3>3. QED
        BY <3>1, <3>2
    <2>2. QED
      BY <1>1, <1>3, <2>1 DEF WirePairs
  <1>4. ASSUME NEW w \in Cable, NEW data \in SUBSET End, data = {} \/ Ended(data),
               ends' = [ends EXCEPT ![w] = data]
        PROVE TwoEnds(ends')
    BY <1>1, <1>4 DEF WirePairs, WireTyped, AllEnds, TwoEnds, Cables
  <1>5. CASE UNCHANGED wireVars
    BY <1>1, <1>5 DEF wireVars, WirePairs
  <1>6. ASSUME NEW e \in Editor, Refresh(e) PROVE WirePairs'
    BY <1>3, <1>6 DEF Refresh, WirePairs
  <1>7. ASSUME NEW e \in Editor, NEW d \in WireDevice, DeleteDevice(e, d) PROVE WirePairs'
    <2>1. ASSUME NEW w \in Cables(ends') PROVE ends'[w] = {} \/ Ended(ends'[w])
      <3>1. w \in Cable /\ ends'[w] = IF w \in Cables(ends) THEN {x \in ends[w] : x[1] # d} ELSE ends[w]
        BY <1>7, <2>1 DEF DeleteDevice, Cables
      <3>2. w \in Cables(ends)
        BY <2>1, <3>1 DEF Cables
      <3>3. ends'[w] \in SUBSET ends[w]
        BY <3>1, <3>2
      <3>4. QED
        BY <3>2, <3>3, FewerEnds DEF WirePairs, TwoEnds
    <2>2. QED
      BY <1>3, <1>7, <2>1 DEF DeleteDevice, TwoEnds
  <1>8. ASSUME NEW e \in Editor, NEW d \in WireDevice, NEW names \in SUBSET Port,
               AddDevice(e, d, names) \/ EditDevice(e, d, names)
        PROVE WirePairs'
    BY <1>3, <1>8 DEF AddDevice, EditDevice, UpdateDevice, WirePairs
  <1>9. ASSUME NEW e \in Editor, NEW d \in WireDevice, NEW p \in Port, NEW q \in Port, EditPort(e, d, p, q)
        PROVE WirePairs'
    <2>1. ASSUME NEW w \in Cables(ends') PROVE ends'[w] = {} \/ Ended(ends'[w])
      <3>1. /\ w \in Cable
            /\ ends'[w] = IF w \in Cables(ends) /\ <<d, p>> \in ends[w]
                          THEN (ends[w] \ {<<d, p>>}) \cup {<<d, q>>} ELSE ends[w]
        BY <1>9, <2>1 DEF EditPort, Cables
      <3>2. w \in Cables(ends)
        BY <2>1, <3>1 DEF Cables
      <3>3. ends[w] \in SUBSET End /\ (ends[w] = {} \/ Ended(ends[w])) /\ <<d, q>> \in End
        BY <1>1, <3>1, <3>2, WireIs DEF WirePairs, TwoEnds, End
      <3>4. CASE <<d, p>> \in ends[w]
        BY <3>1, <3>2, <3>3, <3>4, ReplacedEnd
      <3>5. CASE <<d, p>> \notin ends[w]
        BY <3>1, <3>3, <3>5
      <3>6. QED
        BY <3>4, <3>5
    <2>2. QED
      BY <1>3, <1>9, <2>1 DEF EditPort, TwoEnds
  <1>10. ASSUME NEW e \in Editor, NEW w \in Cable, AddCable(e, w) PROVE WirePairs'
    BY <1>3, <1>4, <1>10 DEF AddCable
  <1>11. ASSUME NEW e \in Editor, NEW w \in Cable, DeleteCable(e, w) PROVE WirePairs'
    <2>1. TwoEnds(ends')
      BY <1>1, <1>11 DEF DeleteCable, WirePairs, WireTyped, AllEnds, TwoEnds, Cables
    <2>2. QED
      BY <1>3, <1>11, <2>1 DEF DeleteCable
  <1>12. ASSUME NEW e \in Editor, NEW w \in Cable, NEW data \in SUBSET End, data = {} \/ Ended(data),
                UpdateCable(e, w, data)
         PROVE WirePairs'
    BY <1>3, <1>4, <1>12 DEF UpdateCable
  <1>13. ASSUME WireNext PROVE WirePairs'
    <2>1. PICK e \in Editor :
            \/ Refresh(e)
            \/ \E d \in WireDevice : \/ DeleteDevice(e, d)
                         \/ \E names \in SUBSET Port : AddDevice(e, d, names) \/ EditDevice(e, d, names)
                         \/ \E p, q \in Port : EditPort(e, d, p, q)
            \/ \E w \in Cable : \/ AddCable(e, w) \/ DeleteCable(e, w) \/ EditCable(e, w)
                        \/ \E x \in End : \/ Connect(e, w, x) \/ Disconnect(e, w, x)
                                          \/ \E p \in Port : Move(e, w, x, p)
                                          \/ \E y \in End : TypeEnd(e, w, x, y)
      BY <1>13 DEF WireNext
    <2>2. QED
      BY <2>1, <1>6, <1>7, <1>8, <1>9, <1>10, <1>11, <1>12, WritesTwo
  <1>14. QED
    BY <1>5, <1>13

\* No cable has a third end, though an end is added to an old copy of it: the whole copy is
\* written (wire/tui/app.py, _connect_selected_port).
THEOREM CablesHaveTwoEnds == WireSpec => []WireTypeOK
  <1>1. WireInit => WirePairs
    <2>1. SUFFICES ASSUME WireInit PROVE WirePairs
      OBVIOUS
    <2>2. \A w \in Cable : ends[w] = NoElement
      BY <2>1 DEF WireInit
    <2>3. TwoEnds(ends) /\ \A e \in Editor : copy[e].ends = ends
      BY <2>1, <2>2 DEF WireInit, TwoEnds, Cables, Current
    <2>4. QED
      BY <2>1, <2>3, WireStarts DEF WirePairs
  <1>2. WirePairs => WireTypeOK
    <2>1. SUFFICES ASSUME WirePairs PROVE WireTypeOK
      OBVIOUS
    <2>2. ASSUME NEW w \in Cables(ends) PROVE ends[w] \subseteq End /\ Cardinality(ends[w]) <= 2
      <3>1. ends[w] \in SUBSET End
        BY <2>1, <2>2, WireIs DEF WirePairs
      <3>2. ends[w] = {} \/ Ended(ends[w])
        BY <2>1, <2>2 DEF WirePairs, TwoEnds
      <3>3. QED
        BY <3>1, <3>2, TwoIsTwo
    <2>3. QED
      BY <2>1, <2>2 DEF WirePairs, WireTyped, AllPorts, AllEnds, WireTypeOK
  <1>3. QED
    BY <1>1, <1>2, WirePairsStep, PTL DEF WireSpec

-----------------------------------------------------------------------------
(* Servers *)

\* What was noted of the keys is never ahead of what was built with, and that never of what
\* is there.
ServersInv ==
    /\ keys \in [Protocol -> Nat]
    /\ \A p \in Protocol : instance[p] # Nothing =>
          /\ instance[p].built.endpoint = instance[p].signature.endpoint
          /\ instance[p].signature.keys \in Nat /\ instance[p].built.keys \in Nat
          /\ instance[p].signature.keys <= instance[p].built.keys
          /\ instance[p].built.keys <= keys[p]
    /\ instance = [p \in Protocol |-> instance[p]]
    /\ build # Nothing =>
          /\ supervisor = "looks"
          /\ build.protocol \in Protocol
          /\ build.signature.endpoint = seen[build.protocol].endpoint
          /\ build.signature.keys \in Nat
          /\ build.signature.keys <= keys[build.protocol]

LEMMA SupervisorKeeps == ASSUME ServersInv, SupervisorStep PROVE ServersInv'
  <1>1. CASE Reconcile
    BY <1>1 DEF Reconcile, ServersInv
  <1>2. ASSUME NEW p \in Protocol, LookAt(p) PROVE ServersInv'
    BY <1>2 DEF LookAt, ServersInv
  <1>3. CASE Build
    BY <1>3 DEF Build, ServersInv
  <1>4. CASE Reconciled
    BY <1>4 DEF Reconciled, ServersInv
  <1>5. QED
    BY <1>1, <1>2, <1>3, <1>4 DEF SupervisorStep

\* Only new keys are of interest in a command; they are numbered upwards.
LEMMA CommandsKeep == ASSUME ServersInv, NEW c \in Command, CommandStep(c) PROVE ServersInv'
  <1>1. ASSUME NEW p \in Protocol, RotateKeys(c, p) PROVE ServersInv'
    BY <1>1 DEF RotateKeys, runtimeParts, ServersInv
  <1>2. ASSUME UNCHANGED <<keys, runtimeParts>> PROVE ServersInv'
    BY <1>2 DEF runtimeParts, ServersInv
  <1>3. QED
    BY <1>1, <1>2 DEF CommandStep, EnableProtocol, DisableProtocol, Configure, StartProcess,
        NoteProcess, SetDisabled, ClearProcess, ReadSettings, WriteSettings

\* The invariant of the remote servers (runtime.py): the keys noted in a signature
\* are not ahead of those the server was built with, nor these of those of now.
THEOREM ServersInvariant == ServersSpec => []ServersInv
  <1>1. ServersInit => ServersInv
    BY DEF ServersInit, ServersInv
  <1>2. ServersInv /\ [ServersNext]_serversVars => ServersInv'
    <2>1. SUFFICES ASSUME ServersInv, [ServersNext]_serversVars PROVE ServersInv'
      OBVIOUS
    <2>2. CASE StartRuntime
      BY <2>1, <2>2 DEF StartRuntime, ServersInv
    <2>3. CASE StopRuntime
      BY <2>1, <2>3 DEF StopRuntime, ServersInv
    <2>4. ASSUME NEW p \in Protocol, Breaks(p) PROVE ServersInv'
      BY <2>1, <2>4 DEF Breaks, ServersInv
    <2>5. ASSUME NEW x \in ServeProcess, Serve(x) \/ ProcessDies(x) PROVE ServersInv'
      BY <2>1, <2>5 DEF Serve, ProcessDies, runtimeParts, ServersInv
    <2>6. CASE UNCHANGED serversVars
      BY <2>1, <2>6 DEF serversVars, ServersInv
    <2>7. QED
      BY <2>1, <2>2, <2>3, <2>4, <2>5, <2>6, SupervisorKeeps, CommandsKeep DEF ServersNext
  <1>3. QED
    BY <1>1, <1>2, PTL DEF ServersSpec

\* For any protocols and any number of commands, a server that is taken for one with the keys
\* of now has them (access/runtime.py, _signature and _build).
THEOREM SignaturesAreTrue == ServersSpec => []SignatureIsTrue
  <1>1. ServersInv => SignatureIsTrue
    BY DEF ServersInv, SignatureIsTrue
  <1>2. QED
    BY <1>1, ServersInvariant, PTL

\* What is in memory, and in a command that has read the file, has its type as well.
AllSettings == [Protocol -> Setting]
Served == [signature : Signature, built : Signature, alive : BOOLEAN, bound : BOOLEAN]
ServersTyped ==
    /\ settings \in AllSettings /\ seen \in AllSettings
    /\ keys \in [Protocol -> Nat]
    /\ instance \in [Protocol -> Served \cup {Nothing}]
    /\ supervisor \in {"off", "waits", "looks"} /\ unseen \subseteq Protocol
    /\ build # Nothing => build.protocol \in Protocol /\ build.signature \in Signature
    /\ DOMAIN process = ServeProcess
    /\ \A x \in ServeProcess : process[x].is \in {"new", "starts", "serving", "gone"}
    /\ DOMAIN command = Command
    /\ \A c \in Command :
          /\ command[c].at \in {"start", "note", "disable", "clear"} => command[c].protocol \in Protocol
          /\ command[c].at = "note" => command[c].process \in ServeProcess
          /\ command[c].at = "write" => command[c].copy \in AllSettings

LEMMA SettingIs ==
  ASSUME NEW s \in Setting
  PROVE  /\ s.endpoint \in Endpoint /\ s.enabled \in BOOLEAN /\ s.external \in ServeProcess \cup {Nothing}
         /\ \A e \in Endpoint : [s EXCEPT !.endpoint = e] \in Setting
         /\ \A on \in BOOLEAN : [s EXCEPT !.enabled = on] \in Setting
         /\ \A x \in ServeProcess \cup {Nothing} : [s EXCEPT !.external = x] \in Setting
  BY DEF Setting

\* One setting of the file is changed.
LEMMA SettingsStay ==
  ASSUME ServersTyped, NEW p \in Protocol
  PROVE  /\ \A e \in Endpoint : [settings EXCEPT ![p].endpoint = e] \in AllSettings
         /\ \A on \in BOOLEAN : [settings EXCEPT ![p].enabled = on] \in AllSettings
         /\ \A x \in ServeProcess \cup {Nothing} : [settings EXCEPT ![p].external = x] \in AllSettings
  <1>1. settings \in AllSettings /\ settings[p] \in Setting
    BY DEF ServersTyped, AllSettings
  <1>2. ASSUME NEW s \in Setting PROVE [settings EXCEPT ![p] = s] \in AllSettings
    BY <1>1 DEF AllSettings
  <1>3. QED
    BY <1>1, <1>2, SettingIs

LEMMA SupervisorTyped == ASSUME ServersTyped, SupervisorStep PROVE ServersTyped'
  <1>1. CASE Reconcile
    BY <1>1 DEF Reconcile, ServersTyped
  <1>2. ASSUME NEW p \in Protocol, LookAt(p) PROVE ServersTyped'
    <2>1. seen[p] \in Setting /\ keys[p] \in Nat
      BY DEF ServersTyped, AllSettings
    <2>2. [endpoint |-> seen[p].endpoint, keys |-> keys[p]] \in Signature
      BY <2>1, SettingIs DEF Signature
    <2>3. build' # Nothing => build'.protocol \in Protocol /\ build'.signature \in Signature
      BY <1>2, <2>2 DEF LookAt
    <2>4. instance' \in [Protocol -> Served \cup {Nothing}] /\ unseen' \subseteq Protocol
      BY <1>2 DEF LookAt, ServersTyped
    <2>5. UNCHANGED <<settings, keys, supervisor, seen, process, command>>
      BY <1>2 DEF LookAt
    <2>6. QED
      BY <2>3, <2>4, <2>5 DEF ServersTyped
  <1>3. CASE Build
    <2> DEFINE p == build.protocol
               e == seen[p].endpoint
               new == [signature |-> build.signature,
                       built |-> [endpoint |-> e, keys |-> keys[p]], alive |-> TRUE, bound |-> TRUE]
    <2>1. p \in Protocol /\ build.signature \in Signature
      BY <1>3 DEF Build, ServersTyped
    <2>2. seen[p] \in Setting /\ keys[p] \in Nat
      BY <2>1 DEF ServersTyped, AllSettings
    <2>3. new \in Served
      BY <2>1, <2>2, SettingIs DEF Served, Signature
    <2>4. instance' = [instance EXCEPT ![p] = new] \/ instance' = instance
      BY <1>3 DEF Build
    <2> HIDE DEF new, p
    <2>5. instance' \in [Protocol -> Served \cup {Nothing}]
      BY <2>1, <2>3, <2>4 DEF ServersTyped
    <2>6. build' = Nothing /\ UNCHANGED <<settings, keys, supervisor, seen, unseen, process, command>>
      BY <1>3 DEF Build
    <2>7. QED
      BY <2>5, <2>6 DEF ServersTyped
  <1>4. CASE Reconciled
    BY <1>4 DEF Reconciled, ServersTyped
  <1>5. QED
    BY <1>1, <1>2, <1>3, <1>4 DEF SupervisorStep

\* A command goes on to a place of the right shape, and changes the file or a process with it.
LEMMA CommandTyped ==
  ASSUME ServersTyped, NEW c \in Command, NEW place, Goes(c, place) \/ UNCHANGED command,
         UNCHANGED runtimeParts, keys' \in [Protocol -> Nat], settings' \in AllSettings,
         DOMAIN process' = ServeProcess,
         \A x \in ServeProcess : process'[x].is \in {"new", "starts", "serving", "gone"},
         place.at \in {"start", "note", "disable", "clear"} => place.protocol \in Protocol,
         place.at = "note" => place.process \in ServeProcess,
         place.at = "write" => place.copy \in AllSettings
  PROVE  ServersTyped'
  <1>1. /\ DOMAIN command' = Command
        /\ \A b \in Command : command'[b] = place \/ command'[b] = command[b]
    BY DEF Goes, ServersTyped
  <1>2. QED
    BY <1>1 DEF ServersTyped, runtimeParts

LEMMA CommandsTyped == ASSUME ServersTyped, NEW c \in Command, CommandStep(c) PROVE ServersTyped'
  <1>1. /\ settings \in AllSettings /\ keys \in [Protocol -> Nat] /\ DOMAIN process = ServeProcess
        /\ \A x \in ServeProcess : process[x].is \in {"new", "starts", "serving", "gone"}
    BY DEF ServersTyped
  <1> DEFINE idle == [at |-> "idle"]
  <1>2. ASSUME NEW p \in Protocol, EnableProtocol(c, p) PROVE ServersTyped'
    <2>1. settings' \in AllSettings
      BY <1>2, SettingsStay DEF EnableProtocol
    <2> DEFINE place == [at |-> "start", protocol |-> p]
    <2>2. (Goes(c, place) \/ UNCHANGED command) /\ UNCHANGED <<keys, runtimeParts, process>>
      BY <1>2 DEF EnableProtocol
    <2>3. QED
      BY <1>1, <2>1, <2>2, CommandTyped
  <1>3. ASSUME NEW p \in Protocol, DisableProtocol(c, p) PROVE ServersTyped'
    <2>1. settings[p] \in Setting
      BY <1>1 DEF AllSettings
    <2>2. /\ DOMAIN process' = ServeProcess
          /\ \A x \in ServeProcess : process'[x].is \in {"new", "starts", "serving", "gone"}
      BY <1>1, <1>3, <2>1, SettingIs DEF DisableProtocol, Running
    <2>3. /\ Goes(c, [at |-> "disable", protocol |-> p])
          /\ UNCHANGED <<settings, keys, runtimeParts>>
      BY <1>3 DEF DisableProtocol
    <2>4. QED
      BY <1>1, <2>2, <2>3, CommandTyped
  <1>4. ASSUME NEW p \in Protocol, RotateKeys(c, p) PROVE ServersTyped'
    <2>1. keys' \in [Protocol -> Nat]
      BY <1>1, <1>4 DEF RotateKeys
    <2>2. Goes(c, [at |-> "read"]) /\ UNCHANGED <<settings, runtimeParts, process>>
      BY <1>4 DEF RotateKeys
    <2>3. QED
      BY <1>1, <2>1, <2>2, CommandTyped
  <1>5. ASSUME NEW p \in Protocol, NEW e \in Endpoint, Configure(c, p, e) PROVE ServersTyped'
    <2>1. settings' \in AllSettings
      BY <1>5, SettingsStay DEF Configure
    <2>2. UNCHANGED <<keys, runtimeParts, process, command>>
      BY <1>5 DEF Configure
    <2>3. QED
      BY <2>1, <2>2 DEF ServersTyped, runtimeParts
  <1>6. ASSUME NEW x \in ServeProcess, StartProcess(c, x) PROVE ServersTyped'
    <2>1. command[c].protocol \in Protocol
      BY <1>6 DEF StartProcess, ServersTyped
    <2>2. /\ DOMAIN process' = ServeProcess
          /\ \A y \in ServeProcess : process'[y].is \in {"new", "starts", "serving", "gone"}
      BY <1>1, <1>6 DEF StartProcess
    <2>3. /\ Goes(c, [at |-> "note", protocol |-> command[c].protocol, process |-> x])
          /\ UNCHANGED <<settings, keys, runtimeParts>>
      BY <1>6 DEF StartProcess
    <2>4. QED
      BY <1>1, <2>1, <2>2, <2>3, CommandTyped
  <1>7. CASE NoteProcess(c)
    <2>1. command[c].protocol \in Protocol /\ command[c].process \in ServeProcess
      BY <1>7 DEF NoteProcess, ServersTyped
    <2>2. settings' \in AllSettings
      BY <1>7, <2>1, SettingsStay DEF NoteProcess
    <2>3. Goes(c, idle) /\ UNCHANGED <<keys, runtimeParts, process>>
      BY <1>7 DEF NoteProcess
    <2>4. QED
      BY <1>1, <2>2, <2>3, CommandTyped
  <1>8. CASE SetDisabled(c)
    <2>1. command[c].protocol \in Protocol
      BY <1>8 DEF SetDisabled, ServersTyped
    <2>2. settings' \in AllSettings
      BY <1>8, <2>1, SettingsStay DEF SetDisabled
    <2> DEFINE place == [command[c] EXCEPT !.at = "clear"]
    <2>3. place.protocol = command[c].protocol /\ (place.at = "clear" \/ place.at = command[c].at)
      OBVIOUS
    <2>4. Goes(c, place) /\ UNCHANGED <<keys, runtimeParts, process>> /\ command[c].at = "disable"
      BY <1>8 DEF SetDisabled
    <2> HIDE DEF place
    <2>5. QED
      BY <1>1, <2>1, <2>2, <2>3, <2>4, CommandTyped
  <1>9. CASE ClearProcess(c)
    <2>1. command[c].protocol \in Protocol
      BY <1>9 DEF ClearProcess, ServersTyped
    <2>2. settings' \in AllSettings
      BY <1>9, <2>1, SettingsStay DEF ClearProcess
    <2>3. Goes(c, idle) /\ UNCHANGED <<keys, runtimeParts, process>>
      BY <1>9 DEF ClearProcess
    <2>4. QED
      BY <1>1, <2>2, <2>3, CommandTyped
  <1>10. CASE ReadSettings(c)
    <2>1. Goes(c, [at |-> "write", copy |-> settings]) /\ UNCHANGED <<settings, keys, runtimeParts, process>>
      BY <1>10 DEF ReadSettings
    <2>2. QED
      BY <1>1, <2>1, CommandTyped
  <1>11. CASE WriteSettings(c)
    <2>1. settings' \in AllSettings
      BY <1>11 DEF WriteSettings, ServersTyped
    <2>2. Goes(c, idle) /\ UNCHANGED <<keys, runtimeParts, process>>
      BY <1>11 DEF WriteSettings
    <2>3. QED
      BY <1>1, <2>1, <2>2, CommandTyped
  <1>12. QED
    BY <1>2, <1>3, <1>4, <1>5, <1>6, <1>7, <1>8, <1>9, <1>10, <1>11 DEF CommandStep

LEMMA ServersStayTyped == ASSUME ServersTyped, [ServersNext]_serversVars PROVE ServersTyped'
  <1>1. CASE StartRuntime
    BY <1>1 DEF StartRuntime, ServersTyped
  <1>2. CASE StopRuntime
    BY <1>2 DEF StopRuntime, ServersTyped
  <1>3. ASSUME NEW p \in Protocol, Breaks(p) PROVE ServersTyped'
    <2>1. PICK bound \in BOOLEAN : instance' = [instance EXCEPT ![p].alive = FALSE, ![p].bound = bound]
      BY <1>3 DEF Breaks
    <2> DEFINE new == [instance[p] EXCEPT !.alive = FALSE, !.bound = bound]
    <2>2. instance[p] \in Served
      BY <1>3 DEF Breaks, ServersTyped
    <2>3. new \in Served /\ instance' = [instance EXCEPT ![p] = new]
      BY <2>1, <2>2 DEF Served
    <2>4. instance' \in [Protocol -> Served \cup {Nothing}]
      BY <2>3 DEF ServersTyped
    <2>5. UNCHANGED <<settings, keys, supervisor, seen, unseen, build, process, command>>
      BY <1>3 DEF Breaks
    <2>6. QED
      BY <2>4, <2>5 DEF ServersTyped
  <1>4. ASSUME NEW x \in ServeProcess, Serve(x) PROVE ServersTyped'
    <2>1. /\ DOMAIN process' = ServeProcess
          /\ \A y \in ServeProcess : process'[y].is \in {"new", "starts", "serving", "gone"}
      BY <1>4 DEF Serve, ServersTyped
    <2>2. QED
      BY <1>4, <2>1 DEF Serve, runtimeParts, ServersTyped
  <1>5. ASSUME NEW x \in ServeProcess, ProcessDies(x) PROVE ServersTyped'
    <2>1. /\ DOMAIN process' = ServeProcess
          /\ \A y \in ServeProcess : process'[y].is \in {"new", "starts", "serving", "gone"}
      BY <1>5 DEF ProcessDies, ServersTyped
    <2>2. QED
      BY <1>5, <2>1 DEF ProcessDies, runtimeParts, ServersTyped
  <1>6. CASE UNCHANGED serversVars
    BY <1>6 DEF serversVars, ServersTyped
  <1>7. QED
    BY <1>1, <1>2, <1>3, <1>4, <1>5, <1>6, SupervisorTyped, CommandsTyped DEF ServersNext

\* For any protocols, commands and processes, what is configured, served and about to be
\* written keeps its shape.
THEOREM ServersTypes == ServersSpec => []ServersTypeOK
  <1>1. ServersInit => ServersTyped
    BY ServersAssumption DEF ServersInit, ServersTyped, AllSettings
  <1>2. ServersTyped => ServersTypeOK
    BY DEF ServersTyped, AllSettings, Served, ServersTypeOK
  <1>3. QED
    BY <1>1, <1>2, ServersStayTyped, PTL DEF ServersSpec

-----------------------------------------------------------------------------
(* WakeSequences *)

\* What has been done of a sequence: all that a result depends on has one, and a step is
\* blocked just if one that it requires has not succeeded.
Judged(graph, status) ==
    \A s \in DOMAIN status :
        /\ graph[s] \subseteq DOMAIN status
        /\ status[s] \in {"done", "failed", "blocked"}
        /\ status[s] = "blocked" <=> \E d \in graph[s] : status[d] # "done"

\* While it runs, who has the lock has read what is in the file, and each step is pending or done.
RunOK(h) ==
    /\ run[h].graph = steps /\ DOMAIN steps # {} /\ ValidGraph(steps)
    /\ run[h].pending \cup DOMAIN run[h].status = DOMAIN steps
    /\ run[h].pending \cap DOMAIN run[h].status = {}
    /\ Judged(steps, run[h].status)

WakeInv ==
    /\ WakeTypeOK /\ DOMAIN run = Runner
    /\ added = DOMAIN steps
    /\ lock # NoRunner => RunOK(lock)
    /\ DOMAIN recorded.status = recorded.added
    /\ recorded.added = DOMAIN recorded.graph
    /\ ValidGraph(recorded.graph) /\ Judged(recorded.graph, recorded.status)

LEMMA NothingRequired == << >> \in Requirements /\ DOMAIN << >> = {} /\ NoRun.graph \in Requirements
  <1>1. << >> \in [{} -> SUBSET Step]
    OBVIOUS
  <1>2. QED
    BY <1>1 DEF Requirements, NoRun

LEMMA NoSteps == ASSUME NEW graph \in Requirements, DOMAIN graph = {} PROVE graph = << >>
  <1>1. graph \in [1..0 -> SUBSET Step]
    BY DEF Requirements
  <1>2. graph \in Seq(SUBSET Step)
    BY <1>1, SeqDef
  <1>3. QED
    BY <1>1, <1>2, EmptySeq, LenProperties

\* A step is blocked just if one that it requires, directly or not, has failed.
LEMMA BlockedByFailure ==
  ASSUME NEW graph, NEW status, ValidGraph(graph), Judged(graph, status),
         DOMAIN status = DOMAIN graph, NEW s \in DOMAIN status
  PROVE  status[s] = "blocked" <=> \E d \in Behind(graph, s) : status[d] = "failed"
  <1> DEFINE good == {d \in DOMAIN graph : status[d] = "done"}
             behind == Behind(graph, s)
  <1>1. ASSUME status[s] # "blocked" PROVE \A d \in behind : status[d] # "failed"
    <2>1. graph[s] \subseteq good /\ \A f \in good : graph[f] \subseteq good
      BY <1>1 DEF Judged
    <2>2. good \in SUBSET DOMAIN graph
      OBVIOUS
    <2>3. behind \subseteq good
      BY <2>1, <2>2 DEF Behind
    <2>4. QED
      BY <2>3
  <1>2. ASSUME status[s] = "blocked", \A d \in behind : status[d] # "failed" PROVE FALSE
    <2>1. behind \subseteq DOMAIN graph
      BY DEF Behind
    <2>2. \A f \in DOMAIN graph : graph[f] \subseteq DOMAIN graph
      BY DEF Judged
    <2>3. graph[s] \subseteq behind
      BY <2>2 DEF Behind
    <2>4. \A f \in behind : graph[f] \subseteq behind
      BY <2>2 DEF Behind
    <2> DEFINE stuck == {d \in behind \cup {s} : status[d] = "blocked"}
    <2>5. \A d \in stuck : graph[d] \cap stuck # {}
      <3>1. SUFFICES ASSUME NEW d \in stuck PROVE graph[d] \cap stuck # {}
        OBVIOUS
      <3>2. PICK e \in graph[d] : status[e] # "done"
        BY <2>1 DEF Judged
      <3>3. e \in behind
        BY <2>3, <2>4
      <3>4. status[e] \in {"done", "failed", "blocked"}
        BY <2>1, <3>3 DEF Judged
      <3>5. QED
        BY <1>2, <3>2, <3>3, <3>4
    <2>6. stuck \in (SUBSET DOMAIN graph) \ {{}}
      BY <1>2, <2>1
    <2>7. QED
      BY <2>5, <2>6 DEF ValidGraph
  <1>3. QED
    BY <1>1, <1>2

\* A step is taken.
LEMMA TakenIsJudged ==
  ASSUME WakeInv, NEW h \in Runner, NEW s \in Step, TakeStep(h, s)
  PROVE  /\ lock = h /\ s \in run[h].pending
         /\ run'[h].graph = run[h].graph /\ run'[h].pending = run[h].pending \ {s}
         /\ DOMAIN run'[h].status = DOMAIN run[h].status \cup {s}
         /\ Judged(steps, run'[h].status)
         /\ run' = [run EXCEPT ![h] = run'[h]]
  <1> DEFINE r == run[h]
  <1>1. s \in r.pending /\ r.graph[s] \subseteq DOMAIN r.status
    BY DEF TakeStep, Ready
  <1>2. lock = h
    BY <1>1 DEF WakeInv, WakeTypeOK, NoRun
  <1>3. RunOK(h)
    BY <1>2, WakeAssumption DEF WakeInv
  <1>4. PICK result \in {"done", "failed", "blocked"} :
           /\ result = "blocked" <=> \E d \in r.graph[s] : r.status[d] \notin Succeeded
           /\ run' = [run EXCEPT ![h] =
                 [graph |-> r.graph, pending |-> r.pending \ {s},
                  status |-> [t \in DOMAIN r.status \cup {s} |-> IF t = s THEN result ELSE r.status[t]]]]
    BY DEF TakeStep
  <1> DEFINE status == [t \in DOMAIN r.status \cup {s} |-> IF t = s THEN result ELSE r.status[t]]
  <1>5. run'[h] = [graph |-> r.graph, pending |-> r.pending \ {s}, status |-> status]
    BY <1>4 DEF WakeInv
  <1>6. Judged(steps, status)
    <2>1. SUFFICES ASSUME NEW t \in DOMAIN status
                   PROVE  /\ steps[t] \subseteq DOMAIN status
                          /\ status[t] \in {"done", "failed", "blocked"}
                          /\ status[t] = "blocked" <=> \E d \in steps[t] : status[d] # "done"
      BY DEF Judged
    <2>2. r.graph = steps /\ Judged(steps, r.status)
      BY <1>3 DEF RunOK
    <2>3. s \notin DOMAIN r.status => t = s \/ t \in DOMAIN r.status
      OBVIOUS
    <2>4. \A d \in DOMAIN r.status : d # s => status[d] = r.status[d]
      OBVIOUS
    <2>5. s \notin DOMAIN r.status
      BY <1>1, <1>3 DEF RunOK
    <2>6. steps[t] \subseteq DOMAIN r.status
      BY <1>1, <2>2, <2>3 DEF Judged
    <2>7. \A d \in steps[t] : status[d] = r.status[d]
      BY <2>4, <2>5, <2>6
    <2>8. CASE t = s
      BY <1>4, <2>2, <2>6, <2>7, <2>8 DEF Succeeded
    <2>9. CASE t # s
      BY <2>2, <2>6, <2>7, <2>9 DEF Judged
    <2>10. QED
      BY <2>8, <2>9
  <1>7. run' = [run EXCEPT ![h] = run'[h]]
    BY <1>4, <1>5
  <1>8. QED
    BY <1>1, <1>2, <1>5, <1>6, <1>7

LEMMA WakeSteps == ASSUME WakeInv, [WakeNext]_wakeVars PROVE WakeInv'
  <1> USE WakeAssumption
  <1>1. ASSUME NEW s \in Step, NEW requires \in SUBSET Step, AddStep(s, requires) PROVE WakeInv'
    <2> DEFINE new == [t \in DOMAIN steps \cup {s} |-> IF t = s THEN requires ELSE steps[t]]
    <2>1. new \in Requirements
      <3>1. new \in [DOMAIN steps \cup {s} -> SUBSET Step] /\ DOMAIN steps \cup {s} \in SUBSET Step
        BY DEF WakeInv, WakeTypeOK, Requirements
      <3>2. QED
        BY <3>1 DEF Requirements
    <2>2. steps' = new /\ added' = added \cup {s}
      BY <1>1 DEF AddStep
    <2>3. UNCHANGED <<recorded, lock, run>> /\ lock = NoRunner
      BY <1>1 DEF AddStep
    <2>4. QED
      BY <2>1, <2>2, <2>3 DEF WakeInv, WakeTypeOK
  <1>2. ASSUME NEW h \in Runner, BeginRun(h) PROVE WakeInv'
    <2>1. /\ lock = NoRunner /\ lock' = h /\ steps # << >> /\ ValidGraph(steps)
          /\ run' = [run EXCEPT ![h] = [graph |-> steps, status |-> << >>, pending |-> DOMAIN steps]]
          /\ UNCHANGED <<steps, recorded, added>>
      BY <1>2 DEF BeginRun, Begins
    <2>2. DOMAIN steps # {}
      BY <2>1, NoSteps DEF WakeInv, WakeTypeOK
    <2>3. run'[h] = [graph |-> steps, status |-> << >>, pending |-> DOMAIN steps] /\ run'[h] # NoRun
          /\ DOMAIN run' = Runner /\ \A g \in Runner \ {h} : run'[g] = run[g]
      BY <2>1, <2>2, NothingRequired DEF WakeInv, NoRun
    <2>4. RunOK(h)'
      <3>1. DOMAIN run'[h].status = {} /\ run'[h].pending = DOMAIN steps
        BY <2>3
      <3>2. Judged(steps, run'[h].status)
        BY <3>1 DEF Judged
      <3>3. ValidGraph(steps') /\ Judged(steps', run'[h].status)
        BY <2>1, <3>2
      <3>4. run'[h].graph = steps' /\ DOMAIN steps' # {} /\ run'[h].pending = DOMAIN steps'
        BY <2>1, <2>2, <2>3
      <3>5. QED
        BY <3>1, <3>3, <3>4 DEF RunOK
    <2>5. WakeTypeOK'
      BY <2>1, <2>3 DEF WakeInv, WakeTypeOK
    <2>6. QED
      BY <2>1, <2>3, <2>4, <2>5 DEF WakeInv
  <1>3. ASSUME NEW h \in Runner, NEW s \in Step, TakeStep(h, s) PROVE WakeInv'
    <2>1. UNCHANGED <<steps, recorded, lock, added>>
      BY <1>3 DEF TakeStep
    <2>2. /\ lock = h /\ s \in run[h].pending
          /\ run'[h].graph = run[h].graph /\ run'[h].pending = run[h].pending \ {s}
          /\ DOMAIN run'[h].status = DOMAIN run[h].status \cup {s}
          /\ Judged(steps, run'[h].status)
          /\ run' = [run EXCEPT ![h] = run'[h]]
      BY <1>3, TakenIsJudged
    <2>3. RunOK(h)
      BY <2>2 DEF WakeInv
    <2>4. RunOK(h)'
      <3>1. ValidGraph(steps') /\ Judged(steps', run'[h].status)
        BY <2>1, <2>2, <2>3 DEF RunOK
      <3>2. run'[h].graph = steps' /\ DOMAIN steps' # {}
        BY <2>1, <2>2, <2>3 DEF RunOK
      <3>3. /\ run'[h].pending \cup DOMAIN run'[h].status = DOMAIN steps'
            /\ run'[h].pending \cap DOMAIN run'[h].status = {}
        BY <2>1, <2>2, <2>3 DEF RunOK
      <3>4. QED
        BY <3>1, <3>2, <3>3 DEF RunOK
    <2>5. run'[h] # NoRun
      BY <2>2, <2>3, NothingRequired DEF RunOK, NoRun
    <2>6. DOMAIN run' = Runner /\ \A g \in Runner \ {h} : run'[g] = run[g]
      BY <2>2 DEF WakeInv
    <2>7. WakeTypeOK'
      BY <2>1, <2>2, <2>5, <2>6 DEF WakeInv, WakeTypeOK
    <2>8. QED
      BY <2>1, <2>2, <2>4, <2>6, <2>7 DEF WakeInv
  <1>4. ASSUME NEW h \in Runner, run[h] # NoRun, run' = [run EXCEPT ![h] = NoRun],
               lock' = IF lock = h THEN NoRunner ELSE lock
        PROVE  /\ lock = h /\ lock' = NoRunner /\ RunOK(h)
               /\ DOMAIN run' = Runner /\ \A g \in Runner : run'[g] = NoRun
    BY <1>4 DEF WakeInv, WakeTypeOK
  <1>5. ASSUME NEW h \in Runner, Abandon(h) PROVE WakeInv'
    <2>1. /\ lock = h /\ lock' = NoRunner
          /\ DOMAIN run' = Runner /\ \A g \in Runner : run'[g] = NoRun
      BY <1>4, <1>5 DEF Abandon
    <2>2. UNCHANGED <<steps, recorded, added>>
      BY <1>5 DEF Abandon
    <2>3. WakeTypeOK'
      BY <2>1, <2>2, NothingRequired DEF WakeInv, WakeTypeOK, NoRun
    <2>4. QED
      BY <2>1, <2>2, <2>3 DEF WakeInv
  <1>6. ASSUME NEW h \in Runner, RecordRun(h) PROVE WakeInv'
    <2>1. /\ lock = h /\ lock' = NoRunner /\ RunOK(h)
          /\ DOMAIN run' = Runner /\ \A g \in Runner : run'[g] = NoRun
      BY <1>4, <1>6 DEF RecordRun
    <2>2. steps' = steps /\ added' = added /\ run[h].pending = {}
          /\ recorded' = [graph |-> steps, status |-> run[h].status, added |-> added]
      BY <1>6, <2>1 DEF RecordRun, RunOK
    <2>3. WakeTypeOK'
      BY <2>1, <2>2, NothingRequired DEF WakeInv, WakeTypeOK, NoRun
    <2>4. DOMAIN run[h].status = added /\ Judged(steps, run[h].status) /\ ValidGraph(steps)
      BY <2>1, <2>2 DEF RunOK, WakeInv
    <2>5. /\ DOMAIN recorded'.status = recorded'.added
          /\ recorded'.added = DOMAIN recorded'.graph
          /\ ValidGraph(recorded'.graph) /\ Judged(recorded'.graph, recorded'.status)
      BY <2>2, <2>4 DEF WakeInv
    <2>6. QED
      BY <2>1, <2>2, <2>3, <2>5 DEF WakeInv
  <1>7. CASE UNCHANGED wakeVars
    BY <1>7 DEF wakeVars, WakeInv, WakeTypeOK, RunOK
  <1>8. QED
    BY <1>1, <1>2, <1>3, <1>5, <1>6, <1>7 DEF WakeNext

\* The lock is held by one process while it runs a sequence that is in the file as it has read
\* it; what has been done of it is as the graph says.
THEOREM SequencesInvariant == WakeSpec => []WakeInv
  <1>1. WakeInit => WakeInv
    <2>1. SUFFICES ASSUME WakeInit PROVE WakeInv
      OBVIOUS
    <2>2. ValidGraph(<< >>) /\ Judged(<< >>, << >>)
      <3>1. UNION Range(<< >>) = {}
        BY DEF Range
      <3>2. QED
        BY <3>1 DEF ValidGraph, Judged
    <2>3. steps \in Requirements /\ DOMAIN steps \subseteq Step
      BY <2>1 DEF WakeInit, Requirements
    <2>4. \A h \in Runner : run[h] = NoRun
      BY <2>1 DEF WakeInit
    <2>5. WakeTypeOK
      BY <2>1, <2>3, <2>4, NothingRequired, WakeAssumption DEF WakeInit, WakeTypeOK, NoRun
    <2>6. QED
      BY <2>1, <2>2, <2>5 DEF WakeInit, WakeInv
  <1>2. WakeInv /\ [WakeNext]_wakeVars => WakeInv'
    BY WakeSteps
  <1>3. QED
    BY <1>1, <1>2, PTL DEF WakeSpec

\* No step that was added is lost to a run, a sequence that was found valid never stops with
\* steps that only wait, and a step is blocked just if something it requires, directly or not,
\* has failed: for any steps, graphs, processes and runs (wol.py, _sequence_locked).
THEOREM RunsAlwaysFollowTheGraph == WakeSpec => []RunsFollowTheGraph
  <1>1. WakeInv => RunsFollowTheGraph
    <2>1. SUFFICES ASSUME WakeInv PROVE RunsFollowTheGraph
      OBVIOUS
    <2>2. ASSUME NEW h \in Runner, run[h].pending # {} PROVE Ready(h) # {}
      <3>1. lock = h
        BY <2>1, <2>2 DEF WakeInv, WakeTypeOK, NoRun
      <3>2. RunOK(h)
        BY <2>1, <3>1, WakeAssumption DEF WakeInv
      <3>3. run[h].pending \in (SUBSET DOMAIN steps) \ {{}}
        BY <2>2, <3>2 DEF RunOK
      <3>4. PICK s \in run[h].pending : steps[s] \cap run[h].pending = {}
        BY <3>2, <3>3 DEF RunOK, ValidGraph
      <3>5. steps[s] \subseteq DOMAIN steps
        BY <3>2, <3>3 DEF RunOK, ValidGraph, Range
      <3>6. steps[s] \subseteq DOMAIN run[h].status
        BY <3>2, <3>4, <3>5 DEF RunOK
      <3>7. QED
        BY <3>2, <3>4, <3>6 DEF Ready, RunOK
    <2>3. ASSUME NEW s \in DOMAIN recorded.status
          PROVE  recorded.status[s] = "blocked" <=>
                     \E d \in Behind(recorded.graph, s) : recorded.status[d] = "failed"
      BY <2>1, BlockedByFailure DEF WakeInv
    <2>4. QED
      BY <2>1, <2>2, <2>3 DEF WakeInv, RunsFollowTheGraph
  <1>2. QED
    BY <1>1, SequencesInvariant, PTL

\* The types, with the lock that a process has while it runs the sequence.
THEOREM SequencesTypes == WakeSpec => []WakeTypeOK
  <1>1. WakeInv => WakeTypeOK
    BY DEF WakeInv
  <1>2. QED
    BY <1>1, SequencesInvariant, PTL
-----------------------------------------------------------------------------
(* MCSharedFiles: each part behaves as its specification says, and what is proved of it *)
(* holds of the instance.                                                   *)

LEMMA SharedParts ==
  /\ SharedInit => /\ Init /\ WireInit /\ AccountsInit /\ MigrationInit /\ ServersInit /\ WakeInit
                   /\ part \in Parts
  /\ [SharedNext]_allVars => /\ [Next]_vars /\ [WireNext]_wireVars /\ [AccountsNext]_accountsVars
                             /\ [MigrationNext]_migrationVars /\ [ServersNext]_serversVars
                             /\ [WakeNext]_wakeVars
  /\ part \in Parts /\ [SharedNext]_allVars => (part \in Parts)'
  BY DEF SharedInit, SharedNext, allVars

\* Every behaviour of the instance is one of each of its components.
THEOREM SharedImplementsParts ==
  SharedSpec => /\ Spec /\ WireSpec /\ AccountsSpec /\ MigrationSpec /\ ServersSpec /\ WakeSpec
                /\ [](part \in Parts)
  BY SharedParts, PTL DEF SharedSpec, Spec, WireSpec, AccountsSpec, MigrationSpec, ServersSpec, WakeSpec

\* The types of every component hold, for all values of its constants.
THEOREM SharedTypes == SharedSpec => []TypesOK
  <1>1. /\ part \in Parts /\ WireTypeOK /\ AccountsTypeOK /\ MigrationTypeOK /\ ServersTypeOK /\ WakeTypeOK
        => TypesOK
    BY DEF TypesOK
  <1>2. QED
    BY <1>1, SharedImplementsParts, CablesHaveTwoEnds, AccountsTypes, MigrationTypes, ServersTypes,
       SequencesTypes, PTL

\* What the runs check of the instance, ConfigurationServed apart, holds of it for all values
\* of the constants.
THEOREM SharedIsSafe ==
  SharedSpec => /\ [](LinksAreSound /\ GuessesAreCounted /\ EndedStaysEnded)
                /\ [](MigratedIsComplete /\ RunsFollowTheGraph /\ MutualExclusion /\ SignatureIsTrue)
                /\ IsMutex /\ UsedPortsStay
  BY SharedImplementsParts, TopologyIsSound, EveryGuessIsCounted, EndedNeverReturns, MigratedNothingLost,
     RunsAlwaysFollowTheGraph, LockExcludes, SignaturesAreTrue, LockIsMutex, LinksKeepTheirPorts, PTL
===============================================================================
