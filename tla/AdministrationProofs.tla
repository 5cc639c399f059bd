--------------------------- MODULE AdministrationProofs ---------------------------
(***************************************************************************)
(* The components by which the system is administered, in sections: the    *)
(* lock and the sessions of the monitor; what the desktop interface does    *)
(* with changes; the full-screen interface of LANWIRE; the types of both    *)
(* interfaces; the storage of the monitor, from the folds and sorts it is   *)
(* built of to its reports; and the instance that is composed of them.      *)
(***************************************************************************)
EXTENDS MCAdministration, SequenceTheorems, FiniteSetTheorems, WellFoundedInduction, TLAPS

-----------------------------------------------------------------------------
(* MonitorSessions: types *)

Row == [status : Ended \cup {"active"}, limited : BOOLEAN]
Places == {"off", "new", "begins", "saves", "locks", "reads", "removes", "writes", "owns", "runs",
           "cancels", "fails", "releases"}
Doing(serves) == [at : Places, serves : serves, read : Lock, stop : BOOLEAN, checking : BOOLEAN]
AdminRow(sessions) ==
    [at : {"idle", "starts", "measures", "measuring", "stops", "restarts"}, session : sessions]
Serving == {"locks", "reads", "removes", "writes", "owns", "runs"}

SessionsTyped ==
    /\ sessionRows \in Seq(Row)
    /\ lockFile \in Lock
    /\ monitor \in [MonitorProcess -> Doing(0..Len(sessionRows))]
    /\ \A p \in MonitorProcess : monitor[p].at \in Serving => monitor[p].serves > 0
    /\ admin \in [Admin -> AdminRow(0..Len(sessionRows))]
    /\ launches \in 0..MaxLaunches /\ commands \in 0..MaxCommands /\ raced \in BOOLEAN

\* Of a set of natural numbers that is not empty and has a bound, one is the largest.
LEMMA LargestOf ==
  ASSUME NEW N \in Nat, NEW S \in SUBSET (0..N), S # {}
  PROVE  \E i \in S : \A j \in S : j <= i
  <1> DEFINE R == OpToRel(<, Nat)
             D == {N - i : i \in S}
  <1>1. \A i \in S : i \in Nat /\ N - i \in Nat
    OBVIOUS
  <1>2. IsWellFoundedOn(R, Nat)
    BY NatLessThanWellFounded
  <1>3. \A x, y \in Nat : x < y => <<x, y>> \in R
    BY DEF OpToRel
  <1> HIDE DEF R
  <1>4. D \in SUBSET Nat /\ D # {}
    BY <1>1, Zenon
  <1>5. PICK d \in D : \A e \in D : ~(<<e, d>> \in R)
    BY <1>2, <1>4, WFMin, Zenon
  <1>6. PICK i \in S : d = N - i
    BY <1>5
  <1>7. \A j \in S : ~(N - j < N - i)
    BY <1>1, <1>3, <1>5, <1>6
  <1>8. \A j \in S : j <= i
    BY <1>1, <1>7
  <1>9. QED
    BY <1>8

LEMMA NewestIsActive ==
  ASSUME sessionRows \in Seq(Row), ActiveRows # {}
  PROVE  Newest \in ActiveRows /\ Newest \in 1..Len(sessionRows)
  <1>1. Len(sessionRows) \in Nat /\ ActiveRows \in SUBSET (1..Len(sessionRows))
    BY DEF ActiveRows
  <1>2. ActiveRows \in SUBSET (0..Len(sessionRows))
    BY <1>1
  <1>3. \E i \in ActiveRows : \A j \in ActiveRows : j <= i
    BY <1>1, <1>2, LargestOf
  <1>4. QED
    BY <1>1, <1>3, Zenon DEF Newest

\* Rows are only marked, or a new one is put after them.
LEMMA RowMarked ==
  ASSUME sessionRows \in Seq(Row), NEW i, NEW status \in Ended \cup {"active"}, Marked(i, status)
  PROVE  sessionRows' \in Seq(Row) /\ Len(sessionRows') = Len(sessionRows)
  <1>1. \A r \in Row : [r EXCEPT !.status = status] \in Row
    BY DEF Row
  <1>2. CASE i \in DOMAIN sessionRows
    <2>1. sessionRows[i] \in Row
      BY <1>2
    <2>2. PICK r \in Row : sessionRows' = [sessionRows EXCEPT ![i] = r]
      BY <1>1, <2>1 DEF Marked
    <2>3. QED
      BY <1>2, <2>2, ExceptSeq
  <1>3. CASE i \notin DOMAIN sessionRows
    <2>1. sessionRows' = sessionRows
      BY <1>3 DEF Marked
    <2>2. QED
      BY <2>1
  <1>4. QED
    BY <1>2, <1>3

LEMMA NewestMarked ==
  ASSUME sessionRows \in Seq(Row), NEW status \in Ended \cup {"active"}, MarksNewest(status)
  PROVE  sessionRows' \in Seq(Row) /\ Len(sessionRows') = Len(sessionRows)
  BY RowMarked DEF MarksNewest

LEMMA RowBegun ==
  ASSUME sessionRows \in Seq(Row), NEW limited \in BOOLEAN, Begins(limited)
  PROVE  /\ sessionRows' \in Seq(Row) /\ Len(sessionRows') = Len(sessionRows) + 1
         /\ Len(sessionRows') \in 1..Len(sessionRows')
         /\ 0..Len(sessionRows) \subseteq 0..Len(sessionRows')
  BY DEF Begins, Row

LEMMA OffTyped == ASSUME NEW n \in Nat PROVE Off \in Doing(0..n)
  BY DEF Off, Doing, Places, Lock

\* One process does something, and the others stay as they are.
LEMMA DoingOne ==
  ASSUME SessionsTyped, Len(sessionRows') \in Nat, 0..Len(sessionRows) \subseteq 0..Len(sessionRows'),
         NEW p \in MonitorProcess, NEW d \in Doing(0..Len(sessionRows')),
         d.at \in Serving => d.serves > 0,
         monitor' = [monitor EXCEPT ![p] = d]
  PROVE  /\ monitor' \in [MonitorProcess -> Doing(0..Len(sessionRows'))]
         /\ \A q \in MonitorProcess : monitor'[q].at \in Serving => monitor'[q].serves > 0
  <1>1. \A q \in MonitorProcess : monitor[q] \in Doing(0..Len(sessionRows'))
    BY DEF SessionsTyped, Doing
  <1>2. QED
    BY <1>1 DEF SessionsTyped

LEMMA SessionsStartTyped == MonitorSessionsInit => SessionsTyped
  <1> SUFFICES ASSUME MonitorSessionsInit PROVE SessionsTyped
    OBVIOUS
  <1>1. sessionRows \in Seq(Row)
    <2>1. [status |-> "active", limited |-> FALSE] \in Row
      BY DEF Row
    <2>2. sessionRows = << >> \/ sessionRows = <<[status |-> "active", limited |-> FALSE]>>
      BY Zenon DEF MonitorSessionsInit
    <2>3. << >> \in Seq(Row) /\ <<[status |-> "active", limited |-> FALSE]>> \in Seq(Row)
      BY <2>1
    <2>4. QED
      BY <2>2, <2>3, Zenon
  <1>2. Off \in Doing(0..Len(sessionRows)) /\ Off.at \notin Serving
    <2>1. Len(sessionRows) \in Nat
      BY <1>1
    <2>2. Off.at \notin Serving
      BY DEF Off, Serving
    <2>3. QED
      BY <2>1, <2>2, OffTyped
  <1>3. lockFile \in Lock
    <2>1. lockFile = NoLock \/ lockFile = [of |-> Gone, written |-> TRUE]
      BY Zenon DEF MonitorSessionsInit
    <2>2. [of |-> Gone, written |-> TRUE] \in Lock
      BY DEF Lock
    <2>3. QED
      BY <2>1, <2>2 DEF Lock
  <1>4. [at |-> "idle", session |-> 0] \in AdminRow(0..Len(sessionRows))
    BY <1>1 DEF AdminRow
  <1>5. launches \in 0..MaxLaunches /\ commands \in 0..MaxCommands
    BY MonitorSessionsAssumption DEF MonitorSessionsInit
  <1>6. QED
    BY <1>1, <1>2, <1>3, <1>4, <1>5 DEF MonitorSessionsInit, SessionsTyped

\* What one process becomes.
Becomes(p, d) == monitor' = [monitor EXCEPT ![p] = d]

LEMMA Going ==
  ASSUME SessionsTyped, NEW p \in MonitorProcess, NEW step \in Places, Goes(p, step)
  PROVE  \E d \in Doing(0..Len(sessionRows)) :
            Becomes(p, d) /\ d.at = step /\ d.serves = monitor[p].serves /\ d.read = monitor[p].read
  <1>1. monitor[p] \in Doing(0..Len(sessionRows))
    BY DEF SessionsTyped
  <1>2. \A r \in Doing(0..Len(sessionRows)) :
            LET d == [r EXCEPT !.at = step]
            IN  d \in Doing(0..Len(sessionRows)) /\ d.at = step /\ d.serves = r.serves /\ d.read = r.read
    BY DEF Doing
  <1>3. QED
    BY <1>1, <1>2 DEF Goes, Becomes

LEMMA BecomesTyped ==
  ASSUME SessionsTyped, NEW p \in MonitorProcess,
         sessionRows' \in Seq(Row), Len(sessionRows) <= Len(sessionRows'),
         lockFile' \in Lock, launches' \in 0..MaxLaunches, commands' \in 0..MaxCommands, raced' \in BOOLEAN,
         admin' \in [Admin -> AdminRow(0..Len(sessionRows'))],
         NEW d \in Doing(0..Len(sessionRows')), d.at \in Serving => d.serves > 0, Becomes(p, d)
  PROVE  SessionsTyped'
  <1>1. Len(sessionRows') \in Nat /\ 0..Len(sessionRows) \subseteq 0..Len(sessionRows')
    BY DEF SessionsTyped
  <1>2. /\ monitor' \in [MonitorProcess -> Doing(0..Len(sessionRows'))]
        /\ \A q \in MonitorProcess : monitor'[q].at \in Serving => monitor'[q].serves > 0
    BY <1>1, DoingOne DEF Becomes
  <1>3. QED
    BY <1>2, Zenon DEF SessionsTyped, Doing, Lock, AdminRow

\* Rows are added, and those of commands stay.
LEMMA AdminStays ==
  ASSUME SessionsTyped, sessionRows' \in Seq(Row), Len(sessionRows) <= Len(sessionRows')
  PROVE  admin \in [Admin -> AdminRow(0..Len(sessionRows'))]
  <1>1. 0..Len(sessionRows) \subseteq 0..Len(sessionRows')
    BY DEF SessionsTyped
  <1>2. AdminRow(0..Len(sessionRows)) \subseteq AdminRow(0..Len(sessionRows'))
    BY <1>1 DEF AdminRow
  <1>3. QED
    BY <1>2 DEF SessionsTyped

\* A process takes a step that leaves the table, or marks a row of it.
LEMMA ProcessTyped ==
  ASSUME SessionsTyped, NEW p \in MonitorProcess,
         sessionRows' \in Seq(Row), Len(sessionRows') = Len(sessionRows),
         lockFile' \in Lock, launches' \in 0..MaxLaunches, UNCHANGED <<admin, commands>>, raced' \in BOOLEAN,
         NEW d \in Doing(0..Len(sessionRows)), d.at \in Serving => d.serves > 0, Becomes(p, d)
  PROVE  SessionsTyped'
  <1>1. Len(sessionRows) \in Nat /\ Len(sessionRows) <= Len(sessionRows')
    BY DEF SessionsTyped
  <1>2. admin' \in [Admin -> AdminRow(0..Len(sessionRows'))] /\ commands' \in 0..MaxCommands
    BY <1>1, AdminStays DEF SessionsTyped
  <1>3. d \in Doing(0..Len(sessionRows'))
    OBVIOUS
  <1>4. QED
    BY <1>1, <1>2, <1>3, BecomesTyped

\* ... by going on.
LEMMA GoesTyped ==
  ASSUME SessionsTyped, NEW p \in MonitorProcess, NEW step \in Places, Goes(p, step),
         step \in Serving => monitor[p].at \in Serving,
         sessionRows' \in Seq(Row), Len(sessionRows') = Len(sessionRows),
         lockFile' \in Lock, launches' \in 0..MaxLaunches, UNCHANGED <<admin, commands>>, raced' \in BOOLEAN
  PROVE  SessionsTyped'
  <1>1. PICK d \in Doing(0..Len(sessionRows)) :
            Becomes(p, d) /\ d.at = step /\ d.serves = monitor[p].serves /\ d.read = monitor[p].read
    BY Going
  <1>2. d.at \in Serving => d.serves > 0
    BY <1>1 DEF SessionsTyped
  <1>3. QED
    BY <1>1, <1>2, ProcessTyped

\* ... or by ending.
LEMMA QuitsTyped ==
  ASSUME SessionsTyped, NEW p \in MonitorProcess, Quits(p),
         sessionRows' \in Seq(Row), Len(sessionRows') = Len(sessionRows),
         lockFile' \in Lock, launches' \in 0..MaxLaunches, UNCHANGED <<admin, commands>>, raced' \in BOOLEAN
  PROVE  SessionsTyped'
  <1>1. Off \in Doing(0..Len(sessionRows))
    BY OffTyped DEF SessionsTyped
  <1>2. Off.at \notin Serving /\ Becomes(p, Off)
    BY DEF Off, Serving, Quits, Becomes
  <1>3. QED
    BY <1>1, <1>2, ProcessTyped

LEMMA TakesSession ==
  ASSUME SessionsTyped, NEW p \in MonitorProcess, NEW T, 0..Len(sessionRows) \subseteq T, NEW n \in T,
         monitor' = [monitor EXCEPT ![p].at = "locks", ![p].serves = n]
  PROVE  \E d \in Doing(T) : d.serves = n /\ Becomes(p, d)
  <1>1. monitor[p] \in Doing(T)
    BY DEF SessionsTyped, Doing
  <1>2. \A r \in Doing(T) : LET d == [r EXCEPT !.at = "locks", !.serves = n]
                            IN  d \in Doing(T) /\ d.serves = n
    BY DEF Doing, Places
  <1>3. Becomes(p, [monitor[p] EXCEPT !.at = "locks", !.serves = n])
    BY DEF Becomes
  <1>4. QED
    BY <1>1, <1>2, <1>3

LEMMA MonitorStepTyped ==
  ASSUME SessionsTyped, NEW p \in MonitorProcess, MonitorStep(p)
  PROVE  SessionsTyped'
  <1> USE DEF commandVars, countVars
  <1>1. /\ sessionRows \in Seq(Row) /\ lockFile \in Lock /\ launches \in 0..MaxLaunches
        /\ raced \in BOOLEAN /\ monitor[p] \in Doing(0..Len(sessionRows)) /\ Len(sessionRows) \in Nat
    BY DEF SessionsTyped
  <1>2. {"new", "begins", "saves", "locks", "reads", "writes", "owns", "runs", "cancels", "fails",
         "releases"} \subseteq Places
    BY DEF Places
  <1>3. \A q \in MonitorProcess : [of |-> q, written |-> FALSE] \in Lock /\ NoLock \in Lock
    BY DEF Lock
  <1>4. \A of \in MonitorProcess \cup {Gone}, lock \in Lock : lock # NoLock =>
           [lock EXCEPT !.of = of] \in Lock /\ [lock EXCEPT !.written = TRUE] \in Lock
    BY DEF Lock
  <1>5. CASE Launch(p)
    <2>1. "new" \notin Serving /\ "new" \in Places
      BY DEF Serving, Places
    <2>2. launches' \in 0..MaxLaunches
      BY <1>1, <1>5, MonitorSessionsAssumption DEF Launch, Spawned
    <2>3. QED
      BY <1>1, <1>5, <2>1, <2>2, GoesTyped DEF Launch, Spawned
  <1>6. CASE TakeSession(p)
    <2>1. CASE ActiveRows = {}
      <3>1. "begins" \notin Serving
        BY DEF Serving
      <3>2. QED
        BY <1>1, <1>2, <1>6, <2>1, <3>1, GoesTyped DEF TakeSession
    <2>2. CASE ActiveRows # {}
      <3>1. Newest \in 1..Len(sessionRows)
        BY <1>1, <2>2, NewestIsActive
      <3>2. Newest \in 0..Len(sessionRows) /\ Newest > 0
        BY <1>1, <3>1
      <3>3. PICK d \in Doing(0..Len(sessionRows)) : d.serves = Newest /\ Becomes(p, d)
        BY <1>6, <2>2, <3>2, TakesSession DEF TakeSession
      <3>4. d.serves > 0
        BY <3>2, <3>3
      <3>5. QED
        BY <1>1, <1>6, <3>3, <3>4, ProcessTyped DEF TakeSession
    <2>3. QED
      BY <2>1, <2>2
  <1>7. CASE CheckOwn(p)
    <2>1. "saves" \notin Serving
      BY DEF Serving
    <2>2. QED
      BY <1>1, <1>2, <1>7, <2>1, GoesTyped, QuitsTyped DEF CheckOwn
  <1>8. CASE SaveOwn(p)
    <2> DEFINE n == Len(sessionRows')
    <2>1. /\ sessionRows' \in Seq(Row) /\ n = Len(sessionRows) + 1 /\ n \in 1..n
          /\ 0..Len(sessionRows) \subseteq 0..n
      BY <1>1, <1>8, RowBegun DEF SaveOwn
    <2>2. n \in 0..n /\ n > 0 /\ Len(sessionRows) <= n
      BY <1>1, <2>1
    <2>3. PICK d \in Doing(0..n) : d.serves = n /\ Becomes(p, d)
      BY <1>8, <2>1, <2>2, TakesSession DEF SaveOwn
    <2>4. d.serves > 0
      BY <2>2, <2>3
    <2>5. admin' \in [Admin -> AdminRow(0..n)] /\ commands' \in 0..MaxCommands
      BY <1>8, <2>1, <2>2, AdminStays DEF SaveOwn, SessionsTyped
    <2> HIDE DEF n
    <2>6. n = Len(sessionRows')
      BY DEF n
    <2>7. QED
      BY <1>1, <1>8, <2>1, <2>2, <2>3, <2>4, <2>5, <2>6, BecomesTyped DEF SaveOwn
  <1>9. CASE CreateLock(p)
    <2>1. monitor[p].at \in Serving
      BY <1>9 DEF CreateLock, At, Serving
    <2>2. QED
      BY <1>1, <1>2, <1>3, <1>9, <2>1, GoesTyped DEF CreateLock
  <1>10. CASE ReadLock(p)
    <2>1. CASE Locked
      BY <1>1, <1>10, <2>1, QuitsTyped DEF ReadLock
    <2>2. CASE ~Locked
      <3>1. \A r \in Doing(0..Len(sessionRows)), lock \in Lock :
               LET d == [r EXCEPT !.at = "removes", !.read = lock]
               IN  d \in Doing(0..Len(sessionRows)) /\ d.serves = r.serves
        BY DEF Doing, Places
      <3>2. Becomes(p, [monitor[p] EXCEPT !.at = "removes", !.read = lockFile])
        BY <1>10, <2>2 DEF ReadLock, Becomes
      <3>3. monitor[p].serves > 0
        BY <1>10 DEF ReadLock, At, SessionsTyped, Serving
      <3>4. QED
        BY <1>1, <1>10, <3>1, <3>2, <3>3, ProcessTyped DEF ReadLock
    <2>3. QED
      BY <2>1, <2>2
  <1>11. CASE RemoveLock(p)
    <2>1. \A r \in Doing(0..Len(sessionRows)), lock \in Lock :
             LET d == [r EXCEPT !.at = "locks", !.read = lock]
             IN  d \in Doing(0..Len(sessionRows)) /\ d.serves = r.serves
      BY DEF Doing, Places
    <2>2. Becomes(p, [monitor[p] EXCEPT !.at = "locks", !.read = NoLock])
      BY <1>11 DEF RemoveLock, Becomes
    <2>3. monitor[p].serves > 0
      BY <1>11 DEF RemoveLock, At, SessionsTyped, Serving
    <2>4. raced' \in BOOLEAN
      BY <1>1, <1>11 DEF RemoveLock
    <2>5. NoLock \in Lock
      BY DEF Lock
    <2>6. QED
      BY <1>1, <1>11, <2>1, <2>2, <2>3, <2>4, <2>5, ProcessTyped DEF RemoveLock
  <1>12. CASE WriteLock(p)
    <2>1. monitor[p].at \in Serving
      BY <1>12 DEF WriteLock, At, Serving
    <2>2. lockFile' \in Lock
      BY <1>1, <1>4, <1>12 DEF WriteLock
    <2>3. QED
      BY <1>1, <1>2, <1>12, <2>1, <2>2, GoesTyped DEF WriteLock
  <1>13. CASE StartService(p)
    <2>1. CASE Goes(p, "releases") /\ UNCHANGED sessionRows
      <3>1. "releases" \notin Serving
        BY DEF Serving
      <3>2. QED
        BY <1>1, <1>2, <1>13, <2>1, <3>1, GoesTyped DEF StartService
    <2>2. CASE /\ monitor' = [monitor EXCEPT ![p].at = "runs", ![p].checking = TRUE]
               /\ Marked(monitor[p].serves, "active")
      <3>1. \A r \in Doing(0..Len(sessionRows)) :
               LET d == [r EXCEPT !.at = "runs", !.checking = TRUE]
               IN  d \in Doing(0..Len(sessionRows)) /\ d.serves = r.serves
        BY DEF Doing, Places
      <3>2. Becomes(p, [monitor[p] EXCEPT !.at = "runs", !.checking = TRUE])
        BY <2>2 DEF Becomes
      <3>3. monitor[p].serves > 0
        BY <1>13 DEF StartService, At, SessionsTyped, Serving
      <3>4. sessionRows' \in Seq(Row) /\ Len(sessionRows') = Len(sessionRows)
        BY <1>1, <2>2, RowMarked
      <3>5. QED
        BY <1>1, <1>13, <3>1, <3>2, <3>3, <3>4, ProcessTyped DEF StartService
    <2>3. QED
      BY <1>13, <2>1, <2>2 DEF StartService
  <1>14. CASE ExpireSession(p)
    <2>1. \A r \in Doing(0..Len(sessionRows)) :
             LET d == [r EXCEPT !.checking = FALSE]
             IN  d \in Doing(0..Len(sessionRows)) /\ d.serves = r.serves
      BY DEF Doing
    <2>2. Becomes(p, [monitor[p] EXCEPT !.checking = FALSE])
      BY <1>14 DEF ExpireSession, Becomes
    <2>3. monitor[p].serves > 0
      BY <1>14 DEF ExpireSession, At, SessionsTyped, Serving
    <2>4. sessionRows' \in Seq(Row) /\ Len(sessionRows') = Len(sessionRows)
      BY <1>1, <1>14, RowMarked DEF ExpireSession, Ended
    <2>5. QED
      BY <1>1, <1>14, <2>1, <2>2, <2>3, <2>4, ProcessTyped DEF ExpireSession
  <1>15. CASE LeaveLoop(p)
    <2>1. {"cancels", "fails"} \cap Serving = {}
      BY DEF Serving
    <2>2. sessionRows' \in Seq(Row) /\ Len(sessionRows') = Len(sessionRows)
      BY <1>1, <1>15, RowMarked DEF LeaveLoop
    <2>3. QED
      BY <1>1, <1>2, <1>15, <2>1, <2>2, GoesTyped DEF LeaveLoop
  <1>16. CASE EndSession(p)
    <2>1. \A r \in Doing(0..Len(sessionRows)) :
             LET d == [r EXCEPT !.at = "releases", !.checking = FALSE]
             IN  d \in Doing(0..Len(sessionRows)) /\ d.at \notin Serving
      BY DEF Doing, Places, Serving
    <2>2. Becomes(p, [monitor[p] EXCEPT !.at = "releases", !.checking = FALSE])
      BY <1>16 DEF EndSession, Becomes
    <2>3. sessionRows' \in Seq(Row) /\ Len(sessionRows') = Len(sessionRows)
      BY <1>1, <1>16, NewestMarked DEF EndSession, Ended
    <2>4. QED
      BY <1>1, <1>16, <2>1, <2>2, <2>3, ProcessTyped DEF EndSession
  <1>17. CASE ReleaseLock(p)
    BY <1>1, <1>3, <1>17, QuitsTyped DEF ReleaseLock
  <1>18. CASE KillMonitor(p)
    <2>1. lockFile' \in Lock
      BY <1>1, <1>4, <1>18 DEF KillMonitor, Dies
    <2>2. QED
      BY <1>1, <1>18, <2>1, QuitsTyped DEF KillMonitor, Dies
  <1>19. QED
    BY <1>5, <1>6, <1>7, <1>8, <1>9, <1>10, <1>11, <1>12, <1>13, <1>14, <1>15, <1>16, <1>17, <1>18
       DEF MonitorStep

LEMMA ProceedsTyped ==
  ASSUME SessionsTyped, sessionRows' \in Seq(Row), Len(sessionRows) <= Len(sessionRows'),
         NEW c \in Admin, NEW from,
         NEW to \in {"idle", "starts", "measures", "measuring", "stops", "restarts"},
         NEW session \in 0..Len(sessionRows'), Proceeds(c, from, to, session)
  PROVE  admin' \in [Admin -> AdminRow(0..Len(sessionRows'))] /\ commands' \in 0..MaxCommands
  <1>1. admin \in [Admin -> AdminRow(0..Len(sessionRows'))]
    BY AdminStays
  <1>2. [at |-> to, session |-> session] \in AdminRow(0..Len(sessionRows'))
    BY DEF AdminRow
  <1>3. commands \in Nat /\ MaxCommands \in Nat
    BY MonitorSessionsAssumption DEF SessionsTyped
  <1>4. commands' \in 0..MaxCommands
    BY <1>3 DEF Proceeds
  <1>5. QED
    BY <1>1, <1>2, <1>4 DEF Proceeds

LEMMA SignalsTyped ==
  ASSUME SessionsTyped, NEW p \in MonitorProcess, Signals(p)
  PROVE  lockFile' \in Lock /\ \E d \in Doing(0..Len(sessionRows)) :
            Becomes(p, d) /\ (d.at \in Serving => d.serves > 0)
  <1>1. lockFile \in Lock /\ monitor[p] \in Doing(0..Len(sessionRows)) /\ Len(sessionRows) \in Nat
    BY DEF SessionsTyped
  <1>2. CASE UNCHANGED lockFile /\ monitor' = [monitor EXCEPT ![p].stop = TRUE]
    <2>1. \A r \in Doing(0..Len(sessionRows)) :
             LET d == [r EXCEPT !.stop = TRUE]
             IN  d \in Doing(0..Len(sessionRows)) /\ d.at = r.at /\ d.serves = r.serves
      BY DEF Doing
    <2>2. Becomes(p, [monitor[p] EXCEPT !.stop = TRUE])
      BY <1>2 DEF Becomes
    <2>3. QED
      BY <1>1, <1>2, <2>1, <2>2 DEF SessionsTyped
  <1>3. CASE Dies(p)
    <2>1. \A lock \in Lock : lock # NoLock => [lock EXCEPT !.of = Gone] \in Lock
      BY DEF Lock
    <2>2. lockFile' \in Lock
      BY <1>1, <1>3, <2>1 DEF Dies
    <2>3. Off \in Doing(0..Len(sessionRows)) /\ Off.at \notin Serving /\ Becomes(p, Off)
      <3>1. Off.at \notin Serving /\ Becomes(p, Off)
        BY <1>3 DEF Off, Serving, Dies, Quits, Becomes
      <3>2. QED
        BY <1>1, <3>1, OffTyped
    <2>4. QED
      BY <2>2, <2>3
  <1>4. QED
    BY <1>2, <1>3 DEF Signals

\* A command that signals nobody, and starts nothing.
LEMMA CommandTyped ==
  ASSUME SessionsTyped, sessionRows' \in Seq(Row), Len(sessionRows) <= Len(sessionRows'),
         UNCHANGED <<lockFile, monitor, launches, raced>>,
         admin' \in [Admin -> AdminRow(0..Len(sessionRows'))], commands' \in 0..MaxCommands
  PROVE  SessionsTyped'
  <1>1. 0..Len(sessionRows) \subseteq 0..Len(sessionRows')
    BY DEF SessionsTyped
  <1>2. Doing(0..Len(sessionRows)) \subseteq Doing(0..Len(sessionRows'))
    BY <1>1 DEF Doing
  <1>3. /\ monitor' \in [MonitorProcess -> Doing(0..Len(sessionRows'))]
        /\ \A q \in MonitorProcess : monitor'[q].at \in Serving => monitor'[q].serves > 0
    BY <1>2 DEF SessionsTyped
  <1>4. launches' \in 0..MaxLaunches /\ raced' \in BOOLEAN /\ lockFile' \in Lock
    BY DEF SessionsTyped
  <1>5. QED
    BY <1>3, <1>4, Zenon DEF SessionsTyped, Doing, Lock, AdminRow

LEMMA AdminStepTyped ==
  ASSUME SessionsTyped, NEW c \in Admin, AdminStep(c)
  PROVE  SessionsTyped'
  <1>1. /\ sessionRows \in Seq(Row) /\ Len(sessionRows) \in Nat /\ 0 \in 0..Len(sessionRows)
        /\ Len(sessionRows) <= Len(sessionRows) /\ launches \in 0..MaxLaunches /\ raced \in BOOLEAN
        /\ lockFile \in Lock
    BY DEF SessionsTyped
  <1>2. CASE AskSession(c)
    <2>1. sessionRows' = sessionRows
      BY <1>2 DEF AskSession
    <2>2. QED
      BY <1>1, <1>2, <2>1, ProceedsTyped, CommandTyped DEF AskSession
  <1>3. CASE EndMeasuring(c)
    <2>1. sessionRows' \in Seq(Row) /\ Len(sessionRows') = Len(sessionRows)
      BY <1>1, <1>3, RowMarked DEF EndMeasuring, Ended
    <2>2. QED
      BY <1>1, <1>3, <2>1, ProceedsTyped, CommandTyped DEF EndMeasuring
  <1>4. CASE StopMonitor(c) \/ RestartMonitor(c)
    <2>1. admin' \in [Admin -> AdminRow(0..Len(sessionRows'))] /\ commands' \in 0..MaxCommands
      BY <1>1, <1>4, ProceedsTyped DEF StopMonitor, RestartMonitor
    <2>2. CASE Signals(lockFile.of) /\ Locked
      <3>1. lockFile.of \in MonitorProcess
        BY <2>2 DEF Locked, Lives
      <3>2. lockFile' \in Lock /\ \E d \in Doing(0..Len(sessionRows)) :
               Becomes(lockFile.of, d) /\ (d.at \in Serving => d.serves > 0)
        BY <2>2, <3>1, SignalsTyped
      <3>3. UNCHANGED <<sessionRows, launches, raced>>
        BY <1>4 DEF StopMonitor, RestartMonitor
      <3>4. QED
        BY <1>1, <2>1, <3>1, <3>2, <3>3, BecomesTyped
    <2>3. CASE UNCHANGED <<lockFile, monitor>>
      BY <1>1, <1>4, <2>1, <2>3, CommandTyped DEF StopMonitor, RestartMonitor
    <2>4. QED
      BY <1>4, <2>2, <2>3 DEF StopMonitor, RestartMonitor
  <1>5. CASE CancelSession(c)
    <2>1. sessionRows' \in Seq(Row) /\ Len(sessionRows') = Len(sessionRows)
      BY <1>1, <1>5, NewestMarked DEF CancelSession, Ended
    <2>2. QED
      BY <1>1, <1>5, <2>1, ProceedsTyped, CommandTyped DEF CancelSession
  <1>6. CASE AfterRestart(c)
    <2>1. sessionRows' = sessionRows
      BY <1>6 DEF AfterRestart
    <2>2. QED
      BY <1>1, <1>6, <2>1, ProceedsTyped, CommandTyped DEF AfterRestart
  <1>7. CASE AdminDies(c)
    <2>1. sessionRows' = sessionRows
      BY <1>7 DEF AdminDies
    <2>2. QED
      BY <1>1, <1>7, <2>1, ProceedsTyped, CommandTyped DEF AdminDies
  <1>8. ASSUME NEW limited \in BOOLEAN, StartMonitor(c, limited) PROVE SessionsTyped'
    <2>1. /\ sessionRows' \in Seq(Row) /\ Len(sessionRows') = Len(sessionRows) + 1
          /\ Len(sessionRows') \in 1..Len(sessionRows')
          /\ 0..Len(sessionRows) \subseteq 0..Len(sessionRows')
      BY <1>1, <1>8, RowBegun DEF StartMonitor
    <2>2. Len(sessionRows) <= Len(sessionRows') /\ 0 \in 0..Len(sessionRows')
      BY <1>1, <2>1
    <2>3. admin' \in [Admin -> AdminRow(0..Len(sessionRows'))] /\ commands' \in 0..MaxCommands
      BY <1>8, <2>1, <2>2, ProceedsTyped DEF StartMonitor
    <2>4. PICK p \in MonitorProcess : Spawned(p)
      BY <1>8 DEF StartMonitor
    <2>5. "new" \in Places /\ "new" \notin Serving
      BY DEF Places, Serving
    <2>6. PICK d \in Doing(0..Len(sessionRows)) : Becomes(p, d) /\ d.at = "new"
      BY <2>4, <2>5, Going DEF Spawned
    <2>7. d \in Doing(0..Len(sessionRows'))
      BY <2>1, <2>6 DEF Doing
    <2>8. launches' \in 0..MaxLaunches
      BY <1>1, <2>4, MonitorSessionsAssumption DEF Spawned
    <2>9. lockFile' \in Lock /\ raced' \in BOOLEAN
      BY <1>1, <1>8 DEF StartMonitor
    <2>10. QED
      BY <2>1, <2>2, <2>3, <2>5, <2>6, <2>7, <2>8, <2>9, BecomesTyped
  <1>9. ASSUME NEW limited \in BOOLEAN, BeginMeasuring(c, limited) PROVE SessionsTyped'
    <2>1. /\ sessionRows' \in Seq(Row) /\ Len(sessionRows') = Len(sessionRows) + 1
          /\ Len(sessionRows') \in 1..Len(sessionRows')
      BY <1>1, <1>9, RowBegun DEF BeginMeasuring
    <2>2. Len(sessionRows) <= Len(sessionRows') /\ Len(sessionRows') \in 0..Len(sessionRows')
      BY <1>1, <2>1
    <2>3. admin' \in [Admin -> AdminRow(0..Len(sessionRows'))] /\ commands' \in 0..MaxCommands
      BY <1>9, <2>1, <2>2, ProceedsTyped DEF BeginMeasuring
    <2>4. QED
      BY <1>9, <2>1, <2>2, <2>3, CommandTyped DEF BeginMeasuring
  <1>10. QED
    BY <1>2, <1>3, <1>4, <1>5, <1>6, <1>7, <1>8, <1>9 DEF AdminStep

-----------------------------------------------------------------------------
(* MonitorSessions: the lock file *)

LockSteps == {"writes", "owns", "runs", "cancels", "fails", "releases"}

\* A lock file that nobody who is left has written.
Stale(lock) == lock = NoLock \/ ~lock.written \/ lock.of = Gone

\* The lock file is that of the process that has passed it, and of a process that lives it
\* is judged neither stale nor ownerless.
LockHeld ==
    /\ \A p \in MonitorProcess : monitor[p].at \in LockSteps =>
          lockFile = [of |-> p, written |-> monitor[p].at # "writes"]
    /\ \A p \in MonitorProcess : lockFile # NoLock /\ lockFile.of = p => monitor[p].at \in LockSteps
    /\ \A p \in MonitorProcess : monitor[p].at = "removes" => Stale(monitor[p].read)

SessionsInv == SessionsTyped /\ (raced \/ LockHeld)

LEMMA Going2 ==
  ASSUME SessionsTyped, NEW p \in MonitorProcess, NEW step, Goes(p, step)
  PROVE  /\ monitor'[p].at = step /\ monitor'[p].read = monitor[p].read
         /\ \A q \in MonitorProcess : q # p => monitor'[q] = monitor[q]
  <1>1. monitor[p] \in Doing(0..Len(sessionRows))
    BY DEF SessionsTyped
  <1>2. monitor'[p] = [monitor[p] EXCEPT !.at = step]
    BY DEF SessionsTyped, Goes
  <1>3. QED
    BY <1>1, <1>2 DEF SessionsTyped, Goes, Doing

LEMMA Holder ==
  ASSUME LockHeld, NEW p \in MonitorProcess, monitor[p].at \in LockSteps
  PROVE  /\ lockFile = [of |-> p, written |-> monitor[p].at # "writes"]
         /\ lockFile # NoLock /\ lockFile.of = p
  <1>1. \A b \in BOOLEAN : [of |-> p, written |-> b] # NoLock /\ [of |-> p, written |-> b].of = p
    BY MonitorSessionsAssumption
  <1>2. lockFile = [of |-> p, written |-> monitor[p].at # "writes"]
    BY DEF LockHeld
  <1>3. (monitor[p].at # "writes") \in BOOLEAN
    OBVIOUS
  <1>4. QED
    BY <1>1, <1>2, <1>3

\* A process that neither has the lock file nor takes it.
LEMMA Elsewhere ==
  ASSUME LockHeld, NEW p \in MonitorProcess, UNCHANGED lockFile,
         monitor[p].at \notin LockSteps, monitor'[p].at \notin LockSteps \cup {"removes"},
         \A q \in MonitorProcess : q # p => monitor'[q] = monitor[q]
  PROVE  LockHeld'
  BY DEF LockHeld

\* A process that has the lock file goes on, and keeps it.
LEMMA Onward ==
  ASSUME LockHeld, NEW p \in MonitorProcess, UNCHANGED lockFile,
         monitor[p].at \in LockSteps \ {"writes"}, monitor'[p].at \in LockSteps \ {"writes"},
         \A q \in MonitorProcess : q # p => monitor'[q] = monitor[q]
  PROVE  LockHeld'
  <1>1. monitor'[p].at # "removes" /\ monitor[p].at \in LockSteps /\ monitor'[p].at \in LockSteps
    BY DEF LockSteps
  <1>2. QED
    BY <1>1 DEF LockHeld

\* The lock file of a process that ends is removed, or names nobody.
LEMMA Ending ==
  ASSUME SessionsTyped, LockHeld, NEW p \in MonitorProcess, Quits(p),
         lockFile' \in Lock,
         lockFile # NoLock /\ lockFile.of = p => lockFile' = NoLock \/ lockFile'.of = Gone,
         ~(lockFile # NoLock /\ lockFile.of = p) => lockFile' = lockFile
  PROVE  LockHeld'
  <1>1. monitor'[p] = Off /\ \A q \in MonitorProcess : q # p => monitor'[q] = monitor[q]
    BY DEF SessionsTyped, Quits
  <1>2. Off.at \notin LockSteps /\ Off.at # "removes"
    BY DEF Off, LockSteps
  <1>3. \A q \in MonitorProcess : monitor[q].at \in LockSteps => lockFile # NoLock /\ lockFile.of = q
    BY Holder
  <1>4. \A q \in MonitorProcess : q # p /\ monitor[q].at \in LockSteps => lockFile' = lockFile
    BY <1>3
  <1>5. ASSUME NEW q \in MonitorProcess, monitor'[q].at \in LockSteps
        PROVE  lockFile' = [of |-> q, written |-> monitor'[q].at # "writes"]
    BY <1>1, <1>2, <1>4, <1>5 DEF LockHeld
  <1>6. ASSUME NEW q \in MonitorProcess, lockFile' # NoLock, lockFile'.of = q
        PROVE  monitor'[q].at \in LockSteps
    BY <1>1, <1>6, MonitorSessionsAssumption DEF LockHeld
  <1>7. ASSUME NEW q \in MonitorProcess, monitor'[q].at = "removes"
        PROVE  Stale(monitor'[q].read)
    BY <1>1, <1>2, <1>7 DEF LockHeld
  <1>8. QED
    BY <1>5, <1>6, <1>7 DEF LockHeld, Stale

\* The process whose lock file it is lives while it is at one of its steps.
LEMMA OwnerLives == ASSUME LockHeld, NEW p \in MonitorProcess, lockFile # NoLock, lockFile.of = p PROVE Lives(p)
  BY DEF LockHeld, LockSteps, Lives

\* It dies, or is ended by a command.
LEMMA DyingKeeps == ASSUME SessionsTyped, LockHeld, NEW p \in MonitorProcess, Dies(p) PROVE LockHeld'
  <1>1. lockFile \in Lock /\ Quits(p)
    BY DEF SessionsTyped, Dies
  <1>2. CASE lockFile # NoLock /\ lockFile.of = p
    <2>1. lockFile' = [lockFile EXCEPT !.of = Gone]
      BY <1>2 DEF Dies
    <2>2. lockFile' \in Lock /\ lockFile'.of = Gone
      BY <1>1, <1>2, <2>1 DEF Lock
    <2>3. QED
      BY <1>1, <1>2, <2>2, Ending
  <1>3. CASE ~(lockFile # NoLock /\ lockFile.of = p)
    <2>1. lockFile' = lockFile
      BY <1>3 DEF Dies
    <2>2. QED
      BY <1>1, <1>3, <2>1, Ending
  <1>4. QED
    BY <1>2, <1>3

LEMMA LockStays ==
  ASSUME SessionsTyped, LockHeld, NEW p \in MonitorProcess, MonitorStep(p), ~raced'
  PROVE  LockHeld'
  <1> USE DEF commandVars, countVars
  <1>1. CASE Launch(p)
    <2>1. "new" \notin LockSteps \cup {"removes"} /\ "off" \notin LockSteps
      BY DEF LockSteps
    <2>2. QED
      BY <1>1, <2>1, Going2, Elsewhere DEF Launch, Spawned, At
  <1>2. CASE TakeSession(p) \/ SaveOwn(p)
    <2>1. monitor'[p].at \in {"begins", "locks"} /\ \A q \in MonitorProcess : q # p => monitor'[q] = monitor[q]
      BY <1>2 DEF TakeSession, SaveOwn, Goes, SessionsTyped, Doing
    <2>2. monitor[p].at \notin LockSteps /\ monitor'[p].at \notin LockSteps \cup {"removes"}
      BY <1>2, <2>1 DEF TakeSession, SaveOwn, At, LockSteps
    <2>3. QED
      BY <1>2, <2>1, <2>2, Elsewhere DEF TakeSession, SaveOwn
  <1>3. CASE CheckOwn(p)
    <2>1. monitor'[p].at \in {"saves", "off"} /\ \A q \in MonitorProcess : q # p => monitor'[q] = monitor[q]
      BY <1>3 DEF CheckOwn, Goes, Quits, Off, SessionsTyped, Doing
    <2>2. monitor[p].at \notin LockSteps /\ monitor'[p].at \notin LockSteps \cup {"removes"}
      BY <1>3, <2>1 DEF CheckOwn, At, LockSteps
    <2>3. QED
      BY <1>3, <2>1, <2>2, Elsewhere DEF CheckOwn
  <1>4. CASE CreateLock(p)
    <2>1. monitor[p].at = "locks" /\ "locks" \notin LockSteps
      BY <1>4 DEF CreateLock, At, LockSteps
    <2>2. CASE lockFile = NoLock
      <3>1. /\ monitor'[p].at = "writes" /\ lockFile' = [of |-> p, written |-> FALSE]
            /\ \A q \in MonitorProcess : q # p => monitor'[q] = monitor[q]
        BY <1>4, <2>2, Going2 DEF CreateLock
      <3>2. \A q \in MonitorProcess : monitor[q].at \notin LockSteps
        BY <2>2, Holder
      <3>3. "writes" \in LockSteps
        BY DEF LockSteps
      <3>4. QED
        BY <3>1, <3>2, <3>3 DEF LockHeld, Stale
    <2>3. CASE lockFile # NoLock
      <3>1. "reads" \notin LockSteps \cup {"removes"}
        BY DEF LockSteps
      <3>2. QED
        BY <1>4, <2>1, <2>3, <3>1, Going2, Elsewhere DEF CreateLock
    <2>4. QED
      BY <2>2, <2>3
  <1>5. CASE ReadLock(p)
    <2>1. monitor[p].at = "reads" /\ "reads" \notin LockSteps /\ UNCHANGED lockFile
      BY <1>5 DEF ReadLock, At, LockSteps
    <2>2. CASE Locked
      <3>1. monitor'[p] = Off /\ \A q \in MonitorProcess : q # p => monitor'[q] = monitor[q]
        BY <1>5, <2>2 DEF ReadLock, Quits, SessionsTyped
      <3>2. Off.at \notin LockSteps \cup {"removes"}
        BY DEF Off, LockSteps
      <3>3. QED
        BY <2>1, <3>1, <3>2, Elsewhere
    <2>3. CASE ~Locked
      <3>1. /\ monitor'[p].at = "removes" /\ monitor'[p].read = lockFile
            /\ \A q \in MonitorProcess : q # p => monitor'[q] = monitor[q]
        BY <1>5, <2>3 DEF ReadLock, SessionsTyped, Doing
      <3>2. Stale(lockFile)
        <4>1. lockFile \in Lock
          BY DEF SessionsTyped
        <4>2. QED
          BY <2>3, <4>1, OwnerLives DEF Locked, Written, Stale, Lock
      <3>3. "removes" \notin LockSteps
        BY DEF LockSteps
      <3>4. QED
        BY <2>1, <3>1, <3>2, <3>3 DEF LockHeld, Stale
    <2>4. QED
      BY <2>2, <2>3
  <1>6. CASE RemoveLock(p)
    <2>1. /\ monitor'[p].at = "locks" /\ monitor[p].at = "removes"
          /\ \A q \in MonitorProcess : q # p => monitor'[q] = monitor[q]
      BY <1>6 DEF RemoveLock, At, SessionsTyped, Doing
    <2>2. lockFile # NoLock => ~Lives(lockFile.of)
      <3>1. Stale(monitor[p].read)
        BY <2>1 DEF LockHeld
      <3>2. lockFile # NoLock /\ Lives(lockFile.of) => lockFile = monitor[p].read /\ lockFile.written
        BY <1>6 DEF RemoveLock
      <3>3. QED
        BY <3>1, <3>2, MonitorSessionsAssumption DEF Stale, Lives
    <2>3. \A q \in MonitorProcess : monitor[q].at \notin LockSteps
      BY <2>2, Holder, OwnerLives
    <2>4. lockFile' = NoLock /\ "locks" \notin LockSteps
      BY <1>6 DEF RemoveLock, LockSteps
    <2>5. QED
      BY <2>1, <2>3, <2>4 DEF LockHeld, Stale
  <1>7. CASE WriteLock(p)
    <2>1. /\ monitor'[p].at = "owns" /\ monitor[p].at = "writes"
          /\ \A q \in MonitorProcess : q # p => monitor'[q] = monitor[q]
      BY <1>7, Going2 DEF WriteLock, At
    <2>2. {"writes", "owns"} \subseteq LockSteps
      BY DEF LockSteps
    <2>3. lockFile = [of |-> p, written |-> FALSE] /\ lockFile # NoLock
      BY <2>1, <2>2, Holder
    <2>4. lockFile' = [of |-> p, written |-> TRUE]
      BY <1>7, <2>3 DEF WriteLock
    <2>5. \A q \in MonitorProcess : q # p => monitor[q].at \notin LockSteps
      BY <2>3 DEF LockHeld
    <2>6. QED
      BY <2>1, <2>2, <2>4, <2>5 DEF LockHeld, Stale
  <1>8. CASE StartService(p) \/ LeaveLoop(p) \/ EndSession(p) \/ ExpireSession(p)
    <2>1. /\ monitor[p].at \in {"owns", "runs", "cancels", "fails"}
          /\ monitor'[p].at \in {"owns", "runs", "cancels", "fails", "releases"}
          /\ \A q \in MonitorProcess : q # p => monitor'[q] = monitor[q]
      BY <1>8 DEF StartService, LeaveLoop, EndSession, ExpireSession, At, Goes, SessionsTyped, Doing
    <2>2. {"owns", "runs", "cancels", "fails", "releases"} \subseteq LockSteps \ {"writes"}
      BY DEF LockSteps
    <2>3. UNCHANGED lockFile
      BY <1>8 DEF StartService, LeaveLoop, EndSession, ExpireSession
    <2>4. QED
      BY <2>1, <2>2, <2>3, Onward
  <1>9. CASE ReleaseLock(p)
    <2>1. monitor[p].at = "releases" /\ "releases" \in LockSteps
      BY <1>9 DEF ReleaseLock, At, LockSteps
    <2>2. lockFile = [of |-> p, written |-> TRUE] /\ lockFile # NoLock
      BY <2>1, Holder
    <2>3. lockFile' = NoLock /\ lockFile' \in Lock
      BY <1>9, <2>2 DEF ReleaseLock, Written, Lock
    <2>4. QED
      BY <1>9, <2>2, <2>3, Ending DEF ReleaseLock
  <1>10. CASE KillMonitor(p)
    BY <1>10, DyingKeeps DEF KillMonitor
  <1>11. QED
    BY <1>1, <1>2, <1>3, <1>4, <1>5, <1>6, <1>7, <1>8, <1>9, <1>10 DEF MonitorStep

\* Commands touch the lock file only by ending its owner.
LEMMA LockStaysForAdmin ==
  ASSUME SessionsTyped, LockHeld, NEW c \in Admin, AdminStep(c)
  PROVE  LockHeld'
  <1>1. CASE UNCHANGED <<lockFile, monitor>>
    BY <1>1 DEF LockHeld, Stale
  <1>2. ASSUME NEW p \in MonitorProcess, Signals(p) PROVE LockHeld'
    <2>1. CASE Dies(p)
      BY <2>1, DyingKeeps
    <2>2. CASE UNCHANGED lockFile /\ monitor' = [monitor EXCEPT ![p].stop = TRUE]
      <3>1. \A q \in MonitorProcess : monitor'[q].at = monitor[q].at /\ monitor'[q].read = monitor[q].read
        BY <2>2 DEF SessionsTyped, Doing
      <3>2. QED
        BY <2>2, <3>1 DEF LockHeld, Stale
    <2>3. QED
      BY <1>2, <2>1, <2>2 DEF Signals
  <1>3. ASSUME NEW p \in MonitorProcess, Spawned(p), UNCHANGED lockFile PROVE LockHeld'
    <2>1. "new" \notin LockSteps \cup {"removes"} /\ "off" \notin LockSteps
      BY DEF LockSteps
    <2>2. QED
      BY <1>3, <2>1, Going2, Elsewhere DEF Spawned, At
  <1>4. CASE StopMonitor(c) \/ RestartMonitor(c)
    <2>1. (Locked /\ Signals(lockFile.of)) \/ UNCHANGED <<lockFile, monitor>>
      BY <1>4 DEF StopMonitor, RestartMonitor
    <2>2. Locked => lockFile.of \in MonitorProcess
      BY DEF Locked, Lives
    <2>3. QED
      BY <1>1, <1>2, <2>1, <2>2
  <1>5. ASSUME NEW limited \in BOOLEAN, StartMonitor(c, limited) PROVE LockHeld'
    BY <1>3, <1>5 DEF StartMonitor
  <1>6. QED
    BY <1>1, <1>4, <1>5 DEF AdminStep, AskSession, EndMeasuring, CancelSession, AfterRestart, AdminDies,
       BeginMeasuring

-----------------------------------------------------------------------------
LEMMA SessionsSteps == ASSUME SessionsInv, [MonitorSessionsNext]_sessionsVars PROVE SessionsInv'
  <1>1. ASSUME NEW p \in MonitorProcess, MonitorStep(p) PROVE SessionsInv'
    <2>1. SessionsTyped'
      BY <1>1, MonitorStepTyped DEF SessionsInv
    <2>2. raced => raced'
      BY <1>1 DEF MonitorStep, Launch, TakeSession, CheckOwn, SaveOwn, CreateLock, ReadLock, RemoveLock,
         WriteLock, StartService, ExpireSession, LeaveLoop, EndSession, ReleaseLock, KillMonitor,
         commandVars, countVars
    <2>3. QED
      BY <1>1, <2>1, <2>2, LockStays DEF SessionsInv
  <1>2. ASSUME NEW c \in Admin, AdminStep(c) PROVE SessionsInv'
    <2>1. SessionsTyped'
      BY <1>2, AdminStepTyped DEF SessionsInv
    <2>2. UNCHANGED raced
      BY <1>2 DEF AdminStep, AskSession, EndMeasuring, StopMonitor, CancelSession, RestartMonitor,
         AfterRestart, AdminDies, StartMonitor, BeginMeasuring
    <2>3. QED
      BY <1>2, <2>1, <2>2, LockStaysForAdmin DEF SessionsInv
  <1>3. CASE UNCHANGED sessionsVars
    BY <1>3 DEF sessionsVars, SessionsInv, SessionsTyped, LockHeld, Stale, Doing, Lock, AdminRow
  <1>4. QED
    BY <1>1, <1>2, <1>3 DEF MonitorSessionsNext

LEMMA SessionsStart == MonitorSessionsInit => SessionsInv
  <1> SUFFICES ASSUME MonitorSessionsInit PROVE SessionsInv
    OBVIOUS
  <1>1. SessionsTyped
    BY SessionsStartTyped
  <1>2. \A p \in MonitorProcess : monitor[p] = Off
    BY DEF MonitorSessionsInit
  <1>3. Off.at \notin LockSteps /\ Off.at # "removes"
    BY DEF Off, LockSteps
  <1>4. lockFile = NoLock \/ lockFile = [of |-> Gone, written |-> TRUE]
    BY Zenon DEF MonitorSessionsInit
  <1>5. \A p \in MonitorProcess : ~(lockFile # NoLock /\ lockFile.of = p)
    BY <1>4, MonitorSessionsAssumption
  <1>6. QED
    BY <1>1, <1>2, <1>3, <1>5 DEF SessionsInv, LockHeld

\* The table, the lock file, the processes and the commands keep their types, and the lock file
\* is that of the process that has passed it, as long as no lock file of a process that lives
\* has been removed (lifecycle.py, SingletonLock; sessions.py).
THEOREM SessionsInvariant == MonitorSessionsSpec => []SessionsInv
  BY SessionsStart, SessionsSteps, PTL DEF MonitorSessionsSpec

\* One process at a time is the monitor, for any number of processes, commands, sessions and
\* deaths (lifecycle.py, SingletonLock.acquire).
THEOREM OneIsMonitor == MonitorSessionsSpec => []OneMonitor
  <1>1. SessionsInv => OneMonitor
    <2> SUFFICES ASSUME LockHeld, NEW p \in MonitorProcess, NEW q \in MonitorProcess,
                        IsMonitor(p), IsMonitor(q)
                 PROVE  p = q
      BY DEF SessionsInv, OneMonitor
    <2>1. lockFile = [of |-> p, written |-> TRUE] /\ lockFile = [of |-> q, written |-> TRUE]
      BY DEF IsMonitor, LockHeld, LockSteps
    <2>2. QED
      BY <2>1
  <1>2. QED
    BY <1>1, SessionsInvariant, PTL

\* What the monitor's processes and commands keep has its types (lifecycle.py, sessions.py).
THEOREM SessionsTypes == MonitorSessionsSpec => []MonitorSessionsTypeOK
  <1>1. SessionsInv => MonitorSessionsTypeOK
    <2> SUFFICES ASSUME SessionsTyped PROVE MonitorSessionsTypeOK
      BY DEF SessionsInv
    <2>1. \A p \in MonitorProcess : At(p, "runs") => monitor[p].serves > 0
      BY DEF SessionsTyped, At, Serving
    <2>2. QED
      BY <2>1 DEF SessionsTyped, MonitorSessionsTypeOK, Doing, Places, AdminRow, Row
  <1>2. QED
    BY <1>1, SessionsInvariant, PTL

-----------------------------------------------------------------------------
(* Desktop *)

Steps == {"none", "save", "fail", "apply", "return", "probes", "cancelled", "activate"}
DeskCall == [kind : {"none", "update", "undo", "redo", "delete", "rest", "read", "scan", "leave"},
             by : {"user", "question"}, step : Steps, of : GuiProject \cup {NoProject}]
Questions == [goal : {"none", "use", "create", "close"},
              at : {"none", "state", "asking", "commit", "save", "decided", "form", "leaving"},
              answer : {"none", "save", "discard"}, late : BOOLEAN]
Page == [typed : BOOLEAN, stale : SUBSET GuiElement, question : Questions]

\* Inventories are whole, whatever is in them.
DeskTyped ==
    /\ workspace = [p \in GuiProject |-> workspace[p]] /\ vlf = [p \in GuiProject |-> vlf[p]]
    /\ inUse \in known /\ known \subseteq GuiProject
    /\ call \in DeskCall /\ page \in Page

\* Where the question is, what it was answered, and which call it has made.
QuestionOK ==
    /\ Goal = "none" <=> Asking("none")
    /\ Asking("commit") \/ Asking("save") => page.question.answer = "save"
    /\ Asking("save") => Goal # "close"
    /\ Asking("form") => Goal = "create"
    /\ Asking("leaving") <=> call.step = "activate"
    /\ call.step = "activate" => call.by = "question" /\ call.of \in GuiProject
    /\ call.by = "question" => Asking("commit") \/ Asking("leaving")

\* Past the answer nothing is typed, and nothing is left to be saved, except what closing saves.
NothingLeft ==
    Unwanted =>
        /\ page.question.at \in {"save", "decided", "form", "leaving"} => ~page.typed
        /\ page.question.at \in {"decided", "form", "leaving"} =>
              ~IsDirty \/ (Goal = "close" /\ page.question.answer = "save")

DeskInv == DeskTyped /\ QuestionOK /\ NothingLeft /\ NothingDroppedUnasked

\* What the page becomes.
LEMMA Asks ==
  ASSUME NEW pg \in Page, NEW step \in {"none", "state", "asking", "commit", "save", "decided", "form", "leaving"}
  PROVE  /\ AsksOn(pg, step) \in Page
         /\ AsksOn(pg, step).typed = pg.typed
         /\ AsksOn(pg, step).question = [goal |-> pg.question.goal, at |-> step,
                                         answer |-> pg.question.answer, late |-> pg.question.late]
  BY DEF AsksOn, Page, Questions

LEMMA Halts ==
  ASSUME NEW pg \in Page
  PROVE  StopsAsking(pg) \in Page /\ StopsAsking(pg).typed = pg.typed /\ StopsAsking(pg).question = NoQuestion
  BY DEF StopsAsking, NoQuestion, Page, Questions

LEMMA Refreshes ==
  ASSUME NEW pg \in Page
  PROVE  Fresh(pg) \in Page /\ ~Fresh(pg).typed /\ Fresh(pg).question = pg.question
  BY DEF Fresh, Page

\* A question that is past reading its state is late from now on.
LEMMA Marks ==
  ASSUME page \in Page
  PROVE  /\ MarksLate(page) \in Page /\ MarksLate(page).typed = page.typed
         /\ \/ MarksLate(page) = page /\ (Goal = "none" \/ Asking("state"))
            \/ MarksLate(page).question = [goal |-> Goal, at |-> page.question.at,
                                           answer |-> page.question.answer, late |-> TRUE]
  BY DEF MarksLate, Asked, Goal, Asking, Page, Questions

\* Inventories stay whole.
LEMMA Whole ==
  ASSUME DeskTyped
  PROVE  /\ \A inv : [workspace EXCEPT ![inUse] = inv] =
                       [p \in GuiProject |-> [workspace EXCEPT ![inUse] = inv][p]]
         /\ [vlf EXCEPT ![inUse] = workspace[inUse]] =
               [p \in GuiProject |-> [vlf EXCEPT ![inUse] = workspace[inUse]][p]]
         /\ [vlf EXCEPT ![inUse] = workspace[inUse]][inUse] = workspace[inUse]
         /\ [workspace EXCEPT ![inUse] = vlf[inUse]][inUse] = vlf[inUse]
  <1> DEFINE W == workspace
             V == vlf
  <1>1. inUse \in GuiProject /\ W = [p \in GuiProject |-> W[p]] /\ V = [p \in GuiProject |-> V[p]]
    BY DEF DeskTyped
  <1> HIDE DEF W, V
  <1>2. /\ \A inv : [W EXCEPT ![inUse] = inv] = [p \in GuiProject |-> [W EXCEPT ![inUse] = inv][p]]
        /\ [V EXCEPT ![inUse] = W[inUse]] = [p \in GuiProject |-> [V EXCEPT ![inUse] = W[inUse]][p]]
        /\ [V EXCEPT ![inUse] = W[inUse]][inUse] = W[inUse]
        /\ [W EXCEPT ![inUse] = V[inUse]][inUse] = V[inUse]
    BY <1>1
  <1>3. QED
    BY <1>2 DEF W, V

\* A call that the question has not made, or that goes on, leaves the question where it is.
CallStays ==
    \/ UNCHANGED call
    \/ /\ call.step # "activate" /\ call'.step # "activate"
       /\ call'.by = "question" => call.by = "question"

\* The workspace changes while the question is open: it is late.
LEMMA ComesLate ==
  ASSUME DeskInv, DeskTyped', CallStays, page'.question = MarksLate(page).question, UNCHANGED dropped
  PROVE  DeskInv'
  <1>1. page \in Page /\ page' \in Page /\ call \in DeskCall /\ QuestionOK /\ ~dropped
    BY DEF DeskInv, DeskTyped, NothingDroppedUnasked
  <1>2. /\ page'.question.goal = Goal /\ page'.question.at = page.question.at
        /\ page'.question.answer = page.question.answer
        /\ page'.question.late \/ page.question.at \in {"none", "state"}
    BY <1>1, Marks DEF QuestionOK, Goal, Asking
  <1>3. QuestionOK'
    BY <1>1, <1>2 DEF QuestionOK, Goal, Asking, CallStays
  <1>4. NothingLeft'
    BY <1>2 DEF NothingLeft, Unwanted
  <1>5. QED
    BY <1>1, <1>3, <1>4 DEF DeskInv, NothingDroppedUnasked

\* What adds nothing to what may be lost.
LEMMA AddsNothing ==
  ASSUME DeskInv, DeskTyped', CallStays, page'.question = page.question, page'.typed => page.typed,
         IsDirty' => IsDirty, UNCHANGED dropped
  PROVE  DeskInv'
  <1>1. QuestionOK'
    BY DEF DeskInv, QuestionOK, Goal, Asking, CallStays
  <1>2. NothingLeft'
    BY DEF DeskInv, NothingLeft, Unwanted, Goal
  <1>3. QED
    BY <1>1, <1>2 DEF DeskInv, NothingDroppedUnasked

\* The question is dropped.
LEMMA QuestionEnds ==
  ASSUME DeskInv, DeskTyped', page'.question = NoQuestion, call'.by = "user", call'.step # "activate",
         dropped' => dropped
  PROVE  DeskInv'
  <1>1. QuestionOK'
    BY DEF QuestionOK, Goal, Asking, NoQuestion
  <1>2. NothingLeft'
    BY DEF NothingLeft, NoQuestion
  <1>3. QED
    BY <1>1, <1>2 DEF DeskInv, NothingDroppedUnasked

-----------------------------------------------------------------------------
\* The question goes on.
LEMMA QuestionSteps == ASSUME DeskInv, Question PROVE DeskInv'
  <1>1. /\ page \in Page /\ call \in DeskCall /\ DeskTyped /\ QuestionOK /\ NothingLeft /\ ~dropped
        /\ page.question \in Questions
    BY DEF DeskInv, DeskTyped, NothingDroppedUnasked, Page
  <1>2. /\ UNCHANGED <<workspace, vlf, known, inUse, call, dropped>>
        /\ page' \in Page => DeskTyped'
    BY <1>1 DEF Question, AskState, ReadState, Refused, Decided, Dismiss, NothingTyped, AnswerSave, deskVars,
       DeskTyped
  <1>3. UNCHANGED IsDirty
    BY <1>2 DEF IsDirty
  <1>4. NoCall.by = "user" /\ NoCall.step # "activate"
    BY DEF NoCall
  <1>5. CASE AskState
    <2>1. PICK goal \in {"use", "create", "close"} :
             page' = [page EXCEPT !.question = [NoQuestion EXCEPT !.goal = goal, !.at = "state"]]
      BY <1>5 DEF AskState
    <2>2. page' \in Page /\ page'.question.goal = goal /\ page'.question.at = "state"
      BY <1>1, <2>1 DEF Page, Questions, NoQuestion
    <2>3. QuestionOK'
      BY <1>2, <1>4, <1>5, <2>2 DEF QuestionOK, Asking, Goal, AskState
    <2>4. NothingLeft'
      BY <2>2 DEF NothingLeft
    <2>5. QED
      BY <1>1, <1>2, <2>2, <2>3, <2>4 DEF DeskInv, NothingDroppedUnasked
  <1>6. CASE ReadState
    <2>1. page' \in Page /\ page'.typed = page.typed
          /\ page'.question = [goal |-> Goal, at |-> IF IsDirty \/ page.typed THEN "asking" ELSE "decided",
                               answer |-> page.question.answer, late |-> page.question.late]
      BY <1>1, <1>6, Asks DEF ReadState, Goal
    <2>2. QuestionOK'
      BY <1>1, <1>2, <1>4, <1>6, <2>1 DEF QuestionOK, Asking, Goal, ReadState
    <2>3. NothingLeft'
      BY <1>3, <2>1 DEF NothingLeft
    <2>4. QED
      BY <1>1, <1>2, <2>1, <2>2, <2>3 DEF DeskInv, NothingDroppedUnasked
  <1>7. CASE Refused \/ Dismiss \/ AnswerSave("cancel")
    <2>1. page' = StopsAsking(page) /\ ~Asking("leaving") /\ (call.by = "question" => Asking("commit"))
      BY <1>1, <1>7 DEF Refused, Dismiss, AnswerSave, QuestionOK, Asking
    <2>2. call.by = "user"
      BY <1>1, <1>7, <2>1 DEF Refused, Dismiss, AnswerSave, QuestionOK, Asking, DeskCall
    <2>3. QED
      BY <1>1, <1>2, <2>1, <2>2, Halts, QuestionEnds DEF QuestionOK
  <1>8. CASE AnswerSave("discard")
    <2>1. page' \in Page /\ page'.question = [goal |-> Goal, at |-> "decided", answer |-> "discard",
                                              late |-> page.question.late]
      <3>1. PICK pg \in Page :
               /\ pg.question = [goal |-> Goal, at |-> "decided", answer |-> page.question.answer,
                                 late |-> page.question.late]
               /\ page' = [pg EXCEPT !.question.answer = "discard"]
        BY <1>1, <1>8, Asks DEF AnswerSave, Goal
      <3>2. page' \in Page /\ page'.question = [pg.question EXCEPT !.answer = "discard"]
        BY <3>1 DEF Page, Questions
      <3>3. QED
        BY <3>1, <3>2
    <2>2. QuestionOK'
      BY <1>1, <1>2, <1>8, <2>1 DEF QuestionOK, Asking, Goal, AnswerSave
    <2>3. NothingLeft'
      BY <2>1 DEF NothingLeft, Unwanted
    <2>4. QED
      BY <1>1, <1>2, <2>1, <2>2, <2>3 DEF DeskInv, NothingDroppedUnasked
  <1>9. CASE AnswerSave("save")
    <2>1. page' \in Page /\ page'.question = [goal |-> Goal, at |-> "commit", answer |-> "save",
                                              late |-> page.question.late]
      <3>1. PICK pg \in Page :
               /\ pg.question = [goal |-> Goal, at |-> "commit", answer |-> page.question.answer,
                                 late |-> page.question.late]
               /\ page' = [pg EXCEPT !.question.answer = "save"]
        BY <1>1, <1>9, Asks DEF AnswerSave, Goal
      <3>2. page' \in Page /\ page'.question = [pg.question EXCEPT !.answer = "save"]
        BY <3>1 DEF Page, Questions
      <3>3. QED
        BY <3>1, <3>2
    <2>2. QuestionOK'
      BY <1>1, <1>2, <1>9, <2>1 DEF QuestionOK, Asking, Goal, AnswerSave
    <2>3. NothingLeft'
      BY <2>1 DEF NothingLeft, Unwanted
    <2>4. QED
      BY <1>1, <1>2, <2>1, <2>2, <2>3 DEF DeskInv, NothingDroppedUnasked
  <1>10. CASE Decided
    <2>1. page' \in Page /\ page'.typed = page.typed
          /\ page'.question = [goal |-> Goal, at |-> "form", answer |-> page.question.answer,
                               late |-> page.question.late]
      BY <1>1, <1>10, Asks DEF Decided, Goal
    <2>2. QuestionOK'
      BY <1>1, <1>2, <1>10, <2>1 DEF QuestionOK, Asking, Goal, Decided
    <2>3. NothingLeft'
      BY <1>1, <1>3, <1>10, <2>1 DEF NothingLeft, Unwanted, Decided, Asking, Goal
    <2>4. QED
      BY <1>1, <1>2, <2>1, <2>2, <2>3 DEF DeskInv, NothingDroppedUnasked
  <1>11. CASE NothingTyped
    <2>1. page' \in Page /\ page'.typed = page.typed
          /\ page'.question = [goal |-> Goal, at |-> IF Goal = "close" THEN "decided" ELSE "save",
                               answer |-> page.question.answer, late |-> page.question.late]
      BY <1>1, <1>11, Asks DEF NothingTyped, Goal
    <2>2. QuestionOK'
      BY <1>1, <1>2, <1>4, <1>11, <2>1 DEF QuestionOK, Asking, Goal, NothingTyped, ByQuestion
    <2>3. NothingLeft'
      BY <1>1, <1>3, <1>11, <2>1 DEF NothingLeft, Unwanted, NothingTyped, ByQuestion, Asking, Goal, QuestionOK
    <2>4. QED
      BY <1>1, <1>2, <2>1, <2>2, <2>3 DEF DeskInv, NothingDroppedUnasked
  <1>12. QED
    BY <1>5, <1>6, <1>7, <1>8, <1>9, <1>10, <1>11 DEF Question

-----------------------------------------------------------------------------
\* Calls that work on the workspace in use.
Working ==
    \/ \E e \in GuiElement : UpdateByUser(e) \/ DeleteElement(e)
    \/ ApplyHistory \/ GuiScanEnds
    \/ \E b \in BOOLEAN : ChangeRest(b)

LEMMA WorkingSteps == ASSUME DeskInv, Working PROVE DeskInv'
  <1>1. /\ page \in Page /\ call \in DeskCall /\ DeskTyped /\ inUse \in GuiProject
    BY DEF DeskInv, DeskTyped
  <1>2. UNCHANGED <<vlf, known, inUse, dropped>>
    BY DEF Working, UpdateByUser, Update, DeleteElement, ApplyHistory, GuiScanEnds, ChangeRest, deskVars
  <1>3. call' \in DeskCall /\ CallStays
    <2>1. CASE GuiScanEnds
      <3>1. call.step # "activate" /\ \E step \in {"save", "fail"} : call' = [call EXCEPT !.step = step]
        BY <2>1 DEF GuiScanEnds
      <3>2. QED
        BY <1>1, <3>1 DEF CallStays, DeskCall, Steps
    <2>2. CASE ~GuiScanEnds
      <3>1. call.step # "activate"
        BY <2>2 DEF Working, UpdateByUser, DeleteElement, ApplyHistory, ChangeRest, ByUser, NoCall
      <3>2. \E kind \in {"update", "delete", "undo", "redo", "rest", call.kind}, step \in {"save", "fail", "return"} :
               Calls(kind, "user", step, inUse)
        <4>1. \/ Calls("update", "user", "save", inUse) \/ Calls("update", "user", "fail", inUse)
              \/ Calls("delete", "user", "save", inUse) \/ Calls("delete", "user", "fail", inUse)
              \/ Calls(call.kind, "user", "save", inUse) \/ Calls(call.kind, "user", "fail", inUse)
              \/ Calls("rest", "user", "save", inUse) \/ Calls("rest", "user", "return", inUse)
          BY <2>2 DEF Working, UpdateByUser, Update, DeleteElement, ApplyHistory, ChangeRest
        <4>2. QED
          BY <4>1
      <3>3. QED
        BY <1>1, <3>1, <3>2 DEF CallStays, Calls, DeskCall, Steps
    <2>3. QED
      BY <2>1, <2>2
  <1>4. \/ UNCHANGED <<workspace, page>>
        \/ /\ page' = MarksLate(page)
           /\ \E inv : workspace' = [workspace EXCEPT ![inUse] = inv]
    BY DEF Working, UpdateByUser, Update, DeleteElement, ApplyHistory, GuiScanEnds, ChangeRest, Changed
  <1>5. CASE UNCHANGED <<workspace, page>>
    <2>1. DeskTyped'
      BY <1>1, <1>2, <1>3, <1>5 DEF DeskTyped
    <2>2. QED
      BY <1>2, <1>3, <1>5, <2>1, AddsNothing DEF IsDirty
  <1>6. CASE /\ page' = MarksLate(page)
             /\ \E inv : workspace' = [workspace EXCEPT ![inUse] = inv]
    <2>1. workspace' = [p \in GuiProject |-> workspace'[p]]
      BY <1>1, <1>6, Whole
    <2>2. DeskTyped'
      BY <1>1, <1>2, <1>3, <1>6, <2>1, Marks DEF DeskTyped
    <2>3. QED
      BY <1>2, <1>3, <1>6, <2>2, ComesLate
  <1>7. QED
    BY <1>4, <1>5, <1>6

\* Calls, and a page that reloads, that change nothing which may be lost, or save it.
Quiet ==
    \/ Ask \/ StartGuiScan \/ CancelGuiScan \/ CallReturns \/ SaveByUser \/ ReloadPage
    \/ \E b \in BOOLEAN : CheckHistory(b)

LEMMA QuietSteps == ASSUME DeskInv, Quiet PROVE DeskInv'
  <1>1. /\ page \in Page /\ call \in DeskCall /\ DeskTyped /\ inUse \in GuiProject
    BY DEF DeskInv, DeskTyped
  <1>2. UNCHANGED <<workspace, known, inUse, dropped>>
    BY DEF Quiet, Ask, StartGuiScan, CancelGuiScan, CallReturns, SaveByUser, ReloadPage, CheckHistory, deskVars
  <1>3. call' \in DeskCall /\ CallStays
    BY <1>1 DEF Quiet, Ask, StartGuiScan, CancelGuiScan, CallReturns, SaveByUser, ReloadPage, CheckHistory,
       ByUser, NoCall, Calls, CallStays, Returns, DeskCall, Steps
  <1>4. page' \in Page /\ page'.question = page.question /\ (page'.typed => page.typed)
    <2>1. page' = page \/ page' = Fresh(page) \/ page' = [page EXCEPT !.stale = {}]
      BY DEF Quiet, Ask, StartGuiScan, CancelGuiScan, CallReturns, SaveByUser, ReloadPage, CheckHistory, Returns
    <2>2. [page EXCEPT !.stale = {}] \in Page
      BY <1>1 DEF Page
    <2>3. QED
      BY <1>1, <2>1, <2>2, Refreshes DEF Page
  <1>5. vlf' = [p \in GuiProject |-> vlf'[p]] /\ (IsDirty' => IsDirty)
    <2>1. vlf' = vlf \/ vlf' = [vlf EXCEPT ![inUse] = workspace[inUse]]
      BY DEF Quiet, Ask, StartGuiScan, CancelGuiScan, CallReturns, SaveByUser, ReloadPage, CheckHistory
    <2>2. QED
      BY <1>1, <1>2, <2>1, Whole DEF IsDirty, DeskTyped
  <1>6. DeskTyped'
    BY <1>1, <1>2, <1>3, <1>4, <1>5 DEF DeskTyped
  <1>7. QED
    BY <1>2, <1>3, <1>4, <1>5, <1>6, AddsNothing

\* A call has saved, or has failed, for the user or for the question.
LEMMA EndingSteps == ASSUME DeskInv, SaveChange \/ CallFails PROVE DeskInv'
  <1>1. /\ page \in Page /\ call \in DeskCall /\ DeskTyped /\ inUse \in GuiProject /\ QuestionOK
        /\ ~dropped
    BY DEF DeskInv, DeskTyped, NothingDroppedUnasked
  <1>2. /\ UNCHANGED <<workspace, known, inUse, dropped>> /\ call.step \in {"save", "fail"}
        /\ call' = NoCall /\ NoCall \in DeskCall
    BY DEF SaveChange, CallFails, Returns, Fail, deskVars, NoCall, DeskCall, Steps
  <1>3. vlf' = [p \in GuiProject |-> vlf'[p]] /\ (IsDirty' => IsDirty)
    <2>1. vlf' = vlf \/ vlf' = [vlf EXCEPT ![inUse] = workspace[inUse]]
      BY DEF SaveChange, CallFails
    <2>2. QED
      BY <1>1, <1>2, <2>1, Whole DEF IsDirty, DeskTyped
  <1>4. page' \in Page => DeskTyped'
    BY <1>1, <1>2, <1>3 DEF DeskTyped
  <1>5. CallStays /\ NoCall.by = "user" /\ NoCall.step # "activate"
    BY <1>2 DEF CallStays, NoCall
  <1>6. CASE call.by = "user"
    <2>1. page' = page \/ page' = Fresh(page)
      BY <1>6 DEF SaveChange, CallFails, Returns, Fail, AfterFailure
    <2>2. page' \in Page /\ page'.question = page.question /\ (page'.typed => page.typed)
      BY <1>1, <2>1, Refreshes
    <2>3. QED
      BY <1>2, <1>3, <1>4, <1>5, <2>2, AddsNothing
  <1>7. CASE call.by = "question"
    <2>1. Asking("commit") /\ page.question.answer = "save"
      BY <1>1, <1>2, <1>7 DEF QuestionOK
    <2>2. CASE page' = StopsAsking(page)
      <3>1. page' \in Page /\ page'.question = NoQuestion
        BY <1>1, <2>2, Halts
      <3>2. QED
        BY <1>2, <1>4, <1>5, <3>1, QuestionEnds
    <2>3. CASE page' = AsksOn(Fresh(page), IF Goal = "close" THEN "decided" ELSE "save")
      <3>1. page' \in Page /\ ~page'.typed
            /\ page'.question = [goal |-> Goal, at |-> IF Goal = "close" THEN "decided" ELSE "save",
                                 answer |-> page.question.answer, late |-> page.question.late]
        <4>1. PICK pg \in Page : pg = Fresh(page) /\ ~pg.typed /\ pg.question = page.question
          BY <1>1, Refreshes
        <4>2. PICK step \in {"decided", "save"} : step = IF Goal = "close" THEN "decided" ELSE "save"
          OBVIOUS
        <4>3. page' = AsksOn(pg, step)
          BY <2>3, <4>1, <4>2
        <4>4. /\ page' \in Page /\ page'.typed = pg.typed
              /\ page'.question = [goal |-> pg.question.goal, at |-> step,
                                   answer |-> pg.question.answer, late |-> pg.question.late]
          <5>1. pg \in Page /\ step \in {"none", "state", "asking", "commit", "save", "decided", "form", "leaving"}
            BY <4>1, <4>2
          <5>2. /\ AsksOn(pg, step) \in Page /\ AsksOn(pg, step).typed = pg.typed
                /\ AsksOn(pg, step).question = [goal |-> pg.question.goal, at |-> step,
                                                answer |-> pg.question.answer, late |-> pg.question.late]
            BY <5>1, Asks, Zenon
          <5>3. QED
            BY <4>3, <5>2, Zenon
        <4>5. \A q : q = [goal |-> pg.question.goal, at |-> step,
                         answer |-> pg.question.answer, late |-> pg.question.late]
                      => q = [goal |-> page.question.goal, at |-> step,
                              answer |-> page.question.answer, late |-> page.question.late]
          BY <4>1, Zenon
        <4>6. QED
          BY <4>1, <4>2, <4>4, <4>5, Zenon DEF Goal
      <3>2. QuestionOK'
        BY <1>1, <1>2, <1>5, <2>1, <3>1 DEF QuestionOK, Asking, Goal
      <3>3. NothingLeft'
        BY <2>1, <3>1 DEF NothingLeft, Unwanted, Goal
      <3>4. QED
        BY <1>1, <1>2, <1>4, <3>1, <3>2, <3>3 DEF DeskInv, NothingDroppedUnasked
    <2>4. QED
      BY <1>7, <2>1, <2>2, <2>3 DEF SaveChange, CallFails, Returns, Fail, AfterFailure, Asking
  <1>8. QED
    BY <1>1, <1>6, <1>7 DEF DeskCall

\* commitEditor: what was typed is applied before it is saved.
LEMMA CommitSteps == ASSUME DeskInv, NEW e \in GuiElement, UpdateByQuestion(e) PROVE DeskInv'
  <1>1. /\ page \in Page /\ call = NoCall /\ DeskTyped /\ inUse \in GuiProject /\ QuestionOK /\ ~dropped
        /\ Asking("commit")
    BY DEF DeskInv, DeskTyped, NothingDroppedUnasked, UpdateByQuestion, ByQuestion
  <1>2. UNCHANGED <<vlf, known, inUse, dropped, page>>
    BY DEF UpdateByQuestion, Update, deskVars, Changed
  <1>3. call' \in DeskCall /\ call'.by = "question" /\ call'.step \in {"save", "fail"}
    <2>1. \/ Calls("update", "question", "save", inUse)
          \/ Calls("update", "question", "fail", inUse)
      BY Zenon DEF UpdateByQuestion, Update
    <2>2. QED
      BY <1>1, <2>1 DEF Calls, DeskCall, Steps
  <1>4. workspace' = [p \in GuiProject |-> workspace'[p]]
    <2>1. UNCHANGED workspace \/ \E inv : workspace' = [workspace EXCEPT ![inUse] = inv]
      BY DEF UpdateByQuestion, Update, Changed
    <2>2. QED
      BY <1>1, <2>1, Whole DEF DeskTyped
  <1>5. DeskTyped'
    BY <1>1, <1>2, <1>3, <1>4 DEF DeskTyped
  <1>6. QuestionOK'
    BY <1>1, <1>2, <1>3 DEF QuestionOK, Asking, Goal
  <1>7. NothingLeft'
    BY <1>1, <1>2 DEF NothingLeft, Asking
  <1>8. QED
    BY <1>1, <1>2, <1>5, <1>6, <1>7 DEF DeskInv, NothingDroppedUnasked

-----------------------------------------------------------------------------
\* Leaving: what was to be saved is saved, or the question ends.
LEMMA SavingSteps == ASSUME DeskInv, SaveProject PROVE DeskInv'
  <1>1. /\ page \in Page /\ call = NoCall /\ DeskTyped /\ inUse \in GuiProject /\ QuestionOK /\ NothingLeft
        /\ ~dropped /\ Asking("save") /\ UNCHANGED <<workspace, known, inUse, call, dropped>>
    BY DEF DeskInv, DeskTyped, NothingDroppedUnasked, SaveProject, deskVars
  <1>2. NoCall.by = "user" /\ NoCall.step # "activate"
    BY DEF NoCall
  <1>3. CASE vlf' = [vlf EXCEPT ![inUse] = workspace[inUse]] /\ page' = AsksOn(page, "decided")
    <2>1. vlf' = [p \in GuiProject |-> vlf'[p]] /\ ~IsDirty'
      BY <1>1, <1>3, Whole DEF IsDirty
    <2>2. page' \in Page /\ page'.typed = page.typed
          /\ page'.question = [goal |-> Goal, at |-> "decided", answer |-> page.question.answer,
                               late |-> page.question.late]
      BY <1>1, <1>3, Asks DEF Goal
    <2>3. DeskTyped'
      BY <1>1, <2>1, <2>2 DEF DeskTyped
    <2>4. QuestionOK'
      BY <1>1, <1>2, <2>2 DEF QuestionOK, Asking, Goal
    <2>5. NothingLeft'
      BY <1>1, <2>1, <2>2 DEF NothingLeft, Unwanted, Asking
    <2>6. QED
      BY <1>1, <2>3, <2>4, <2>5 DEF DeskInv, NothingDroppedUnasked
  <1>4. CASE UNCHANGED vlf /\ page' = StopsAsking(page)
    <2>1. page' \in Page /\ page'.question = NoQuestion
      BY <1>1, <1>4, Halts
    <2>2. DeskTyped'
      BY <1>1, <1>4, <2>1 DEF DeskTyped
    <2>3. QED
      BY <1>1, <1>2, <2>1, <2>2, QuestionEnds
  <1>5. QED
    BY <1>3, <1>4 DEF SaveProject

\* ... and the workspace is given up.
LEMMA LeavingSteps == ASSUME DeskInv, LeaveProject PROVE DeskInv'
  <1>1. /\ page \in Page /\ call = NoCall /\ DeskTyped /\ inUse \in GuiProject /\ QuestionOK /\ NothingLeft
        /\ ~dropped /\ UNCHANGED <<vlf, known, inUse>>
        /\ (Asking("decided") /\ Goal = "use") \/ Asking("form")
    BY DEF DeskInv, DeskTyped, NothingDroppedUnasked, LeaveProject, deskVars
  <1>2. PICK p \in GuiProject : Calls("leave", "question", "activate", p)
    BY <1>1 DEF LeaveProject, DeskTyped
  <1>3. call' \in DeskCall /\ call'.step = "activate" /\ call'.by = "question" /\ call'.of \in GuiProject
    BY <1>2 DEF Calls, DeskCall, Steps
  <1>4. page' \in Page /\ page'.typed = page.typed
        /\ page'.question = [goal |-> Goal, at |-> "leaving", answer |-> page.question.answer,
                             late |-> page.question.late]
    BY <1>1, Asks DEF LeaveProject, Goal
  <1>5. workspace' = [y \in GuiProject |-> workspace'[y]] /\ ~IsDirty'
    BY <1>1, Whole DEF LeaveProject, Discards, IsDirty
  <1>6. DeskTyped'
    BY <1>1, <1>3, <1>4, <1>5 DEF DeskTyped
  <1>7. QuestionOK'
    BY <1>1, <1>3, <1>4 DEF QuestionOK, Asking, Goal
  <1>8. NothingLeft'
    BY <1>1, <1>4, <1>5 DEF NothingLeft, Unwanted, Asking
  <1>9. ~(IsDirty /\ Unwanted)
    BY <1>1 DEF NothingLeft, QuestionOK, Asking
  <1>10. ~dropped'
    BY <1>1, <1>9 DEF LeaveProject, Discards
  <1>11. QED
    BY <1>6, <1>7, <1>8, <1>10 DEF DeskInv, NothingDroppedUnasked

LEMMA LeaveFailsSteps == ASSUME DeskInv, LeaveFails PROVE DeskInv'
  <1>1. /\ page \in Page /\ call = NoCall /\ DeskTyped /\ QuestionOK
        /\ UNCHANGED <<workspace, vlf, known, inUse, call, dropped>>
    BY DEF DeskInv, DeskTyped, LeaveFails, deskVars
  <1>2. NoCall.by = "user" /\ NoCall.step # "activate"
    BY DEF NoCall
  <1>3. CASE page' = page
    <2>1. DeskTyped'
      BY <1>1, <1>3 DEF DeskTyped
    <2>2. QED
      BY <1>1, <1>3, <2>1, AddsNothing DEF IsDirty, CallStays
  <1>4. CASE page' = StopsAsking(page)
    <2>1. page' \in Page /\ page'.question = NoQuestion
      BY <1>1, <1>4, Halts
    <2>2. DeskTyped'
      BY <1>1, <2>1 DEF DeskTyped
    <2>3. QED
      BY <1>1, <1>2, <2>1, <2>2, QuestionEnds
  <1>5. QED
    BY <1>3, <1>4 DEF LeaveFails

\* The other project is in use, or the form comes back.
LEMMA ActivatingSteps == ASSUME DeskInv, ActivateProject PROVE DeskInv'
  <1>1. /\ page \in Page /\ call \in DeskCall /\ DeskTyped /\ inUse \in GuiProject /\ QuestionOK /\ NothingLeft
        /\ ~dropped /\ UNCHANGED <<workspace, vlf>> /\ call.step = "activate"
    BY DEF DeskInv, DeskTyped, NothingDroppedUnasked, ActivateProject
  <1>2. NoCall.by = "user" /\ NoCall.step # "activate" /\ NoCall \in DeskCall
    BY DEF NoCall, DeskCall, Steps
  <1>3. Asking("leaving") /\ call.of \in GuiProject /\ call.by = "question"
    BY <1>1 DEF QuestionOK
  <1>4. CASE /\ inUse' = call.of /\ known' = known \cup {call.of}
             /\ Returns([StopsAsking(page) EXCEPT !.typed = FALSE, !.stale = {}])
             /\ dropped' = (dropped \/ (page.typed /\ Unwanted))
    <2>1. PICK pg \in Page : pg.question = NoQuestion /\ page' = [pg EXCEPT !.typed = FALSE, !.stale = {}]
      BY <1>1, <1>4, Halts DEF Returns
    <2>2. page' \in Page /\ page'.question = NoQuestion
      BY <2>1 DEF Page
    <2>3. DeskTyped'
      BY <1>1, <1>2, <1>3, <1>4, <2>2 DEF DeskTyped, Returns
    <2>4. ~(page.typed /\ Unwanted)
      BY <1>1, <1>3 DEF NothingLeft, Asking
    <2>5. dropped' => dropped
      BY <1>1, <1>4, <2>4
    <2>6. QED
      BY <1>2, <1>4, <2>2, <2>3, <2>5, QuestionEnds DEF Returns
  <1>5. CASE /\ UNCHANGED <<inUse, dropped>> /\ known' \in {known, known \cup {call.of}} /\ Fail(page)
    <2>1. call' = NoCall
      BY <1>5 DEF Fail, Returns
    <2>2. page' \in Page => DeskTyped'
      BY <1>1, <1>2, <1>3, <1>5, <2>1 DEF DeskTyped
    <2>3. CASE page' = StopsAsking(page)
      <3>1. page' \in Page /\ page'.question = NoQuestion
        BY <1>1, <2>3, Halts
      <3>2. QED
        BY <1>2, <1>5, <2>1, <2>2, <3>1, QuestionEnds
    <2>4. CASE page' = AsksOn(page, "form") /\ Goal = "create"
      <3>1. page' \in Page /\ page'.typed = page.typed
            /\ page'.question = [goal |-> Goal, at |-> "form", answer |-> page.question.answer,
                                 late |-> page.question.late]
        BY <1>1, <2>4, Asks DEF Goal
      <3>2. QuestionOK'
        BY <1>1, <1>2, <2>1, <2>4, <3>1 DEF QuestionOK, Asking, Goal
      <3>3. UNCHANGED IsDirty
        BY <1>1, <1>5 DEF IsDirty
      <3>4. NothingLeft'
        BY <1>1, <1>3, <2>4, <3>1, <3>3 DEF NothingLeft, Unwanted, Asking, Goal
      <3>5. QED
        BY <1>1, <1>5, <2>2, <3>1, <3>2, <3>4 DEF DeskInv, NothingDroppedUnasked
    <2>5. QED
      BY <1>3, <1>5, <2>3, <2>4 DEF Fail, Returns, AfterFailure
  <1>6. QED
    BY <1>4, <1>5 DEF ActivateProject

\* request_close
LEMMA ClosingSteps == ASSUME DeskInv, RequestClose PROVE DeskInv'
  <1>1. /\ page \in Page /\ call = NoCall /\ DeskTyped /\ inUse \in GuiProject /\ QuestionOK /\ NothingLeft
        /\ ~dropped /\ Asking("decided") /\ UNCHANGED <<known, inUse, call>>
    BY DEF DeskInv, DeskTyped, NothingDroppedUnasked, RequestClose, deskVars, Closes
  <1>2. NoCall.by = "user" /\ NoCall.step # "activate" /\ NoCall \in DeskCall
    BY DEF NoCall, DeskCall, Steps
  <1>3. CASE Closes /\ ~(page.typed /\ Unwanted) /\ (page.question.answer = "save" \/ ~(IsDirty /\ Unwanted))
    <2>1. page' \in Page /\ page'.question = NoQuestion
      BY <1>3 DEF Closes, Page, Questions, NoQuestion
    <2>2. /\ workspace' = [p \in GuiProject |-> workspace'[p]] /\ vlf' = [p \in GuiProject |-> vlf'[p]]
      <3>1. \/ UNCHANGED workspace /\ vlf' = [vlf EXCEPT ![inUse] = workspace[inUse]]
            \/ UNCHANGED vlf /\ workspace' = [workspace EXCEPT ![inUse] = vlf[inUse]]
            \/ UNCHANGED <<workspace, vlf>>
        BY DEF RequestClose
      <3>2. QED
        BY <1>1, <3>1, Whole DEF DeskTyped
    <2>3. DeskTyped'
      BY <1>1, <2>1, <2>2 DEF DeskTyped
    <2>4. dropped' => dropped
      BY <1>1, <1>3 DEF RequestClose
    <2>5. QED
      BY <1>1, <1>2, <2>1, <2>3, <2>4, QuestionEnds
  <1>4. CASE UNCHANGED <<workspace, vlf, dropped>> /\ page' = StopsAsking(page)
    <2>1. page' \in Page /\ page'.question = NoQuestion
      BY <1>1, <1>4, Halts
    <2>2. DeskTyped'
      BY <1>1, <1>4, <2>1 DEF DeskTyped
    <2>3. QED
      BY <1>1, <1>2, <1>4, <2>1, <2>2, QuestionEnds
  <1>5. ~(page.typed /\ Unwanted) /\ (page.question.answer = "save" \/ ~(IsDirty /\ Unwanted))
    BY <1>1 DEF NothingLeft, Asking
  <1>6. QED
    BY <1>3, <1>4, <1>5 DEF RequestClose

-----------------------------------------------------------------------------
\* Typing, and other sessions.
LEMMA OutsideSteps == ASSUME DeskInv, Type \/ OtherSessionWrites PROVE DeskInv'
  <1>1. page \in Page /\ call \in DeskCall /\ DeskTyped /\ inUse \in GuiProject
    BY DEF DeskInv, DeskTyped
  <1>2. UNCHANGED <<vlf, known, inUse, call, dropped>>
    BY DEF Type, OtherSessionWrites, deskVars
  <1>3. page' \in Page /\ page'.question = MarksLate(page).question
    <2>1. \A pg \in Page : \A e \in GuiElement :
             /\ [pg EXCEPT !.typed = TRUE] \in Page /\ [pg EXCEPT !.typed = TRUE].question = pg.question
             /\ [pg EXCEPT !.stale = @ \cup {e}] \in Page
             /\ [pg EXCEPT !.stale = @ \cup {e}].question = pg.question
      BY DEF Page
    <2>2. \A pg \in Page : [pg EXCEPT !.typed = TRUE] \in Page /\ [pg EXCEPT !.typed = TRUE].question = pg.question
      BY DEF Page
    <2>3. MarksLate(page) \in Page
      BY <1>1, Marks
    <2>4. \/ page' = [MarksLate(page) EXCEPT !.typed = TRUE]
          \/ \E e \in GuiElement : page' = [MarksLate(page) EXCEPT !.stale = @ \cup {e}]
      BY DEF Type, OtherSessionWrites
    <2>5. QED
      BY <2>1, <2>2, <2>3, <2>4
  <1>4. workspace' = [p \in GuiProject |-> workspace'[p]]
    <2>1. UNCHANGED workspace \/ \E inv : workspace' = [workspace EXCEPT ![inUse] = inv]
      BY DEF Type, OtherSessionWrites
    <2>2. QED
      BY <1>1, <2>1, Whole DEF DeskTyped
  <1>5. DeskTyped'
    BY <1>1, <1>2, <1>3, <1>4 DEF DeskTyped
  <1>6. QED
    BY <1>2, <1>3, <1>5, ComesLate DEF CallStays

LEMMA DeskSteps == ASSUME DeskInv, [DesktopNext]_desktopVars PROVE DeskInv'
  <1>1. CASE Question
    BY <1>1, QuestionSteps
  <1>2. CASE Call
    <2>1. CASE SaveChange \/ CallFails
      BY <2>1, EndingSteps
    <2>2. CASE ApplyHistory \/ GuiScanEnds
      BY <2>2, WorkingSteps DEF Working
    <2>3. CASE Ask \/ StartGuiScan \/ CancelGuiScan \/ CallReturns \/ SaveByUser
      BY <2>3, QuietSteps DEF Quiet
    <2>4. CASE SaveProject \/ LeaveProject \/ LeaveFails \/ ActivateProject \/ RequestClose
      BY <2>4, SavingSteps, LeavingSteps, LeaveFailsSteps, ActivatingSteps, ClosingSteps
    <2>5. ASSUME NEW e \in GuiElement, UpdateByUser(e) \/ UpdateByQuestion(e) \/ DeleteElement(e) PROVE DeskInv'
      BY <2>5, WorkingSteps, CommitSteps DEF Working
    <2>6. ASSUME NEW b \in BOOLEAN, CheckHistory(b) \/ ChangeRest(b) PROVE DeskInv'
      BY <2>6, WorkingSteps, QuietSteps DEF Working, Quiet
    <2>7. QED
      BY <1>2, <2>1, <2>2, <2>3, <2>4, <2>5, <2>6 DEF Call
  <1>3. CASE Type \/ OtherSessionWrites
    BY <1>3, OutsideSteps
  <1>4. CASE ReloadPage
    BY <1>4, QuietSteps DEF Quiet
  <1>5. CASE UNCHANGED desktopVars
    <2>1. DeskTyped'
      BY <1>5 DEF DeskInv, DeskTyped, desktopVars
    <2>2. QED
      BY <1>5, <2>1, AddsNothing DEF desktopVars, IsDirty, CallStays
  <1>6. QED
    BY <1>1, <1>2, <1>3, <1>4, <1>5 DEF DesktopNext

LEMMA DeskStarts == DesktopInit => DeskInv
  <1> SUFFICES ASSUME DesktopInit PROVE DeskInv
    OBVIOUS
  <1>1. call \in DeskCall /\ call.step = "none" /\ call.by = "user"
    BY DEF DesktopInit, NoCall, DeskCall, Steps
  <1>2. page \in Page /\ page.question = NoQuestion
    BY DEF DesktopInit, NoQuestion, Page, Questions
  <1>3. workspace = [p \in GuiProject |-> workspace[p]] /\ vlf = [p \in GuiProject |-> vlf[p]]
    BY DEF DesktopInit
  <1>4. inUse \in known /\ known \subseteq GuiProject /\ ~dropped
    BY DesktopAssumption DEF DesktopInit
  <1>5. QuestionOK /\ NothingLeft
    BY <1>1, <1>2 DEF QuestionOK, NothingLeft, Asking, Goal, NoQuestion
  <1>6. QED
    BY <1>1, <1>2, <1>3, <1>4, <1>5 DEF DeskInv, DeskTyped, NothingDroppedUnasked

\* The page and the calls agree on what is asked, and past the answer there is nothing to lose.
THEOREM DesktopInvariant == DesktopSpec => []DeskInv
  BY DeskStarts, DeskSteps, PTL DEF DesktopSpec

\* For any projects, elements, edits and sessions, leaving a project or closing drops changes only
\* when the user has chosen so, or when they were made while the question was open (desktop.js,
\* protectProject, desktopClose; gui/main.py, _discard_current, request_close).
THEOREM ChangesAreNotDroppedUnasked == DesktopSpec => []NothingDroppedUnasked
  <1>1. DeskInv => NothingDroppedUnasked
    BY DEF DeskInv
  <1>2. QED
    BY <1>1, DesktopInvariant, PTL

-----------------------------------------------------------------------------
(* LANWIRE: least elements, and what is at some places of a sequence *)

\* Of a set of natural numbers, the first.
LEMMA LeastOf ==
  ASSUME NEW T \in SUBSET Nat, T # {}
  PROVE  Min(T) \in T /\ \A y \in T : Min(T) <= y
  <1> DEFINE R == OpToRel(<, Nat)
  <1>1. IsWellFoundedOn(R, Nat)
    BY NatLessThanWellFounded
  <1>2. \A x, y \in Nat : x < y => <<x, y>> \in R
    BY DEF OpToRel
  <1> HIDE DEF R
  <1>3. PICK x \in T : \A y \in T : <<y, x>> \notin R
    BY <1>1, WFMin, Zenon
  <1>4. ASSUME NEW y \in T PROVE x <= y
    <2>1. x \in Nat /\ y \in Nat /\ ~(y < x)
      BY <1>2, <1>3, Zenon
    <2>2. QED
      BY <2>1
  <1>5. QED
    BY <1>3, <1>4 DEF Min

LEMMA OfTwo ==
  ASSUME NEW a \in Int, NEW b \in Int
  PROVE  /\ Min({a, b}) = IF a <= b THEN a ELSE b
         /\ Max({a, b}) = IF a <= b THEN b ELSE a
  BY DEF Min, Max

LEMMA NotNegative == ASSUME NEW m \in Int PROVE Max({0, m}) \in Nat
  <1>1. 0 \in Int
    OBVIOUS
  <1>2. Max({0, m}) = IF 0 <= m THEN m ELSE 0
    BY <1>1, OfTwo, Zenon
  <1>3. QED
    BY <1>2

LEMMA FewPlaces ==
  ASSUME NEW n \in Nat, NEW S \in SUBSET (1..n)
  PROVE  IsFiniteSet(S) /\ Cardinality(S) \in Nat /\ (Cardinality(S) = 0 <=> S = {})
  <1>1. IsFiniteSet(1..n)
    BY FS_Interval
  <1>2. IsFiniteSet(S)
    BY <1>1, FS_Subset
  <1>3. QED
    BY <1>2, FS_CardinalityType, FS_EmptySet

\* The k-th of some places is one of them, after k - 1 others.
LEMMA NthThere ==
  ASSUME NEW n \in Nat, NEW places \in SUBSET (1..n), NEW k \in 1..Cardinality(places)
  PROVE  Nth(places, k) \in places /\ Cardinality({j \in places : j < Nth(places, k)}) = k - 1
  <1> DEFINE Upto(i) == {j \in places : j <= i}
             Below(i) == {j \in places : j < i}
             Far == {i \in places : Cardinality(Upto(i)) >= k}
  <1>2. \A S \in SUBSET places : IsFiniteSet(S) /\ Cardinality(S) \in Nat /\ (Cardinality(S) = 0 <=> S = {})
    <2>1. \A S \in SUBSET places : S \in SUBSET (1..n)
      OBVIOUS
    <2>2. QED
      BY <2>1, FewPlaces
  <1>3. \A i \in places : i \in Nat
    OBVIOUS
  <1>4. Far # {}
    <2>1. places # {} /\ places \in SUBSET (0..n)
      BY <1>2
    <2>2. PICK i \in places : \A j \in places : j <= i
      BY <2>1, LargestOf
    <2>3. Upto(i) = places
      BY <2>2
    <2>4. Cardinality(places) >= k
      BY <1>2
    <2>5. QED
      BY <2>2, <2>3, <2>4
  <1>5. PICK i \in Far : \A j \in Far : i <= j
    BY <1>3, <1>4, LeastOf
  <1>6. i \in places /\ i \in Nat /\ Cardinality(Upto(i)) >= k /\ Upto(i) = Below(i) \cup {i} /\ i \notin Below(i)
    <2>1. i \in places /\ i \in Nat /\ Cardinality(Upto(i)) >= k
      BY <1>3
    <2>2. \A j \in places : (j <= i <=> j < i \/ j = i) /\ ~(i < i)
      BY <1>3, <2>1
    <2>3. QED
      BY <2>1, <2>2
  <1>7. Cardinality(Upto(i)) = Cardinality(Below(i)) + 1
    <2>1. IsFiniteSet(Below(i))
      BY <1>2
    <2>2. QED
      BY <1>6, <2>1, FS_AddElement
  <1>8. Cardinality(Below(i)) < k
    <2>1. SUFFICES ASSUME ~(Cardinality(Below(i)) < k) PROVE FALSE
      OBVIOUS
    <2>2. Below(i) \in SUBSET places /\ Cardinality(Below(i)) \in Nat /\ Cardinality(Below(i)) >= k
      BY <1>2, <2>1
    <2>3. Below(i) # {} /\ Below(i) \in SUBSET (0..n)
      <3>1. Cardinality(Below(i)) # 0
        BY <2>2
      <3> HIDE DEF Below
      <3>2. Below(i) # {}
        BY <1>2, <2>2, <3>1, Zenon
      <3> USE DEF Below
      <3>3. \A j \in places : j \in 0..n
        OBVIOUS
      <3>4. QED
        BY <3>2, <3>3, Zenon
    <2>4. PICK m \in Below(i) : \A j \in Below(i) : j <= m
      BY <2>3, LargestOf
    <2>5. m \in places /\ m \in Nat /\ m < i
      BY <1>3, <2>4
    <2>6. \A j \in places : j <= m <=> j < i
      BY <1>3, <1>6, <2>4, <2>5
    <2>7. Upto(m) = Below(i)
      BY <2>6
    <2>8. m \in Far
      BY <2>2, <2>5, <2>7
    <2>9. QED
      BY <1>5, <1>6, <2>5, <2>8
  <1>9. Cardinality(Below(i)) = k - 1
    BY <1>2, <1>6, <1>7, <1>8
  <1>10. QED
    BY <1>6, <1>9 DEF Nth

LEMMA PlacesTaken ==
  ASSUME NEW S, NEW s \in Seq(S), NEW places \in SUBSET (DOMAIN s)
  PROVE  /\ AtPlaces(s, places) \in Seq(S) /\ Len(AtPlaces(s, places)) \in Nat
         /\ \A k \in 1..Len(AtPlaces(s, places)) : \E i \in places : AtPlaces(s, places)[k] = s[i]
  <1>1. Len(s) \in Nat /\ places \in SUBSET (1..Len(s))
    OBVIOUS
  <1>2. Cardinality(places) \in Nat
    BY <1>1, FewPlaces
  <1>3. \A k \in 1..Cardinality(places) : Nth(places, k) \in places
    BY <1>1, NthThere
  <1>4. \A i \in places : s[i] \in S
    OBVIOUS
  <1>5. AtPlaces(s, places) \in [1..Cardinality(places) -> S]
    BY <1>3, <1>4 DEF AtPlaces
  <1>6. AtPlaces(s, places) \in Seq(S) /\ Len(AtPlaces(s, places)) = Cardinality(places)
    BY <1>2, <1>5
  <1>7. QED
    BY <1>2, <1>3, <1>6 DEF AtPlaces

-----------------------------------------------------------------------------
(* LANWIRE: the invariant *)

WireFile == [ports : Seq(PortName) \cup {NoRecord}, ends : [TuiCable -> Seq(PortName) \cup {NoRecord}]]

LEMMA CableThere ==
  ASSUME NEW f, NEW p
  PROVE  /\ CableAt(f, p) \in TuiCable \cup {NoElementOpen}
         /\ CableAt(f, p) # NoElementOpen => CableAt(f, p) \in TuiCable /\ Exists(f, CableAt(f, p))
  <1> DEFINE I == {i \in DOMAIN CableOrder : Exists(f, CableOrder[i]) /\ p \in ToSet(f.ends[CableOrder[i]])}
  <1>1. CableAt(f, p) = IF I = {} THEN NoElementOpen ELSE CableOrder[Max(I)]
    BY DEF CableAt
  <1>2. CASE I # {}
    <2>1. Len(CableOrder) \in Nat /\ DOMAIN CableOrder = 1..Len(CableOrder)
      BY WireTuiAssumption
    <2>2. I \in SUBSET (0..Len(CableOrder))
      BY <2>1
    <2> HIDE DEF I
    <2>3. \A N \in Nat : \A S \in SUBSET (0..N) : S # {} => \E i \in S : \A j \in S : j <= i
      BY LargestOf
    <2>4. PICK i \in I : \A j \in I : j <= i
      BY <1>2, <2>1, <2>2, <2>3
    <2> USE DEF I
    <2>7. Max(I) \in I
      <3>1. \A j \in I : j \in Int
        BY <2>1
      <3>2. QED
        BY <2>4, <3>1 DEF Max
    <2>5. CableOrder[Max(I)] \in TuiCable /\ Exists(f, CableOrder[Max(I)])
      BY <2>1, <2>7, WireTuiAssumption
    <2>6. QED
      BY <1>1, <1>2, <2>5
  <1>3. QED
    BY <1>1, <1>2

LEMMA ListedThere ==
  ASSUME NEW rs, NEW only
  PROVE  /\ Listed(rs, only) \in Seq(Identifier) /\ Len(Listed(rs, only)) \in Nat
         /\ \A k \in 1..Len(Listed(rs, only)) : Exists(rs, Listed(rs, only)[k])
  <1> DEFINE I == {i \in DOMAIN Elements : Exists(rs, Elements[i]) /\ Elements[i] \in only}
  <1>1. Elements \in Seq(Identifier)
    <2>1. CableOrder \in Seq(Identifier)
      BY WireTuiAssumption DEF Identifier
    <2>2. WireTuiDevice \in Identifier
      BY DEF Identifier
    <2>3. QED
      BY <2>1, <2>2 DEF Elements
  <1>2. Listed(rs, only) = AtPlaces(Elements, I) /\ I \in SUBSET (DOMAIN Elements)
    BY DEF Listed
  <1>3. QED
    BY <1>1, <1>2, PlacesTaken

LEMMA RowThere ==
  ASSUME NEW row \in Nat
  PROVE  /\ IdAt(row) # NoElementOpen => IdAt(row) \in Identifier /\ Exists(records, IdAt(row))
         /\ \A new, only : Follows(new, only, row).row \in Nat /\ Follows(new, only, row).only = only
                           /\ Follows(new, only, row) = [only |-> only, row |-> Follows(new, only, row).row]
  <1>1. IdAt(row) # NoElementOpen => IdAt(row) \in Identifier /\ Exists(records, IdAt(row))
    <2>1. SUFFICES ASSUME IdAt(row) # NoElementOpen PROVE IdAt(row) \in Identifier /\ Exists(records, IdAt(row))
      OBVIOUS
    <2>2. row < Len(Listed(records, list.only)) /\ IdAt(row) = Listed(records, list.only)[row + 1]
      BY <2>1 DEF IdAt
    <2>3. row + 1 \in 1..Len(Listed(records, list.only))
      BY <2>2, ListedThere
    <2>4. QED
      BY <2>2, <2>3, ListedThere
  <1>2. ASSUME NEW new, NEW only
        PROVE  /\ Follows(new, only, row).row \in Nat /\ Follows(new, only, row).only = only
               /\ Follows(new, only, row) = [only |-> only, row |-> Follows(new, only, row).row]
    <2> DEFINE after == Listed(new, only)
               found == {i \in DOMAIN after : after[i] = IdAt(row)}
               at == IF found # {} THEN Min(found) - 1 ELSE Min({row, Max({0, Len(after) - 1})})
    <2>1. Follows(new, only, row) = [only |-> only, row |-> at]
      BY DEF Follows
    <2>2. Len(after) \in Nat /\ DOMAIN after = 1..Len(after)
      BY ListedThere
    <2>3. CASE found # {}
      <3>1. found \in SUBSET Nat /\ \A i \in found : i >= 1
        BY <2>2
      <3>2. Min(found) \in found
        BY <2>3, <3>1, LeastOf
      <3>3. QED
        BY <2>1, <2>3, <3>1, <3>2
    <2>4. CASE found = {}
      <3>1. \A m \in Int : Max({0, m}) \in Nat
        BY NotNegative
      <3>2. \A m \in Nat : Min({row, m}) \in Nat
        BY OfTwo
      <3>3. Len(after) - 1 \in Int
        BY <2>2
      <3>4. Min({row, Max({0, Len(after) - 1})}) \in Nat
        BY <3>1, <3>2, <3>3, Zenon
      <3>5. QED
        BY <2>1, <2>4, <3>4
    <2>5. QED
      BY <2>3, <2>4
  <1>3. QED
    BY <1>1, <1>2

\* What an operation makes of the file.
LEMMA FileIs ==
  ASSUME NEW f \in WireFile
  PROVE  /\ \A ps \in Seq(PortName) \cup {NoRecord} :
               /\ WithPorts(f, ps) \in WireFile /\ WithPorts(f, ps).ports = ps
               /\ \A w \in TuiCable : Exists(WithPorts(f, ps), w) <=> Exists(f, w)
               /\ Exists(WithPorts(f, ps), WireTuiDevice) <=> ps # NoRecord
         /\ \A w \in TuiCable : \A es \in Seq(PortName) \cup {NoRecord} :
               /\ WithEnds(f, w, es) \in WireFile
               /\ \A id \in Identifier \ {w} : Exists(WithEnds(f, w, es), id) <=> Exists(f, id)
               /\ Exists(WithEnds(f, w, es), w) <=> es # NoRecord
         /\ f.ports \in Seq(PortName) \cup {NoRecord}
         /\ \A w \in TuiCable : f.ends[w] \in Seq(PortName) \cup {NoRecord}
  <1>0. WireTuiDevice \notin TuiCable
    BY WireTuiAssumption DEF TuiCable
  <1>1. f = [ports |-> f.ports, ends |-> f.ends] /\ f.ports \in Seq(PortName) \cup {NoRecord}
        /\ f.ends \in [TuiCable -> Seq(PortName) \cup {NoRecord}]
    BY DEF WireFile
  <1>2. ASSUME NEW ps \in Seq(PortName) \cup {NoRecord}
        PROVE  /\ WithPorts(f, ps) \in WireFile /\ WithPorts(f, ps).ports = ps
               /\ \A w \in TuiCable : Exists(WithPorts(f, ps), w) <=> Exists(f, w)
               /\ Exists(WithPorts(f, ps), WireTuiDevice) <=> ps # NoRecord
    <2>1. WithPorts(f, ps) = [ports |-> ps, ends |-> f.ends]
      BY <1>1 DEF WithPorts
    <2>2. QED
      BY <1>0, <1>1, <2>1 DEF WireFile, Exists
  <1>3. ASSUME NEW w \in TuiCable, NEW es \in Seq(PortName) \cup {NoRecord}
        PROVE  /\ WithEnds(f, w, es) \in WireFile
               /\ \A id \in Identifier \ {w} : Exists(WithEnds(f, w, es), id) <=> Exists(f, id)
               /\ Exists(WithEnds(f, w, es), w) <=> es # NoRecord
    <2>1. WithEnds(f, w, es) = [ports |-> f.ports, ends |-> [f.ends EXCEPT ![w] = es]]
      BY <1>1 DEF WithEnds
    <2>2. [f.ends EXCEPT ![w] = es] \in [TuiCable -> Seq(PortName) \cup {NoRecord}]
      BY <1>1
    <2>3. \A v \in TuiCable : [f.ends EXCEPT ![w] = es][v] = IF v = w THEN es ELSE f.ends[v]
      BY <1>1
    <2>4. QED
      BY <1>0, <1>1, <2>1, <2>2, <2>3 DEF WireFile, Exists, Identifier
  <1>4. QED
    BY <1>1, <1>2, <1>3

LEMMA NewNames ==
  ASSUME NEW s \in Seq(PortName), NEW p, NEW q \in PortName
  PROVE  /\ NewName(s, p, q) \in Seq(PortName) /\ Len(NewName(s, p, q)) = Len(s)
         /\ \A i \in 1..Len(s) : s[i] = p => NewName(s, p, q)[i] = q
  <1>1. Len(s) \in Nat /\ \A i \in 1..Len(s) : s[i] \in PortName
    OBVIOUS
  <1>2. NewName(s, p, q) \in [1..Len(s) -> PortName]
    BY <1>1 DEF NewName
  <1>3. QED
    BY <1>1, <1>2 DEF NewName

LEMMA RenamedIs ==
  ASSUME NEW f \in WireFile, NEW p, NEW q \in PortName, Exists(f, WireTuiDevice)
  PROVE  /\ RenamedPort(f, p, q) \in WireFile
         /\ \A id \in Identifier : Exists(RenamedPort(f, p, q), id) <=> Exists(f, id)
         /\ RenamedPort(f, p, q).ports = NewName(f.ports, p, q)
  <1>1. f.ports \in Seq(PortName) /\ f.ends \in [TuiCable -> Seq(PortName) \cup {NoRecord}]
    BY DEF WireFile, Exists
  <1>2. ASSUME NEW w \in TuiCable, Exists(f, w) PROVE f.ends[w] \in Seq(PortName)
    <2>1. w # WireTuiDevice
      BY WireTuiAssumption DEF TuiCable
    <2>2. QED
      BY <1>1, <1>2, <2>1 DEF Exists
  <1>3. NewName(f.ports, p, q) \in Seq(PortName)
    BY <1>1, NewNames
  <1>4. \A w \in TuiCable : Exists(f, w) => NewName(f.ends[w], p, q) \in Seq(PortName)
    BY <1>2, NewNames
  <1> DEFINE E == [w \in TuiCable |-> IF Exists(f, w) THEN NewName(f.ends[w], p, q) ELSE NoRecord]
  <1>5. E \in [TuiCable -> Seq(PortName) \cup {NoRecord}]
    BY <1>4
  <1>6. \A w \in TuiCable : E[w] # NoRecord <=> Exists(f, w)
    BY <1>4, WireTuiAssumption
  <1>7. RenamedPort(f, p, q) = [ports |-> NewName(f.ports, p, q), ends |-> E]
    BY DEF RenamedPort
  <1> HIDE DEF E
  <1>8. RenamedPort(f, p, q) \in WireFile
    BY <1>3, <1>5, <1>7 DEF WireFile
  <1>9. \A id \in Identifier : Exists(RenamedPort(f, p, q), id) <=> Exists(f, id)
    BY <1>3, <1>6, <1>7, WireTuiAssumption DEF Exists, Identifier
  <1>10. QED
    BY <1>7, <1>8, <1>9

\* The place of an option, or none.
Option == Nat \cup {NoOption}

WireWindow == [id : Identifier \cup {NoElementOpen}, focus : {"view", "menu", "editor", "actions"},
               port : Int, side : Int, menu : Int, scope : {"general", "port"}, field : Nat,
               buffer : BOOLEAN, option : Option, action : Nat,
               target : {NoText, ""} \cup PortName \cup TuiCable, browse : BOOLEAN]
Visit == [id : Identifier, port : Int, side : Int]

WireTypes ==
    /\ idf \in WireFile /\ records \in WireFile
    /\ list \in [only : SUBSET Identifier, row : Nat]
    /\ open \in WireWindow /\ stack \in Seq(Visit)
    /\ lanip \in Nat /\ lanip <= LanipDevices

\* Only the editor edits; neither the list nor a window over everything leaves anything edited.
BufferOK ==
    /\ open.buffer \/ open.option # NoOption => open.focus = "editor" /\ IsOpen /\ utility.window = "none"
    /\ ~IsOpen => stack = << >>

\* The elements in memory are those of the file, and the windows are of them; the data of a port
\* are edited while there is one.
ElementsOK ==
    ~altered =>
        /\ \A id \in Identifier : Exists(idf, id) <=> Exists(records, id)
        /\ IsOpen => Shown
        /\ \A i \in 1..Len(stack) : Exists(records, stack[i].id)
        /\ open.focus = "editor" /\ open.scope = "port" /\ IsDeviceDetail => HasPort
        /\ running # "error"

\* Only a field of devices of LANIP has more than one option; a selected one is there, or it was
\* deleted by another session since.
OptionFits(i) ==
    /\ 0 < i => ~NoField /\ Field = "lanip"
    /\ ~fewer /\ 0 < lanip => i < lanip

OptionOK == OptionFits(open.option) /\ (running = "index" => fewer)

WireInv == WireTypes /\ BufferOK /\ OptionOK /\ ElementsOK

LEMMA WireInvHolds == WireInv => NoKeyFails
  BY DEF WireInv, BufferOK, OptionOK, ElementsOK, NoKeyFails

LEMMA OptionIs == Option \in SUBSET Int
  <1>1. NoOption \in Int
    BY DEF NoOption
  <1>2. QED
    BY <1>1 DEF Option

LEMMA FirstFits == ASSUME lanip \in Nat PROVE OptionFits(NoOption) /\ OptionFits(0)
  BY DEF OptionFits, NoOption

LEMMA NoneLeft ==
  ASSUME lanip' \in Nat, open'.option = NoOption, running' = "index" => fewer'
  PROVE  OptionOK'
  BY DEF OptionOK, OptionFits, NoOption

\* What is edited is the field it was.
LEMMA SameField ==
  ASSUME records' = records, open'.id = open.id, open'.port = open.port, open'.side = open.side,
         open'.scope = open.scope, open'.field = open.field
  PROVE  Field' = Field /\ (NoField' <=> NoField)
  <1>1. (Shown' <=> Shown) /\ (IsDeviceDetail' <=> IsDeviceDetail) /\ (IsCableDetail' <=> IsCableDetail)
    BY DEF Shown, IsDeviceDetail, IsCableDetail
  <1>2. (HasPort' <=> HasPort) /\ (SideIsUsed' <=> SideIsUsed)
    BY <1>1 DEF HasPort, Ports, SideIsUsed
  <1>3. Fields' = Fields
    BY <1>1, <1>2 DEF Fields
  <1>4. QED
    BY <1>1, <1>3 DEF Field, NoField

\* What is drawn is what it was turned to.
LEMMA Drawn ==
  ASSUME NEW to \in WireWindow, Draws(to)
  PROVE  /\ open' \in WireWindow /\ open'.id = to.id /\ open'.focus = to.focus /\ open'.port = to.port
         /\ open'.buffer = to.buffer
         /\ open'.option = IF to.focus = "editor" THEN to.option ELSE NoOption
         /\ to.focus = "editor" => open'.scope = to.scope /\ open'.side = to.side /\ open'.field = to.field
  <1> DEFINE base == Settled(to)
             count == IF to.id = WireTuiDevice /\ Exists(records', WireTuiDevice)
                         /\ (to.port < 0 \/ records'.ports = << >>
                             \/ CableAt(records', records'.ports[Min({to.port, Len(records'.ports) - 1}) + 1])
                                  = NoElementOpen)
                      THEN 4 ELSE 7
             m == Min({base.menu, count - 1})
  <1>1. base \in WireWindow
    <2> DEFINE s == IF to.focus = "editor" THEN to.scope ELSE "general"
               n == IF to.focus = "editor" THEN to.field ELSE 0
               o == IF to.focus = "editor" THEN to.option ELSE NoOption
               a == IF to.focus = "actions" THEN to.action ELSE 0
               k == IF to.focus = "view" THEN 0 ELSE to.menu
    <2>1. to.scope \in {"general", "port"} /\ to.field \in Nat /\ to.action \in Nat /\ to.menu \in Int
          /\ to.option \in Option
      BY DEF WireWindow
    <2>2. s \in {"general", "port"}
      BY <2>1
    <2>3. n \in Nat /\ o \in Option
      BY <2>1 DEF Option
    <2>4. a \in Nat /\ k \in Int
      BY <2>1
    <2>5. base = [to EXCEPT !.scope = s, !.field = n, !.option = o, !.action = a, !.menu = k]
      BY DEF Settled
    <2> HIDE DEF s, n, o, a, k, base
    <2>6. [to EXCEPT !.scope = s, !.field = n, !.option = o, !.action = a, !.menu = k] \in WireWindow
      BY <2>2, <2>3, <2>4 DEF WireWindow
    <2>7. QED
      BY <2>5, <2>6
  <1>2. base.id = to.id /\ base.focus = to.focus /\ base.buffer = to.buffer /\ base.port = to.port
        /\ base.option = IF to.focus = "editor" THEN to.option ELSE NoOption
    BY DEF Settled, WireWindow
  <1>3. to.focus = "editor" => base.scope = to.scope /\ base.side = to.side /\ base.field = to.field
    BY DEF Settled, WireWindow
  <1>4. open' = [base EXCEPT !.menu = m]
    BY DEF Draws
  <1>5. count \in {4, 7}
    OBVIOUS
  <1> HIDE DEF base, count
  <1>6. base.menu \in Int
    BY <1>1 DEF WireWindow
  <1>9. count - 1 \in Int
    BY <1>5
  <1>7. m \in Int
    BY <1>6, <1>9, OfTwo
  <1> HIDE DEF m
  <1>8. QED
    BY <1>1, <1>2, <1>3, <1>4, <1>7 DEF WireWindow

\* A window to which a key may turn the one of the element that is open.
TurnOK(to) ==
    /\ to \in WireWindow /\ to.id = open.id
    /\ to.buffer \/ to.option # NoOption => to.focus = "editor"
    /\ OptionFits(to.option)
    /\ 0 < to.option => to.port = open.port /\ to.side = open.side /\ to.scope = open.scope /\ to.field = open.field
    /\ ~altered /\ to.focus = "editor" /\ to.scope = "port" /\ IsDeviceDetail => Ports # << >> /\ to.port >= 0

InWindow == WireInv /\ IsOpen /\ utility.window = "none"

LEMMA TurnKeeps == ASSUME InWindow, NEW to, TurnOK(to), Turns(to) PROVE WireInv'
  <1>1. UNCHANGED <<idf, records, list, stack, utility, altered, running, lanip, fewer>> /\ Draws(to)
    BY DEF Turns, Stays, elsewhereVars
  <1>2. /\ open' \in WireWindow /\ open'.id = open.id /\ open'.focus = to.focus /\ open'.port = to.port
        /\ open'.buffer = to.buffer /\ open'.option = IF to.focus = "editor" THEN to.option ELSE NoOption
        /\ to.focus = "editor" => open'.scope = to.scope /\ open'.side = to.side /\ open'.field = to.field
    BY <1>1, Drawn DEF TurnOK
  <1>3. IsOpen' /\ (Shown' <=> Shown) /\ (IsDeviceDetail' <=> IsDeviceDetail) /\ Ports' = Ports
    BY <1>1, <1>2 DEF IsOpen, Shown, IsDeviceDetail, Ports, InWindow
  <1>4. WireTypes'
    BY <1>1, <1>2 DEF InWindow, WireInv, WireTypes
  <1>5. BufferOK'
    BY <1>1, <1>2, <1>3 DEF InWindow, BufferOK, TurnOK
  <1>6. ElementsOK'
    BY <1>1, <1>2, <1>3 DEF InWindow, WireInv, ElementsOK, TurnOK, HasPort
  <1>7. OptionOK'
    <2>1. lanip' \in Nat /\ (running' = "index" => fewer')
      BY <1>1 DEF InWindow, WireInv, WireTypes, OptionOK
    <2>2. CASE 0 < to.option /\ to.focus = "editor"
      <3>1. Field' = Field /\ (NoField' <=> NoField)
        BY <1>1, <1>2, <2>2, SameField DEF TurnOK
      <3>2. QED
        BY <1>1, <1>2, <2>1, <2>2, <3>1 DEF TurnOK, OptionOK, OptionFits
    <2>3. CASE to.focus # "editor"
      BY <1>2, <2>1, <2>3, NoneLeft
    <2>4. CASE ~(0 < to.option) /\ to.focus = "editor"
      BY <1>1, <1>2, <2>1, <2>4 DEF TurnOK, OptionOK, OptionFits
    <2>5. QED
      BY <2>2, <2>3, <2>4
  <1>8. QED
    BY <1>4, <1>5, <1>6, <1>7 DEF WireInv

\* An operation of its own that removes no element.
Grows(f) == f \in WireFile /\ \A id \in Identifier : Exists(idf, id) => Exists(f, id)

LEMMA GrowsWith ==
  ASSUME idf \in WireFile
  PROVE  /\ \A ps \in Seq(PortName) : Grows(WithPorts(idf, ps)) /\ WithPorts(idf, ps).ports = ps
         /\ \A w \in TuiCable, es \in Seq(PortName) : Grows(WithEnds(idf, w, es))
  <1>1. \A es \in Seq(PortName) : es # NoRecord
    BY WireTuiAssumption
  <1>2. ASSUME NEW ps \in Seq(PortName) PROVE Grows(WithPorts(idf, ps)) /\ WithPorts(idf, ps).ports = ps
    BY <1>1, FileIs DEF Grows, Identifier
  <1>3. ASSUME NEW w \in TuiCable, NEW es \in Seq(PortName) PROVE Grows(WithEnds(idf, w, es))
    <2>1. WithEnds(idf, w, es) \in WireFile /\ Exists(WithEnds(idf, w, es), w)
      BY <1>1, FileIs
    <2>2. \A id \in Identifier \ {w} : Exists(WithEnds(idf, w, es), id) <=> Exists(idf, id)
      BY FileIs
    <2>3. QED
      BY <2>1, <2>2 DEF Grows
  <1>4. QED
    BY <1>2, <1>3

LEMMA WriteKeeps ==
  ASSUME InWindow, NEW f, Grows(f), NEW to \in WireWindow, to.id = open.id, ~to.buffer /\ to.option = NoOption,
         Writes(f, to),
         to.focus = "editor" /\ to.scope = "port" /\ open.id = WireTuiDevice /\ Exists(f, WireTuiDevice)
            => f.ports # << >> /\ to.port >= 0
  PROVE  WireInv'
  <1>1. UNCHANGED <<stack, utility, altered, running, lanip, fewer>> /\ Draws(to) /\ idf' = f /\ records' = f
        /\ list' = Follows(f, list.only, list.row)
    BY DEF Writes, TakesAll, elsewhereVars
  <1>2. /\ open' \in WireWindow /\ open'.id = open.id /\ open'.focus = to.focus /\ open'.port = to.port
        /\ ~open'.buffer /\ open'.option = NoOption
        /\ to.focus = "editor" => open'.scope = to.scope
    BY <1>1, Drawn
  <1>3. list.row \in Nat /\ list.only \in SUBSET Identifier
    BY DEF InWindow, WireInv, WireTypes
  <1>4. list' \in [only : SUBSET Identifier, row : Nat]
    BY <1>1, <1>3, RowThere
  <1>5. WireTypes'
    BY <1>1, <1>2, <1>4 DEF InWindow, WireInv, WireTypes, Grows
  <1>6. BufferOK'
    BY <1>1, <1>2 DEF InWindow, WireInv, BufferOK, IsOpen
  <1>7. ElementsOK'
    <2>1. SUFFICES ASSUME ~altered PROVE ElementsOK'
      BY <1>1 DEF ElementsOK
    <2>2. \A id \in Identifier : Exists(records, id) => Exists(records', id)
      BY <1>1, <2>1 DEF InWindow, WireInv, ElementsOK, Grows
    <2>3. open.id \in Identifier /\ \A i \in 1..Len(stack) : stack[i].id \in Identifier
      <3>1. open.id \in Identifier
        BY DEF InWindow, WireInv, WireTypes, WireWindow, IsOpen
      <3>2. \A i \in 1..Len(stack) : stack[i] \in Visit
        BY DEF InWindow, WireInv, WireTypes
      <3>3. QED
        BY <3>1, <3>2 DEF Visit
    <2>4. Shown' /\ \A i \in 1..Len(stack) : Exists(records', stack[i].id)
      BY <1>2, <2>1, <2>2, <2>3 DEF InWindow, WireInv, ElementsOK, Shown
    <2>5. open'.focus = "editor" /\ open'.scope = "port" /\ IsDeviceDetail' => HasPort'
      BY <1>1, <1>2 DEF IsDeviceDetail, HasPort, Ports, Shown
    <2>6. QED
      BY <1>1, <2>1, <2>4, <2>5 DEF InWindow, WireInv, ElementsOK
  <1>9. OptionOK'
    BY <1>1, <1>2, NoneLeft DEF InWindow, WireInv, WireTypes, OptionOK
  <1>8. QED
    BY <1>5, <1>6, <1>7, <1>9 DEF WireInv

LEMMA ClosedIs ==
  /\ Closed \in WireWindow /\ Closed.id = NoElementOpen /\ Closed.focus = "view"
  /\ ~Closed.buffer /\ Closed.option = NoOption
  BY DEF Closed, WireWindow, Option

LEMMA StopKeeps == ASSUME WireInv, NEW how, how # "error" \/ altered, how # "index" \/ fewer, Stops(how) PROVE WireInv'
  <1>1. idf' = idf /\ records' = idf /\ altered' = altered /\ running' = how /\ open' = Closed /\ stack' = << >>
        /\ list' = AllDevices /\ lanip' = lanip /\ fewer' = fewer
    BY DEF Stops
  <1>2. /\ idf \in WireFile /\ << >> \in Seq(Visit) /\ AllDevices \in [only : SUBSET Identifier, row : Nat]
        /\ lanip \in Nat /\ lanip <= LanipDevices
    BY DEF WireInv, WireTypes, AllDevices, Identifier
  <1>3. ~IsOpen' /\ ~IsDeviceDetail'
    BY <1>1, ClosedIs, WireTuiAssumption DEF IsOpen, IsDeviceDetail
  <1>4. WireTypes'
    BY <1>1, <1>2, ClosedIs DEF WireTypes
  <1>5. BufferOK' /\ ElementsOK'
    BY <1>1, <1>3, ClosedIs DEF BufferOK, ElementsOK
  <1>7. OptionOK'
    BY <1>1, ClosedIs, NoneLeft DEF WireInv, WireTypes
  <1>6. QED
    BY <1>4, <1>5, <1>7 DEF WireInv

LEMMA GoKeeps ==
  ASSUME InWindow, ~open.buffer /\ open.option = NoOption, NEW id \in Identifier, ~altered => Exists(records, id),
         NEW port \in Int, NEW side \in Int, GoesTo(id, port, side)
  PROVE  WireInv'
  <1> DEFINE to == [open EXCEPT !.id = id, !.focus = "view", !.port = port, !.side = side]
             here == [id |-> open.id, port |-> open.port, side |-> open.side]
  <1>1. /\ UNCHANGED <<idf, records, list, utility, altered, running, lanip, fewer>> /\ Draws(to)
        /\ stack' = Append(stack, here)
    BY DEF GoesTo, Stays, elsewhereVars
  <1>2. open \in WireWindow
    BY DEF InWindow, WireInv, WireTypes
  <1>3. to \in WireWindow /\ to.id = id /\ to.focus = "view" /\ to.buffer = open.buffer
    BY <1>2 DEF WireWindow
  <1>4. here \in Visit /\ here.id = open.id
    BY <1>2 DEF WireWindow, Visit, InWindow, IsOpen
  <1> HIDE DEF to, here
  <1>5. open' \in WireWindow /\ open'.id = id /\ open'.focus = "view" /\ open'.buffer = open.buffer
        /\ open'.option = NoOption
    BY <1>1, <1>3, Drawn
  <1>6. IsOpen' /\ (Exists(records, id) => Shown')
    BY <1>1, <1>5, WireTuiAssumption DEF IsOpen, Shown, Identifier, TuiCable
  <1>7. /\ stack' \in Seq(Visit) /\ Len(stack') = Len(stack) + 1 /\ stack'[Len(stack) + 1] = here
        /\ \A i \in 1..Len(stack) : stack'[i] = stack[i]
    BY <1>1, <1>4 DEF InWindow, WireInv, WireTypes
  <1>8. WireTypes'
    BY <1>1, <1>5, <1>7 DEF InWindow, WireInv, WireTypes
  <1>9. BufferOK'
    BY <1>5, <1>6 DEF BufferOK
  <1>10. ElementsOK'
    <2>1. SUFFICES ASSUME ~altered PROVE ElementsOK'
      BY <1>1 DEF ElementsOK
    <2>2. Len(stack) \in Nat /\ \A i \in 1..Len(stack) : Exists(records, stack[i].id)
      BY <2>1 DEF InWindow, WireInv, WireTypes, ElementsOK
    <2>3. Exists(records, here.id)
      BY <1>4, <2>1 DEF InWindow, WireInv, ElementsOK, Shown
    <2>4. \A i \in 1..Len(stack') : Exists(records', stack'[i].id)
      BY <1>1, <1>7, <2>2, <2>3
    <2>5. QED
      BY <1>1, <1>5, <1>6, <2>1, <2>4 DEF InWindow, WireInv, ElementsOK
  <1>12. OptionOK'
    BY <1>1, <1>5, NoneLeft DEF InWindow, WireInv, WireTypes, OptionOK
  <1>11. QED
    BY <1>8, <1>9, <1>10, <1>12 DEF WireInv

LEMMA BackKeeps == ASSUME InWindow, NavigateBack PROVE WireInv'
  <1> DEFINE last == Last(stack)
             to == [open EXCEPT !.id = last.id, !.port = last.port, !.side = last.side,
                                !.focus = "view", !.buffer = FALSE]
  <1>1. /\ UNCHANGED <<idf, records, list, utility, altered, running, lanip, fewer>> /\ Draws(to)
        /\ stack' = Front(stack) /\ stack # << >>
    BY DEF NavigateBack, Stays, elsewhereVars
  <1>2. open \in WireWindow /\ stack \in Seq(Visit)
    BY DEF InWindow, WireInv, WireTypes
  <1>3. /\ Len(stack) \in Nat /\ Len(stack) >= 1 /\ last = stack[Len(stack)] /\ last \in Visit
        /\ Front(stack) \in Seq(Visit) /\ Len(Front(stack)) = Len(stack) - 1
        /\ \A i \in 1..Len(stack) - 1 : Front(stack)[i] = stack[i]
    <2>1. Len(stack) \in Nat /\ Len(stack) >= 1
      BY <1>1, <1>2
    <2>2. last = stack[Len(stack)] /\ last \in Visit
      BY <1>2, <2>1 DEF Last
    <2>3. PICK n \in Nat : n = Len(stack) - 1
      BY <2>1
    <2>5. SubSeq(stack, 1, n) \in Seq(Visit) /\ Len(SubSeq(stack, 1, n)) = n
          /\ \A i \in 1..n : SubSeq(stack, 1, n)[i] = stack[i]
      <3>1. 1 \in 1..Len(stack) + 1 /\ n \in 0..Len(stack)
        BY <2>1, <2>3
      <3>2. /\ SubSeq(stack, 1, n) \in Seq(Visit)
            /\ Len(SubSeq(stack, 1, n)) = IF 1 <= n THEN n - 1 + 1 ELSE 0
            /\ \A i \in 1..n - 1 + 1 : SubSeq(stack, 1, n)[i] = stack[1 + i - 1]
        BY <1>2, <3>1, SubSeqProperties
      <3>3. QED
        BY <3>2
    <2>6. QED
      BY <2>1, <2>2, <2>3, <2>5 DEF Front
  <1> HIDE DEF last
  <1>4. to \in WireWindow /\ to.id = last.id /\ to.focus = "view" /\ ~to.buffer
    BY <1>2, <1>3 DEF WireWindow, Visit
  <1>5. last.id \in Identifier
    BY <1>3 DEF Visit
  <1> HIDE DEF to
  <1>6. open' \in WireWindow /\ open'.id = last.id /\ open'.focus = "view" /\ ~open'.buffer /\ open'.option = NoOption
    BY <1>1, <1>4, Drawn
  <1>7. IsOpen'
    BY <1>5, <1>6, WireTuiAssumption DEF IsOpen, Identifier, TuiCable
  <1>8. WireTypes'
    BY <1>1, <1>3, <1>6 DEF InWindow, WireInv, WireTypes
  <1>9. BufferOK'
    BY <1>6, <1>7 DEF BufferOK
  <1>10. ElementsOK'
    <2>1. SUFFICES ASSUME ~altered PROVE ElementsOK'
      BY <1>1 DEF ElementsOK
    <2>2. \A i \in 1..Len(stack) : Exists(records, stack[i].id)
      BY <2>1 DEF InWindow, WireInv, ElementsOK
    <2>3. Exists(records, last.id) /\ \A i \in 1..Len(stack') : Exists(records', stack'[i].id)
      BY <1>1, <1>3, <2>2
    <2>4. Shown'
      BY <1>1, <1>6, <2>3 DEF Shown
    <2>5. QED
      BY <1>1, <1>6, <1>7, <2>1, <2>3, <2>4 DEF InWindow, WireInv, ElementsOK
  <1>12. OptionOK'
    BY <1>1, <1>6, NoneLeft DEF InWindow, WireInv, WireTypes, OptionOK
  <1>11. QED
    BY <1>8, <1>9, <1>10, <1>12 DEF WireInv

LEMMA FollowKeeps ==
  ASSUME InWindow, ~open.buffer /\ open.option = NoOption, NEW to, TurnOK(to), FollowConnection(to)
  PROVE  WireInv'
  <1>1. CASE HasPort /\ SelectedCable # NoElementOpen /\ GoesTo(SelectedCable, 0, OtherSide(SelectedCable))
    <2>1. SelectedCable \in TuiCable /\ Exists(records, SelectedCable)
      BY <1>1, CableThere DEF SelectedCable
    <2>2. OtherSide(SelectedCable) \in Int
      BY DEF OtherSide
    <2>3. SelectedCable \in Identifier /\ 0 \in Int
      BY <2>1 DEF Identifier
    <2>4. QED
      BY <1>1, <2>1, <2>2, <2>3, GoKeeps
  <1>2. CASE /\ IsCableDetail /\ SideIsUsed /\ Exists(records, WireTuiDevice)
             /\ LET at == records.ends[open.id][open.side + 1]
                    found == {i \in DOMAIN records.ports : records.ports[i] = at}
                IN  GoesTo(WireTuiDevice, IF found = {} THEN 0 ELSE Min(found) - 1, 0)
    <2> DEFINE found == {i \in DOMAIN records.ports : records.ports[i] = records.ends[open.id][open.side + 1]}
               k == IF found = {} THEN 0 ELSE Min(found) - 1
    <2>1. records \in WireFile
      BY DEF InWindow, WireInv, WireTypes
    <2>2. records.ports \in Seq(PortName)
      BY <1>2, <2>1, FileIs DEF Exists
    <2>3. found \in SUBSET Nat
      BY <2>2
    <2>4. k \in Int
      <3>1. CASE found # {}
        <4>1. Min(found) \in found
          BY <2>3, <3>1, LeastOf
        <4> HIDE DEF found
        <4>2. Min(found) \in Nat
          BY <2>3, <4>1
        <4>3. QED
          BY <3>1, <4>2
      <3>2. QED
        BY <3>1
    <2>5. GoesTo(WireTuiDevice, k, 0) /\ WireTuiDevice \in Identifier /\ 0 \in Int
      BY <1>2 DEF Identifier
    <2> HIDE DEF k
    <2>6. QED
      BY <1>2, <2>4, <2>5, GoKeeps
  <1>3. CASE Turns(to)
    BY <1>3, TurnKeeps
  <1>4. QED
    BY <1>1, <1>2, <1>3 DEF FollowConnection

-----------------------------------------------------------------------------
(* LANWIRE: the editor *)

LEMMA PortListIs == PortLists \in SUBSET Seq(PortName)
  <1>1. Cardinality(PortName) \in Nat
    BY WireTuiAssumption, FS_CardinalityType
  <1>2. ASSUME NEW ps \in PortLists PROVE ps \in Seq(PortName)
    <2>1. PICK m \in 0..Cardinality(PortName) : ps \in [1..m -> PortName]
      BY <1>2 DEF PortLists, SeqOf
    <2>2. m \in Nat
      BY <1>1
    <2>3. QED
      BY <2>1, <2>2
  <1>3. QED
    BY <1>2

LEMMA ExceptIs == ASSUME NEW s \in Seq(PortName), NEW p PROVE Except(s, p) \in Seq(PortName)
  <1>1. {i \in DOMAIN s : s[i] # p} \in SUBSET (DOMAIN s)
    OBVIOUS
  <1>2. QED
    BY <1>1, PlacesTaken DEF Except

LEMMA PortThere ==
  ASSUME WireTypes
  PROVE  /\ Ports \in Seq(PortName)
         /\ IsDeviceDetail => Ports = records.ports
         /\ HasPort => IsDeviceDetail /\ SelectedPort \in PortName
  <1>1. IsDeviceDetail => records.ports \in Seq(PortName)
    BY FileIs DEF WireTypes, IsDeviceDetail, Shown, Exists
  <1>2. Ports \in Seq(PortName) /\ (IsDeviceDetail => Ports = records.ports)
    BY <1>1 DEF Ports
  <1>3. ASSUME HasPort PROVE IsDeviceDetail /\ SelectedPort \in PortName
    <2>1. IsDeviceDetail /\ Ports # << >> /\ open.port >= 0
      BY <1>3 DEF HasPort, Ports
    <2>2. PICK n \in Nat : n = Len(Ports) /\ n >= 1 /\ \A i \in 1..n : Ports[i] \in PortName
      BY <1>2, <2>1
    <2>7. open.port \in Int
      BY DEF WireTypes, WireWindow
    <2>3. PICK k \in Nat : k = open.port
      BY <2>1, <2>7
    <2>4. Min({k, n - 1}) + 1 \in 1..n
      <3>1. n - 1 \in Nat
        BY <2>2
      <3>2. Min({k, n - 1}) = IF k <= n - 1 THEN k ELSE n - 1
        BY <3>1, OfTwo
      <3>3. QED
        BY <2>2, <3>2
    <2>5. SelectedPort = Ports[Min({k, n - 1}) + 1]
      BY <2>2, <2>3 DEF SelectedPort
    <2>6. QED
      BY <2>1, <2>2, <2>4, <2>5
  <1>4. QED
    BY <1>2, <1>3

LEMMA FieldIs ==
  ASSUME InWindow, ~NoField
  PROVE  /\ Shown /\ Field \in {"data", "lanip", "ports", "name", "position", "remove", "end"}
         /\ Field = "ports" => IsDeviceDetail /\ open.scope = "general"
         /\ Field \in {"name", "position", "remove"} => IsDeviceDetail /\ HasPort
         /\ Field = "end" => IsCableDetail
         /\ IsDeviceDetail /\ open.scope = "port" => HasPort
  <1>1. open.field \in Nat /\ open.scope \in {"general", "port"}
    BY DEF InWindow, WireInv, WireTypes, WireWindow
  <1>2. Shown /\ (IsDeviceDetail /\ open.scope = "port" => HasPort)
    BY DEF NoField, Fields
  <1>3. PICK n \in 1..4 : Len(Fields) = n
    <2>1. Fields \in {<<"data", "lanip", "ports">>, <<"name", "position", "data", "remove">>,
                      <<"data", "lanip", "end">>, <<"data", "lanip">>}
      BY <1>2 DEF Fields, NoField
    <2>2. QED
      BY <2>1
  <1>4. Min({open.field, n - 1}) + 1 \in 1..n
    <2>1. PICK k \in Nat : k = open.field
      BY <1>1
    <2>2. n - 1 \in Nat
      BY <1>3
    <2>3. Min({k, n - 1}) = IF k <= n - 1 THEN k ELSE n - 1
      BY <2>2, OfTwo
    <2>4. QED
      BY <2>1, <2>3
  <1>5. PICK i \in 1..n : Field = Fields[i]
    BY <1>3, <1>4 DEF Field
  <1>6. CASE IsDeviceDetail /\ open.scope = "general"
    <2>1. Fields = <<"data", "lanip", "ports">>
      BY <1>6 DEF Fields
    <2>2. Field \in {"data", "lanip", "ports"}
      BY <1>3, <1>5, <2>1
    <2>3. QED
      BY <1>2, <1>6, <2>2
  <1>7. CASE IsDeviceDetail /\ open.scope = "port"
    <2>1. Fields = <<"name", "position", "data", "remove">> /\ HasPort
      BY <1>2, <1>7 DEF Fields
    <2>2. Field \in {"name", "position", "data", "remove"}
      BY <1>3, <1>5, <2>1
    <2>3. QED
      BY <1>2, <1>7, <2>1, <2>2
  <1>8. CASE ~IsDeviceDetail
    <2>1. Fields = (IF IsCableDetail /\ SideIsUsed THEN <<"data", "lanip", "end">> ELSE <<"data", "lanip">>)
      BY <1>8 DEF Fields
    <2>2. Field \in {"data", "lanip"} \/ (Field = "end" /\ IsCableDetail)
      BY <1>3, <1>5, <2>1
    <2>3. QED
      BY <1>2, <1>8, <2>2
  <1>9. QED
    BY <1>1, <1>6, <1>7, <1>8

\* How the editor stands after a value was accepted.
Accepted(to) ==
    /\ TurnOK(to) /\ ~to.buffer /\ to.option = NoOption /\ to.port = open.port /\ to.scope = open.scope /\ Shown
    /\ IsDeviceDetail /\ open.scope = "port" => HasPort

LEMMA SaveDataKeeps == ASSUME InWindow, NEW to, Accepted(to), SavesData(to) PROVE WireInv'
  <1>1. WireTypes /\ idf \in WireFile /\ records \in WireFile /\ to \in WireWindow /\ to.id = open.id
    BY DEF InWindow, WireInv, WireTypes, Accepted, TurnOK
  <1>2. CASE Turns(to)
    BY <1>2, TurnKeeps DEF Accepted
  <1>3. CASE open.id = WireTuiDevice /\ ~Turns(to)
    <2>1. MayUpdateDevice(idf, records.ports) /\ Writes(WithPorts(idf, records.ports), to)
      BY <1>3 DEF SavesData
    <2>2. IsDeviceDetail /\ records.ports \in Seq(PortName) /\ Ports = records.ports
      BY <1>1, <1>3, PortThere DEF Accepted, IsDeviceDetail
    <2>3. Grows(WithPorts(idf, records.ports)) /\ WithPorts(idf, records.ports).ports = records.ports
      BY <1>1, <2>2, GrowsWith
    <2>4. to.scope = "port" => records.ports # << >> /\ to.port >= 0
      BY <2>2 DEF Accepted, HasPort
    <2>5. QED
      BY <1>1, <2>1, <2>3, <2>4, WriteKeeps DEF Accepted
  <1>4. CASE open.id # WireTuiDevice /\ ~Turns(to)
    <2>1. Exists(idf, open.id) /\ Writes(WithEnds(idf, open.id, records.ends[open.id]), to)
      BY <1>4 DEF SavesData
    <2>2. open.id \in TuiCable /\ records.ends[open.id] \in Seq(PortName)
      BY <1>1, <1>4, FileIs DEF Accepted, Shown, Exists
    <2>3. Grows(WithEnds(idf, open.id, records.ends[open.id]))
      BY <1>1, <2>2, GrowsWith
    <2>4. QED
      BY <1>1, <1>4, <2>1, <2>3, WriteKeeps DEF Accepted
  <1>5. QED
    BY <1>2, <1>3, <1>4

LEMMA SavePortsKeeps ==
  ASSUME InWindow, NEW to, Accepted(to), SavesPorts(to), open.scope = "general"
  PROVE  WireInv'
  <1>1. WireTypes /\ idf \in WireFile /\ records \in WireFile /\ to \in WireWindow /\ to.id = open.id
    BY DEF InWindow, WireInv, WireTypes, Accepted, TurnOK
  <1>2. CASE Turns(to)
    BY <1>2, TurnKeeps DEF Accepted
  <1>3. ASSUME NEW ps \in PortLists, Writes(WithPorts(idf, ps), to) PROVE WireInv'
    <2>1. ps \in Seq(PortName)
      BY PortListIs
    <2>2. Grows(WithPorts(idf, ps))
      BY <1>1, <2>1, GrowsWith
    <2>3. QED
      BY <1>1, <1>3, <2>2, WriteKeeps DEF Accepted
  <1>4. QED
    BY <1>2, <1>3 DEF SavesPorts

LEMMA OneEnd ==
  ASSUME NEW es \in Seq(PortName), NEW k, NEW q \in PortName
  PROVE  [es EXCEPT ![k] = q] \in Seq(PortName)
  <1>1. es \in [1..Len(es) -> PortName] /\ Len(es) \in Nat
    OBVIOUS
  <1>2. [es EXCEPT ![k] = q] \in [1..Len(es) -> PortName]
    BY <1>1
  <1>3. QED
    BY <1>1, <1>2

LEMMA SaveEndKeeps == ASSUME InWindow, NEW to, Accepted(to), SavesEnd(to), IsCableDetail PROVE WireInv'
  <1>1. WireTypes /\ idf \in WireFile /\ records \in WireFile /\ to \in WireWindow /\ to.id = open.id
    BY DEF InWindow, WireInv, WireTypes, Accepted, TurnOK
  <1>2. CASE Turns(to)
    BY <1>2, TurnKeeps DEF Accepted
  <1>3. open.id \in TuiCable /\ open.id # WireTuiDevice /\ records.ends[open.id] \in Seq(PortName)
    BY <1>1, FileIs, WireTuiAssumption DEF IsCableDetail, Shown, Exists, TuiCable
  <1>4. ASSUME NEW q \in PortName,
               Writes(WithEnds(idf, open.id, [records.ends[open.id] EXCEPT ![open.side + 1] = q]), to)
        PROVE  WireInv'
    <2>2. [records.ends[open.id] EXCEPT ![open.side + 1] = q] \in Seq(PortName)
      BY <1>3, OneEnd
    <2>3. Grows(WithEnds(idf, open.id, [records.ends[open.id] EXCEPT ![open.side + 1] = q]))
      BY <1>1, <1>3, <2>2, GrowsWith
    <2>4. QED
      BY <1>1, <1>3, <1>4, <2>3, WriteKeeps DEF Accepted
  <1>5. QED
    BY <1>2, <1>4 DEF SavesEnd

LEMMA SaveNameKeeps ==
  ASSUME InWindow, NEW to, Accepted(to), SavesName(to), IsDeviceDetail
  PROVE  WireInv'
  <1>1. WireTypes /\ idf \in WireFile /\ to \in WireWindow /\ to.id = open.id
    BY DEF InWindow, WireInv, WireTypes, Accepted, TurnOK
  <1>2. CASE Turns(to)
    BY <1>2, TurnKeeps DEF Accepted
  <1>3. ASSUME NEW q \in PortName, MayRename(idf, SelectedPort, q),
               LET new == RenamedPort(idf, SelectedPort, q)
               IN  Writes(new, [to EXCEPT !.port = (CHOOSE i \in DOMAIN new.ports : new.ports[i] = q) - 1])
        PROVE  WireInv'
    <2> DEFINE new == RenamedPort(idf, SelectedPort, q)
               k == CHOOSE i \in DOMAIN new.ports : new.ports[i] = q
               then == [to EXCEPT !.port = k - 1]
    <2>1. Exists(idf, WireTuiDevice) /\ idf.ports \in Seq(PortName) /\ SelectedPort \in ToSet(idf.ports)
      BY <1>1, <1>3, FileIs DEF MayRename, Exists
    <2>2. /\ new \in WireFile /\ new.ports = NewName(idf.ports, SelectedPort, q)
          /\ \A id \in Identifier : Exists(idf, id) => Exists(new, id)
      BY <1>1, <2>1, RenamedIs
    <2>3. \E i \in DOMAIN new.ports : new.ports[i] = q
      <3>1. PICK i \in 1..Len(idf.ports) : idf.ports[i] = SelectedPort
        BY <2>1 DEF ToSet
      <3>2. /\ NewName(idf.ports, SelectedPort, q) \in Seq(PortName)
            /\ Len(NewName(idf.ports, SelectedPort, q)) = Len(idf.ports)
            /\ NewName(idf.ports, SelectedPort, q)[i] = q
        BY <2>1, <3>1, NewNames
      <3>3. QED
        BY <2>2, <3>1, <3>2
    <2>4. new.ports \in Seq(PortName)
      BY <2>1, <2>2, NewNames
    <2>5. Writes(new, then)
      BY <1>3
    <2>6. k \in DOMAIN new.ports
      BY <2>3
    <2> HIDE DEF new, k
    <2>7. k \in Nat /\ k >= 1 /\ new.ports # << >>
      BY <2>4, <2>6
    <2>8. k - 1 \in Int /\ k - 1 >= 0
      BY <2>7
    <2>9. then \in WireWindow /\ then.id = to.id /\ then.port = k - 1 /\ then.buffer = to.buffer
          /\ then.option = to.option
      BY <1>1, <2>8 DEF WireWindow
    <2> HIDE DEF then
    <2>10. QED
      BY <1>1, <2>2, <2>5, <2>7, <2>8, <2>9, WriteKeeps DEF Grows, Accepted
  <1>4. QED
    BY <1>2, <1>3 DEF SavesName

LEMMA SavePositionKeeps ==
  ASSUME InWindow, NEW to, Accepted(to), SavesPosition(to)
  PROVE  WireInv'
  <1>1. WireTypes /\ idf \in WireFile /\ to \in WireWindow /\ to.id = open.id
    BY DEF InWindow, WireInv, WireTypes, Accepted, TurnOK
  <1>2. CASE Turns(to)
    BY <1>2, TurnKeeps DEF Accepted
  <1>3. ASSUME NEW ps \in PortLists, SelectedPort \in ToSet(ps),
               Writes(WithPorts(idf, ps),
                      [to EXCEPT !.port = (CHOOSE i \in DOMAIN ps : ps[i] = SelectedPort) - 1])
        PROVE  WireInv'
    <2> DEFINE k == CHOOSE i \in DOMAIN ps : ps[i] = SelectedPort
               then == [to EXCEPT !.port = k - 1]
    <2>1. ps \in Seq(PortName)
      BY PortListIs
    <2>2. \E i \in DOMAIN ps : ps[i] = SelectedPort
      BY <1>3, <2>1 DEF ToSet
    <2>3. k \in DOMAIN ps
      BY <2>2
    <2>4. Writes(WithPorts(idf, ps), then)
      BY <1>3
    <2> HIDE DEF k
    <2>5. k \in Nat /\ k >= 1 /\ ps # << >>
      BY <2>1, <2>3
    <2>6. k - 1 \in Int /\ k - 1 >= 0
      BY <2>5
    <2>7. then \in WireWindow /\ then.id = to.id /\ then.port = k - 1 /\ then.buffer = to.buffer
          /\ then.option = to.option
      BY <1>1, <2>6 DEF WireWindow
    <2> HIDE DEF then
    <2>8. Grows(WithPorts(idf, ps)) /\ WithPorts(idf, ps).ports = ps
      BY <1>1, <2>1, GrowsWith
    <2>9. QED
      BY <1>1, <2>4, <2>5, <2>6, <2>7, <2>8, WriteKeeps DEF Accepted
  <1>4. QED
    BY <1>2, <1>3 DEF SavesPosition

\* A window that is kept but for what it edits.
LEMMA StaysOK ==
  ASSUME InWindow, NEW to \in WireWindow, to.id = open.id, to.port = open.port, to.scope = open.scope,
         to.focus = open.focus, to.buffer \/ to.option # NoOption => to.focus = "editor",
         \/ to.option = NoOption
         \/ OptionFits(to.option) /\ to.side = open.side /\ to.field = open.field
  PROVE  TurnOK(to)
  <1>1. OptionFits(to.option)
    BY FirstFits DEF InWindow, WireInv, WireTypes
  <1>2. 0 < to.option => to.side = open.side /\ to.field = open.field
    BY DEF NoOption
  <1>3. QED
    BY <1>1, <1>2 DEF TurnOK, InWindow, WireInv, ElementsOK, HasPort

\* Another part of the window.
LEMMA LeavesOK ==
  ASSUME InWindow, NEW to \in WireWindow, to.id = open.id, to.focus # "editor", ~to.buffer /\ to.option = NoOption
  PROVE  TurnOK(to)
  <1>1. OptionFits(to.option) /\ ~(0 < to.option)
    BY FirstFits DEF InWindow, WireInv, WireTypes, NoOption
  <1>2. QED
    BY <1>1 DEF TurnOK

LEMMA DeletePortKeeps == ASSUME InWindow, NEW stays, Accepted(stays), DeletePort(stays) PROVE WireInv'
  <1> DEFINE ps == Except(records.ports, SelectedPort)
             to == [stays EXCEPT !.port = Min({stays.port, Len(ps) - 1}), !.focus = "menu", !.menu = 0]
  <1>1. WireTypes /\ idf \in WireFile
    BY DEF InWindow, WireInv, WireTypes
  <1>5. stays \in WireWindow /\ stays.id = open.id /\ ~stays.buffer /\ stays.option = NoOption /\ TurnOK(stays)
    BY DEF Accepted, TurnOK
  <1>2. CASE Turns(stays)
    BY <1>2, <1>5, TurnKeeps
  <1>3. CASE ~Turns(stays)
    <2>1. HasPort /\ MayUpdateDevice(idf, ps) /\ Writes(WithPorts(idf, ps), to)
      BY <1>3 DEF DeletePort
    <2>2. records.ports \in Seq(PortName)
      BY <1>1, <2>1, PortThere
    <2>3. ps \in Seq(PortName)
      BY <2>2, ExceptIs
    <2>4. stays.port \in Int
      BY <1>5 DEF WireWindow
    <2>5. Min({stays.port, Len(ps) - 1}) \in Int
      <3> HIDE DEF ps
      <3>1. Len(ps) - 1 \in Int
        BY <2>3
      <3>2. QED
        BY <2>4, <3>1, OfTwo
    <2>9. PICK k \in Int : k = Min({stays.port, Len(ps) - 1})
      BY <2>5
    <2>10. PICK z \in Int : z = 0
      OBVIOUS
    <2>11. to = [stays EXCEPT !.port = k, !.focus = "menu", !.menu = z]
      BY <2>9, <2>10
    <2> HIDE DEF to
    <2>6. to \in WireWindow /\ to.id = open.id /\ to.focus = "menu" /\ ~to.buffer /\ to.option = NoOption
      <3>1. to \in WireWindow
        BY <1>5, <2>11 DEF WireWindow
      <3>2. to.id = open.id /\ to.focus = "menu" /\ ~to.buffer /\ to.option = NoOption
        BY <1>5, <2>11 DEF WireWindow
      <3>3. QED
        BY <3>1, <3>2
    <2>7. Grows(WithPorts(idf, ps))
      BY <1>1, <2>3, GrowsWith
    <2> HIDE DEF ps
    <2>8. QED
      BY <2>1, <2>6, <2>7, WriteKeeps
  <1>4. QED
    BY <1>2, <1>3

LEMMA SaveFieldKeeps == ASSUME InWindow, open.focus = "editor", ~NoField, SaveField PROVE WireInv'
  <1> DEFINE to == [open EXCEPT !.buffer = FALSE, !.option = NoOption]
  <1>1. open \in WireWindow
    BY DEF InWindow, WireInv, WireTypes
  <1>2. /\ to \in WireWindow /\ to.id = open.id /\ to.port = open.port /\ to.scope = open.scope
        /\ to.focus = open.focus /\ ~to.buffer /\ to.option = NoOption
    <2>1. PICK o \in Option : o = NoOption
      BY DEF Option
    <2>2. to = [open EXCEPT !.buffer = FALSE, !.option = o]
      BY <2>1
    <2> HIDE DEF to
    <2>3. QED
      BY <1>1, <2>1, <2>2 DEF WireWindow
  <1>3. TurnOK(to)
    BY <1>2, StaysOK
  <1>4. Accepted(to)
    BY <1>2, <1>3, FieldIs DEF Accepted
  <1> HIDE DEF to
  <1>5. CASE Field \in {"data", "lanip"}
    BY <1>4, <1>5, SaveDataKeeps DEF SaveField, to
  <1>6. CASE Field = "ports"
    BY <1>4, <1>6, FieldIs, SavePortsKeeps DEF SaveField, to
  <1>7. CASE Field = "end"
    BY <1>4, <1>7, FieldIs, SaveEndKeeps DEF SaveField, to
  <1>8. CASE Field = "name"
    BY <1>4, <1>8, FieldIs, SaveNameKeeps DEF SaveField, to
  <1>9. CASE Field = "position"
    BY <1>4, <1>9, FieldIs, SavePositionKeeps DEF SaveField, to
  <1>10. CASE Field = "remove"
    BY <1>4, <1>10, DeletePortKeeps DEF SaveField, to
  <1>11. QED
    BY <1>5, <1>6, <1>7, <1>8, <1>9, <1>10, FieldIs

LEMMA MoveRangeIs == ASSUME NEW n \in Int, NEW from \in Int PROVE MoveRange(n, from) \in SUBSET Nat
  <1>1. n - 1 \in Int /\ from - 1 \in Int /\ from + 1 \in Int
    OBVIOUS
  <1>2. Min({n - 1, from - 1}) \in Int /\ Min({n - 1, from + 1}) \in Int
    BY <1>1, OfTwo
  <1>3. QED
    BY <1>2, NotNegative DEF MoveRange

\* UP and DOWN keep the option among those that are there.
LEMMA OptionMoves ==
  ASSUME InWindow, NEW i \in MoveRange(Options, open.option), open.option # NoOption, ~NoField
  PROVE  i \in Nat /\ OptionFits(i)
  <1>1. open.option \in Option /\ lanip \in Nat /\ OptionFits(open.option)
    BY DEF InWindow, WireInv, WireTypes, WireWindow, OptionOK
  <1>2. PICK o \in Nat : o = open.option
    BY <1>1 DEF Option
  <1>3. PICK n \in Nat : n = Options
    BY <1>1 DEF Options
  <1>4. /\ Min({n - 1, o - 1}) = IF n - 1 <= o - 1 THEN n - 1 ELSE o - 1
        /\ Min({n - 1, o + 1}) = IF n - 1 <= o + 1 THEN n - 1 ELSE o + 1
    <2>1. n - 1 \in Int /\ o - 1 \in Int /\ o + 1 \in Int
      OBVIOUS
    <2>2. QED
      BY <2>1, OfTwo
  <1>5. i \in Nat /\ (0 < i => i < n)
    <2>1. PICK m \in {Min({n - 1, o - 1}), Min({n - 1, o + 1})} : i = Max({0, m})
      BY <1>2, <1>3 DEF MoveRange
    <2>2. m \in Int /\ m < n
      BY <1>4, <2>1
    <2>3. Max({0, m}) = IF 0 <= m THEN m ELSE 0
      BY <2>2 DEF Max
    <2>4. QED
      BY <2>1, <2>2, <2>3
  <1>6. CASE Field = "lanip"
    BY <1>3, <1>5, <1>6, <1>1 DEF Options, OptionFits
  <1>7. CASE Field # "lanip"
    <2>1. i = 0
      BY <1>3, <1>5, <1>7 DEF Options
    <2>2. QED
      BY <1>1, <2>1, FirstFits
  <1>8. QED
    BY <1>5, <1>6, <1>7

\* A selected option that is not there any more was deleted by another session.
LEMMA ApplyKeeps ==
  ASSUME InWindow, open.focus = "editor", ~NoField, open.option # NoOption, ApplyOption
  PROVE  WireInv'
  <1>1. open \in WireWindow /\ lanip \in Nat /\ OptionFits(open.option) /\ WireInv
    BY DEF InWindow, WireInv, WireTypes, OptionOK
  <1>2. CASE Turns(open)
    BY <1>1, <1>2, StaysOK, TurnKeeps
  <1>3. CASE SaveField
    BY <1>3, SaveFieldKeeps
  <1>4. CASE 0 < Options /\ Options <= open.option /\ Stops("index")
    <2>1. PICK o \in Nat : o = open.option
      BY <1>1 DEF WireWindow, Option
    <2>2. fewer
      BY <1>1, <1>4, <2>1 DEF Options, OptionFits
    <2>3. QED
      BY <1>1, <1>4, <2>2, StopKeeps
  <1>6. Options = 0 \/ open.option < Options \/ (0 < Options /\ Options <= open.option)
    <2>1. PICK o \in Nat, n \in Nat : o = open.option /\ n = Options
      BY <1>1 DEF WireWindow, Option, Options
    <2>2. QED
      BY <2>1
  <1>5. QED
    BY <1>2, <1>3, <1>4, <1>6 DEF ApplyOption

LEMMA OptionKeeps == ASSUME InWindow, open.focus = "editor", ~NoField, OptionKey PROVE WireInv'
  <1>1. open \in WireWindow /\ lanip \in Nat
    BY DEF InWindow, WireInv, WireTypes
  <1>2. ASSUME NEW i \in Nat, OptionFits(i), Turns([open EXCEPT !.option = i]) PROVE WireInv'
    <2> DEFINE to == [open EXCEPT !.option = i]
    <2>1. /\ to \in WireWindow /\ to.id = open.id /\ to.port = open.port /\ to.scope = open.scope
          /\ to.focus = open.focus /\ to.side = open.side /\ to.field = open.field /\ to.option = i
      BY <1>1 DEF WireWindow, Option
    <2>2. Turns(to)
      BY <1>2
    <2> HIDE DEF to
    <2>3. TurnOK(to)
      BY <1>2, <2>1, StaysOK
    <2>4. QED
      BY <2>2, <2>3, TurnKeeps
  <1>3. CASE Turns([open EXCEPT !.option = 0])
    <2>1. 0 \in Nat
      OBVIOUS
    <2>2. QED
      BY <1>1, <1>2, <1>3, <2>1, FirstFits
  <1>4. CASE /\ open.option # NoOption
             /\ \E i \in MoveRange(Options, open.option) : Turns([open EXCEPT !.option = i])
    <2>2. PICK i \in MoveRange(Options, open.option) : Turns([open EXCEPT !.option = i])
      BY <1>4
    <2>3. QED
      BY <1>2, <1>4, <2>2, OptionMoves
  <1>5. CASE open.option # NoOption /\ ApplyOption
    BY <1>5, ApplyKeeps
  <1>6. QED
    BY <1>3, <1>4, <1>5 DEF OptionKey

LEMMA EditorKeeps == ASSUME InWindow, EditorKey PROVE WireInv'
  <1>1. open \in WireWindow /\ open.focus = "editor"
    BY DEF InWindow, WireInv, WireTypes, EditorKey
  <1>2. ASSUME NEW area \in {"menu", "actions", "view"},
               \/ Turns([open EXCEPT !.focus = area, !.buffer = FALSE, !.option = NoOption])
               \/ ~open.buffer /\ open.option = NoOption /\ Turns([open EXCEPT !.focus = area])
        PROVE  WireInv'
    <2>1. ASSUME NEW o \in Option, o = NoOption, Turns([open EXCEPT !.focus = area, !.buffer = FALSE, !.option = o])
          PROVE  WireInv'
      <3> DEFINE to == [open EXCEPT !.focus = area, !.buffer = FALSE, !.option = o]
      <3>1. to \in WireWindow /\ to.id = open.id /\ to.focus = area /\ ~to.buffer /\ to.option = o
        BY <1>1 DEF WireWindow
      <3>2. Turns(to)
        BY <2>1
      <3> HIDE DEF to
      <3>3. QED
        BY <2>1, <3>1, <3>2, LeavesOK, TurnKeeps
    <2>2. ASSUME ~open.buffer, open.option = NoOption, Turns([open EXCEPT !.focus = area]) PROVE WireInv'
      <3> DEFINE to == [open EXCEPT !.focus = area]
      <3>1. /\ to \in WireWindow /\ to.id = open.id /\ to.focus = area
            /\ to.buffer = open.buffer /\ to.option = open.option
        BY <1>1 DEF WireWindow
      <3>2. Turns(to)
        BY <2>2
      <3> HIDE DEF to
      <3>3. QED
        BY <2>2, <3>1, <3>2, LeavesOK, TurnKeeps
    <2>3. NoOption \in Option
      BY DEF Option
    <2>4. QED
      BY <1>2, <2>1, <2>2, <2>3
  <1>3. ASSUME NEW to \in WireWindow, to.id = open.id, to.port = open.port, to.scope = open.scope,
               to.focus = open.focus, Turns(to),
               \/ to.option = NoOption
               \/ OptionFits(to.option) /\ to.side = open.side /\ to.field = open.field
        PROVE  WireInv'
    BY <1>1, <1>3, StaysOK, TurnKeeps
  <1>12. OptionFits(open.option)
    BY DEF InWindow, WireInv, OptionOK
  <1>4. CASE Turns([open EXCEPT !.focus = IF IsDeviceDetail THEN "menu" ELSE "actions",
                                !.buffer = FALSE, !.option = NoOption])
    BY <1>2, <1>4
  <1>5. CASE Turns([open EXCEPT !.buffer = FALSE, !.option = IF open.buffer THEN open.option ELSE NoOption])
    <2> DEFINE flag == IF open.buffer THEN open.option ELSE NoOption
               to == [open EXCEPT !.buffer = FALSE, !.option = flag]
    <2>1. flag \in Option /\ flag \in {NoOption, open.option}
      BY <1>1 DEF WireWindow, Option
    <2>2. Turns(to)
      BY <1>5
    <2> HIDE DEF flag
    <2>3. /\ to \in WireWindow /\ to.id = open.id /\ to.port = open.port /\ to.scope = open.scope
          /\ to.focus = open.focus /\ to.option = flag /\ to.side = open.side /\ to.field = open.field
      BY <1>1, <2>1 DEF WireWindow
    <2>4. QED
      BY <1>3, <1>12, <2>1, <2>2, <2>3
  <1>6. CASE ~open.buffer /\ open.option = NoOption
             /\ Turns([open EXCEPT !.focus = IF IsDeviceDetail THEN "menu" ELSE "view"])
    BY <1>2, <1>6
  <1>7. CASE open.option = NoOption
             /\ \E i \in MoveRange(Len(Fields), open.field) : Shown /\ Turns([open EXCEPT !.field = i])
    <2>1. Len(Fields) \in Int
      BY DEF Fields
    <2>6. open.field \in Nat
      BY <1>1 DEF WireWindow
    <2>2. open.field \in Int
      BY <2>6
    <2>3. PICK i \in Nat : Turns([open EXCEPT !.field = i])
      BY <1>7, <2>1, <2>2, MoveRangeIs
    <2>4. /\ [open EXCEPT !.field = i] \in WireWindow /\ [open EXCEPT !.field = i].id = open.id
          /\ [open EXCEPT !.field = i].port = open.port /\ [open EXCEPT !.field = i].scope = open.scope
          /\ [open EXCEPT !.field = i].focus = open.focus /\ [open EXCEPT !.field = i].option = open.option
      BY <1>1 DEF WireWindow
    <2>5. QED
      BY <1>3, <1>7, <2>3, <2>4
  <1>8. CASE NoField /\ Fails
    <2>1. altered
      <3>1. SUFFICES ASSUME ~altered PROVE FALSE
        OBVIOUS
      <3>2. Shown /\ (open.scope = "port" /\ IsDeviceDetail => HasPort)
        BY <1>1, <3>1 DEF InWindow, WireInv, ElementsOK
      <3>3. Fields = << >>
        BY <1>8, <3>2 DEF NoField
      <3>4. open.scope \in {"general", "port"}
        BY <1>1 DEF WireWindow
      <3>5. Fields \in {<<"data", "lanip", "ports">>, <<"name", "position", "data", "remove">>,
                      <<"data", "lanip", "end">>, <<"data", "lanip">>}
        BY <3>2, <3>4 DEF Fields
      <3>6. QED
        BY <3>3, <3>5
    <2>2. QED
      BY <1>8, <2>1, StopKeeps DEF InWindow, Fails
  <1>9. CASE open.option = NoOption /\ Turns([open EXCEPT !.buffer = TRUE])
    <2>2. /\ [open EXCEPT !.buffer = TRUE] \in WireWindow /\ [open EXCEPT !.buffer = TRUE].id = open.id
          /\ [open EXCEPT !.buffer = TRUE].port = open.port /\ [open EXCEPT !.buffer = TRUE].scope = open.scope
          /\ [open EXCEPT !.buffer = TRUE].focus = open.focus
          /\ [open EXCEPT !.buffer = TRUE].option = open.option
      BY <1>1 DEF WireWindow
    <2>3. QED
      BY <1>3, <1>9, <2>2
  <1>13. CASE ~NoField /\ OptionKey
    BY <1>1, <1>13, OptionKeeps
  <1>10. CASE ~NoField /\ SaveField
    BY <1>1, <1>10, SaveFieldKeeps
  <1>11. QED
    BY <1>4, <1>5, <1>6, <1>7, <1>8, <1>9, <1>10, <1>13 DEF EditorKey

-----------------------------------------------------------------------------
(* LANWIRE: the actions on a connector, or on a side of a cable *)

\* A window in which nothing is edited.
ActionOK(to) == to \in WireWindow /\ to.id = open.id /\ to.focus # "editor" /\ ~to.buffer /\ to.option = NoOption

LEMMA ActionTurns == ASSUME InWindow, NEW to, ActionOK(to), Turns(to) PROVE WireInv'
  BY LeavesOK, TurnKeeps DEF ActionOK

LEMMA ActionWrites == ASSUME InWindow, NEW f, Grows(f), NEW to, ActionOK(to), Writes(f, to) PROVE WireInv'
  BY WriteKeeps DEF ActionOK

LEMMA PartOK ==
  ASSUME NEW from, ActionOK(from)
  PROVE  /\ \A t \in {NoText, ""} \cup PortName \cup TuiCable :
               /\ ActionOK([from EXCEPT !.target = t])
               /\ ActionOK([from EXCEPT !.browse = FALSE, !.target = t])
               /\ ActionOK([from EXCEPT !.target = t, !.action = 0, !.focus = "menu"])
         /\ \A area \in {"view", "menu"} :
               /\ ActionOK([from EXCEPT !.focus = area])
               /\ ActionOK([from EXCEPT !.focus = area, !.target = NoText, !.browse = FALSE])
         /\ \A b \in BOOLEAN :
               ActionOK([from EXCEPT !.browse = b]) /\ ActionOK([from EXCEPT !.browse = b, !.action = 0])
         /\ \A a \in Nat : ActionOK([from EXCEPT !.action = a])
         /\ \A m \in Int : ActionOK([from EXCEPT !.menu = m]) /\ ActionOK([from EXCEPT !.port = m])
                            /\ ActionOK([from EXCEPT !.side = m])
  <1>1. ASSUME NEW t \in {NoText, ""} \cup PortName \cup TuiCable
        PROVE  /\ ActionOK([from EXCEPT !.target = t])
               /\ ActionOK([from EXCEPT !.browse = FALSE, !.target = t])
               /\ ActionOK([from EXCEPT !.target = t, !.action = 0, !.focus = "menu"])
    <2>1. ActionOK([from EXCEPT !.target = t])
      BY DEF ActionOK, WireWindow
    <2>2. ActionOK([from EXCEPT !.browse = FALSE, !.target = t])
      BY DEF ActionOK, WireWindow
    <2>3. ActionOK([from EXCEPT !.target = t, !.action = 0, !.focus = "menu"])
      BY DEF ActionOK, WireWindow
    <2>4. QED
      BY <2>1, <2>2, <2>3
  <1>2. ASSUME NEW area \in {"view", "menu"}
        PROVE  /\ ActionOK([from EXCEPT !.focus = area])
               /\ ActionOK([from EXCEPT !.focus = area, !.target = NoText, !.browse = FALSE])
    <2>1. ActionOK([from EXCEPT !.focus = area])
      BY DEF ActionOK, WireWindow
    <2>2. ActionOK([from EXCEPT !.focus = area, !.target = NoText, !.browse = FALSE])
      BY DEF ActionOK, WireWindow
    <2>3. QED
      BY <2>1, <2>2
  <1>3. ASSUME NEW b \in BOOLEAN
        PROVE  ActionOK([from EXCEPT !.browse = b]) /\ ActionOK([from EXCEPT !.browse = b, !.action = 0])
    <2>1. ActionOK([from EXCEPT !.browse = b])
      BY DEF ActionOK, WireWindow
    <2>2. ActionOK([from EXCEPT !.browse = b, !.action = 0])
      BY DEF ActionOK, WireWindow
    <2>3. QED
      BY <2>1, <2>2
  <1>4. ASSUME NEW a \in Nat PROVE ActionOK([from EXCEPT !.action = a])
    BY DEF ActionOK, WireWindow
  <1>5. ASSUME NEW m \in Int
        PROVE  ActionOK([from EXCEPT !.menu = m]) /\ ActionOK([from EXCEPT !.port = m])
               /\ ActionOK([from EXCEPT !.side = m])
    BY DEF ActionOK, WireWindow
  <1>6. QED
    BY <1>1, <1>2, <1>3, <1>4, <1>5

LEMMA FileOK ==
  ASSUME InWindow
  PROVE  /\ WireTypes /\ idf \in WireFile /\ records \in WireFile /\ open \in WireWindow
         /\ SelectedCable # NoElementOpen => SelectedCable \in TuiCable /\ Exists(records, SelectedCable) /\ HasPort
         /\ HasPort => SelectedPort \in PortName
         /\ \A w \in TuiCable : Exists(records, w) => records.ends[w] \in Seq(PortName)
         /\ \A id \in Identifier : Exists(records, id) /\ ~Exists(idf, id) => altered
  <1>1. WireTypes /\ idf \in WireFile /\ records \in WireFile /\ open \in WireWindow
    BY DEF InWindow, WireInv, WireTypes
  <1>2. SelectedCable # NoElementOpen => SelectedCable \in TuiCable /\ Exists(records, SelectedCable) /\ HasPort
    BY CableThere DEF SelectedCable
  <1>3. ASSUME NEW w \in TuiCable, Exists(records, w) PROVE records.ends[w] \in Seq(PortName)
    BY <1>1, <1>3, FileIs, WireTuiAssumption DEF Exists, TuiCable
  <1>4. \A id \in Identifier : Exists(records, id) /\ ~Exists(idf, id) => altered
    BY DEF InWindow, WireInv, ElementsOK
  <1>5. QED
    BY <1>1, <1>2, <1>3, <1>4, PortThere

LEMMA DisconnectKeeps ==
  ASSUME InWindow, NEW to, ActionOK(to), SelectedCable # NoElementOpen, DisconnectPort(to)
  PROVE  WireInv'
  <1>1. SelectedCable \in TuiCable /\ SelectedCable \in Identifier /\ Exists(records, SelectedCable)
    BY FileOK DEF Identifier
  <1>2. CASE Exists(idf, SelectedCable)
    <2>1. Except(records.ends[SelectedCable], SelectedPort) \in Seq(PortName)
      BY <1>1, FileOK, ExceptIs
    <2>2. Grows(WithEnds(idf, SelectedCable, Except(records.ends[SelectedCable], SelectedPort)))
      BY <1>1, <2>1, FileOK, GrowsWith
    <2>3. QED
      BY <1>2, <2>2, ActionWrites DEF DisconnectPort
  <1>3. CASE ~Exists(idf, SelectedCable)
    <2>1. altered
      BY <1>1, <1>3, FileOK
    <2>2. QED
      BY <1>3, <2>1, StopKeeps DEF DisconnectPort, Fails, InWindow
  <1>4. QED
    BY <1>2, <1>3

LEMMA ConnectKeeps ==
  ASSUME InWindow, HasPort, NEW w, NEW from, ActionOK(from), NEW to, ActionOK(to), ConnectPort(w, from, to)
  PROVE  WireInv'
  <1>1. CASE Turns(from)
    BY <1>1, ActionTurns
  <1>2. CASE ~Turns(from)
    <2>1. /\ w \in TuiCable /\ Exists(records, w)
          /\ Writes(WithEnds(idf, w, Append(records.ends[w], SelectedPort)), to)
      BY <1>2 DEF ConnectPort
    <2>2. Append(records.ends[w], SelectedPort) \in Seq(PortName)
      BY <2>1, FileOK
    <2>3. Grows(WithEnds(idf, w, Append(records.ends[w], SelectedPort)))
      BY <2>1, <2>2, FileOK, GrowsWith
    <2>4. QED
      BY <2>1, <2>3, ActionWrites
  <1>3. QED
    BY <1>1, <1>2

LEMMA MoveKeeps ==
  ASSUME InWindow, NEW p, NEW from, ActionOK(from), NEW to, ActionOK(to), MovePort(p, from, to)
  PROVE  WireInv'
  <1>1. CASE Turns(from)
    BY <1>1, ActionTurns
  <1>2. CASE ~Turns(from)
    <2> DEFINE k == CHOOSE i \in DOMAIN Ports : Ports[i] = p
               new == NewName(records.ends[SelectedCable], SelectedPort, p)
               then == [to EXCEPT !.port = k - 1]
    <2>1. /\ SelectedCable # NoElementOpen /\ p \in ToSet(Ports)
          /\ Writes(WithEnds(idf, SelectedCable, new), then)
      BY <1>2 DEF MovePort
    <2>2. Ports \in Seq(PortName)
      BY FileOK, PortThere
    <2>3. p \in PortName /\ \E i \in DOMAIN Ports : Ports[i] = p
      BY <2>1, <2>2 DEF ToSet
    <2>4. k \in DOMAIN Ports
      BY <2>3
    <2> HIDE DEF k
    <2>5. k - 1 \in Int
      BY <2>2, <2>4
    <2>6. ActionOK(then)
      BY <2>5, PartOK
    <2> HIDE DEF then
    <2>7. new \in Seq(PortName)
      BY <2>1, <2>3, FileOK, NewNames
    <2>8. Grows(WithEnds(idf, SelectedCable, new))
      BY <2>1, <2>7, FileOK, GrowsWith
    <2>9. QED
      BY <2>1, <2>6, <2>8, ActionWrites
  <1>3. QED
    BY <1>1, <1>2

LEMMA ConnectorKeeps ==
  ASSUME InWindow, ~open.buffer /\ open.option = NoOption, NEW from, ActionOK(from), ConnectorAction(from)
  PROVE  WireInv'
  <1> DEFINE to == [from EXCEPT !.target = NoText, !.action = 0, !.focus = "menu"]
             chosen == Min({from.action, 2})
  <1>1. ActionOK(to)
    BY PartOK
  <1> HIDE DEF to
  <1>2. from.action \in Nat
    BY DEF ActionOK, WireWindow
  <1>3. chosen \in {0, 1, 2}
    <2>1. chosen = IF from.action <= 2 THEN from.action ELSE 2
      BY <1>2, OfTwo
    <2> HIDE DEF chosen
    <2>2. QED
      BY <1>2, <2>1
  <1>4. CASE ~HasPort /\ Turns(from)
    BY <1>4, ActionTurns
  <1>5. CASE Turns([from EXCEPT !.browse = TRUE, !.action = 0])
    BY <1>5, PartOK, ActionTurns
  <1>6. CASE HasPort /\ ConnectPort(from.target, from, to)
    BY <1>1, <1>6, ConnectKeeps
  <1>7. CASE SelectedCable # NoElementOpen /\ DisconnectPort([from EXCEPT !.action = 0])
    <2>1. ActionOK([from EXCEPT !.action = 0])
      BY PartOK
    <2>2. QED
      BY <1>7, <2>1, DisconnectKeeps
  <1>8. CASE Turns([from EXCEPT !.target = ""])
    BY <1>8, PartOK, ActionTurns
  <1>9. CASE MovePort(from.target, from, to)
    BY <1>1, <1>9, MoveKeeps
  <1>10. CASE FollowConnection([from EXCEPT !.focus = "view"])
    <2>1. ActionOK([from EXCEPT !.focus = "view"])
      BY PartOK
    <2>2. TurnOK([from EXCEPT !.focus = "view"])
      BY <2>1, LeavesOK DEF ActionOK
    <2>3. QED
      BY <1>10, <2>2, FollowKeeps
  <1>11. SelectedCable # NoElementOpen => HasPort
    BY FileOK
  <1> HIDE DEF chosen
  <1>12. QED
    BY <1>3, <1>4, <1>5, <1>6, <1>7, <1>8, <1>9, <1>10, <1>11 DEF ConnectorAction, to, chosen

LEMMA SideKeeps ==
  ASSUME InWindow, IsCableDetail, NEW from, ActionOK(from), CableSideAction(from)
  PROVE  WireInv'
  <1> DEFINE ends == records.ends[open.id]
             to == [from EXCEPT !.target = NoText]
  <1>1. ActionOK(to) /\ ActionOK([from EXCEPT !.browse = TRUE])
    BY PartOK
  <1> HIDE DEF to
  <1>2. open.id \in TuiCable /\ open.id \in Identifier /\ Exists(records, open.id) /\ ends \in Seq(PortName)
    BY FileOK DEF IsCableDetail, Shown, Identifier
  <1>3. CASE Turns(from) \/ Turns([from EXCEPT !.browse = TRUE])
    BY <1>1, <1>3, ActionTurns
  <1>4. CASE Fails /\ ~Exists(idf, open.id)
    <2>1. altered
      BY <1>2, <1>4, FileOK
    <2>2. QED
      BY <1>4, <2>1, StopKeeps DEF Fails, InWindow
  <1>5. ASSUME NEW es \in Seq(PortName), Writes(WithEnds(idf, open.id, es), to) PROVE WireInv'
    <2>1. Grows(WithEnds(idf, open.id, es))
      BY <1>2, FileOK, GrowsWith
    <2>2. QED
      BY <1>1, <1>5, <2>1, ActionWrites
  <1>6. CASE Writes(WithEnds(idf, open.id, Except(ends, ends[open.side + 1])), to)
    BY <1>2, <1>5, <1>6, ExceptIs
  <1>7. CASE /\ Exists(records, WireTuiDevice) /\ from.target \in ToSet(records.ports)
             /\ Writes(WithEnds(idf, open.id, Append(ends, from.target)), to)
    <2>1. records.ports \in Seq(PortName)
      BY <1>7, FileOK, FileIs DEF Exists
    <2>2. from.target \in PortName
      BY <1>7, <2>1 DEF ToSet
    <2>3. Append(ends, from.target) \in Seq(PortName)
      BY <1>2, <2>2
    <2>4. QED
      BY <1>5, <1>7, <2>3
  <1>8. QED
    BY <1>3, <1>4, <1>6, <1>7 DEF CableSideAction, to

LEMMA ExecuteKeeps ==
  ASSUME InWindow, ~open.buffer /\ open.option = NoOption, NEW from, ActionOK(from), Execute(from)
  PROVE  WireInv'
  BY ConnectorKeeps, SideKeeps DEF Execute

LEMMA ActionsKeep == ASSUME InWindow, ActionsKey PROVE WireInv'
  <1>1. ActionOK(open) /\ ~open.buffer /\ open.option = NoOption
    BY DEF ActionsKey, ActionOK, InWindow, WireInv, WireTypes, BufferOK
  <1>2. CASE \/ Turns([open EXCEPT !.focus = IF IsCableDetail THEN "view" ELSE "menu", !.target = NoText,
                                   !.browse = FALSE])
             \/ Turns([open EXCEPT !.focus = IF IsCableDetail THEN "view" ELSE "menu"])
    <2>1. PICK area \in {"view", "menu"} : area = IF IsCableDetail THEN "view" ELSE "menu"
      OBVIOUS
    <2>2. ActionOK([open EXCEPT !.focus = area, !.target = NoText, !.browse = FALSE])
          /\ ActionOK([open EXCEPT !.focus = area])
      BY <1>1, PartOK
    <2>3. QED
      BY <1>2, <2>1, <2>2, ActionTurns
  <1>3. CASE Turns([open EXCEPT !.browse = FALSE]) \/ Execute([open EXCEPT !.browse = FALSE])
    <2>1. ActionOK([open EXCEPT !.browse = FALSE])
      BY <1>1, PartOK
    <2>2. QED
      BY <1>1, <1>3, <2>1, ActionTurns, ExecuteKeeps
  <1>4. CASE \E o \in Offered : Execute([open EXCEPT !.browse = FALSE, !.target = o])
    <2>1. Offered \in SUBSET (PortName \cup TuiCable)
      BY DEF Offered
    <2>2. PICK o \in PortName \cup TuiCable : Execute([open EXCEPT !.browse = FALSE, !.target = o])
      BY <1>4, <2>1
    <2>3. ActionOK([open EXCEPT !.browse = FALSE, !.target = o])
      BY <1>1, PartOK
    <2>4. QED
      BY <1>1, <2>2, <2>3, ExecuteKeeps
  <1>5. CASE Turns([open EXCEPT !.target = NoText])
    BY <1>1, <1>5, PartOK, ActionTurns
  <1>6. CASE \E i \in MoveRange(IF SelectedCable # NoElementOpen THEN 3 ELSE 1, open.action) :
                Turns([open EXCEPT !.action = i])
    <2>1. open.action \in Nat
      BY <1>1 DEF ActionOK, WireWindow
    <2>2. open.action \in Int /\ (IF SelectedCable # NoElementOpen THEN 3 ELSE 1) \in Int
      BY <2>1
    <2>3. PICK i \in Nat : Turns([open EXCEPT !.action = i])
      BY <1>6, <2>2, MoveRangeIs
    <2>4. QED
      BY <1>1, <2>3, PartOK, ActionTurns
  <1>7. CASE Execute(open)
    BY <1>1, <1>7, ExecuteKeeps
  <1>8. CASE \E text \in PortName \cup {""} : Turns([open EXCEPT !.target = text])
    <2>1. PICK text \in PortName \cup {""} : Turns([open EXCEPT !.target = text])
      BY <1>8
    <2>2. ActionOK([open EXCEPT !.target = text])
      BY <1>1, PartOK
    <2>3. QED
      BY <2>1, <2>2, ActionTurns
  <1>9. QED
    BY <1>2, <1>3, <1>4, <1>5, <1>6, <1>7, <1>8 DEF ActionsKey

-----------------------------------------------------------------------------
(* LANWIRE: the other keys, and the changes of other sessions *)

\* A window over everything is opened, or closed.
LEMMA SameKeeps ==
  ASSUME WireInv, UNCHANGED <<idf, records, list, open, stack, altered, running, lanip, fewer>>,
         (~open.buffer /\ open.option = NoOption) \/ UNCHANGED utility
  PROVE  WireInv'
  <1>1. WireTypes' /\ BufferOK'
    BY DEF WireInv, WireTypes, BufferOK, IsOpen
  <1>2. (IsOpen' <=> IsOpen) /\ (Shown' <=> Shown) /\ (IsDeviceDetail' <=> IsDeviceDetail) /\ (HasPort' <=> HasPort)
    BY DEF IsOpen, Shown, IsDeviceDetail, HasPort, Ports
  <1>3. ElementsOK'
    BY <1>2 DEF WireInv, ElementsOK
  <1>5. OptionOK'
    BY SameField DEF WireInv, OptionOK, OptionFits
  <1>4. QED
    BY <1>1, <1>3, <1>5 DEF WireInv

LEMMA UtilityOpens ==
  ASSUME WireInv, ~open.buffer /\ open.option = NoOption, NEW window, NEW id, OpensUtility(window, id)
  PROVE  WireInv'
  BY SameKeeps DEF OpensUtility, Stays, elsewhereVars

LEMMA ChooseKeeps == ASSUME InWindow, open.focus = "menu", ChooseOption PROVE WireInv'
  <1> DEFINE acts == [open EXCEPT !.focus = "actions", !.target = NoText]
  <1>1. ActionOK(open) /\ ~open.buffer /\ open.option = NoOption /\ open \in WireWindow
    BY DEF ActionOK, InWindow, WireInv, WireTypes, BufferOK
  <1>2. CASE Turns(open)
    BY <1>1, <1>2, ActionTurns
  <1>3. CASE ChooseData /\ ~Turns(open)
    <2>1. PICK scope \in {"general", "port"} : scope = IF open.menu = 0 THEN "general" ELSE "port"
      OBVIOUS
    <2> DEFINE to == [open EXCEPT !.scope = scope, !.focus = "editor", !.field = 0, !.buffer = FALSE,
                                  !.option = NoOption]
    <2>2. Turns(to) /\ (scope = "port" => HasPort)
      BY <1>3, <2>1 DEF ChooseData
    <2>3. to \in WireWindow /\ to.id = open.id /\ ~to.buffer /\ to.option = NoOption
          /\ to.port = open.port /\ to.scope = scope
      BY <1>1 DEF WireWindow
    <2> HIDE DEF to
    <2>6. OptionFits(to.option) /\ ~(0 < to.option)
      BY <2>3, FirstFits DEF InWindow, WireInv, WireTypes, NoOption
    <2>4. TurnOK(to)
      BY <2>2, <2>3, <2>6 DEF TurnOK, HasPort
    <2>5. QED
      BY <2>2, <2>4, TurnKeeps
  <1>4. CASE OpensUtility("delete", open.id)
    BY <1>1, <1>4, UtilityOpens DEF InWindow
  <1>5. ActionOK(acts)
    BY <1>1 DEF ActionOK, WireWindow
  <1> HIDE DEF acts
  <1>6. CASE ConnectorAction([acts EXCEPT !.action = 0])
    <2>1. ActionOK([acts EXCEPT !.action = 0])
      BY <1>5, PartOK
    <2>2. QED
      BY <1>1, <1>6, <2>1, ConnectorKeeps
  <1>7. CASE FollowConnection([open EXCEPT !.focus = "view"])
    <2>1. ActionOK([open EXCEPT !.focus = "view"])
      BY <1>1, PartOK
    <2>2. TurnOK([open EXCEPT !.focus = "view"])
      BY <2>1, LeavesOK DEF ActionOK
    <2>3. QED
      BY <1>1, <1>7, <2>2, FollowKeeps
  <1>8. CASE SelectedCable # NoElementOpen /\ DisconnectPort([open EXCEPT !.menu = 2])
    <2>3. 2 \in Int
      OBVIOUS
    <2>1. ActionOK([open EXCEPT !.menu = 2])
      BY <1>1, <2>3, PartOK
    <2>2. QED
      BY <1>8, <2>1, DisconnectKeeps
  <1>9. CASE ConnectorAction([acts EXCEPT !.action = 1])
    <2>1. ActionOK([acts EXCEPT !.action = 1])
      BY <1>5, PartOK
    <2>2. QED
      BY <1>1, <1>9, <2>1, ConnectorKeeps
  <1>10. QED
    BY <1>2, <1>3, <1>4, <1>6, <1>7, <1>8, <1>9 DEF ChooseOption, acts

LEMMA MenuKeeps == ASSUME InWindow, MenuKey PROVE WireInv'
  <1>1. ActionOK(open) /\ open \in WireWindow
    BY DEF MenuKey, ActionOK, InWindow, WireInv, WireTypes, BufferOK
  <1>2. CASE Turns([open EXCEPT !.focus = "view"])
    BY <1>1, <1>2, PartOK, ActionTurns
  <1>3. CASE \E i \in MoveRange(MenuCount, open.menu) : Turns([open EXCEPT !.menu = i])
    <2>5. open.menu \in Int
      BY <1>1 DEF WireWindow
    <2>1. open.menu \in Int /\ MenuCount \in Int
      BY <2>5 DEF MenuCount
    <2>2. PICK i \in Nat : Turns([open EXCEPT !.menu = i])
      BY <1>3, <2>1, MoveRangeIs
    <2>3. i \in Int
      BY <2>2
    <2>4. QED
      BY <1>1, <2>2, <2>3, PartOK, ActionTurns
  <1>4. QED
    BY <1>2, <1>3, ChooseKeeps DEF MenuKey

LEMMA OpenedIs ==
  ASSUME open \in WireWindow, NEW id \in Identifier \cup {NoElementOpen}
  PROVE  /\ Opened(id) \in WireWindow /\ Opened(id).id = id /\ Opened(id).focus = "view"
         /\ ~Opened(id).buffer /\ Opened(id).option = NoOption
  <1>1. PICK t \in {NoText, ""} \cup PortName \cup TuiCable, browse \in BOOLEAN :
               t = open.target /\ browse = open.browse
    BY DEF WireWindow
  <1> DEFINE new == [Closed EXCEPT !.id = id, !.target = t, !.browse = browse]
  <1>2. Opened(id) = new
    BY <1>1 DEF Opened
  <1>3. new \in WireWindow /\ new.id = id /\ new.focus = "view" /\ ~new.buffer /\ new.option = NoOption
    BY ClosedIs DEF WireWindow
  <1> HIDE DEF new
  <1>4. QED
    BY <1>2, <1>3

LEMMA LeftIs ==
  ASSUME open \in WireWindow, ~open.buffer /\ open.option = NoOption
  PROVE  Left \in WireWindow /\ Left.id = NoElementOpen /\ Left.focus = "view" /\ ~Left.buffer /\ Left.option = NoOption
  <1>1. Opened(NoElementOpen) \in WireWindow /\ Opened(NoElementOpen).id = NoElementOpen
        /\ Opened(NoElementOpen).focus = "view" /\ ~Opened(NoElementOpen).buffer /\ Opened(NoElementOpen).option = NoOption
    BY OpenedIs
  <1>2. Left = [Opened(NoElementOpen) EXCEPT !.buffer = FALSE]
    BY DEF Left, WireWindow
  <1>3. QED
    BY <1>1, <1>2 DEF WireWindow

\* Whatever has become of the elements, with none of them open.
LEMMA ListKeeps ==
  ASSUME WireTypes', ~open'.buffer /\ open'.option = NoOption, open'.id = NoElementOpen, stack' = << >>,
         running' = "index" => fewer',
         ~altered' => running' # "error" /\ \A id \in Identifier : Exists(idf, id)' <=> Exists(records, id)'
  PROVE  WireInv'
  <1>1. ~IsOpen' /\ ~IsDeviceDetail'
    BY WireTuiAssumption DEF IsOpen, IsDeviceDetail
  <1>2. BufferOK' /\ ElementsOK'
    BY <1>1 DEF BufferOK, ElementsOK
  <1>4. OptionOK'
    BY NoneLeft DEF WireTypes
  <1>3. QED
    BY <1>2, <1>4 DEF WireInv

LEMMA ViewKeeps == ASSUME InWindow, ViewKey PROVE WireInv'
  <1>1. ActionOK(open) /\ ~open.buffer /\ open.option = NoOption /\ open \in WireWindow /\ WireInv
    BY DEF ViewKey, ActionOK, InWindow, WireInv, WireTypes, BufferOK
  <1>2. CASE OpensPlain
    BY <1>1, <1>2, UtilityOpens DEF OpensPlain
  <1>3. CASE Ends
    BY <1>1, <1>3, StopKeeps DEF Ends
  <1>4. CASE open' = Left /\ stack' = << >> /\ Stays
    <2>1. UNCHANGED <<idf, records, list, altered, running, lanip, fewer>>
      BY <1>4 DEF Stays, elsewhereVars
    <2>2. open' \in WireWindow /\ open'.id = NoElementOpen /\ ~open'.buffer /\ open'.option = NoOption
      BY <1>1, <1>4, LeftIs
    <2>3. WireTypes'
      BY <1>1, <1>4, <2>1, <2>2 DEF WireInv, WireTypes
    <2>4. /\ running' = "index" => fewer'
          /\ ~altered' => running' # "error" /\ \A id \in Identifier : Exists(idf, id)' <=> Exists(records, id)'
      BY <1>1, <2>1 DEF WireInv, ElementsOK, OptionOK
    <2>5. QED
      BY <1>4, <2>2, <2>3, <2>4, ListKeeps
  <1>5. CASE IsDeviceDetail /\ Turns([open EXCEPT !.focus = "menu", !.menu = 0])
    <2>3. ActionOK([open EXCEPT !.focus = "menu"])
      BY <1>1, PartOK
    <2>5. 0 \in Int
      OBVIOUS
    <2>4. ActionOK([[open EXCEPT !.focus = "menu"] EXCEPT !.menu = 0])
      BY <2>3, <2>5, PartOK
    <2>1. ActionOK([open EXCEPT !.focus = "menu", !.menu = 0])
      BY <2>4
    <2>2. QED
      BY <1>5, <2>1, ActionTurns
  <1>6. CASE Turns([open EXCEPT !.focus = "editor", !.scope = "general", !.field = 0, !.buffer = FALSE,
                                !.option = NoOption])
    <2> DEFINE to == [open EXCEPT !.focus = "editor", !.scope = "general", !.field = 0, !.buffer = FALSE,
                                  !.option = NoOption]
    <2>1. to \in WireWindow /\ to.id = open.id /\ ~to.buffer /\ to.option = NoOption /\ to.scope = "general"
      BY <1>1 DEF WireWindow
    <2> HIDE DEF to
    <2>4. OptionFits(to.option) /\ ~(0 < to.option)
      BY <1>1, <2>1, FirstFits DEF WireInv, WireTypes, NoOption
    <2>2. TurnOK(to)
      BY <2>1, <2>4 DEF TurnOK
    <2>3. QED
      BY <1>6, <2>2, TurnKeeps DEF to
  <1>7. CASE MoveSelection
    <2>1. CASE Ports # << >> /\ \E i \in {open.port - 1, open.port + 1} :
                  Turns([open EXCEPT !.port = Max({-1, Min({Len(Ports) - 1, i})})])
      <3>1. PICK i \in {open.port - 1, open.port + 1} :
                   Turns([open EXCEPT !.port = Max({-1, Min({Len(Ports) - 1, i})})])
        BY <2>1
      <3>2. open.port \in Int
        BY <1>1 DEF WireWindow
      <3>3. i \in Int
        BY <3>1, <3>2
      <3>4. Ports \in Seq(PortName)
        BY <1>1, FileOK, PortThere
      <3>5. Len(Ports) - 1 \in Int
        BY <3>4
      <3>6. Min({Len(Ports) - 1, i}) \in Int
        BY <3>3, <3>5, OfTwo
      <3>7. \A m \in Int : Max({-1, m}) \in Int
        BY DEF Max
      <3>8. PICK k \in Int : k = Max({-1, Min({Len(Ports) - 1, i})})
        BY <3>6, <3>7
      <3>9. QED
        BY <1>1, <3>1, <3>8, PartOK, ActionTurns
    <2>2. CASE IsCableDetail /\ \E i \in {0, 1} : Turns([open EXCEPT !.side = i])
      <3>1. PICK i \in {0, 1} : Turns([open EXCEPT !.side = i])
        BY <2>2
      <3>2. i \in Int
        OBVIOUS
      <3>3. ActionOK([open EXCEPT !.side = i])
        BY <1>1, <3>2, PartOK
      <3>4. QED
        BY <3>1, <3>3, ActionTurns
    <2>3. QED
      BY <1>7, <2>1, <2>2 DEF MoveSelection
  <1>8. CASE FollowConnection(open)
    <2>1. TurnOK(open)
      BY <1>1, LeavesOK DEF ActionOK
    <2>2. QED
      BY <1>1, <1>8, <2>1, FollowKeeps
  <1>9. QED
    BY <1>2, <1>3, <1>4, <1>5, <1>6, <1>7, <1>8, BackKeeps DEF ViewKey

LEMMA FollowKeyKeeps == ASSUME InWindow, FollowKey PROVE WireInv'
  <1>1. open \in WireWindow /\ ~open.buffer /\ open.option = NoOption
    BY DEF InWindow, WireInv, WireTypes, FollowKey
  <1>2. TurnOK(open)
    BY <1>1, StaysOK
  <1>3. QED
    BY <1>1, <1>2, FollowKeeps DEF FollowKey

LEMMA ErasedIs ==
  ASSUME NEW f \in WireFile, NEW id, Exists(f, id)
  PROVE  Erased(f, id) \in WireFile
  <1>1. CASE id = WireTuiDevice
    <2> DEFINE E == [w \in TuiCable |-> IF Exists(f, w) THEN << >> ELSE NoRecord]
    <2>1. << >> \in Seq(PortName)
      OBVIOUS
    <2>2. E \in [TuiCable -> Seq(PortName) \cup {NoRecord}]
      BY <2>1
    <2>3. Erased(f, id) = [ports |-> NoRecord, ends |-> E]
      BY <1>1 DEF Erased
    <2> HIDE DEF E
    <2>4. QED
      BY <2>2, <2>3 DEF WireFile
  <1>2. CASE id # WireTuiDevice
    <2>1. id \in TuiCable
      BY <1>2 DEF Exists
    <2>2. QED
      BY <1>2, <2>1, FileIs DEF Erased
  <1>3. QED
    BY <1>1, <1>2

LEMMA AddedIs ==
  ASSUME NEW f \in WireFile, NEW id \in Identifier
  PROVE  Added(f, id) \in WireFile
  <1>1. << >> \in Seq(PortName)
    OBVIOUS
  <1>2. QED
    BY <1>1, FileIs DEF Added, Identifier

LEMMA UtilityKeeps == ASSUME WireInv, UtilityKey PROVE WireInv'
  <1>1. WireTypes /\ open \in WireWindow /\ ~open.buffer /\ open.option = NoOption
    BY DEF WireInv, WireTypes, BufferOK, UtilityKey
  <1>2. CASE UNCHANGED <<open, stack>> /\ Stays
    BY <1>1, <1>2, SameKeeps DEF Stays, elsewhereVars
  <1>3. CASE /\ idf' = Erased(idf, utility.id) /\ TakesAll(0) /\ Exists(idf, utility.id)
             /\ open' = Left /\ stack' = << >> /\ UNCHANGED <<running, elsewhereVars>>
    <2>1. open' \in WireWindow /\ open'.id = NoElementOpen /\ ~open'.buffer /\ open'.option = NoOption
      BY <1>1, <1>3, LeftIs
    <2>2. idf' \in WireFile
      BY <1>1, <1>3, ErasedIs DEF WireTypes
    <2>3. records' = idf' /\ list' = Follows(idf', list.only, 0)
      BY <1>3 DEF TakesAll
    <2>4. list.only \in SUBSET Identifier
      BY <1>1 DEF WireTypes
    <2>5. list' \in [only : SUBSET Identifier, row : Nat]
      BY <2>3, <2>4, RowThere
    <2>6. stack' \in Seq(Visit)
      BY <1>3
    <2>7. WireTypes'
      BY <1>1, <1>3, <2>1, <2>2, <2>3, <2>5, <2>6 DEF WireTypes, elsewhereVars
    <2>8. /\ running' = "index" => fewer'
          /\ ~altered' => running' # "error" /\ \A id \in Identifier : Exists(idf, id)' <=> Exists(records, id)'
      BY <1>3, <2>3 DEF elsewhereVars, WireInv, ElementsOK, OptionOK
    <2>9. QED
      BY <1>3, <2>1, <2>7, <2>8, ListKeeps
  <1>4. QED
    BY <1>2, <1>3 DEF UtilityKey

\* The list is shown, with no element open and no window over it.
InList == WireInv /\ ~IsOpen

LEMMA ListKeyKeeps == ASSUME InList, ListKey PROVE WireInv'
  <1>1. /\ WireInv /\ WireTypes /\ open \in WireWindow /\ ~open.buffer /\ open.option = NoOption
        /\ open.id = NoElementOpen /\ stack = << >>
    BY DEF InList, WireInv, WireTypes, BufferOK, IsOpen
  <1>2. list.row \in Nat /\ list.only \in SUBSET Identifier /\ idf \in WireFile
    BY <1>1 DEF WireTypes
  <1>3. /\ running = "index" => fewer
        /\ ~altered => running # "error" /\ \A id \in Identifier : Exists(idf, id) <=> Exists(records, id)
    BY <1>1 DEF WireInv, ElementsOK, OptionOK
  <1>4. CASE OpensPlain \/ OpensUtility("delete", SelectedId)
    BY <1>1, <1>4, UtilityOpens DEF OpensPlain
  <1>5. CASE Ends
    BY <1>1, <1>5, StopKeeps DEF Ends
  <1>6. CASE SelectedId # NoElementOpen /\ stack' = << >> /\ Stays /\ UNCHANGED <<utility, typed>>
             /\ Draws(Opened(SelectedId))
    <2>1. SelectedId \in Identifier /\ Exists(records, SelectedId)
      BY <1>2, <1>6, RowThere DEF SelectedId
    <2>2. Opened(SelectedId) \in WireWindow /\ Opened(SelectedId).id = SelectedId
          /\ Opened(SelectedId).focus = "view" /\ ~Opened(SelectedId).buffer /\ Opened(SelectedId).option = NoOption
      BY <1>1, <2>1, OpenedIs
    <2>3. open' \in WireWindow /\ open'.id = SelectedId /\ open'.focus = "view" /\ ~open'.buffer /\ open'.option = NoOption
      BY <1>6, <2>2, Drawn
    <2>4. UNCHANGED <<idf, records, list, altered, running, stack, lanip, fewer>>
      BY <1>1, <1>6 DEF Stays, elsewhereVars
    <2>5. IsOpen' /\ Shown'
      BY <2>1, <2>3, <2>4, WireTuiAssumption DEF IsOpen, Shown, Identifier, TuiCable
    <2>6. WireTypes'
      BY <1>1, <2>3, <2>4 DEF WireTypes
    <2>7. BufferOK'
      BY <2>3, <2>5 DEF BufferOK
    <2>8. Len(stack') = 0
      BY <1>6
    <2>9. ElementsOK'
      BY <1>3, <2>3, <2>4, <2>5, <2>8 DEF ElementsOK
    <2>11. OptionOK'
      BY <1>3, <2>3, <2>4, <2>6, NoneLeft DEF WireTypes
    <2>10. QED
      BY <2>6, <2>7, <2>9, <2>11 DEF WireInv
  <1>7. CASE (\E only \in Filters : list' = Follows(idf, only, 0))
             /\ records' = idf /\ UNCHANGED <<idf, open, stack, utility, typed, running, elsewhereVars>>
    <2>1. PICK only \in Filters : list' = Follows(idf, only, 0)
      BY <1>7
    <2>2. only \in SUBSET Identifier
      BY DEF Filters, Identifier
    <2>3. list' \in [only : SUBSET Identifier, row : Nat]
      BY <2>1, <2>2, RowThere
    <2>4. WireTypes'
      BY <1>1, <1>7, <2>3 DEF WireTypes, elsewhereVars
    <2>5. /\ running' = "index" => fewer'
          /\ ~altered' => running' # "error" /\ \A id \in Identifier : Exists(idf, id)' <=> Exists(records, id)'
      BY <1>3, <1>7 DEF elsewhereVars
    <2>6. QED
      BY <1>1, <1>7, <2>4, <2>5, ListKeeps
  <1>8. CASE (\E i \in MoveRange(Len(Listed(records, list.only)), list.row) : list' = [list EXCEPT !.row = i])
             /\ UNCHANGED <<idf, records, open, stack, utility, typed, running, elsewhereVars>>
    <2>1. Len(Listed(records, list.only)) \in Int /\ list.row \in Int
      BY <1>2, ListedThere
    <2>2. PICK i \in Nat : list' = [list EXCEPT !.row = i]
      BY <1>8, <2>1, MoveRangeIs
    <2>3. list' \in [only : SUBSET Identifier, row : Nat]
      BY <1>1, <2>2 DEF WireTypes
    <2>4. WireTypes'
      BY <1>1, <1>8, <2>3 DEF WireTypes, elsewhereVars
    <2>5. /\ running' = "index" => fewer'
          /\ ~altered' => running' # "error" /\ \A id \in Identifier : Exists(idf, id)' <=> Exists(records, id)'
      BY <1>3, <1>8 DEF elsewhereVars
    <2>6. QED
      BY <1>1, <1>8, <2>4, <2>5, ListKeeps
  <1>9. CASE UNCHANGED <<idf, records, list, open, stack, utility, running, elsewhereVars>>
    <2>1. WireTypes'
      BY <1>1, <1>9 DEF WireTypes, elsewhereVars
    <2>2. /\ running' = "index" => fewer'
          /\ ~altered' => running' # "error" /\ \A id \in Identifier : Exists(idf, id)' <=> Exists(records, id)'
      BY <1>3, <1>9 DEF elsewhereVars
    <2>3. QED
      BY <1>1, <1>9, <2>1, <2>2, ListKeeps
  <1>10. QED
    BY <1>4, <1>5, <1>6, <1>7, <1>8, <1>9 DEF ListKey

LEMMA CommandedIs == ASSUME idf \in WireFile PROVE Commanded \in SUBSET WireFile
  <1>1. ASSUME NEW id \in Identifier, Exists(idf, id) PROVE Erased(idf, id) \in WireFile
    BY <1>1, ErasedIs
  <1>2. ASSUME NEW id \in Identifier PROVE Added(idf, id) \in WireFile
    BY AddedIs
  <1>3. ASSUME NEW ps \in PortLists PROVE WithPorts(idf, ps) \in WireFile
    BY PortListIs, FileIs
  <1>4. ASSUME NEW w \in TuiCable, Exists(idf, w), NEW q \in PortName
        PROVE  WithEnds(idf, w, [idf.ends[w] EXCEPT ![1] = q]) \in WireFile
    <2>1. idf.ends[w] \in Seq(PortName)
      BY <1>4, FileIs, WireTuiAssumption DEF Exists, TuiCable
    <2>2. [idf.ends[w] EXCEPT ![1] = q] \in Seq(PortName)
      BY <2>1, OneEnd
    <2>3. \A es \in Seq(PortName) : WithEnds(idf, w, es) \in WireFile
      BY FileIs
    <2>4. QED
      BY <2>2, <2>3, Zenon
  <1> DEFINE OfCable(w) == {WithEnds(idf, w, [idf.ends[w] EXCEPT ![1] = q]) : q \in PortName}
             Others == UNION {OfCable(w) : w \in {v \in TuiCable : Exists(idf, v) /\ idf.ends[v] # << >>}}
  <1>5. Others \in SUBSET WireFile
    <2>1. SUFFICES ASSUME NEW f \in Others PROVE f \in WireFile
      BY Zenon
    <2>2. PICK w \in TuiCable : Exists(idf, w) /\ f \in OfCable(w)
      OBVIOUS
    <2>3. PICK q \in PortName : f = WithEnds(idf, w, [idf.ends[w] EXCEPT ![1] = q])
      BY <2>2
    <2>4. QED
      BY <1>4, <2>2, <2>3
  <1>6. Commanded = {Erased(idf, id) : id \in {i \in Identifier : Exists(idf, i)}}
                    \cup {Added(idf, id) : id \in {i \in Identifier : ~Exists(idf, i)}}
                    \cup {WithPorts(idf, ps) : ps \in {qs \in PortLists : MayUpdateDevice(idf, qs)}}
                    \cup Others
    BY DEF Commanded
  <1> HIDE DEF Others
  <1>7. QED
    BY <1>1, <1>2, <1>3, <1>5, <1>6

LEMMA CommandKeeps == ASSUME InList, ExecuteCommand PROVE WireInv'
  <1>1. /\ WireInv /\ WireTypes /\ open \in WireWindow /\ ~open.buffer /\ open.option = NoOption
        /\ open.id = NoElementOpen /\ stack = << >>
    BY DEF InList, WireInv, WireTypes, BufferOK, IsOpen
  <1>2. list.row \in Nat /\ list.only \in SUBSET Identifier /\ idf \in WireFile
    BY <1>1 DEF WireTypes
  <1>3. /\ running = "index" => fewer
        /\ ~altered => running # "error" /\ \A id \in Identifier : Exists(idf, id) <=> Exists(records, id)
    BY <1>1 DEF WireInv, ElementsOK, OptionOK
  <1>4. CASE Ends
    BY <1>1, <1>4, StopKeeps DEF Ends
  <1>5. CASE UNCHANGED <<running, elsewhereVars>> /\ (\E only \in Filters : list' = Follows(idf, only, 0))
             /\ records' = idf /\ UNCHANGED <<idf, open, stack, utility>>
    <2>1. PICK only \in Filters : list' = Follows(idf, only, 0)
      BY <1>5
    <2>2. only \in SUBSET Identifier
      BY DEF Filters, Identifier
    <2>3. list' \in [only : SUBSET Identifier, row : Nat]
      BY <2>1, <2>2, RowThere
    <2>4. WireTypes'
      BY <1>1, <1>5, <2>3 DEF WireTypes, elsewhereVars
    <2>5. /\ running' = "index" => fewer'
          /\ ~altered' => running' # "error" /\ \A id \in Identifier : Exists(idf, id)' <=> Exists(records, id)'
      BY <1>3, <1>5 DEF elsewhereVars
    <2>6. QED
      BY <1>1, <1>5, <2>4, <2>5, ListKeeps
  <1>6. ASSUME NEW id \in Identifier, Exists(idf, id), open' = Opened(id), stack' = << >>,
               UNCHANGED <<running, elsewhereVars>>, UNCHANGED <<idf, records, list, utility>>
        PROVE  WireInv'
    <2>1. open' \in WireWindow /\ open'.id = id /\ open'.focus = "view" /\ ~open'.buffer /\ open'.option = NoOption
      BY <1>1, <1>6, OpenedIs
    <2>2. IsOpen'
      BY <2>1, WireTuiAssumption DEF IsOpen, Identifier, TuiCable
    <2>3. ~altered => Shown'
      BY <1>3, <1>6, <2>1 DEF Shown
    <2>4. WireTypes'
      BY <1>1, <1>6, <2>1 DEF WireTypes, elsewhereVars
    <2>5. BufferOK'
      BY <2>1, <2>2 DEF BufferOK
    <2>6. Len(stack') = 0
      BY <1>6
    <2>7. ElementsOK'
      BY <1>3, <1>6, <2>1, <2>3, <2>6 DEF ElementsOK, elsewhereVars
    <2>9. OptionOK'
      BY <1>3, <1>6, <2>1, <2>4, NoneLeft DEF WireTypes, elsewhereVars
    <2>8. QED
      BY <2>4, <2>5, <2>7, <2>9 DEF WireInv
  <1>7. CASE UNCHANGED <<running, elsewhereVars>> /\ UNCHANGED <<idf, records, list, open, stack>>
    BY <1>1, <1>7, SameKeeps DEF elsewhereVars
  <1>8. CASE /\ UNCHANGED <<running, elsewhereVars>>
             /\ idf' \in Commanded \cup {idf} /\ TakesAll(list.row) /\ UNCHANGED <<open, stack, utility>>
    <2>1. idf' \in WireFile
      BY <1>2, <1>8, CommandedIs
    <2>2. records' = idf' /\ list' = Follows(idf', list.only, list.row)
      BY <1>8 DEF TakesAll
    <2>3. list' \in [only : SUBSET Identifier, row : Nat]
      BY <1>2, <2>2, RowThere
    <2>4. WireTypes'
      BY <1>1, <1>8, <2>1, <2>2, <2>3 DEF WireTypes, elsewhereVars
    <2>5. /\ running' = "index" => fewer'
          /\ ~altered' => running' # "error" /\ \A id \in Identifier : Exists(idf, id)' <=> Exists(records, id)'
      BY <1>3, <1>8, <2>2 DEF elsewhereVars
    <2>6. QED
      BY <1>1, <1>8, <2>4, <2>5, ListKeeps
  <1>9. QED
    BY <1>4, <1>5, <1>6, <1>7, <1>8 DEF ExecuteCommand

LEMMA KeyKeeps == ASSUME WireInv, WireTuiKey PROVE WireInv'
  <1>1. CASE UtilityKey
    BY <1>1, UtilityKeeps
  <1>2. CASE utility.window = "none" /\ IsOpen /\ (FollowKey \/ EditorKey \/ MenuKey \/ ActionsKey \/ ViewKey)
    BY <1>2, FollowKeyKeeps, EditorKeeps, MenuKeeps, ActionsKeep, ViewKeeps DEF InWindow
  <1>3. CASE ~IsOpen /\ (ListKey \/ ExecuteCommand)
    BY <1>3, ListKeyKeeps, CommandKeeps DEF InList
  <1>4. QED
    BY <1>1, <1>2, <1>3 DEF WireTuiKey

LEMMA EventKeeps == ASSUME WireInv, TakeEvent PROVE WireInv'
  <1>1. /\ WireTypes /\ ~open.buffer /\ open.option = NoOption
        /\ open.id = NoElementOpen /\ stack = << >>
    BY DEF WireInv, BufferOK, TakeEvent, IsOpen
  <1>2. list.row \in Nat /\ list.only \in SUBSET Identifier
    BY <1>1 DEF WireTypes
  <1>3. /\ records' = idf /\ list' = Follows(idf, list.only, list.row)
        /\ UNCHANGED <<idf, open, stack, utility, running, altered, lanip, fewer>>
    BY DEF TakeEvent
  <1>4. list' \in [only : SUBSET Identifier, row : Nat]
    BY <1>2, <1>3, RowThere
  <1>5. WireTypes'
    BY <1>1, <1>3, <1>4 DEF WireTypes
  <1>6. /\ running' = "index" => fewer'
        /\ ~altered' => running' # "error" /\ \A id \in Identifier : Exists(idf, id)' <=> Exists(records, id)'
    BY <1>3 DEF WireInv, ElementsOK, OptionOK
  <1>7. QED
    BY <1>1, <1>3, <1>5, <1>6, ListKeeps

LEMMA OthersKeep == ASSUME WireInv, OtherWrites PROVE WireInv'
  <1>1. UNCHANGED <<records, list, open, stack, utility, running, lanip, fewer>> /\ idf \in WireFile
    BY DEF OtherWrites, windowVars, WireInv, WireTypes
  <1>2. ASSUME NEW f \in WireFile, idf' = f,
               \/ altered' = TRUE
               \/ altered' = altered /\ \A id \in Identifier : Exists(f, id) <=> Exists(idf, id)
        PROVE  WireInv'
    <2>1. WireTypes' /\ BufferOK'
      BY <1>1, <1>2 DEF WireInv, WireTypes, BufferOK, IsOpen
    <2>2. (IsOpen' <=> IsOpen) /\ (Shown' <=> Shown) /\ (IsDeviceDetail' <=> IsDeviceDetail) /\ (HasPort' <=> HasPort)
      BY <1>1 DEF IsOpen, Shown, IsDeviceDetail, HasPort, Ports
    <2>3. ElementsOK'
      BY <1>1, <1>2, <2>2 DEF WireInv, ElementsOK
    <2>5. OptionOK'
      BY <1>1, SameField DEF WireInv, OptionOK, OptionFits
    <2>4. QED
      BY <2>1, <2>3, <2>5 DEF WireInv
  <1>3. ASSUME NEW id \in Identifier, Exists(idf, id), idf' = Erased(idf, id), altered' = TRUE PROVE WireInv'
    <2>1. Erased(idf, id) \in WireFile
      BY <1>1, <1>3, ErasedIs
    <2>2. QED
      BY <1>2, <1>3, <2>1
  <1>4. ASSUME NEW id \in Identifier, idf' = Added(idf, id), altered' = TRUE PROVE WireInv'
    <2>1. Added(idf, id) \in WireFile
      BY <1>1, AddedIs
    <2>2. QED
      BY <1>2, <1>4, <2>1
  <1>5. ASSUME NEW p \in PortName, NEW q \in PortName, MayRename(idf, p, q), idf' = RenamedPort(idf, p, q),
               altered' = altered
        PROVE  WireInv'
    <2>1. Exists(idf, WireTuiDevice)
      BY <1>5 DEF MayRename
    <2>2. /\ RenamedPort(idf, p, q) \in WireFile
          /\ \A id \in Identifier : Exists(RenamedPort(idf, p, q), id) <=> Exists(idf, id)
      BY <1>1, <2>1, RenamedIs
    <2>3. QED
      BY <1>2, <1>5, <2>2
  <1>6. ASSUME NEW w \in TuiCable, Exists(idf, w), NEW es \in Seq(PortName), idf' = WithEnds(idf, w, es),
               altered' = altered
        PROVE  WireInv'
    <2>1. es # NoRecord
      BY WireTuiAssumption
    <2>2. /\ WithEnds(idf, w, es) \in WireFile
          /\ \A id \in Identifier \ {w} : Exists(WithEnds(idf, w, es), id) <=> Exists(idf, id)
          /\ Exists(WithEnds(idf, w, es), w)
      BY <1>1, <2>1, FileIs
    <2>3. \A id \in Identifier : Exists(WithEnds(idf, w, es), id) <=> Exists(idf, id)
      BY <1>6, <2>2
    <2>4. QED
      BY <1>2, <1>6, <2>2, <2>3
  <1>7. ASSUME NEW w \in TuiCable, Exists(idf, w), NEW p \in PortName
        PROVE  Except(idf.ends[w], p) \in Seq(PortName) /\ Append(idf.ends[w], p) \in Seq(PortName)
    <2>1. idf.ends[w] \in Seq(PortName)
      BY <1>1, <1>7, FileIs, WireTuiAssumption DEF Exists, TuiCable
    <2>2. QED
      BY <2>1, ExceptIs
  <1>8. QED
    BY <1>3, <1>4, <1>5, <1>6, <1>7 DEF OtherWrites

LEMMA OtherDevicesKeep == ASSUME WireInv, OtherDevices PROVE WireInv'
  <1>1. /\ UNCHANGED <<idf, records, list, open, stack, utility, running, altered>>
        /\ lanip' \in Nat /\ lanip' <= LanipDevices /\ fewer' = (fewer \/ (0 < lanip' /\ lanip' <= open.option))
    BY WireTuiAssumption DEF OtherDevices, windowVars
  <1>2. WireTypes' /\ BufferOK'
    BY <1>1 DEF WireInv, WireTypes, BufferOK, IsOpen
  <1>3. (IsOpen' <=> IsOpen) /\ (Shown' <=> Shown) /\ (IsDeviceDetail' <=> IsDeviceDetail) /\ (HasPort' <=> HasPort)
    BY <1>1 DEF IsOpen, Shown, IsDeviceDetail, HasPort, Ports
  <1>4. ElementsOK'
    BY <1>1, <1>3 DEF WireInv, ElementsOK
  <1>5. Field' = Field /\ (NoField' <=> NoField)
    BY <1>1, SameField
  <1>6. OptionOK'
    <2>1. PICK o \in Int : o = open.option
      BY OptionIs DEF WireInv, WireTypes, WireWindow
    <2>2. (0 < o => ~NoField /\ Field = "lanip") /\ (running = "index" => fewer)
      BY <2>1 DEF WireInv, OptionOK, OptionFits
    <2>3. ASSUME ~fewer', 0 < lanip' PROVE o < lanip'
      <3>1. ~(lanip' <= o)
        BY <1>1, <2>1, <2>3, Zenon
      <3>2. QED
        BY <1>1, <2>1, <3>1
    <2>4. QED
      BY <1>1, <1>5, <2>1, <2>2, <2>3 DEF OptionOK, OptionFits
  <1>7. QED
    BY <1>2, <1>4, <1>6 DEF WireInv

LEMMA WireStarts == WireTuiInit => WireInv
  <1>1. SUFFICES ASSUME WireTuiInit PROVE WireInv
    OBVIOUS
  <1>2. idf \in WireFile
    <2>1. << >> \in Seq(PortName)
      OBVIOUS
    <2>2. PICK ps \in PortLists, es \in [TuiCable -> {<< >>}] : idf = [ports |-> ps, ends |-> es]
      BY <1>1 DEF WireTuiInit
    <2>3. QED
      BY <2>1, <2>2, PortListIs DEF WireFile
  <1>3. AllDevices \in [only : SUBSET Identifier, row : Nat] /\ << >> \in Seq(Visit)
    BY DEF AllDevices, Identifier
  <1>4. /\ records = idf /\ list = AllDevices /\ open = Closed /\ stack = << >> /\ running = "yes"
        /\ lanip \in Nat /\ lanip <= LanipDevices
    BY <1>1, WireTuiAssumption DEF WireTuiInit
  <1>5. WireTypes
    BY <1>2, <1>3, <1>4, ClosedIs DEF WireTypes
  <1>6. ~IsOpen /\ ~IsDeviceDetail
    BY <1>4, ClosedIs, WireTuiAssumption DEF IsOpen, IsDeviceDetail
  <1>7. BufferOK /\ ElementsOK
    BY <1>4, <1>6, ClosedIs DEF BufferOK, ElementsOK
  <1>9. OptionOK
    BY <1>4, ClosedIs DEF OptionOK, OptionFits, NoOption
  <1>8. QED
    BY <1>5, <1>7, <1>9 DEF WireInv

\* The windows that can be reached agree with the records in memory, and these with the file until
\* another session adds or deletes an element; a selected option is there until one deletes a device.
THEOREM WireTuiInvariant == WireTuiSpec => []WireInv
  <1>1. WireTuiInit => WireInv
    BY WireStarts
  <1>2. ASSUME WireInv, [WireTuiNext]_wireTuiVars PROVE WireInv'
    <2>1. CASE WireTuiNext
      BY <1>2, <2>1, KeyKeeps, EventKeeps, OthersKeep, OtherDevicesKeep DEF WireTuiNext
    <2>2. CASE UNCHANGED wireTuiVars
      BY <1>2, <2>2, SameKeeps DEF wireTuiVars
    <2>3. QED
      BY <1>2, <2>1, <2>2
  <1>3. QED
    BY <1>1, <1>2, PTL DEF WireTuiSpec

\* No sequence of keys ends the interface with an error, unless another session has deleted or added
\* an element, or deleted the device of LANIP at the place that is selected among the options; with no
\* element open nothing is left being edited (LanwireTui._editor_field, _apply_editor_option, run).
THEOREM KeysDoNotFail == WireTuiSpec => []NoKeyFails
  BY WireTuiInvariant, WireInvHolds, PTL

-----------------------------------------------------------------------------
(* LANWIRE: the lists of the file *)

\* A list is one of ports when no name is in it twice, however long; the ends of a cable are two at most.
LEMMA ListsOfPorts ==
  /\ PortLists = {ps \in Seq(PortName) : IsInjective(ps)}
  /\ \A ps \in PortLists : Len(ps) \in Nat /\ Len(ps) <= Cardinality(PortName)
  /\ CableEnds = {es \in Seq(PortName) : Len(es) <= 2}
  <1>1. IsFiniteSet(PortName) /\ Cardinality(PortName) \in Nat
    BY WireTuiAssumption, FS_CardinalityType
  <1>2. ASSUME NEW ps \in Seq(PortName), IsInjective(ps)
        PROVE  ps \in PortLists /\ Len(ps) <= Cardinality(PortName)
    <2>1. PICK n \in Nat : n = Len(ps) /\ ps \in [1..n -> PortName]
      OBVIOUS
    <2>2. ps \in Injection(1..n, PortName)
      BY <1>2, <2>1 DEF Injection, IsInjective
    <2>3. Cardinality(1..n) <= Cardinality(PortName)
      BY <1>1, <2>2, FS_Injection
    <2>4. Cardinality(1..n) = n
      <3>1. 1 \in Int /\ n \in Int
        BY <2>1
      <3>2. Cardinality(1..n) = IF 1 > n THEN 0 ELSE n - 1 + 1
        BY <3>1, FS_Interval
      <3>3. QED
        BY <3>2
    <2>5. n \in 0..Cardinality(PortName)
      BY <1>1, <2>3, <2>4
    <2>6. QED
      BY <1>2, <2>1, <2>3, <2>4, <2>5 DEF PortLists, SeqOf
  <1>3. ASSUME NEW ps \in PortLists PROVE ps \in Seq(PortName) /\ IsInjective(ps)
    BY PortListIs DEF PortLists
  <1>4. ASSUME NEW es \in Seq(PortName), Len(es) <= 2 PROVE es \in CableEnds
    <2>1. Len(es) \in 0..2 /\ es \in [1..Len(es) -> PortName]
      <3>1. PICK n \in Nat : n = Len(es) /\ es \in [1..n -> PortName]
        OBVIOUS
      <3>2. n \in 0..2
        BY <1>4, <3>1
      <3>3. QED
        BY <3>1, <3>2
    <2>2. QED
      BY <2>1 DEF CableEnds, SeqOf
  <1>5. ASSUME NEW es \in CableEnds PROVE es \in Seq(PortName) /\ Len(es) <= 2
    <2>1. PICK m \in 0..2 : es \in [1..m -> PortName]
      BY DEF CableEnds, SeqOf
    <2>2. QED
      BY <2>1
  <1>6. QED
    BY <1>1, <1>2, <1>3, <1>4, <1>5

\* The k-th of some places is another than the l-th.
LEMMA NthApart ==
  ASSUME NEW n \in Nat, NEW places \in SUBSET (1..n),
         NEW k \in 1..Cardinality(places), NEW l \in 1..Cardinality(places), Nth(places, k) = Nth(places, l)
  PROVE  k = l
  <1>1. Cardinality(places) \in Nat
    BY FewPlaces
  <1>2. Cardinality({j \in places : j < Nth(places, k)}) = k - 1
    BY NthThere
  <1>3. Cardinality({j \in places : j < Nth(places, l)}) = l - 1
    BY NthThere
  <1>4. k - 1 = l - 1
    BY <1>2, <1>3, Nth(places, k) = Nth(places, l)
  <1>5. QED
    BY <1>1, <1>4

\* What is left when a name is taken out has no name twice, and is no longer.
LEMMA ExceptFits ==
  ASSUME NEW p
  PROVE  /\ \A ps \in PortLists : Except(ps, p) \in PortLists
         /\ \A es \in CableEnds : Except(es, p) \in CableEnds
  <1>1. ASSUME NEW ps \in PortLists PROVE Except(ps, p) \in PortLists
    <2> DEFINE places == {i \in DOMAIN ps : ps[i] # p}
    <2>1. ps \in Seq(PortName) /\ IsInjective(ps)
      BY ListsOfPorts
    <2>2. PICK n \in Nat : n = Len(ps) /\ DOMAIN ps = 1..n
      BY <2>1
    <2>3. Except(ps, p) = AtPlaces(ps, places) /\ places \in SUBSET (1..n)
      BY <2>2 DEF Except
    <2> HIDE DEF places
    <2>4. \A k \in 1..Cardinality(places) : Nth(places, k) \in 1..n
      BY <2>3, NthThere
    <2>5. \A k, l \in 1..Cardinality(places) : Nth(places, k) = Nth(places, l) => k = l
      BY <2>3, NthApart
    <2>6. \A k, l \in 1..Cardinality(places) : ps[Nth(places, k)] = ps[Nth(places, l)] => k = l
      BY <2>1, <2>2, <2>4, <2>5 DEF IsInjective
    <2>7. IsInjective(Except(ps, p))
      BY <2>3, <2>6 DEF AtPlaces, IsInjective
    <2>8. QED
      BY <2>1, <2>7, ExceptIs, ListsOfPorts
  <1>2. ASSUME NEW es \in CableEnds PROVE Except(es, p) \in CableEnds
    <2> DEFINE places == {i \in DOMAIN es : es[i] # p}
    <2>1. es \in Seq(PortName) /\ Len(es) <= 2
      BY ListsOfPorts
    <2>2. PICK n \in Nat : n = Len(es) /\ DOMAIN es = 1..n
      BY <2>1
    <2>3. Except(es, p) = AtPlaces(es, places) /\ places \in SUBSET (1..n)
      BY <2>2 DEF Except
    <2> HIDE DEF places
    <2>4. Cardinality(places) \in Nat /\ Cardinality(places) <= n
      <3>1. IsFiniteSet(1..n) /\ Cardinality(1..n) = n
        <4>1. 1 \in Int /\ n \in Int
          BY <2>2
        <4>2. IsFiniteSet(1..n) /\ Cardinality(1..n) = IF 1 > n THEN 0 ELSE n - 1 + 1
          BY <4>1, FS_Interval
        <4>3. QED
          BY <4>2
      <3>2. Cardinality(places) <= Cardinality(1..n)
        BY <2>3, <3>1, FS_Subset
      <3>3. Cardinality(places) \in Nat
        BY <2>2, <2>3, FewPlaces
      <3>4. QED
        BY <3>1, <3>2, <3>3
    <2>5. Len(Except(es, p)) = Cardinality(places)
      BY <2>3, <2>4 DEF AtPlaces
    <2>6. QED
      BY <2>1, <2>2, <2>4, <2>5, ExceptIs, ListsOfPorts
  <1>3. QED
    BY <1>1, <1>2

\* A name for another, a name more, and another name at one place.
LEMMA NamesFit ==
  /\ \A ps \in PortLists, p, q \in PortName : q \notin ToSet(ps) \ {p} => NewName(ps, p, q) \in PortLists
  /\ \A es \in CableEnds, p, q \in PortName : NewName(es, p, q) \in CableEnds
  /\ \A es \in CableEnds, p \in PortName : Len(es) < 2 => Append(es, p) \in CableEnds
  /\ \A es \in CableEnds, p \in PortName, k \in Int : [es EXCEPT ![k] = p] \in CableEnds
  <1>1. ASSUME NEW ps \in PortLists, NEW p \in PortName, NEW q \in PortName, q \notin ToSet(ps) \ {p}
        PROVE  NewName(ps, p, q) \in PortLists
    <2>1. ps \in Seq(PortName) /\ IsInjective(ps)
      BY ListsOfPorts
    <2>2. PICK n \in Nat : n = Len(ps) /\ DOMAIN ps = 1..n
      BY <2>1
    <2>3. \A i \in 1..n : ps[i] = q => ps[i] = p
      BY <1>1, <2>2 DEF ToSet
    <2>4. \A i, j \in 1..n : ps[i] = ps[j] => i = j
      BY <2>1, <2>2 DEF IsInjective
    <2>5. NewName(ps, p, q) = [i \in 1..n |-> IF ps[i] = p THEN q ELSE ps[i]]
      BY <2>2 DEF NewName
    <2>6. IsInjective(NewName(ps, p, q))
      BY <2>3, <2>4, <2>5 DEF IsInjective
    <2>7. QED
      BY <2>1, <2>6, NewNames, ListsOfPorts
  <1>2. ASSUME NEW es \in CableEnds, NEW p \in PortName, NEW q \in PortName PROVE NewName(es, p, q) \in CableEnds
    <2>1. es \in Seq(PortName) /\ Len(es) <= 2
      BY ListsOfPorts
    <2>2. NewName(es, p, q) \in Seq(PortName) /\ Len(NewName(es, p, q)) = Len(es)
      BY <2>1, NewNames
    <2>3. QED
      BY <2>1, <2>2, ListsOfPorts
  <1>3. ASSUME NEW es \in CableEnds, NEW p \in PortName, Len(es) < 2 PROVE Append(es, p) \in CableEnds
    <2>1. es \in Seq(PortName) /\ Len(es) <= 2
      BY ListsOfPorts
    <2>2. Append(es, p) \in Seq(PortName) /\ Len(Append(es, p)) = Len(es) + 1
      BY <2>1
    <2>3. Len(Append(es, p)) <= 2
      BY <1>3, <2>1, <2>2
    <2>4. QED
      BY <2>2, <2>3, ListsOfPorts
  <1>4. ASSUME NEW es \in CableEnds, NEW p \in PortName, NEW k \in Int PROVE [es EXCEPT ![k] = p] \in CableEnds
    <2>1. PICK m \in 0..2 : es \in [1..m -> PortName]
      BY DEF CableEnds, SeqOf
    <2>2. [es EXCEPT ![k] = p] \in [1..m -> PortName]
      BY <2>1
    <2>3. QED
      BY <2>2 DEF CableEnds, SeqOf
  <1>5. QED
    BY <1>1, <1>2, <1>3, <1>4

\* What an operation makes of a file has the types of one.
LEMMA RecordsFit ==
  ASSUME NEW f \in Records
  PROVE  /\ f \in WireFile
         /\ \A ps \in PortLists \cup {NoRecord} : WithPorts(f, ps) \in Records
         /\ \A w \in TuiCable, es \in CableEnds \cup {NoRecord} : WithEnds(f, w, es) \in Records
         /\ Exists(f, WireTuiDevice) => f.ports \in PortLists
         /\ \A w \in TuiCable : f.ends[w] \in CableEnds \cup {NoRecord} /\ (Exists(f, w) => f.ends[w] \in CableEnds)
  <1>1. /\ f = [ports |-> f.ports, ends |-> f.ends] /\ f.ports \in PortLists \cup {NoRecord}
        /\ f.ends \in [TuiCable -> CableEnds \cup {NoRecord}]
    BY DEF Records
  <1>2. PortLists \in SUBSET Seq(PortName) /\ CableEnds \in SUBSET Seq(PortName)
    BY ListsOfPorts
  <1>3. f \in WireFile
    <2>1. f.ends \in [TuiCable -> Seq(PortName) \cup {NoRecord}]
      BY <1>1, <1>2
    <2>2. QED
      BY <1>1, <1>2, <2>1 DEF WireFile
  <1>4. ASSUME NEW ps \in PortLists \cup {NoRecord} PROVE WithPorts(f, ps) \in Records
    <2>1. WithPorts(f, ps) = [ports |-> ps, ends |-> f.ends]
      BY <1>1 DEF WithPorts
    <2>2. QED
      BY <1>1, <2>1 DEF Records
  <1>5. ASSUME NEW w \in TuiCable, NEW es \in CableEnds \cup {NoRecord} PROVE WithEnds(f, w, es) \in Records
    <2>1. WithEnds(f, w, es) = [ports |-> f.ports, ends |-> [f.ends EXCEPT ![w] = es]]
      BY <1>1 DEF WithEnds
    <2>2. [f.ends EXCEPT ![w] = es] \in [TuiCable -> CableEnds \cup {NoRecord}]
      BY <1>1
    <2>3. QED
      BY <1>1, <2>1, <2>2 DEF Records
  <1>6. WireTuiDevice \notin TuiCable
    BY WireTuiAssumption DEF TuiCable
  <1>7. QED
    BY <1>1, <1>3, <1>4, <1>5, <1>6 DEF Exists

LEMMA OperationsFit ==
  ASSUME NEW f \in Records
  PROVE  /\ \A id : Exists(f, id) => Erased(f, id) \in Records
         /\ \A id \in Identifier : Added(f, id) \in Records
         /\ \A p, q \in PortName : MayRename(f, p, q) => RenamedPort(f, p, q) \in Records
  <1>1. << >> \in PortLists /\ << >> \in CableEnds
    <2>1. << >> \in Seq(PortName) /\ Len(<< >>) <= 2 /\ IsInjective(<< >>)
      BY DEF IsInjective
    <2>2. QED
      BY <2>1, ListsOfPorts
  <1>2. ASSUME NEW id, Exists(f, id) PROVE Erased(f, id) \in Records
    <2>1. CASE id = WireTuiDevice
      <3> DEFINE E == [w \in TuiCable |-> IF Exists(f, w) THEN << >> ELSE NoRecord]
      <3>1. E \in [TuiCable -> CableEnds \cup {NoRecord}]
        BY <1>1
      <3>2. Erased(f, id) = [ports |-> NoRecord, ends |-> E]
        BY <2>1 DEF Erased
      <3> HIDE DEF E
      <3>3. QED
        BY <3>1, <3>2 DEF Records
    <2>2. CASE id # WireTuiDevice
      <3>1. id \in TuiCable
        BY <1>2, <2>2 DEF Exists
      <3>2. QED
        BY <2>2, <3>1, RecordsFit DEF Erased
    <2>3. QED
      BY <2>1, <2>2
  <1>3. ASSUME NEW id \in Identifier PROVE Added(f, id) \in Records
    BY <1>1, RecordsFit DEF Added, Identifier
  <1>4. ASSUME NEW p \in PortName, NEW q \in PortName, MayRename(f, p, q) PROVE RenamedPort(f, p, q) \in Records
    <2> DEFINE E == [w \in TuiCable |-> IF Exists(f, w) THEN NewName(f.ends[w], p, q) ELSE NoRecord]
    <2>1. f.ports \in PortLists /\ q \notin ToSet(f.ports) \ {p}
      BY <1>4, RecordsFit DEF MayRename
    <2>2. NewName(f.ports, p, q) \in PortLists
      BY <2>1, NamesFit
    <2>3. \A w \in TuiCable : Exists(f, w) => NewName(f.ends[w], p, q) \in CableEnds
      BY RecordsFit, NamesFit
    <2>4. E \in [TuiCable -> CableEnds \cup {NoRecord}]
      BY <2>3
    <2>5. RenamedPort(f, p, q) = [ports |-> NewName(f.ports, p, q), ends |-> E]
      BY DEF RenamedPort
    <2> HIDE DEF E
    <2>6. QED
      BY <2>2, <2>4, <2>5 DEF Records
  <1>5. QED
    BY <1>2, <1>3, <1>4

-----------------------------------------------------------------------------
(* LANWIRE: types *)

PortPlace == -1..Cardinality(PortName)

FittingWindow == [id : Identifier \cup {NoElementOpen}, focus : {"view", "menu", "editor", "actions"},
                  port : PortPlace, side : Int, menu : Nat, scope : {"general", "port"}, field : Nat,
                  buffer : BOOLEAN, option : Option, action : Nat,
                  target : {NoText, ""} \cup PortName \cup TuiCable, browse : BOOLEAN]
FittingVisit == [id : Identifier, port : PortPlace, side : Int]

FilesFit == idf \in Records /\ records \in Records
RowFits == list.row = 0 \/ list.row < Len(Listed(records, list.only))
WindowFits == open \in FittingWindow /\ open.menu \in 0..6
StackFits == stack \in Seq(FittingVisit) /\ Len(stack) <= MaxDepth
UtilityFits == utility.id # NoElementOpen <=> utility.window = "delete"

\* What the types of LANWIRE add to WireInv: no list names a port twice, the row is one of the list, and the
\* ports of the window and of the windows before it are places of a list, or before its first.
WireFits == FilesFit /\ RowFits /\ WindowFits /\ StackFits /\ UtilityFits /\ running \in {"yes", "ended", "error", "index"}

LEMMA PlacesOfPorts ==
  /\ Cardinality(PortName) \in Nat /\ PortPlace \in SUBSET Int /\ 0 \in PortPlace /\ -1 \in PortPlace
  /\ \A ps \in PortLists : \A k \in DOMAIN ps : k - 1 \in PortPlace
  /\ \A ps \in PortLists, m \in Int : m >= -1 /\ m <= Len(ps) - 1 => m \in PortPlace
  <1>1. Cardinality(PortName) \in Nat
    BY WireTuiAssumption, FS_CardinalityType
  <1>2. ASSUME NEW ps \in PortLists
        PROVE  /\ \A k \in DOMAIN ps : k - 1 \in PortPlace
               /\ \A m \in Int : m >= -1 /\ m <= Len(ps) - 1 => m \in PortPlace
    <2>1. Len(ps) \in Nat /\ Len(ps) <= Cardinality(PortName) /\ DOMAIN ps = 1..Len(ps)
      BY ListsOfPorts
    <2>2. QED
      BY <1>1, <2>1 DEF PortPlace
  <1>3. PortPlace \in SUBSET Int /\ 0 \in PortPlace /\ -1 \in PortPlace
    BY <1>1 DEF PortPlace
  <1>4. QED
    BY <1>1, <1>2, <1>3

\* Windows to which another may be changed.
LEMMA WindowsFit ==
  ASSUME NEW from \in FittingWindow
  PROVE  /\ \A t \in {NoText, ""} \cup PortName \cup TuiCable : [from EXCEPT !.target = t] \in FittingWindow
         /\ \A area \in {"view", "menu", "editor", "actions"} : [from EXCEPT !.focus = area] \in FittingWindow
         /\ \A b \in BOOLEAN : /\ [from EXCEPT !.browse = b] \in FittingWindow
                               /\ [from EXCEPT !.buffer = b] \in FittingWindow
         /\ \A n \in Nat : /\ [from EXCEPT !.action = n] \in FittingWindow
                           /\ [from EXCEPT !.menu = n] \in FittingWindow
                           /\ [from EXCEPT !.field = n] \in FittingWindow
         /\ \A m \in Int : [from EXCEPT !.side = m] \in FittingWindow
         /\ \A k \in PortPlace : [from EXCEPT !.port = k] \in FittingWindow
         /\ \A s \in {"general", "port"} : [from EXCEPT !.scope = s] \in FittingWindow
         /\ \A id \in Identifier \cup {NoElementOpen} : [from EXCEPT !.id = id] \in FittingWindow
         /\ \A o \in Option : [from EXCEPT !.option = o] \in FittingWindow
  <1>1. \A t \in {NoText, ""} \cup PortName \cup TuiCable : [from EXCEPT !.target = t] \in FittingWindow
    BY DEF FittingWindow
  <1>2. \A area \in {"view", "menu", "editor", "actions"} : [from EXCEPT !.focus = area] \in FittingWindow
    BY DEF FittingWindow
  <1>3. \A b \in BOOLEAN : /\ [from EXCEPT !.browse = b] \in FittingWindow
                           /\ [from EXCEPT !.buffer = b] \in FittingWindow
    BY DEF FittingWindow
  <1>4. \A n \in Nat : /\ [from EXCEPT !.action = n] \in FittingWindow
                       /\ [from EXCEPT !.menu = n] \in FittingWindow
                       /\ [from EXCEPT !.field = n] \in FittingWindow
    BY DEF FittingWindow
  <1>5. \A m \in Int : [from EXCEPT !.side = m] \in FittingWindow
    BY DEF FittingWindow
  <1>6. \A k \in PortPlace : [from EXCEPT !.port = k] \in FittingWindow
    BY DEF FittingWindow
  <1>7. \A s \in {"general", "port"} : [from EXCEPT !.scope = s] \in FittingWindow
    BY DEF FittingWindow
  <1>8. \A id \in Identifier \cup {NoElementOpen} : [from EXCEPT !.id = id] \in FittingWindow
    BY DEF FittingWindow
  <1>10. \A o \in Option : [from EXCEPT !.option = o] \in FittingWindow
    BY DEF FittingWindow
  <1>9. QED
    BY <1>1, <1>2, <1>3, <1>4, <1>5, <1>6, <1>7, <1>8, <1>10

LEMMA DrawnFits ==
  ASSUME NEW to \in FittingWindow, Draws(to)
  PROVE  WindowFits'
  <1> DEFINE s == IF to.focus = "editor" THEN to.scope ELSE "general"
             n == IF to.focus = "editor" THEN to.field ELSE 0
             o == IF to.focus = "editor" THEN to.option ELSE NoOption
             a == IF to.focus = "actions" THEN to.action ELSE 0
             k == IF to.focus = "view" THEN 0 ELSE to.menu
             base == [to EXCEPT !.scope = s, !.field = n, !.option = o, !.action = a, !.menu = k]
             count == IF to.id = WireTuiDevice /\ Exists(records', WireTuiDevice)
                         /\ (to.port < 0 \/ records'.ports = << >>
                             \/ CableAt(records', records'.ports[Min({to.port, Len(records'.ports) - 1}) + 1])
                                  = NoElementOpen)
                      THEN 4 ELSE 7
             m == Min({base.menu, count - 1})
  <1>1. /\ to.scope \in {"general", "port"} /\ to.field \in Nat /\ to.action \in Nat /\ to.menu \in Nat
        /\ to.option \in Option
    BY DEF FittingWindow
  <1>2. s \in {"general", "port"}
    BY <1>1
  <1>3. n \in Nat /\ o \in Option
    BY <1>1 DEF Option
  <1>4. a \in Nat
    BY <1>1
  <1>5. k \in Nat
    BY <1>1
  <1>6. open' = [base EXCEPT !.menu = m]
    BY DEF Draws, Settled
  <1>7. count \in {4, 7}
    OBVIOUS
  <1> HIDE DEF s, n, o, a, k, count
  <1>8. base \in FittingWindow
    <2>1. [to EXCEPT !.scope = s] \in FittingWindow
      BY <1>2, WindowsFit
    <2>2. [[to EXCEPT !.scope = s] EXCEPT !.field = n] \in FittingWindow
      BY <1>3, <2>1, WindowsFit
    <2> DEFINE fields == [[to EXCEPT !.scope = s] EXCEPT !.field = n]
    <2>3. [fields EXCEPT !.option = o] \in FittingWindow
      BY <1>3, <2>2, WindowsFit
    <2>4. [[fields EXCEPT !.option = o] EXCEPT !.action = a] \in FittingWindow
      BY <1>4, <2>3, WindowsFit
    <2>6. [[[fields EXCEPT !.option = o] EXCEPT !.action = a] EXCEPT !.menu = k] \in FittingWindow
      BY <1>5, <2>4, WindowsFit
    <2>5. QED
      BY <2>6
  <1> HIDE DEF base
  <1>9. base.menu \in Nat
    BY <1>8 DEF FittingWindow
  <1>10. count - 1 \in {3, 6}
    BY <1>7
  <1>11. m \in 0..6
    <2>1. \A x \in Nat, y \in {3, 6} : Min({x, y}) = IF x <= y THEN x ELSE y
      BY OfTwo
    <2>2. m = IF base.menu <= count - 1 THEN base.menu ELSE count - 1
      BY <1>9, <1>10, <2>1
    <2> HIDE DEF m
    <2>3. QED
      BY <1>9, <1>10, <2>2
  <1> HIDE DEF m
  <1>12. open' \in FittingWindow
    <2>1. m \in Nat
      BY <1>11
    <2>2. QED
      BY <1>6, <1>8, <2>1, WindowsFit
  <1>13. open'.menu = m
    BY <1>6, <1>8 DEF FittingWindow
  <1>14. QED
    BY <1>11, <1>12, <1>13 DEF WindowFits

\* The row stays one of the list.
LEMMA RowFollows ==
  ASSUME NEW row \in Nat, NEW only, records' = idf', list' = Follows(idf', only, row)
  PROVE  RowFits'
  <1> DEFINE after == Listed(idf', only)
             found == {i \in DOMAIN after : after[i] = IdAt(row)}
             at == IF found # {} THEN Min(found) - 1 ELSE Min({row, Max({0, Len(after) - 1})})
  <1>1. list' = [only |-> only, row |-> at]
    BY DEF Follows
  <1>2. Len(after) \in Nat /\ DOMAIN after = 1..Len(after)
    BY ListedThere
  <1>3. at = 0 \/ at < Len(after)
    <2>1. CASE found # {}
      <3>1. found \in SUBSET Nat /\ \A i \in found : i >= 1 /\ i <= Len(after)
        BY <1>2
      <3>2. Min(found) \in found
        BY <2>1, <3>1, LeastOf
      <3>3. Min(found) \in Nat /\ Min(found) <= Len(after)
        BY <3>1, <3>2
      <3>4. at = Min(found) - 1
        BY <2>1
      <3> HIDE DEF at, found
      <3>5. QED
        BY <1>2, <3>3, <3>4
    <2>2. CASE found = {}
      <3> HIDE DEF after
      <3>1. PICK n \in Nat : n = Len(after)
        BY <1>2
      <3>2. at = Min({row, Max({0, n - 1})})
        BY <2>2, <3>1
      <3> HIDE DEF at, found
      <3>3. 0 \in Int /\ n - 1 \in Int
        BY <3>1
      <3>4. Max({0, n - 1}) = IF 0 <= n - 1 THEN n - 1 ELSE 0
        BY <3>3, OfTwo, Zenon
      <3>5. PICK x \in Int : x = Max({0, n - 1})
        BY <3>3, <3>4
      <3>6. Min({row, x}) = IF row <= x THEN row ELSE x
        BY OfTwo
      <3>7. QED
        BY <3>1, <3>2, <3>4, <3>5, <3>6
    <2>3. QED
      BY <2>1, <2>2
  <1> HIDE DEF at, found
  <1>4. list'.row = at /\ list'.only = only
    BY <1>1
  <1>5. QED
    BY <1>3, <1>4, records' = idf' DEF RowFits

\* What a move may take it to is 0, or one of n.
LEMMA MovesWithin ==
  ASSUME NEW n \in Int, NEW from \in Int, NEW i \in MoveRange(n, from)
  PROVE  i \in Nat /\ (i = 0 \/ i < n)
  <1>1. i \in Nat
    BY MoveRangeIs
  <1>2. PICK x \in Int : i = Max({0, Min({n - 1, x})})
    <2>1. from - 1 \in Int /\ from + 1 \in Int
      OBVIOUS
    <2>2. QED
      BY <2>1 DEF MoveRange
  <1>3. Min({n - 1, x}) = IF n - 1 <= x THEN n - 1 ELSE x
    <2>1. n - 1 \in Int
      OBVIOUS
    <2>2. QED
      BY <2>1, OfTwo
  <1>4. PICK y \in Int : y = Min({n - 1, x}) /\ y <= n - 1
    BY <1>2, <1>3
  <1>5. i = IF 0 <= y THEN y ELSE 0
    <2>1. 0 \in Int
      OBVIOUS
    <2>2. Max({0, y}) = IF 0 <= y THEN y ELSE 0
      BY <1>4, <2>1, OfTwo, Zenon
    <2>3. QED
      BY <1>2, <1>4, <2>2
  <1>6. QED
    BY <1>1, <1>4, <1>5

\* The window alone is drawn again.
LEMMA TurnFits == ASSUME WireFits, NEW to \in FittingWindow, Turns(to) PROVE WireFits'
  <1>1. UNCHANGED <<idf, records, list, stack, utility, running>> /\ Draws(to)
    BY DEF Turns, Stays
  <1>2. WindowFits'
    BY <1>1, DrawnFits
  <1>3. FilesFit' /\ RowFits' /\ StackFits' /\ UtilityFits' /\ running' \in {"yes", "ended", "error", "index"}
    BY <1>1 DEF WireFits, FilesFit, RowFits, StackFits, UtilityFits
  <1>4. QED
    BY <1>2, <1>3 DEF WireFits

\* What is in memory is read again.
LEMMA WriteFits ==
  ASSUME WireInv, WireFits, NEW f \in Records, NEW to \in FittingWindow, Writes(f, to)
  PROVE  WireFits'
  <1>1. /\ UNCHANGED <<stack, utility, running>> /\ Draws(to) /\ idf' = f /\ records' = idf'
        /\ list' = Follows(idf', list.only, list.row)
    BY DEF Writes, TakesAll
  <1>2. list.row \in Nat
    BY DEF WireInv, WireTypes
  <1>3. WindowFits'
    BY <1>1, DrawnFits
  <1>4. RowFits'
    BY <1>1, <1>2, RowFollows
  <1>5. FilesFit'
    BY <1>1 DEF FilesFit
  <1>6. StackFits' /\ UtilityFits' /\ running' \in {"yes", "ended", "error", "index"}
    BY <1>1 DEF WireFits, StackFits, UtilityFits
  <1>7. QED
    BY <1>3, <1>4, <1>5, <1>6 DEF WireFits

LEMMA ClosedFits ==
  /\ Closed \in FittingWindow /\ Closed.menu = 0
  /\ << >> \in Seq(FittingVisit) /\ Len(<< >>) <= MaxDepth
  /\ AllDevices.row = 0
  /\ NoUtility.id = NoElementOpen /\ NoUtility.window = "none"
  <1>1. 0 \in PortPlace
    BY PlacesOfPorts
  <1>2. Closed \in FittingWindow /\ Closed.menu = 0
    BY <1>1 DEF Closed, FittingWindow, Option
  <1>3. << >> \in Seq(FittingVisit) /\ Len(<< >>) = 0 /\ MaxDepth \in Nat
    BY WireTuiAssumption
  <1>4. QED
    BY <1>2, <1>3 DEF AllDevices, NoUtility

LEMMA StopFits == ASSUME WireFits, NEW how \in {"ended", "error", "index"}, Stops(how) PROVE WireFits'
  <1>1. /\ idf' = idf /\ records' = idf /\ running' = how /\ open' = Closed /\ stack' = << >>
        /\ list' = AllDevices /\ utility' = NoUtility
    BY DEF Stops
  <1>2. FilesFit' /\ RowFits' /\ UtilityFits'
    BY <1>1, ClosedFits DEF WireFits, FilesFit, RowFits, UtilityFits
  <1>3. WindowFits' /\ StackFits'
    BY <1>1, ClosedFits DEF WindowFits, StackFits
  <1>4. QED
    BY <1>1, <1>2, <1>3 DEF WireFits

LEMMA GoFits ==
  ASSUME InWindow, WireFits, NEW id \in Identifier, NEW port \in PortPlace, NEW side \in Int, GoesTo(id, port, side)
  PROVE  WireFits'
  <1> DEFINE to == [open EXCEPT !.id = id, !.focus = "view", !.port = port, !.side = side]
             here == [id |-> open.id, port |-> open.port, side |-> open.side]
  <1>1. /\ UNCHANGED <<idf, records, list, utility, running>> /\ Draws(to)
        /\ stack' = Append(stack, here) /\ Len(stack) < MaxDepth
    BY DEF GoesTo, Stays
  <1>2. open \in FittingWindow /\ stack \in Seq(FittingVisit) /\ MaxDepth \in Nat
    BY WireTuiAssumption DEF WireFits, WindowFits, StackFits
  <1>3. to \in FittingWindow
    BY <1>2 DEF FittingWindow
  <1>4. here \in FittingVisit
    BY <1>2 DEF FittingWindow, FittingVisit, InWindow, IsOpen
  <1> HIDE DEF to, here
  <1>5. StackFits'
    <2>1. stack' \in Seq(FittingVisit) /\ Len(stack') = Len(stack) + 1 /\ Len(stack) \in Nat
      BY <1>1, <1>2, <1>4
    <2>2. QED
      BY <1>1, <1>2, <2>1 DEF StackFits
  <1>6. WindowFits'
    BY <1>1, <1>3, DrawnFits
  <1>7. QED
    BY <1>1, <1>5, <1>6 DEF WireFits, FilesFit, RowFits, UtilityFits

LEMMA BackFits == ASSUME InWindow, WireFits, NavigateBack PROVE WireFits'
  <1> DEFINE last == Last(stack)
             to == [open EXCEPT !.id = last.id, !.port = last.port, !.side = last.side,
                                !.focus = "view", !.buffer = FALSE]
  <1>1. /\ UNCHANGED <<idf, records, list, utility, running>> /\ Draws(to)
        /\ stack' = Front(stack) /\ stack # << >>
    BY DEF NavigateBack, Stays
  <1>2. open \in FittingWindow /\ stack \in Seq(FittingVisit) /\ Len(stack) <= MaxDepth /\ MaxDepth \in Nat
    BY WireTuiAssumption DEF WireFits, WindowFits, StackFits
  <1>3. last \in FittingVisit /\ Front(stack) \in Seq(FittingVisit) /\ Len(Front(stack)) <= MaxDepth
    <2>1. Len(stack) \in Nat /\ Len(stack) >= 1
      BY <1>1, <1>2
    <2>2. last = stack[Len(stack)] /\ last \in FittingVisit
      BY <1>2, <2>1 DEF Last
    <2>3. PICK n \in Nat : n = Len(stack) - 1
      BY <2>1
    <2>4. SubSeq(stack, 1, n) \in Seq(FittingVisit) /\ Len(SubSeq(stack, 1, n)) = n
      <3>1. 1 \in 1..Len(stack) + 1 /\ n \in 0..Len(stack)
        BY <2>1, <2>3
      <3>2. /\ SubSeq(stack, 1, n) \in Seq(FittingVisit)
            /\ Len(SubSeq(stack, 1, n)) = IF 1 <= n THEN n - 1 + 1 ELSE 0
        BY <1>2, <3>1, SubSeqProperties
      <3>3. QED
        BY <3>2
    <2>5. QED
      BY <1>2, <2>1, <2>2, <2>3, <2>4 DEF Front
  <1> HIDE DEF last
  <1>4. to \in FittingWindow
    BY <1>2, <1>3 DEF FittingWindow, FittingVisit
  <1> HIDE DEF to
  <1>5. WindowFits'
    BY <1>1, <1>4, DrawnFits
  <1>6. StackFits'
    BY <1>1, <1>3 DEF StackFits
  <1>7. QED
    BY <1>1, <1>5, <1>6 DEF WireFits, FilesFit, RowFits, UtilityFits

LEMMA FollowFits ==
  ASSUME InWindow, WireFits, NEW to \in FittingWindow, FollowConnection(to)
  PROVE  WireFits'
  <1>1. CASE HasPort /\ SelectedCable # NoElementOpen /\ GoesTo(SelectedCable, 0, OtherSide(SelectedCable))
    <2>1. SelectedCable \in Identifier
      BY <1>1, CableThere DEF SelectedCable, Identifier
    <2>2. OtherSide(SelectedCable) \in Int
      BY DEF OtherSide
    <2>3. 0 \in PortPlace
      BY PlacesOfPorts
    <2>4. QED
      BY <1>1, <2>1, <2>2, <2>3, GoFits
  <1>2. CASE /\ IsCableDetail /\ SideIsUsed /\ Exists(records, WireTuiDevice)
             /\ LET at == records.ends[open.id][open.side + 1]
                    found == {i \in DOMAIN records.ports : records.ports[i] = at}
                IN  GoesTo(WireTuiDevice, IF found = {} THEN 0 ELSE Min(found) - 1, 0)
    <2> DEFINE found == {i \in DOMAIN records.ports : records.ports[i] = records.ends[open.id][open.side + 1]}
               k == IF found = {} THEN 0 ELSE Min(found) - 1
    <2>1. records.ports \in PortLists
      BY <1>2, RecordsFit DEF WireFits, FilesFit
    <2>2. found \in SUBSET Nat /\ found \in SUBSET DOMAIN records.ports
      BY <2>1, PortListIs
    <2>3. k \in PortPlace
      <3>1. CASE found # {}
        <4>1. Min(found) \in found
          BY <2>2, <3>1, LeastOf
        <4> HIDE DEF found
        <4>2. Min(found) - 1 \in PortPlace
          BY <2>1, <2>2, <4>1, PlacesOfPorts
        <4>3. QED
          BY <3>1, <4>2
      <3>2. QED
        BY <3>1, PlacesOfPorts
    <2>4. GoesTo(WireTuiDevice, k, 0) /\ WireTuiDevice \in Identifier /\ 0 \in Int
      BY <1>2 DEF Identifier
    <2> HIDE DEF k
    <2>5. QED
      BY <2>3, <2>4, GoFits
  <1>3. CASE Turns(to)
    BY <1>3, TurnFits
  <1>4. QED
    BY <1>1, <1>2, <1>3 DEF FollowConnection

-----------------------------------------------------------------------------
(* LANWIRE: the types stay through what edits an element *)

\* An element that is open, and what of it is selected.
LEMMA SelectedFits ==
  ASSUME InWindow, WireFits
  PROVE  /\ idf \in Records /\ records \in Records /\ open \in FittingWindow /\ WireInv /\ WireTypes
         /\ IsDeviceDetail => records.ports \in PortLists /\ Ports = records.ports
         /\ Ports \in PortLists
         /\ HasPort => IsDeviceDetail /\ SelectedPort \in PortName
         /\ SelectedCable # NoElementOpen => SelectedCable \in TuiCable /\ HasPort
                                             /\ records.ends[SelectedCable] \in CableEnds
         /\ IsCableDetail => open.id \in TuiCable /\ records.ends[open.id] \in CableEnds
         /\ \A w \in TuiCable : Exists(records, w) => records.ends[w] \in CableEnds
  <1>1. idf \in Records /\ records \in Records /\ open \in FittingWindow /\ WireInv /\ WireTypes
    BY DEF InWindow, WireInv, WireFits, FilesFit, WindowFits
  <1>2. IsDeviceDetail => records.ports \in PortLists /\ Ports = records.ports
    BY <1>1, RecordsFit, PortThere DEF IsDeviceDetail, Shown
  <1>3. Ports \in PortLists
    <2>1. << >> \in Seq(PortName) /\ IsInjective(<< >>)
      BY DEF IsInjective
    <2>2. << >> \in PortLists
      BY <2>1, ListsOfPorts
    <2>3. QED
      BY <1>2, <2>2 DEF Ports
  <1>4. HasPort => IsDeviceDetail /\ SelectedPort \in PortName
    BY <1>1, PortThere
  <1>5. \A w \in TuiCable : Exists(records, w) => records.ends[w] \in CableEnds
    BY <1>1, RecordsFit
  <1>6. SelectedCable # NoElementOpen => SelectedCable \in TuiCable /\ HasPort /\ Exists(records, SelectedCable)
    BY FileOK
  <1>7. IsCableDetail => open.id \in TuiCable /\ Exists(records, open.id)
    BY DEF IsCableDetail, Shown
  <1>8. QED
    BY <1>1, <1>2, <1>3, <1>4, <1>5, <1>6, <1>7

LEMMA SaveDataFits ==
  ASSUME InWindow, WireFits, NEW to \in FittingWindow, SavesData(to)
  PROVE  WireFits'
  <1>1. idf \in Records /\ records \in Records /\ open \in FittingWindow /\ WireInv
    BY SelectedFits
  <1>2. CASE Turns(to)
    BY <1>2, TurnFits
  <1>3. CASE Writes(WithPorts(idf, records.ports), to)
    <2>1. records.ports \in PortLists \cup {NoRecord}
      BY <1>1 DEF Records
    <2>2. WithPorts(idf, records.ports) \in Records
      BY <1>1, <2>1, RecordsFit
    <2>3. QED
      BY <1>1, <1>3, <2>2, WriteFits
  <1>4. CASE open.id # WireTuiDevice /\ Writes(WithEnds(idf, open.id, records.ends[open.id]), to)
    <2>1. open.id \in TuiCable
      BY <1>1, <1>4 DEF InWindow, IsOpen, FittingWindow, Identifier
    <2>2. WithEnds(idf, open.id, records.ends[open.id]) \in Records
      BY <1>1, <2>1, RecordsFit
    <2>3. QED
      BY <1>1, <1>4, <2>2, WriteFits
  <1>5. QED
    BY <1>2, <1>3, <1>4 DEF SavesData

LEMMA SavePortsFits ==
  ASSUME InWindow, WireFits, NEW to \in FittingWindow, SavesPorts(to)
  PROVE  WireFits'
  <1>1. CASE Turns(to)
    BY <1>1, TurnFits
  <1>2. ASSUME NEW ps \in PortLists, Writes(WithPorts(idf, ps), to) PROVE WireFits'
    <2>1. WithPorts(idf, ps) \in Records /\ WireInv
      BY SelectedFits, RecordsFit
    <2>2. QED
      BY <1>2, <2>1, WriteFits
  <1>3. QED
    BY <1>1, <1>2 DEF SavesPorts

LEMMA SaveEndFits ==
  ASSUME InWindow, WireFits, NEW to \in FittingWindow, SavesEnd(to), IsCableDetail
  PROVE  WireFits'
  <1>1. CASE Turns(to)
    BY <1>1, TurnFits
  <1>2. ASSUME NEW q \in PortName,
               Writes(WithEnds(idf, open.id, [records.ends[open.id] EXCEPT ![open.side + 1] = q]), to)
        PROVE  WireFits'
    <2>1. open.side \in Int
      BY SelectedFits DEF FittingWindow
    <2>2. open.side + 1 \in Int
      BY <2>1
    <2>3. [records.ends[open.id] EXCEPT ![open.side + 1] = q] \in CableEnds
      BY <2>2, SelectedFits, NamesFit
    <2>4. WithEnds(idf, open.id, [records.ends[open.id] EXCEPT ![open.side + 1] = q]) \in Records
      BY <2>3, SelectedFits, RecordsFit
    <2>5. QED
      BY <1>2, <2>4, SelectedFits, WriteFits
  <1>3. QED
    BY <1>1, <1>2 DEF SavesEnd

LEMMA SaveNameFits ==
  ASSUME InWindow, WireFits, NEW to \in FittingWindow, SavesName(to), HasPort
  PROVE  WireFits'
  <1>1. CASE Turns(to)
    BY <1>1, TurnFits
  <1>2. ASSUME NEW q \in PortName, MayRename(idf, SelectedPort, q),
               LET new == RenamedPort(idf, SelectedPort, q)
               IN  Writes(new, [to EXCEPT !.port = (CHOOSE i \in DOMAIN new.ports : new.ports[i] = q) - 1])
        PROVE  WireFits'
    <2> DEFINE new == RenamedPort(idf, SelectedPort, q)
               k == CHOOSE i \in DOMAIN new.ports : new.ports[i] = q
               then == [to EXCEPT !.port = k - 1]
    <2>1. idf \in Records /\ SelectedPort \in PortName /\ WireInv /\ idf \in WireFile
      BY SelectedFits DEF WireTypes
    <2>2. new \in Records
      BY <1>2, <2>1, OperationsFit
    <2>3. Exists(idf, WireTuiDevice) /\ idf.ports \in Seq(PortName) /\ SelectedPort \in ToSet(idf.ports)
      BY <1>2, <2>1, FileIs DEF MayRename, Exists
    <2>4. new.ports = NewName(idf.ports, SelectedPort, q)
      BY <2>1, <2>3, RenamedIs
    <2>5. \E i \in DOMAIN new.ports : new.ports[i] = q
      <3>1. PICK i \in 1..Len(idf.ports) : idf.ports[i] = SelectedPort
        BY <2>3 DEF ToSet
      <3>2. /\ NewName(idf.ports, SelectedPort, q) \in Seq(PortName)
            /\ Len(NewName(idf.ports, SelectedPort, q)) = Len(idf.ports)
            /\ NewName(idf.ports, SelectedPort, q)[i] = q
        BY <2>3, <3>1, NewNames
      <3>3. QED
        BY <2>4, <3>1, <3>2
    <2>6. new.ports \in PortLists
      <3>1. new.ports \in Seq(PortName)
        BY <2>3, <2>4, NewNames
      <3>2. new.ports \in PortLists \cup {NoRecord}
        BY <2>2 DEF Records
      <3>3. QED
        BY <3>1, <3>2, WireTuiAssumption
    <2>7. k \in DOMAIN new.ports
      BY <2>5
    <2>8. Writes(new, then)
      BY <1>2
    <2> HIDE DEF new, k
    <2>9. k - 1 \in PortPlace
      BY <2>6, <2>7, PlacesOfPorts
    <2>10. then \in FittingWindow
      BY <2>9, WindowsFit
    <2> HIDE DEF then
    <2>11. QED
      BY <2>1, <2>2, <2>8, <2>10, WriteFits
  <1>3. QED
    BY <1>1, <1>2 DEF SavesName

LEMMA SavePositionFits ==
  ASSUME InWindow, WireFits, NEW to \in FittingWindow, SavesPosition(to)
  PROVE  WireFits'
  <1>1. CASE Turns(to)
    BY <1>1, TurnFits
  <1>2. ASSUME NEW ps \in PortLists, SelectedPort \in ToSet(ps),
               Writes(WithPorts(idf, ps),
                      [to EXCEPT !.port = (CHOOSE i \in DOMAIN ps : ps[i] = SelectedPort) - 1])
        PROVE  WireFits'
    <2> DEFINE k == CHOOSE i \in DOMAIN ps : ps[i] = SelectedPort
               then == [to EXCEPT !.port = k - 1]
    <2>1. \E i \in DOMAIN ps : ps[i] = SelectedPort
      BY <1>2 DEF ToSet
    <2>2. k \in DOMAIN ps
      BY <2>1
    <2>3. Writes(WithPorts(idf, ps), then)
      BY <1>2
    <2> HIDE DEF k
    <2>4. k - 1 \in PortPlace
      BY <2>2, PlacesOfPorts
    <2>5. then \in FittingWindow
      BY <2>4, WindowsFit
    <2> HIDE DEF then
    <2>6. WithPorts(idf, ps) \in Records /\ WireInv
      BY SelectedFits, RecordsFit
    <2>7. QED
      BY <2>3, <2>5, <2>6, WriteFits
  <1>3. QED
    BY <1>1, <1>2 DEF SavesPosition

LEMMA DeletePortFits ==
  ASSUME InWindow, WireFits, NEW stays \in FittingWindow, stays.port = open.port, DeletePort(stays)
  PROVE  WireFits'
  <1> DEFINE ps == Except(records.ports, SelectedPort)
             k == Min({open.port, Len(ps) - 1})
             to == [stays EXCEPT !.port = k, !.focus = "menu", !.menu = 0]
  <1>1. open \in FittingWindow /\ idf \in Records /\ WireInv
    BY SelectedFits
  <1>2. CASE Turns(stays)
    BY <1>2, TurnFits
  <1>3. CASE ~Turns(stays)
    <2>1. HasPort /\ Writes(WithPorts(idf, ps), to)
      BY <1>3 DEF DeletePort
    <2>2. records.ports \in PortLists
      BY <2>1, SelectedFits
    <2>3. ps \in PortLists
      BY <2>2, ExceptFits
    <2>4. open.port \in Int /\ open.port >= 0
      BY <1>1, <2>1, PlacesOfPorts DEF FittingWindow, HasPort
    <2> HIDE DEF ps
    <2>5. Len(ps) \in Nat
      BY <2>3, ListsOfPorts
    <2>6. k \in Int /\ k >= -1 /\ k <= Len(ps) - 1
      <3>1. Len(ps) - 1 \in Int
        BY <2>5
      <3>2. k = IF open.port <= Len(ps) - 1 THEN open.port ELSE Len(ps) - 1
        BY <2>4, <3>1, OfTwo
      <3> HIDE DEF k
      <3>3. QED
        BY <2>4, <2>5, <3>1, <3>2
    <2>7. k \in PortPlace
      BY <2>3, <2>6, PlacesOfPorts
    <2> HIDE DEF k
    <2>8. to \in FittingWindow
      <3>1. [stays EXCEPT !.port = k] \in FittingWindow
        BY <2>7, WindowsFit
      <3>2. [[stays EXCEPT !.port = k] EXCEPT !.focus = "menu"] \in FittingWindow
        BY <3>1, WindowsFit
      <3>3. 0 \in Nat
        OBVIOUS
      <3>4. [[[stays EXCEPT !.port = k] EXCEPT !.focus = "menu"] EXCEPT !.menu = 0] \in FittingWindow
        BY <3>2, <3>3, WindowsFit
      <3>5. QED
        BY <3>4
    <2>9. WithPorts(idf, ps) \in Records
      BY <1>1, <2>3, RecordsFit
    <2> HIDE DEF to
    <2>10. QED
      BY <1>1, <2>1, <2>8, <2>9, WriteFits
  <1>4. QED
    BY <1>2, <1>3

LEMMA SaveFieldFits == ASSUME InWindow, WireFits, ~NoField, SaveField PROVE WireFits'
  <1> DEFINE to == [open EXCEPT !.buffer = FALSE, !.option = NoOption]
  <1>1. to \in FittingWindow
    <2>1. [open EXCEPT !.buffer = FALSE] \in FittingWindow
      BY SelectedFits, WindowsFit
    <2>2. NoOption \in Option
      BY DEF Option
    <2>3. [[open EXCEPT !.buffer = FALSE] EXCEPT !.option = NoOption] \in FittingWindow
      BY <2>1, <2>2, WindowsFit
    <2>4. QED
      BY <2>3
  <1>9. to.port = open.port
    BY SelectedFits DEF FittingWindow
  <1> HIDE DEF to
  <1>2. CASE Field \in {"data", "lanip"}
    BY <1>1, <1>2, SaveDataFits DEF SaveField, to
  <1>3. CASE Field = "ports"
    BY <1>1, <1>3, SavePortsFits DEF SaveField, to
  <1>4. CASE Field = "end"
    BY <1>1, <1>4, FieldIs, SaveEndFits DEF SaveField, to
  <1>5. CASE Field = "name"
    BY <1>1, <1>5, FieldIs, SaveNameFits DEF SaveField, to
  <1>6. CASE Field = "position"
    BY <1>1, <1>6, SavePositionFits DEF SaveField, to
  <1>7. CASE Field = "remove"
    BY <1>1, <1>7, <1>9, DeletePortFits DEF SaveField, to
  <1>8. QED
    BY <1>2, <1>3, <1>4, <1>5, <1>6, <1>7, FieldIs

LEMMA OptionFitsKey == ASSUME InWindow, WireFits, ~NoField, OptionKey PROVE WireFits'
  <1>1. open \in FittingWindow
    BY SelectedFits
  <1>2. ASSUME NEW i \in Nat, Turns([open EXCEPT !.option = i]) PROVE WireFits'
    <2>1. [open EXCEPT !.option = i] \in FittingWindow
      BY <1>1, WindowsFit DEF Option
    <2>2. QED
      BY <1>2, <2>1, TurnFits
  <1>3. CASE Turns([open EXCEPT !.option = 0])
    <2>1. 0 \in Nat
      OBVIOUS
    <2>2. QED
      BY <1>2, <1>3, <2>1
  <1>4. CASE \E i \in MoveRange(Options, open.option) : Turns([open EXCEPT !.option = i])
    <2>5. lanip \in Int
      BY DEF InWindow, WireInv, WireTypes
    <2>6. Options \in Int
      BY <2>5 DEF Options
    <2>1. Options \in Int /\ open.option \in Int
      BY <1>1, <2>6, OptionIs DEF FittingWindow
    <2>2. PICK i \in MoveRange(Options, open.option) : Turns([open EXCEPT !.option = i])
      BY <1>4
    <2>3. i \in Nat
      BY <2>1, <2>2, MoveRangeIs
    <2>4. QED
      BY <1>2, <2>2, <2>3
  <1>5. CASE ApplyOption
    <2>1. CASE Turns(open)
      BY <1>1, <2>1, TurnFits
    <2>2. CASE SaveField
      BY <2>2, SaveFieldFits
    <2>3. CASE Stops("index")
      BY <2>3, StopFits
    <2>5. Options = 0 \/ open.option < Options \/ (0 < Options /\ Options <= open.option)
      <3>1. PICK o \in Int, n \in Nat : o = open.option /\ n = Options
        BY <1>1, OptionIs DEF FittingWindow, Options, InWindow, WireInv, WireTypes
      <3>2. QED
        BY <3>1
    <2>4. QED
      BY <1>5, <2>1, <2>2, <2>3, <2>5 DEF ApplyOption
  <1>6. QED
    BY <1>3, <1>4, <1>5 DEF OptionKey

LEMMA EditorFits == ASSUME InWindow, WireFits, EditorKey PROVE WireFits'
  <1>1. open \in FittingWindow
    BY SelectedFits
  <1>2. ASSUME NEW area \in {"menu", "actions", "view"},
               Turns([open EXCEPT !.focus = area, !.buffer = FALSE, !.option = NoOption])
               \/ Turns([open EXCEPT !.focus = area])
        PROVE  WireFits'
    <2>1. [open EXCEPT !.focus = area] \in FittingWindow
      BY <1>1, WindowsFit
    <2>2. [open EXCEPT !.focus = area, !.buffer = FALSE, !.option = NoOption] \in FittingWindow
      BY <1>1 DEF FittingWindow, Option
    <2>3. QED
      BY <1>2, <2>1, <2>2, TurnFits
  <1>3. CASE Turns([open EXCEPT !.focus = IF IsDeviceDetail THEN "menu" ELSE "actions",
                                !.buffer = FALSE, !.option = NoOption])
    BY <1>2, <1>3
  <1>4. CASE Turns([open EXCEPT !.buffer = FALSE, !.option = IF open.buffer THEN open.option ELSE NoOption])
    <2> DEFINE flag == IF open.buffer THEN open.option ELSE NoOption
    <2>1. flag \in Option
      BY <1>1 DEF FittingWindow, Option
    <2>2. Turns([open EXCEPT !.buffer = FALSE, !.option = flag])
      BY <1>4
    <2> HIDE DEF flag
    <2>3. [open EXCEPT !.buffer = FALSE, !.option = flag] \in FittingWindow
      BY <1>1, <2>1 DEF FittingWindow
    <2>4. QED
      BY <2>2, <2>3, TurnFits
  <1>5. CASE Turns([open EXCEPT !.focus = IF IsDeviceDetail THEN "menu" ELSE "view"])
    BY <1>2, <1>5
  <1>6. CASE \E i \in MoveRange(Len(Fields), open.field) : Turns([open EXCEPT !.field = i])
    <2>1. Len(Fields) \in Int
      BY DEF Fields
    <2>2. open.field \in Nat
      BY <1>1 DEF FittingWindow
    <2>3. open.field \in Int
      BY <2>2
    <2>4. PICK i \in Nat : Turns([open EXCEPT !.field = i])
      BY <1>6, <2>1, <2>3, MoveRangeIs
    <2>5. [open EXCEPT !.field = i] \in FittingWindow
      BY <1>1, WindowsFit
    <2>6. QED
      BY <2>4, <2>5, TurnFits
  <1>7. CASE Fails
    BY <1>7, StopFits DEF Fails
  <1>8. CASE Turns([open EXCEPT !.buffer = TRUE])
    <2>1. [open EXCEPT !.buffer = TRUE] \in FittingWindow
      BY <1>1, WindowsFit
    <2>2. QED
      BY <1>8, <2>1, TurnFits
  <1>11. CASE ~NoField /\ OptionKey
    BY <1>11, OptionFitsKey
  <1>9. CASE ~NoField /\ SaveField
    BY <1>9, SaveFieldFits
  <1>10. QED
    BY <1>3, <1>4, <1>5, <1>6, <1>7, <1>8, <1>9, <1>11 DEF EditorKey

-----------------------------------------------------------------------------
(* LANWIRE: the types stay through the actions on a connector, or on a side of a cable *)

LEMMA DisconnectFits ==
  ASSUME InWindow, WireFits, NEW to \in FittingWindow, SelectedCable # NoElementOpen, DisconnectPort(to)
  PROVE  WireFits'
  <1>1. CASE Fails
    BY <1>1, StopFits DEF Fails
  <1>2. CASE Writes(WithEnds(idf, SelectedCable, Except(records.ends[SelectedCable], SelectedPort)), to)
    <2>1. Except(records.ends[SelectedCable], SelectedPort) \in CableEnds
      BY SelectedFits, ExceptFits
    <2>2. WithEnds(idf, SelectedCable, Except(records.ends[SelectedCable], SelectedPort)) \in Records
      BY <2>1, SelectedFits, RecordsFit
    <2>3. QED
      BY <1>2, <2>2, SelectedFits, WriteFits
  <1>3. QED
    BY <1>1, <1>2 DEF DisconnectPort

LEMMA ConnectFits ==
  ASSUME InWindow, WireFits, HasPort, NEW w, NEW from \in FittingWindow, NEW to \in FittingWindow,
         ConnectPort(w, from, to)
  PROVE  WireFits'
  <1>1. CASE Turns(from)
    BY <1>1, TurnFits
  <1>2. CASE ~Turns(from)
    <2>1. /\ w \in TuiCable /\ Exists(records, w) /\ Len(records.ends[w]) < 2
          /\ Writes(WithEnds(idf, w, Append(records.ends[w], SelectedPort)), to)
      BY <1>2 DEF ConnectPort
    <2>2. Append(records.ends[w], SelectedPort) \in CableEnds
      BY <2>1, SelectedFits, NamesFit
    <2>3. WithEnds(idf, w, Append(records.ends[w], SelectedPort)) \in Records
      BY <2>1, <2>2, SelectedFits, RecordsFit
    <2>4. QED
      BY <2>1, <2>3, SelectedFits, WriteFits
  <1>3. QED
    BY <1>1, <1>2

LEMMA MoveFits ==
  ASSUME InWindow, WireFits, NEW p, NEW from \in FittingWindow, NEW to \in FittingWindow, MovePort(p, from, to)
  PROVE  WireFits'
  <1>1. CASE Turns(from)
    BY <1>1, TurnFits
  <1>2. CASE ~Turns(from)
    <2> DEFINE k == CHOOSE i \in DOMAIN Ports : Ports[i] = p
               new == NewName(records.ends[SelectedCable], SelectedPort, p)
               then == [to EXCEPT !.port = k - 1]
    <2>1. /\ SelectedCable # NoElementOpen /\ p \in ToSet(Ports)
          /\ Writes(WithEnds(idf, SelectedCable, new), then)
      BY <1>2 DEF MovePort
    <2>2. Ports \in PortLists
      BY SelectedFits
    <2>3. p \in PortName /\ \E i \in DOMAIN Ports : Ports[i] = p
      BY <2>1, <2>2, PortListIs DEF ToSet
    <2>4. k \in DOMAIN Ports
      BY <2>3
    <2> HIDE DEF k
    <2>5. k - 1 \in PortPlace
      BY <2>2, <2>4, PlacesOfPorts
    <2>6. then \in FittingWindow
      BY <2>5, WindowsFit
    <2> HIDE DEF then
    <2>7. new \in CableEnds
      BY <2>1, <2>3, SelectedFits, NamesFit
    <2>8. WithEnds(idf, SelectedCable, new) \in Records
      BY <2>1, <2>7, SelectedFits, RecordsFit
    <2>9. QED
      BY <2>1, <2>6, <2>8, SelectedFits, WriteFits
  <1>3. QED
    BY <1>1, <1>2

LEMMA ConnectorFits ==
  ASSUME InWindow, WireFits, NEW from \in FittingWindow, ConnectorAction(from)
  PROVE  WireFits'
  <1> DEFINE to == [from EXCEPT !.target = NoText, !.action = 0, !.focus = "menu"]
             chosen == Min({from.action, 2})
  <1>0. 0 \in Nat
    OBVIOUS
  <1>1. to \in FittingWindow
    BY DEF FittingWindow
  <1> HIDE DEF to
  <1>2. from.action \in Nat
    BY DEF FittingWindow
  <1>3. chosen \in {0, 1, 2}
    <2>1. chosen = IF from.action <= 2 THEN from.action ELSE 2
      BY <1>2, OfTwo
    <2> HIDE DEF chosen
    <2>2. QED
      BY <1>2, <2>1
  <1>4. CASE ~HasPort /\ Turns(from)
    BY <1>4, TurnFits
  <1>5. CASE Turns([from EXCEPT !.browse = TRUE, !.action = 0])
    <2>1. [from EXCEPT !.browse = TRUE, !.action = 0] \in FittingWindow
      BY DEF FittingWindow
    <2>2. QED
      BY <1>5, <2>1, TurnFits
  <1>6. CASE HasPort /\ ConnectPort(from.target, from, to)
    BY <1>1, <1>6, ConnectFits
  <1>7. CASE SelectedCable # NoElementOpen /\ DisconnectPort([from EXCEPT !.action = 0])
    <2>1. [from EXCEPT !.action = 0] \in FittingWindow
      BY <1>0, WindowsFit
    <2>2. QED
      BY <1>7, <2>1, DisconnectFits
  <1>8. CASE Turns([from EXCEPT !.target = ""])
    BY <1>8, WindowsFit, TurnFits
  <1>9. CASE MovePort(from.target, from, to)
    BY <1>1, <1>9, MoveFits
  <1>10. CASE FollowConnection([from EXCEPT !.focus = "view"])
    BY <1>10, WindowsFit, FollowFits
  <1>11. SelectedCable # NoElementOpen => HasPort
    BY SelectedFits
  <1> HIDE DEF chosen
  <1>12. QED
    BY <1>3, <1>4, <1>5, <1>6, <1>7, <1>8, <1>9, <1>10, <1>11 DEF ConnectorAction, to, chosen

LEMMA SideFits ==
  ASSUME InWindow, WireFits, IsCableDetail, NEW from \in FittingWindow, CableSideAction(from)
  PROVE  WireFits'
  <1> DEFINE ends == records.ends[open.id]
             to == [from EXCEPT !.target = NoText]
  <1>1. to \in FittingWindow /\ [from EXCEPT !.browse = TRUE] \in FittingWindow
    BY WindowsFit
  <1> HIDE DEF to
  <1>2. open.id \in TuiCable /\ ends \in CableEnds
    BY SelectedFits
  <1>3. CASE Turns(from) \/ Turns([from EXCEPT !.browse = TRUE])
    BY <1>1, <1>3, TurnFits
  <1>4. CASE Fails
    BY <1>4, StopFits DEF Fails
  <1>5. ASSUME NEW es \in CableEnds, Writes(WithEnds(idf, open.id, es), to) PROVE WireFits'
    <2>1. WithEnds(idf, open.id, es) \in Records
      BY <1>2, SelectedFits, RecordsFit
    <2>2. QED
      BY <1>1, <1>5, <2>1, SelectedFits, WriteFits
  <1>6. CASE Writes(WithEnds(idf, open.id, Except(ends, ends[open.side + 1])), to)
    BY <1>2, <1>5, <1>6, ExceptFits
  <1>7. CASE /\ Exists(records, WireTuiDevice) /\ from.target \in ToSet(records.ports) /\ Len(ends) < 2
             /\ Writes(WithEnds(idf, open.id, Append(ends, from.target)), to)
    <2>1. records.ports \in Seq(PortName)
      BY <1>7, SelectedFits, RecordsFit, PortListIs
    <2>2. from.target \in PortName
      BY <1>7, <2>1 DEF ToSet
    <2>3. Append(ends, from.target) \in CableEnds
      BY <1>2, <1>7, <2>2, NamesFit
    <2>4. QED
      BY <1>5, <1>7, <2>3
  <1>8. QED
    BY <1>3, <1>4, <1>6, <1>7 DEF CableSideAction, to

LEMMA ExecuteFits == ASSUME InWindow, WireFits, NEW from \in FittingWindow, Execute(from) PROVE WireFits'
  BY ConnectorFits, SideFits DEF Execute

LEMMA ActionsFit == ASSUME InWindow, WireFits, ActionsKey PROVE WireFits'
  <1>1. open \in FittingWindow
    BY SelectedFits
  <1>2. CASE \/ Turns([open EXCEPT !.focus = IF IsCableDetail THEN "view" ELSE "menu", !.target = NoText,
                                   !.browse = FALSE])
             \/ Turns([open EXCEPT !.focus = IF IsCableDetail THEN "view" ELSE "menu"])
    <2>1. PICK area \in {"view", "menu"} : area = IF IsCableDetail THEN "view" ELSE "menu"
      OBVIOUS
    <2>2. [open EXCEPT !.focus = area, !.target = NoText, !.browse = FALSE] \in FittingWindow
      BY <1>1 DEF FittingWindow
    <2>3. [open EXCEPT !.focus = area] \in FittingWindow
      BY <1>1, WindowsFit
    <2>4. QED
      BY <1>2, <2>1, <2>2, <2>3, TurnFits
  <1>3. CASE Turns([open EXCEPT !.browse = FALSE]) \/ Execute([open EXCEPT !.browse = FALSE])
    <2>1. [open EXCEPT !.browse = FALSE] \in FittingWindow
      BY <1>1, WindowsFit
    <2>2. QED
      BY <1>3, <2>1, TurnFits, ExecuteFits
  <1>4. CASE \E o \in Offered : Execute([open EXCEPT !.browse = FALSE, !.target = o])
    <2>1. Offered \in SUBSET (PortName \cup TuiCable)
      BY DEF Offered
    <2>2. PICK o \in PortName \cup TuiCable : Execute([open EXCEPT !.browse = FALSE, !.target = o])
      BY <1>4, <2>1
    <2>3. [open EXCEPT !.browse = FALSE, !.target = o] \in FittingWindow
      BY <1>1 DEF FittingWindow
    <2>4. QED
      BY <2>2, <2>3, ExecuteFits
  <1>5. CASE Turns([open EXCEPT !.target = NoText])
    BY <1>1, <1>5, WindowsFit, TurnFits
  <1>6. CASE \E i \in MoveRange(IF SelectedCable # NoElementOpen THEN 3 ELSE 1, open.action) :
                Turns([open EXCEPT !.action = i])
    <2>1. open.action \in Nat
      BY <1>1 DEF FittingWindow
    <2>2. open.action \in Int /\ (IF SelectedCable # NoElementOpen THEN 3 ELSE 1) \in Int
      BY <2>1
    <2>3. PICK i \in Nat : Turns([open EXCEPT !.action = i])
      BY <1>6, <2>2, MoveRangeIs
    <2>4. [open EXCEPT !.action = i] \in FittingWindow
      BY <1>1, WindowsFit
    <2>5. QED
      BY <2>3, <2>4, TurnFits
  <1>7. CASE Execute(open)
    BY <1>1, <1>7, ExecuteFits
  <1>8. CASE \E text \in PortName \cup {""} : Turns([open EXCEPT !.target = text])
    <2>1. PICK text \in PortName \cup {""} : Turns([open EXCEPT !.target = text])
      BY <1>8
    <2>2. [open EXCEPT !.target = text] \in FittingWindow
      BY <1>1, WindowsFit
    <2>3. QED
      BY <2>1, <2>2, TurnFits
  <1>9. QED
    BY <1>2, <1>3, <1>4, <1>5, <1>6, <1>7, <1>8 DEF ActionsKey

-----------------------------------------------------------------------------
(* LANWIRE: the types stay through the other keys, and the changes of other sessions *)

\* A window over everything is opened, or closed.
LEMMA OverFits ==
  ASSUME WireFits, UNCHANGED <<idf, records, list, open, stack, running>>, UtilityFits'
  PROVE  WireFits'
  BY DEF WireFits, FilesFit, RowFits, WindowFits, StackFits

LEMMA UtilityFitsOpened ==
  ASSUME WireFits, NEW window, NEW id, id # NoElementOpen <=> window = "delete", OpensUtility(window, id)
  PROVE  WireFits'
  <1>1. UNCHANGED <<idf, records, list, open, stack, running>> /\ utility' = [window |-> window, id |-> id]
    BY DEF OpensUtility, Stays
  <1>2. UtilityFits'
    BY <1>1 DEF UtilityFits
  <1>3. QED
    BY <1>1, <1>2, OverFits

LEMMA PlainFits == ASSUME WireFits, OpensPlain PROVE WireFits'
  <1>1. PICK window \in {"help", "plain"} : OpensUtility(window, NoElementOpen)
    BY DEF OpensPlain
  <1>2. window # "delete"
    BY <1>1
  <1>3. QED
    BY <1>1, <1>2, UtilityFitsOpened

LEMMA OpenedFits ==
  ASSUME open \in FittingWindow, NEW id \in Identifier \cup {NoElementOpen}
  PROVE  Opened(id) \in FittingWindow /\ Opened(id).menu = 0
  <1>1. open.browse \in BOOLEAN /\ open.target \in {NoText, ""} \cup PortName \cup TuiCable
    BY DEF FittingWindow
  <1>2. ASSUME NEW t \in {NoText, ""} \cup PortName \cup TuiCable, NEW browse \in BOOLEAN
        PROVE  /\ [Closed EXCEPT !.id = id, !.target = t, !.browse = browse] \in FittingWindow
               /\ [Closed EXCEPT !.id = id, !.target = t, !.browse = browse].menu = 0
    BY ClosedFits DEF FittingWindow
  <1>3. QED
    BY <1>1, <1>2, Zenon DEF Opened

LEMMA LeftFits == ASSUME open \in FittingWindow PROVE Left \in FittingWindow /\ Left.menu = 0
  <1>1. Opened(NoElementOpen) \in FittingWindow /\ Opened(NoElementOpen).menu = 0
    BY OpenedFits
  <1>2. PICK b \in BOOLEAN : b = open.buffer
    BY DEF FittingWindow
  <1>3. Left = [Opened(NoElementOpen) EXCEPT !.buffer = b]
    BY <1>2 DEF Left
  <1>4. QED
    BY <1>1, <1>3 DEF FittingWindow

LEMMA ChooseFits == ASSUME InWindow, WireFits, ChooseOption PROVE WireFits'
  <1> DEFINE acts == [open EXCEPT !.focus = "actions", !.target = NoText]
  <1>0. 0 \in Nat /\ 1 \in Nat /\ 2 \in Nat
    OBVIOUS
  <1>1. open \in FittingWindow
    BY SelectedFits
  <1>2. CASE Turns(open)
    BY <1>1, <1>2, TurnFits
  <1>3. CASE ChooseData /\ ~Turns(open)
    <2>1. PICK scope \in {"general", "port"} : scope = IF open.menu = 0 THEN "general" ELSE "port"
      OBVIOUS
    <2> DEFINE to == [open EXCEPT !.scope = scope, !.focus = "editor", !.field = 0, !.buffer = FALSE,
                                  !.option = NoOption]
    <2>2. Turns(to)
      BY <1>3, <2>1 DEF ChooseData
    <2>3. to \in FittingWindow
      BY <1>1 DEF FittingWindow, Option
    <2> HIDE DEF to
    <2>4. QED
      BY <2>2, <2>3, TurnFits
  <1>4. CASE OpensUtility("delete", open.id)
    <2>1. open.id # NoElementOpen
      BY DEF InWindow, IsOpen
    <2>2. QED
      BY <1>4, <2>1, UtilityFitsOpened
  <1>5. acts \in FittingWindow
    BY <1>1 DEF FittingWindow
  <1> HIDE DEF acts
  <1>6. CASE ConnectorAction([acts EXCEPT !.action = 0])
    <2>1. [acts EXCEPT !.action = 0] \in FittingWindow
      BY <1>0, <1>5, WindowsFit
    <2>2. QED
      BY <1>6, <2>1, ConnectorFits
  <1>7. CASE FollowConnection([open EXCEPT !.focus = "view"])
    <2>1. [open EXCEPT !.focus = "view"] \in FittingWindow
      BY <1>1, WindowsFit
    <2>2. QED
      BY <1>7, <2>1, FollowFits
  <1>8. CASE SelectedCable # NoElementOpen /\ DisconnectPort([open EXCEPT !.menu = 2])
    <2>1. [open EXCEPT !.menu = 2] \in FittingWindow
      BY <1>0, <1>1, WindowsFit
    <2>2. QED
      BY <1>8, <2>1, DisconnectFits
  <1>9. CASE ConnectorAction([acts EXCEPT !.action = 1])
    <2>1. [acts EXCEPT !.action = 1] \in FittingWindow
      BY <1>0, <1>5, WindowsFit
    <2>2. QED
      BY <1>9, <2>1, ConnectorFits
  <1>10. QED
    BY <1>2, <1>3, <1>4, <1>6, <1>7, <1>8, <1>9 DEF ChooseOption, acts

LEMMA MenuFits == ASSUME InWindow, WireFits, MenuKey PROVE WireFits'
  <1>1. open \in FittingWindow
    BY SelectedFits
  <1>2. CASE Turns([open EXCEPT !.focus = "view"])
    BY <1>1, <1>2, WindowsFit, TurnFits
  <1>3. CASE \E i \in MoveRange(MenuCount, open.menu) : Turns([open EXCEPT !.menu = i])
    <2>1. open.menu \in Nat
      BY <1>1 DEF FittingWindow
    <2>2. open.menu \in Int /\ MenuCount \in Int
      BY <2>1 DEF MenuCount
    <2>3. PICK i \in Nat : Turns([open EXCEPT !.menu = i])
      BY <1>3, <2>2, MoveRangeIs
    <2>4. [open EXCEPT !.menu = i] \in FittingWindow
      BY <1>1, WindowsFit
    <2>5. QED
      BY <2>3, <2>4, TurnFits
  <1>4. QED
    BY <1>2, <1>3, ChooseFits DEF MenuKey

LEMMA SelectionFits == ASSUME InWindow, WireFits, MoveSelection PROVE WireFits'
  <1>1. open \in FittingWindow /\ Ports \in PortLists
    BY SelectedFits
  <1>2. CASE Ports # << >> /\ \E i \in {open.port - 1, open.port + 1} :
                Turns([open EXCEPT !.port = Max({-1, Min({Len(Ports) - 1, i})})])
    <2>1. PICK i \in {open.port - 1, open.port + 1} :
                 Turns([open EXCEPT !.port = Max({-1, Min({Len(Ports) - 1, i})})])
      BY <1>2
    <2>2. open.port \in Int
      BY <1>1, PlacesOfPorts DEF FittingWindow
    <2>3. i \in Int
      BY <2>1, <2>2
    <2>4. PICK n \in Int : n = Len(Ports) - 1 /\ n >= -1
      <3>1. Len(Ports) \in Nat
        BY <1>1, ListsOfPorts
      <3>2. Len(Ports) - 1 \in Int /\ Len(Ports) - 1 >= -1
        BY <3>1
      <3>3. QED
        BY <3>2
    <2>5. Min({n, i}) = IF n <= i THEN n ELSE i
      BY <2>3, OfTwo
    <2>6. PICK x \in Int : x = Min({n, i}) /\ x <= n
      BY <2>3, <2>5
    <2>7. -1 \in Int
      OBVIOUS
    <2>8. Max({-1, x}) = IF -1 <= x THEN x ELSE -1
      BY <2>7, OfTwo, Zenon
    <2>9. PICK k \in Int : k = Max({-1, x}) /\ k >= -1 /\ k <= n
      BY <2>4, <2>6, <2>8
    <2>10. k \in PortPlace
      BY <1>1, <2>4, <2>9, PlacesOfPorts
    <2>11. [open EXCEPT !.port = k] \in FittingWindow
      BY <1>1, <2>10, WindowsFit
    <2>12. Turns([open EXCEPT !.port = k])
      BY <2>1, <2>4, <2>6, <2>9
    <2>13. QED
      BY <2>11, <2>12, TurnFits
  <1>3. CASE \E i \in {0, 1} : Turns([open EXCEPT !.side = i])
    <2>1. PICK i \in {0, 1} : Turns([open EXCEPT !.side = i])
      BY <1>3
    <2>2. i \in Int
      BY <2>1
    <2>3. [open EXCEPT !.side = i] \in FittingWindow
      BY <1>1, <2>2, WindowsFit
    <2>4. QED
      BY <2>1, <2>3, TurnFits
  <1>4. QED
    BY <1>2, <1>3 DEF MoveSelection

LEMMA ViewFits == ASSUME InWindow, WireFits, ViewKey PROVE WireFits'
  <1>1. open \in FittingWindow
    BY SelectedFits
  <1>2. CASE OpensPlain
    BY <1>2, PlainFits
  <1>3. CASE Ends
    BY <1>3, StopFits DEF Ends
  <1>4. CASE open' = Left /\ stack' = << >> /\ Stays /\ UNCHANGED utility
    <2>1. UNCHANGED <<idf, records, list, running, utility>>
      BY <1>4 DEF Stays
    <2>2. WindowFits' /\ StackFits'
      BY <1>1, <1>4, LeftFits, ClosedFits DEF WindowFits, StackFits
    <2>3. QED
      BY <2>1, <2>2 DEF WireFits, FilesFit, RowFits, UtilityFits
  <1>5. CASE Turns([open EXCEPT !.focus = "menu", !.menu = 0])
    <2>1. [open EXCEPT !.focus = "menu", !.menu = 0] \in FittingWindow
      BY <1>1 DEF FittingWindow
    <2>2. QED
      BY <1>5, <2>1, TurnFits
  <1>6. CASE Turns([open EXCEPT !.focus = "editor", !.scope = "general", !.field = 0, !.buffer = FALSE,
                                !.option = NoOption])
    <2>1. [open EXCEPT !.focus = "editor", !.scope = "general", !.field = 0, !.buffer = FALSE, !.option = NoOption]
             \in FittingWindow
      BY <1>1 DEF FittingWindow, Option
    <2>2. QED
      BY <1>6, <2>1, TurnFits
  <1>7. CASE MoveSelection
    BY <1>7, SelectionFits
  <1>8. CASE FollowConnection(open)
    BY <1>1, <1>8, FollowFits
  <1>9. QED
    BY <1>2, <1>3, <1>4, <1>5, <1>6, <1>7, <1>8, BackFits DEF ViewKey

\* With no element open, and what is in memory read again.
LEMMA ReadFits ==
  ASSUME WireInv, WireFits, idf' \in Records, records' = idf', NEW only, NEW row \in Nat,
         list' = Follows(idf', only, row), WindowFits', StackFits', UtilityFits', running' = running
  PROVE  WireFits'
  <1>1. RowFits'
    BY RowFollows
  <1>2. FilesFit'
    BY DEF FilesFit
  <1>3. QED
    BY <1>1, <1>2 DEF WireFits

LEMMA UtilityKeyFits == ASSUME WireInv, WireFits, UtilityKey PROVE WireFits'
  <1>1. open \in FittingWindow /\ idf \in Records /\ 0 \in Nat
    BY DEF WireFits, WindowFits, FilesFit
  <1>2. utility' = NoUtility
    BY DEF UtilityKey
  <1>3. UtilityFits'
    BY <1>2, ClosedFits DEF UtilityFits
  <1>4. CASE UNCHANGED <<open, stack>> /\ Stays
    BY <1>3, <1>4, OverFits DEF Stays
  <1>5. CASE /\ idf' = Erased(idf, utility.id) /\ TakesAll(0) /\ Exists(idf, utility.id)
             /\ open' = Left /\ stack' = << >> /\ UNCHANGED running
    <2>1. idf' \in Records
      BY <1>1, <1>5, OperationsFit
    <2>2. WindowFits' /\ StackFits'
      BY <1>1, <1>5, LeftFits, ClosedFits DEF WindowFits, StackFits
    <2>3. records' = idf' /\ list' = Follows(idf', list.only, 0) /\ running' = running
      BY <1>5 DEF TakesAll
    <2>4. QED
      BY <1>1, <1>3, <2>1, <2>2, <2>3, ReadFits
  <1>6. QED
    BY <1>4, <1>5 DEF UtilityKey

LEMMA ListKeyFits == ASSUME InList, WireFits, ListKey PROVE WireFits'
  <1>1. /\ open \in FittingWindow /\ idf \in Records /\ 0 \in Nat /\ WireInv /\ list.row \in Nat
        /\ WindowFits /\ StackFits /\ UtilityFits
    BY DEF InList, WireInv, WireTypes, WireFits, WindowFits, FilesFit
  <1>2. CASE OpensPlain
    BY <1>2, PlainFits
  <1>3. CASE Ends
    BY <1>3, StopFits DEF Ends
  <1>4. CASE SelectedId # NoElementOpen /\ OpensUtility("delete", SelectedId)
    BY <1>4, UtilityFitsOpened
  <1>5. CASE SelectedId # NoElementOpen /\ stack' = << >> /\ Stays /\ UNCHANGED <<utility, typed>>
             /\ Draws(Opened(SelectedId))
    <2>1. SelectedId \in Identifier
      BY <1>1, <1>5, RowThere DEF SelectedId
    <2>2. Opened(SelectedId) \in FittingWindow
      BY <1>1, <2>1, OpenedFits
    <2>3. WindowFits'
      BY <1>5, <2>2, DrawnFits
    <2>4. StackFits'
      BY <1>5, ClosedFits DEF StackFits
    <2>5. UNCHANGED <<idf, records, list, utility, running>>
      BY <1>5 DEF Stays
    <2>6. QED
      BY <2>3, <2>4, <2>5 DEF WireFits, FilesFit, RowFits, UtilityFits
  <1>6. CASE (\E only \in Filters : list' = Follows(idf, only, 0))
             /\ records' = idf /\ UNCHANGED <<idf, open, stack, utility, running>>
    <2>1. PICK only : list' = Follows(idf', only, 0)
      BY <1>6
    <2>2. WindowFits' /\ StackFits' /\ UtilityFits'
      BY <1>1, <1>6 DEF WindowFits, StackFits, UtilityFits
    <2>3. QED
      BY <1>1, <1>6, <2>1, <2>2, ReadFits
  <1>7. CASE (\E i \in MoveRange(Len(Listed(records, list.only)), list.row) : list' = [list EXCEPT !.row = i])
             /\ UNCHANGED <<idf, records, open, stack, utility, running>>
    <2>1. Len(Listed(records, list.only)) \in Int /\ list.row \in Int
      BY <1>1, ListedThere
    <2>2. PICK i : /\ i \in MoveRange(Len(Listed(records, list.only)), list.row)
                   /\ list' = [list EXCEPT !.row = i]
      BY <1>7
    <2>3. i = 0 \/ i < Len(Listed(records, list.only))
      BY <2>1, <2>2, MovesWithin
    <2>4. list'.row = i /\ list'.only = list.only
      BY <2>2 DEF InList, WireInv, WireTypes
    <2>5. RowFits'
      BY <1>7, <2>3, <2>4 DEF RowFits
    <2>6. QED
      BY <1>7, <2>5 DEF WireFits, FilesFit, WindowFits, StackFits, UtilityFits
  <1>8. CASE UNCHANGED <<idf, records, list, open, stack, utility, running>>
    BY <1>1, <1>8, OverFits DEF UtilityFits
  <1>9. QED
    BY <1>2, <1>3, <1>4, <1>5, <1>6, <1>7, <1>8 DEF ListKey

LEMMA CommandedFits == ASSUME idf \in Records PROVE Commanded \in SUBSET Records
  <1>1. ASSUME NEW id \in Identifier, Exists(idf, id) PROVE Erased(idf, id) \in Records
    BY <1>1, OperationsFit
  <1>2. ASSUME NEW id \in Identifier PROVE Added(idf, id) \in Records
    BY OperationsFit
  <1>3. ASSUME NEW ps \in PortLists PROVE WithPorts(idf, ps) \in Records
    BY RecordsFit
  <1>4. ASSUME NEW w \in TuiCable, Exists(idf, w), NEW q \in PortName
        PROVE  WithEnds(idf, w, [idf.ends[w] EXCEPT ![1] = q]) \in Records
    <2>1. idf.ends[w] \in CableEnds
      BY <1>4, RecordsFit
    <2>2. 1 \in Int
      OBVIOUS
    <2>3. [idf.ends[w] EXCEPT ![1] = q] \in CableEnds
      BY <2>1, <2>2, NamesFit
    <2>4. \A es \in CableEnds : WithEnds(idf, w, es) \in Records
      BY RecordsFit
    <2>5. QED
      BY <2>3, <2>4, Zenon
  <1> DEFINE OfCable(w) == {WithEnds(idf, w, [idf.ends[w] EXCEPT ![1] = q]) : q \in PortName}
             Others == UNION {OfCable(w) : w \in {v \in TuiCable : Exists(idf, v) /\ idf.ends[v] # << >>}}
  <1>5. Others \in SUBSET Records
    <2>1. SUFFICES ASSUME NEW f \in Others PROVE f \in Records
      BY Zenon
    <2>2. PICK w \in TuiCable : Exists(idf, w) /\ f \in OfCable(w)
      OBVIOUS
    <2>3. PICK q \in PortName : f = WithEnds(idf, w, [idf.ends[w] EXCEPT ![1] = q])
      BY <2>2
    <2>4. QED
      BY <1>4, <2>2, <2>3
  <1>6. Commanded = {Erased(idf, id) : id \in {i \in Identifier : Exists(idf, i)}}
                    \cup {Added(idf, id) : id \in {i \in Identifier : ~Exists(idf, i)}}
                    \cup {WithPorts(idf, ps) : ps \in {qs \in PortLists : MayUpdateDevice(idf, qs)}}
                    \cup Others
    BY DEF Commanded
  <1> HIDE DEF Others
  <1>7. QED
    BY <1>1, <1>2, <1>3, <1>5, <1>6

LEMMA CommandFits == ASSUME InList, WireFits, ExecuteCommand PROVE WireFits'
  <1>1. /\ open \in FittingWindow /\ idf \in Records /\ 0 \in Nat /\ WireInv /\ list.row \in Nat
        /\ WindowFits /\ StackFits /\ UtilityFits
    BY DEF InList, WireInv, WireTypes, WireFits, WindowFits, FilesFit
  <1>2. CASE Ends
    BY <1>2, StopFits DEF Ends
  <1>3. CASE UNCHANGED running /\ (\E only \in Filters : list' = Follows(idf, only, 0))
             /\ records' = idf /\ UNCHANGED <<idf, open, stack, utility>>
    <2>1. PICK only : list' = Follows(idf', only, 0)
      BY <1>3
    <2>2. WindowFits' /\ StackFits' /\ UtilityFits'
      BY <1>1, <1>3 DEF WindowFits, StackFits, UtilityFits
    <2>3. QED
      BY <1>1, <1>3, <2>1, <2>2, ReadFits
  <1>4. ASSUME NEW id \in Identifier, open' = Opened(id), stack' = << >>,
               UNCHANGED running, UNCHANGED <<idf, records, list, utility>>
        PROVE  WireFits'
    <2>1. WindowFits' /\ StackFits'
      BY <1>1, <1>4, OpenedFits, ClosedFits DEF WindowFits, StackFits
    <2>2. QED
      BY <1>4, <2>1 DEF WireFits, FilesFit, RowFits, UtilityFits
  <1>5. CASE /\ UNCHANGED running /\ utility' = [window |-> "plain", id |-> NoElementOpen]
             /\ UNCHANGED <<idf, records, list, open, stack>>
    <2>1. UtilityFits'
      BY <1>5 DEF UtilityFits
    <2>2. QED
      BY <1>5, <2>1, OverFits
  <1>6. CASE /\ UNCHANGED running
             /\ idf' \in Commanded \cup {idf} /\ TakesAll(list.row) /\ UNCHANGED <<open, stack, utility>>
    <2>1. idf' \in Records
      BY <1>1, <1>6, CommandedFits
    <2>2. records' = idf' /\ list' = Follows(idf', list.only, list.row) /\ running' = running
      BY <1>6 DEF TakesAll
    <2>3. WindowFits' /\ StackFits' /\ UtilityFits'
      BY <1>1, <1>6 DEF WindowFits, StackFits, UtilityFits
    <2>4. QED
      BY <1>1, <2>1, <2>2, <2>3, ReadFits
  <1>7. QED
    BY <1>2, <1>3, <1>4, <1>5, <1>6 DEF ExecuteCommand

LEMMA KeyFits == ASSUME WireInv, WireFits, WireTuiKey PROVE WireFits'
  <1>1. CASE UtilityKey
    BY <1>1, UtilityKeyFits
  <1>2. CASE utility.window = "none" /\ IsOpen /\ (FollowKey \/ EditorKey \/ MenuKey \/ ActionsKey \/ ViewKey)
    <2>1. InWindow
      BY <1>2 DEF InWindow
    <2>2. CASE FollowKey
      BY <2>1, <2>2, SelectedFits, FollowFits DEF FollowKey
    <2>3. QED
      BY <1>2, <2>1, <2>2, EditorFits, MenuFits, ActionsFit, ViewFits
  <1>3. CASE ~IsOpen /\ (ListKey \/ ExecuteCommand)
    BY <1>3, ListKeyFits, CommandFits DEF InList
  <1>4. QED
    BY <1>1, <1>2, <1>3 DEF WireTuiKey

LEMMA EventFits == ASSUME WireInv, WireFits, TakeEvent PROVE WireFits'
  <1>1. idf \in Records /\ list.row \in Nat /\ WindowFits /\ StackFits /\ UtilityFits
    BY DEF WireInv, WireTypes, WireFits, FilesFit
  <1>2. /\ records' = idf' /\ list' = Follows(idf', list.only, list.row) /\ idf' = idf
        /\ UNCHANGED <<open, stack, utility, running>>
    BY DEF TakeEvent
  <1>3. WindowFits' /\ StackFits' /\ UtilityFits'
    BY <1>1, <1>2 DEF WindowFits, StackFits, UtilityFits
  <1>4. QED
    BY <1>1, <1>2, <1>3, ReadFits

LEMMA OthersFit == ASSUME WireFits, OtherWrites PROVE WireFits'
  <1>1. UNCHANGED <<records, list, open, stack, utility, running>> /\ idf \in Records
    BY DEF OtherWrites, windowVars, WireFits, FilesFit
  <1>2. ASSUME NEW f \in Records, idf' = f PROVE WireFits'
    BY <1>1, <1>2 DEF WireFits, FilesFit, RowFits, WindowFits, StackFits, UtilityFits
  <1>3. ASSUME NEW id \in Identifier, Exists(idf, id), idf' = Erased(idf, id) PROVE WireFits'
    BY <1>1, <1>2, <1>3, OperationsFit
  <1>4. ASSUME NEW id \in Identifier, idf' = Added(idf, id) PROVE WireFits'
    BY <1>1, <1>2, <1>4, OperationsFit
  <1>5. ASSUME NEW p \in PortName, NEW q \in PortName, MayRename(idf, p, q), idf' = RenamedPort(idf, p, q)
        PROVE  WireFits'
    BY <1>1, <1>2, <1>5, OperationsFit
  <1>6. ASSUME NEW w \in TuiCable, NEW es \in CableEnds, idf' = WithEnds(idf, w, es) PROVE WireFits'
    BY <1>1, <1>2, <1>6, RecordsFit
  <1>7. ASSUME NEW w \in TuiCable, Exists(idf, w), NEW p \in PortName
        PROVE  /\ Except(idf.ends[w], p) \in CableEnds
               /\ Len(idf.ends[w]) < 2 => Append(idf.ends[w], p) \in CableEnds
    BY <1>1, <1>7, RecordsFit, ExceptFits, NamesFit
  <1>8. QED
    BY <1>3, <1>4, <1>5, <1>6, <1>7 DEF OtherWrites

LEMMA OtherDevicesFit == ASSUME WireFits, OtherDevices PROVE WireFits'
  BY DEF OtherDevices, windowVars, WireFits, FilesFit, RowFits, WindowFits, StackFits, UtilityFits

LEMMA FitsAtFirst == ASSUME WireTuiInit PROVE WireFits
  <1>1. << >> \in CableEnds
    <2>1. << >> \in Seq(PortName) /\ Len(<< >>) <= 2
      OBVIOUS
    <2>2. QED
      BY <2>1, ListsOfPorts
  <1>2. /\ records = idf /\ list = AllDevices /\ open = Closed /\ stack = << >> /\ utility = NoUtility
        /\ running = "yes" /\ idf \in [ports : PortLists, ends : [TuiCable -> {<< >>}]]
    BY DEF WireTuiInit
  <1>3. idf \in Records
    BY <1>1, <1>2 DEF Records
  <1>4. QED
    BY <1>2, <1>3, ClosedFits DEF WireFits, FilesFit, RowFits, WindowFits, StackFits, UtilityFits

\* The types of LANWIRE: a device never has a port twice, the row that is selected is one of the list, and the
\* port that is selected is one a list may have (LanwireTui.reload, _selected_connector, _navigate_back).
THEOREM WireTuiTypes == WireTuiSpec => []WireTuiTypeOK
  <1>1. WireTuiInit => WireFits
    BY FitsAtFirst
  <1>2. ASSUME WireInv, WireFits, [WireTuiNext]_wireTuiVars PROVE WireFits'
    <2>1. CASE WireTuiNext
      BY <1>2, <2>1, KeyFits, EventFits, OthersFit, OtherDevicesFit DEF WireTuiNext
    <2>2. CASE UNCHANGED wireTuiVars
      BY <1>2, <2>2, OverFits DEF wireTuiVars, WireFits, UtilityFits
    <2>3. QED
      BY <1>2, <2>1, <2>2
  <1>3. WireInv /\ WireFits => WireTuiTypeOK
    <2>1. SUFFICES ASSUME WireInv, WireFits PROVE WireTuiTypeOK
      OBVIOUS
    <2>0. open \in FittingWindow
      BY <2>1 DEF WireFits, WindowFits
    <2>6. open.option \in Nat \cup {NoOption}
      BY <2>0 DEF FittingWindow, Option
    <2>7. lanip \in 0..LanipDevices
      BY <2>1, WireTuiAssumption DEF WireInv, WireTypes
    <2>2. /\ open.id \in Identifier \cup {NoElementOpen} /\ open.focus \in {"view", "menu", "editor", "actions"}
          /\ open.port \in PortPlace /\ open.target \in {NoText, ""} \cup PortName \cup TuiCable
      BY <2>0 DEF FittingWindow
    <2>3. open.port \in -1..Cardinality(PortName)
      BY <2>2 DEF PortPlace
    <2>4. FilesFit /\ RowFits /\ open.menu \in 0..6 /\ Len(stack) <= MaxDepth /\ UtilityFits
          /\ running \in {"yes", "ended", "error", "index"}
      BY <2>1 DEF WireFits, WindowFits, StackFits
    <2>5. QED
      BY <2>2, <2>3, <2>4, <2>6, <2>7 DEF WireTuiTypeOK, FilesFit, RowFits, UtilityFits
  <1>4. QED
    BY WireTuiInvariant, <1>1, <1>2, <1>3, PTL DEF WireTuiSpec

-----------------------------------------------------------------------------
(* Desktop: types *)

\* Of each field, a value of it.
IsChange(ch) ==
    /\ ch \in Changes
    /\ "alias" \in DOMAIN ch => ch["alias"] \in GuiAlias \cup {""}
    /\ "cnf" \in DOMAIN ch => ch["cnf"] \in Mark
Edited == {entry \in Entry : IsChange(entry.before) /\ IsChange(entry.after)}
Histories == [undo : Seq(Edited), redo : Seq(Edited)]

\* Inventories and edits are of elements and their values, and what can be redone was among what
\* can be undone; while an edit is about to be applied again it is there.
DeskContents ==
    /\ workspace \in [GuiProject -> GuiInventory] /\ vlf \in [GuiProject -> GuiInventory]
    /\ history \in [GuiProject -> Histories]
    /\ \A p \in GuiProject : Len(history[p].undo) + Len(history[p].redo) <= MaxHistory
    /\ call.step = "apply" => Source(call.kind = "undo") # << >>
    /\ edits \in 0..MaxGuiEdits /\ foreign \in 0..MaxForeign

\* What becomes of an element when fields of it change.
LEMMA AppliedIs ==
  ASSUME NEW v \in Content, NEW ch, IsChange(ch)
  PROVE  Applied(v, ch) \in Content
  BY DEF Applied, IsChange, Content, Mark

LEMMA OnlyIs ==
  ASSUME NEW v \in Content, NEW fields \in SUBSET {"alias", "cnf"}, fields # {}
  PROVE  IsChange(Only(v, fields))
  <1>1. fields \in {{"alias"}, {"cnf"}, {"alias", "cnf"}}
    OBVIOUS
  <1>2. \A k \in fields : v[k] \in GuiAlias \cup {""} \cup Mark
    BY DEF Content
  <1>3. Only(v, fields) \in [fields -> GuiAlias \cup {""} \cup Mark]
    BY <1>2 DEF Only
  <1>4. Only(v, fields) \in Changes
    BY <1>1, <1>3 DEF Changes
  <1>5. /\ DOMAIN Only(v, fields) = fields
        /\ \A k \in fields : Only(v, fields)[k] = v[k]
    BY DEF Only
  <1>6. "alias" \in fields => Only(v, fields)["alias"] \in GuiAlias \cup {""}
    BY <1>5 DEF Content
  <1>7. "cnf" \in fields => Only(v, fields)["cnf"] \in Mark
    BY <1>5 DEF Content
  <1>8. QED
    BY <1>4, <1>5, <1>6, <1>7 DEF IsChange

LEMMA ElementIs ==
  ASSUME NEW inv \in GuiInventory, NEW e \in GuiElement, NEW v \in Content \cup {Removed}
  PROVE  WithElement(inv, e, v) \in GuiInventory /\ inv.element[e] \in Content \cup {Removed}
  BY DEF WithElement, GuiInventory

LEMMA RecentIs ==
  ASSUME NEW S, NEW s \in Seq(S), NEW n \in Nat,
         Len(s) + n <= MaxHistory \/ (n = 0 /\ Len(s) <= MaxHistory + 1)
  PROVE  Recent(s) \in Seq(S) /\ Len(Recent(s)) + n <= MaxHistory
  <1>1. MaxHistory \in Nat /\ MaxHistory > 0
    <2>1. MaxHistory \in Nat \ {0}
      BY DesktopAssumption DEF DesktopAssumption
    <2>2. QED
      BY <2>1
  <1>2. CASE Len(s) > MaxHistory
    <2>1. s # << >>
      BY <1>1, <1>2
    <2>2. Tail(s) \in Seq(S) /\ Len(Tail(s)) = Len(s) - 1
      BY <2>1
    <2>3. QED
      BY <1>1, <1>2, <2>2 DEF Recent
  <1>3. CASE ~(Len(s) > MaxHistory)
    BY <1>1, <1>3 DEF Recent
  <1>4. QED
    BY <1>2, <1>3

\* What each step makes of the workspaces and archives.
Replaces(w) == \E inv \in GuiInventory : w = [workspace EXCEPT ![inUse] = inv]

LEMMA UpdateIs ==
  ASSUME DeskContents, inUse \in GuiProject, NEW by, NEW e \in GuiElement, Update(by, e)
  PROVE  /\ UNCHANGED workspace \/ Replaces(workspace')
         /\ \/ UNCHANGED history
            \/ \E entry \in Edited : Remembers(Append(history[inUse].undo, entry), << >>)
         /\ \E step \in {"save", "fail"} : Calls("update", by, step, inUse)
  <1> DEFINE inv == workspace[inUse]
             v == inv.element[e]
  <1>1. inv \in GuiInventory /\ v \in Content \cup {Removed}
    <2>1. inv \in GuiInventory
      BY DEF DeskContents
    <2>2. QED
      BY <2>1, ElementIs
  <1>2. CASE Calls("update", by, "fail", inUse) /\ UNCHANGED <<workspace, page, history>>
    BY <1>2
  <1>3. CASE ~(Calls("update", by, "fail", inUse) /\ UNCHANGED <<workspace, page, history>>)
    <2>1. PICK typ \in Content :
            LET fields == EditsFields(v, typ)
                new == Applied(v, Only(typ, fields))
                entry == [of |-> e, before |-> Only(v, fields), after |-> Only(new, fields)]
            IN  /\ v # Removed /\ fields # {}
                /\ workspace' = [workspace EXCEPT ![inUse] = WithElement(inv, e, new)]
                /\ \/ /\ Remembers(Append(history[inUse].undo, entry), << >>)
                      /\ Calls("update", by, "save", inUse)
                   \/ Unnoted /\ Calls("update", by, "fail", inUse)
      BY <1>3, Zenon DEF Update, Changed
    <2> DEFINE fields == EditsFields(v, typ)
               new == Applied(v, Only(typ, fields))
               entry == [of |-> e, before |-> Only(v, fields), after |-> Only(new, fields)]
    <2>2. v \in Content /\ fields \in SUBSET {"alias", "cnf"} /\ fields # {}
      BY <1>1, <2>1 DEF EditsFields
    <2> HIDE DEF fields, v, inv
    <2>3. IsChange(Only(typ, fields)) /\ IsChange(Only(v, fields))
      BY <2>2, OnlyIs
    <2>4. new \in Content
      BY <2>2, <2>3, AppliedIs
    <2> HIDE DEF new
    <2>5. IsChange(Only(new, fields))
      BY <2>2, <2>4, OnlyIs
    <2>6. entry \in Edited
      BY <2>3, <2>5 DEF Edited, Entry, IsChange
    <2>7. WithElement(inv, e, new) \in GuiInventory
      BY <1>1, <2>4, ElementIs
    <2>8. /\ workspace' = [workspace EXCEPT ![inUse] = WithElement(inv, e, new)]
          /\ \/ /\ Remembers(Append(history[inUse].undo, entry), << >>)
                /\ Calls("update", by, "save", inUse)
             \/ Unnoted /\ Calls("update", by, "fail", inUse)
      BY <2>1, Zenon DEF fields, new, v, inv
    <2>9. Replaces(workspace')
      BY <2>7, <2>8 DEF Replaces
    <2> HIDE DEF entry
    <2>10. QED
      BY <2>6, <2>8, <2>9 DEF Unnoted
  <1>4. QED
    BY <1>2, <1>3
\* Who goes back an edit, or forward again.
LEMMA ApplyIs ==
  ASSUME DeskContents, inUse \in GuiProject, ApplyHistory
  PROVE  /\ UNCHANGED workspace \/ Replaces(workspace')
         /\ \/ UNCHANGED history
            \/ /\ history[inUse].undo # << >>
               /\ Remembers(Front(history[inUse].undo), Append(history[inUse].redo, Last(history[inUse].undo)))
            \/ /\ history[inUse].redo # << >>
               /\ Remembers(Append(history[inUse].undo, Last(history[inUse].redo)), Front(history[inUse].redo))
         /\ \E step \in {"save", "fail"} : Calls(call.kind, "user", step, inUse)
  <1> DEFINE undo == call.kind = "undo"
             from == Source(undo)
             entry == Last(from)
             target == IF undo THEN entry.before ELSE entry.after
             inv == workspace[inUse]
  <1>1. CASE Calls(call.kind, "user", "fail", inUse) /\ UNCHANGED <<workspace, page, history>>
    BY <1>1
  <1>2. CASE ~(Calls(call.kind, "user", "fail", inUse) /\ UNCHANGED <<workspace, page, history>>)
    <2>1. /\ MayApply(inv, entry.of, target)
          /\ workspace' = [workspace EXCEPT ![inUse] = WithElement(inv, entry.of, Applied(inv.element[entry.of], target))]
          /\ \/ /\ IF undo THEN Remembers(Front(from), Append(history[inUse].redo, entry))
                   ELSE Remembers(Append(history[inUse].undo, entry), Front(from))
                /\ Calls(call.kind, "user", "save", inUse)
             \/ Unnoted /\ Calls(call.kind, "user", "fail", inUse)
      BY <1>2, Zenon DEF ApplyHistory, Changed
    <2>2. from # << >>
      BY DEF DeskContents, ApplyHistory
    <2>3. from \in Seq(Edited) /\ inv \in GuiInventory
      BY DEF DeskContents, Histories, Source
    <2> HIDE DEF from, inv
    <2>4. entry \in Edited
      BY <2>2, <2>3, ElementOfSeq DEF Last
    <2>5. IsChange(target) /\ entry.of \in GuiElement
      BY <2>4 DEF Edited, Entry
    <2> HIDE DEF entry, target
    <2>6. inv.element[entry.of] \in Content
      <3>1. inv.element[entry.of] # Removed
        BY <2>1, Zenon DEF MayApply
      <3>2. QED
        BY <2>3, <2>5, <3>1 DEF GuiInventory
    <2>7. WithElement(inv, entry.of, Applied(inv.element[entry.of], target)) \in GuiInventory
      <3>1. Applied(inv.element[entry.of], target) \in Content
        BY <2>5, <2>6, AppliedIs
      <3>2. QED
        BY <2>3, <2>5, <3>1, ElementIs
    <2>8. Replaces(workspace')
      BY <2>1, <2>7 DEF Replaces
    <2>9. CASE undo
      <3>1. from = history[inUse].undo
        BY <2>9 DEF from, Source
      <3>2. QED
        BY <2>1, <2>2, <2>8, <2>9, <3>1 DEF entry, Unnoted
    <2>10. CASE ~undo
      <3>1. from = history[inUse].redo
        BY <2>10 DEF from, Source
      <3>2. QED
        BY <2>1, <2>2, <2>8, <2>10, <3>1 DEF entry, Unnoted
    <2>11. QED
      BY <2>9, <2>10
  <1>3. QED
    BY <1>1, <1>2

\* No more than may be kept, or one edit more, which forgets the oldest.
Fits(undo, redo) ==
    Len(undo) + Len(redo) <= MaxHistory \/ (redo = << >> /\ Len(undo) <= MaxHistory + 1)

LEMMA LengthIs == ASSUME NEW S, NEW s \in Seq(S) PROVE Len(s) \in Nat
  OBVIOUS

LEMMA PartsOfSum ==
  ASSUME NEW a \in Nat, NEW b \in Nat, NEW m \in Nat, a + b <= m
  PROVE  a <= m /\ b <= m /\ a + 1 <= m + 1
  OBVIOUS

LEMMA LessOfSum ==
  ASSUME NEW a \in Nat, NEW b \in Nat, NEW m \in Nat, a + b <= m,
         NEW c \in Nat, NEW d \in Nat, c <= a, d <= b
  PROVE  c + d <= m
  OBVIOUS

LEMMA SumTurned == ASSUME NEW a \in Nat, NEW b \in Nat, NEW m, a + b <= m PROVE b + a <= m
  OBVIOUS

LEMMA MovedInSum ==
  ASSUME NEW a \in Nat, NEW b \in Nat, NEW m \in Nat, a + b <= m,
         NEW c \in Nat, NEW d \in Nat, c = a - 1, d = b + 1
  PROVE  c + d <= m /\ d + c <= m
  OBVIOUS

\* What is remembered.
LEMMA Remembered ==
  ASSUME DeskContents, inUse \in GuiProject, NEW undo \in Seq(Edited), NEW redo \in Seq(Edited),
         Fits(undo, redo), Remembers(undo, redo)
  PROVE  /\ history' \in [GuiProject -> Histories]
         /\ \A p \in GuiProject : Len(history'[p].undo) + Len(history'[p].redo) <= MaxHistory
  <1>1. Len(redo) \in Nat /\ (redo = << >> => Len(redo) = 0)
    OBVIOUS
  <1>2. Recent(undo) \in Seq(Edited) /\ Len(Recent(undo)) + Len(redo) <= MaxHistory
    BY <1>1, RecentIs DEF Fits
  <1>3. history' = [history EXCEPT ![inUse] = [undo |-> Recent(undo), redo |-> redo]]
    BY DEF Remembers
  <1>4. [undo |-> Recent(undo), redo |-> redo] \in Histories
    BY <1>2 DEF Histories
  <1>5. history \in [GuiProject -> Histories]
        /\ \A p \in GuiProject : Len(history[p].undo) + Len(history[p].redo) <= MaxHistory
    BY DEF DeskContents
  <1>6. history' \in [GuiProject -> Histories]
    BY <1>3, <1>4, <1>5
  <1>7. ASSUME NEW p \in GuiProject PROVE Len(history'[p].undo) + Len(history'[p].redo) <= MaxHistory
    <2>1. history'[p] = IF p = inUse THEN [undo |-> Recent(undo), redo |-> redo] ELSE history[p]
      BY <1>3, <1>5
    <2>2. CASE p = inUse
      BY <1>2, <2>1, <2>2
    <2>3. CASE p # inUse
      BY <1>5, <2>1, <2>3
    <2>4. QED
      BY <2>2, <2>3
  <1>8. QED
    BY <1>6, <1>7

LEMMA ForgottenIs ==
  ASSUME NEW s \in Seq(Edited), NEW e
  PROVE  ForgetElement(s, e) \in Seq(Edited) /\ Len(ForgetElement(s, e)) <= Len(s)
  <1> DEFINE places == {i \in DOMAIN s : s[i].of # e}
  <1>1. Len(s) \in Nat /\ places \in SUBSET (1..Len(s)) /\ places \in SUBSET (DOMAIN s)
    OBVIOUS
  <1>2. ForgetElement(s, e) \in Seq(Edited)
    BY <1>1, PlacesTaken DEF ForgetElement
  <1>3. IsFiniteSet(1..Len(s)) /\ Cardinality(1..Len(s)) = Len(s)
    <2>1. \A n \in Nat : IsFiniteSet(1..n) /\ Cardinality(1..n) = IF 1 > n THEN 0 ELSE n - 1 + 1
      BY FS_Interval
    <2>2. \A n \in Nat : (IF 1 > n THEN 0 ELSE n - 1 + 1) = n
      OBVIOUS
    <2>3. QED
      BY <1>1, <2>1, <2>2
  <1>4. Cardinality(places) \in Nat /\ Cardinality(places) <= Len(s)
    BY <1>1, <1>3, FS_Subset, FS_CardinalityType
  <1>5. Len(ForgetElement(s, e)) = Cardinality(places)
    <2>1. ForgetElement(s, e) = [k \in 1..Cardinality(places) |-> s[Nth(places, k)]]
      BY Zenon DEF ForgetElement, AtPlaces
    <2> HIDE DEF places
    <2>2. QED
      BY <1>2, <1>4, <2>1
  <1>6. QED
    BY <1>2, <1>4, <1>5
LEMMA DeleteIs ==
  ASSUME DeskContents, inUse \in GuiProject, NEW e \in GuiElement, DeleteElement(e)
  PROVE  /\ Replaces(workspace')
         /\ \/ UNCHANGED history
            \/ Remembers(ForgetElement(history[inUse].undo, e), ForgetElement(history[inUse].redo, e))
         /\ \E step \in {"save", "fail"} : Calls("delete", "user", step, inUse)
  <1>1. WithElement(workspace[inUse], e, Removed) \in GuiInventory
    <2>1. workspace[inUse] \in GuiInventory
      BY DEF DeskContents
    <2>2. QED
      BY <2>1, ElementIs
  <1>2. Replaces(workspace')
    BY <1>1 DEF DeleteElement, Changed, Replaces
  <1>3. QED
    BY <1>2 DEF DeleteElement, Unnoted

\* What the steps that note no edit make of the inventories.
Changing ==
    \/ \E e \in GuiElement : DeleteElement(e) \/ UpdateByUser(e) \/ UpdateByQuestion(e)
    \/ ApplyHistory

Unchanging ==
    \/ Question \/ SaveChange \/ CallFails \/ CallReturns \/ CancelGuiScan \/ GuiScanEnds \/ ActivateProject
    \/ Ask \/ StartGuiScan \/ SaveByUser \/ SaveProject \/ LeaveProject \/ LeaveFails \/ RequestClose
    \/ \E b \in BOOLEAN : CheckHistory(b) \/ ChangeRest(b)
    \/ Type \/ ReloadPage \/ OtherSessionWrites
    \/ UNCHANGED desktopVars

LEMMA InventoriesOf ==
  ASSUME DeskContents, inUse \in GuiProject, Unchanging
  PROVE  /\ UNCHANGED workspace \/ Replaces(workspace')
         /\ UNCHANGED vlf \/ vlf' = [vlf EXCEPT ![inUse] = workspace[inUse]]
  <1>1. workspace[inUse] \in GuiInventory /\ vlf[inUse] \in GuiInventory
    BY DEF DeskContents
  <1>2. CASE LeaveProject \/ RequestClose
    BY <1>1, <1>2 DEF LeaveProject, RequestClose, Discards, Replaces
  <1>3. CASE OtherSessionWrites
    <2>1. PICK e \in GuiElement, v \in Content \cup {Removed} :
             workspace' = [workspace EXCEPT ![inUse] = WithElement(@, e, v)]
      BY <1>3 DEF OtherSessionWrites
    <2>2. workspace' = [workspace EXCEPT ![inUse] = WithElement(workspace[inUse], e, v)]
      BY <2>1
    <2>3. WithElement(workspace[inUse], e, v) \in GuiInventory
      BY <1>1, ElementIs
    <2>4. QED
      BY <1>3, <2>2, <2>3 DEF Replaces, OtherSessionWrites
  <1>4. CASE GuiScanEnds \/ \E b \in BOOLEAN : ChangeRest(b)
    <2>1. [workspace[inUse] EXCEPT !.touched = TRUE] \in GuiInventory
      BY <1>1 DEF GuiInventory
    <2>2. QED
      BY <1>4, <2>1 DEF GuiScanEnds, ChangeRest, Changed, Replaces
  <1>5. CASE SaveChange \/ SaveByUser \/ SaveProject
    BY <1>5 DEF SaveChange, SaveByUser, SaveProject
  <1>6. CASE Question
    BY <1>6 DEF Question, AskState, ReadState, Refused, Decided, Dismiss, NothingTyped, AnswerSave
  <1>7. CASE CallFails \/ CallReturns \/ CancelGuiScan \/ ActivateProject \/ Ask \/ StartGuiScan \/ LeaveFails
             \/ (\E b \in BOOLEAN : CheckHistory(b)) \/ Type \/ ReloadPage \/ UNCHANGED desktopVars
    BY <1>7 DEF CallFails, CallReturns, CancelGuiScan, ActivateProject, Ask, StartGuiScan, LeaveFails,
       CheckHistory, Type, ReloadPage, desktopVars
  <1>8. QED
    BY <1>2, <1>3, <1>4, <1>5, <1>6, <1>7 DEF Unchanging

LEMMA HistoryOf ==
  ASSUME DeskInv, DeskContents, Unchanging
  PROVE  /\ UNCHANGED history \/ history' = [p \in GuiProject |-> NoHistory]
         /\ call'.step = "apply" =>
               UNCHANGED history /\ UNCHANGED inUse /\ Source(call'.kind = "undo") # << >>
         /\ UNCHANGED edits /\ foreign' \in 0..MaxForeign
  <1>1. NoCall.step # "apply" /\ call \in DeskCall /\ (call = NoCall \/ call # NoCall)
    BY DEF NoCall, DeskInv, DeskTyped
  <1>2. foreign \in 0..MaxForeign /\ MaxForeign \in Nat
    BY DesktopAssumption DEF DeskContents, DesktopAssumption
  <1>3. CASE RequestClose
    BY <1>1, <1>2, <1>3 DEF RequestClose, Closes, countersVars, DeskContents, deskVars
  <1>4. CASE OtherSessionWrites
    <2>1. foreign' = foreign + 1 /\ foreign < MaxForeign
      BY <1>4 DEF OtherSessionWrites
    <2>2. foreign' \in 0..MaxForeign
      BY <1>2, <2>1
    <2>3. QED
      BY <1>1, <1>4, <2>2 DEF OtherSessionWrites, DeskContents, deskVars
  <1>5. CASE \E b \in BOOLEAN : CheckHistory(b)
    <2>1. PICK b \in BOOLEAN : CheckHistory(b)
      BY <1>5
    <2>2. Source(b) # << >> /\ UNCHANGED <<history, inUse>> /\ call = NoCall
      BY <2>1 DEF CheckHistory, deskVars, ByUser
    <2>3. UNCHANGED call \/ Calls(IF b THEN "undo" ELSE "redo", "user", "apply", inUse)
      BY <2>1 DEF CheckHistory
    <2>4. call'.step = "apply" => (call'.kind = "undo" <=> b)
      BY <1>1, <2>2, <2>3 DEF Calls
    <2>5. call'.step = "apply" => Source(call'.kind = "undo") # << >>
      BY <2>2, <2>4 DEF Source
    <2>6. QED
      BY <1>2, <2>1, <2>2, <2>5 DEF CheckHistory, countersVars
  <1>6. CASE SaveChange \/ CallFails \/ CallReturns \/ ActivateProject
    BY <1>1, <1>2, <1>6 DEF SaveChange, CallFails, CallReturns, ActivateProject, Returns, Fail, countersVars
  <1>7. CASE CancelGuiScan \/ GuiScanEnds
    <2>1. call'.step # "apply"
      <3>1. \E step \in {"save", "fail", "cancelled"} : call' = [call EXCEPT !.step = step]
        BY <1>7 DEF CancelGuiScan, GuiScanEnds
      <3>2. QED
        BY <1>1, <3>1 DEF DeskCall
    <2>2. QED
      BY <1>2, <1>7, <2>1 DEF CancelGuiScan, GuiScanEnds, countersVars
  <1>8. CASE Ask \/ StartGuiScan \/ LeaveProject \/ \E b \in BOOLEAN : ChangeRest(b)
    BY <1>1, <1>2, <1>8 DEF Ask, StartGuiScan, LeaveProject, ChangeRest, Calls, countersVars
  <1>9. CASE Question \/ SaveByUser \/ SaveProject \/ LeaveFails \/ Type \/ ReloadPage \/ UNCHANGED desktopVars
    <2>1. UNCHANGED <<history, inUse, call, edits, foreign>>
      BY <1>9 DEF Question, AskState, ReadState, Refused, Decided, Dismiss, NothingTyped, AnswerSave,
         SaveByUser, SaveProject, LeaveFails, Type, ReloadPage, desktopVars, deskVars, countersVars
    <2>2. QED
      BY <1>2, <2>1 DEF DeskContents
  <1>10. QED
    BY <1>3, <1>4, <1>5, <1>6, <1>7, <1>8, <1>9 DEF Unchanging
\* A history that holds nothing.
LEMMA NothingRemembered ==
  /\ NoHistory \in Histories
  /\ Len(NoHistory.undo) + Len(NoHistory.redo) <= MaxHistory
  <1>1. << >> \in Seq(Edited) /\ Len(<< >>) = 0
    OBVIOUS
  <1>2. NoHistory.undo = << >> /\ NoHistory.redo = << >> /\ NoHistory \in Histories
    BY <1>1 DEF NoHistory, Histories
  <1>3. MaxHistory \in Nat
    BY DesktopAssumption DEF DesktopAssumption
  <1>4. Len(NoHistory.undo) = 0 /\ Len(NoHistory.redo) = 0
    BY <1>1, <1>2
  <1>5. Len(NoHistory.undo) + Len(NoHistory.redo) <= MaxHistory
    BY <1>3, <1>4
  <1>6. QED
    BY <1>2, <1>5

LEMMA ContentsKeep == ASSUME DeskInv, DeskContents, [DesktopNext]_desktopVars PROVE DeskContents'
  <1>1. inUse \in GuiProject /\ workspace \in [GuiProject -> GuiInventory] /\ vlf \in [GuiProject -> GuiInventory]
    BY DEF DeskInv, DeskTyped, DeskContents
  <1>2. Unchanging \/ Changing
    BY DEF DesktopNext, Call, Unchanging, Changing
  <1>3. ASSUME UNCHANGED workspace \/ Replaces(workspace')
        PROVE  workspace' \in [GuiProject -> GuiInventory]
    BY <1>1, <1>3 DEF Replaces
  <1>4. CASE Unchanging
    <2>1. workspace' \in [GuiProject -> GuiInventory]
      BY <1>1, <1>3, <1>4, InventoriesOf
    <2>2. vlf' \in [GuiProject -> GuiInventory]
      BY <1>1, <1>4, InventoriesOf
    <2>3. /\ history' \in [GuiProject -> Histories]
          /\ \A p \in GuiProject : Len(history'[p].undo) + Len(history'[p].redo) <= MaxHistory
      <3>1. CASE UNCHANGED history
        BY <3>1 DEF DeskContents
      <3>2. CASE history' = [p \in GuiProject |-> NoHistory]
        BY <3>2, NothingRemembered
      <3>3. QED
        BY <1>4, <3>1, <3>2, HistoryOf
    <2>4. /\ call'.step = "apply" => (Source(call.kind = "undo") # << >>)'
          /\ edits' \in 0..MaxGuiEdits /\ foreign' \in 0..MaxForeign
      <3>1. UNCHANGED edits /\ foreign' \in 0..MaxForeign
        BY <1>4, HistoryOf
      <3>2. ASSUME call'.step = "apply" PROVE (Source(call.kind = "undo") # << >>)'
        <4>1. UNCHANGED history /\ UNCHANGED inUse /\ Source(call'.kind = "undo") # << >>
          BY <1>4, <3>2, HistoryOf
        <4>2. QED
          BY <4>1 DEF Source
      <3>3. QED
        BY <3>1, <3>2 DEF DeskContents
    <2>5. QED
      BY <2>1, <2>2, <2>3, <2>4 DEF DeskContents
  <1>5. CASE Changing
    <2>1. /\ UNCHANGED workspace \/ Replaces(workspace')
          /\ UNCHANGED vlf /\ edits' \in 0..MaxGuiEdits /\ UNCHANGED foreign
          /\ call'.step # "apply"
      <3>1. MaxGuiEdits \in Nat /\ edits \in 0..MaxGuiEdits
        BY DesktopAssumption DEF DeskContents, DesktopAssumption
      <3>2. ASSUME NEW e \in GuiElement, UpdateByUser(e) \/ UpdateByQuestion(e)
            PROVE  /\ UNCHANGED workspace \/ Replaces(workspace')
                   /\ UNCHANGED vlf /\ edits' \in 0..MaxGuiEdits /\ UNCHANGED foreign
                   /\ call'.step # "apply"
        <4>1. PICK by \in {"user", "question"} : Update(by, e)
          BY <3>2 DEF UpdateByUser, UpdateByQuestion
        <4>2. edits < MaxGuiEdits /\ edits' = edits + 1 /\ UNCHANGED <<vlf, foreign>>
          BY <4>1 DEF Update
        <4>3. edits' \in 0..MaxGuiEdits
          BY <3>1, <4>2
        <4>4. UNCHANGED workspace \/ Replaces(workspace')
          BY <1>1, <4>1, UpdateIs
        <4>5. \E step \in {"save", "fail"} : Calls("update", by, step, inUse)
          BY <1>1, <4>1, UpdateIs
        <4>6. call'.step # "apply"
          BY <4>5 DEF Calls
        <4>7. QED
          BY <4>2, <4>3, <4>4, <4>6
      <3>3. ASSUME NEW e \in GuiElement, DeleteElement(e)
            PROVE  /\ UNCHANGED workspace \/ Replaces(workspace')
                   /\ UNCHANGED vlf /\ edits' \in 0..MaxGuiEdits /\ UNCHANGED foreign
                   /\ call'.step # "apply"
        <4>1. Replaces(workspace') /\ \E step \in {"save", "fail"} : Calls("delete", "user", step, inUse)
          BY <1>1, <3>3, DeleteIs
        <4>2. call'.step # "apply"
          BY <4>1 DEF Calls
        <4>3. QED
          BY <3>1, <3>3, <4>1, <4>2 DEF DeleteElement, countersVars
      <3>4. ASSUME ApplyHistory
            PROVE  /\ UNCHANGED workspace \/ Replaces(workspace')
                   /\ UNCHANGED vlf /\ edits' \in 0..MaxGuiEdits /\ UNCHANGED foreign
                   /\ call'.step # "apply"
        <4>1. UNCHANGED workspace \/ Replaces(workspace')
          BY <1>1, <3>4, ApplyIs
        <4>2. \E step \in {"save", "fail"} : Calls(call.kind, "user", step, inUse)
          BY <1>1, <3>4, ApplyIs
        <4>3. call'.step # "apply"
          BY <4>2 DEF Calls
        <4>4. QED
          BY <3>1, <3>4, <4>1, <4>3 DEF ApplyHistory, countersVars
      <3>5. QED
        BY <1>5, <3>2, <3>3, <3>4 DEF Changing
    <2>2. /\ history' \in [GuiProject -> Histories]
          /\ \A p \in GuiProject : Len(history'[p].undo) + Len(history'[p].redo) <= MaxHistory
      <3> DEFINE h == history[inUse]
      <3>1. /\ h.undo \in Seq(Edited) /\ h.redo \in Seq(Edited)
            /\ Len(h.undo) + Len(h.redo) <= MaxHistory
            /\ Len(h.undo) \in Nat /\ Len(h.redo) \in Nat
        <4>1. h \in Histories /\ Len(h.undo) + Len(h.redo) <= MaxHistory
          BY <1>1 DEF DeskContents
        <4>2. h.undo \in Seq(Edited) /\ h.redo \in Seq(Edited)
          BY <4>1 DEF Histories
        <4>3. Len(h.undo) \in Nat /\ Len(h.redo) \in Nat
          BY <4>2, LengthIs
        <4>4. QED
          BY <4>1, <4>2, <4>3, Zenon
      <3>2. CASE UNCHANGED history
        BY <3>2 DEF DeskContents
      <3>m. MaxHistory \in Nat
        BY DesktopAssumption DEF DesktopAssumption
      <3>3. ASSUME NEW entry \in Edited, Remembers(Append(h.undo, entry), << >>)
            PROVE  /\ history' \in [GuiProject -> Histories]
                   /\ \A p \in GuiProject : Len(history'[p].undo) + Len(history'[p].redo) <= MaxHistory
        <4> HIDE DEF h
        <4>1. Append(h.undo, entry) \in Seq(Edited) /\ Len(Append(h.undo, entry)) = Len(h.undo) + 1
          BY <3>1
        <4>2. Len(h.undo) + 1 <= MaxHistory + 1
          BY <3>1, <3>m, PartsOfSum
        <4>3. << >> \in Seq(Edited) /\ Fits(Append(h.undo, entry), << >>)
          BY <4>1, <4>2 DEF Fits
        <4>4. QED
          BY <1>1, <3>3, <4>1, <4>3, Remembered
      <3>4. ASSUME h.undo # << >>, Remembers(Front(h.undo), Append(h.redo, Last(h.undo)))
            PROVE  /\ history' \in [GuiProject -> Histories]
                   /\ \A p \in GuiProject : Len(history'[p].undo) + Len(history'[p].redo) <= MaxHistory
        <4> HIDE DEF h
        <4>1. Last(h.undo) \in Edited /\ Front(h.undo) \in Seq(Edited) /\ Len(Front(h.undo)) = Len(h.undo) - 1
          BY <3>1, <3>4 DEF Front, Last
        <4>2. Append(h.redo, Last(h.undo)) \in Seq(Edited) /\ Len(Append(h.redo, Last(h.undo))) = Len(h.redo) + 1
          BY <3>1, <4>1
        <4>3. Fits(Front(h.undo), Append(h.redo, Last(h.undo)))
          <5>1. Len(Front(h.undo)) \in Nat /\ Len(Append(h.redo, Last(h.undo))) \in Nat
            BY <4>1, <4>2, LengthIs
          <5>2. Len(Front(h.undo)) + Len(Append(h.redo, Last(h.undo))) <= MaxHistory
            BY <3>1, <3>m, <4>1, <4>2, <5>1, MovedInSum
          <5>3. QED
            BY <5>2 DEF Fits
        <4>4. QED
          BY <1>1, <3>4, <4>1, <4>2, <4>3, Remembered
      <3>5. ASSUME h.redo # << >>, Remembers(Append(h.undo, Last(h.redo)), Front(h.redo))
            PROVE  /\ history' \in [GuiProject -> Histories]
                   /\ \A p \in GuiProject : Len(history'[p].undo) + Len(history'[p].redo) <= MaxHistory
        <4> HIDE DEF h
        <4>1. Last(h.redo) \in Edited /\ Front(h.redo) \in Seq(Edited) /\ Len(Front(h.redo)) = Len(h.redo) - 1
          BY <3>1, <3>5 DEF Front, Last
        <4>2. Append(h.undo, Last(h.redo)) \in Seq(Edited) /\ Len(Append(h.undo, Last(h.redo))) = Len(h.undo) + 1
          BY <3>1, <4>1
        <4>3. Fits(Append(h.undo, Last(h.redo)), Front(h.redo))
          <5>1. Len(Append(h.undo, Last(h.redo))) \in Nat /\ Len(Front(h.redo)) \in Nat
            BY <4>1, <4>2, LengthIs
          <5>s. Len(h.redo) + Len(h.undo) <= MaxHistory
            BY <3>1, <3>m, SumTurned
          <5>2. Len(Append(h.undo, Last(h.redo))) + Len(Front(h.redo)) <= MaxHistory
            BY <3>1, <3>m, <4>1, <4>2, <5>1, <5>s, MovedInSum
          <5>3. QED
            BY <5>2 DEF Fits
        <4>4. QED
          BY <1>1, <3>5, <4>1, <4>2, <4>3, Remembered
      <3>6. ASSUME NEW e \in GuiElement, Remembers(ForgetElement(h.undo, e), ForgetElement(h.redo, e))
            PROVE  /\ history' \in [GuiProject -> Histories]
                   /\ \A p \in GuiProject : Len(history'[p].undo) + Len(history'[p].redo) <= MaxHistory
        <4> HIDE DEF h
        <4>1. /\ ForgetElement(h.undo, e) \in Seq(Edited) /\ Len(ForgetElement(h.undo, e)) <= Len(h.undo)
              /\ ForgetElement(h.redo, e) \in Seq(Edited) /\ Len(ForgetElement(h.redo, e)) <= Len(h.redo)
          BY <3>1, ForgottenIs
        <4>2. Len(ForgetElement(h.undo, e)) \in Nat /\ Len(ForgetElement(h.redo, e)) \in Nat
          BY <4>1
        <4>3. Fits(ForgetElement(h.undo, e), ForgetElement(h.redo, e))
          <5>1. Len(ForgetElement(h.undo, e)) + Len(ForgetElement(h.redo, e)) <= MaxHistory
            BY <3>1, <3>m, <4>1, <4>2, LessOfSum
          <5>2. QED
            BY <5>1 DEF Fits
        <4>4. QED
          BY <1>1, <3>6, <4>1, <4>3, Remembered
      <3>7. CASE \E e \in GuiElement : DeleteElement(e)
        BY <1>1, <3>2, <3>6, <3>7, DeleteIs
      <3>8. CASE \E e \in GuiElement : UpdateByUser(e) \/ UpdateByQuestion(e)
        BY <1>1, <3>2, <3>3, <3>8, UpdateIs DEF UpdateByUser, UpdateByQuestion
      <3>9. CASE ApplyHistory
        BY <1>1, <3>2, <3>4, <3>5, <3>9, ApplyIs
      <3>10. QED
        BY <1>5, <3>7, <3>8, <3>9 DEF Changing
    <2>3. QED
      BY <1>3, <1>1, <2>1, <2>2 DEF DeskContents
  <1>6. QED
    BY <1>2, <1>4, <1>5

LEMMA ContentsStart == DesktopInit => DeskContents
  <1> SUFFICES ASSUME DesktopInit PROVE DeskContents
    OBVIOUS
  <1>1. [element |-> [e \in GuiElement |-> [alias |-> "", cnf |-> "X"]], touched |-> FALSE] \in GuiInventory
        /\ NothingIn \in GuiInventory
    BY DEF GuiInventory, Content, Mark, NothingIn
  <1>2. vlf \in [GuiProject -> GuiInventory] /\ workspace = vlf
    BY <1>1 DEF DesktopInit
  <1>4. MaxHistory \in Nat /\ MaxGuiEdits \in Nat /\ MaxForeign \in Nat
    BY DesktopAssumption DEF DesktopAssumption
  <1>5. history \in [GuiProject -> Histories]
        /\ \A p \in GuiProject : Len(history[p].undo) + Len(history[p].redo) <= MaxHistory
    BY NothingRemembered DEF DesktopInit
  <1>6. call.step # "apply" /\ edits = 0 /\ foreign = 0
    BY DEF DesktopInit, NoCall
  <1>7. edits \in 0..MaxGuiEdits /\ foreign \in 0..MaxForeign
    BY <1>4, <1>6
  <1>8. QED
    BY <1>2, <1>5, <1>6, <1>7 DEF DeskContents

\* Inventories hold elements and their values, an edit that is undone has fields of both, and of
\* edits as many are kept as may be, those that can be redone included; while one is applied again
\* it is there (gui/main.py, _edit_histories, _apply_edit_history).
THEOREM DesktopTypes == DesktopSpec => []DesktopTypeOK
  <1>1. DeskInv /\ DeskContents => DesktopTypeOK
    <2> SUFFICES ASSUME DeskInv, DeskContents PROVE DesktopTypeOK
      OBVIOUS
    <2>1. ASSUME NEW p \in GuiProject, NEW s \in {history[p].undo, history[p].redo}
          PROVE  Len(s) <= MaxHistory /\ \A i \in DOMAIN s : s[i] \in Entry
      <3>1. /\ history[p].undo \in Seq(Edited) /\ history[p].redo \in Seq(Edited)
            /\ Len(history[p].undo) + Len(history[p].redo) <= MaxHistory
        BY DEF DeskContents, Histories
      <3>2. Len(history[p].undo) \in Nat /\ Len(history[p].redo) \in Nat
        BY <3>1
      <3>3. MaxHistory \in Nat
        BY DesktopAssumption DEF DesktopAssumption
      <3>4. Len(history[p].undo) <= MaxHistory /\ Len(history[p].redo) <= MaxHistory
        BY <3>1, <3>2, <3>3, PartsOfSum
      <3>5. Len(s) <= MaxHistory /\ \A i \in DOMAIN s : s[i] \in Edited
        BY <3>1, <3>4
      <3>6. QED
        BY <3>5 DEF Edited
    <2>2. call.by = "question" => Asked
      BY DEF DeskInv, QuestionOK, Asking, Asked, Goal
    <2>3. page.stale \subseteq GuiElement /\ (page.question.goal = "none" <=> page.question.at = "none")
      BY DEF DeskInv, DeskTyped, Page, QuestionOK, Goal, Asking
    <2>4. inUse \in known /\ known \subseteq GuiProject
      BY DEF DeskInv, DeskTyped
    <2>5. QED
      BY <2>1, <2>2, <2>3, <2>4 DEF DesktopTypeOK, DeskContents
  <1>2. DesktopSpec => [](DeskInv /\ DeskContents)
    BY ContentsStart, ContentsKeep, DeskStarts, DeskSteps, PTL DEF DesktopSpec
  <1>3. QED
    BY <1>1, <1>2, PTL

-----------------------------------------------------------------------------
(* MonitorStorage: elements in an order, folds *)

\* From the first to the last, one after another.
LEMMA OneByOne ==
  ASSUME NEW n \in Nat, NEW S, 0 \in S, \A i \in 0..(n - 1) : i \in S => i + 1 \in S
  PROVE  \A i \in 0..n : i \in S
  <1> DEFINE left == {i \in 0..n : i \notin S}
  <1>1. SUFFICES ASSUME left # {} PROVE FALSE
    OBVIOUS
  <1>2. left \in SUBSET Nat
    OBVIOUS
  <1>3. PICK i \in left : \A j \in left : i <= j
    BY <1>1, <1>2, LeastOf, Zenon
  <1>4. i \in 0..n /\ i \notin S /\ i # 0
    OBVIOUS
  <1>5. i - 1 \in 0..(n - 1) /\ i - 1 \in 0..n /\ (i - 1) + 1 = i /\ ~(i <= i - 1)
    BY <1>4
  <1>6. i - 1 \notin S
    BY <1>4, <1>5
  <1>7. i - 1 \in left
    BY <1>5, <1>6
  <1>8. QED
    BY <1>3, <1>5, <1>7

\* Of each element of a set, those an order has before it.
StrictOrder(below, S) ==
    /\ below \in [S -> SUBSET S]
    /\ \A x \in S : x \notin below[x]
    /\ \A x, y \in S : x = y \/ x \in below[y] \/ y \in below[x]
    /\ \A x, y, z \in S : x \in below[y] /\ y \in below[z] => x \in below[z]

\* How many elements of a finite set an order has before each of them.
LEMMA Ranks ==
  ASSUME NEW S, IsFiniteSet(S), NEW below, StrictOrder(below, S)
  PROVE  /\ Cardinality(S) \in Nat
         /\ \A x \in S : Cardinality(below[x]) \in 0..(Cardinality(S) - 1)
         /\ \A x, y \in S : x \in below[y] <=> Cardinality(below[x]) < Cardinality(below[y])
         /\ \A k \in 0..(Cardinality(S) - 1) : \E x \in S : Cardinality(below[x]) = k
  <1> DEFINE n == Cardinality(S)
             rank == [x \in S |-> Cardinality(below[x])]
  <1>0. /\ below \in [S -> SUBSET S]
        /\ \A x \in S : x \notin below[x]
        /\ \A x, y \in S : x = y \/ x \in below[y] \/ y \in below[x]
        /\ \A x, y, z \in S : x \in below[y] /\ y \in below[z] => x \in below[z]
    BY DEF StrictOrder
  <1> USE <1>0
  <1>1. n \in Nat
    BY FS_CardinalityType
  <1>2. \A x \in S : IsFiniteSet(below[x]) /\ Cardinality(below[x]) \in Nat
    BY FS_Subset, FS_CardinalityType
  <1>3. ASSUME NEW x \in S, NEW y \in S, x \in below[y] PROVE rank[x] < rank[y]
    <2>1. below[x] \in SUBSET below[y] /\ below[x] # below[y]
      <3>1. \A z \in below[x] : z \in S /\ z \in below[y]
        BY <1>3
      <3>2. x \notin below[x]
        OBVIOUS
      <3>3. QED
        BY <1>3, <3>1, <3>2
    <2>2. Cardinality(below[x]) < Cardinality(below[y])
      <3>1. Cardinality(below[x]) <= Cardinality(below[y]) /\ (Cardinality(below[y]) = Cardinality(below[x]) => below[x] = below[y])
        BY <1>2, <2>1, FS_Subset
      <3>2. QED
        BY <1>2, <2>1, <3>1
    <2>3. QED
      BY <2>2
  <1>4. ASSUME NEW x \in S PROVE rank[x] \in 0..(n - 1)
    <2>1. below[x] \in SUBSET S /\ below[x] # S
      OBVIOUS
    <2>2. Cardinality(below[x]) <= n /\ Cardinality(below[x]) # n
      BY <2>1, FS_Subset
    <2>3. QED
      BY <1>1, <1>2, <2>2
  <1>5. rank \in Injection(S, 0..(n - 1))
    <2>1. rank \in [S -> 0..(n - 1)]
      BY <1>4
    <2>2. ASSUME NEW x \in S, NEW y \in S, rank[x] = rank[y] PROVE x = y
      <3>1. rank[x] \in Int /\ rank[y] \in Int
        BY <1>2
      <3>2. ~(rank[x] < rank[y]) /\ ~(rank[y] < rank[x])
        BY <2>2, <3>1
      <3>3. QED
        BY <1>3, <3>2
    <2> HIDE DEF rank, n
    <2>3. QED
      BY <2>1, <2>2, Zenon DEF Injection, IsInjective
  <1>6. rank \in Bijection(S, 0..(n - 1))
    <2>1. IsFiniteSet(0..(n - 1)) /\ Cardinality(0..(n - 1)) = n
      BY <1>1, FS_Interval
    <2> HIDE DEF rank, n
    <2>2. QED
      BY <1>5, <2>1, FS_Injection DEF n, Bijection
  <1>7. \A k \in 0..(n - 1) : \E x \in S : rank[x] = k
    BY <1>6 DEF Bijection, Surjection
  <1>8. ASSUME NEW x \in S, NEW y \in S, rank[x] < rank[y] PROVE x \in below[y]
    <2>1. rank[x] \in Int /\ rank[y] \in Int
      BY <1>2
    <2>2. ~(rank[y] < rank[x]) /\ x # y
      BY <1>8, <2>1
    <2>3. QED
      BY <1>3, <2>2
  <1>9. QED
    BY <1>1, <1>3, <1>4, <1>7, <1>8

\* ... and what has as many before it as its place says is in that order.
HasPlaces(p, below, S) ==
    /\ p \in [1..Cardinality(S) -> S]
    /\ \A k \in 1..Cardinality(S) : Cardinality(below[p[k]]) = k - 1

LEMMA InOrder ==
  ASSUME NEW S, IsFiniteSet(S), NEW below, StrictOrder(below, S), NEW p, HasPlaces(p, below, S)
  PROVE  /\ Cardinality(S) \in Nat
         /\ \A x \in S : \E k \in 1..Cardinality(S) : p[k] = x
         /\ \A k, l \in 1..Cardinality(S) : k < l <=> p[k] \in below[p[l]]
  <1> DEFINE n == Cardinality(S)
  <1>1. /\ n \in Nat
        /\ \A x \in S : Cardinality(below[x]) \in 0..(n - 1)
        /\ \A x, y \in S : x \in below[y] <=> Cardinality(below[x]) < Cardinality(below[y])
    BY Ranks
  <1>h. /\ p \in [1..n -> S] /\ \A k \in 1..n : Cardinality(below[p[k]]) = k - 1
        /\ \A x, y \in S : x = y \/ x \in below[y] \/ y \in below[x]
    BY DEF HasPlaces, StrictOrder
  <1> HIDE DEF n
  <1>2. ASSUME NEW x \in S PROVE \E k \in 1..n : p[k] = x
    <2> DEFINE r == Cardinality(below[x])
    <2>1. r \in 0..(n - 1)
      BY <1>1
    <2> HIDE DEF r
    <2>2. r + 1 \in 1..n /\ (r + 1) - 1 = r
      BY <1>1, <2>1
    <2>3. Cardinality(below[p[r + 1]]) = r /\ p[r + 1] \in S
      BY <1>h, <2>2
    <2>4. ~(r < r)
      BY <1>1, <2>1
    <2>5. x \notin below[p[r + 1]] /\ p[r + 1] \notin below[x]
      BY <1>1, <2>3, <2>4 DEF r
    <2>6. p[r + 1] = x
      BY <1>h, <2>3, <2>5
    <2>7. QED
      BY <2>2, <2>6
  <1>3. ASSUME NEW k \in 1..n, NEW l \in 1..n PROVE k < l <=> p[k] \in below[p[l]]
    <2>1. Cardinality(below[p[k]]) = k - 1 /\ Cardinality(below[p[l]]) = l - 1 /\ p[k] \in S /\ p[l] \in S
      BY <1>h
    <2>2. k < l <=> k - 1 < l - 1
      BY <1>1
    <2>3. QED
      BY <1>1, <2>1, <2>2
  <1>4. QED
    BY <1>1, <1>2, <1>3 DEF n

\* Of the first places of a sequence, the last.
LEMMA LastPlace ==
  ASSUME NEW m \in Nat
  PROVE  /\ Max(1..(m + 1)) = m + 1 /\ (1..(m + 1)) \ {m + 1} = 1..m /\ 1..(m + 1) # {}
         /\ 1..0 = {}
         /\ \A P \in SUBSET (1..(m + 1)) : m + 1 \in P => Max(P) = m + 1
         /\ \A P \in SUBSET (1..(m + 1)) : m + 1 \notin P => P \in SUBSET (1..m)
  <1>1. ASSUME NEW P \in SUBSET (1..(m + 1)), m + 1 \in P PROVE Max(P) = m + 1
    <2>1. \A y \in P : y \in Int /\ m + 1 >= y
      OBVIOUS
    <2>2. Max(P) \in P /\ \A y \in P : Max(P) >= y
      BY <1>1, <2>1 DEF Max
    <2>3. Max(P) \in Int /\ m + 1 >= Max(P)
      BY <2>1, <2>2
    <2>4. Max(P) >= m + 1
      BY <1>1, <2>2
    <2>5. QED
      BY <2>3, <2>4
  <1>2. m + 1 \in 1..(m + 1)
    OBVIOUS
  <1>3. Max(1..(m + 1)) = m + 1
    BY <1>1, <1>2
  <1>4. (1..(m + 1)) \ {m + 1} = 1..m /\ 1..0 = {}
    OBVIOUS
  <1>5. QED
    BY <1>1, <1>2, <1>3, <1>4

LEMMA GreatestOf ==
  ASSUME NEW n \in Nat, NEW P \in SUBSET (1..n), P # {}
  PROVE  Max(P) \in P
  <1> DEFINE D == {n - i : i \in P}
  <1>1. \A i \in P : i \in Nat /\ n - i \in Nat
    OBVIOUS
  <1>2. D \in SUBSET Nat /\ D # {}
    BY <1>1, Zenon
  <1>3. PICK d \in D : \A e \in D : d <= e
    BY <1>2, LeastOf, Zenon
  <1>4. PICK i \in P : d = n - i
    BY <1>3
  <1>5. \A j \in P : n - i <= n - j
    BY <1>3, <1>4
  <1>6. \A j \in P : i >= j
    BY <1>1, <1>5
  <1>7. QED
    BY <1>6 DEF Max

\* A fold over the places of a sequence, from the last one down, is there.
StepIn(step, A, n) == step \in [A \X (1..n) -> A]
FoldsOf(step, base, A, n) ==
    {iter \in [SUBSET (1..n) -> A] :
        \A P \in SUBSET (1..n) : iter[P] = IF P = {} THEN base ELSE step[<<iter[P \ {Max(P)}], Max(P)>>]}

LEMMA FoldExists ==
  ASSUME NEW A, NEW base \in A, NEW n \in Nat, NEW step, StepIn(step, A, n)
  PROVE  FoldsOf(step, base, A, n) # {}
  <1> DEFINE Folds(m) == {iter \in [SUBSET (1..m) -> A] :
                             \A P \in SUBSET (1..m) :
                                iter[P] = IF P = {} THEN base ELSE step[<<iter[P \ {Max(P)}], Max(P)>>]}
             There == {m \in 0..n : Folds(m) # {}}
  <1>0. step \in [A \X (1..n) -> A]
    BY DEF StepIn
  <1>1. 0 \in There
    <2> DEFINE it == [P \in SUBSET (1..0) |-> base]
    <2>1. it \in [SUBSET (1..0) -> A] /\ \A P \in SUBSET (1..0) : P = {} /\ it[P] = base
      OBVIOUS
    <2>2. it \in Folds(0)
      BY <2>1
    <2> HIDE DEF Folds
    <2>3. 0 \in 0..n /\ Folds(0) # {}
      BY <2>2
    <2>4. QED
      BY <2>3
  <1>2. ASSUME NEW m \in 0..(n - 1), m \in There PROVE m + 1 \in There
    <2>1. PICK it \in [SUBSET (1..m) -> A] :
             \A P \in SUBSET (1..m) : it[P] = IF P = {} THEN base ELSE step[<<it[P \ {Max(P)}], Max(P)>>]
      BY <1>2
    <2>2. m \in Nat /\ m + 1 \in 0..n /\ m + 1 \in 1..n
      BY <1>2
    <2> DEFINE up == [P \in SUBSET (1..(m + 1)) |->
                         IF m + 1 \in P THEN step[<<it[P \ {m + 1}], m + 1>>] ELSE it[P]]
    <2>3. ASSUME NEW P \in SUBSET (1..(m + 1))
          PROVE  up[P] \in A /\ up[P] = IF P = {} THEN base ELSE step[<<up[P \ {Max(P)}], Max(P)>>]
      <3>1. CASE m + 1 \in P
        <4>1. Max(P) = m + 1 /\ P # {}
          BY <2>2, <3>1, LastPlace
        <4>2. P \ {m + 1} \in SUBSET (1..m) /\ P \ {m + 1} \in SUBSET (1..(m + 1)) /\ m + 1 \notin P \ {m + 1}
          BY <2>2
        <4>3. up[P \ {m + 1}] = it[P \ {m + 1}] /\ it[P \ {m + 1}] \in A
          BY <4>2
        <4>4. up[P] = step[<<it[P \ {m + 1}], m + 1>>]
          BY <3>1
        <4>5. up[P] \in A
          BY <1>0, <2>2, <4>3, <4>4
        <4> HIDE DEF up
        <4>6. QED
          BY <4>1, <4>3, <4>4, <4>5
      <3>2. CASE m + 1 \notin P
        <4>1. P \in SUBSET (1..m)
          BY <2>2, <3>2, LastPlace
        <4>2. up[P] = it[P] /\ it[P] \in A
          BY <3>2, <4>1
        <4>3. P \ {Max(P)} \in SUBSET (1..m) /\ P \ {Max(P)} \in SUBSET (1..(m + 1)) /\ m + 1 \notin P \ {Max(P)}
          BY <3>2, <4>1
        <4>4. up[P \ {Max(P)}] = it[P \ {Max(P)}]
          BY <4>3
        <4> HIDE DEF up
        <4>5. QED
          BY <2>1, <4>1, <4>2, <4>4
      <3>3. QED
        BY <3>1, <3>2
    <2>4. up \in [SUBSET (1..(m + 1)) -> A]
      BY <2>3
    <2> HIDE DEF up
    <2>5. up \in Folds(m + 1)
      BY <2>3, <2>4
    <2>6. QED
      BY <2>2, <2>5
  <1> HIDE DEF There
  <1>3. n \in There
    <2>1. n \in 0..n
      OBVIOUS
    <2>2. QED
      BY <1>1, <1>2, <2>1, OneByOne
  <1>4. QED
    BY <1>3 DEF There, FoldsOf

LEMMA PlacesFinite ==
  ASSUME NEW n \in Nat
  PROVE  IsFiniteSet(1..n) /\ Cardinality(1..n) = n
  <1>1. \A m \in Nat : IsFiniteSet(1..m) /\ Cardinality(1..m) = IF 1 > m THEN 0 ELSE m - 1 + 1
    BY FS_Interval
  <1>2. \A m \in Nat : (IF 1 > m THEN 0 ELSE m - 1 + 1) = m
    OBVIOUS
  <1>3. QED
    BY <1>1, <1>2

\* Two folds that start and go on alike are one.
GoAlike(f, g, c, S) ==
    /\ \A P \in SUBSET S : P # {} => c[P] \in P
    /\ f[{}] = g[{}]
    /\ \A P \in SUBSET S : P # {} /\ f[P \ {c[P]}] = g[P \ {c[P]}] => f[P] = g[P]

LEMMA FoldsAgree ==
  ASSUME NEW S, IsFiniteSet(S), NEW c, NEW f, NEW g, GoAlike(f, g, c, S)
  PROVE  f[S] = g[S]
  <1>0. /\ \A P \in SUBSET S : P # {} => c[P] \in P
        /\ f[{}] = g[{}]
        /\ \A P \in SUBSET S : P # {} /\ f[P \ {c[P]}] = g[P \ {c[P]}] => f[P] = g[P]
    BY DEF GoAlike
  <1> USE <1>0
  <1> DEFINE n == Cardinality(S)
             done == {m \in 0..n : \A P \in SUBSET S : Cardinality(P) = m => f[P] = g[P]}
  <1>1. n \in Nat /\ \A P \in SUBSET S : IsFiniteSet(P) /\ Cardinality(P) \in 0..n
    <2>1. n \in Nat
      BY FS_CardinalityType
    <2>2. ASSUME NEW P \in SUBSET S PROVE IsFiniteSet(P) /\ Cardinality(P) \in Nat /\ Cardinality(P) <= n
      BY FS_Subset, FS_CardinalityType
    <2>3. QED
      BY <2>1, <2>2
  <1> HIDE DEF n
  <1>2. 0 \in done
    <2>1. ASSUME NEW P \in SUBSET S, Cardinality(P) = 0 PROVE P = {}
      BY <1>1, <2>1, FS_EmptySet
    <2>2. ASSUME NEW P \in SUBSET S, Cardinality(P) = 0 PROVE f[P] = g[P]
      BY <2>1, <2>2
    <2>3. 0 \in 0..n
      BY <1>1
    <2>4. QED
      BY <2>2, <2>3
  <1>3. ASSUME NEW m \in 0..(n - 1), m \in done PROVE m + 1 \in done
    <2>1. ASSUME NEW P \in SUBSET S, Cardinality(P) = m + 1 PROVE f[P] = g[P]
      <3>1. P # {}
        BY <1>1, <1>3, <2>1, FS_EmptySet
      <3> DEFINE Q == P \ {c[P]}
      <3>2. c[P] \in P /\ Q \in SUBSET S
        BY <3>1
      <3>3. Cardinality(Q) = m
        <4>1. Cardinality(Q) = Cardinality(P) - 1
          BY <1>1, <3>2, FS_RemoveElement
        <4>2. QED
          BY <2>1, <4>1
      <3>4. f[Q] = g[Q]
        BY <1>3, <3>2, <3>3
      <3>5. QED
        BY <3>1, <3>4
    <2>2. m + 1 \in 0..n
      BY <1>1
    <2>3. QED
      BY <2>1, <2>2
  <1>4. n \in done
    <2>1. n \in 0..n
      BY <1>1
    <2> HIDE DEF done
    <2>2. QED
      BY <1>1, <1>2, <1>3, <2>1, OneByOne
  <1>5. QED
    BY <1>4 DEF n

-----------------------------------------------------------------------------
(* MonitorStorage: the intervals, joined and in order *)

Instant == 0..MaxTime
Interval == {i \in Instant \X Instant : i[1] <= i[2]}

LEMMA IntervalIs ==
  ASSUME NEW i \in Interval
  PROVE  /\ i = <<i[1], i[2]>> /\ i[1] \in Nat /\ i[2] \in Nat /\ i[1] <= i[2]
         /\ i[1] \in Instant /\ i[2] \in Instant
  BY DEF Interval, Instant

LEMMA IsInterval ==
  ASSUME NEW a \in Instant, NEW b \in Instant, a <= b
  PROVE  <<a, b>> \in Interval
  BY DEF Interval

LEMMA FrontIs ==
  ASSUME NEW S, NEW s \in Seq(S), Len(s) > 0
  PROVE  /\ Front(s) \in Seq(S) /\ Len(Front(s)) = Len(s) - 1
         /\ \A k \in 1..(Len(s) - 1) : Front(s)[k] = s[k]
  <1>1. Len(s) \in Nat /\ Len(s) - 1 \in 0..Len(s) /\ 1 \in 1..(Len(s) + 1)
    OBVIOUS
  <1>2. Front(s) = SubSeq(s, 1, Len(s) - 1)
    BY DEF Front
  <1>3. Front(s) = [k \in 1..(Len(s) - 1) |-> s[k]]
    <2>1. SubSeq(s, 1, Len(s) - 1) = [k \in 1..(Len(s) - 1 - 1 + 1) |-> s[1 + k - 1]]
      BY <1>1
    <2>2. Len(s) - 1 - 1 + 1 = Len(s) - 1 /\ \A k \in 1..(Len(s) - 1) : 1 + k - 1 = k
      BY <1>1
    <2>3. QED
      BY <1>2, <2>1, <2>2
  <1>4. \A k \in 1..(Len(s) - 1) : s[k] \in S
    BY <1>1
  <1>5. Front(s) \in Seq(S) /\ Len(Front(s)) = Len(s) - 1
    BY <1>1, <1>3, <1>4
  <1>6. QED
    BY <1>3, <1>5

\* An interval is put after the ones there are, or makes the last of them longer.
LEMMA JoinsIs ==
  ASSUME NEW m \in Seq(Interval), NEW i \in Interval
  PROVE  /\ Joins(m, i) \in Seq(Interval)
         /\ \/ /\ Len(m) = 0 \/ m[Len(m)][2] < i[1]
               /\ Len(Joins(m, i)) = Len(m) + 1 /\ Joins(m, i)[Len(m) + 1] = i
               /\ \A k \in 1..Len(m) : Joins(m, i)[k] = m[k]
            \/ /\ Len(m) > 0 /\ i[1] <= m[Len(m)][2] /\ Len(Joins(m, i)) = Len(m)
               /\ \A k \in 1..(Len(m) - 1) : Joins(m, i)[k] = m[k]
               /\ Joins(m, i)[Len(m)] = <<m[Len(m)][1], IF i[2] <= m[Len(m)][2] THEN m[Len(m)][2] ELSE i[2]>>
  <1> DEFINE n == Len(m)
  <1>1. n \in Nat /\ (m = << >> <=> n = 0) /\ \A k \in 1..n : m[k] \in Interval
    OBVIOUS
  <1>2. CASE m # << >> /\ i[1] <= m[n][2]
    <2> DEFINE far == Max({i[2], m[n][2]})
               to == IF i[2] <= m[n][2] THEN m[n][2] ELSE i[2]
    <2>1. n > 0 /\ m[n] \in Interval /\ n \in 1..n
      BY <1>1, <1>2
    <2>2. i[2] \in Int /\ m[n][2] \in Int /\ m[n][1] \in Int /\ i[2] \in Instant /\ m[n][2] \in Instant /\ m[n][1] \in Instant
          /\ m[n][1] <= m[n][2]
      BY <2>1, IntervalIs
    <2>3. far = to
      BY <2>2, OfTwo, Zenon
    <2>4. <<m[n][1], to>> \in Interval
      <3>1. to \in Instant /\ m[n][1] <= to
        BY <2>2
      <3>2. QED
        BY <2>2, <3>1, IsInterval
    <2>5. Front(m) \in Seq(Interval) /\ Len(Front(m)) = n - 1 /\ \A k \in 1..(n - 1) : Front(m)[k] = m[k]
      BY <2>1, FrontIs
    <2>6. Joins(m, i) = Append(Front(m), <<m[n][1], to>>)
      BY <1>2, <2>3 DEF Joins, Last
    <2> HIDE DEF to, n
    <2>7. /\ Joins(m, i) \in Seq(Interval) /\ Len(Joins(m, i)) = n /\ Joins(m, i)[n] = <<m[n][1], to>>
          /\ \A k \in 1..(n - 1) : Joins(m, i)[k] = m[k]
      <3>1. \A k \in 1..(n - 1) : k \in 1..Len(Front(m)) /\ k # Len(Front(m)) + 1
        BY <1>1, <2>1, <2>5
      <3>2. Len(Front(m)) + 1 = n
        BY <1>1, <2>5
      <3>3. QED
        BY <2>4, <2>5, <2>6, <3>1, <3>2
    <2>8. QED
      BY <1>2, <2>1, <2>7 DEF n, to
  <1>3. CASE ~(m # << >> /\ i[1] <= m[n][2])
    <2>1. Joins(m, i) = Append(m, i)
      BY <1>3 DEF Joins, Last
    <2>2. Len(m) = 0 \/ m[Len(m)][2] < i[1]
      <3>1. CASE n = 0
        BY <3>1
      <3>2. CASE n # 0
        <4>1. m[n] \in Interval /\ ~(i[1] <= m[n][2])
          BY <1>1, <1>3, <3>2
        <4>2. m[n][2] \in Int /\ i[1] \in Int
          BY <4>1, IntervalIs
        <4>3. QED
          BY <4>1, <4>2
      <3>3. QED
        BY <3>1, <3>2
    <2>3. QED
      BY <2>1, <2>2
  <1>4. QED
    BY <1>2, <1>3

Merged(s) == FoldLeft(Joins, << >>, s)

\* Intervals are taken one after the other.
LEMMA MergedStep ==
  ASSUME NEW s \in Seq(Interval)
  PROVE  \E g : /\ g[0] = << >> /\ g[Len(s)] = Merged(s)
                /\ \A i \in 0..(Len(s) - 1) : g[i + 1] = Joins(g[i], s[i + 1])
  <1> DEFINE n == Len(s)
             A == Seq(Interval)
             IsFold(iter) == iter = [P \in SUBSET (1..n) |->
                                IF P = {} THEN << >> ELSE Joins(iter[P \ {Max(P)}], s[Max(P)])]
             step == [p \in A \X (1..n) |-> Joins(p[1], s[p[2]])]
  <1>1. n \in Nat /\ DOMAIN s = 1..n /\ \A k \in 1..n : s[k] \in Interval
    OBVIOUS
  <1>2. \E iter : IsFold(iter)
    <2>1. step \in [A \X (1..n) -> A]
      <3>1. \A p \in A \X (1..n) : Joins(p[1], s[p[2]]) \in A
        BY <1>1, JoinsIs
      <3>2. QED
        BY <3>1
    <2> DEFINE none == << >>
    <2>2. none \in A
      OBVIOUS
    <2> HIDE DEF step, A, n, none
    <2>3. PICK it \in [SUBSET (1..n) -> A] :
             \A P \in SUBSET (1..n) : it[P] = IF P = {} THEN none ELSE step[<<it[P \ {Max(P)}], Max(P)>>]
      <3>1. FoldsOf(step, none, A, n) # {}
        BY <1>1, <2>1, <2>2, FoldExists DEF StepIn
      <3>2. QED
        BY <3>1 DEF FoldsOf
    <2>4. ASSUME NEW P \in SUBSET (1..n), P # {} PROVE step[<<it[P \ {Max(P)}], Max(P)>>] = Joins(it[P \ {Max(P)}], s[Max(P)])
      <3>1. Max(P) \in P
        BY <1>1, <2>4, GreatestOf
      <3>2. it[P \ {Max(P)}] \in A /\ Max(P) \in 1..n
        BY <3>1
      <3>3. QED
        BY <3>2 DEF step
    <2>5. it = [P \in SUBSET (1..n) |-> IF P = {} THEN << >> ELSE Joins(it[P \ {Max(P)}], s[Max(P)])]
      BY <2>3, <2>4 DEF none
    <2>6. QED
      BY <2>5
  <1> DEFINE iter == CHOOSE iter : IsFold(iter)
  <1>3. IsFold(iter)
    BY <1>2, Zenon
  <1>4. Merged(s) = iter[1..n]
    BY <1>1 DEF Merged, FoldLeft, MapThenFoldSet
  <1> HIDE DEF iter
  <1> DEFINE g == [i \in 0..n |-> iter[1..i]]
  <1>5. iter[{}] = << >>
    BY <1>3
  <1>6. ASSUME NEW i \in 0..(n - 1) PROVE iter[1..(i + 1)] = Joins(iter[1..i], s[i + 1])
    <2>1. i \in Nat /\ 1..(i + 1) \in SUBSET (1..n)
      BY <1>1
    <2>2. Max(1..(i + 1)) = i + 1 /\ (1..(i + 1)) \ {i + 1} = 1..i /\ 1..(i + 1) # {}
      BY <2>1, LastPlace
    <2> HIDE DEF n
    <2>3. QED
      BY <1>3, <2>1, <2>2
  <1>7. g[0] = << >> /\ g[n] = Merged(s)
    BY <1>1, <1>4, <1>5, LastPlace
  <1>8. ASSUME NEW i \in 0..(n - 1) PROVE g[i + 1] = Joins(g[i], s[i + 1])
    <2>1. i \in 0..n /\ i + 1 \in 0..n
      BY <1>1
    <2>2. g[i + 1] = iter[1..(i + 1)] /\ g[i] = iter[1..i]
      BY <2>1
    <2> HIDE DEF g
    <2>3. QED
      BY <1>6, <2>2
  <1>9. QED
    BY <1>7, <1>8

Within(i, t) == i[1] <= t /\ t < i[2]
Covers(s, t) == \E k \in 1..Len(s) : Within(s[k], t)
Apart(m) == \A k \in 1..(Len(m) - 1) : m[k][2] < m[k + 1][1]

LEMMA JoinsKeeps ==
  ASSUME NEW m \in Seq(Interval), Apart(m), NEW i \in Interval, Len(m) > 0 => m[Len(m)][1] <= i[1]
  PROVE  /\ Joins(m, i) \in Seq(Interval) /\ Apart(Joins(m, i)) /\ Len(Joins(m, i)) > 0
         /\ Joins(m, i)[Len(Joins(m, i))][1] <= i[1]
         /\ \A t \in Int : Covers(Joins(m, i), t) <=> Covers(m, t) \/ Within(i, t)
  <1> DEFINE n == Len(m)
             j == Joins(m, i)
  <1>1. n \in Nat /\ (\A k \in 1..n : m[k] \in Interval) /\ i[1] \in Int /\ i[2] \in Int /\ i[1] <= i[2]
    BY IntervalIs
  <1>2. \A k \in 1..n : m[k][1] \in Int /\ m[k][2] \in Int /\ m[k][1] <= m[k][2]
    BY <1>1, IntervalIs
  <1>3. j \in Seq(Interval)
    BY JoinsIs
  <1>4. CASE /\ n = 0 \/ m[n][2] < i[1]
             /\ Len(j) = n + 1 /\ j[n + 1] = i
             /\ \A k \in 1..n : j[k] = m[k]
    <2> HIDE DEF n, j
    <2>1. Apart(j)
      <3>1. ASSUME NEW k \in 1..n PROVE j[k][2] < j[k + 1][1]
        <4>1. CASE k = n
          BY <1>4, <4>1
        <4>2. CASE k # n
          <5>1. k \in 1..(n - 1) /\ k + 1 \in 1..n /\ j[k] = m[k] /\ j[k + 1] = m[k + 1]
            BY <1>1, <1>4, <4>2
          <5>2. m[k][2] < m[k + 1][1]
            BY <5>1 DEF Apart, n
          <5>3. QED
            BY <5>1, <5>2
        <4>3. QED
          BY <4>1, <4>2
      <3>2. Len(j) - 1 = n
        BY <1>1, <1>4
      <3>3. QED
        BY <3>1, <3>2 DEF Apart
    <2>2. Len(j) > 0 /\ j[Len(j)][1] <= i[1]
      BY <1>1, <1>4
    <2>3. ASSUME NEW t \in Int PROVE Covers(j, t) <=> Covers(m, t) \/ Within(i, t)
      <3>1. \A k : k \in 1..Len(j) <=> k \in 1..n \/ k = n + 1
        BY <1>1, <1>4
      <3>2. QED
        BY <1>4, <3>1 DEF Covers, n
    <2>4. QED
      BY <1>3, <2>1, <2>2, <2>3 DEF j
  <1>5. CASE /\ n > 0 /\ i[1] <= m[n][2] /\ Len(j) = n
             /\ \A k \in 1..(n - 1) : j[k] = m[k]
             /\ j[n] = <<m[n][1], IF i[2] <= m[n][2] THEN m[n][2] ELSE i[2]>>
    <2>0. m[n][1] <= i[1]
      BY <1>5
    <2> HIDE DEF n, j
    <2>1. n \in 1..n /\ j[n][1] = m[n][1] /\ j[n][2] = (IF i[2] <= m[n][2] THEN m[n][2] ELSE i[2])
      BY <1>1, <1>5
    <2>2. Apart(j)
      <3>1. ASSUME NEW k \in 1..(n - 1) PROVE j[k][2] < j[k + 1][1]
        <4>1. m[k][2] < m[k + 1][1] /\ j[k] = m[k]
          BY <1>5 DEF Apart, n
        <4>2. j[k + 1][1] = m[k + 1][1]
          <5>1. CASE k + 1 = n
            BY <2>1, <5>1
          <5>2. CASE k + 1 # n
            <6>1. k + 1 \in 1..(n - 1)
              BY <1>1, <5>2
            <6>2. QED
              BY <1>5, <6>1
          <5>3. QED
            BY <5>1, <5>2
        <4>3. QED
          BY <4>1, <4>2
      <3>2. QED
        BY <1>5, <3>1 DEF Apart
    <2>3. Len(j) > 0 /\ j[Len(j)][1] <= i[1]
      BY <1>5, <2>0, <2>1
    <2>4. ASSUME NEW t \in Int PROVE Covers(j, t) <=> Covers(m, t) \/ Within(i, t)
      <3>1. Within(j[n], t) <=> Within(m[n], t) \/ Within(i, t)
        <4>1. Within(j[n], t) <=> m[n][1] <= t /\ t < (IF i[2] <= m[n][2] THEN m[n][2] ELSE i[2])
          BY <2>1 DEF Within
        <4>2. m[n][1] \in Int /\ m[n][2] \in Int /\ i[1] \in Int /\ i[2] \in Int
          BY <1>1, <1>2, <2>1
        <4>3. QED
          BY <1>5, <2>0, <4>1, <4>2 DEF Within
      <3>2. \A k : k \in 1..n <=> k \in 1..(n - 1) \/ k = n
        BY <1>1, <2>1
      <3>3. QED
        BY <1>5, <3>1, <3>2 DEF Covers, n
    <2>5. QED
      BY <1>3, <2>2, <2>3, <2>4 DEF j
  <1>6. QED
    BY <1>4, <1>5, JoinsIs

\* Of intervals in the order of their begins, those that touch are made one, and nothing else.
LEMMA MergedIs ==
  ASSUME NEW s \in Seq(Interval), \A k, l \in 1..Len(s) : k < l => s[k][1] <= s[l][1]
  PROVE  /\ Merged(s) \in Seq(Interval) /\ Apart(Merged(s))
         /\ \A t \in Int : Covers(Merged(s), t) <=> Covers(s, t)
  <1> DEFINE n == Len(s)
  <1>1. n \in Nat /\ \A k \in 1..n : s[k] \in Interval
    OBVIOUS
  <1>2. PICK g : /\ g[0] = << >> /\ g[n] = Merged(s)
                 /\ \A i \in 0..(n - 1) : g[i + 1] = Joins(g[i], s[i + 1])
    BY MergedStep
  <1> DEFINE Good(i) == /\ g[i] \in Seq(Interval) /\ Apart(g[i])
                        /\ Len(g[i]) > 0 => i > 0 /\ g[i][Len(g[i])][1] <= s[i][1]
                        /\ \A t \in Int : Covers(g[i], t) <=> \E k \in 1..i : Within(s[k], t)
             done == {i \in 0..n : Good(i)}
  <1>3. 0 \in done
    <2>1. g[0] \in Seq(Interval) /\ Len(g[0]) = 0
      BY <1>2
    <2>2. 0 \in 0..n /\ 1..0 = {} /\ 1..(0 - 1) = {} /\ ~(0 > 0)
      BY <1>1
    <2>3. Apart(g[0]) /\ \A t \in Int : ~Covers(g[0], t)
      BY <2>1, <2>2 DEF Apart, Covers
    <2>4. Good(0)
      BY <2>1, <2>2, <2>3
    <2> HIDE DEF Good
    <2>5. QED
      BY <2>2, <2>4
  <1>4. ASSUME NEW i \in 0..(n - 1), i \in done PROVE i + 1 \in done
    <2>1. Good(i) /\ i + 1 \in 0..n /\ i + 1 \in 1..n /\ s[i + 1] \in Interval /\ i \in Nat
      BY <1>1, <1>4
    <2>2. Len(g[i]) > 0 => g[i][Len(g[i])][1] <= s[i + 1][1]
      <3>1. SUFFICES ASSUME Len(g[i]) > 0 PROVE g[i][Len(g[i])][1] <= s[i + 1][1]
        OBVIOUS
      <3>2. i \in 1..n /\ g[i][Len(g[i])][1] <= s[i][1] /\ i < i + 1
        BY <2>1, <3>1
      <3>3. s[i][1] <= s[i + 1][1]
        BY <2>1, <3>2
      <3>4. s[i][1] \in Int /\ s[i + 1][1] \in Int
        <4>1. s[i] \in Interval
          BY <1>1, <3>2
        <4>2. QED
          BY <2>1, <4>1, IntervalIs
      <3>5. g[i][Len(g[i])][1] \in Int
        <4>1. g[i][Len(g[i])] \in Interval
          BY <2>1, <3>1, ElementOfSeq
        <4>2. QED
          BY <4>1, IntervalIs
      <3>6. QED
        BY <3>2, <3>3, <3>4, <3>5
    <2>3. g[i + 1] = Joins(g[i], s[i + 1])
      BY <1>2
    <2>4. /\ g[i + 1] \in Seq(Interval) /\ Apart(g[i + 1]) /\ g[i + 1][Len(g[i + 1])][1] <= s[i + 1][1]
          /\ \A t \in Int : Covers(g[i + 1], t) <=> Covers(g[i], t) \/ Within(s[i + 1], t)
      <3> DEFINE m == g[i]
                 next == s[i + 1]
      <3>1. m \in Seq(Interval) /\ Apart(m) /\ next \in Interval /\ (Len(m) > 0 => m[Len(m)][1] <= next[1])
        BY <2>1, <2>2
      <3>2. g[i + 1] = Joins(m, next)
        BY <2>3
      <3> HIDE DEF m, next
      <3>3. /\ g[i + 1] \in Seq(Interval) /\ Apart(g[i + 1]) /\ g[i + 1][Len(g[i + 1])][1] <= next[1]
            /\ \A t \in Int : Covers(g[i + 1], t) <=> Covers(m, t) \/ Within(next, t)
        BY <3>1, <3>2, JoinsKeeps
      <3>4. QED
        BY <3>3 DEF m, next
    <2>5. \A k : k \in 1..(i + 1) <=> k \in 1..i \/ k = i + 1
      BY <2>1
    <2>6. \A t \in Int : Covers(g[i + 1], t) <=> \E k \in 1..(i + 1) : Within(s[k], t)
      BY <2>1, <2>4, <2>5
    <2>7. Good(i + 1)
      BY <2>1, <2>4, <2>6
    <2> HIDE DEF Good
    <2>8. QED
      BY <2>1, <2>7
  <1> HIDE DEF done, Good
  <1>5. n \in done
    <2>1. n \in 0..n
      BY <1>1
    <2>2. QED
      BY <1>1, <1>3, <1>4, <2>1, OneByOne
  <1>6. QED
    BY <1>2, <1>5 DEF done, Good, Covers

\* Found intervals are put in the order of their begins.
LEMMA SortedIs ==
  ASSUME NEW f \in Seq(Interval)
  PROVE  /\ Sorted(f) \in Seq(Interval) /\ Len(Sorted(f)) = Len(f)
         /\ \A k, l \in 1..Len(f) : k < l => Sorted(f)[k][1] <= Sorted(f)[l][1]
         /\ \A t \in Int : Covers(Sorted(f), t) <=> Covers(f, t)
  <1> DEFINE n == Len(f)
             Comes(i, j) == StartsBefore(f[i], f[j]) \/ (f[i] = f[j] /\ i < j)
             below == [x \in 1..n |-> {y \in 1..n : Comes(y, x)}]
             p == [k \in 1..Cardinality(DOMAIN f) |->
                      CHOOSE x \in DOMAIN f : Cardinality({y \in DOMAIN f : Comes(y, x)}) = k - 1]
  <1>1. n \in Nat /\ DOMAIN f = 1..n /\ \A k \in 1..n : f[k] \in Interval
    OBVIOUS
  <1>2. \A k \in 1..n : f[k] = <<f[k][1], f[k][2]>> /\ f[k][1] \in Int /\ f[k][2] \in Int
    BY <1>1, IntervalIs
  <1>3. IsFiniteSet(1..n) /\ Cardinality(1..n) = n
    BY <1>1, PlacesFinite
  <1>4. Sorted(f) = [k \in 1..n |-> f[p[k]]]
    BY <1>1 DEF Sorted, Ordered
  <1>5. /\ below \in [1..n -> SUBSET (1..n)]
        /\ \A x, y \in 1..n : x \in below[y] <=> Comes(x, y)
    OBVIOUS
  <1>6. /\ \A x \in 1..n : ~Comes(x, x)
        /\ \A x, y \in 1..n : x = y \/ Comes(x, y) \/ Comes(y, x)
        /\ \A x, y, z \in 1..n : Comes(x, y) /\ Comes(y, z) => Comes(x, z)
    <2>1. ASSUME NEW x \in 1..n PROVE ~Comes(x, x)
      BY <1>1, <1>2 DEF StartsBefore
    <2>2. ASSUME NEW x \in 1..n, NEW y \in 1..n PROVE x = y \/ Comes(x, y) \/ Comes(y, x)
      <3>1. f[x][1] = f[y][1] /\ f[x][2] = f[y][2] => f[x] = f[y]
        BY <1>2
      <3>2. x \in Int /\ y \in Int /\ f[x][1] \in Int /\ f[x][2] \in Int /\ f[y][1] \in Int /\ f[y][2] \in Int
        BY <1>1, <1>2
      <3>3. QED
        BY <3>1, <3>2 DEF StartsBefore
    <2>3. ASSUME NEW x \in 1..n, NEW y \in 1..n, NEW z \in 1..n, Comes(x, y), Comes(y, z) PROVE Comes(x, z)
      BY <1>1, <1>2, <2>3 DEF StartsBefore
    <2>4. QED
      BY <2>1, <2>2, <2>3
  <1> HIDE DEF Comes, below
  <1>7. StrictOrder(below, 1..n)
    BY <1>5, <1>6 DEF StrictOrder
  <1>8. ASSUME NEW k \in 1..n PROVE p[k] \in 1..n /\ Cardinality(below[p[k]]) = k - 1
    <2>1. k - 1 \in 0..(n - 1)
      BY <1>1
    <2> HIDE DEF n
    <2>2. \E x \in 1..n : Cardinality(below[x]) = k - 1
      BY <1>3, <1>7, <2>1, Ranks
    <2>3. \A x \in 1..n : below[x] = {y \in 1..n : Comes(y, x)}
      BY DEF below
    <2>4. \E x \in DOMAIN f : Cardinality({y \in DOMAIN f : Comes(y, x)}) = k - 1
      BY <1>1, <2>2, <2>3
    <2>5. p[k] = CHOOSE x \in DOMAIN f : Cardinality({y \in DOMAIN f : Comes(y, x)}) = k - 1
      BY <1>1, <1>3
    <2> HIDE DEF p
    <2>6. p[k] \in DOMAIN f /\ Cardinality({y \in DOMAIN f : Comes(y, p[k])}) = k - 1
      BY <2>4, <2>5, Zenon
    <2>7. QED
      BY <1>1, <2>3, <2>6
  <1>9. p \in [1..n -> 1..n]
    BY <1>1, <1>3, <1>8
  <1> HIDE DEF p, n
  <1>10. /\ \A x \in 1..n : \E k \in 1..n : p[k] = x
         /\ \A k, l \in 1..n : k < l <=> p[k] \in below[p[l]]
    <2>1. HasPlaces(p, below, 1..n)
      BY <1>3, <1>8, <1>9 DEF HasPlaces
    <2> DEFINE S == 1..n
    <2>2. IsFiniteSet(S) /\ StrictOrder(below, S) /\ HasPlaces(p, below, S) /\ Cardinality(S) = n
      BY <1>3, <1>7, <2>1
    <2> HIDE DEF S
    <2>3. /\ \A x \in S : \E k \in 1..Cardinality(S) : p[k] = x
          /\ \A k, l \in 1..Cardinality(S) : k < l <=> p[k] \in below[p[l]]
      BY <2>2, InOrder
    <2>4. QED
      BY <2>2, <2>3 DEF S
  <1>11. Sorted(f) \in Seq(Interval) /\ Len(Sorted(f)) = n
    BY <1>1, <1>4, <1>9
  <1>12. ASSUME NEW k \in 1..n, NEW l \in 1..n, k < l PROVE Sorted(f)[k][1] <= Sorted(f)[l][1]
    <2>1. Comes(p[k], p[l]) /\ p[k] \in 1..n /\ p[l] \in 1..n
      BY <1>5, <1>9, <1>10, <1>12
    <2>2. f[p[k]][1] < f[p[l]][1] \/ f[p[k]][1] = f[p[l]][1]
      BY <2>1 DEF Comes, StartsBefore
    <2>3. f[p[k]][1] <= f[p[l]][1]
      BY <1>2, <2>1, <2>2
    <2>4. QED
      BY <1>4, <2>3
  <1>13. ASSUME NEW t \in Int PROVE Covers(Sorted(f), t) <=> Covers(f, t)
    <2>1. \A k \in 1..n : Sorted(f)[k] = f[p[k]] /\ p[k] \in 1..n
      BY <1>4, <1>9
    <2>2. ASSUME NEW k \in 1..n, Within(Sorted(f)[k], t) PROVE Covers(f, t)
      BY <2>1, <2>2 DEF Covers, n
    <2>3. ASSUME NEW x \in 1..n, Within(f[x], t) PROVE Covers(Sorted(f), t)
      <3>1. PICK k \in 1..n : p[k] = x
        BY <1>10
      <3>2. Within(Sorted(f)[k], t)
        BY <2>1, <2>3, <3>1
      <3>3. QED
        BY <1>11, <3>2 DEF Covers
    <2>4. QED
      BY <1>11, <2>2, <2>3 DEF Covers, n
  <1>14. QED
    BY <1>11, <1>12, <1>13 DEF n

-----------------------------------------------------------------------------
(* MonitorStorage: the rows, read one after the other *)

LEMMA LatestOf ==
  ASSUME NEW n \in Nat, NEW P \in SUBSET (0..n), P # {}
  PROVE  Max(P) \in P /\ \A y \in P : y <= Max(P)
  <1> DEFINE D == {n - i : i \in P}
  <1>1. \A i \in P : i \in Nat /\ n - i \in Nat
    OBVIOUS
  <1>2. D \in SUBSET Nat /\ D # {}
    BY <1>1, Zenon
  <1>3. PICK d \in D : \A e \in D : d <= e
    BY <1>2, LeastOf, Zenon
  <1>4. PICK i \in P : d = n - i
    BY <1>3
  <1>5. \A j \in P : n - i <= n - j
    BY <1>3, <1>4
  <1>6. \A j \in P : i >= j
    BY <1>1, <1>5
  <1>7. Max(P) \in P /\ \A y \in P : Max(P) >= y
    BY <1>6 DEF Max
  <1>8. QED
    BY <1>1, <1>7

\* The sessions have places, each its own.
LEMMA PlacesOfRuns ==
  /\ \A r \in MonitorRun : RunPlace(r) \in Nat
  /\ \A r, q \in MonitorRun : RunPlace(r) = RunPlace(q) => r = q
  <1>1. RunOrder \in Seq(MonitorRun) /\ ToSet(RunOrder) = MonitorRun
    BY MonitorStorageAssumption DEF MonitorStorageAssumption
  <1>2. ASSUME NEW r \in MonitorRun PROVE RunPlace(r) \in DOMAIN RunOrder /\ RunOrder[RunPlace(r)] = r
    <2>1. \E i \in DOMAIN RunOrder : RunOrder[i] = r
      BY <1>1 DEF ToSet
    <2>2. QED
      BY <2>1, Zenon DEF RunPlace
  <1>3. DOMAIN RunOrder \in SUBSET Nat
    BY <1>1
  <1>4. QED
    BY <1>2, <1>3

\* One row for a session and an instant.
LEMMA RowSetIs ==
  ASSUME NEW of \in SUBSET Sample, IsFiniteSet(of)
  PROVE  /\ RowSet(of) \in SUBSET Sample /\ IsFiniteSet(RowSet(of))
         /\ \A x, y \in RowSet(of) : x.run = y.run /\ x.at = y.at => x = y
         /\ \A x \in RowSet(of) : /\ \E s \in of : s.run = x.run /\ s.at = x.at
                                  /\ \A s \in of : s.run = x.run /\ s.at = x.at => (s.present => x.present)
                                  /\ x.present => \E s \in of : s.run = x.run /\ s.at = x.at /\ s.present
         /\ \A s \in of : \E x \in RowSet(of) : x.run = s.run /\ x.at = s.at
  <1> DEFINE row(s) == [run |-> s.run, at |-> s.at,
                        present |-> \E o \in of : o.run = s.run /\ o.at = s.at /\ o.present]
  <1>1. RowSet(of) = {row(s) : s \in of}
    BY DEF RowSet
  <1>2. ASSUME NEW s \in of PROVE row(s) \in Sample
    <2>1. s.run \in MonitorRun /\ s.at \in 0..MaxTime
      BY DEF Sample
    <2>2. QED
      BY <2>1 DEF Sample
  <1>3. IsFiniteSet(RowSet(of))
    <2> DEFINE rowOf == [s \in of |-> row(s)]
    <2>1. rowOf \in Surjection(of, RowSet(of))
      BY <1>1 DEF Surjection
    <2> HIDE DEF rowOf
    <2>2. QED
      BY <2>1, FS_Surjection
  <1>4. ASSUME NEW x \in RowSet(of)
        PROVE  /\ x = [run |-> x.run, at |-> x.at, present |-> x.present]
               /\ x.present <=> \E o \in of : o.run = x.run /\ o.at = x.at /\ o.present
               /\ \E s \in of : s.run = x.run /\ s.at = x.at
    <2>1. PICK s \in of : x = row(s)
      BY <1>1
    <2>2. QED
      BY <2>1
  <1>5. ASSUME NEW x \in RowSet(of), NEW y \in RowSet(of), x.run = y.run, x.at = y.at PROVE x = y
    <2>1. x \in Sample /\ y \in Sample
      BY <1>1, <1>2
    <2>2. x.present \in BOOLEAN /\ y.present \in BOOLEAN
      BY <2>1 DEF Sample
    <2>3. x.present <=> y.present
      BY <1>4, <1>5
    <2>4. x.present = y.present
      BY <2>2, <2>3
    <2>5. QED
      BY <1>4, <1>5, <2>4
  <1>6. ASSUME NEW s \in of PROVE \E x \in RowSet(of) : x.run = s.run /\ x.at = s.at
    <2>1. row(s) \in RowSet(of) /\ row(s).run = s.run /\ row(s).at = s.at
      BY <1>1
    <2> HIDE DEF row
    <2>2. QED
      BY <2>1
  <1>7. RowSet(of) \in SUBSET Sample
    BY <1>1, <1>2
  <1> HIDE DEF row
  <1>8. QED
    BY <1>3, <1>4, <1>5, <1>6, <1>7

\* ... by session, then by time.
RowsInOrder(rows, R) ==
    /\ rows \in Seq(R)
    /\ \A x \in R : \E k \in 1..Len(rows) : rows[k] = x
    /\ \A k, l \in 1..Len(rows) : k < l <=> RowBefore(rows[k], rows[l])

LEMMA RowsAre ==
  ASSUME NEW of \in SUBSET Sample, IsFiniteSet(of)
  PROVE  RowsInOrder(Rows(of), RowSet(of))
  <1> DEFINE S == RowSet(of)
             n == Cardinality(S)
             below == [x \in S |-> {y \in S : RowBefore(y, x)}]
             p == Rows(of)
  <1>1. S \in SUBSET Sample /\ IsFiniteSet(S) /\ \A x, y \in S : x.run = y.run /\ x.at = y.at => x = y
    BY RowSetIs, Zenon
  <1>2. \A x \in S : x.run \in MonitorRun /\ x.at \in Nat /\ RunPlace(x.run) \in Nat
    <2>1. \A x \in S : x.run \in MonitorRun /\ x.at \in 0..MaxTime
      BY <1>1 DEF Sample
    <2>2. QED
      BY <2>1, PlacesOfRuns
  <1> HIDE DEF S
  <1>3. below \in [S -> SUBSET S] /\ \A x, y \in S : x \in below[y] <=> RowBefore(x, y)
    OBVIOUS
  <1>4. ASSUME NEW x \in S PROVE ~RowBefore(x, x)
    BY <1>2 DEF RowBefore
  <1>5. ASSUME NEW x \in S, NEW y \in S PROVE x = y \/ RowBefore(x, y) \/ RowBefore(y, x)
    <2>1. RunPlace(x.run) < RunPlace(y.run) \/ RunPlace(y.run) < RunPlace(x.run) \/ RunPlace(x.run) = RunPlace(y.run)
      BY <1>2
    <2>2. x.at < y.at \/ y.at < x.at \/ x.at = y.at
      BY <1>2
    <2>3. RunPlace(x.run) = RunPlace(y.run) => x.run = y.run
      BY <1>2, PlacesOfRuns
    <2>4. QED
      BY <1>1, <2>1, <2>2, <2>3 DEF RowBefore
  <1>6. ASSUME NEW x \in S, NEW y \in S, NEW z \in S, RowBefore(x, y), RowBefore(y, z) PROVE RowBefore(x, z)
    <2>1. RunPlace(x.run) < RunPlace(z.run) \/ (x.run = z.run /\ x.at < z.at)
      <3>1. CASE x.run = y.run /\ y.run = z.run /\ ~(RunPlace(x.run) < RunPlace(x.run))
        BY <1>2, <1>6, <3>1 DEF RowBefore
      <3>2. CASE RunPlace(x.run) < RunPlace(y.run)
        <4>1. RunPlace(y.run) < RunPlace(z.run) \/ y.run = z.run
          BY <1>6 DEF RowBefore
        <4>2. QED
          BY <1>2, <3>2, <4>1
      <3>3. CASE x.run = y.run /\ RunPlace(y.run) < RunPlace(z.run)
        BY <3>3
      <3>4. QED
        BY <1>2, <1>6, <3>1, <3>2, <3>3 DEF RowBefore
    <2>2. QED
      BY <2>1 DEF RowBefore
  <1>7. StrictOrder(below, S)
    <2> HIDE DEF below
    <2>1. QED
      BY <1>3, <1>4, <1>5, <1>6 DEF StrictOrder
  <1>8. p = [k \in 1..n |-> CHOOSE x \in S : Cardinality({y \in S : RowBefore(y, x)}) = k - 1]
    BY DEF Rows, Ordered, S
  <1>n. n \in Nat
    BY <1>1, FS_CardinalityType
  <1>9. ASSUME NEW k \in 1..n PROVE p[k] \in S /\ Cardinality(below[p[k]]) = k - 1
    <2>1. k - 1 \in 0..(n - 1)
      BY <1>n
    <2> HIDE DEF p, below, n
    <2>2. \E x \in S : Cardinality(below[x]) = k - 1
      BY <1>1, <1>7, <2>1, Ranks DEF n
    <2>3. \A x \in S : below[x] = {y \in S : RowBefore(y, x)}
      BY DEF below
    <2>4. \E x \in S : Cardinality({y \in S : RowBefore(y, x)}) = k - 1
      BY <2>2, <2>3
    <2>5. p[k] = CHOOSE x \in S : Cardinality({y \in S : RowBefore(y, x)}) = k - 1
      BY <1>8
    <2>6. p[k] \in S /\ Cardinality({y \in S : RowBefore(y, p[k])}) = k - 1
      BY <2>4, <2>5, Zenon
    <2>7. QED
      BY <2>3, <2>6
  <1>10. p \in [1..n -> S]
    <2> HIDE DEF n
    <2>1. QED
      BY <1>8, <1>9
  <1> HIDE DEF p, below
  <1>11. HasPlaces(p, below, S)
    BY <1>9, <1>10 DEF HasPlaces
  <1>12. /\ \A x \in S : \E k \in 1..n : p[k] = x
         /\ \A k, l \in 1..n : k < l <=> p[k] \in below[p[l]]
    BY <1>1, <1>7, <1>11, InOrder
  <1> HIDE DEF n
  <1>13. Len(p) = n /\ p \in Seq(S)
    BY <1>n, <1>10
  <1>14. \A k, l \in 1..n : k < l <=> RowBefore(p[k], p[l])
    BY <1>3, <1>10, <1>12
  <1>15. RowsInOrder(p, S)
    BY <1>12, <1>13, <1>14 DEF RowsInOrder
  <1>16. QED
    BY <1>15 DEF p, S

\* What reading the rows has found so far.
Reading == [run : MonitorRun \cup {"none"}, last : Instant, intervals : Seq(Instant \X Instant),
            start : Instant \cup {NotStarted}]
Unread == [run |-> "none", start |-> NotStarted, last |-> 0, intervals |-> << >>]

LEMMA ReadsOn ==
  ASSUME NEW acc \in Reading, NEW row \in Sample
  PROVE  TakesRow(acc, row) \in Reading
  <1>1. /\ acc.run \in MonitorRun \cup {"none"} /\ acc.last \in Instant
        /\ acc.intervals \in Seq(Instant \X Instant) /\ acc.start \in Instant \cup {NotStarted}
    BY DEF Reading
  <1>2. row.run \in MonitorRun /\ row.at \in Instant /\ row.present \in BOOLEAN
    BY DEF Sample, Instant
  <1> DEFINE left == acc.run # row.run /\ acc.start # NotStarted
             found == IF left THEN Append(acc.intervals, <<acc.start, acc.last>>) ELSE acc.intervals
             start == IF acc.run # row.run THEN NotStarted ELSE acc.start
             closes == row.present /\ start # NotStarted
             ends == IF closes THEN Append(found, <<start, row.at>>) ELSE found
             starts == IF row.present THEN NotStarted ELSE IF start = NotStarted THEN row.at ELSE start
  <1>3. TakesRow(acc, row) = [run |-> row.run, last |-> row.at, intervals |-> ends, start |-> starts]
    BY DEF TakesRow
  <1>4. found \in Seq(Instant \X Instant)
    <2>1. CASE left
      <3>1. <<acc.start, acc.last>> \in Instant \X Instant
        BY <1>1, <2>1
      <3>2. QED
        BY <1>1, <2>1, <3>1
    <2>2. CASE ~left
      BY <1>1, <2>2
    <2>3. QED
      BY <2>1, <2>2
  <1>5. start \in Instant \cup {NotStarted}
    BY <1>1
  <1> HIDE DEF found, start
  <1>6. ends \in Seq(Instant \X Instant)
    <2>1. CASE closes
      <3>1. <<start, row.at>> \in Instant \X Instant
        BY <1>2, <1>5, <2>1
      <3>2. QED
        BY <1>4, <2>1, <3>1
    <2>2. CASE ~closes
      BY <1>4, <2>2
    <2>3. QED
      BY <2>1, <2>2
  <1>7. starts \in Instant \cup {NotStarted}
    BY <1>2, <1>5
  <1> HIDE DEF ends, starts
  <1>8. QED
    BY <1>2, <1>3, <1>6, <1>7 DEF Reading

LEMMA UnreadIs ==
  Unread \in Reading
  <1>1. 0 \in Instant
    <2>1. MaxTime \in Nat
      BY MonitorStorageAssumption DEF MonitorStorageAssumption
    <2>2. QED
      BY <2>1 DEF Instant
  <1>2. << >> \in Seq(Instant \X Instant)
    OBVIOUS
  <1>3. QED
    BY <1>1, <1>2 DEF Unread, Reading

ReadRows(s) == FoldLeft(TakesRow, Unread, s)

\* Rows are taken one after the other.
LEMMA ReadStep ==
  ASSUME NEW s \in Seq(Sample)
  PROVE  \E g : /\ g[0] = Unread /\ g[Len(s)] = ReadRows(s)
                /\ \A i \in 0..(Len(s) - 1) : g[i + 1] = TakesRow(g[i], s[i + 1])
  <1> DEFINE n == Len(s)
             A == Reading
             IsFold(iter) == iter = [P \in SUBSET (1..n) |->
                                IF P = {} THEN Unread ELSE TakesRow(iter[P \ {Max(P)}], s[Max(P)])]
             step == [p \in A \X (1..n) |-> TakesRow(p[1], s[p[2]])]
  <1>1. n \in Nat /\ DOMAIN s = 1..n /\ \A k \in 1..n : s[k] \in Sample
    OBVIOUS
  <1>2. \E iter : IsFold(iter)
    <2>1. step \in [A \X (1..n) -> A]
      <3>1. \A p \in A \X (1..n) : TakesRow(p[1], s[p[2]]) \in A
        BY <1>1, ReadsOn
      <3>2. QED
        BY <3>1
    <2>2. Unread \in A
      BY UnreadIs
    <2> HIDE DEF step, A, n
    <2>3. PICK it \in [SUBSET (1..n) -> A] :
             \A P \in SUBSET (1..n) : it[P] = IF P = {} THEN Unread ELSE step[<<it[P \ {Max(P)}], Max(P)>>]
      <3>1. FoldsOf(step, Unread, A, n) # {}
        BY <1>1, <2>1, <2>2, FoldExists DEF StepIn
      <3>2. QED
        BY <3>1 DEF FoldsOf
    <2>4. ASSUME NEW P \in SUBSET (1..n), P # {} PROVE step[<<it[P \ {Max(P)}], Max(P)>>] = TakesRow(it[P \ {Max(P)}], s[Max(P)])
      <3>1. Max(P) \in P
        BY <1>1, <2>4, GreatestOf
      <3>2. it[P \ {Max(P)}] \in A /\ Max(P) \in 1..n
        BY <3>1
      <3>3. QED
        BY <3>2 DEF step
    <2>5. it = [P \in SUBSET (1..n) |-> IF P = {} THEN Unread ELSE TakesRow(it[P \ {Max(P)}], s[Max(P)])]
      BY <2>3, <2>4
    <2>6. QED
      BY <2>5
  <1> DEFINE iter == CHOOSE iter : IsFold(iter)
  <1>3. IsFold(iter)
    BY <1>2, Zenon
  <1>4. ReadRows(s) = iter[1..n]
    BY <1>1 DEF ReadRows, FoldLeft, MapThenFoldSet
  <1> HIDE DEF iter
  <1> DEFINE g == [i \in 0..n |-> iter[1..i]]
  <1>5. iter[{}] = Unread
    BY <1>3
  <1>6. ASSUME NEW i \in 0..(n - 1) PROVE iter[1..(i + 1)] = TakesRow(iter[1..i], s[i + 1])
    <2>1. i \in Nat /\ 1..(i + 1) \in SUBSET (1..n)
      BY <1>1
    <2>2. Max(1..(i + 1)) = i + 1 /\ (1..(i + 1)) \ {i + 1} = 1..i /\ 1..(i + 1) # {}
      BY <2>1, LastPlace
    <2> HIDE DEF n
    <2>3. QED
      BY <1>3, <2>1, <2>2
  <1>7. g[0] = Unread /\ g[n] = ReadRows(s)
    BY <1>1, <1>4, <1>5, LastPlace
  <1>8. \A i \in 0..(n - 1) : g[i + 1] = TakesRow(g[i], s[i + 1])
    BY <1>1, <1>6
  <1>9. QED
    BY <1>7, <1>8

LEMMA AppendCovers ==
  ASSUME NEW s \in Seq(Interval), NEW i \in Interval
  PROVE  Append(s, i) \in Seq(Interval) /\ \A t : Covers(Append(s, i), t) <=> Covers(s, t) \/ Within(i, t)
  <1>1. Len(s) \in Nat /\ Append(s, i) \in Seq(Interval) /\ Len(Append(s, i)) = Len(s) + 1
    OBVIOUS
  <1>2. \A k : k \in 1..(Len(s) + 1) <=> k \in 1..Len(s) \/ k = Len(s) + 1
    BY <1>1
  <1>3. Append(s, i)[Len(s) + 1] = i /\ \A k \in 1..Len(s) : Append(s, i)[k] = s[k]
    OBVIOUS
  <1>4. QED
    BY <1>1, <1>2, <1>3 DEF Covers

\* What is in the intervals found so far, or in the one that is open.
Reached(acc, t) == Covers(acc.intervals, t) \/ (acc.start # NotStarted /\ acc.start <= t /\ t < acc.last)
WellRead(acc) ==
    /\ acc \in Reading /\ acc.intervals \in Seq(Interval)
    /\ acc.start # NotStarted => acc.start <= acc.last

LEMMA RowAdds ==
  ASSUME NEW acc, WellRead(acc), NEW row \in Sample,
         acc.run = row.run /\ acc.start # NotStarted => acc.last <= row.at
  PROVE  LET next == TakesRow(acc, row) IN
         /\ WellRead(next) /\ next.run = row.run /\ next.last = row.at
         /\ next.start = NotStarted <=> row.present
         /\ \A t \in Int : Reached(next, t) <=>
               Reached(acc, t) \/ (/\ acc.run = row.run /\ acc.start # NotStarted
                                   /\ acc.last <= t /\ t < row.at)
  <1>1. /\ acc.run \in MonitorRun \cup {"none"} /\ acc.last \in Instant
        /\ acc.intervals \in Seq(Interval) /\ acc.start \in Instant \cup {NotStarted}
        /\ acc.start # NotStarted => acc.start <= acc.last
    BY DEF Reading, WellRead
  <1>2. row.run \in MonitorRun /\ row.at \in Instant /\ row.present \in BOOLEAN
    BY DEF Sample, Instant
  <1>3. Instant \in SUBSET Nat /\ NotStarted \notin Instant /\ NotStarted \in Int
    BY DEF Instant, NotStarted
  <1> DEFINE left == acc.run # row.run /\ acc.start # NotStarted
             found == IF left THEN Append(acc.intervals, <<acc.start, acc.last>>) ELSE acc.intervals
             start == IF acc.run # row.run THEN NotStarted ELSE acc.start
             closes == row.present /\ start # NotStarted
             ends == IF closes THEN Append(found, <<start, row.at>>) ELSE found
             starts == IF row.present THEN NotStarted ELSE IF start = NotStarted THEN row.at ELSE start
             next == TakesRow(acc, row)
             across(t) == acc.run = row.run /\ acc.start # NotStarted /\ acc.last <= t /\ t < row.at
             opened(t) == acc.start # NotStarted /\ acc.start <= t /\ t < acc.last
  <1>4. next = [run |-> row.run, last |-> row.at, intervals |-> ends, start |-> starts]
    BY DEF TakesRow
  <1>5. /\ found \in Seq(Interval)
        /\ \A t \in Int : Covers(found, t) <=> Covers(acc.intervals, t) \/ (left /\ opened(t))
    <2>1. CASE left
      <3> DEFINE new == <<acc.start, acc.last>>
      <3>1. new \in Interval /\ \A t \in Int : Within(new, t) <=> opened(t)
        <4>1. acc.start \in Instant /\ acc.start <= acc.last
          BY <1>1, <2>1
        <4>2. QED
          BY <1>1, <2>1, <4>1, IsInterval DEF Within
      <3>2. found = Append(acc.intervals, new)
        BY <2>1
      <3> HIDE DEF new, found
      <3>3. QED
        BY <1>1, <2>1, <3>1, <3>2, AppendCovers
    <2>2. CASE ~left
      BY <1>1, <2>2
    <2>3. QED
      BY <2>1, <2>2
  <1>6. /\ start \in Instant \cup {NotStarted}
        /\ start # NotStarted => start <= row.at /\ start = acc.start /\ acc.run = row.run /\ acc.last <= row.at
                                 /\ start <= acc.last
        /\ start = NotStarted <=> acc.run # row.run \/ acc.start = NotStarted
    <2>1. CASE acc.run # row.run \/ acc.start = NotStarted
      BY <2>1
    <2>2. CASE acc.run = row.run /\ acc.start # NotStarted
      <3>1. acc.start \in Nat /\ acc.last \in Nat /\ row.at \in Nat /\ acc.start <= acc.last /\ acc.last <= row.at
        BY <1>1, <1>2, <1>3, <2>2
      <3>2. start = acc.start /\ acc.start <= row.at
        BY <2>2, <3>1
      <3> HIDE DEF start
      <3>3. QED
        BY <1>1, <2>2, <3>1, <3>2
    <2>3. QED
      BY <2>1, <2>2
  <1> HIDE DEF found
  <1>7. /\ ends \in Seq(Interval)
        /\ \A t \in Int : Covers(ends, t) <=> Covers(found, t) \/ (closes /\ start <= t /\ t < row.at)
    <2>1. CASE closes
      <3> DEFINE new == <<start, row.at>>
      <3>1. new \in Interval /\ \A t \in Int : Within(new, t) <=> start <= t /\ t < row.at
        <4>1. start \in Instant /\ start <= row.at
          BY <1>6, <2>1
        <4> HIDE DEF start
        <4>2. QED
          BY <1>2, <4>1, IsInterval DEF Within
      <3>2. ends = Append(found, new)
        BY <2>1
      <3> HIDE DEF new, ends
      <3>3. QED
        BY <1>5, <2>1, <3>1, <3>2, AppendCovers
    <2>2. CASE ~closes
      BY <1>5, <2>2
    <2>3. QED
      BY <2>1, <2>2
  <1> HIDE DEF start
  <1>8. /\ starts \in Instant \cup {NotStarted}
        /\ starts # NotStarted => starts <= row.at
        /\ starts = NotStarted <=> row.present
        /\ starts # NotStarted => starts = IF start = NotStarted THEN row.at ELSE start
    <2>1. CASE row.present
      BY <2>1
    <2>2. CASE ~row.present /\ start = NotStarted
      <3>1. starts = row.at /\ row.at \in Nat
        BY <1>2, <1>3, <2>2
      <3> HIDE DEF starts
      <3>2. QED
        BY <1>2, <1>3, <2>2, <3>1
    <2>3. CASE ~row.present /\ start # NotStarted
      <3>1. starts = start
        BY <2>3
      <3> HIDE DEF starts
      <3>2. QED
        BY <1>3, <1>6, <2>3, <3>1
    <2>4. QED
      BY <1>2, <2>1, <2>2, <2>3
  <1>9. next.run = row.run /\ next.last = row.at /\ next.intervals = ends /\ next.start = starts
    BY <1>4
  <1>10. WellRead(next)
    <2>1. next \in Reading
      BY ReadsOn DEF WellRead
    <2> HIDE DEF next, ends, starts
    <2>2. QED
      BY <1>7, <1>8, <1>9, <2>1 DEF WellRead
  <1>11. ASSUME NEW t \in Int PROVE Reached(next, t) <=> Reached(acc, t) \/ across(t)
    <2>1. Reached(next, t) <=> \/ Covers(acc.intervals, t) \/ (left /\ opened(t))
                               \/ (closes /\ start <= t /\ t < row.at)
                               \/ (starts # NotStarted /\ starts <= t /\ t < row.at)
      <3> HIDE DEF next, ends, starts, left, opened, closes
      <3>1. QED
        BY <1>5, <1>7, <1>9 DEF Reached
    <2>2. Reached(acc, t) <=> Covers(acc.intervals, t) \/ opened(t)
      BY DEF Reached
    <2>3. CASE acc.run = row.run /\ acc.start # NotStarted
      <3>1. start # NotStarted /\ ~left /\ start = acc.start
        BY <1>6, <2>3
      <3>2. (closes /\ start <= t /\ t < row.at) \/ (starts # NotStarted /\ starts <= t /\ t < row.at)
            <=> start <= t /\ t < row.at
        <4> HIDE DEF starts
        <4>1. row.present => closes /\ starts = NotStarted
          BY <1>8, <3>1
        <4>2. ~row.present => ~closes /\ starts = start /\ starts # NotStarted
          BY <1>2, <1>8, <3>1
        <4>3. QED
          BY <1>2, <4>1, <4>2
      <3>3. start <= t /\ t < row.at <=> opened(t) \/ across(t)
        <4>1. acc.start \in Nat /\ acc.last \in Nat /\ row.at \in Nat /\ acc.start <= acc.last
          BY <1>1, <1>2, <1>3, <2>3
        <4>2. acc.last <= row.at
          BY <2>3
        <4>3. QED
          BY <2>3, <3>1, <4>1, <4>2
      <3> HIDE DEF next, starts, left, opened, closes, across
      <3>4. QED
        BY <2>1, <2>2, <3>1, <3>2, <3>3
    <2>4. CASE ~(acc.run = row.run /\ acc.start # NotStarted)
      <3>1. start = NotStarted /\ ~closes /\ ~across(t) /\ (opened(t) => left)
        BY <1>6, <2>4
      <3>2. ~(starts # NotStarted /\ starts <= t /\ t < row.at)
        <4> HIDE DEF starts
        <4>1. row.at \in Nat
          BY <1>2, <1>3
        <4>2. starts # NotStarted => starts = row.at
          BY <1>8, <3>1
        <4>3. QED
          BY <4>1, <4>2
      <3> HIDE DEF next, starts, left, opened, closes, across
      <3>3. QED
        BY <2>1, <2>2, <3>1, <3>2
    <2>5. QED
      BY <2>3, <2>4
  <1> HIDE DEF next
  <1>12. QED
    BY <1>8, <1>9, <1>10, <1>11 DEF next

\* A row that found nothing, and the next one of its session, after it.
Gap(rows, j, t) ==
    rows[j].run = rows[j + 1].run /\ ~rows[j].present /\ rows[j].at <= t /\ t < rows[j + 1].at

LEMMA ReadRowsAre ==
  ASSUME NEW rows \in Seq(Sample), \A k, l \in 1..Len(rows) : k < l /\ rows[k].run = rows[l].run => rows[k].at < rows[l].at
  PROVE  /\ WellRead(ReadRows(rows))
         /\ \A t \in Int : Reached(ReadRows(rows), t) <=> \E j \in 1..(Len(rows) - 1) : Gap(rows, j, t)
  <1> DEFINE n == Len(rows)
  <1>1. n \in Nat /\ \A k \in 1..n : rows[k] \in Sample
    OBVIOUS
  <1>2. PICK g : /\ g[0] = Unread /\ g[n] = ReadRows(rows)
                 /\ \A i \in 0..(n - 1) : g[i + 1] = TakesRow(g[i], rows[i + 1])
    BY ReadStep
  <1> DEFINE Good(i) == /\ WellRead(g[i])
                        /\ i = 0 => g[i].start = NotStarted
                        /\ i > 0 => /\ g[i].run = rows[i].run /\ g[i].last = rows[i].at
                                    /\ g[i].start = NotStarted <=> rows[i].present
                        /\ \A t \in Int : Reached(g[i], t) <=> \E j \in 1..(i - 1) : Gap(rows, j, t)
             done == {i \in 0..n : Good(i)}
  <1>3. 0 \in done
    <2>1. g[0].start = NotStarted /\ g[0].intervals = << >> /\ g[0] \in Reading
      BY <1>2, UnreadIs DEF Unread
    <2>2. WellRead(g[0])
      BY <2>1 DEF WellRead
    <2>3. 0 \in 0..n /\ 1..0 = {} /\ 1..(0 - 1) = {} /\ ~(0 > 0)
      BY <1>1
    <2>4. \A t \in Int : ~Reached(g[0], t)
      <3>1. Len(g[0].intervals) = 0
        BY <2>1
      <3>2. QED
        BY <2>1, <2>3, <3>1 DEF Reached, Covers
    <2>5. Good(0)
      BY <2>1, <2>2, <2>3, <2>4
    <2> HIDE DEF Good
    <2>6. QED
      BY <2>3, <2>5
  <1>4. ASSUME NEW i \in 0..(n - 1), i \in done PROVE i + 1 \in done
    <2>1. Good(i) /\ i + 1 \in 0..n /\ i + 1 \in 1..n /\ rows[i + 1] \in Sample /\ i \in Nat /\ i + 1 > 0 /\ i + 1 # 0
      BY <1>1, <1>4
    <2> DEFINE acc == g[i]
               row == rows[i + 1]
               next == g[i + 1]
    <2>2. next = TakesRow(acc, row) /\ row \in Sample /\ WellRead(acc)
      BY <1>2, <2>1
    <2>3. i > 0 => i \in 1..n /\ i < i + 1
      BY <1>1
    <2>4. acc.run = row.run /\ acc.start # NotStarted => acc.last <= row.at
      <3>1. SUFFICES ASSUME acc.run = row.run, acc.start # NotStarted PROVE acc.last <= row.at
        OBVIOUS
      <3>2. i > 0
        BY <2>1, <3>1
      <3>3. acc.run = rows[i].run /\ acc.last = rows[i].at
        BY <2>1, <3>2
      <3>4. rows[i].at < row.at
        BY <2>1, <2>3, <3>1, <3>2, <3>3
      <3>5. rows[i].at \in Int /\ row.at \in Int
        <4>1. \A k \in 1..n : rows[k].at \in Int
          BY <1>1 DEF Sample
        <4>2. QED
          BY <2>1, <2>3, <3>2, <4>1
      <3>6. QED
        BY <3>3, <3>4, <3>5
    <2>5. \A t \in Int : acc.run = row.run /\ acc.start # NotStarted /\ acc.last <= t /\ t < row.at
                         <=> i > 0 /\ Gap(rows, i, t)
      <3>1. CASE i = 0
        BY <2>1, <3>1
      <3>2. CASE i > 0
        <4>1. acc.run = rows[i].run /\ acc.last = rows[i].at /\ (acc.start = NotStarted <=> rows[i].present)
          BY <2>1, <3>2
        <4> HIDE DEF acc
        <4>2. QED
          BY <3>2, <4>1 DEF Gap
      <3>3. QED
        BY <2>1, <3>1, <3>2
    <2>6. \A t \in Int : Reached(acc, t) <=> \E j \in 1..(i - 1) : Gap(rows, j, t)
      BY <2>1
    <2> HIDE DEF acc, row, next, Good
    <2>7. /\ WellRead(next) /\ next.run = row.run /\ next.last = row.at
          /\ next.start = NotStarted <=> row.present
          /\ \A t \in Int : Reached(next, t) <=>
                Reached(acc, t) \/ (/\ acc.run = row.run /\ acc.start # NotStarted
                                    /\ acc.last <= t /\ t < row.at)
      BY <2>2, <2>4, RowAdds
    <2>8. \A j : j \in 1..((i + 1) - 1) <=> j \in 1..(i - 1) \/ (i > 0 /\ j = i)
      BY <2>1
    <2>9. \A t \in Int : Reached(next, t) <=> \E j \in 1..((i + 1) - 1) : Gap(rows, j, t)
      <3> DEFINE upto == 1..((i + 1) - 1)
                 before == 1..(i - 1)
      <3>1. \A j : j \in upto <=> j \in before \/ (i > 0 /\ j = i)
        BY <2>8
      <3>2. \A t \in Int : Reached(acc, t) <=> \E j \in before : Gap(rows, j, t)
        BY <2>6
      <3> HIDE DEF upto, before
      <3>3. ASSUME NEW t \in Int PROVE Reached(next, t) <=> \E j \in upto : Gap(rows, j, t)
        <4>1. (\E j \in upto : Gap(rows, j, t)) <=> Reached(acc, t) \/ (i > 0 /\ Gap(rows, i, t))
          BY <3>1, <3>2
        <4>2. QED
          BY <2>5, <2>7, <4>1
      <3>4. QED
        BY <3>3 DEF upto
    <2>10. Good(i + 1)
      BY <2>1, <2>7, <2>9 DEF Good, next, row
    <2>11. QED
      BY <2>1, <2>10
  <1> HIDE DEF done, Good
  <1>5. n \in done
    <2>1. n \in 0..n
      BY <1>1
    <2>2. QED
      BY <1>1, <1>3, <1>4, <2>1, OneByOne
  <1>6. CASE n = 0
    <2>1. 1..(n - 1) = {} /\ 1..(0 - 1) = {}
      BY <1>6
    <2>2. QED
      BY <1>2, <1>5, <2>1 DEF done, Good
  <1>7. CASE n # 0
    BY <1>2, <1>5 DEF done, Good
  <1>8. QED
    BY <1>6, <1>7

LEMMA RowsOf ==
  ASSUME NEW of \in SUBSET Sample, IsFiniteSet(of)
  PROVE  /\ Rows(of) \in Seq(Sample)
         /\ \A k \in 1..Len(Rows(of)) : Rows(of)[k] \in RowSet(of) /\ Rows(of)[k] \in Sample
         /\ \A x \in RowSet(of) : \E k \in 1..Len(Rows(of)) : Rows(of)[k] = x
         /\ \A k, l \in 1..Len(Rows(of)) : k < l <=> RowBefore(Rows(of)[k], Rows(of)[l])
         /\ \A k, l \in 1..Len(Rows(of)) : k < l /\ Rows(of)[k].run = Rows(of)[l].run => Rows(of)[k].at < Rows(of)[l].at
  <1> DEFINE rows == Rows(of)
             n == Len(rows)
             S == RowSet(of)
  <1>1. rows \in Seq(S) /\ (\A x \in S : \E k \in 1..n : rows[k] = x) /\ \A k, l \in 1..n : k < l <=> RowBefore(rows[k], rows[l])
    BY RowsAre DEF RowsInOrder
  <1>2. S \in SUBSET Sample
    BY RowSetIs, Zenon
  <1> HIDE DEF S, rows
  <1>3. \A k \in 1..n : rows[k] \in S
    BY <1>1
  <1>4. rows \in Seq(Sample)
    BY <1>1, <1>2
  <1>5. ASSUME NEW k \in 1..n, NEW l \in 1..n, k < l, rows[k].run = rows[l].run PROVE rows[k].at < rows[l].at
    <2>1. RowBefore(rows[k], rows[l])
      BY <1>1, <1>5
    <2>2. rows[k].run \in MonitorRun
      BY <1>2, <1>3 DEF Sample
    <2>3. RunPlace(rows[k].run) \in Nat
      BY <2>2, PlacesOfRuns
    <2>4. QED
      BY <1>5, <2>1, <2>3 DEF RowBefore
  <1> HIDE DEF n
  <1>6. QED
    BY <1>1, <1>2, <1>3, <1>4, <1>5 DEF rows, n, S

LEMMA ObservedIs ==
  ASSUME NEW of \in SUBSET Sample, IsFiniteSet(of)
  PROVE  /\ Observed(of) \in Seq(Interval)
         /\ \A t \in Int : Covers(Observed(of), t) <=> \E j \in 1..(Len(Rows(of)) - 1) : Gap(Rows(of), j, t)
  <1> DEFINE end == ReadRows(Rows(of))
  <1>1. /\ WellRead(end)
        /\ \A t \in Int : Reached(end, t) <=> \E j \in 1..(Len(Rows(of)) - 1) : Gap(Rows(of), j, t)
    <2> DEFINE rows == Rows(of)
    <2>1. rows \in Seq(Sample) /\ \A k, l \in 1..Len(rows) : k < l /\ rows[k].run = rows[l].run => rows[k].at < rows[l].at
      BY RowsOf
    <2> HIDE DEF rows
    <2>2. WellRead(ReadRows(rows)) /\ \A t \in Int : Reached(ReadRows(rows), t) <=> \E j \in 1..(Len(rows) - 1) : Gap(rows, j, t)
      BY <2>1, ReadRowsAre
    <2>3. QED
      BY <2>2 DEF rows
  <1>2. Observed(of) = IF end.start # NotStarted THEN Append(end.intervals, <<end.start, end.last>>) ELSE end.intervals
    BY DEF Observed, ReadRows, Unread
  <1> HIDE DEF end
  <1>3. /\ end.last \in Instant /\ end.intervals \in Seq(Interval) /\ end.start \in Instant \cup {NotStarted}
        /\ end.start # NotStarted => end.start <= end.last
    BY <1>1 DEF WellRead, Reading
  <1>4. Observed(of) \in Seq(Interval) /\ \A t \in Int : Covers(Observed(of), t) <=> Reached(end, t)
    <2>1. CASE end.start # NotStarted
      <3> DEFINE new == <<end.start, end.last>>
      <3>1. new \in Interval /\ \A t \in Int : Within(new, t) <=> end.start <= t /\ t < end.last
        <4>1. end.start \in Instant /\ end.start <= end.last
          BY <1>3, <2>1
        <4>2. QED
          BY <1>3, <4>1, IsInterval DEF Within
      <3>2. Observed(of) = Append(end.intervals, new)
        BY <1>2, <2>1
      <3> HIDE DEF new
      <3>3. QED
        BY <1>3, <2>1, <3>1, <3>2, AppendCovers DEF Reached
    <2>2. CASE end.start = NotStarted
      BY <1>2, <1>3, <2>2 DEF Reached
    <2>3. QED
      BY <2>1, <2>2
  <1>5. QED
    BY <1>1, <1>4

LEMMA TimelineIs ==
  ASSUME NEW of \in SUBSET Sample, IsFiniteSet(of)
  PROVE  /\ Timeline(of) \in Seq(Interval) /\ Apart(Timeline(of))
         /\ \A t \in Int : Covers(Timeline(of), t) <=> \E j \in 1..(Len(Rows(of)) - 1) : Gap(Rows(of), j, t)
  <1> DEFINE found == Observed(of)
             s == Sorted(found)
  <1>1. /\ found \in Seq(Interval)
        /\ \A t \in Int : Covers(found, t) <=> \E j \in 1..(Len(Rows(of)) - 1) : Gap(Rows(of), j, t)
    BY ObservedIs
  <1>2. Timeline(of) = Merged(s)
    BY DEF Timeline, Merged
  <1> HIDE DEF found
  <1>3. /\ s \in Seq(Interval) /\ Len(s) = Len(found)
        /\ \A k, l \in 1..Len(found) : k < l => s[k][1] <= s[l][1]
        /\ \A t \in Int : Covers(s, t) <=> Covers(found, t)
    BY <1>1, SortedIs
  <1> HIDE DEF s
  <1>4. /\ Merged(s) \in Seq(Interval) /\ Apart(Merged(s))
        /\ \A t \in Int : Covers(Merged(s), t) <=> Covers(s, t)
    BY <1>3, MergedIs
  <1>5. QED
    BY <1>1, <1>2, <1>3, <1>4

\* Between a row that found nothing and the next one of its session, that session had failed.
LEMMA GapsAreFailed ==
  ASSUME samples \in SUBSET Sample, IsFiniteSet(samples), NEW t \in Int
  PROVE  (\E j \in 1..(Len(Rows(samples)) - 1) : Gap(Rows(samples), j, t)) <=> \E run \in MonitorRun : Failed(run, t)
  <1> DEFINE rows == Rows(samples)
             n == Len(rows)
             S == RowSet(samples)
  <1>1. /\ rows \in Seq(Sample)
        /\ \A k \in 1..n : rows[k] \in S /\ rows[k] \in Sample
        /\ \A x \in S : \E k \in 1..n : rows[k] = x
        /\ \A k, l \in 1..n : k < l <=> RowBefore(rows[k], rows[l])
        /\ \A k, l \in 1..n : k < l /\ rows[k].run = rows[l].run => rows[k].at < rows[l].at
    BY RowsOf
  <1>2. /\ \A x \in S : /\ \E s \in samples : s.run = x.run /\ s.at = x.at
                        /\ \A s \in samples : s.run = x.run /\ s.at = x.at => (s.present => x.present)
                        /\ x.present => \E s \in samples : s.run = x.run /\ s.at = x.at /\ s.present
        /\ \A s \in samples : \E x \in S : x.run = s.run /\ x.at = s.at
    BY RowSetIs, Zenon
  <1>3. n \in Nat
    BY <1>1
  <1> HIDE DEF rows, S
  <1>4. \A s \in samples : s.run \in MonitorRun /\ s.at \in Nat /\ s.at <= MaxTime /\ s.at \in 0..MaxTime
    BY DEF Sample
  <1>5. \A k \in 1..n : rows[k].run \in MonitorRun /\ rows[k].at \in Nat /\ RunPlace(rows[k].run) \in Nat
    <2>1. \A k \in 1..n : rows[k].run \in MonitorRun /\ rows[k].at \in Nat
      BY <1>1 DEF Sample
    <2>2. QED
      BY <2>1, PlacesOfRuns
  <1> HIDE DEF n
  \* The rows of a session are one after the other.
  <1>6. ASSUME NEW j \in 1..n, NEW l \in 1..n, rows[j].run = rows[l].run, rows[j].at < rows[l].at
        PROVE  /\ j < l /\ j \in 1..(n - 1) /\ j + 1 \in 1..n /\ rows[j + 1].run = rows[j].run
               /\ rows[j].at < rows[j + 1].at /\ rows[j + 1].at <= rows[l].at
    <2>1. j < l
      BY <1>1, <1>6 DEF RowBefore
    <2>2. j \in 1..(n - 1) /\ j + 1 \in 1..n /\ j < j + 1 /\ (j + 1 = l \/ j + 1 < l)
      BY <1>3, <2>1
    <2>3. RowBefore(rows[j], rows[j + 1]) /\ (j + 1 = l \/ RowBefore(rows[j + 1], rows[l]))
      BY <1>1, <2>2
    <2>4. RunPlace(rows[j].run) <= RunPlace(rows[j + 1].run)
      BY <1>5, <2>2, <2>3 DEF RowBefore
    <2>5. RunPlace(rows[j + 1].run) <= RunPlace(rows[l].run)
      BY <1>5, <2>2, <2>3 DEF RowBefore
    <2>6. RunPlace(rows[j + 1].run) = RunPlace(rows[j].run)
      BY <1>5, <1>6, <2>2, <2>4, <2>5
    <2>7. rows[j + 1].run = rows[j].run
      BY <1>5, <2>2, <2>6, PlacesOfRuns
    <2>8. rows[j].at < rows[j + 1].at
      BY <1>1, <2>2, <2>7
    <2>9. rows[j + 1].at <= rows[l].at
      <3>1. CASE j + 1 = l
        BY <1>5, <3>1
      <3>2. CASE j + 1 < l
        <4>1. rows[j + 1].at < rows[l].at
          BY <1>1, <1>6, <2>2, <2>7, <3>2
        <4>2. QED
          BY <1>5, <2>2, <4>1
      <3>3. QED
        BY <2>2, <3>1, <3>2
    <2>10. QED
      BY <2>1, <2>2, <2>7, <2>8, <2>9
  <1>7. ASSUME NEW j \in 1..(n - 1), Gap(rows, j, t) PROVE \E run \in MonitorRun : Failed(run, t)
    <2>1. /\ j \in 1..n /\ j + 1 \in 1..n /\ rows[j].run = rows[j + 1].run /\ ~rows[j].present
          /\ rows[j].at <= t /\ t < rows[j + 1].at
      BY <1>3, <1>7 DEF Gap
    <2> DEFINE run == rows[j].run
               before == {s \in samples : s.run = run /\ s.at <= t}
               ats == {s.at : s \in before}
    <2>2. PICK o \in samples : o.run = run /\ o.at = rows[j].at
      BY <1>1, <1>2, <2>1
    <2>3. o \in before /\ rows[j].at \in ats
      BY <2>1, <2>2
    <2>4. ASSUME NEW s \in before PROVE s.at <= rows[j].at
      <3>1. PICK x \in S : x.run = s.run /\ x.at = s.at
        BY <1>2
      <3>2. PICK l \in 1..n : rows[l] = x
        BY <1>1
      <3>3. SUFFICES ASSUME rows[j].at < rows[l].at PROVE FALSE
        BY <1>5, <2>1, <3>1, <3>2
      <3>4. rows[j + 1].at <= rows[l].at
        BY <1>6, <2>1, <3>1, <3>2, <3>3
      <3>5. rows[l].at <= t
        BY <3>1, <3>2
      <3>6. QED
        BY <1>5, <2>1, <3>4, <3>5
    <2>5. Max(ats) = rows[j].at
      <3>1. \A y \in ats : y \in Nat /\ y <= rows[j].at
        BY <1>4, <2>4
      <3>2. rows[j].at \in Nat
        BY <1>5, <2>1
      <3> HIDE DEF ats
      <3>3. Max(ats) \in ats /\ \A y \in ats : Max(ats) >= y
        <4>1. \A y \in ats : rows[j].at >= y
          BY <3>1, <3>2
        <4>2. QED
          BY <2>3, <4>1 DEF Max
      <3>4. Max(ats) \in Nat /\ Max(ats) <= rows[j].at /\ Max(ats) >= rows[j].at
        BY <2>3, <3>1, <3>3
      <3>5. QED
        BY <3>2, <3>4
    <2>6. \A s \in before : s.at = Max(ats) => ~s.present
      <3>1. \A s \in samples : s.run = run /\ s.at = rows[j].at => (s.present => rows[j].present)
        BY <1>1, <1>2, <2>1
      <3> HIDE DEF ats
      <3>2. QED
        BY <2>1, <2>5, <3>1
    <2>7. PICK s \in samples : s.run = run /\ s.at = rows[j + 1].at
      BY <1>1, <1>2, <2>1
    <2>8. s.at > t /\ run \in MonitorRun
      BY <1>5, <2>1, <2>7
    <2>9. Failed(run, t)
      BY <2>3, <2>6, <2>7, <2>8 DEF Failed
    <2>10. QED
      BY <2>8, <2>9
  <1>8. ASSUME NEW run \in MonitorRun, Failed(run, t) PROVE \E j \in 1..(n - 1) : Gap(rows, j, t)
    <2> DEFINE before == {s \in samples : s.run = run /\ s.at <= t}
               ats == {s.at : s \in before}
    <2>1. /\ before # {} /\ \A s \in before : s.at = Max(ats) => ~s.present
          /\ \E s \in samples : s.run = run /\ s.at > t
      BY <1>8 DEF Failed
    <2>2. PICK later \in samples : later.run = run /\ later.at > t
      BY <2>1
    <2>3. Max(ats) \in ats /\ \A y \in ats : y <= Max(ats)
      <3>1. MaxTime \in Nat
        BY MonitorStorageAssumption DEF MonitorStorageAssumption
      <3>2. ats \in SUBSET (0..MaxTime) /\ ats # {}
        BY <1>4, <2>1
      <3> HIDE DEF ats
      <3>3. QED
        BY <3>1, <3>2, LatestOf
    <2>4. PICK o \in before : o.at = Max(ats)
      BY <2>3
    <2>5. PICK x \in S : x.run = run /\ x.at = o.at
      BY <1>2
    <2>6. ~x.present
      <3>1. SUFFICES ASSUME x.present PROVE FALSE
        OBVIOUS
      <3>2. PICK s \in samples : s.run = x.run /\ s.at = x.at /\ s.present
        BY <1>2, <3>1
      <3>3. s \in before /\ s.at = Max(ats)
        <4>1. s.run = run /\ s.at = o.at /\ o.at <= t
          BY <2>5, <3>2
        <4> HIDE DEF ats
        <4>2. QED
          BY <2>4, <4>1
      <3>4. QED
        BY <2>1, <3>2, <3>3
    <2>7. PICK y \in S : y.run = run /\ y.at = later.at
      BY <1>2, <2>2
    <2>8. PICK j \in 1..n : rows[j] = x
      BY <1>1
    <2>9. PICK l \in 1..n : rows[l] = y
      BY <1>1
    <2>10. rows[j].at <= t /\ rows[j].at < rows[l].at /\ rows[j].run = rows[l].run /\ rows[j].run = run /\ rows[j].at = Max(ats)
      <3>1. o.at <= t /\ t < later.at
        BY <2>2
      <3>2. o.at \in Int /\ later.at \in Int
        BY <1>4
      <3> HIDE DEF ats
      <3>3. QED
        BY <2>4, <2>5, <2>7, <2>8, <2>9, <3>1, <3>2
    <2>11. /\ j \in 1..(n - 1) /\ j + 1 \in 1..n /\ rows[j + 1].run = rows[j].run
           /\ rows[j].at < rows[j + 1].at
      BY <1>6, <2>10
    <2>12. t < rows[j + 1].at
      <3>1. SUFFICES ASSUME rows[j + 1].at <= t PROVE FALSE
        <4>1. rows[j + 1].at \in Int
          BY <1>5, <2>11
        <4>2. QED
          BY <4>1
      <3>2. PICK s \in samples : s.run = rows[j + 1].run /\ s.at = rows[j + 1].at
        BY <1>1, <1>2, <2>11
      <3>3. s \in before
        BY <2>10, <2>11, <3>1, <3>2
      <3>4. s.at \in ats
        BY <3>3
      <3> HIDE DEF ats
      <3>5. s.at <= rows[j].at /\ rows[j].at < s.at
        BY <2>3, <2>10, <2>11, <3>2, <3>4
      <3>6. s.at \in Int /\ rows[j].at \in Int
        BY <1>4, <1>5
      <3>7. QED
        BY <3>5, <3>6
    <2>13. Gap(rows, j, t)
      BY <2>6, <2>8, <2>10, <2>11, <2>12 DEF Gap
    <2>14. QED
      BY <2>11, <2>13
  <1>9. (\E j \in 1..(n - 1) : Gap(rows, j, t)) <=> \E run \in MonitorRun : Failed(run, t)
    BY <1>7, <1>8
  <1>10. QED
    BY <1>9 DEF rows, n

-----------------------------------------------------------------------------
(* MonitorStorage: buckets *)

LEMMA Divided ==
  ASSUME NEW r \in Nat, r > 0, NEW s \in Nat
  PROVE  s % r \in 0..(r - 1) /\ (s \div r) \in Nat /\ s = r * (s \div r) + (s % r)
  OBVIOUS

LEMMA Multiples ==
  ASSUME NEW r \in Nat, r > 0, NEW p \in Nat
  PROVE  (r * p) % r = 0 /\ r * p \in Nat /\ \A q \in Nat : p < q => r * p + r <= r * q
  <1>1. (r * p) % r = 0
    OBVIOUS
  <1>2. r * p \in Nat
    OBVIOUS
  <1>3. ASSUME NEW q \in Nat, p < q PROVE r * p + r <= r * q
    BY <1>3
  <1>4. QED
    BY <1>1, <1>2, <1>3

\* Every instant is in one bucket.
LEMMA BucketOf ==
  ASSUME NEW r \in Nat, r > 0, NEW s \in Nat
  PROVE  /\ Begin(s, r) \in Nat /\ Begin(s, r) % r = 0
         /\ Begin(s, r) <= s /\ s < Begin(s, r) + r
  <1> DEFINE rest == s % r
             product == r * (s \div r)
  <1>1. rest \in 0..(r - 1) /\ s = product + rest
    BY Divided
  <1>2. product \in Nat /\ product % r = 0
    BY Divided, Multiples
  <1>3. Begin(s, r) = s - rest
    BY DEF Begin
  <1> HIDE DEF rest, product
  <1>4. s - rest = product
    BY <1>1, <1>2
  <1>5. Begin(s, r) = product
    BY <1>3, <1>4
  <1>6. QED
    BY <1>1, <1>2, <1>5

LEMMA OneBucket ==
  ASSUME NEW r \in Nat, r > 0, NEW b \in Nat, NEW c \in Nat, b % r = 0, c % r = 0,
         NEW s \in Nat, b <= s, s < b + r, c <= s, s < c + r
  PROVE  b = c
  <1> DEFINE p == b \div r
             q == c \div r
  <1>1. p \in Nat /\ q \in Nat /\ b = r * p + (b % r) /\ c = r * q + (c % r) /\ r * p \in Nat /\ r * q \in Nat
    BY Divided, Multiples
  <1>2. (p < q => r * p + r <= r * q) /\ (q < p => r * q + r <= r * p)
    BY <1>1, Multiples
  <1> DEFINE x == r * p
             y == r * q
  <1>3. x \in Nat /\ y \in Nat /\ b = x + (b % r) /\ c = y + (c % r) /\ (p < q => x + r <= y) /\ (q < p => y + r <= x)
    BY <1>1, <1>2
  <1>4. p = q => x = y
    OBVIOUS
  <1>5. p \in Nat /\ q \in Nat
    BY <1>1
  <1> HIDE DEF x, y, p, q
  <1>6. b = x /\ c = y
    BY <1>3
  <1>7. ~(p < q) /\ ~(q < p)
    BY <1>3, <1>6
  <1>8. p = q
    BY <1>5, <1>7
  <1>9. QED
    BY <1>4, <1>6, <1>8

\* Each outage is counted in the bucket it begins in, and in no other.
LEMMA CountedOnce ==
  ASSUME NEW o \in Seq(Interval), NEW r \in Nat, r > 0
  PROVE  Len(o) = MapThenSumSet(LAMBDA b : OutageCount(o, b, r), {b \in 0..MaxTime : b % r = 0})
  <1> DEFINE n == Len(o)
             S == {b \in 0..MaxTime : b % r = 0}
             In(b) == {k \in 1..n : b <= o[k][1] /\ o[k][1] < b + r}
             Of(P) == {k \in 1..n : \E b \in P : b <= o[k][1] /\ o[k][1] < b + r}
             count == [P \in SUBSET S |-> Cardinality(Of(P))]
             c == [P \in SUBSET S |-> CHOOSE x \in P : TRUE]
             IsSum(iter) == iter = [P \in SUBSET S |->
                               IF P = {} THEN 0
                               ELSE OutageCount(o, CHOOSE x \in P : TRUE, r) + iter[P \ {CHOOSE x \in P : TRUE}]]
  <1>0. MaxTime \in Nat
    BY MonitorStorageAssumption DEF MonitorStorageAssumption
  <1>1. n \in Nat /\ DOMAIN o = 1..n /\ \A k \in 1..n : o[k][1] \in Nat /\ o[k][2] \in Nat /\ o[k][1] <= o[k][2] /\ o[k][1] <= MaxTime
    <2>1. n \in Nat /\ DOMAIN o = 1..n /\ \A k \in 1..n : o[k] \in Interval
      OBVIOUS
    <2>2. QED
      BY <1>0, <2>1, IntervalIs DEF Instant
  <1>2. \A b \in S : b \in Nat /\ b % r = 0
    OBVIOUS
  <1>3. IsFiniteSet(S)
    <2>1. IsFiniteSet(0..MaxTime)
      BY <1>0, FS_Interval
    <2>2. QED
      BY <2>1, FS_Subset
  <1>4. \A T \in SUBSET (1..n) : IsFiniteSet(T) /\ Cardinality(T) \in Nat
    <2>1. IsFiniteSet(1..n)
      BY <1>1, FS_Interval
    <2>2. QED
      BY <2>1, FS_Subset, FS_CardinalityType
  <1>5. ASSUME NEW b \in S PROVE OutageCount(o, b, r) = Cardinality(In(b))
    <2>1. {k \in DOMAIN o : Touches(o[k], b, r) /\ b <= o[k][1]} = In(b)
      <3>1. ASSUME NEW k \in 1..n PROVE Touches(o[k], b, r) /\ b <= o[k][1] <=> b <= o[k][1] /\ o[k][1] < b + r
        BY <1>1, <1>2 DEF Touches
      <3>2. QED
        BY <1>1, <3>1
    <2>2. QED
      BY <2>1 DEF OutageCount
  <1>6. ASSUME NEW P \in SUBSET S, NEW b \in P
        PROVE  Cardinality(Of(P)) = OutageCount(o, b, r) + Cardinality(Of(P \ {b}))
    <2>1. Of(P) = In(b) \cup Of(P \ {b})
      OBVIOUS
    <2>2. In(b) \cap Of(P \ {b}) = {}
      <3>1. SUFFICES ASSUME NEW k \in 1..n, NEW d \in P, d # b, b <= o[k][1], o[k][1] < b + r, d <= o[k][1], o[k][1] < d + r
                     PROVE  FALSE
        OBVIOUS
      <3>2. b \in Nat /\ d \in Nat /\ b % r = 0 /\ d % r = 0 /\ o[k][1] \in Nat
        BY <1>1, <1>2
      <3>3. QED
        BY <3>1, <3>2, OneBucket
    <2>3. In(b) \in SUBSET (1..n) /\ Of(P \ {b}) \in SUBSET (1..n)
      OBVIOUS
    <2> DEFINE X == In(b)
               Y == Of(P \ {b})
    <2>4. IsFiniteSet(X) /\ Cardinality(X) \in Nat /\ IsFiniteSet(Y) /\ Cardinality(Y) \in Nat
      BY <1>4, <2>3
    <2>5. Cardinality(Of(P)) = Cardinality(X \cup Y) /\ X \cap Y = {} /\ OutageCount(o, b, r) = Cardinality(X)
      BY <1>5, <2>1, <2>2
    <2> HIDE DEF X, Y, Of, S, In
    <2>6. Cardinality(X \cap Y) = 0
      BY <2>5, FS_EmptySet
    <2>7. Cardinality(X \cup Y) = Cardinality(X) + Cardinality(Y) - Cardinality(X \cap Y)
      BY <2>4, FS_Union
    <2>8. QED
      BY <2>4, <2>5, <2>6, <2>7 DEF Y
  <1>7. Of({}) = {} /\ Cardinality(Of({})) = 0
    BY FS_EmptySet
  <1> HIDE DEF Of, S, In
  <1>8. \A P \in SUBSET S : P # {} => (CHOOSE x \in P : TRUE) \in P
    OBVIOUS
  <1>9. IsSum(count)
    <2>1. ASSUME NEW P \in SUBSET S, P # {}
          PROVE  count[P] = OutageCount(o, CHOOSE x \in P : TRUE, r) + count[P \ {CHOOSE x \in P : TRUE}]
      <3> DEFINE b == CHOOSE x \in P : TRUE
      <3>1. b \in P
        BY <1>8, <2>1
      <3> HIDE DEF b
      <3>2. P \ {b} \in SUBSET S
        OBVIOUS
      <3>3. count[P] = OutageCount(o, b, r) + count[P \ {b}]
        BY <1>6, <3>1, <3>2
      <3> HIDE DEF count
      <3>4. QED
        BY <3>3 DEF b
    <2>2. count[{}] = 0
      BY <1>7
    <2>3. count = [P \in SUBSET S |-> count[P]]
      OBVIOUS
    <2> HIDE DEF count
    <2>4. QED
      BY <2>1, <2>2, <2>3
  <1> DEFINE sum == CHOOSE iter : IsSum(iter)
  <1>10. IsSum(sum)
    BY <1>9, Zenon
  <1>11. MapThenSumSet(LAMBDA b : OutageCount(o, b, r), S) = sum[S]
    BY DEF MapThenSumSet, MapThenFoldSet
  <1> HIDE DEF sum
  <1>12. sum[S] = count[S]
    <2>1. \A P \in SUBSET S : P # {} => c[P] \in P /\ c[P] = CHOOSE x \in P : TRUE
      BY <1>8
    <2>2. \A P \in SUBSET S : sum[P] = IF P = {} THEN 0 ELSE OutageCount(o, CHOOSE x \in P : TRUE, r) + sum[P \ {CHOOSE x \in P : TRUE}]
      BY <1>10
    <2>3. \A P \in SUBSET S : count[P] = IF P = {} THEN 0 ELSE OutageCount(o, CHOOSE x \in P : TRUE, r) + count[P \ {CHOOSE x \in P : TRUE}]
      <3> HIDE DEF count
      <3>1. QED
        BY <1>9
    <2> HIDE DEF count, c
    <2>4. sum[{}] = count[{}]
      BY <2>2, <2>3
    <2>5. ASSUME NEW P \in SUBSET S, P # {}, sum[P \ {c[P]}] = count[P \ {c[P]}] PROVE sum[P] = count[P]
      <3> DEFINE b == c[P]
      <3>1. b \in P /\ b = CHOOSE x \in P : TRUE
        BY <2>1, <2>5
      <3>2. sum[P] = OutageCount(o, CHOOSE x \in P : TRUE, r) + sum[P \ {CHOOSE x \in P : TRUE}]
        BY <2>2, <2>5
      <3>3. count[P] = OutageCount(o, CHOOSE x \in P : TRUE, r) + count[P \ {CHOOSE x \in P : TRUE}]
        BY <2>3, <2>5
      <3>4. sum[P \ {b}] = count[P \ {b}]
        BY <2>5
      <3> HIDE DEF b
      <3>5. QED
        BY <3>1, <3>2, <3>3, <3>4
    <2>6. GoAlike(sum, count, c, S)
      BY <2>1, <2>4, <2>5 DEF GoAlike
    <2>7. QED
      BY <1>3, <2>6, FoldsAgree
  <1>13. Of(S) = 1..n
    <2>1. ASSUME NEW k \in 1..n PROVE k \in Of(S)
      <3> DEFINE b == Begin(o[k][1], r)
      <3>1. b \in Nat /\ b % r = 0 /\ b <= o[k][1] /\ o[k][1] < b + r
        BY <1>1, BucketOf
      <3> HIDE DEF b
      <3>2. b \in 0..MaxTime
        BY <1>0, <1>1, <3>1
      <3>3. QED
        BY <3>1, <3>2 DEF Of, S
    <2>2. QED
      BY <2>1 DEF Of
  <1>14. count[S] = n
    <2>1. Cardinality(1..n) = n
      BY <1>1, PlacesFinite
    <2>2. QED
      BY <1>13, <2>1
  <1>15. QED
    BY <1>11, <1>12, <1>14 DEF S

LEMMA ApartAll ==
  ASSUME NEW o \in Seq(Interval), Apart(o)
  PROVE  \A k, l \in 1..Len(o) : k < l => o[k][2] < o[l][1]
  <1> DEFINE n == Len(o)
  <1>1. n \in Nat /\ \A k \in 1..n : o[k][1] \in Int /\ o[k][2] \in Int /\ o[k][1] <= o[k][2]
    <2>1. n \in Nat /\ \A k \in 1..n : o[k] \in Interval
      OBVIOUS
    <2>2. QED
      BY <2>1, IntervalIs
  <1>2. \A k \in 1..(n - 1) : o[k][2] < o[k + 1][1]
    BY DEF Apart
  <1> HIDE DEF n
  <1> DEFINE done == {m \in 0..n : \A k, l \in 1..n : k < l /\ l <= m => o[k][2] < o[l][1]}
  <1>3. 0 \in done
    BY <1>1
  <1>4. ASSUME NEW m \in 0..(n - 1), m \in done PROVE m + 1 \in done
    <2>1. ASSUME NEW k \in 1..n, NEW l \in 1..n, k < l, l <= m + 1 PROVE o[k][2] < o[l][1]
      <3>1. CASE l <= m
        BY <1>4, <2>1, <3>1
      <3>2. CASE l = m + 1
        <4>1. m \in 1..(n - 1) /\ m \in 1..n /\ o[m][2] < o[l][1]
          BY <1>1, <1>2, <2>1, <3>2
        <4>2. CASE k = m
          BY <4>1, <4>2
        <4>3. CASE k # m
          <5>1. k < m
            BY <1>1, <2>1, <3>2, <4>3
          <5>2. o[k][2] < o[m][1]
            BY <1>4, <4>1, <5>1
          <5>3. o[k][2] \in Int /\ o[m][1] \in Int /\ o[m][2] \in Int /\ o[l][1] \in Int /\ o[m][1] <= o[m][2]
            BY <1>1, <4>1
          <5>4. QED
            BY <4>1, <5>2, <5>3
        <4>4. QED
          BY <4>2, <4>3
      <3>3. QED
        BY <1>1, <2>1, <3>1, <3>2
    <2>2. m + 1 \in 0..n
      BY <1>1
    <2>3. QED
      BY <2>1, <2>2
  <1>5. n \in done
    <2>1. n \in 0..n
      BY <1>1
    <2> HIDE DEF done
    <2>2. QED
      BY <1>1, <1>3, <1>4, <2>1, OneByOne
  <1>6. \A k, l \in 1..n : k < l => o[k][2] < o[l][1]
    BY <1>1, <1>5
  <1>7. QED
    BY <1>6 DEF n

\* The part of a bucket an interval takes has as many instants as the bucket has of it.
LEMMA OverlapIs ==
  ASSUME NEW i \in Interval, NEW b \in Nat, NEW r \in Nat
  PROVE  Cardinality({t \in b..(b + r - 1) : Within(i, t)}) =
            IF Touches(i, b, r) THEN Overlap(i, b, r) ELSE 0
  <1> DEFINE lo == IF i[1] <= b THEN b ELSE i[1]
             hi == IF i[2] <= b + r THEN i[2] ELSE b + r
             S == {t \in b..(b + r - 1) : Within(i, t)}
  <1>1. i[1] \in Nat /\ i[2] \in Nat /\ i[1] <= i[2]
    BY IntervalIs
  <1>2. lo \in Int /\ hi \in Int
    BY <1>1
  <1>3. S = lo..(hi - 1)
    <2>1. ASSUME NEW t \in Int PROVE t \in b..(b + r - 1) /\ Within(i, t) <=> t \in lo..(hi - 1)
      BY <1>1 DEF Within
    <2>2. QED
      BY <1>1, <2>1
  <1>4. Cardinality(S) = IF lo > hi - 1 THEN 0 ELSE hi - 1 - lo + 1
    <2> HIDE DEF lo, hi, S
    <2>1. hi - 1 \in Int
      BY <1>2
    <2>2. Cardinality(lo..(hi - 1)) = IF lo > hi - 1 THEN 0 ELSE hi - 1 - lo + 1
      BY <1>2, <2>1, FS_Interval
    <2>3. QED
      BY <1>3, <2>2
  <1>5. Overlap(i, b, r) = IF 0 <= hi - lo THEN hi - lo ELSE 0
    <2>1. Min({i[2], b + r}) = hi
      <3>1. b + r \in Int /\ i[2] \in Int
        BY <1>1
      <3>2. QED
        BY <3>1, OfTwo, Zenon
    <2>2. Max({i[1], b}) = lo
      <3>1. b \in Int /\ i[1] \in Int
        BY <1>1
      <3>2. QED
        BY <3>1, OfTwo, Zenon
    <2> HIDE DEF lo, hi
    <2>3. hi - lo \in Int /\ 0 \in Int
      BY <1>2
    <2>4. Max({0, hi - lo}) = IF 0 <= hi - lo THEN hi - lo ELSE 0
      BY <2>3, OfTwo, Zenon
    <2>5. QED
      BY <2>1, <2>2, <2>4 DEF Overlap
  <1>6. Touches(i, b, r) \/ lo > hi - 1
    BY <1>1 DEF Touches
  <1> HIDE DEF lo, hi, S
  <1>7. Cardinality(S) = IF 0 <= hi - lo THEN hi - lo ELSE 0
    BY <1>2, <1>4
  <1>8. Cardinality(S) = IF Touches(i, b, r) THEN Overlap(i, b, r) ELSE 0
    BY <1>2, <1>4, <1>5, <1>6, <1>7
  <1>9. QED
    BY <1>8 DEF S

\* The time of a bucket is the instants of it that are in an outage.
LEMMA TimeIs ==
  ASSUME NEW o \in Seq(Interval), Apart(o), NEW b \in Nat, NEW r \in Nat
  PROVE  OutageTime(o, b, r) = Cardinality({t \in b..(b + r - 1) : Covers(o, t)})
  <1> DEFINE n == Len(o)
             S == 1..n
             U == b..(b + r - 1)
             In(k) == {t \in U : Within(o[k], t)}
             Of(P) == {t \in U : \E k \in P : Within(o[k], t)}
             count == [P \in SUBSET S |-> Cardinality(Of(P))]
             c == [P \in SUBSET S |-> Max(P)]
             plus(sum, i) == IF Touches(i, b, r) THEN sum + Overlap(i, b, r) ELSE sum
             IsSum(iter) == iter = [P \in SUBSET S |->
                               IF P = {} THEN 0 ELSE plus(iter[P \ {Max(P)}], o[Max(P)])]
  <1>1. n \in Nat /\ DOMAIN o = S /\ \A k \in S : o[k] \in Interval /\ o[k][1] \in Int /\ o[k][2] \in Int /\ o[k][1] <= o[k][2]
    <2>1. n \in Nat /\ DOMAIN o = S /\ \A k \in S : o[k] \in Interval
      OBVIOUS
    <2>2. QED
      BY <2>1, IntervalIs
  <1>2. IsFiniteSet(S)
    BY <1>1, PlacesFinite
  <1>3. \A T \in SUBSET U : IsFiniteSet(T) /\ Cardinality(T) \in Nat
    <2>1. IsFiniteSet(U)
      BY FS_Interval
    <2> HIDE DEF U
    <2>2. QED
      BY <2>1, FS_Subset, FS_CardinalityType
  <1>4. \A P \in SUBSET S : P # {} => Max(P) \in P
    BY <1>1, GreatestOf
  <1>5. ASSUME NEW P \in SUBSET S, NEW k \in P
        PROVE  Cardinality(Of(P)) = plus(Cardinality(Of(P \ {k})), o[k])
    <2> DEFINE X == Of(P \ {k})
               Y == In(k)
    <2>1. Of(P) = X \cup Y
      OBVIOUS
    <2>2. X \cap Y = {}
      <3>1. SUFFICES ASSUME NEW t \in U, NEW l \in P, l # k, Within(o[k], t), Within(o[l], t) PROVE FALSE
        OBVIOUS
      <3>2. \A x, y \in S : x < y => o[x][2] < o[y][1]
        BY ApartAll
      <3>3. k \in S /\ l \in S /\ k \in Int /\ l \in Int /\ t \in Int
        OBVIOUS
      <3>4. k < l \/ l < k
        BY <3>1, <3>3
      <3> HIDE DEF S, U
      <3>5. o[k][2] < o[l][1] \/ o[l][2] < o[k][1]
        BY <3>2, <3>3, <3>4
      <3>6. QED
        BY <1>1, <3>1, <3>3, <3>5 DEF Within
    <2>3. IsFiniteSet(X) /\ Cardinality(X) \in Nat /\ IsFiniteSet(Y) /\ Cardinality(Y) \in Nat
      <3>1. X \in SUBSET U /\ Y \in SUBSET U
        OBVIOUS
      <3> HIDE DEF X, Y, U
      <3>2. QED
        BY <1>3, <3>1
    <2>4. Cardinality(Y) = IF Touches(o[k], b, r) THEN Overlap(o[k], b, r) ELSE 0
      <3>1. o[k] \in Interval
        BY <1>1
      <3>2. QED
        BY <3>1, OverlapIs
    <2>5. Cardinality(Of(P)) = Cardinality(X) + Cardinality(Y)
      <3> HIDE DEF X, Y, Of
      <3>1. Cardinality(X \cap Y) = 0
        BY <2>2, FS_EmptySet
      <3>2. Cardinality(X \cup Y) = Cardinality(X) + Cardinality(Y) - Cardinality(X \cap Y)
        BY <2>3, FS_Union
      <3>3. QED
        BY <2>1, <2>3, <3>1, <3>2
    <2> DEFINE x == Cardinality(X)
    <2>6. x \in Nat /\ Cardinality(Of(P)) = x + (IF Touches(o[k], b, r) THEN Overlap(o[k], b, r) ELSE 0)
      BY <2>3, <2>4, <2>5
    <2> HIDE DEF x
    <2>7. Cardinality(Of(P)) = IF Touches(o[k], b, r) THEN x + Overlap(o[k], b, r) ELSE x
      BY <2>6
    <2>8. QED
      BY <2>7 DEF x
  <1>6. Cardinality(Of({})) = 0
    <2>1. Of({}) = {}
      OBVIOUS
    <2>2. QED
      BY <2>1, FS_EmptySet
  <1> HIDE DEF Of, S, plus
  <1>7. IsSum(count)
    <2>1. ASSUME NEW P \in SUBSET S, P # {} PROVE count[P] = plus(count[P \ {Max(P)}], o[Max(P)])
      <3> DEFINE k == Max(P)
      <3>1. k \in P
        BY <1>4, <2>1
      <3> HIDE DEF k
      <3>2. P \ {k} \in SUBSET S
        OBVIOUS
      <3>3. count[P] = plus(count[P \ {k}], o[k])
        BY <1>5, <3>1, <3>2
      <3> HIDE DEF count
      <3>4. QED
        BY <3>3 DEF k
    <2>2. count[{}] = 0
      BY <1>6
    <2>3. count = [P \in SUBSET S |-> count[P]]
      OBVIOUS
    <2> HIDE DEF count
    <2>4. QED
      BY <2>1, <2>2, <2>3
  <1> DEFINE sum == CHOOSE iter : IsSum(iter)
  <1>8. IsSum(sum)
    BY <1>7, Zenon
  <1>9. OutageTime(o, b, r) = sum[S]
    BY <1>1 DEF OutageTime, FoldLeft, MapThenFoldSet, plus
  <1> HIDE DEF sum
  <1>10. sum[S] = count[S]
    <2>1. \A P \in SUBSET S : P # {} => c[P] \in P /\ c[P] = Max(P)
      BY <1>4
    <2>2. \A P \in SUBSET S : sum[P] = IF P = {} THEN 0 ELSE plus(sum[P \ {Max(P)}], o[Max(P)])
      BY <1>8
    <2>3. \A P \in SUBSET S : count[P] = IF P = {} THEN 0 ELSE plus(count[P \ {Max(P)}], o[Max(P)])
      <3> HIDE DEF count
      <3>1. QED
        BY <1>7
    <2> HIDE DEF count, c
    <2>4. sum[{}] = count[{}]
      BY <2>2, <2>3
    <2>5. ASSUME NEW P \in SUBSET S, P # {}, sum[P \ {c[P]}] = count[P \ {c[P]}] PROVE sum[P] = count[P]
      <3>1. sum[P] = plus(sum[P \ {Max(P)}], o[Max(P)]) /\ count[P] = plus(count[P \ {Max(P)}], o[Max(P)])
        BY <2>2, <2>3, <2>5
      <3>2. sum[P \ {Max(P)}] = count[P \ {Max(P)}]
        BY <2>1, <2>5
      <3>3. QED
        BY <3>1, <3>2
    <2>6. GoAlike(sum, count, c, S)
      BY <2>1, <2>4, <2>5 DEF GoAlike
    <2>7. QED
      BY <1>2, <2>6, FoldsAgree
  <1>11. count[S] = Cardinality(Of(S))
    OBVIOUS
  <1>12. Of(S) = {t \in U : Covers(o, t)}
    BY DEF Of, S, Covers
  <1>13. QED
    BY <1>9, <1>10, <1>11, <1>12

LEMMA TimeFits ==
  ASSUME NEW o \in Seq(Interval), Apart(o), NEW b \in Nat, NEW r \in Nat
  PROVE  OutageTime(o, b, r) \in 0..r
  <1> DEFINE U == b..(b + r - 1)
             T == {t \in U : Covers(o, t)}
  <1>1. IsFiniteSet(U) /\ Cardinality(U) = r
    <2>1. IsFiniteSet(U) /\ Cardinality(U) = IF b > b + r - 1 THEN 0 ELSE b + r - 1 - b + 1
      BY FS_Interval
    <2>2. (IF b > b + r - 1 THEN 0 ELSE b + r - 1 - b + 1) = r
      OBVIOUS
    <2>3. QED
      BY <2>1, <2>2
  <1>2. Cardinality(T) \in Nat /\ Cardinality(T) <= r
    <2>1. T \in SUBSET U
      OBVIOUS
    <2> HIDE DEF T, U
    <2>2. IsFiniteSet(T) /\ Cardinality(T) <= Cardinality(U)
      BY <1>1, <2>1, FS_Subset
    <2>3. QED
      BY <1>1, <2>2, FS_CardinalityType
  <1>3. OutageTime(o, b, r) = Cardinality(T)
    BY TimeIs
  <1> HIDE DEF T
  <1>4. QED
    BY <1>2, <1>3

-----------------------------------------------------------------------------
(* MonitorStorage: what is proved of it *)

SamplesKept == samples \in SUBSET Sample /\ IsFiniteSet(samples)

LEMMA OutagesAreRight ==
  ASSUME SamplesKept
  PROVE  OutagesAddUp
  <1> DEFINE o == Timeline(samples)
  <1>1. /\ o \in Seq(Interval) /\ Apart(o)
        /\ \A t \in Int : Covers(o, t) <=> \E j \in 1..(Len(Rows(samples)) - 1) : Gap(Rows(samples), j, t)
    BY TimelineIs DEF SamplesKept
  <1>2. \A t \in Int : Covers(o, t) <=> \E run \in MonitorRun : Failed(run, t)
    BY <1>1, GapsAreFailed DEF SamplesKept
  <1> HIDE DEF o
  <1>3. ASSUME NEW r \in Resolution
        PROVE  /\ Len(o) = MapThenSumSet(LAMBDA b : OutageCount(o, b, r), {b \in 0..MaxTime : b % r = 0})
               /\ \A b \in {b \in 0..MaxTime : b % r = 0} :
                     OutageTime(o, b, r) = Cardinality({i \in b..(b + r - 1) : \E run \in MonitorRun : Failed(run, i)})
    <2>1. r \in Nat /\ r > 0
      BY MonitorStorageAssumption DEF MonitorStorageAssumption
    <2>2. Len(o) = MapThenSumSet(LAMBDA b : OutageCount(o, b, r), {b \in 0..MaxTime : b % r = 0})
      BY <1>1, <2>1, CountedOnce
    <2>3. ASSUME NEW b \in 0..MaxTime
          PROVE  OutageTime(o, b, r) = Cardinality({i \in b..(b + r - 1) : \E run \in MonitorRun : Failed(run, i)})
      <3>1. b \in Nat
        OBVIOUS
      <3>2. OutageTime(o, b, r) = Cardinality({i \in b..(b + r - 1) : Covers(o, i)})
        BY <1>1, <2>1, <3>1, TimeIs
      <3>3. {i \in b..(b + r - 1) : Covers(o, i)} = {i \in b..(b + r - 1) : \E run \in MonitorRun : Failed(run, i)}
        <4>1. \A i \in b..(b + r - 1) : i \in Int
          OBVIOUS
        <4>2. QED
          BY <1>2, <4>1
      <3>4. QED
        BY <3>2, <3>3
    <2>4. QED
      BY <2>2, <2>3
  <1>4. QED
    BY <1>1, <1>3 DEF OutagesAddUp, Apart, o

\* What is written about a bucket.
WellAggregated(e, b, r) == b % r = 0 /\ e.losses <= e.samples /\ e.time <= r

StorageInv ==
    /\ SamplesKept
    /\ clock \in 0..MaxTime /\ taken \in 0..MaxSamples
    /\ maintenance \in [left : SUBSET Resolution, outages : {o \in Seq(Interval) : Apart(o)}]
    /\ DOMAIN aggregates = Resolution
    /\ \A r \in Resolution : \A b \in DOMAIN aggregates[r] : WellAggregated(aggregates[r][b], b, r)

LEMMA BucketIs ==
  ASSUME SamplesKept, NEW o \in Seq(Interval), Apart(o), NEW r \in Resolution, NEW s \in samples
  PROVE  WellAggregated(Bucket(Begin(s.at, r), r, o), Begin(s.at, r), r)
  <1> DEFINE b == Begin(s.at, r)
             here == {x \in samples : Begin(x.at, r) = b}
             lost == {x \in here : ~x.present}
  <1>1. r \in Nat /\ r > 0 /\ s.at \in Nat
    <2>1. s.at \in 0..MaxTime
      BY DEF SamplesKept, Sample
    <2>2. QED
      BY <2>1, MonitorStorageAssumption DEF MonitorStorageAssumption
  <1>2. b \in Nat /\ b % r = 0
    BY <1>1, BucketOf
  <1>3. Cardinality(lost) <= Cardinality(here)
    <2>1. IsFiniteSet(here)
      BY FS_Subset DEF SamplesKept
    <2>2. QED
      BY <2>1, FS_Subset
  <1> HIDE DEF b
  <1>4. OutageTime(o, b, r) <= r
    <2>1. OutageTime(o, b, r) \in 0..r
      BY <1>1, <1>2, TimeFits
    <2>2. QED
      BY <1>1, <2>1
  <1>5. Bucket(b, r, o).losses = Cardinality(lost) /\ Bucket(b, r, o).samples = Cardinality(here) /\ Bucket(b, r, o).time = OutageTime(o, b, r)
    BY DEF Bucket
  <1> HIDE DEF lost, here
  <1>6. WellAggregated(Bucket(b, r, o), b, r)
    BY <1>2, <1>3, <1>4, <1>5 DEF WellAggregated
  <1>7. QED
    BY <1>6 DEF b

LEMMA StorageInvHolds ==
  StorageSpec => []StorageInv
  <1>a. << >> \in {o \in Seq(Interval) : Apart(o)}
    <2> DEFINE none == << >>
    <2>1. none \in Seq(Interval) /\ Len(none) = 0
      OBVIOUS
    <2> HIDE DEF none
    <2>2. Apart(none)
      BY <2>1 DEF Apart
    <2>3. QED
      BY <2>1, <2>2 DEF none
  <1>b. NotMaintaining \in [left : SUBSET Resolution, outages : {o \in Seq(Interval) : Apart(o)}]
    BY <1>a DEF NotMaintaining
  <1>c. MaxTime \in Nat /\ MaxSamples \in Nat
    BY MonitorStorageAssumption DEF MonitorStorageAssumption
  <1>1. StorageInit => StorageInv
    <2>1. IsFiniteSet({})
      BY FS_EmptySet
    <2>2. QED
      BY <1>b, <1>c, <2>1 DEF StorageInit, StorageInv, SamplesKept
  <1>2. StorageInv /\ [StorageNext]_storageVars => StorageInv'
    <2> SUFFICES ASSUME StorageInv, [StorageNext]_storageVars PROVE StorageInv'
      OBVIOUS
    <2>0. /\ SamplesKept /\ samples \in SUBSET Sample /\ IsFiniteSet(samples)
          /\ clock \in 0..MaxTime /\ taken \in 0..MaxSamples
          /\ maintenance \in [left : SUBSET Resolution, outages : {o \in Seq(Interval) : Apart(o)}]
          /\ DOMAIN aggregates = Resolution
          /\ \A r \in Resolution : \A b \in DOMAIN aggregates[r] : WellAggregated(aggregates[r][b], b, r)
      BY DEF StorageInv, SamplesKept
    <2>1. CASE TimePasses
      <3>1. clock' \in 0..MaxTime
        BY <1>c, <2>0, <2>1 DEF TimePasses
      <3>2. UNCHANGED <<samples, aggregates, maintenance, taken>>
        BY <2>1 DEF TimePasses
      <3>3. QED
        BY <2>0, <3>1, <3>2 DEF StorageInv, SamplesKept
    <2>2. CASE BeginMaintenance
      <3>1. Timeline(samples) \in {o \in Seq(Interval) : Apart(o)}
        BY <2>0, TimelineIs
      <3>2. maintenance' \in [left : SUBSET Resolution, outages : {o \in Seq(Interval) : Apart(o)}]
        BY <2>2, <3>1 DEF BeginMaintenance
      <3>3. UNCHANGED <<clock, samples, aggregates, taken>>
        BY <2>2 DEF BeginMaintenance
      <3>4. QED
        BY <2>0, <3>2, <3>3 DEF StorageInv, SamplesKept
    <2>3. CASE CleanUp
      <3>1. /\ maintenance' = NotMaintaining /\ samples' = {s \in samples : s.at >= clock - Raw}
            /\ aggregates' = [r \in Resolution |->
                  [b \in {c \in DOMAIN aggregates[r] : c >= clock - Kept[r]} |-> aggregates[r][b]]]
            /\ UNCHANGED <<clock, taken>>
        BY <2>3 DEF CleanUp
      <3>2. SamplesKept'
        <4>1. samples' \in SUBSET samples
          BY <3>1
        <4>2. IsFiniteSet(samples')
          BY <2>0, <4>1, FS_Subset
        <4>3. QED
          BY <2>0, <4>1, <4>2 DEF SamplesKept
      <3>3. DOMAIN aggregates' = Resolution
        BY <3>1
      <3>4. ASSUME NEW r \in Resolution, NEW b \in DOMAIN aggregates'[r] PROVE WellAggregated(aggregates'[r][b], b, r)
        <4>1. b \in DOMAIN aggregates[r] /\ aggregates'[r][b] = aggregates[r][b]
          BY <3>1
        <4>2. QED
          BY <2>0, <4>1
      <3>5. QED
        BY <1>b, <2>0, <3>1, <3>2, <3>3, <3>4 DEF StorageInv
    <2>4. ASSUME NEW run \in MonitorRun, NEW present \in BOOLEAN, TakeSample(run, present) PROVE StorageInv'
      <3>1. /\ taken' \in 0..MaxSamples
            /\ samples' = samples \cup {[run |-> run, at |-> clock, present |-> present]}
            /\ UNCHANGED <<clock, aggregates, maintenance>>
        BY <1>c, <2>0, <2>4 DEF TakeSample
      <3>2. [run |-> run, at |-> clock, present |-> present] \in Sample
        BY <2>0 DEF Sample
      <3>3. SamplesKept'
        <4> DEFINE new == [run |-> run, at |-> clock, present |-> present]
        <4>1. samples' = samples \cup {new} /\ new \in Sample
          BY <3>1, <3>2
        <4> HIDE DEF new
        <4>2. IsFiniteSet(samples')
          BY <2>0, <4>1, FS_AddElement
        <4>3. QED
          BY <2>0, <4>1, <4>2 DEF SamplesKept
      <3>4. QED
        BY <2>0, <3>1, <3>3 DEF StorageInv
    <2>5. ASSUME NEW r \in Resolution, Aggregate(r) PROVE StorageInv'
      <3> DEFINE new == {Begin(s.at, r) : s \in samples}
                 old == DOMAIN aggregates[r]
                 o == maintenance.outages
                 entries == [b \in new \cup old |-> IF b \in new THEN Bucket(b, r, o) ELSE aggregates[r][b]]
      <3>1. /\ aggregates' = [aggregates EXCEPT ![r] = entries]
            /\ maintenance' = [maintenance EXCEPT !.left = @ \ {r}]
            /\ UNCHANGED <<clock, samples, taken>>
        BY <2>5 DEF Aggregate
      <3>2. o \in Seq(Interval) /\ Apart(o)
        BY <2>0
      <3>3. ASSUME NEW b \in new \cup old PROVE WellAggregated(entries[b], b, r)
        <4>1. CASE b \in new
          <5>1. PICK s \in samples : b = Begin(s.at, r)
            BY <4>1
          <5>2. entries[b] = Bucket(b, r, o)
            BY <4>1
          <5> HIDE DEF entries, o
          <5>3. WellAggregated(Bucket(Begin(s.at, r), r, o), Begin(s.at, r), r)
            BY <2>0, <3>2, BucketIs
          <5>4. QED
            BY <5>1, <5>2, <5>3
        <4>2. CASE b \notin new
          <5>1. b \in old /\ entries[b] = aggregates[r][b]
            BY <3>3, <4>2
          <5> HIDE DEF entries
          <5>2. QED
            BY <2>0, <5>1
        <4>3. QED
          BY <4>1, <4>2
      <3>4. DOMAIN entries = new \cup old
        OBVIOUS
      <3> HIDE DEF entries, new, old, o
      <3>5. DOMAIN aggregates' = Resolution /\ aggregates'[r] = entries /\ \A q \in Resolution : q # r => aggregates'[q] = aggregates[q]
        BY <2>0, <3>1
      <3>6. ASSUME NEW q \in Resolution, NEW b \in DOMAIN aggregates'[q] PROVE WellAggregated(aggregates'[q][b], b, q)
        BY <2>0, <3>3, <3>4, <3>5
      <3>7. maintenance' \in [left : SUBSET Resolution, outages : {s \in Seq(Interval) : Apart(s)}]
        BY <2>0, <3>1
      <3>8. SamplesKept'
        BY <2>0, <3>1 DEF SamplesKept
      <3>9. QED
        BY <2>0, <3>1, <3>5, <3>6, <3>7, <3>8 DEF StorageInv
    <2>6. CASE UNCHANGED storageVars
      BY <2>0, <2>6 DEF storageVars, StorageInv, SamplesKept
    <2>7. QED
      BY <2>1, <2>2, <2>3, <2>4, <2>5, <2>6 DEF StorageNext
  <1>3. QED
    BY <1>1, <1>2, PTL DEF StorageSpec

\* However the samples of sessions overlap, whatever retention deletes and however long the tables
\* get, the buckets of a resolution add up to the outages: each outage is counted in one bucket,
\* the time of a bucket is the instants of it in an outage, and outages keep apart
\* (OutageTimeline and bucket in outages.py).
THEOREM StorageIsRight ==
  StorageSpec => []OutagesAddUp
  <1>1. StorageInv => OutagesAddUp
    BY OutagesAreRight DEF StorageInv
  <1>2. QED
    BY <1>1, StorageInvHolds, PTL

\* Buckets begin at multiples of their resolution, lose no more than they have and are out of
\* service no longer than they last (aggregate and cleanup in database.py).
THEOREM StorageTypes ==
  StorageSpec => []StorageTypeOK
  <1>1. StorageInv => StorageTypeOK
    BY DEF StorageInv, SamplesKept, StorageTypeOK, WellAggregated
  <1>2. QED
    BY <1>1, StorageInvHolds, PTL

-----------------------------------------------------------------------------
(* MCAdministration: each part behaves as its specification says, and what is *)
(* proved of it holds of the instance.                                      *)

LEMMA AdministrationParts ==
  /\ Init => MonitorSessionsInit /\ StorageInit /\ WireTuiInit /\ DesktopInit /\ part \in Parts
  /\ [Next]_vars => /\ [MonitorSessionsNext]_sessionsVars /\ [StorageNext]_storageVars
                    /\ [WireTuiNext]_wireTuiVars /\ [DesktopNext]_desktopVars
  /\ part \in Parts /\ [Next]_vars => (part \in Parts)'
  BY DEF Init, Next, vars

\* Every behaviour of the instance is one of each of its components.
THEOREM AdministrationImplementsParts ==
  Spec => MonitorSessionsSpec /\ StorageSpec /\ WireTuiSpec /\ DesktopSpec /\ [](part \in Parts)
  BY AdministrationParts, PTL DEF Spec, MonitorSessionsSpec, StorageSpec, WireTuiSpec, DesktopSpec

\* The types of every component hold, for all values of its constants.
THEOREM AdministrationTypes == Spec => []TypesOK
  <1>1. part \in Parts /\ MonitorSessionsTypeOK /\ StorageTypeOK /\ WireTuiTypeOK /\ DesktopTypeOK => TypesOK
    BY DEF TypesOK
  <1>2. QED
    BY <1>1, AdministrationImplementsParts, SessionsTypes, StorageTypes, WireTuiTypes, DesktopTypes, PTL

\* What the run checks of the instance holds of it for all values of the constants.
THEOREM AdministrationIsSafe ==
  Spec => [](OneMonitor /\ OutagesAddUp /\ NoKeyFails /\ NothingDroppedUnasked)
  BY AdministrationImplementsParts, OneIsMonitor, StorageIsRight, KeysDoNotFail, ChangesAreNotDroppedUnasked, PTL
================================================================================
