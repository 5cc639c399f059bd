-------------------------- MODULE CoordinationProofs --------------------------
(***************************************************************************)
(* Coordination: a command goes through its states once and in order, and  *)
(* is handled once at most; a session that was closed leaves nothing that  *)
(* waits for it.  What an interface shows is never out of date without    *)
(* news of it on the way: that rests on where events and cursors stand, on *)
(* what a poll does with what it read, and on a page being the first of   *)
(* the unread events.                                                      *)
(***************************************************************************)
EXTENDS Coordination, FiniteSetTheorems, WellFoundedInduction, TLAPS

\* Every set of naturals has a least element, and a bounded one a largest.
LEMMA LeastExists ==
  ASSUME NEW S \in SUBSET Nat, S # {}
  PROVE  \E n \in S : \A m \in S : n <= m
  <1> DEFINE R == OpToRel(<, Nat)
  <1>1. IsWellFoundedOn(R, Nat)
    BY NatLessThanWellFounded
  <1>2. \A x, y \in Nat : x < y => <<x, y>> \in R
    BY DEF OpToRel
  <1> HIDE DEF R
  <1>3. PICK n \in S : \A m \in S : ~(<<m, n>> \in R)
    BY <1>1, WFMin, Zenon
  <1>4. ASSUME NEW m \in S PROVE n <= m
    <2>1. n \in Nat /\ m \in Nat /\ ~(m < n)
      BY <1>2, <1>3, Zenon
    <2>2. QED
      BY <2>1
  <1>5. QED
    BY <1>4

LEMMA LargestIsLargest ==
  ASSUME NEW S \in SUBSET Nat, S # {}, NEW N \in Nat, \A n \in S : n <= N
  PROVE  Largest(S) \in S /\ Largest(S) \in 0..N /\ \A m \in S : m <= Largest(S)
  <1> DEFINE D == {N - n : n \in S}
  <1>1. D \in SUBSET Nat /\ D # {}
    <2>1. \A n \in S : n \in Nat /\ N - n \in Nat
      OBVIOUS
    <2>2. QED
      BY <2>1, Zenon
  <1>2. PICK d \in D : \A e \in D : d <= e
    BY <1>1, LeastExists
  <1>3. PICK n \in S : d = N - n
    BY <1>2
  <1>4. \A m \in S : N - m \in D
    OBVIOUS
  <1>5. \A m \in S : m \in Nat /\ N - n <= N - m
    BY <1>2, <1>3, <1>4
  <1>6. \A m \in S : m <= n
    BY <1>5
  <1>7. Largest(S) \in S /\ \A m \in S : m <= Largest(S)
    BY <1>6 DEF Largest
  <1> DEFINE last == Largest(S)
  <1>8. last \in S /\ last \in Nat /\ last <= N
    BY <1>7
  <1> HIDE DEF last
  <1>9. last \in 0..N
    BY <1>8
  <1>10. QED
    BY <1>7, <1>9 DEF last

-----------------------------------------------------------------------------
USE CoordinationAssumption

TaskRow == [session : Session \cup {Stranger},
            state : {"none", "running", "finished", "interrupted", "purged"}]
CommandRow == [target : Session \cup {Stranger},
               state : {"none", "queued", "delivered", "accepted", "failed", "expired", "purged"},
               aged : BOOLEAN]

Types ==
    /\ row \in [Session -> {"none", "fresh", "stale", "old"}]
    /\ task \in [Task -> TaskRow]
    /\ command \in [Command -> CommandRow]
    /\ life \in [Session -> {"off", "on", "closed", "dead"}]
    /\ batch \in [Session -> SUBSET Command]
    /\ executed \in [Command -> Nat]

\* What is claimed and not yet handled: its target has it, and nobody else.
Claimed(c, s) ==
    c \in batch[s] => /\ command[c].state \in {"delivered", "purged"}
                      /\ command[c].target = s /\ executed[c] = 0

\* A session that was closed has no row, so that nothing is addressed to it any more.
NoRow == \A s \in Session : life[s] = "closed" => row[s] = "none"

CoordinationInv ==
    /\ Types
    /\ ExecutedOnce
    /\ \A c \in Command, s \in Session : Claimed(c, s)
    /\ NoRow
    /\ ClosedIsSettled

CommandsFollow ==
    \A c \in Command : command'[c].state # command[c].state =>
        command'[c].state \in Follows[command[c].state]

LEMMA InitCoordinationInv == Init => CoordinationInv
  <1> SUFFICES ASSUME Init PROVE CoordinationInv
    OBVIOUS
  <1>1. NoTask \in TaskRow /\ NoCommand \in CommandRow
    BY DEF NoTask, TaskRow, NoCommand, CommandRow
  <1>2. Types
    BY <1>1 DEF Init, Types
  <1>3. QED
    BY <1>2 DEF Init, CoordinationInv, ExecutedOnce, Claimed, NoRow, ClosedIsSettled

\* Steps about something else.
LEMMA OtherSteps ==
  ASSUME CoordinationInv, UNCHANGED <<row, task, command, batch, executed, life>>
  PROVE  CoordinationInv' /\ CommandsFollow
  BY DEF CoordinationInv, Types, ExecutedOnce, Claimed, NoRow, ClosedIsSettled, CommandsFollow

\* A heartbeat, and its age, bring no row back.
LEMMA RowSteps ==
  ASSUME CoordinationInv, NEW s \in Session, Age(s) \/ Beat(s) \/ Install(s) \/ Uninstall(s)
  PROVE  CoordinationInv' /\ CommandsFollow
  <1>1. /\ UNCHANGED <<task, command, batch, executed, life>>
        /\ row' \in [Session -> {"none", "fresh", "stale", "old"}]
        /\ \A r \in Session : row[r] = "none" => row'[r] = "none"
    BY DEF CoordinationInv, Types, Age, Beat, Install, Uninstall, Heartbeat, Set,
       tables, poller, display
  <1>2. QED
    BY <1>1 DEF CoordinationInv, Types, ExecutedOnce, Claimed, NoRow, ClosedIsSettled,
       CommandsFollow

\* maintain expires what waits and forgets what has ended.
LEMMA MaintainSteps ==
  ASSUME CoordinationInv, NEW s \in Session, Start(s) \/ Maintain(s)
  PROVE  CoordinationInv' /\ CommandsFollow
  <1> USE DEF CoordinationInv
  <1>1. PICK rows \in [Session -> {"none", "fresh", "stale", "old"}] :
          Maintained(rows) /\ \A r \in Session : life'[r] = "closed" => rows[r] = "none"
    <2>1. CASE Start(s)
      <3>1. /\ [row EXCEPT ![s] = "fresh"] \in [Session -> {"none", "fresh", "stale", "old"}]
            /\ \A r \in Session : life'[r] = "closed" => r # s /\ row[r] = "none"
        BY <2>1 DEF Start, Set, Types, NoRow
      <3>2. QED
        BY <2>1, <3>1 DEF Start, Set, Types
    <2>2. CASE Maintain(s)
      BY <2>2 DEF Maintain, Types, NoRow, display
    <2>3. QED
      BY <2>1, <2>2
  <1>2. /\ batch' = batch /\ executed' = executed
        /\ life' \in [Session -> {"off", "on", "closed", "dead"}]
        /\ \A r \in Session : life'[r] = "closed" => life[r] = "closed"
    BY DEF Start, Maintain, Set, Types
  <1> DEFINE available == {r \in Session : rows[r] = "fresh"}
  <1>3. /\ row' \in [Session -> {"none", "fresh", "stale", "old"}]
        /\ \A r \in Session : rows[r] = "none" => row'[r] = "none"
    BY <1>1 DEF Maintained
  <1>4. PICK oldTasks \in SUBSET {t \in Task : Finished(task[t].state)},
             oldCommands \in SUBSET {c \in Command : Finished(command[c].state)} :
          /\ row' = [r \in Session |-> IF rows[r] = "old" THEN "none" ELSE rows[r]]
          /\ task' = [t \in Task |->
                CASE t \in oldTasks -> [task[t] EXCEPT !.state = "purged"]
                  [] task[t].state = "running" /\ task[t].session \notin available ->
                        [task[t] EXCEPT !.state = "interrupted"]
                  [] OTHER -> task[t]]
          /\ command' = [c \in Command |->
                CASE c \in oldCommands -> [command[c] EXCEPT !.state = "purged"]
                  [] command[c].state = "queued"
                     /\ (command[c].aged \/ command[c].target \notin available) ->
                        [command[c] EXCEPT !.state = "expired"]
                  [] OTHER -> command[c]]
          /\ floor' = Largest({floor, Len(log) - EventLimit})
    BY <1>1, Zenon DEF Maintained
  <1> HIDE DEF available
  <1>5. /\ task' \in [Task -> TaskRow]
        /\ \A t \in Task : /\ task'[t].session = task[t].session
                           /\ task'[t].state = "running" => task[t].state = "running"
    <2>1. \A t \in Task : \/ task'[t] = [task[t] EXCEPT !.state = "purged"]
                          \/ task'[t] = [task[t] EXCEPT !.state = "interrupted"]
                          \/ task'[t] = task[t]
      BY <1>4
    <2>2. ASSUME NEW t \in Task
          PROVE  /\ task'[t] \in TaskRow /\ task'[t].session = task[t].session
                 /\ task'[t].state = "running" => task[t].state = "running"
      <3>1. task[t] \in TaskRow
        BY DEF Types
      <3>2. task'[t] \in {task[t], [task[t] EXCEPT !.state = "purged"],
                          [task[t] EXCEPT !.state = "interrupted"]}
        BY <2>1
      <3>3. QED
        BY <3>1, <3>2 DEF TaskRow
    <2>3. task' = [t \in Task |-> task'[t]]
      BY <1>4
    <2>4. QED
      BY <2>2, <2>3
  <1>6. /\ command' \in [Command -> CommandRow]
        /\ \A c \in Command :
              /\ command'[c].target = command[c].target
              /\ \/ command'[c].state = command[c].state
                 \/ command'[c].state = "purged" /\ command[c].state \notin {"none", "queued"}
                 \/ command'[c].state = "expired" /\ command[c].state = "queued"
    <2>1. ASSUME NEW c \in Command
          PROVE  /\ command'[c] \in CommandRow /\ command'[c].target = command[c].target
                 /\ \/ command'[c].state = command[c].state
                    \/ command'[c].state = "purged" /\ command[c].state \notin {"none", "queued"}
                    \/ command'[c].state = "expired" /\ command[c].state = "queued"
      <3>1. command[c] \in CommandRow
        BY DEF Types
      <3>2. \/ command'[c] = command[c]
            \/ /\ command'[c] = [command[c] EXCEPT !.state = "purged"]
               /\ command[c].state \notin {"none", "queued"}
            \/ /\ command'[c] = [command[c] EXCEPT !.state = "expired"]
               /\ command[c].state = "queued"
        BY <1>4 DEF Finished
      <3>3. QED
        BY <3>1, <3>2 DEF CommandRow
    <2>2. command' = [c \in Command |-> command'[c]]
      BY <1>4
    <2>3. QED
      BY <2>1, <2>2
  <1>7. Types'
    BY <1>2, <1>3, <1>5, <1>6 DEF Types
  <1>8. ExecutedOnce' /\ \A c \in Command, r \in Session : Claimed(c, r)'
    BY <1>2, <1>6 DEF ExecutedOnce, Claimed
  <1>9. NoRow' /\ ClosedIsSettled'
    BY <1>1, <1>2, <1>3, <1>5, <1>6 DEF NoRow, ClosedIsSettled
  <1>10. CommandsFollow
    BY <1>6 DEF CommandsFollow, Follows, Types, CommandRow
  <1>11. QED
    BY <1>7, <1>8, <1>9, <1>10

\* Closing settles what is addressed to the session.
LEMMA CloseStep ==
  ASSUME CoordinationInv, NEW s \in Session, Close(s)
  PROVE  CoordinationInv' /\ CommandsFollow
  <1> USE DEF CoordinationInv, Close, Set, poller
  <1>1. /\ batch' = batch /\ executed' = executed
        /\ life' = [life EXCEPT ![s] = "closed"] /\ row' = [row EXCEPT ![s] = "none"]
    OBVIOUS
  <1>2. /\ task' \in [Task -> TaskRow]
        /\ \A t \in Task : /\ task'[t].session = task[t].session
                           /\ task'[t].state = "running" =>
                                 task[t].state = "running" /\ task[t].session # s
    BY DEF Types, TaskRow
  <1>3. /\ command' \in [Command -> CommandRow]
        /\ \A c \in Command :
              /\ command'[c].target = command[c].target
              /\ \/ command'[c].state = command[c].state
                 \/ command'[c].state = "expired" /\ command[c].state = "queued"
              /\ command'[c].target = s => command'[c].state # "queued"
    BY DEF Types, CommandRow
  <1>4. Types' /\ NoRow'
    BY <1>1, <1>2, <1>3 DEF Types, NoRow
  <1>5. ExecutedOnce' /\ \A c \in Command, r \in Session : Claimed(c, r)'
    BY <1>1, <1>3 DEF ExecutedOnce, Claimed
  <1>6. ClosedIsSettled'
    BY <1>1, <1>2, <1>3 DEF Types, ClosedIsSettled
  <1>7. CommandsFollow
    BY <1>3 DEF CommandsFollow, Follows, Types, CommandRow
  <1>8. QED
    BY <1>4, <1>5, <1>6, <1>7

LEMMA CrashStep ==
  ASSUME CoordinationInv, NEW s \in Session, Crash(s)
  PROVE  CoordinationInv' /\ CommandsFollow
  BY DEF CoordinationInv, Crash, Set, tables, Types, ExecutedOnce, Claimed, NoRow, ClosedIsSettled,
     CommandsFollow

\* Only a session that lives has tasks.
LEMMA TaskSteps ==
  ASSUME CoordinationInv, NEW t \in Task, NEW s \in Session, BeginTask(t, s) \/ EndTask(t, s)
  PROVE  CoordinationInv' /\ CommandsFollow
  <1> USE DEF CoordinationInv, BeginTask, EndTask, Set, poller
  <1>1. /\ UNCHANGED <<row, command, batch, executed, life>> /\ life[s] = "on"
        /\ task' \in [Task -> TaskRow]
        /\ \A u \in Task : task'[u].state = "running" =>
              task'[u].session = s \/ task'[u] = task[u]
    BY DEF Types, TaskRow
  <1>2. QED
    BY <1>1 DEF Types, ExecutedOnce, Claimed, NoRow, ClosedIsSettled, CommandsFollow

\* Only a session with a row is sent a command.
LEMMA QueueSteps ==
  ASSUME CoordinationInv, NEW c \in Command, Wait(c) \/ \E s \in Session : Enqueue(c, s)
  PROVE  CoordinationInv' /\ CommandsFollow
  <1> USE DEF CoordinationInv, poller
  <1>1. UNCHANGED <<row, task, batch, executed, life>>
    BY DEF Wait, Enqueue
  <1>2. CASE Wait(c)
    <2>1. /\ command' \in [Command -> CommandRow]
          /\ \A d \in Command : /\ command'[d].state = command[d].state
                                /\ command'[d].target = command[d].target
      <3>1. command[c] \in CommandRow
        BY DEF Types
      <3>2. /\ [command[c] EXCEPT !.aged = TRUE] \in CommandRow
            /\ [command[c] EXCEPT !.aged = TRUE].state = command[c].state
            /\ [command[c] EXCEPT !.aged = TRUE].target = command[c].target
        BY <3>1 DEF CommandRow
      <3>3. QED
        BY <1>2, <3>2 DEF Wait, Types
    <2>2. Types' /\ ExecutedOnce' /\ \A d \in Command, r \in Session : Claimed(d, r)'
      BY <1>1, <2>1 DEF Types, ExecutedOnce, Claimed
    <2>3. NoRow' /\ ClosedIsSettled' /\ CommandsFollow
      BY <1>1, <2>1 DEF NoRow, ClosedIsSettled, CommandsFollow
    <2>4. QED
      BY <2>2, <2>3
  <1>3. ASSUME NEW s \in Session, Enqueue(c, s) PROVE CoordinationInv' /\ CommandsFollow
    <2>1. /\ command' \in [Command -> CommandRow] /\ command[c].state = "none"
          /\ command'[c].state = "queued" /\ command'[c].target = s /\ row[s] = "fresh"
          /\ \A d \in Command \ {c} : command'[d] = command[d]
      BY <1>3 DEF Enqueue, Types, CommandRow
    <2>2. life[s] # "closed"
      BY <2>1 DEF NoRow
    <2>3. Types' /\ ExecutedOnce' /\ \A d \in Command, r \in Session : Claimed(d, r)'
      BY <1>1, <2>1 DEF Types, ExecutedOnce, Claimed
    <2>4. NoRow' /\ ClosedIsSettled'
      BY <1>1, <2>1, <2>2 DEF NoRow, ClosedIsSettled
    <2>5. CommandsFollow
      BY <2>1 DEF CommandsFollow, Follows
    <2>6. QED
      BY <2>3, <2>4, <2>5
  <1>4. QED
    BY <1>2, <1>3

\* A count of at most one is zero or one.
LEMMA ZeroOrOne ==
  ASSUME NEW n \in Nat, n <= 1
  PROVE  n = 0 \/ n = 1
  OBVIOUS

\* What is claimed is no longer queued, and nobody else's.
LEMMA ClaimStep ==
  ASSUME CoordinationInv, NEW s \in Session, Claim(s)
  PROVE  CoordinationInv' /\ CommandsFollow
  <1> USE DEF CoordinationInv, Claim, Claimable, Set, display
  <1>1. /\ UNCHANGED <<row, task, executed, life>>
        /\ batch' = [batch EXCEPT ![s] = Claimable(s)]
        /\ command' \in [Command -> CommandRow]
        /\ \A c \in Command : command'[c].target = command[c].target
        /\ \A c \in Claimable(s) : /\ command[c].state = "queued" /\ command'[c].state = "delivered"
                                   /\ command[c].target = s
        /\ \A c \in Command \ Claimable(s) : command'[c] = command[c]
        /\ Claimable(s) \subseteq Command
    BY DEF Types, CommandRow
  <1> USE DEF Types
  <1>2. Types'
    BY <1>1
  <1>3. ASSUME NEW c \in Command, NEW r \in Session PROVE Claimed(c, r)'
    <2>1. CASE r = s
      <3>1. c \in batch'[r] => c \in Claimable(s)
        BY <1>1, <2>1
      <3>2. /\ executed[c] = 0 \/ executed[c] = 1
            /\ executed[c] = 1 => command[c].state # "queued"
        <4>1. executed[c] \in Nat /\ executed[c] <= 1
          BY DEF ExecutedOnce
        <4>2. executed[c] = 0 \/ executed[c] = 1
          BY <4>1, ZeroOrOne
        <4>3. QED
          BY <4>2 DEF ExecutedOnce
      <3>3. c \in Claimable(s) => executed[c] = 0
        <4> HIDE DEF Claimable
        <4>1. c \in Claimable(s) => command[c].state = "queued"
          BY <1>1
        <4>2. QED
          BY <3>2, <4>1
      <3>4. QED
        BY <1>1, <2>1, <3>1, <3>3 DEF Claimed
    <2>2. CASE r # s
      <3>1. batch'[r] = batch[r] /\ (c \in batch[r] => c \notin Claimable(s))
        BY <1>1, <2>2 DEF Claimed
      <3>2. QED
        BY <1>1, <3>1 DEF Claimed
    <2>3. QED
      BY <2>1, <2>2
  <1>4. ExecutedOnce'
    BY <1>1 DEF ExecutedOnce
  <1>5. NoRow' /\ ClosedIsSettled'
    BY <1>1 DEF NoRow, ClosedIsSettled
  <1>6. CommandsFollow
    BY <1>1 DEF CommandsFollow, Follows
  <1>7. QED
    BY <1>2, <1>3, <1>4, <1>5, <1>6

\* What is handled is in no batch after that.
LEMMA RunStep ==
  ASSUME CoordinationInv, NEW s \in Session, Run(s)
  PROVE  CoordinationInv' /\ CommandsFollow
  <1> USE DEF CoordinationInv
  <1>1. PICK c \in batch[s], answer \in {"accepted", "failed", "none"} :
          /\ command' = IF command[c].state = "purged" \/ answer = "none" THEN command
                        ELSE [command EXCEPT ![c].state = answer]
          /\ executed' = [executed EXCEPT ![c] = IF handler[s] THEN @ + 1 ELSE @]
          /\ batch' = Set(batch, s, batch[s] \ {c}) \/ batch' = Set(batch, s, {})
    BY DEF Run
  <1>2. /\ UNCHANGED <<row, task, life>>
        /\ c \in Command /\ executed[c] = 0 /\ command[c].target = s
        /\ command[c].state \in {"delivered", "purged"}
    BY <1>1 DEF Run, Types, Claimed, display
  <1>3. /\ command' \in [Command -> CommandRow]
        /\ \A d \in Command : command'[d].target = command[d].target
        /\ \A d \in Command \ {c} : command'[d] = command[d]
        /\ \/ command'[c].state = command[c].state
           \/ command'[c].state \in {"accepted", "failed"} /\ command[c].state = "delivered"
    BY <1>1, <1>2 DEF Types, CommandRow
  <1>4. /\ batch' \in [Session -> SUBSET Command] /\ c \notin batch'[s]
        /\ \A r \in Session : batch'[r] \subseteq batch[r]
    BY <1>1, <1>2 DEF Types, Set
  <1>5. /\ executed' \in [Command -> Nat] /\ executed'[c] \in {0, 1}
        /\ \A d \in Command \ {c} : executed'[d] = executed[d]
    BY <1>1, <1>2 DEF Types
  <1>6. Types'
    BY <1>2, <1>3, <1>4, <1>5 DEF Types
  <1>7. ASSUME NEW d \in Command, NEW r \in Session PROVE Claimed(d, r)'
    <2>1. CASE d = c
      BY <1>2, <1>4, <2>1 DEF Claimed
    <2>2. CASE d # c
      BY <1>3, <1>4, <1>5, <2>2 DEF Claimed
    <2>3. QED
      BY <2>1, <2>2
  <1>8. ExecutedOnce'
    BY <1>2, <1>3, <1>5 DEF ExecutedOnce
  <1>9. NoRow' /\ ClosedIsSettled'
    BY <1>2, <1>3 DEF NoRow, ClosedIsSettled
  <1>10. CommandsFollow
    BY <1>2, <1>3 DEF CommandsFollow, Follows
  <1>11. QED
    BY <1>6, <1>7, <1>8, <1>9, <1>10

LEMMA EveryStep ==
  ASSUME CoordinationInv, [Next]_vars
  PROVE  CoordinationInv' /\ CommandsFollow
  <1>1. ASSUME NEW s \in Session, Lifetime(s) \/ Poll(s)
        PROVE  CoordinationInv' /\ CommandsFollow
    <2>1. CASE Read(s) \/ Tell(s) \/ EndPoll(s)
      BY <2>1, OtherSteps DEF Read, Tell, EndPoll, tables, display
    <2>2. QED
      BY <1>1, <2>1, MaintainSteps, CloseStep, CrashStep, RowSteps, ClaimStep, RunStep
         DEF Lifetime, Poll
  <1>2. ASSUME NEW s \in Session, Show(s) \/ Writes(s)
        PROVE  CoordinationInv' /\ CommandsFollow
    <2>1. CASE Reload(s) \/ ReadFiles(s) \/ Writes(s)
      BY <2>1, OtherSteps DEF Reload, ReadFiles, Writes, Write, Publish, tables, poller, display
    <2>2. QED
      BY <1>2, <2>1, RowSteps DEF Show
  <1>3. ASSUME NEW s \in Talkers, PublishOther(s)
        PROVE  CoordinationInv' /\ CommandsFollow
    BY <1>3, OtherSteps DEF PublishOther, poller, display
  <1>4. CASE UNCHANGED vars
    BY <1>4, OtherSteps DEF vars, tables, poller
  <1>5. QED
    BY <1>1, <1>2, <1>3, <1>4, TaskSteps, QueueSteps DEF Next

\* The invariant holds in every state.
THEOREM CoordinationInvariant == Spec => []CoordinationInv
  <1>1. CoordinationInv /\ [Next]_vars => CoordinationInv'
    BY EveryStep
  <1>2. QED
    BY <1>1, InitCoordinationInv, PTL DEF Spec

\* No command is handled twice, nor handled and reported as expired, whichever session
\* dies or is closed meanwhile (coordination.py, claim and complete; session.py, poll).
THEOREM CommandsExecutedOnce == Spec => []ExecutedOnce
  <1>1. CoordinationInv => ExecutedOnce
    BY DEF CoordinationInv
  <1>2. QED
    BY <1>1, CoordinationInvariant, PTL

\* A session that was closed leaves no running task and no command waiting, and none comes
\* later (coordination.py, close and enqueue).
THEOREM ClosedSessionIsSettled == Spec => []ClosedIsSettled
  <1>1. CoordinationInv => ClosedIsSettled
    BY DEF CoordinationInv
  <1>2. QED
    BY <1>1, CoordinationInvariant, PTL

\* A command goes through its states in one direction, and only once (coordination.py,
\* enqueue, claim, complete, maintain and close).
THEOREM CommandsFollowTheirLifecycle == Spec => CommandLifecycle
  <1>1. CoordinationInv /\ [Next]_vars =>
          [\A c \in Command : command'[c].state # command[c].state =>
              command'[c].state \in Follows[command[c].state]]_vars
    BY EveryStep DEF CommandsFollow
  <1>2. QED
    BY <1>1, CoordinationInvariant, PTL DEF Spec, CommandLifecycle
-----------------------------------------------------------------------------
(* The feed: what every variable holds, and no change goes untold.          *)

\* The limit on events is at least one: it never passes the last of them.
LEMMA FloorRises ==
  ASSUME NEW a \in Nat, NEW n \in Nat, a <= n
  PROVE  Largest({a, n - EventLimit}) \in a..n
  <1>1. n - EventLimit \in Int /\ n - EventLimit <= n
    BY DEF CoordinationAssumption
  <1>2. \E x \in {a, n - EventLimit} : \A y \in {a, n - EventLimit} : y <= x
    BY <1>1
  <1>3. /\ Largest({a, n - EventLimit}) \in {a, n - EventLimit}
        /\ \A y \in {a, n - EventLimit} : y <= Largest({a, n - EventLimit})
    BY <1>2 DEF Largest
  <1>4. QED
    BY <1>1, <1>3

EventRow == [session : Session \cup {Stranger}, about : Project \cup {Everything, NoNews}]

FeedTypes ==
    /\ controls \in [Session -> BOOLEAN]
    /\ log \in Seq(EventRow) /\ Len(log) <= MaxEvents /\ floor \in 0..Len(log)
    /\ stage \in [Session -> {"wait", "read", "tell", "claim", "run", "done"}]
    /\ cursor \in [Session -> 0..Len(log)]
    /\ pending \in [Session -> BOOLEAN] /\ changed \in [Session -> BOOLEAN]
    /\ handler \in [Session -> BOOLEAN]
    /\ notified \in [Session -> BOOLEAN] /\ reading \in [Session -> BOOLEAN]
    /\ writing \in [Session -> Project \cup {Everything, NoNews}]
    /\ outdated \in [Session -> BOOLEAN] /\ watching \in [Session -> BOOLEAN]
    /\ silent \in BOOLEAN

\* What a poll found is told in the same poll; an interface that watches has its handler,
\* and its session has started.
Listening(s) ==
    /\ changed[s] => stage[s] = "tell"
    /\ watching[s] => handler[s] /\ life[s] # "off"

FeedInv ==
    /\ FeedTypes
    /\ \A s \in Session : Listening(s)
    /\ NoLostRefresh

\* What a page holds are the first of the unread events.
LEMMA PageIsFirst ==
  ASSUME FeedTypes, NEW s \in Session
  PROVE  /\ Unread(s) \subseteq Retained /\ Page(s) \subseteq Unread(s)
         /\ Unread(s) \in SUBSET Nat /\ \A n \in Unread(s) : n <= Len(log)
         /\ \A n \in Page(s), m \in Unread(s) : m <= n => m \in Page(s)
  <1>1. Unread(s) \subseteq Retained /\ Page(s) \subseteq Unread(s)
    BY DEF Unread, Page
  <1>2. Len(log) \in Nat /\ floor \in Nat
    BY DEF FeedTypes
  <1>3. Unread(s) \in SUBSET Nat /\ \A n \in Unread(s) : n <= Len(log)
    BY <1>2 DEF Unread, Retained
  <1>4. ASSUME NEW n \in Page(s), NEW m \in Unread(s), m <= n PROVE m \in Page(s)
    <2> DEFINE upTo(k) == {j \in Unread(s) : j <= k}
    <2>1. n \in Nat /\ m \in Nat /\ n \in Unread(s)
      BY <1>1, <1>3
    <2>2. IsFiniteSet(upTo(n))
      <3>1. upTo(n) \in SUBSET Nat /\ \A k \in upTo(n) : k <= n
        BY <1>3
      <3>2. QED
        BY <2>1, <3>1, FS_BoundedSetOfNaturals
    <2>3. upTo(m) \in SUBSET upTo(n)
      BY <1>3, <1>4, <2>1
    <2>4. IsFiniteSet(upTo(m)) /\ Cardinality(upTo(m)) <= Cardinality(upTo(n))
      BY <2>2, <2>3, FS_Subset
    <2>5. Cardinality(upTo(n)) <= BatchLimit
      BY DEF Page
    <2>6. Cardinality(upTo(m)) \in Nat /\ Cardinality(upTo(n)) \in Nat /\ BatchLimit \in Nat
      BY <2>2, <2>4, FS_CardinalityType DEF CoordinationAssumption
    <2>7. Cardinality(upTo(m)) <= BatchLimit
      BY <2>4, <2>5, <2>6
    <2>8. QED
      BY <2>7 DEF Page
  <1>5. QED
    BY <1>1, <1>3, <1>4

\* The cursor moves to the end of the page.
LEMMA ReadMoves ==
  ASSUME FeedTypes, NEW s \in Session
  PROVE  /\ Largest(Page(s) \cup {cursor[s]}) \in Page(s) \cup {cursor[s]}
         /\ \A n \in Page(s) \cup {cursor[s]} : n <= Largest(Page(s) \cup {cursor[s]})
         /\ Largest(Page(s) \cup {cursor[s]}) \in 0..Len(log)
  <1>1. /\ Page(s) \cup {cursor[s]} \in SUBSET Nat /\ Len(log) \in Nat
        /\ \A n \in Page(s) \cup {cursor[s]} : n <= Len(log)
    BY PageIsFirst DEF FeedTypes
  <1>2. QED
    BY <1>1, LargestIsLargest

\* The floor only rises, and only to make room.
LEMMA MaintainRaises ==
  ASSUME FeedTypes, NEW rows, Maintained(rows)
  PROVE  floor' \in floor..Len(log)
  <1>1. floor \in Nat /\ Len(log) \in Nat /\ floor <= Len(log)
    BY DEF FeedTypes
  <1>2. floor' = Largest({floor, Len(log) - EventLimit})
    BY DEF Maintained
  <1>3. QED
    BY <1>1, <1>2, FloorRises

\* A session that starts has read what there is.
LEMMA StartReads ==
  ASSUME FeedTypes, NEW s \in Session, Start(s)
  PROVE  cursor' \in [Session -> 0..Len(log)] /\ \A r \in Session \ {s} : cursor'[r] = cursor[r]
  <1> DEFINE S == {n \in Retained : n > floor'}
  <1>1. Len(log) \in Nat /\ S \in SUBSET Nat /\ \A n \in S : n <= Len(log)
    BY DEF FeedTypes, Retained
  <1>2. cursor' = [cursor EXCEPT ![s] = Largest(S)]
    BY DEF Start, Set
  <1> HIDE DEF S
  <1>3. Largest(S) \in 0..Len(log)
    <2>1. CASE S = {}
      BY <1>1, <2>1 DEF Largest
    <2>2. CASE S # {}
      BY <1>1, <2>2, LargestIsLargest
    <2>3. QED
      BY <2>1, <2>2
  <1>4. QED
    BY <1>2, <1>3 DEF FeedTypes

\* Publishing appends one event.
LEMMA AppendOne ==
  ASSUME FeedTypes, NEW e \in EventRow, Len(log) < MaxEvents, log' = Append(log, e)
  PROVE  /\ log' \in Seq(EventRow) /\ Len(log') = Len(log) + 1 /\ Len(log') <= MaxEvents
         /\ log'[Len(log) + 1] = e /\ \A n \in 1..Len(log) : log'[n] = log[n]
  BY DEF FeedTypes, CoordinationAssumption

LEMMA PublishAppends ==
  ASSUME FeedTypes, log' # log,
         (\E s \in Session : Publish(s)) \/ \E s \in Talkers : PublishOther(s)
  PROVE  \E e \in EventRow : Len(log) < MaxEvents /\ log' = Append(log, e)
  <1>1. ASSUME NEW s \in Session, Publish(s)
        PROVE  \E e \in EventRow : Len(log) < MaxEvents /\ log' = Append(log, e)
    <2>1. [session |-> s, about |-> writing[s]] \in EventRow
      BY DEF FeedTypes, EventRow
    <2>2. QED
      BY <1>1, <2>1 DEF Publish
  <1>2. ASSUME NEW s \in Talkers, PublishOther(s)
        PROVE  \E e \in EventRow : Len(log) < MaxEvents /\ log' = Append(log, e)
    <2>1. [session |-> s, about |-> NoNews] \in EventRow
      BY DEF EventRow, CoordinationAssumption
    <2>2. QED
      BY <1>2, <2>1 DEF PublishOther
  <1>3. QED
    BY <1>1, <1>2

\* The tables of the feed in every step: only what is published is appended.
LEMMA FeedTablesStep ==
  ASSUME FeedTypes, [Next]_vars
  PROVE  /\ log' \in Seq(EventRow) /\ Len(log') <= MaxEvents /\ Len(log') \in Nat
         /\ Len(log) <= Len(log') /\ \A n \in 1..Len(log) : log'[n] = log[n]
         /\ floor' \in floor..Len(log)
  <1>1. /\ log' = log \/ \E e \in EventRow : Len(log) < MaxEvents /\ log' = Append(log, e)
        /\ floor' = floor \/ \E rows : Maintained(rows)
    <2>1. ASSUME NEW s \in Session, Lifetime(s) \/ Poll(s)
          PROVE  log' = log /\ (floor' = floor \/ \E rows : Maintained(rows))
      BY <2>1 DEF Lifetime, Start, Close, Crash, Age, Poll, Beat, Read, Tell, Claim, Run, Maintain,
         EndPoll, tables
    <2>2. ASSUME NEW s \in Session, Show(s)
          PROVE  log' = log /\ floor' = floor
      BY <2>2 DEF Show, Install, Uninstall, Reload, ReadFiles, tables
    <2>3. ASSUME NEW s \in Session, Writes(s)
          PROVE  floor' = floor /\ (log' = log \/ Publish(s))
      BY <2>3 DEF Writes, Write, Publish, tables
    <2>4. ASSUME NEW s \in Talkers, PublishOther(s)
          PROVE  floor' = floor
      BY <2>4 DEF PublishOther
    <2>5. ASSUME NEW t \in Task, NEW s \in Session, BeginTask(t, s) \/ EndTask(t, s)
          PROVE  log' = log /\ floor' = floor
      BY <2>5 DEF BeginTask, EndTask
    <2>6. ASSUME NEW c \in Command, Wait(c) \/ \E s \in Session : Enqueue(c, s)
          PROVE  log' = log /\ floor' = floor
      BY <2>6 DEF Wait, Enqueue
    <2>7. CASE UNCHANGED vars
      BY <2>7 DEF vars, tables
    <2>8. QED
      BY <2>1, <2>2, <2>3, <2>4, <2>5, <2>6, <2>7, PublishAppends DEF Next
  <1>2. floor' \in floor..Len(log)
    BY <1>1, MaintainRaises DEF FeedTypes
  <1>3. CASE log' = log
    BY <1>2, <1>3 DEF FeedTypes
  <1>4. CASE \E e \in EventRow : Len(log) < MaxEvents /\ log' = Append(log, e)
    BY <1>2, <1>4, AppendOne DEF FeedTypes
  <1>5. QED
    BY <1>1, <1>2, <1>3, <1>4

\* The cursor stays among the events.
LEMMA CursorStep ==
  ASSUME FeedTypes, [Next]_vars
  PROVE  cursor' \in [Session -> 0..Len(log)]
  <1>1. ASSUME NEW s \in Session, Lifetime(s) \/ Poll(s)
        PROVE  cursor' = cursor \/ Start(s) \/ Crash(s) \/ Read(s)
    BY <1>1 DEF Lifetime, Close, Age, Poll, Beat, Tell, Claim, Run, Maintain, EndPoll, poller
  <1>2. ASSUME NEW s \in Session, Show(s) \/ Writes(s)
        PROVE  cursor' = cursor
    BY <1>2 DEF Show, Install, Uninstall, Reload, ReadFiles, Writes, Write, Publish, poller
  <1>3. ASSUME NEW s \in Talkers, PublishOther(s)
        PROVE  cursor' = cursor
    BY <1>3 DEF PublishOther, poller
  <1>4. ASSUME NEW t \in Task, NEW s \in Session, BeginTask(t, s) \/ EndTask(t, s)
        PROVE  cursor' = cursor
    BY <1>4 DEF BeginTask, EndTask, poller
  <1>5. ASSUME NEW c \in Command, Wait(c) \/ \E s \in Session : Enqueue(c, s)
        PROVE  cursor' = cursor
    BY <1>5 DEF Wait, Enqueue, poller
  <1>6. CASE UNCHANGED vars
    BY <1>6 DEF vars, poller, FeedTypes
  <1>7. ASSUME NEW s \in Session, Start(s) PROVE cursor' \in [Session -> 0..Len(log)]
    BY <1>7, StartReads
  <1>8. ASSUME NEW s \in Session, Crash(s) PROVE cursor' \in [Session -> 0..Len(log)]
    BY <1>8 DEF Crash, Set, FeedTypes
  <1>9. ASSUME NEW s \in Session, Read(s) PROVE cursor' \in [Session -> 0..Len(log)]
    <2>1. cursor' = [cursor EXCEPT ![s] = Largest(Page(s) \cup {cursor[s]})]
      BY <1>9 DEF Read, Set
    <2>2. Largest(Page(s) \cup {cursor[s]}) \in 0..Len(log)
      BY ReadMoves
    <2>3. QED
      BY <2>1, <2>2 DEF FeedTypes
  <1>10. CASE cursor' = cursor
    BY <1>10 DEF FeedTypes
  <1>11. QED
    BY <1>1, <1>2, <1>3, <1>4, <1>5, <1>6, <1>7, <1>8, <1>9, <1>10 DEF Next

FlagTypes ==
    /\ controls \in [Session -> BOOLEAN]
    /\ stage \in [Session -> {"wait", "read", "tell", "claim", "run", "done"}]
    /\ pending \in [Session -> BOOLEAN] /\ changed \in [Session -> BOOLEAN]
    /\ handler \in [Session -> BOOLEAN]
    /\ notified \in [Session -> BOOLEAN] /\ reading \in [Session -> BOOLEAN]
    /\ writing \in [Session -> Project \cup {Everything, NoNews}]
    /\ outdated \in [Session -> BOOLEAN] /\ watching \in [Session -> BOOLEAN]
    /\ silent \in BOOLEAN

LEMMA FlagStep ==
  ASSUME FlagTypes, [Next]_vars
  PROVE  FlagTypes'
  <1> USE DEF FlagTypes, Set
  <1>1. ASSUME NEW s \in Session, Lifetime(s) PROVE FlagTypes'
    <2>1. CASE Start(s) \/ Close(s) \/ Age(s)
      BY <2>1 DEF Start, Close, Age, poller, display
    <2>2. CASE Crash(s)
      BY <2>2 DEF Crash, tables
    <2>3. QED
      BY <1>1, <2>1, <2>2 DEF Lifetime
  <1>2. ASSUME NEW s \in Session, Poll(s) PROVE FlagTypes'
    <2>1. CASE Beat(s)
      BY <2>1 DEF Beat, Heartbeat, display
    <2>2. CASE Read(s)
      <3>1. (pending[s] \/ \E n \in Page(s) : AfterGap(n, s) \/ Concerns(n, s)) \in BOOLEAN
        OBVIOUS
      <3>2. QED
        BY <2>2, <3>1 DEF Read, tables, display
    <2>3. CASE Tell(s)
      <3>1. UNCHANGED <<controls, handler, reading, writing, outdated, watching, silent>>
        BY <2>3 DEF Tell, tables
      <3>2. /\ changed' = Set(changed, s, FALSE)
            /\ \E where \in {"wait", "claim", "done"} : stage' = Set(stage, s, where)
            /\ pending' = pending \/ \E b \in BOOLEAN : pending' = Set(pending, s, b)
            /\ notified' = notified \/ notified' = Set(notified, s, TRUE)
        BY <2>3 DEF Tell
      <3>3. changed' \in [Session -> BOOLEAN] /\ notified' \in [Session -> BOOLEAN]
        BY <3>2
      <3>4. stage' \in [Session -> {"wait", "read", "tell", "claim", "run", "done"}]
        BY <3>2
      <3>5. pending' \in [Session -> BOOLEAN]
        BY <3>2
      <3>6. QED
        BY <3>1, <3>3, <3>4, <3>5
    <2>4. CASE Claim(s) \/ Maintain(s) \/ EndPoll(s)
      BY <2>4 DEF Claim, Maintain, EndPoll, tables, display
    <2>5. CASE Run(s)
      BY <2>5 DEF Run, display
    <2>6. QED
      BY <1>2, <2>1, <2>2, <2>3, <2>4, <2>5 DEF Poll
  <1>3. ASSUME NEW s \in Session, Show(s) PROVE FlagTypes'
    <2>1. CASE Install(s)
      BY <2>1 DEF Install, Heartbeat, poller
    <2>2. CASE Uninstall(s)
      BY <2>2 DEF Uninstall, Heartbeat, poller
    <2>3. CASE Reload(s)
      BY <2>3 DEF Reload, tables, poller
    <2>4. CASE ReadFiles(s)
      BY <2>4 DEF ReadFiles, tables, poller
    <2>5. QED
      BY <1>3, <2>1, <2>2, <2>3, <2>4 DEF Show
  <1>4. ASSUME NEW s \in Session, Writes(s) PROVE FlagTypes'
    <2>1. CASE Publish(s)
      BY <2>1 DEF Publish, poller, display
    <2>2. ASSUME NEW about \in Changes, Write(s, about) PROVE FlagTypes'
      <3>1. about \in Project \cup {Everything, NoNews}
        BY DEF CoordinationAssumption
      <3>2. outdated' \in [Session -> BOOLEAN]
        BY <2>2 DEF Write
      <3>3. QED
        BY <2>2, <3>1, <3>2 DEF Write, tables, poller
    <2>3. QED
      BY <1>4, <2>1, <2>2 DEF Writes
  <1>5. ASSUME NEW s \in Talkers, PublishOther(s) PROVE FlagTypes'
    BY <1>5 DEF PublishOther, poller, display
  <1>6. ASSUME NEW t \in Task, NEW s \in Session, BeginTask(t, s) \/ EndTask(t, s)
        PROVE  FlagTypes'
    BY <1>6 DEF BeginTask, EndTask, poller, display
  <1>7. ASSUME NEW c \in Command, Wait(c) \/ \E s \in Session : Enqueue(c, s)
        PROVE  FlagTypes'
    BY <1>7 DEF Wait, Enqueue, poller, display
  <1>8. CASE UNCHANGED vars
    BY <1>8 DEF vars, tables, poller, display
  <1>9. QED
    BY <1>1, <1>2, <1>3, <1>4, <1>5, <1>6, <1>7, <1>8 DEF Next

LEMMA FeedTypesStep ==
  ASSUME FeedTypes, [Next]_vars
  PROVE  FeedTypes'
  <1>1. FlagTypes'
    BY FlagStep DEF FeedTypes, FlagTypes
  <1>2. cursor' \in [Session -> 0..Len(log')]
    <2>1. cursor' \in [Session -> 0..Len(log)] /\ 0..Len(log) \subseteq 0..Len(log')
      BY CursorStep, FeedTablesStep DEF FeedTypes
    <2>2. QED
      BY <2>1
  <1>3. /\ log' \in Seq(EventRow) /\ Len(log') <= MaxEvents /\ floor' \in 0..Len(log')
    BY FeedTablesStep DEF FeedTypes
  <1>4. QED
    BY <1>1, <1>2, <1>3 DEF FeedTypes, FlagTypes

LEMMA ListeningStep ==
  ASSUME Types, FeedTypes, \A s \in Session : Listening(s), [Next]_vars, NEW r \in Session
  PROVE  Listening(r)'
  <1> USE DEF Listening, Set, Types, FeedTypes
  <1>1. ASSUME NEW s \in Session, Lifetime(s) PROVE Listening(r)'
    <2>1. CASE Start(s)
      BY <2>1 DEF Start, display
    <2>2. CASE Close(s) \/ Age(s)
      BY <2>2 DEF Close, Age, poller, display
    <2>3. CASE Crash(s)
      BY <2>3 DEF Crash
    <2>4. QED
      BY <1>1, <2>1, <2>2, <2>3 DEF Lifetime
  <1>2. ASSUME NEW s \in Session, Poll(s) PROVE Listening(r)'
    <2>1. UNCHANGED <<handler, watching, life>>
      BY <1>2 DEF Poll, Beat, Read, Tell, Claim, Run, Maintain, EndPoll, display
    <2>2. changed'[r] => stage'[r] = "tell"
      <3>1. CASE Beat(s) \/ Claim(s) \/ Run(s) \/ Maintain(s) \/ EndPoll(s)
        <4>1. changed' = changed /\ stage[s] # "tell" /\ \A q \in Session \ {s} : stage'[q] = stage[q]
          BY <3>1 DEF Beat, Claim, Run, Maintain, EndPoll
        <4>2. QED
          BY <4>1
      <3>2. CASE Read(s)
        <4>1. /\ stage' = [stage EXCEPT ![s] = "tell"]
              /\ \A q \in Session \ {s} : changed'[q] = changed[q]
          BY <3>2 DEF Read
        <4>2. QED
          BY <4>1
      <3>3. CASE Tell(s)
        <4>1. /\ changed' = [changed EXCEPT ![s] = FALSE]
              /\ \A q \in Session \ {s} : stage'[q] = stage[q]
          BY <3>3 DEF Tell
        <4>2. QED
          BY <4>1
      <3>4. QED
        BY <1>2, <3>1, <3>2, <3>3 DEF Poll
    <2>3. QED
      BY <2>1, <2>2
  <1>3. ASSUME NEW s \in Session, Show(s) PROVE Listening(r)'
    <2>1. UNCHANGED <<changed, stage, life>>
      BY <1>3 DEF Show, Install, Uninstall, Reload, ReadFiles, poller
    <2>2. watching'[r] => handler'[r] /\ life[r] # "off"
      <3>1. CASE Install(s)
        BY <3>1 DEF Install
      <3>2. CASE Uninstall(s)
        BY <3>2 DEF Uninstall
      <3>3. CASE Reload(s)
        BY <3>3 DEF Reload
      <3>4. CASE ReadFiles(s)
        BY <3>4 DEF ReadFiles
      <3>5. QED
        BY <1>3, <3>1, <3>2, <3>3, <3>4 DEF Show
    <2>3. QED
      BY <2>1, <2>2
  <1>4. ASSUME NEW s \in Session, Writes(s) PROVE Listening(r)'
    BY <1>4 DEF Writes, Write, Publish, poller, display
  <1>5. ASSUME NEW s \in Talkers, PublishOther(s) PROVE Listening(r)'
    BY <1>5 DEF PublishOther, poller, display
  <1>6. ASSUME NEW t \in Task, NEW s \in Session, BeginTask(t, s) \/ EndTask(t, s)
        PROVE  Listening(r)'
    BY <1>6 DEF BeginTask, EndTask, poller, display
  <1>7. ASSUME NEW c \in Command, Wait(c) \/ \E s \in Session : Enqueue(c, s)
        PROVE  Listening(r)'
    BY <1>7 DEF Wait, Enqueue, poller, display
  <1>8. CASE UNCHANGED vars
    BY <1>8 DEF vars, poller, display
  <1>9. QED
    BY <1>1, <1>2, <1>3, <1>4, <1>5, <1>6, <1>7, <1>8 DEF Next

\* What has not been read is still there, or has left a gap behind.
LEMMA UnreadStays ==
  ASSUME FeedTypes, [Next]_vars, NEW r \in Session, NEW n \in Unread(r), Concerns(n, r),
         cursor'[r] < n
  PROVE  (n \in Unread(r)' /\ Concerns(n, r)') \/ floor' > cursor'[r]
  <1>1. /\ n \in 1..Len(log) /\ n > floor /\ log[n].session # Stranger
    BY DEF Unread, Retained, FeedTypes
  <1>2. log'[n] = log[n] /\ n \in 1..Len(log') /\ floor' \in floor..Len(log)
    BY <1>1, FeedTablesStep DEF FeedTypes
  <1>3. cursor'[r] \in Nat
    BY FeedTypesStep DEF FeedTypes
  <1>4. Concerns(n, r)'
    BY <1>2 DEF Concerns
  <1>5. CASE n > floor'
    <2>1. n \in floor' + 1 .. Len(log')
      <3>1. n \in Nat /\ Len(log') \in Nat /\ n <= Len(log')
        BY <1>1, <1>2, FeedTablesStep
      <3>2. floor' \in Nat
        BY FeedTypesStep DEF FeedTypes
      <3>3. \A a, b, x \in Nat : x > a /\ x <= b => x \in a + 1 .. b
        OBVIOUS
      <3>4. QED
        BY <1>5, <3>1, <3>2, <3>3, Zenon
    <2>2. n \in Retained'
      BY <1>1, <1>2, <2>1 DEF Retained
    <2>3. n \in Unread(r)'
      BY <2>2 DEF Unread
    <2>4. QED
      BY <1>4, <2>3
  <1>6. CASE ~(n > floor')
    <2>1. /\ n \in Nat /\ floor' \in Nat /\ cursor'[r] \in Nat
          /\ cursor'[r] < n /\ ~(n > floor')
      BY <1>1, <1>2, <1>3, <1>6 DEF FeedTypes
    <2>2. QED
      BY <2>1
  <1>7. QED
    BY <1>5, <1>6

\* News stay on their way unless somebody handles them.
LEMMA NewsStay ==
  ASSUME FeedTypes, [Next]_vars, NEW r \in Session, Announced(r),
         cursor'[r] = cursor[r],
         \A q \in Session : writing[q] # NoNews => writing'[q] = writing[q],
         changed[r] => changed'[r], pending[r] => pending'[r],
         notified[r] => notified'[r], reading[r] => reading'[r]
  PROVE  Announced(r)'
  <1>1. ASSUME NEW q \in Session \ {r}, writing[q] \in {ProjectOf[r], Everything}
        PROVE  Announced(r)'
    <2>1. writing[q] # NoNews
      BY <1>1 DEF CoordinationAssumption
    <2>2. QED
      BY <1>1, <2>1 DEF Announced
  <1>2. ASSUME NEW n \in Unread(r), Concerns(n, r) PROVE Announced(r)'
    <2>1. cursor'[r] < n
      BY DEF Unread
    <2>2. QED
      BY <1>2, <2>1, UnreadStays DEF Announced
  <1>3. CASE floor > cursor[r]
    <2>1. floor' > cursor'[r]
      <3>1. floor \in Nat /\ cursor[r] \in Nat /\ Len(log) \in Nat /\ floor' \in floor..Len(log)
        BY FeedTablesStep DEF FeedTypes
      <3>2. QED
        BY <1>3, <3>1
    <2>2. QED
      BY <2>1 DEF Announced
  <1>4. CASE changed[r] \/ pending[r] \/ notified[r] \/ reading[r]
    BY <1>4 DEF Announced
  <1>5. QED
    BY <1>1, <1>2, <1>3, <1>4 DEF Announced

\* A poll that reads finds what concerns its session, or leaves it unread.
LEMMA ReadFinds ==
  ASSUME FeedTypes, [Next]_vars, NEW s \in Session, Read(s), Listening(s), Announced(s)
  PROVE  Announced(s)'
  <1> DEFINE news == \E n \in Page(s) : AfterGap(n, s) \/ Concerns(n, s)
  <1>1. /\ changed'[s] = (pending[s] \/ news)
        /\ cursor'[s] = Largest(Page(s) \cup {cursor[s]})
        /\ UNCHANGED <<writing, pending, notified, reading, floor, log>>
    BY DEF Read, Set, FeedTypes, display, tables
  <1>2. changed'[s] => Announced(s)'
    BY DEF Announced
  <1>3. CASE \E r \in Session \ {s} : writing[r] \in {ProjectOf[s], Everything}
    BY <1>1, <1>3 DEF Announced
  <1>4. ASSUME NEW n \in Unread(s), Concerns(n, s) PROVE Announced(s)'
    <2>1. CASE n \in Page(s)
      BY <1>1, <1>2, <1>4, <2>1
    <2>2. CASE n \notin Page(s)
      <3>1. \A m \in Page(s) : m \in Nat /\ n \in Nat /\ m < n
        BY <2>2, PageIsFirst
      <3>2. cursor[s] < n /\ cursor'[s] \in Page(s) \cup {cursor[s]}
        BY <1>1, ReadMoves DEF Unread
      <3>3. cursor'[s] < n
        BY <3>1, <3>2
      <3>4. QED
        BY <1>4, <3>3, UnreadStays DEF Announced
    <2>3. QED
      BY <2>1, <2>2
  <1>5. CASE floor > cursor[s]
    <2>1. CASE Page(s) = {}
      <3>1. cursor'[s] = cursor[s]
        BY <1>1, <2>1, ReadMoves
      <3>2. QED
        BY <1>1, <1>5, <3>1 DEF Announced
    <2>2. CASE Page(s) # {}
      <3>1. Page(s) \in SUBSET Nat
        BY PageIsFirst
      <3>2. PICK n \in Page(s) : \A m \in Page(s) : n <= m
        BY <2>2, <3>1, LeastExists
      <3>3. n \in Retained
        BY PageIsFirst
      <3>4. n \in Nat /\ floor \in Nat /\ cursor[s] \in Nat /\ n > floor
        BY <3>1, <3>3 DEF Retained, FeedTypes
      <3>5. n - 1 # cursor[s] /\ ~(n <= n - 1)
        BY <1>5, <3>4
      <3>6. AfterGap(n, s)
        BY <3>2, <3>5 DEF AfterGap
      <3>7. QED
        BY <1>1, <1>2, <3>6
    <2>3. QED
      BY <2>1, <2>2
  <1>6. CASE changed[s] \/ pending[s] \/ notified[s] \/ reading[s]
    <2>1. ~changed[s]
      BY DEF Listening, Read
    <2>2. CASE pending[s] \/ notified[s] \/ reading[s]
      BY <1>1, <2>2 DEF Announced
    <2>3. QED
      BY <1>6, <2>1, <2>2
  <1>7. QED
    BY <1>3, <1>4, <1>5, <1>6 DEF Announced

\* A poll that tells hands over what it knows, or keeps it for the next one.
LEMMA TellKeeps ==
  ASSUME FeedTypes, [Next]_vars, NEW s \in Session, Tell(s), handler[s], Announced(s)
  PROVE  Announced(s)'
  <1>1. CASE changed[s]
    <2>1. notified'[s] \/ pending'[s]
      BY <1>1 DEF Tell, Set, FeedTypes
    <2>2. QED
      BY <2>1 DEF Announced
  <1>2. CASE ~changed[s]
    <2>1. UNCHANGED <<cursor, writing, pending, notified, reading>>
      BY <1>2 DEF Tell
    <2>2. QED
      BY <1>2, <2>1, NewsStay
  <1>3. QED
    BY <1>1, <1>2

\* What is published concerns those it was written for.
LEMMA PublishTells ==
  ASSUME FeedTypes, [Next]_vars, NEW s \in Session, Publish(s), ~silent',
         NEW r \in Session, Announced(r)
  PROVE  Announced(r)'
  <1>1. /\ Len(log) < MaxEvents /\ log' = Append(log, [session |-> s, about |-> writing[s]])
        /\ writing' = [writing EXCEPT ![s] = NoNews]
        /\ UNCHANGED <<cursor, changed, pending, notified, reading, floor>>
    BY DEF Publish, Set, poller, display
  <1>2. CASE r # s /\ writing[s] \in {ProjectOf[r], Everything}
    <2>1. PICK n \in Nat : n = Len(log) + 1
      BY DEF FeedTypes
    <2>2. [session |-> s, about |-> writing[s]] \in EventRow
      BY DEF FeedTypes, EventRow
    <2>3. log'[n] = [session |-> s, about |-> writing[s]] /\ Len(log') = n
      BY <1>1, <2>1, <2>2, AppendOne
    <2>4. n > floor /\ n > cursor[r] /\ floor \in Nat
      BY <2>1 DEF FeedTypes
    <2>5. Concerns(n, r)' /\ log'[n].session # Stranger
      BY <1>2, <2>3 DEF Concerns, CoordinationAssumption
    <2>6. n \in Retained'
      <3>1. floor' = floor
        BY <1>1
      <3>2. \A a, x \in Nat : x > a => x \in a + 1 .. x
        OBVIOUS
      <3>3. QED
        BY <2>3, <2>4, <2>5, <3>1, <3>2, Zenon DEF Retained
    <2>7. n \in Unread(r)'
      BY <1>1, <2>4, <2>6 DEF Unread
    <2>8. QED
      BY <2>5, <2>7 DEF Announced
  <1>3. ASSUME NEW q \in Session \ {r}, q # s, writing[q] \in {ProjectOf[r], Everything}
        PROVE  Announced(r)'
    BY <1>1, <1>3 DEF Announced
  <1>4. CASE ~(\E q \in Session \ {r} : writing[q] \in {ProjectOf[r], Everything})
    <2>1. ASSUME NEW n \in Unread(r), Concerns(n, r) PROVE Announced(r)'
      <3>1. cursor'[r] < n
        BY <1>1 DEF Unread
      <3>2. QED
        BY <2>1, <3>1, UnreadStays DEF Announced
    <2>2. QED
      BY <1>1, <1>4, <2>1 DEF Announced
  <1>5. QED
    BY <1>2, <1>3, <1>4

LEMMA NoLostRefreshStep ==
  ASSUME Types, FeedInv, [Next]_vars
  PROVE  NoLostRefresh'
  <1> SUFFICES ASSUME NEW r \in Session, life'[r] = "on", watching'[r], outdated'[r], ~silent'
               PROVE  Announced(r)'
    BY DEF NoLostRefresh
  <1> USE DEF FeedInv
  <1>1. life[r] = "on" /\ watching[r] /\ outdated[r] /\ ~silent => Announced(r)
    BY DEF NoLostRefresh
  <1>2. Listening(r)
    OBVIOUS
  <1>3. ASSUME UNCHANGED <<writing, pending, changed, notified, reading, cursor>>, Announced(r)
        PROVE  Announced(r)'
    BY <1>3, NewsStay
  <1>4. ASSUME NEW s \in Session, Lifetime(s) PROVE Announced(r)'
    <2>1. CASE r = s
      <3>1. CASE Start(s)
        BY <1>2, <2>1, <3>1 DEF Start, display, Listening
      <3>2. CASE Close(s)
        BY <2>1, <3>2 DEF Close, Set, Types
      <3>3. CASE Crash(s)
        BY <2>1, <3>3 DEF Crash, Set, Types
      <3>4. CASE Age(s)
        BY <1>1, <1>3, <3>4 DEF Age, poller, display
      <3>5. QED
        BY <1>4, <3>1, <3>2, <3>3, <3>4 DEF Lifetime
    <2>2. CASE r # s
      <3>1. /\ life'[r] = life[r] /\ cursor'[r] = cursor[r]
            /\ pending'[r] = pending[r] /\ changed'[r] = changed[r] /\ notified'[r] = notified[r]
            /\ reading'[r] = reading[r] /\ watching'[r] = watching[r] /\ outdated'[r] = outdated[r]
            /\ silent => silent'
            /\ \A q \in Session : writing[q] # NoNews => writing'[q] = writing[q]
        <4>1. CASE Start(s)
          BY <2>2, <4>1, StartReads DEF Start, Set, display, Types
        <4>2. CASE Close(s)
          <5>1. life' = [life EXCEPT ![s] = "closed"] /\ UNCHANGED <<poller, display, writing, silent>>
            BY <4>2 DEF Close, Set
          <5>2. QED
            BY <2>2, <5>1 DEF poller, display, Types
        <4>3. CASE Age(s)
          BY <4>3 DEF Age, poller, display
        <4>4. CASE Crash(s)
          BY <2>2, <4>4 DEF Crash, Set, Types, FeedTypes
        <4>5. QED
          BY <1>4, <4>1, <4>2, <4>3, <4>4 DEF Lifetime
      <3>2. Announced(r)
        BY <1>1, <3>1
      <3>3. QED
        BY <3>1, <3>2, NewsStay
    <2>3. QED
      BY <2>1, <2>2
  <1>5. ASSUME NEW s \in Session, Poll(s) PROVE Announced(r)'
    <2>1. UNCHANGED <<life, watching, outdated, silent, writing>> /\ Announced(r)
      <3>1. UNCHANGED <<life, watching, outdated, silent, writing>>
        BY <1>5 DEF Poll, Beat, Read, Tell, Claim, Run, Maintain, EndPoll, display
      <3>2. QED
        BY <1>1, <3>1
    <2>2. CASE Beat(s) \/ Claim(s) \/ Run(s) \/ Maintain(s) \/ EndPoll(s)
      BY <1>3, <2>1, <2>2 DEF Beat, Claim, Run, Maintain, EndPoll, display
    <2>3. CASE Read(s) /\ r = s
      BY <1>2, <2>1, <2>3, ReadFinds
    <2>4. CASE Tell(s) /\ r = s
      BY <1>2, <2>1, <2>4, TellKeeps DEF Listening
    <2>5. CASE (Read(s) \/ Tell(s)) /\ r # s
      <3>1. /\ cursor'[r] = cursor[r]
            /\ pending'[r] = pending[r] /\ changed'[r] = changed[r] /\ notified'[r] = notified[r]
            /\ reading'[r] = reading[r]
        BY <2>5 DEF Read, Tell, Set, FeedTypes, display
      <3>2. QED
        BY <2>1, <3>1, NewsStay
    <2>6. QED
      BY <1>5, <2>2, <2>3, <2>4, <2>5 DEF Poll
  <1>6. ASSUME NEW s \in Session, Show(s) PROVE Announced(r)'
    <2>1. CASE r = s /\ (Uninstall(s) \/ ReadFiles(s))
      BY <2>1 DEF Uninstall, ReadFiles, Set, FeedTypes
    <2>2. CASE r = s /\ Reload(s)
      <3>1. reading'[r]
        BY <2>2 DEF Reload, Set, FeedTypes
      <3>2. QED
        BY <3>1 DEF Announced
    <2>3. CASE r # s \/ Install(s)
      <3>1. /\ UNCHANGED <<life, cursor, pending, changed, writing, silent>>
            /\ notified'[r] = notified[r] /\ reading'[r] = reading[r]
            /\ watching'[r] = watching[r] /\ outdated'[r] = outdated[r]
        <4>1. CASE Install(s)
          BY <4>1 DEF Install, poller
        <4>2. CASE Uninstall(s)
          BY <2>3, <4>2 DEF Uninstall, Install, Set, poller, FeedTypes
        <4>3. CASE Reload(s) \/ ReadFiles(s)
          BY <2>3, <4>3 DEF Reload, ReadFiles, Install, Set, poller, FeedTypes
        <4>4. QED
          BY <1>6, <4>1, <4>2, <4>3 DEF Show
      <3>2. Announced(r)
        BY <1>1, <3>1
      <3>3. QED
        BY <3>1, <3>2, NewsStay
    <2>4. QED
      BY <1>6, <2>1, <2>2, <2>3 DEF Show
  <1>7. ASSUME NEW s \in Session, Publish(s) PROVE Announced(r)'
    <2>1. UNCHANGED <<life, watching, outdated>> /\ ~silent
      BY <1>7 DEF Publish, display, FeedTypes
    <2>2. QED
      BY <1>1, <1>7, <2>1, PublishTells
  <1>8. ASSUME NEW s \in Session, NEW about \in Changes, Write(s, about) PROVE Announced(r)'
    <2>1. CASE r # s /\ about \in {ProjectOf[r], Everything}
      <3>1. writing'[s] = about
        BY <1>8 DEF Write, Set, FeedTypes
      <3>2. QED
        BY <2>1, <3>1 DEF Announced
    <2>2. CASE ~(r # s /\ about \in {ProjectOf[r], Everything})
      <3>1. /\ UNCHANGED <<life, watching, silent, cursor, changed, pending, notified, reading>>
            /\ \A q \in Session : writing[q] # NoNews => writing'[q] = writing[q]
            /\ outdated'[r] => outdated[r]
        BY <1>8, <2>2 DEF Write, Set, FeedTypes, poller, tables
      <3>2. Announced(r)
        BY <1>1, <3>1
      <3>3. QED
        BY <3>1, <3>2, NewsStay
    <2>3. QED
      BY <2>1, <2>2
  <1>9. ASSUME UNCHANGED <<poller, display, life, writing, silent>> PROVE Announced(r)'
    BY <1>1, <1>3, <1>9 DEF poller, display
  <1>10. ASSUME NEW s \in Talkers, PublishOther(s) PROVE Announced(r)'
    BY <1>9, <1>10 DEF PublishOther
  <1>11. ASSUME NEW t \in Task, NEW s \in Session, BeginTask(t, s) \/ EndTask(t, s)
        PROVE  Announced(r)'
    BY <1>9, <1>11 DEF BeginTask, EndTask
  <1>12. ASSUME NEW c \in Command, Wait(c) \/ \E s \in Session : Enqueue(c, s)
        PROVE  Announced(r)'
    BY <1>9, <1>12 DEF Wait, Enqueue
  <1>13. CASE UNCHANGED vars
    BY <1>9, <1>13 DEF vars
  <1>14. QED
    BY <1>4, <1>5, <1>6, <1>7, <1>8, <1>10, <1>11, <1>12, <1>13 DEF Next, Writes

LEMMA InitFeedInv == Init => FeedInv
  <1> SUFFICES ASSUME Init PROVE FeedInv
    OBVIOUS
  <1>1. FeedTypes
    <2>1. Len(<< >>) = 0 /\ << >> \in Seq(EventRow) /\ 0 <= MaxEvents /\ 0 \in 0..0
      BY DEF CoordinationAssumption
    <2>2. QED
      BY <2>1 DEF Init, FeedTypes
  <1>2. QED
    BY <1>1 DEF Init, FeedInv, Listening, NoLostRefresh

\* The invariant of the feed of changes (coordination.py): pages are the first of what is
\* unread, cursors follow them, and what a poll has found is told in that poll.
THEOREM FeedInvariant == Spec => [](Types /\ FeedInv)
  <1>1. Types /\ FeedInv /\ [Next]_vars /\ CoordinationInv => FeedInv'
    BY FeedTypesStep, ListeningStep, NoLostRefreshStep DEF FeedInv
  <1>2. CoordinationInv => Types
    BY DEF CoordinationInv
  <1>3. QED
    BY <1>1, <1>2, InitFeedInv, CoordinationInvariant, PTL DEF Spec

\* What the tables, the cursors and the flags of a poll may hold; no session is ahead of the
\* events, and no event that is kept is behind the limit (coordination.py and session.py).
THEOREM CoordinationTypes == Spec => []TypeOK
  <1>1. Types /\ FeedInv => TypeOK
    BY DEF Types, FeedInv, FeedTypes, TypeOK, TaskRow, CommandRow, EventRow
  <1>2. QED
    BY <1>1, FeedInvariant, PTL

\* An interface that has read its files since it began to listen never shows old ones with
\* nothing on the way to tell it so, whatever is deleted, missed or fails meanwhile
\* (session.py, poll; coordination.py, maintain; the loops of the GUI and the TUIs).
THEOREM NoRefreshIsLost == Spec => []NoLostRefresh
  <1>1. FeedInv => NoLostRefresh
    BY DEF FeedInv
  <1>2. QED
    BY <1>1, FeedInvariant, PTL

===============================================================================
