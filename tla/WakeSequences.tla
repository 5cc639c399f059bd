----------------------------- MODULE WakeSequences -----------------------------
(***************************************************************************)
(* The store of Wake-on-LAN sequences, and the command that runs one.  A    *)
(* step wakes a device once the steps it requires have succeeded; the       *)
(* command holds the lock of the file from the reading of the sequence to   *)
(* the writing of the results, while devices take their time.               *)
(*                                                                         *)
(* One sequence is modelled.  A run writes the others, and older results,   *)
(* as it has read them.  Of a device that was to be woken all that matters  *)
(* is whether the result counts as success.  Who does not get the lock in   *)
(* time gives up and changes nothing.                                       *)
(***************************************************************************)
EXTENDS Integers, Functions

CONSTANTS
    Step,
    Runner,             \* processes
    NoRunner,
    MaxRuns             \* bound

ASSUME WakeAssumption == NoRunner \notin Runner /\ MaxRuns \in Nat

VARIABLES
    steps,          \* the file: what each step of the sequence requires
    recorded,       \* ... and the results of its last run
    lock,           \* who has the lock of the file
    run,            \* of each process, the sequence it runs and the results so far
    added,          \* history: the steps there should be
    runs            \* count, for the bound

wakeVars == <<steps, recorded, lock, run, added, runs>>

NoRun == [graph |-> << >>, status |-> << >>, pending |-> {}]
Requirements == UNION {[S -> SUBSET Step] : S \in SUBSET Step}
Succeeded == {"done"}

-----------------------------------------------------------------------------
(* The graph *)

\* What _validate_graph decides (WakeGraph has its algorithm): what a step requires is in the
\* sequence, and no steps only wait for each other.
ValidGraph(graph) ==
    /\ UNION Range(graph) \subseteq DOMAIN graph
    /\ \A some \in (SUBSET DOMAIN graph) \ {{}} : \E s \in some : graph[s] \cap some = {}

-----------------------------------------------------------------------------
(* The file may have been written by hand. *)
WakeInit ==
    /\ steps \in Requirements /\ added = DOMAIN steps
    /\ recorded = [graph |-> << >>, status |-> << >>, added |-> {}]
    /\ lock = NoRunner /\ run = [h \in Runner |-> NoRun] /\ runs = 0

\* add.
AddStep(s, requires) ==
    /\ lock = NoRunner
    /\ s \notin DOMAIN steps
    /\ LET new == [t \in DOMAIN steps \cup {s} |-> IF t = s THEN requires ELSE steps[t]] IN
       ValidGraph(new) /\ steps' = new
    /\ added' = added \cup {s}
    /\ UNCHANGED <<recorded, lock, run, runs>>

Begins(h) ==
    /\ runs < MaxRuns /\ runs' = runs + 1
    /\ run[h] = NoRun /\ steps # << >>
    /\ ValidGraph(steps)
    /\ run' = [run EXCEPT ![h] = [graph |-> steps, status |-> << >>, pending |-> DOMAIN steps]]

\* Fault: the lock is not held while the devices are woken.
BeginUnlocked(h) ==
    /\ Begins(h)
    /\ UNCHANGED <<steps, recorded, lock, added>>

\* run: the sequence is read and validated under the lock.
BeginRun(h) ==
    /\ lock = NoRunner /\ lock' = h
    /\ Begins(h)
    /\ UNCHANGED <<steps, recorded, added>>

\* A step all of whose requirements have results.
Ready(h) == {s \in run[h].pending : run[h].graph[s] \subseteq DOMAIN run[h].status}

\* It is blocked by one that has not succeeded, blocked ones included, or else woken.
TakeStep(h, s) ==
    LET r == run[h] IN
    /\ s \in Ready(h)
    /\ \E result \in {"done", "failed", "blocked"} :
          /\ result = "blocked" <=> \E d \in r.graph[s] : r.status[d] \notin Succeeded
          /\ run' = [run EXCEPT ![h] =
                [graph |-> r.graph, pending |-> r.pending \ {s},
                 status |-> [t \in DOMAIN r.status \cup {s} |-> IF t = s THEN result ELSE r.status[t]]]]
    /\ UNCHANGED <<steps, recorded, lock, added, runs>>

\* The delay of a step or its options are not valid, the user interrupts it, or the process
\* dies: what was done is recorded nowhere.
Abandon(h) ==
    /\ run[h] # NoRun
    /\ run' = [run EXCEPT ![h] = NoRun]
    /\ lock' = IF lock = h THEN NoRunner ELSE lock
    /\ UNCHANGED <<steps, recorded, added, runs>>

\* store.save: the document that was read, with the results in it.
RecordRun(h) ==
    /\ run[h] # NoRun /\ run[h].pending = {}
    /\ steps' = run[h].graph
    /\ recorded' = [graph |-> run[h].graph, status |-> run[h].status, added |-> added]
    /\ run' = [run EXCEPT ![h] = NoRun]
    /\ lock' = IF lock = h THEN NoRunner ELSE lock
    /\ UNCHANGED <<added, runs>>

WakeNext ==
    \/ \E s \in Step, requires \in SUBSET Step : AddStep(s, requires)
    \/ \E h \in Runner : BeginRun(h) \/ Abandon(h) \/ RecordRun(h) \/ \E s \in Step : TakeStep(h, s)

WakeSpec == WakeInit /\ [][WakeNext]_wakeVars

-----------------------------------------------------------------------------
(* Properties *)

\* The types; and who runs the sequence has the lock.
WakeTypeOK ==
    /\ steps \in Requirements /\ added \subseteq Step
    /\ lock \in Runner \cup {NoRunner}
    /\ \A h \in Runner : run[h] # NoRun <=> lock = h
    /\ \A h \in Runner : run[h].graph \in Requirements /\ run[h].pending \subseteq DOMAIN run[h].graph

\* All that a step requires, directly or not: what is in every set that has what it requires,
\* and what each of its own requires.
Behind(graph, s) ==
    {d \in DOMAIN graph : \A far \in SUBSET DOMAIN graph :
        graph[s] \subseteq far /\ (\A f \in far : graph[f] \subseteq far) => d \in far}

\* No step that was added is lost to a run under way; a valid sequence never ends in
\* "dependencias de secuencia irresolubles"; and the results of a run are of all steps there
\* are, each blocked just if something it requires, directly or not, has failed.
RunsFollowTheGraph ==
    /\ added = DOMAIN steps
    /\ \A h \in Runner : run[h].pending # {} => Ready(h) # {}
    /\ DOMAIN recorded.status = recorded.added
    /\ \A s \in DOMAIN recorded.status :
          recorded.status[s] = "blocked" <=>
              \E d \in Behind(recorded.graph, s) : recorded.status[d] = "failed"
================================================================================
