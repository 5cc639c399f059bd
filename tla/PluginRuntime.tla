----------------------------- MODULE PluginRuntime -----------------------------
(***************************************************************************)
(* core/plugins/isolated_runtime.py: the code of a plugin runs in a child   *)
(* process, which answers through a pipe.  start() reads the pipe until the *)
(* child says that it is READY, a watchdog thread reads it from then on,    *)
(* and stop() reads the answer to STOP.                                     *)
(*                                                                         *)
(* The pipe, the thread that reads it and its queue of one keep the order   *)
(* of the messages: they are one sequence here, and a message that has been *)
(* sent may be seen late.  Sending never blocks.                            *)
(*                                                                          *)
(* The plugin is given the connection, and may send anything through it at  *)
(* any time and in any number: what is read says that it was sent, no more. *)
(***************************************************************************)
EXTENDS Integers, Sequences

CONSTANTS
    MaxCalls,       \* the budget of calls of the plugin
    MaxSaid,        \* bound, for a start: what the code of the plugin sends
    MaxStarts       \* bound: starts

ASSUME PluginRuntimeAssumption ==
    MaxCalls \in Nat \ {0} /\ MaxSaid \in Nat /\ MaxStarts \in Nat

VARIABLES
    caller,         \* what the thread that starts and stops is doing
    watchdog,       \* "none", "watching" or "auditing": what its thread is doing
    child,          \* what the process is doing
    mail,
    asked,          \* STOP was sent
    terminated,     \* terminate(): the child is about to die
    booted,         \* BOOTED was read: the deadline is that of the activation
    calls,          \* that the parent has counted
    said,           \* messages that the plugin has sent of itself
    spoke,          \* history: which of READY and VIOLATION was sent first, if any was
    lapsed,         \* history: the watchdog ended because its audit raised
    starts

runtimeVars == <<caller, watchdog, child, mail, asked, terminated, booted, calls, said, spoke,
                 lapsed, starts>>

\* "BAD": what is malformed, has the wrong process or no business here, or is the end of
\* the pipe.
Kind == {"BOOTED", "CALL", "VIOLATION", "ERROR", "READY", "STOPPED", "BAD"}

Alive == child \notin {"none", "gone"}
PluginRuns == child \in {"loading", "serving", "leaving"}

Send(kind) ==
    /\ mail' = Append(mail, kind)
    /\ spoke' = IF spoke = "nothing" /\ kind \in {"READY", "VIOLATION"} THEN kind ELSE spoke

RuntimeInit ==
    /\ caller = "idle" /\ watchdog = "none" /\ child = "none"
    /\ mail = << >> /\ asked = FALSE /\ terminated = FALSE /\ booted = FALSE
    /\ calls = 0 /\ said = 0 /\ spoke = "nothing" /\ lapsed = FALSE /\ starts = 0

-----------------------------------------------------------------------------
(* The child: _worker, and the code of the plugin *)

Boot ==
    /\ child = "booting" /\ child' = "loading"
    /\ Send("BOOTED")
    /\ UNCHANGED <<caller, watchdog, asked, terminated, booted, calls, said, lapsed, starts>>

\* The code of the plugin, in activate, in deactivate or in a thread: by api.log, as the
\* policy that refuses an operation which it goes on after, or by the connection itself.
Say(kind) ==
    /\ PluginRuns
    /\ said < MaxSaid /\ said' = said + 1
    /\ Send(kind)
    /\ UNCHANGED <<caller, watchdog, child, asked, terminated, booted, calls, lapsed, starts>>

\* An exception reaches _worker: a refusal, or another.
Fail(kind) ==
    /\ child \in {"loading", "leaving"} /\ child' = "gone"
    /\ Send(kind)
    /\ UNCHANGED <<caller, watchdog, asked, terminated, booted, calls, said, lapsed, starts>>

\* activate has returned.
Activated ==
    /\ child = "loading" /\ child' = "serving"
    /\ Send("READY")
    /\ UNCHANGED <<caller, watchdog, asked, terminated, booted, calls, said, lapsed, starts>>

Obey ==
    /\ child = "serving" /\ asked
    /\ child' = "leaving"
    /\ UNCHANGED <<caller, watchdog, mail, asked, terminated, booted, calls, said, spoke, lapsed, starts>>

Leave ==
    /\ child = "leaving" /\ child' = "gone"
    /\ Send("STOPPED")
    /\ UNCHANGED <<caller, watchdog, asked, terminated, booted, calls, said, lapsed, starts>>

\* It ends without a word, or terminate() ends it.
Die ==
    /\ Alive /\ child' = "gone"
    /\ UNCHANGED <<caller, watchdog, mail, asked, terminated, booted, calls, said, spoke, lapsed, starts>>

-----------------------------------------------------------------------------
(* start, of a runtime that is new: what is left of another is nothing to it *)

\* Fault: the calls of the last run count.
StartPluginCounting ==
    /\ caller = "idle" /\ starts < MaxStarts
    /\ starts' = starts + 1
    /\ caller' = "starting" /\ child' = "booting" /\ watchdog' = "none"
    /\ said' = 0 /\ spoke' = "nothing" /\ lapsed' = FALSE
    /\ mail' = << >> /\ asked' = FALSE /\ terminated' = FALSE /\ booted' = FALSE
    /\ UNCHANGED calls

StartPlugin ==
    /\ caller = "idle" /\ starts < MaxStarts
    /\ starts' = starts + 1
    /\ caller' = "starting" /\ child' = "booting" /\ watchdog' = "none"
    /\ calls' = 0 /\ said' = 0 /\ spoke' = "nothing" /\ lapsed' = FALSE
    /\ mail' = << >> /\ asked' = FALSE /\ terminated' = FALSE /\ booted' = FALSE

\* Fault: what the policy refused is only written down.
ReadWhileStartingOn ==
    /\ caller = "starting" /\ mail # << >>
    /\ mail' = Tail(mail)
    /\ LET kind == Head(mail) IN
       CASE kind = "BOOTED" /\ ~booted -> booted' = TRUE /\ UNCHANGED <<caller, watchdog, calls>>
         [] kind = "CALL" /\ calls < MaxCalls ->
               calls' = calls + 1 /\ UNCHANGED <<caller, watchdog, booted>>
         [] kind = "VIOLATION" -> UNCHANGED <<caller, watchdog, booted, calls>>
         [] kind = "READY" /\ booted ->
               caller' = "running" /\ watchdog' = "watching" /\ UNCHANGED <<booted, calls>>
         [] OTHER -> caller' = "failing" /\ UNCHANGED <<watchdog, booted, calls>>
    /\ UNCHANGED <<child, asked, terminated, said, spoke, lapsed, starts>>

\* One turn of the loop.  What is not expected ends the start, and so does a call beyond
\* the budget or one that cannot be written to the log.
ReadWhileStarting ==
    /\ caller = "starting" /\ mail # << >>
    /\ mail' = Tail(mail)
    /\ LET kind == Head(mail) IN
       \/ /\ kind = "BOOTED" /\ ~booted /\ booted' = TRUE
          /\ UNCHANGED <<caller, watchdog, calls>>
       \/ /\ kind = "CALL" /\ calls' = calls + 1
          /\ \/ calls < MaxCalls /\ UNCHANGED caller
             \/ caller' = "failing"
          /\ UNCHANGED <<watchdog, booted>>
       \/ /\ kind = "READY" /\ booted
          /\ caller' = "running" /\ watchdog' = "watching"
          /\ UNCHANGED <<booted, calls>>
       \/ /\ kind # "CALL" /\ (kind = "BOOTED" => booted) /\ (kind = "READY" => ~booted)
          /\ caller' = "failing" /\ UNCHANGED <<watchdog, booted, calls>>
    /\ UNCHANGED <<child, asked, terminated, said, spoke, lapsed, starts>>

\* A deadline passes, the process has ended, or it cannot be limited.
GiveUp ==
    /\ caller = "starting" /\ caller' = "failing"
    /\ UNCHANGED <<watchdog, child, mail, asked, terminated, booted, calls, said, spoke, lapsed, starts>>

\* terminate, join(2), and kill when that was not enough.
Abort ==
    /\ caller = "failing" /\ caller' = "idle"
    /\ child' = "gone"
    /\ UNCHANGED <<watchdog, mail, asked, terminated, booted, calls, said, spoke, lapsed, starts>>

-----------------------------------------------------------------------------
(* _watch_runtime *)

\* A turn of its loop.  What is not a call that can be counted and written to the log is
\* audited first.
Watch ==
    /\ watchdog = "watching"
    /\ \/ ~Alive /\ watchdog' = "none" /\ UNCHANGED <<mail, calls>>
       \/ /\ Alive /\ mail # << >> /\ mail' = Tail(mail)
          /\ calls' = IF Head(mail) = "CALL" THEN calls + 1 ELSE calls
          /\ \/ Head(mail) = "CALL" /\ calls < MaxCalls /\ UNCHANGED watchdog
             \/ watchdog' = "auditing"
    /\ UNCHANGED <<caller, child, asked, terminated, booted, said, spoke, lapsed, starts>>

\* The child uses more memory than it may.
Overuse ==
    /\ watchdog = "watching" /\ Alive
    /\ watchdog' = "auditing"
    /\ UNCHANGED <<caller, child, mail, asked, terminated, booted, calls, said, spoke, lapsed, starts>>


\* The audit is written and the child is ended; or the log cannot be written, and what is
\* raised ends the thread before terminate().
Audited ==
    /\ watchdog = "auditing" /\ watchdog' = "none"
    /\ \/ terminated' = TRUE /\ UNCHANGED lapsed
       \/ lapsed' = TRUE /\ UNCHANGED terminated
    /\ UNCHANGED <<caller, child, mail, asked, booted, calls, said, spoke, starts>>

-----------------------------------------------------------------------------
(* stop *)

\* The watchdog is told to end, and waited for: but for an audit that takes more than a
\* second, it has.  STOP goes to a child that is alive.
AskToStop ==
    /\ caller = "running"
    /\ watchdog' = IF watchdog = "auditing" THEN "auditing" ELSE "none"
    /\ IF Alive
       THEN asked' = TRUE /\ caller' = "answer"
       ELSE caller' = "joining" /\ UNCHANGED asked
    /\ UNCHANGED <<child, mail, terminated, booted, calls, said, spoke, lapsed, starts>>

\* One message is taken for the answer, whatever it is; none in time, or a bad one, ends the
\* child.
Answered ==
    /\ caller = "answer" /\ caller' = "joining"
    /\ \/ mail # << >> /\ mail' = Tail(mail)
          /\ terminated' = (terminated \/ Head(mail) = "BAD")
       \/ terminated' = TRUE /\ UNCHANGED mail
    /\ UNCHANGED <<watchdog, child, asked, booted, calls, said, spoke, lapsed, starts>>

\* Fault: a child that answered is taken to end by itself.
JoinOnly ==
    /\ caller = "joining" /\ caller' = "idle"
    /\ child' = IF terminated THEN "gone" ELSE child
    /\ UNCHANGED <<watchdog, mail, asked, terminated, booted, calls, said, spoke, lapsed, starts>>

\* join, and kill when that was not enough.
Join ==
    /\ caller = "joining" /\ caller' = "idle"
    /\ child' = "gone"
    /\ UNCHANGED <<watchdog, mail, asked, terminated, booted, calls, said, spoke, lapsed, starts>>

RuntimeNext ==
    \/ Boot \/ Activated \/ Obey \/ Leave \/ Die
    \/ \E kind \in Kind : Say(kind)
    \/ \E kind \in {"VIOLATION", "ERROR"} : Fail(kind)
    \/ StartPlugin \/ ReadWhileStarting \/ GiveUp \/ Abort
    \/ Watch \/ Overuse \/ Audited \/ AskToStop \/ Answered \/ Join

\* The watchdog turns and its audit returns or raises, a signal arrives, start and stop wait
\* for a bounded time.
RuntimeFairness ==
    /\ WF_runtimeVars(Watch) /\ WF_runtimeVars(Audited) /\ WF_runtimeVars(terminated /\ Die)
    /\ WF_runtimeVars(ReadWhileStarting \/ GiveUp) /\ WF_runtimeVars(Abort)
    /\ WF_runtimeVars(Answered) /\ WF_runtimeVars(Join)

RuntimeSpec == RuntimeInit /\ [][RuntimeNext]_runtimeVars /\ RuntimeFairness

-----------------------------------------------------------------------------
\* The variables have their types, and the parent counts one call more than the budget at
\* most, whatever the plugin sends.
RuntimeTypeOK ==
    /\ caller \in {"idle", "starting", "failing", "running", "answer", "joining"}
    /\ child \in {"none", "booting", "loading", "serving", "leaving", "gone"}
    /\ watchdog \in {"none", "watching", "auditing"} /\ lapsed \in BOOLEAN
    /\ asked \in BOOLEAN /\ terminated \in BOOLEAN /\ booted \in BOOLEAN
    /\ calls \in 0 .. MaxCalls + 1
    /\ said \in 0..MaxSaid /\ spoke \in {"nothing", "READY", "VIOLATION"} /\ starts \in 0..MaxStarts
    /\ mail \in Seq(Kind)

\* When start() has failed or stop() has returned, no process of the plugin is left, though
\* its code may hang, and may have sent something else when it was asked to stop.
NoProcessLeft == caller = "idle" => ~Alive

\* A plugin that runs is watched, or is being ended, unless the watchdog could not write its
\* audit: it ends with the process otherwise.
RunningIsWatched == caller = "running" /\ Alive => watchdog # "none" \/ terminated \/ lapsed

\* A plugin of which a refusal was reported before it had ever said that it was ready never
\* runs, though its code went on and said so afterwards.
ActivationWasClean == caller = "running" => booted /\ spoke = "READY"


================================================================================
