-------------------------------- MODULE Servers --------------------------------
(***************************************************************************)
(* apps/access: which of the remote services (SSH, HTTPS) are served.  The  *)
(* monitor's process has a supervisor that reconciles its servers with the  *)
(* configuration file every two seconds; commands of other processes change *)
(* that file and the keys it names, and may start a server in a process of  *)
(* its own, which they note in the file afterwards.                         *)
(*                                                                         *)
(* The contents of keys and certificates are numbered; so are endpoints (an *)
(* address and a port), of which a system has one listener at a time.       *)
(***************************************************************************)
EXTENDS Integers, FiniteSets

CONSTANTS
    Protocol, Endpoint,
    DefaultEndpoint,            \* the endpoint of a protocol before it is configured
    Command,            \* commands that may run at the same time
    ServeProcess,       \* processes that commands may start
    Nothing,
    MaxCommands,        \* bound
    MaxServerDeaths     \* bound: servers that stop by themselves, processes that are killed

ASSUME ServersAssumption ==
    /\ DefaultEndpoint \in [Protocol -> Endpoint]
    /\ Nothing \notin ServeProcess /\ MaxCommands \in Nat /\ MaxServerDeaths \in Nat

VARIABLES
    settings,       \* the configuration file: of each protocol, whether it is enabled,
                    \* its endpoint, and the process that serves it outside the monitor
    keys,           \* what is in the key files of each protocol
    instance,       \* AccessRuntime.instances: the signature, what was built, the thread
    supervisor,     \* where its thread is in reconcile
    seen,           \* ... the configuration it has read
    unseen,           \* ... the protocols it has yet to look at
    build,          \* ... the one it is about to build, and its signature
    process,        \* of each process started by a command
    command,        \* where a command is
    issued, dead    \* counts, for the bounds

serversVars == <<settings, keys, instance, supervisor, seen, unseen, build, process, command,
                 issued, dead>>
runtimeParts == <<instance, supervisor, seen, unseen, build>>

Setting == [enabled : BOOLEAN, endpoint : Endpoint, external : ServeProcess \cup {Nothing}]
Signature == [endpoint : Endpoint, keys : Nat]

\* access_process_running: the process is there, with the identity it was noted with.
Running(setting) == setting.external # Nothing /\ process[setting.external].is \in {"starts", "serving"}

\* Who listens on an endpoint: a server of the monitor, or a process.
HeldByMonitor(e) == \E p \in Protocol : instance[p] # Nothing /\ instance[p].bound /\ instance[p].built.endpoint = e
HeldByProcess(e) == \E x \in ServeProcess : process[x].is = "serving" /\ process[x].endpoint = e
Available(e) == ~HeldByMonitor(e) /\ ~HeldByProcess(e)

\* A monitor has not been started; some protocols were enabled before.
ServersInit ==
    /\ settings \in [Protocol -> Setting]
    /\ \A p \in Protocol : settings[p].endpoint = DefaultEndpoint[p] /\ settings[p].external = Nothing
    /\ keys = [p \in Protocol |-> 0] /\ instance = [p \in Protocol |-> Nothing]
    /\ supervisor = "off" /\ seen = settings /\ unseen = {} /\ build = Nothing
    /\ process = [x \in ServeProcess |-> [is |-> "new"]]
    /\ command = [c \in Command |-> [at |-> "idle"]]
    /\ issued = 0 /\ dead = 0

-----------------------------------------------------------------------------
(* The supervisor *)

StartRuntime ==
    /\ supervisor = "off" /\ supervisor' = "waits"
    /\ UNCHANGED <<settings, keys, instance, seen, unseen, build, process, command, issued, dead>>

\* The monitor ends, or dies: its servers end with it.
StopRuntime ==
    /\ dead < MaxServerDeaths /\ dead' = dead + 1
    /\ supervisor # "off" /\ supervisor' = "off"
    /\ instance' = [p \in Protocol |-> Nothing] /\ unseen' = {} /\ build' = Nothing
    /\ UNCHANGED <<settings, keys, seen, process, command, issued>>

\* The configuration is read before the lock is taken.
Reconcile ==
    /\ supervisor = "waits"
    /\ supervisor' = "looks" /\ seen' = settings /\ unseen' = Protocol
    /\ UNCHANGED <<settings, keys, instance, build, process, command, issued, dead>>

\* A server in use has to be replaced or ended.
Outdated(p) ==
    LET current == instance[p] IN
    /\ current # Nothing
    /\ \/ ~seen[p].enabled \/ Running(seen[p]) \/ ~current.alive
       \/ current.signature # [endpoint |-> seen[p].endpoint, keys |-> keys[p]]

Wanted(p) == seen[p].enabled /\ ~Running(seen[p])

\* The signature is taken of the settings that were read and of the files as they are now;
\* _stop_protocol ends the thread and closes the listener.
LookAt(p) ==
    /\ supervisor = "looks" /\ build = Nothing /\ p \in unseen
    /\ unseen' = unseen \ {p}
    /\ instance' = IF Outdated(p) THEN [instance EXCEPT ![p] = Nothing] ELSE instance
    /\ build' = IF Wanted(p) /\ instance'[p] = Nothing
                THEN [protocol |-> p, signature |-> [endpoint |-> seen[p].endpoint, keys |-> keys[p]]]
                ELSE Nothing
    /\ UNCHANGED <<settings, keys, supervisor, seen, process, command, issued, dead>>

\* Fault: the files of a server are noted once it has been built.
NoteAfterwards ==
    /\ build # Nothing
    /\ LET p == build.protocol
           e == seen[p].endpoint
       IN  IF Available(e)
           THEN \E earlier \in {build.signature.keys, keys[p]} :
                   instance' = [instance EXCEPT ![p] =
                       [signature |-> [endpoint |-> e, keys |-> keys[p]],
                        built |-> [endpoint |-> e, keys |-> earlier], alive |-> TRUE, bound |-> TRUE]]
           ELSE UNCHANGED instance
    /\ build' = Nothing
    /\ UNCHANGED <<settings, keys, supervisor, seen, unseen, process, command, issued, dead>>

\* A server listens and reads its keys when it is built.  An endpoint in use is an error,
\* which is noted; the protocol is looked at again the next time.
Build ==
    /\ build # Nothing
    /\ LET p == build.protocol
           e == seen[p].endpoint
       IN  IF Available(e)
           THEN instance' = [instance EXCEPT ![p] =
                    [signature |-> build.signature,
                     built |-> [endpoint |-> e, keys |-> keys[p]], alive |-> TRUE, bound |-> TRUE]]
           ELSE UNCHANGED instance
    /\ build' = Nothing
    /\ UNCHANGED <<settings, keys, supervisor, seen, unseen, process, command, issued, dead>>

Reconciled ==
    /\ supervisor = "looks" /\ build = Nothing /\ unseen = {}
    /\ supervisor' = "waits"
    /\ UNCHANGED <<settings, keys, instance, seen, unseen, build, process, command, issued, dead>>

\* serve_forever raises in its thread.  SSH closes its listener then, HTTPS does not.
Breaks(p) ==
    /\ dead < MaxServerDeaths /\ dead' = dead + 1
    /\ instance[p] # Nothing /\ instance[p].alive
    /\ \E bound \in BOOLEAN :
          instance' = [instance EXCEPT ![p].alive = FALSE, ![p].bound = bound]
    /\ UNCHANGED <<settings, keys, supervisor, seen, unseen, build, process, command, issued>>

-----------------------------------------------------------------------------
(* Commands *)

Issues == issued < MaxCommands /\ issued' = issued + 1
Goes(c, place) == command' = [command EXCEPT ![c] = place]
Rests(c) == command[c].at = "idle"

\* configure: the endpoint must not be that of another protocol that is enabled.
Configure(c, p, e) ==
    /\ Rests(c) /\ Issues
    /\ \A other \in Protocol \ {p} : settings[other].enabled => settings[other].endpoint # e
    /\ settings' = [settings EXCEPT ![p].endpoint = e]
    /\ UNCHANGED <<keys, runtimeParts, process, command, dead>>

\* enable: the endpoint must be free.  Outside the service's own scope a process is started.
EnableProtocol(c, p) ==
    /\ Rests(c) /\ Issues
    /\ Available(settings[p].endpoint)
    /\ settings' = [settings EXCEPT ![p].enabled = TRUE]
    /\ \/ UNCHANGED command
       \/ Goes(c, [at |-> "start", protocol |-> p])
    /\ UNCHANGED <<keys, runtimeParts, process, dead>>

StartProcess(c, x) ==
    /\ command[c].at = "start" /\ process[x].is = "new"
    /\ process' = [process EXCEPT ![x] = [is |-> "starts", protocol |-> command[c].protocol]]
    /\ Goes(c, [at |-> "note", protocol |-> command[c].protocol, process |-> x])
    /\ UNCHANGED <<settings, keys, runtimeParts, issued, dead>>

\* The process is known to others only now.
NoteProcess(c) ==
    /\ command[c].at = "note"
    /\ settings' = [settings EXCEPT ![command[c].protocol].external = command[c].process]
    /\ Goes(c, [at |-> "idle"])
    /\ UNCHANGED <<keys, runtimeParts, process, issued, dead>>

\* serve: it ends when the protocol is not enabled, or its endpoint in use.
Serve(x) ==
    /\ process[x].is = "starts"
    /\ LET s == settings[process[x].protocol] IN
       process' = [process EXCEPT ![x] =
           IF s.enabled /\ Available(s.endpoint)
           THEN [is |-> "serving", endpoint |-> s.endpoint] ELSE [is |-> "gone"]]
    /\ UNCHANGED <<settings, keys, runtimeParts, command, issued, dead>>

ProcessDies(x) ==
    /\ dead < MaxServerDeaths /\ dead' = dead + 1
    /\ process[x].is \in {"starts", "serving"}
    /\ process' = [process EXCEPT ![x] = [is |-> "gone"]]
    /\ UNCHANGED <<settings, keys, runtimeParts, command, issued>>

\* disable: the process that is noted is ended, then the protocol disabled, then the note
\* removed.
DisableProtocol(c, p) ==
    /\ Rests(c) /\ Issues
    /\ process' = IF Running(settings[p]) THEN [process EXCEPT ![settings[p].external] = [is |-> "gone"]]
                                          ELSE process
    /\ Goes(c, [at |-> "disable", protocol |-> p])
    /\ UNCHANGED <<settings, keys, runtimeParts, dead>>

SetDisabled(c) ==
    /\ command[c].at = "disable"
    /\ settings' = [settings EXCEPT ![command[c].protocol].enabled = FALSE]
    /\ Goes(c, [command[c] EXCEPT !.at = "clear"])
    /\ UNCHANGED <<keys, runtimeParts, process, issued, dead>>

ClearProcess(c) ==
    /\ command[c].at = "clear"
    /\ settings' = [settings EXCEPT ![command[c].protocol].external = Nothing]
    /\ Goes(c, [at |-> "idle"])
    /\ UNCHANGED <<keys, runtimeParts, process, issued, dead>>

\* certificate, rotate-host-key: new files under the same names; then the configuration is
\* read, and written back whole with those names in it.
RotateKeys(c, p) ==
    /\ Rests(c) /\ Issues
    /\ keys' = [keys EXCEPT ![p] = @ + 1]
    /\ Goes(c, [at |-> "read"])
    /\ UNCHANGED <<settings, runtimeParts, process, dead>>

ReadSettings(c) ==
    /\ command[c].at = "read"
    /\ Goes(c, [at |-> "write", copy |-> settings])
    /\ UNCHANGED <<settings, keys, runtimeParts, process, issued, dead>>

WriteSettings(c) ==
    /\ command[c].at = "write"
    /\ settings' = command[c].copy
    /\ Goes(c, [at |-> "idle"])
    /\ UNCHANGED <<keys, runtimeParts, process, issued, dead>>

-----------------------------------------------------------------------------
SupervisorStep == Reconcile \/ (\E p \in Protocol : LookAt(p)) \/ Build \/ Reconciled

CommandStep(c) ==
    \/ \E p \in Protocol : EnableProtocol(c, p) \/ DisableProtocol(c, p) \/ RotateKeys(c, p)
    \/ \E p \in Protocol, e \in Endpoint : Configure(c, p, e)
    \/ \E x \in ServeProcess : StartProcess(c, x)
    \/ NoteProcess(c) \/ SetDisabled(c) \/ ClearProcess(c) \/ ReadSettings(c) \/ WriteSettings(c)

ServersNext ==
    \/ SupervisorStep \/ StartRuntime \/ StopRuntime
    \/ \E p \in Protocol : Breaks(p)
    \/ \E x \in ServeProcess : Serve(x) \/ ProcessDies(x)
    \/ \E c \in Command : CommandStep(c)

\* The supervisor's thread runs every two seconds, and no step of it waits for anybody.
ServersFairness == WF_serversVars(SupervisorStep)

ServersSpec == ServersInit /\ [][ServersNext]_serversVars /\ ServersFairness

-----------------------------------------------------------------------------
(* Properties *)

ServersTypeOK ==
    /\ settings \in [Protocol -> Setting] /\ seen \in [Protocol -> Setting]
    /\ keys \in [Protocol -> Nat]
    /\ \A p \in Protocol : instance[p] # Nothing =>
          instance[p] \in [signature : Signature, built : Signature, alive : BOOLEAN, bound : BOOLEAN]
    /\ supervisor \in {"off", "waits", "looks"} /\ unseen \subseteq Protocol
    /\ \A x \in ServeProcess : process[x].is \in {"new", "starts", "serving", "gone"}

\* A server whose signature is that of the keys of now has been built with them: they may
\* change while it is built, and are then found to have changed.
SignatureIsTrue ==
    \A p \in Protocol : instance[p] # Nothing =>
        /\ instance[p].built.endpoint = instance[p].signature.endpoint
        /\ instance[p].signature.keys = keys[p] => instance[p].built.keys = keys[p]

\* What a protocol should be served with is what serves it.
ServedAsConfigured(p) ==
    LET s == settings[p] IN
    IF s.enabled /\ ~Running(s)
    THEN \/ /\ instance[p] # Nothing /\ instance[p].alive
            /\ instance[p].built = [endpoint |-> s.endpoint, keys |-> keys[p]]
         \/ instance[p] = Nothing /\ ~Available(s.endpoint)
    ELSE instance[p] = Nothing

\* However commands, dying servers and processes that were started elsewhere have been
\* interleaved, a monitor that keeps running comes to serve what is configured with the
\* endpoint and the keys of now, and nothing else, unless somebody else has the endpoint.
ConfigurationServed ==
    <>[](supervisor = "off" \/ \A p \in Protocol : ServedAsConfigured(p))
================================================================================
