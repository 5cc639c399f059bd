------------------------------ MODULE MCServices ------------------------------
(***************************************************************************)
(* Five components with threads, processes and pools of their own, that     *)
(* share no variable: a behaviour is one of any of them, chosen by "part",  *)
(* and the others stay as they begin.                                       *)
(***************************************************************************)
EXTENDS Monitor, PluginRuntime, Plugins, LanScan, Terminal, TLC

CONSTANTS
    d1, av, p22, disc,      \* Monitor: a device, presence and a port of it, discovery
    h1, h2, extra, builtin, \* Plugins: two processes; one from a package, one that is bundled
    pa,                     \* ... and a permission
    r1, r2                  \* Terminal: two devices

DevicesOf == av :> d1 @@ p22 :> d1
Keys == av :> "k1" @@ p22 :> "k2" @@ disc :> "k3"
Failures == av :> "check.failed.av" @@ p22 :> "check.failed.22" @@ disc :> "check.failed.d"
Errors == av :> "check.error.av" @@ p22 :> "check.error.p" @@ disc :> "check.error.d"
Offline == d1 :> "device.offline"
AllCauses == {"check.failed.av", "check.failed.22", "check.failed.d", "check.error.av",
              "check.error.p", "check.error.d", "device.offline"}

Events == 1 :> 2 @@ 2 :> 1

VersionDemands == <<{}, {pa}>>
Dependencies == extra :> {builtin} @@ builtin :> {}
Managers == h1 :> {extra} @@ h2 :> {}

Rows == <<r1, r2>>

VARIABLE part

Parts == {"monitor", "runtime", "plugins", "scan", "terminal"}

vars == <<part, monitorVars, runtimeVars, pluginsVars, scanVars, tuiVars>>

\* What a part may begin with is fixed while another is looked at.
Init ==
    /\ part \in Parts
    /\ MonitorInit
    /\ part # "monitor" => workers = 1
    /\ RuntimeInit /\ PluginsInit
    /\ ScanInit
    /\ part # "scan" => inventory = {}
    /\ TerminalInit
    /\ part # "terminal" => Scanning /\ unsaved = {}

Next ==
    \/ /\ part = "monitor" /\ MonitorNext
       /\ UNCHANGED <<part, runtimeVars, pluginsVars, scanVars, tuiVars>>
    \/ /\ part = "runtime" /\ RuntimeNext
       /\ UNCHANGED <<part, monitorVars, pluginsVars, scanVars, tuiVars>>
    \/ /\ part = "plugins" /\ PluginsNext
       /\ UNCHANGED <<part, monitorVars, runtimeVars, scanVars, tuiVars>>
    \/ /\ part = "scan" /\ ScanNext
       /\ UNCHANGED <<part, monitorVars, runtimeVars, pluginsVars, tuiVars>>
    \/ /\ part = "terminal" /\ TerminalNext
       /\ UNCHANGED <<part, monitorVars, runtimeVars, pluginsVars, scanVars>>

Spec == Init /\ [][Next]_vars /\ RuntimeFairness

\* The part that is looked at has its types.
TypesOK ==
    /\ part \in Parts
    /\ part = "monitor" => MonitorTypeOK
    /\ part = "runtime" => RuntimeTypeOK
    /\ part = "plugins" => PluginsTypeOK
    /\ part = "scan" => ScanTypeOK
    /\ part = "terminal" => TerminalTypeOK
===============================================================================
