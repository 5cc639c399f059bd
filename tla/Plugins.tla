-------------------------------- MODULE Plugins --------------------------------
(***************************************************************************)
(* core/plugins/manager.py: every process that starts the application reads *)
(* the registry of plugins and then looks at their folders, activates those *)
(* that are enabled and saves what it holds.  Each command on a plugin does *)
(* so again: what is saved is all that the process knows, however old.      *)
(*                                                                         *)
(* The content of a folder is a version, and stands for its checksum too.   *)
(* What a plugin does when it is activated is left out, but for its failing;*)
(* so are signatures and trust in a publisher.                              *)
(***************************************************************************)
EXTENDS Integers

CONSTANTS
    Host,               \* processes that start the application
    Plugin,
    Bundled,            \* plugins that come with the application, enabled by default
    Version,            \* of the content of a plugin
    Permission,
    Demands,            \* the permissions that the manifest of a version names
    Needs,              \* the plugins that a plugin depends on
    Manages,            \* bound: the plugins that a host gives commands on
    MaxInstalls         \* bound: packages installed, and upgrades of the application

ASSUME PluginsAssumption ==
    /\ Bundled \subseteq Plugin
    /\ Version \subseteq Nat \ {0} /\ 1 \in Version
    /\ Demands \in [Version -> SUBSET Permission]
    /\ Needs \in [Plugin -> SUBSET Plugin]
    /\ Manages \in [Host -> SUBSET Plugin]
    /\ MaxInstalls \in Nat

VARIABLES
    shipped,        \* the version of the bundled plugins that the application brings
    folder,         \* the version in the folder of a plugin, or 0
    registry,       \* what was saved of each plugin
    view,           \* PluginManager.plugins of a host
    host,           \* what a host is doing
    chosen,          \* history: the versions that a user enabled, or that are by default
    overruled,      \* history: plugins that were enabled while in quarantine
    installs

pluginsVars == <<shipped, folder, registry, view, host, chosen, overruled, installs>>

\* "STOPPED" is being blocked, incompatible, in error or in quarantine: no branch tells them apart.
State == {"ENABLED", "DISABLED", "STOPPED"}
Record == [state : State, granted : SUBSET Permission, checksum : Version]
Installed == [version : Version, state : State, granted : SUBSET Permission, checksum : Version]

Unread == << >>
Idle == [at |-> "down", on |-> {}, read |-> Unread]

PluginsInit ==
    /\ shipped = 1
    /\ folder = [p \in Plugin |-> 0]
    /\ registry = << >> /\ view = [h \in Host |-> << >>]
    /\ host = [h \in Host |-> Idle]
    /\ chosen = {} /\ overruled = {}
    /\ installs = 0

Recorded(of) == [p \in DOMAIN of |->
                    [state |-> of[p].state, granted |-> of[p].granted, checksum |-> of[p].checksum]]

\* _save_registry: the whole of the host's view.
Save(h) == registry' = Recorded(view'[h])

With(of, p, record) == [q \in DOMAIN of \cup {p} |-> IF q = p THEN record ELSE of[q]]
Without(of, p) == [q \in DOMAIN of \ {p} |-> of[q]]

-----------------------------------------------------------------------------
(* A process starts *)

\* bootstrap_builtin_plugins, and discover reads the registry.
Bootstrap(h) ==
    /\ host[h].at = "down"
    /\ folder' = [p \in Plugin |-> IF p \in Bundled THEN shipped ELSE folder[p]]
    /\ host' = [host EXCEPT ![h] = [at |-> "reading", on |-> {}, read |-> registry]]
    /\ UNCHANGED <<shipped, registry, view, chosen, overruled, installs>>

Found == {p \in Plugin : folder[p] # 0}
Saved(h) == DOMAIN host[h].read
Expected(h, p) == IF p \in Saved(h) THEN host[h].read[p].checksum ELSE folder[p]
Default(p) == [version |-> folder[p], checksum |-> folder[p],
               state |-> IF p \in Bundled THEN "ENABLED" ELSE "DISABLED",
               granted |-> IF p \in Bundled THEN Demands[folder[p]] ELSE {}]
AsSaved(h, p) == [version |-> folder[p], checksum |-> host[h].read[p].checksum,
                  state |-> host[h].read[p].state, granted |-> host[h].read[p].granted]
InQuarantine(h, p) == [version |-> folder[p], checksum |-> Expected(h, p),
                       state |-> "STOPPED", granted |-> {}]

\* Fault: the content is not compared with what was recorded of it.
DiscoverAny(h) ==
    /\ host[h].at = "reading"
    /\ view' = [view EXCEPT ![h] =
          [p \in Found |-> IF p \in Saved(h) THEN AsSaved(h, p) ELSE Default(p)]]
    /\ chosen' = chosen \cup {<<p, folder[p]>> : p \in (Found \cap Bundled) \ Saved(h)}
    /\ host' = [host EXCEPT ![h] = [Idle EXCEPT !.at = "found"]]
    /\ UNCHANGED <<shipped, folder, registry, overruled, installs>>

\* discover: the folder of a plugin whose content is not what was recorded is moved away.
Discover(h) ==
    /\ host[h].at = "reading"
    /\ LET changed == {p \in Found : Expected(h, p) # folder[p]}
       IN /\ view' = [view EXCEPT ![h] =
                [p \in Found |-> IF p \in changed THEN InQuarantine(h, p)
                                 ELSE IF p \in Saved(h) THEN AsSaved(h, p) ELSE Default(p)]]
          /\ folder' = [p \in Plugin |-> IF p \in changed THEN 0 ELSE folder[p]]
    /\ chosen' = chosen \cup {<<p, folder[p]>> : p \in (Found \cap Bundled) \ Saved(h)}
    /\ host' = [host EXCEPT ![h] = [Idle EXCEPT !.at = "found"]]
    /\ UNCHANGED <<shipped, registry, overruled, installs>>

\* activate_enabled: those that fail are in error until a user enables them.
ActivateEnabled(h) ==
    /\ host[h].at = "found"
    /\ \E failed \in SUBSET {p \in DOMAIN view[h] : view[h][p].state = "ENABLED"} :
          view' = [view EXCEPT ![h] =
             [p \in DOMAIN view[h] |-> IF p \in failed THEN [view[h][p] EXCEPT !.state = "STOPPED"]
                                       ELSE view[h][p]]]
    /\ Save(h)
    /\ host' = [host EXCEPT ![h].at = "up"]
    /\ UNCHANGED <<shipped, folder, chosen, overruled, installs>>

\* It ends, or dies in the middle of a command.
Exit(h) ==
    /\ host[h].at # "down"
    /\ host' = [host EXCEPT ![h] = Idle] /\ view' = [view EXCEPT ![h] = << >>]
    /\ UNCHANGED <<shipped, folder, registry, chosen, overruled, installs>>

\* A new version of the application is installed.
Upgrade ==
    /\ installs < MaxInstalls /\ installs' = installs + 1
    /\ shipped + 1 \in Version /\ shipped' = shipped + 1
    /\ UNCHANGED <<folder, registry, view, host, chosen, overruled>>

-----------------------------------------------------------------------------
(* Commands *)

Up(h, p) == host[h].at = "up" /\ p \in DOMAIN view[h]
Enabled(h) == {p \in DOMAIN view[h] : view[h][p].state = "ENABLED"}
Set(h, p, record) == view' = [view EXCEPT ![h][p] = record]

\* install: the folder is replaced...
Install(h, p, v) ==
    /\ host[h].at = "up" /\ p \notin Bundled
    /\ installs < MaxInstalls /\ installs' = installs + 1
    /\ folder' = [folder EXCEPT ![p] = v]
    /\ host' = [host EXCEPT ![h].at = "installing", ![h].on = {<<p, v>>}]
    /\ UNCHANGED <<shipped, registry, view, chosen, overruled>>

\* ...and the registry is saved.
Register(h) ==
    /\ host[h].at = "installing"
    /\ \E x \in host[h].on :
          view' = [view EXCEPT ![h] = With(view[h], x[1],
             [version |-> x[2], state |-> "DISABLED", granted |-> {}, checksum |-> x[2]])]
    /\ Save(h)
    /\ host' = [host EXCEPT ![h].at = "up", ![h].on = {}]
    /\ UNCHANGED <<shipped, folder, chosen, overruled, installs>>

\* Permissions are missing, or activation fails: blocked, and saved so.
EnableBlocked(h, p, grant) ==
    /\ Up(h, p)
    /\ \/ ~ Demands[view[h][p].version] \subseteq grant
       \/ Needs[p] \subseteq Enabled(h)
    /\ Set(h, p, [view[h][p] EXCEPT !.granted = grant, !.state = "STOPPED"])
    /\ Save(h)
    /\ UNCHANGED <<shipped, folder, host, chosen, overruled, installs>>

\* The application is too old or too new, or a dependency is not enabled: nothing is saved.
EnableRefused(h, p, grant) ==
    /\ Up(h, p)
    /\ Demands[view[h][p].version] \subseteq grant
    /\ \/ Set(h, p, [view[h][p] EXCEPT !.granted = grant, !.state = "STOPPED"])
       \/ ~ Needs[p] \subseteq Enabled(h) /\ Set(h, p, [view[h][p] EXCEPT !.granted = grant])
    /\ UNCHANGED <<shipped, folder, registry, host, chosen, overruled, installs>>

\* enable.  That a plugin is in quarantine is not looked at.
Enable(h, p, grant) ==
    /\ Up(h, p)
    /\ Demands[view[h][p].version] \subseteq grant /\ Needs[p] \subseteq Enabled(h)
    /\ Set(h, p, [view[h][p] EXCEPT !.granted = grant, !.state = "ENABLED"])
    /\ Save(h)
    /\ chosen' = chosen \cup {<<p, view[h][p].version>>}
    /\ overruled' = IF view[h][p].version = view[h][p].checksum THEN overruled
                    ELSE overruled \cup {p}
    /\ UNCHANGED <<shipped, folder, host, installs>>

\* disable, and the disable of reload and of uninstall.
Disable(h, p) ==
    /\ Up(h, p)
    /\ Set(h, p, [view[h][p] EXCEPT !.state = "DISABLED"])
    /\ Save(h)
    /\ UNCHANGED <<shipped, folder, host, chosen, overruled, installs>>

\* revoke: the two saves, of disable and its own, are one.
Revoke(h, p, permissions) ==
    /\ Up(h, p) /\ permissions \subseteq view[h][p].granted
    /\ Set(h, p, [view[h][p] EXCEPT !.granted = @ \ permissions,
                                    !.state = IF @ = "ENABLED" THEN "DISABLED" ELSE @])
    /\ Save(h)
    /\ UNCHANGED <<shipped, folder, host, chosen, overruled, installs>>

\* uninstall has disabled it: its folder is removed, which fails when there is none...
Uninstall(h, p) ==
    /\ Up(h, p) /\ p \notin Bundled /\ view[h][p].state = "DISABLED" /\ folder[p] # 0
    /\ folder' = [folder EXCEPT ![p] = 0]
    /\ host' = [host EXCEPT ![h].at = "removing", ![h].on = {<<p, 0>>}]
    /\ UNCHANGED <<shipped, registry, view, chosen, overruled, installs>>

\* ...and it is forgotten.
ForgetPlugin(h) ==
    /\ host[h].at = "removing"
    /\ \E x \in host[h].on : view' = [view EXCEPT ![h] = Without(view[h], x[1])]
    /\ Save(h)
    /\ host' = [host EXCEPT ![h].at = "up", ![h].on = {}]
    /\ UNCHANGED <<shipped, folder, chosen, overruled, installs>>

PluginsNext ==
    \/ Upgrade
    \/ \E h \in Host :
          \/ Bootstrap(h) \/ Discover(h) \/ ActivateEnabled(h) \/ Exit(h)
          \/ Register(h) \/ ForgetPlugin(h)
          \/ \E p \in Manages[h], v \in Version : Install(h, p, v)
          \/ \E p \in Manages[h] : Disable(h, p) \/ Uninstall(h, p)
          \/ \E p \in Manages[h], granted \in SUBSET Permission :
                \/ EnableBlocked(h, p, granted) \/ EnableRefused(h, p, granted)
                \/ Enable(h, p, granted) \/ Revoke(h, p, granted)

PluginsSpec == PluginsInit /\ [][PluginsNext]_pluginsVars

-----------------------------------------------------------------------------
\* The variables have their types.
PluginsTypeOK ==
    /\ shipped \in Version
    /\ folder \in [Plugin -> Version \cup {0}]
    /\ DOMAIN registry \subseteq Plugin /\ \A p \in DOMAIN registry : registry[p] \in Record
    /\ \A h \in Host : /\ DOMAIN view[h] \subseteq Plugin
                       /\ \A p \in DOMAIN view[h] : view[h][p] \in Installed
    /\ chosen \subseteq Plugin \X Version /\ overruled \subseteq Plugin

\* A plugin that a process holds for enabled is one whose version a user enabled, with all
\* that the version demands: whatever is installed, revoked and saved by other processes
\* meanwhile, a new version does not inherit the state of an older one.  It may, once its
\* quarantine has been overruled.
EnabledWasChosen ==
    \A h \in Host : \A p \in Enabled(h) \ overruled :
        /\ <<p, view[h][p].version>> \in chosen
        /\ Demands[view[h][p].version] \subseteq view[h][p].granted
================================================================================
