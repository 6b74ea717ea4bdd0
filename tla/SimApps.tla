------------------------------- MODULE SimApps -------------------------------
(***************************************************************************)
(* Applications of the simulator (app_runtime.cpp): the registry of what   *)
(* is installed, and the running instances with the map from processes to  *)
(* them.  A package is what reading and checking its manifest comes to: an *)
(* app, or NoApp.  The directory made for an app is left to SimFiles; the  *)
(* details shown about an app are left out.                                *)
(***************************************************************************)
EXTENDS Naturals, FiniteSets

CONSTANTS
    Packages,           \* app a manifest describes, or NoApp if it is refused
    BuiltinApps,
    NoApp

ASSUME AppsAssumption == NoApp \notin BuiltinApps

Insert(f, x, v) == [y \in DOMAIN f \cup {x} |-> IF y = x THEN v ELSE f[y]]
Erase(f, x) == [y \in DOMAIN f \ {x} |-> f[y]]

NoInstance == 0

NewRuntime ==
    [registry |-> [app \in BuiltinApps |-> [isSystem |-> TRUE]],
     instances |-> <<>>, pidToInstance |-> <<>>, nextInstanceId |-> 1]

isInstalled(a, app) == app \in DOMAIN a.registry

installApp(a, app) ==
    IF app = NoApp \/ isInstalled(a, app) THEN a
    ELSE [a EXCEPT !.registry = Insert(@, app, [isSystem |-> FALSE])]

mayUninstall(a, app, root) ==
    isInstalled(a, app) /\ (a.registry[app].isSystem => root)

\* runApp once the process exists.
Started(a, app, pid) ==
    [a EXCEPT !.instances = Insert(@, a.nextInstanceId, [appId |-> app, pid |-> pid]),
              !.pidToInstance = Insert(@, pid, a.nextInstanceId),
              !.nextInstanceId = @ + 1]

instancesOf(a, app) == {id \in DOMAIN a.instances : a.instances[id].appId = app}
isRunning(a, app) == instancesOf(a, app) # {}

getInstanceByPid(a, pid) ==
    IF pid \in DOMAIN a.pidToInstance THEN a.pidToInstance[pid] ELSE NoInstance

onProcessTerminated(a, pid) ==
    IF getInstanceByPid(a, pid) = NoInstance THEN a
    ELSE [a EXCEPT !.instances = Erase(@, a.pidToInstance[pid]),
                   !.pidToInstance = Erase(@, pid)]
=============================================================================
