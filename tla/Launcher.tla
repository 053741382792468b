------------------------------ MODULE Launcher ------------------------------
(***************************************************************************)
(* The launcher (nivelle.py).  Launchers on one machine share two ports,   *)
(* of llama-server and of Core, and the file models.yaml: each starts the  *)
(* processes it does not find ready, waits for them, runs the client, and  *)
(* stops what it started.                                                  *)
(***************************************************************************)
EXTENDS Naturals

CONSTANTS
  Launchers,
  LocalEndpoint \* models.yaml names an endpoint that the launcher serves

Kinds == {"llama", "core"}

ASSUME LauncherAssumption == LocalEndpoint \in BOOLEAN

VARIABLES
  mode,    \* what each launcher was started for
  keeps,   \* launchers started with --keep-server
  step,    \* where main() of each launcher stands
  child,   \* the processes each one started
  models,  \* models.yaml
  writer,  \* the launchers that have it open for writing
  serves   \* launchers whose settings make them serve the model

launchVars == <<mode, keeps>>
launcherVars == <<launchVars, step, child, models, writer, serves>>

Steps == {"begin", "configure", "settings", "llama", "core", "wait core", "wait llama",
          "client", "cleanup", "ended"}

LauncherTypeOK ==
  /\ mode \in [Launchers -> {"all", "server", "client"}]
  /\ keeps \subseteq Launchers
  /\ step \in [Launchers -> Steps]
  /\ child \in [Launchers -> [Kinds -> {"none", "starting", "ready", "dead"}]]
  /\ models \in {"missing", "empty", "complete"}
  /\ writer \subseteq Launchers
  /\ serves \subseteq Launchers

LauncherInit ==
  /\ mode \in [Launchers -> {"all", "server", "client"}]
  /\ keeps \in SUBSET Launchers
  /\ step = [l \in Launchers |-> "begin"]
  /\ child = [l \in Launchers |-> [k \in Kinds |-> "none"]]
  /\ models \in {"missing", "complete"}
  /\ writer = {} /\ serves = {}

StepTo(l, s) == step' = [step EXCEPT ![l] = s]
IsReady(k) == \E l \in Launchers : child[l][k] = "ready"
Alive(l, k) == child[l][k] \in {"starting", "ready"}
StartProcess(l, k) == child' = [child EXCEPT ![l][k] = "starting"]

\* The client alone, or the runtime first: an installation that fails ends it.
BeginMain(l) ==
  /\ step[l] = "begin"
  /\ \/ mode[l] = "client" /\ StepTo(l, "client")
     \/ mode[l] # "client" /\ (StepTo(l, "configure") \/ StepTo(l, "ended"))
  /\ UNCHANGED <<child, models, writer, serves>>

\* configure_real_model: the file is created exclusively and then filled; one
\* that is there is left or atomically repaired.  A write that fails removes it.
ConfigureModel(l) ==
  /\ step[l] = "configure"
  /\ \/ /\ models = "missing"
        /\ models' = "empty" /\ writer' = writer \cup {l} /\ UNCHANGED step
     \/ /\ models # "missing" /\ l \notin writer
        /\ StepTo(l, "settings") /\ UNCHANGED <<models, writer>>
     \/ /\ l \in writer
        /\ models' = "complete" /\ writer' = writer \ {l} /\ StepTo(l, "settings")
     \/ /\ l \in writer
        /\ models' = "missing" /\ writer' = writer \ {l} /\ StepTo(l, "ended")
  /\ UNCHANGED <<child, serves>>

\* load_launcher_settings: an empty file means the defaults, a mock model, and
\* an invalid one ends the launcher.
LoadSettings(l) ==
  /\ step[l] = "settings"
  /\ \/ /\ serves' = IF models = "complete" /\ LocalEndpoint THEN serves \cup {l} ELSE serves
        /\ StepTo(l, "llama")
     \/ StepTo(l, "ended") /\ UNCHANGED serves
  /\ UNCHANGED <<child, models, writer>>

\* start_llama unless somebody answers on its port; missing files end it.
EnsureLlama(l) ==
  /\ step[l] = "llama"
  /\ \/ l \in serves /\ ~IsReady("llama") /\ StartProcess(l, "llama") /\ StepTo(l, "core")
     \/ l \in serves /\ ~IsReady("llama") /\ StepTo(l, "cleanup") /\ UNCHANGED child
     \/ (l \notin serves \/ IsReady("llama")) /\ StepTo(l, "core") /\ UNCHANGED child
  /\ UNCHANGED <<models, writer, serves>>

\* The server mode runs Core in the foreground and never looks for another.
EnsureCore(l) ==
  /\ step[l] = "core"
  /\ \/ /\ mode[l] = "server"
        /\ StartProcess(l, "core") /\ StepTo(l, "client")
     \/ /\ mode[l] = "all" /\ ~IsReady("core")
        /\ StartProcess(l, "core") /\ StepTo(l, "wait core")
     \/ /\ mode[l] = "all" /\ IsReady("core")
        /\ StepTo(l, "wait llama") /\ UNCHANGED child
  /\ UNCHANGED <<models, writer, serves>>

\* wait_for_server, wait_for_llama: ready by whoever serves the port, or its
\* own process exited, or the time is over.
WaitFor(l, k, here, next) ==
  /\ step[l] = here
  /\ \/ IsReady(k) /\ StepTo(l, next)
     \/ ~IsReady(k) /\ StepTo(l, "cleanup")
  /\ UNCHANGED <<child, models, writer, serves>>

WaitForServer(l) == WaitFor(l, "core", "wait core", "wait llama")
WaitForLlama(l) ==
  \/ child[l]["llama"] # "none" /\ WaitFor(l, "llama", "wait llama", "client")
  \/ /\ step[l] = "wait llama" /\ child[l]["llama"] = "none"
     /\ StepTo(l, "client")
     /\ UNCHANGED <<child, models, writer, serves>>

\* The client, or in server mode Core, is closed.
ForegroundEnds(l) ==
  /\ step[l] = "client"
  /\ StepTo(l, IF mode[l] = "client" THEN "ended" ELSE "cleanup")
  /\ child' = IF mode[l] = "server" THEN [child EXCEPT ![l]["core"] = "dead"] ELSE child
  /\ UNCHANGED <<models, writer, serves>>

\* Ctrl-C inside the try block.
Interrupted(l) ==
  /\ step[l] \in {"llama", "core", "wait core", "wait llama", "client"}
  /\ mode[l] # "client"
  /\ StepTo(l, "cleanup")
  /\ child' = IF mode[l] = "server" /\ Alive(l, "core")
              THEN [child EXCEPT ![l]["core"] = "dead"] ELSE child
  /\ UNCHANGED <<models, writer, serves>>

\* The finally block; --keep-server has no meaning in server mode.
Cleanup(l) ==
  /\ step[l] = "cleanup"
  /\ child' = IF l \in keeps /\ mode[l] = "all" THEN child
              ELSE [child EXCEPT ![l] = [k \in Kinds |-> IF Alive(l, k) THEN "dead" ELSE @[k]]]
  /\ StepTo(l, "ended")
  /\ UNCHANGED <<models, writer, serves>>

\* A process takes its port; it exits if another has it, or for itself.
ProcessStarts(l, k) ==
  /\ child[l][k] = "starting"
  /\ child' = [child EXCEPT ![l][k] = IF IsReady(k) THEN "dead" ELSE "ready"]
  /\ UNCHANGED <<step, models, writer, serves>>

ProcessDies(l, k) ==
  /\ Alive(l, k)
  /\ child' = [child EXCEPT ![l][k] = "dead"]
  /\ UNCHANGED <<step, models, writer, serves>>

LauncherNext ==
  /\ UNCHANGED launchVars
  /\ \E l \in Launchers :
       \/ BeginMain(l) \/ ConfigureModel(l) \/ LoadSettings(l) \/ EnsureLlama(l) \/ EnsureCore(l)
       \/ WaitForServer(l) \/ WaitForLlama(l) \/ ForegroundEnds(l) \/ Interrupted(l) \/ Cleanup(l)
       \/ \E k \in Kinds : ProcessStarts(l, k) \/ ProcessDies(l, k)

LauncherSpec == LauncherInit /\ [][LauncherNext]_launcherVars

\* nivelle.py:594-643: however a launcher ends, by the client closed, a process
\* that died, a wait given up or Ctrl-C, what it started runs on only if it was
\* told to keep it.
LauncherLeavesNothing ==
  \A l \in Launchers, k \in Kinds :
    step[l] = "ended" /\ Alive(l, k) => l \in keeps /\ mode[l] = "all"
=============================================================================
