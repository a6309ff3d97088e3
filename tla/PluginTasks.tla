------------------------------ MODULE PluginTasks ------------------------------
(***************************************************************************)
(* Plugins, their periodic tasks and the end of the program.  The main     *)
(* thread loads the enabled plugins before it enters the window's loop and *)
(* stops them after it; Exit in the tray stops them from the tray thread   *)
(* and asks the window to quit.  A plugin runs its tasks on threads of     *)
(* their own, which PluginAPI.stop tells to end and then awaits.           *)
(*                                                                         *)
(* A loaded plugin is the index of its manifest; its tasks are pairs of it *)
(* and a number.                                                           *)
(***************************************************************************)
EXTENDS Naturals, Sequences

CONSTANTS
    Manifests,  \* the plugin ids of the manifests, in the order of discover()
    Enabled,    \* plugins.enabled
    MaxTasks    \* how many tasks the plugin of each manifest registers at most

Instances == 1..Len(Manifests)
Tasks == UNION {{i} \X (1..MaxTasks[i]) : i \in Instances}
Threads == {"main", "tray"}

ASSUME PluginAssumption ==
    /\ Len(Manifests) \in Nat
    /\ MaxTasks \in [Instances -> Nat]

VARIABLES
    pc,       \* where the two threads are
    next,     \* load_enabled: the manifest it is at,
    seen,     \*   the ids before it
    plugins,  \* PluginManager.plugins
    tracked,  \* tracked[p]: _tasks of p's PluginAPI
    thread,   \* the state of each task's thread
    told,     \* the tasks whose stop event is set
    todo,     \* todo[w]: what is left of the copy stop_all goes through
    current,  \* current[w]: the plugin stop_all or a failed start is at
    awaited,  \* awaited[w]: the copy of tracked[current[w]] in PluginAPI.stop
    quit,     \* the window was told to quit
    asked,    \* Exit was clicked or the window closed,
    due       \*   and tasks that then, or when a start failed, ran (for the properties)

pluginVars == <<pc, next, seen, plugins, tracked, thread, told, todo, current, awaited,
                quit, asked, due>>

loadVars == <<next, seen, plugins>>
taskVars == <<tracked, thread, told>>
stopVars == <<todo, current, awaited>>
endVars == <<quit, asked, due>>

Loading == {"load", "start"}
Stopping == {"stop", "item", "signal", "join"}

TypeOK ==
    /\ pc \in [Threads -> {"window", "manager", "loop", "idle", "dispatch", "gone", "ended"}
                            \cup Loading \cup Stopping]
    /\ next \in 1..(Len(Manifests) + 1)
    /\ seen \subseteq {Manifests[i] : i \in Instances}
    /\ plugins \subseteq Instances
    /\ tracked \in [Instances -> SUBSET Tasks]
    /\ thread \in [Tasks -> {"none", "tracked", "waiting", "callback", "over"}]
    /\ told \subseteq Tasks
    /\ todo \in [Threads -> SUBSET Instances]
    /\ current \in [Threads -> Instances \cup {0}]
    /\ awaited \in [Threads -> SUBSET Tasks]
    /\ quit \in BOOLEAN /\ asked \in BOOLEAN
    /\ due \subseteq Tasks

Init ==
    /\ pc = [w \in Threads |-> IF w = "main" THEN "window" ELSE "idle"]
    /\ next = 1 /\ seen = {} /\ plugins = {}
    /\ tracked = [p \in Instances |-> {}]
    /\ thread = [t \in Tasks |-> "none"]
    /\ told = {}
    /\ todo = [w \in Threads |-> {}]
    /\ current = [w \in Threads |-> 0]
    /\ awaited = [w \in Threads |-> {}]
    /\ quit = FALSE /\ asked = FALSE /\ due = {}

Goto(w, from, to) == pc[w] = from /\ pc' = [pc EXCEPT ![w] = to]

\* The process is there: its end takes the threads with it.
Up == pc["main"] # "ended"

-----------------------------------------------------------------------------
(* The tasks of a plugin                                                   *)

\* A task that is tracked and whose thread is not started yet.
Starting(p) == \E t \in tracked[p] : thread[t] = "tracked"

\* register_periodic_task, up to the start of the thread.
Track(p) ==
    /\ ~Starting(p)
    /\ \E n \in 1..MaxTasks[p] :
        /\ thread[<<p, n>>] = "none"
        /\ thread' = [thread EXCEPT ![<<p, n>>] = "tracked"]
        /\ tracked' = [tracked EXCEPT ![p] = @ \cup {<<p, n>>}]
    /\ UNCHANGED <<pc, loadVars, told, stopVars, endVars>>

\* on_start registers a task.
RegisterAtStart == pc["main"] = "start" /\ Track(next)

\* A callback registers another.
RegisterInCallback == Up /\ \E t \in Tasks : thread[t] = "callback" /\ Track(t[1])

Advance(t, from, to) ==
    /\ Up
    /\ thread[t] = from
    /\ thread' = [thread EXCEPT ![t] = to]
    /\ UNCHANGED <<pc, loadVars, tracked, told, stopVars, endVars>>

StartThread == \E t \in Tasks : Advance(t, "tracked", "waiting")

\* The loop of _runner.
CallBack == \E t \in Tasks : t \notin told /\ Advance(t, "waiting", "callback")
CallbackReturns == \E t \in Tasks : ~Starting(t[1]) /\ Advance(t, "callback", "waiting")
TaskEnds == \E t \in Tasks : t \in told /\ Advance(t, "waiting", "over")

-----------------------------------------------------------------------------
(* PluginManager.load_enabled                                              *)

\* main: the window exists, then the manager does.
OpenWindow ==
    /\ Goto("main", "window", "manager")
    /\ UNCHANGED <<loadVars, taskVars, stopVars, endVars>>

MakeManager ==
    /\ Goto("main", "manager", "load")
    /\ UNCHANGED <<loadVars, taskVars, stopVars, endVars>>

\* The next manifest gives a plugin that is not disabled and not a duplicate.
Loadable == Manifests[next] \in Enabled \ seen

Visited == seen' = seen \cup {Manifests[next]}

\* Mutant of Pass: a duplicate of the last manifest is skipped with it.
PassTwo ==
    /\ pc["main"] = "load" /\ next <= Len(Manifests)
    /\ Visited
    /\ next' = next + 2
    /\ UNCHANGED <<pc, plugins, taskVars, stopVars, endVars>>

\* Disabled, a duplicate, or a module that cannot be imported; a manifest that
\* is refused gives no id.
Pass ==
    /\ pc["main"] = "load" /\ next <= Len(Manifests)
    /\ Visited \/ UNCHANGED seen
    /\ next' = next + 1
    /\ UNCHANGED <<pc, plugins, taskVars, stopVars, endVars>>

\* _load_plugin calls on_start and register_ui.
StartPlugin ==
    /\ next <= Len(Manifests) /\ Loadable
    /\ Visited
    /\ Goto("main", "load", "start")
    /\ UNCHANGED <<next, plugins, taskVars, stopVars, endVars>>

PluginStarts ==
    /\ Goto("main", "start", "load")
    /\ ~Starting(next)
    /\ plugins' = plugins \cup {next}
    /\ next' = next + 1
    /\ UNCHANGED <<seen, taskVars, stopVars, endVars>>

\* Mutant of PluginFails: the tasks of a plugin that failed are not stopped.
FailAndGoOn ==
    /\ Goto("main", "start", "load")
    /\ ~Starting(next)
    /\ due' = due \cup tracked[next]
    /\ next' = next + 1
    /\ UNCHANGED <<seen, plugins, taskVars, stopVars, quit, asked>>

\* on_start or register_ui raises: PluginAPI.stop.
PluginFails ==
    /\ Goto("main", "start", "signal")
    /\ ~Starting(next)
    /\ current' = [current EXCEPT !["main"] = next]
    /\ due' = due \cup tracked[next]
    /\ UNCHANGED <<loadVars, taskVars, todo, awaited, quit, asked>>

EnterLoop ==
    /\ next > Len(Manifests)
    /\ Goto("main", "load", "loop")
    /\ UNCHANGED <<loadVars, taskVars, stopVars, endVars>>

-----------------------------------------------------------------------------
(* PluginManager.stop_all, on either thread                                *)

CopyPlugins(w) ==
    /\ Goto(w, "stop", "item")
    /\ todo' = [todo EXCEPT ![w] = plugins]
    /\ UNCHANGED <<loadVars, taskVars, current, awaited, endVars>>

\* _stop_item: on_stop runs, whatever it raises, before PluginAPI.stop.
StopItem(w) ==
    /\ Goto(w, "item", "signal")
    /\ \E p \in todo[w] :
        /\ \A q \in todo[w] : p <= q
        /\ current' = [current EXCEPT ![w] = p]
        /\ todo' = [todo EXCEPT ![w] = @ \ {p}]
    /\ UNCHANGED <<loadVars, taskVars, awaited, endVars>>

Signal(w) ==
    /\ Goto(w, "signal", "join")
    /\ awaited' = [awaited EXCEPT ![w] = tracked[current[w]]]
    /\ told' = told \cup tracked[current[w]]
    /\ UNCHANGED <<loadVars, tracked, thread, todo, current, endVars>>

Alive(t) == thread[t] \in {"waiting", "callback"}

\* load_enabled goes on with the next manifest, stop_all with the next plugin.
AfterStop(w) ==
    IF w = "main" /\ next <= Len(Manifests)
    THEN Goto(w, "join", "load") /\ next' = next + 1
    ELSE Goto(w, "join", "item") /\ UNCHANGED next

\* Mutant of Join: it waits until the tasks have ended.
JoinAll(w) ==
    /\ AfterStop(w)
    /\ \A t \in awaited[w] : ~Alive(t)
    /\ tracked' = [tracked EXCEPT ![current[w]] = {}]
    /\ UNCHANGED <<seen, plugins, thread, told, stopVars, endVars>>

\* A second for each task; those still alive are all that stays tracked.
Join(w) ==
    /\ AfterStop(w)
    /\ tracked' = [tracked EXCEPT ![current[w]] = {t \in awaited[w] : Alive(t)}]
    /\ UNCHANGED <<seen, plugins, thread, told, stopVars, endVars>>

\* plugins.clear(); then the monitor is stopped.
Clear(w) ==
    /\ todo[w] = {}
    /\ Goto(w, "item", IF w = "main" THEN "ended" ELSE "dispatch")
    /\ plugins' = {}
    /\ UNCHANGED <<next, seen, taskVars, stopVars, endVars>>

StopStep(w) == CopyPlugins(w) \/ StopItem(w) \/ Signal(w) \/ Join(w) \/ Clear(w)

-----------------------------------------------------------------------------
(* Exit and closing the window                                             *)

\* What is loaded is promised its stop by the first to ask.
Ask ==
    /\ asked' = TRUE
    /\ due' = IF asked THEN due ELSE due \cup UNION {tracked[p] : p \in plugins}

\* exit_action, up to stop_all if there is a manager.
Exit ==
    /\ Up
    /\ Goto("tray", "idle", IF pc["main"] \in {"window", "manager"} THEN "dispatch" ELSE "stop")
    /\ Ask
    /\ UNCHANGED <<loadVars, taskVars, stopVars, quit>>

\* app.after raises unless the loop runs, and a quit before it is forgotten
\* (without a window only the tray thread ends).
Dispatch ==
    /\ Up
    /\ Goto("tray", "dispatch", "gone")
    /\ quit' = (pc["main"] = "loop" \/ quit)
    /\ UNCHANGED <<loadVars, taskVars, stopVars, asked, due>>

\* on_closing, unless closing only hides the window.
Close ==
    /\ Goto("main", "loop", "stop")
    /\ Ask
    /\ UNCHANGED <<loadVars, taskVars, stopVars, quit>>

\* mainloop returns.
Quit ==
    /\ quit
    /\ Goto("main", "loop", "stop")
    /\ UNCHANGED <<loadVars, taskVars, stopVars, endVars>>

-----------------------------------------------------------------------------
LoadStep ==
    \/ OpenWindow \/ MakeManager \/ RegisterAtStart \/ Pass \/ StartPlugin
    \/ PluginStarts \/ PluginFails \/ EnterLoop

MainStep == LoadStep \/ Quit \/ StopStep("main")
TrayStep == (Up /\ StopStep("tray")) \/ Dispatch
TaskStep == RegisterInCallback \/ CallBack \/ CallbackReturns \/ TaskEnds

Next == MainStep \/ TrayStep \/ TaskStep \/ StartThread \/ Exit \/ Close

Spec == Init /\ [][Next]_pluginVars

\* The two threads run and a thread that was created starts; a callback may
\* never return, and nobody has to exit.
FairSpec ==
    /\ Spec
    /\ WF_pluginVars(MainStep)
    /\ WF_pluginVars(TrayStep)
    /\ WF_pluginVars(StartThread)

-----------------------------------------------------------------------------
\* A plugin the manager is done with: its start failed or it was stopped.
Forgotten(p) == p < next /\ p \notin plugins

\* Whatever tasks register, whoever stops the plugins and however often, no
\* plugin is forgotten before each task it had when its start failed or the end
\* was asked for was told to stop (_load_plugin, stop_all, PluginAPI.stop).
DueTasksAreTold == \A t \in due : Forgotten(t[1]) => t \in told

\* main is past its loop, or in it with a quit on the way.
EndUnderWay ==
    \/ pc["main"] \in Stopping /\ next > Len(Manifests)
    \/ pc["main"] = "loop" /\ pc["tray"] \in Stopping \cup {"dispatch"}

\* Once the end is under way the process ends, although a callback may never
\* return (exit_action, on_closing, the joins of PluginAPI.stop).
ShutdownEnds == EndUnderWay ~> pc["main"] = "ended"
=============================================================================
