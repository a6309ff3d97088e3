----------------------------- MODULE PluginProofs -----------------------------
(***************************************************************************)
(* Proofs about PluginTasks for any manifests and any number of tasks.     *)
(***************************************************************************)
EXTENDS PluginTasks, TLAPS

Nr == Len(Manifests)

LEMMA NrIsNat == Nr \in Nat /\ Instances = 1..Nr
  BY PluginAssumption DEF Nr, Instances

LEMMA TaskOfInstance == \A t \in Tasks : t[1] \in Instances
  BY DEF Tasks

LEMMA TaskNumbers ==
    ASSUME NEW p \in Instances, NEW n \in 1..MaxTasks[p]
    PROVE  <<p, n>> \in Tasks /\ <<p, n>>[1] = p
  BY DEF Tasks

\* What the types need besides themselves.
TypeInv ==
    /\ TypeOK
    /\ pc["main"] = "start" => next \in Instances
    /\ \A w \in Threads : pc[w] \in {"signal", "join"} => current[w] \in Instances
    /\ \A p \in Instances : \A t \in tracked[p] : t[1] = p
    /\ \A w \in Threads : pc[w] = "join" => \A t \in awaited[w] : t[1] = current[w]

LEMMA TypeInit == Init => TypeInv
<1>. SUFFICES ASSUME Init PROVE TypeInv
  OBVIOUS
<1>1. next \in 1..(Nr + 1)
  BY NrIsNat DEF Init
<1>2. TypeOK
  BY <1>1 DEF Init, TypeOK, Threads, Nr
<1>. QED
  BY <1>2 DEF Init, TypeInv, Threads

LEMMA TypeTrack ==
    ASSUME TypeInv, NEW p \in Instances, Track(p) PROVE TypeInv'
<1>1. PICK n \in 1..MaxTasks[p] :
        /\ thread' = [thread EXCEPT ![<<p, n>>] = "tracked"]
        /\ tracked' = [tracked EXCEPT ![p] = @ \cup {<<p, n>>}]
  BY DEF Track
<1>2. UNCHANGED <<pc, next, seen, plugins, told, todo, current, awaited, quit, asked, due>>
  BY DEF Track, loadVars, stopVars, endVars
<1>3. <<p, n>> \in Tasks /\ <<p, n>>[1] = p
  BY TaskNumbers
<1>4. thread' \in [Tasks -> {"none", "tracked", "waiting", "callback", "over"}]
  BY <1>1 DEF TypeInv, TypeOK
<1>5. tracked' \in [Instances -> SUBSET Tasks]
  BY <1>1, <1>3 DEF TypeInv, TypeOK
<1>6. TypeOK'
  BY <1>2, <1>4, <1>5 DEF TypeInv, TypeOK
<1>7. \A q \in Instances : \A t \in tracked'[q] : t[1] = q
  BY <1>1, <1>3 DEF TypeInv, TypeOK
<1>. QED
  BY <1>2, <1>6, <1>7 DEF TypeInv

LEMMA TypeAdvance ==
    ASSUME TypeInv, NEW t \in Tasks, NEW from,
           NEW to \in {"waiting", "callback", "over"}, Advance(t, from, to)
    PROVE  TypeInv'
<1>1. thread' \in [Tasks -> {"none", "tracked", "waiting", "callback", "over"}]
  BY DEF Advance, TypeInv, TypeOK
<1>2. UNCHANGED <<pc, next, seen, plugins, tracked, told, todo, current, awaited, quit, asked, due>>
  BY DEF Advance, loadVars, stopVars, endVars
<1>. QED
  BY <1>1, <1>2 DEF TypeInv, TypeOK

LEMMA TypeTasks == ASSUME TypeInv, TaskStep \/ StartThread PROVE TypeInv'
<1>1. CASE RegisterInCallback
  BY <1>1, TypeTrack, TaskOfInstance DEF RegisterInCallback
<1>2. CASE CallBack
  BY <1>2, TypeAdvance DEF CallBack
<1>3. CASE CallbackReturns
  BY <1>3, TypeAdvance DEF CallbackReturns
<1>4. CASE TaskEnds
  BY <1>4, TypeAdvance DEF TaskEnds
<1>5. CASE StartThread
  BY <1>5, TypeAdvance DEF StartThread
<1>. QED
  BY <1>1, <1>2, <1>3, <1>4, <1>5 DEF TaskStep

LEMMA TypeLoad == ASSUME TypeInv, LoadStep PROVE TypeInv'
<1>. USE NrIsNat DEF TypeInv, TypeOK, loadVars, taskVars, stopVars, endVars, Threads,
                     Goto, Loading, Stopping, Nr
<1>1. CASE OpenWindow
  BY <1>1 DEF OpenWindow
<1>2. CASE MakeManager
  BY <1>2 DEF MakeManager
<1>3. CASE RegisterAtStart
  BY <1>3, TypeTrack DEF RegisterAtStart
<1>4. CASE Pass
  BY <1>4 DEF Pass, Visited
<1>5. CASE StartPlugin
  BY <1>5 DEF StartPlugin, Visited
<1>6. CASE PluginStarts
  BY <1>6 DEF PluginStarts
<1>7. CASE PluginFails
  BY <1>7 DEF PluginFails
<1>8. CASE EnterLoop
  BY <1>8 DEF EnterLoop
<1>. QED
  BY <1>1, <1>2, <1>3, <1>4, <1>5, <1>6, <1>7, <1>8 DEF LoadStep

LEMMA TypeStop ==
    ASSUME TypeInv, NEW w \in Threads, StopStep(w) PROVE TypeInv'
<1>. USE NrIsNat DEF TypeInv, TypeOK, loadVars, taskVars, stopVars, endVars, Threads,
                     Goto, Loading, Stopping, Nr
<1>1. CASE CopyPlugins(w)
  BY <1>1 DEF CopyPlugins
<1>2. CASE StopItem(w)
  BY <1>2 DEF StopItem
<1>3. CASE Signal(w)
  BY <1>3 DEF Signal
<1>4. CASE Join(w)
  <2>1. current[w] \in Instances
    BY <1>4 DEF Join, AfterStop
  <2>2. tracked' = [tracked EXCEPT ![current[w]] = {t \in awaited[w] : Alive(t)}]
    BY <1>4 DEF Join
  <2>3. UNCHANGED <<seen, plugins, thread, told, todo, current, awaited, quit, asked, due>>
    BY <1>4 DEF Join
  <2>4. AfterStop(w)
    BY <1>4 DEF Join
  <2>5. \A p \in Instances : \A t \in tracked'[p] : t[1] = p
    BY <1>4, <2>1, <2>2 DEF Join, AfterStop
  <2>6. tracked' \in [Instances -> SUBSET Tasks]
    BY <2>1, <2>2
  <2>. HIDE DEF Alive
  <2>7. TypeOK'
    BY <2>3, <2>4, <2>6 DEF AfterStop
  <2>. QED
    BY <2>3, <2>4, <2>5, <2>7 DEF AfterStop
<1>5. CASE Clear(w)
  BY <1>5 DEF Clear
<1>. QED
  BY <1>1, <1>2, <1>3, <1>4, <1>5 DEF StopStep

LEMMA TypeEnd == ASSUME TypeInv, Exit \/ Close \/ Quit \/ Dispatch PROVE TypeInv'
<1>. USE NrIsNat DEF TypeInv, TypeOK, loadVars, taskVars, stopVars, endVars, Threads,
                     Goto, Loading, Stopping, Nr
<1>1. UNION {tracked[p] : p \in plugins} \subseteq Tasks
  OBVIOUS
<1>2. Ask => due' \subseteq Tasks /\ asked' \in BOOLEAN
  BY <1>1 DEF Ask
<1>3. CASE Exit
  BY <1>2, <1>3 DEF Exit
<1>4. CASE Close
  BY <1>2, <1>4 DEF Close
<1>5. CASE Quit
  BY <1>5 DEF Quit
<1>6. CASE Dispatch
  BY <1>6 DEF Dispatch
<1>. QED
  BY <1>3, <1>4, <1>5, <1>6

LEMMA TypeStep == ASSUME TypeInv, [Next]_pluginVars PROVE TypeInv'
<1>1. CASE MainStep
  BY <1>1, TypeLoad, TypeEnd, TypeStop DEF MainStep, Threads
<1>2. CASE TrayStep
  BY <1>2, TypeEnd, TypeStop DEF TrayStep, Threads
<1>3. CASE TaskStep \/ StartThread
  BY <1>3, TypeTasks
<1>4. CASE Exit \/ Close
  BY <1>4, TypeEnd
<1>5. CASE UNCHANGED pluginVars
  BY <1>5 DEF TypeInv, TypeOK, pluginVars, loadVars, taskVars, stopVars, endVars
<1>. QED
  BY <1>1, <1>2, <1>3, <1>4, <1>5 DEF Next

\* The plugin threads and the two threads that end them keep to their types.
THEOREM TypesAlways == Spec => []TypeOK
<1>1. Spec => []TypeInv
  BY TypeInit, TypeStep, PTL DEF Spec
<1>2. TypeInv => TypeOK
  BY DEF TypeInv
<1>. QED
  BY <1>1, <1>2, PTL

-----------------------------------------------------------------------------
(* Promises                                                                *)

\* main is in the PluginAPI.stop of a plugin whose start failed.
Failing == pc["main"] \in {"signal", "join"} /\ next <= Nr

\* w is in stop_all.
InStopAll(w) == pc[w] \in {"item", "signal", "join"} /\ ~(w = "main" /\ Failing)

\* Nobody stops everything unless asked to, and main not before it has loaded all.
AskedFirst ==
    /\ quit => asked
    /\ pc["tray"] # "idle" => asked
    /\ pc["tray"] \in {"idle", "stop", "item", "signal", "join", "dispatch", "gone"}
    /\ pc["main"] \in {"loop", "stop", "item"} => next > Nr
    /\ pc["main"] \in {"stop", "item"} => asked
    /\ InStopAll("main") => asked

\* Only manifests that were visited are known, and a failing one is the next.
Behind ==
    /\ \A p \in plugins : p < next
    /\ \A w \in Threads : \A p \in todo[w] : p < next
    /\ \A w \in Threads :
        pc[w] \in {"signal", "join"} /\ InStopAll(w) => current[w] < next
    /\ Failing => current["main"] = next
    /\ \A t \in due : t[1] < next \/ (Failing /\ t[1] = next)

\* A due task is told or tracked; a thread that has set the stop events of a
\* plugin missed none that is due, and stop_all has told those of each plugin it
\* has no longer to do.
OnTheirWay ==
    /\ \A t \in due : t \in told \/ t \in tracked[t[1]]
    /\ \A w \in Threads :
        pc[w] = "join" => \A t \in due : t[1] = current[w] => t \in told
    /\ \A w \in Threads : InStopAll(w) =>
        \A t \in due : \/ t \in told
                       \/ t[1] \notin plugins
                       \/ t[1] \in todo[w]
                       \/ pc[w] = "signal" /\ t[1] = current[w]

PromiseInv == TypeInv /\ AskedFirst /\ Behind /\ OnTheirWay /\ DueTasksAreTold

LEMMA PromiseInit == Init => PromiseInv
<1>. SUFFICES ASSUME Init PROVE PromiseInv
  OBVIOUS
<1>1. /\ pc["main"] = "window" /\ pc["tray"] = "idle" /\ plugins = {} /\ due = {}
        /\ todo = [w \in Threads |-> {}] /\ quit = FALSE
  BY DEF Init, Threads
<1>2. \A w \in Threads : ~InStopAll(w) /\ pc[w] \notin {"signal", "join"}
  BY <1>1 DEF InStopAll, Threads
<1>3. TypeInv
  BY TypeInit
<1>. QED
  BY <1>1, <1>2, <1>3
     DEF PromiseInv, AskedFirst, Behind, OnTheirWay, DueTasksAreTold, Failing, Threads

\* A task that registers or runs disturbs no promise.
LEMMA PromiseQuiet ==
    ASSUME PromiseInv, TypeInv',
           UNCHANGED <<pc, next, plugins, told, todo, current, quit, asked, due>>,
           \A p \in Instances : tracked[p] \subseteq tracked'[p]
    PROVE  PromiseInv'
<1>1. AskedFirst'
  BY DEF PromiseInv, AskedFirst, InStopAll, Failing
<1>2. Behind'
  BY DEF PromiseInv, Behind, InStopAll, Failing
<1>3. \A t \in due : t[1] \in Instances
  BY TaskOfInstance DEF PromiseInv, TypeInv, TypeOK
<1>4. OnTheirWay'
  BY <1>3 DEF PromiseInv, OnTheirWay, InStopAll, Failing
<1>5. DueTasksAreTold'
  BY DEF PromiseInv, DueTasksAreTold, Forgotten
<1>. QED
  BY <1>1, <1>2, <1>4, <1>5 DEF PromiseInv

LEMMA PromiseTasks == ASSUME PromiseInv, TaskStep \/ StartThread PROVE PromiseInv'
<1>1. TypeInv'
  BY TypeTasks DEF PromiseInv
<1>2. ASSUME NEW p \in Instances, Track(p) PROVE PromiseInv'
  <2>1. \A q \in Instances : tracked[q] \subseteq tracked'[q]
    BY <1>2 DEF Track, PromiseInv, TypeInv, TypeOK
  <2>. QED
    BY <1>1, <1>2, <2>1, PromiseQuiet DEF Track, loadVars, stopVars, endVars
<1>3. ASSUME NEW t \in Tasks, NEW from, NEW to, Advance(t, from, to) PROVE PromiseInv'
  BY <1>1, <1>3, PromiseQuiet DEF Advance, loadVars, stopVars, endVars
<1>. QED
  BY <1>2, <1>3, TaskOfInstance
     DEF TaskStep, RegisterInCallback, CallBack, CallbackReturns, TaskEnds, StartThread

LEMMA PromiseLoad == ASSUME PromiseInv, LoadStep PROVE PromiseInv'
<1>1. TypeInv'
  BY TypeLoad DEF PromiseInv
<1>. USE NrIsNat, TaskOfInstance
     DEF PromiseInv, TypeInv, TypeOK, loadVars, taskVars, stopVars, endVars, Threads, Goto, Nr
<1>2. CASE OpenWindow \/ MakeManager \/ EnterLoop
  <2>1. UNCHANGED <<next, plugins, tracked, told, todo, current, quit, asked, due>>
    BY <1>2 DEF OpenWindow, MakeManager, EnterLoop
  <2>2. /\ pc["main"] \notin {"signal", "join", "item"}
        /\ pc'["main"] \in {"manager", "load", "loop"}
        /\ pc'["tray"] = pc["tray"]
        /\ pc'["main"] = "loop" => next > Nr
    BY <1>2 DEF OpenWindow, MakeManager, EnterLoop
  <2>3. AskedFirst'
    BY <2>1, <2>2 DEF AskedFirst, InStopAll, Failing
  <2>4. Behind'
    BY <2>1, <2>2 DEF Behind, InStopAll, Failing
  <2>5. OnTheirWay'
    BY <2>1, <2>2 DEF OnTheirWay, InStopAll, Failing
  <2>6. DueTasksAreTold'
    BY <2>1 DEF DueTasksAreTold, Forgotten
  <2>. QED
    BY <1>1, <2>3, <2>4, <2>5, <2>6
<1>3. CASE RegisterAtStart
  <2>1. next \in Instances /\ Track(next)
    BY <1>3 DEF RegisterAtStart
  <2>2. \A q \in Instances : tracked[q] \subseteq tracked'[q]
    BY <2>1 DEF Track
  <2>. QED
    BY <1>1, <2>1, <2>2, PromiseQuiet DEF Track
<1>4. CASE Pass
  <2>1. UNCHANGED <<pc, plugins, tracked, told, todo, current, quit, asked, due>>
    BY <1>4 DEF Pass
  <2>2. pc["main"] = "load" /\ next' = next + 1 /\ next \in Nat
    BY <1>4 DEF Pass
  <2>3. AskedFirst'
    BY <2>1, <2>2 DEF AskedFirst, InStopAll, Failing
  <2>4. Behind'
    BY <2>1, <2>2 DEF Behind, InStopAll, Failing
  <2>5. OnTheirWay'
    BY <2>1, <2>2 DEF OnTheirWay, InStopAll, Failing
  <2>6. DueTasksAreTold'
    BY <2>1, <2>2 DEF DueTasksAreTold, Forgotten, Behind, Failing
  <2>. QED
    BY <1>1, <2>3, <2>4, <2>5, <2>6
<1>5. CASE StartPlugin
  <2>1. UNCHANGED <<next, plugins, tracked, told, todo, current, quit, asked, due>>
    BY <1>5 DEF StartPlugin
  <2>2. pc["main"] = "load" /\ pc'["main"] = "start" /\ pc'["tray"] = pc["tray"]
    BY <1>5 DEF StartPlugin
  <2>3. AskedFirst'
    BY <2>1, <2>2 DEF AskedFirst, InStopAll, Failing
  <2>4. Behind'
    BY <2>1, <2>2 DEF Behind, InStopAll, Failing
  <2>5. OnTheirWay'
    BY <2>1, <2>2 DEF OnTheirWay, InStopAll, Failing
  <2>6. DueTasksAreTold'
    BY <2>1 DEF DueTasksAreTold, Forgotten
  <2>. QED
    BY <1>1, <2>3, <2>4, <2>5, <2>6
<1>6. CASE PluginStarts
  <2>1. UNCHANGED <<tracked, told, todo, current, quit, asked, due>>
    BY <1>6 DEF PluginStarts
  <2>2. /\ pc["main"] = "start" /\ pc'["main"] = "load" /\ pc'["tray"] = pc["tray"]
        /\ next' = next + 1 /\ next \in Nat /\ plugins' = plugins \cup {next}
    BY <1>6 DEF PluginStarts
  <2>3. AskedFirst'
    BY <2>1, <2>2 DEF AskedFirst, InStopAll, Failing
  <2>4. Behind'
    BY <2>1, <2>2 DEF Behind, InStopAll, Failing
  <2>5. \A t \in due : t[1] # next
    BY <2>2 DEF Behind, Failing
  <2>6. OnTheirWay'
    BY <2>1, <2>2, <2>5 DEF OnTheirWay, InStopAll, Failing
  <2>7. DueTasksAreTold'
    BY <2>1, <2>2, <2>5 DEF DueTasksAreTold, Forgotten
  <2>. QED
    BY <1>1, <2>3, <2>4, <2>6, <2>7
<1>7. CASE PluginFails
  <2>1. /\ UNCHANGED <<next, plugins, tracked, told, todo, quit, asked>>
        /\ due' = due \cup tracked[next]
        /\ current'["main"] = next /\ current'["tray"] = current["tray"]
    BY <1>7 DEF PluginFails
  <2>2. /\ pc["main"] = "start" /\ pc'["main"] = "signal" /\ pc'["tray"] = pc["tray"]
        /\ next \in Instances /\ next <= Nr
    BY <1>7 DEF PluginFails
  <2>3. \A t \in tracked[next] : t[1] = next
    BY <2>2
  <2>4. Failing' /\ ~InStopAll("main")' /\ InStopAll("tray")' = InStopAll("tray")
    BY <2>1, <2>2 DEF Failing, InStopAll
  <2>5. AskedFirst'
    BY <2>1, <2>2, <2>4 DEF AskedFirst
  <2>6. Behind'
    BY <2>1, <2>2, <2>3, <2>4 DEF Behind, Failing
  <2>7. pc["tray"] = "join" => current["tray"] # next
    BY <2>2 DEF Behind, InStopAll
  <2>8. next \notin plugins
    BY <2>2 DEF Behind
  <2>9. OnTheirWay'
    BY <2>1, <2>2, <2>3, <2>4, <2>7, <2>8 DEF OnTheirWay
  <2>10. DueTasksAreTold'
    BY <2>1, <2>2, <2>3 DEF DueTasksAreTold, Forgotten
  <2>. QED
    BY <1>1, <2>5, <2>6, <2>9, <2>10
<1>. QED
  BY <1>2, <1>3, <1>4, <1>5, <1>6, <1>7 DEF LoadStep

LEMMA PromiseStop ==
    ASSUME PromiseInv, NEW w \in Threads, StopStep(w) PROVE PromiseInv'
<1>1. TypeInv'
  BY TypeStop DEF PromiseInv
<1>. USE NrIsNat, TaskOfInstance
     DEF PromiseInv, TypeInv, TypeOK, loadVars, taskVars, stopVars, endVars, Threads, Goto, Nr
<1>2. CASE CopyPlugins(w)
  <2>1. /\ UNCHANGED <<next, plugins, tracked, told, current, quit, asked, due>>
        /\ todo' = [todo EXCEPT ![w] = plugins]
        /\ pc[w] = "stop" /\ pc' = [pc EXCEPT ![w] = "item"]
    BY <1>2 DEF CopyPlugins
  <2>2. AskedFirst'
    BY <2>1 DEF AskedFirst, InStopAll, Failing
  <2>3. Behind'
    BY <2>1 DEF Behind, InStopAll, Failing
  <2>4. OnTheirWay'
    BY <2>1 DEF OnTheirWay, InStopAll, Failing
  <2>5. DueTasksAreTold'
    BY <2>1 DEF DueTasksAreTold, Forgotten
  <2>. QED
    BY <1>1, <2>2, <2>3, <2>4, <2>5
<1>3. CASE StopItem(w)
  <2>1. PICK p \in todo[w] :
          /\ current' = [current EXCEPT ![w] = p]
          /\ todo' = [todo EXCEPT ![w] = @ \ {p}]
    BY <1>3 DEF StopItem
  <2>2. /\ UNCHANGED <<next, plugins, tracked, told, quit, asked, due>>
        /\ pc[w] = "item" /\ pc' = [pc EXCEPT ![w] = "signal"]
    BY <1>3 DEF StopItem
  <2>3. w = "main" => next > Nr
    BY <2>2 DEF AskedFirst
  <2>4. AskedFirst'
    BY <2>2, <2>3 DEF AskedFirst, InStopAll, Failing
  <2>5. Behind'
    BY <2>1, <2>2, <2>3 DEF Behind, InStopAll, Failing
  <2>6. OnTheirWay'
    BY <2>1, <2>2, <2>3 DEF OnTheirWay, InStopAll, Failing
  <2>7. DueTasksAreTold'
    BY <2>2 DEF DueTasksAreTold, Forgotten
  <2>. QED
    BY <1>1, <2>4, <2>5, <2>6, <2>7
<1>4. CASE Signal(w)
  <2>1. /\ UNCHANGED <<next, plugins, tracked, todo, current, quit, asked, due>>
        /\ told' = told \cup tracked[current[w]]
        /\ pc[w] = "signal" /\ pc' = [pc EXCEPT ![w] = "join"]
    BY <1>4 DEF Signal
  <2>2. \A t \in due : t[1] = current[w] => t \in told'
    BY <2>1 DEF OnTheirWay
  <2>3. AskedFirst'
    BY <2>1 DEF AskedFirst, InStopAll, Failing
  <2>4. Behind'
    BY <2>1 DEF Behind, InStopAll, Failing
  <2>5. OnTheirWay'
    BY <2>1, <2>2 DEF OnTheirWay, InStopAll, Failing
  <2>6. DueTasksAreTold'
    BY <2>1 DEF DueTasksAreTold, Forgotten
  <2>. QED
    BY <1>1, <2>3, <2>4, <2>5, <2>6
<1>5. CASE Join(w)
  <2>1. /\ UNCHANGED <<plugins, told, todo, current, quit, asked, due>>
        /\ tracked' = [tracked EXCEPT ![current[w]] = {t \in awaited[w] : Alive(t)}]
        /\ pc[w] = "join" /\ AfterStop(w)
    BY <1>5 DEF Join, AfterStop
  <2>. HIDE DEF Alive
  <2>2. \A t \in due : t[1] = current[w] => t \in told
    BY <2>1 DEF OnTheirWay
  <2>3. \A t \in due : t \in told \/ t \in tracked'[t[1]]
    BY <2>1, <2>2 DEF OnTheirWay
  <2>4. CASE w = "main" /\ next <= Nr
    <3>1. /\ Failing /\ next' = next + 1 /\ next \in Nat
          /\ pc' = [pc EXCEPT !["main"] = "load"]
      BY <2>1, <2>4 DEF AfterStop, Failing
    <3>2. AskedFirst'
      BY <2>1, <3>1 DEF AskedFirst, InStopAll, Failing
    <3>3. Behind'
      <4>1. ~Failing' /\ ~InStopAll("main")' /\ InStopAll("tray")' = InStopAll("tray")
        BY <3>1 DEF Failing, InStopAll
      <4>2. pc'["tray"] = pc["tray"] /\ pc'["main"] = "load"
        BY <3>1
      <4>3. \A t \in due : t[1] < next'
        BY <3>1 DEF Behind
      <4>. QED
        BY <2>1, <3>1, <4>1, <4>2, <4>3 DEF Behind
    <3>4. OnTheirWay'
      BY <2>1, <2>3, <3>1 DEF OnTheirWay, InStopAll, Failing
    <3>5. current["main"] = next
      BY <3>1 DEF Behind
    <3>6. DueTasksAreTold'
      BY <2>1, <2>2, <2>4, <3>1, <3>5 DEF DueTasksAreTold, Forgotten
    <3>. QED
      BY <1>1, <3>2, <3>3, <3>4, <3>6
  <2>5. CASE ~(w = "main" /\ next <= Nr)
    <3>1. /\ next' = next /\ pc' = [pc EXCEPT ![w] = "item"]
          /\ InStopAll(w) /\ (w = "main" => next > Nr)
      BY <2>1, <2>5 DEF AfterStop, InStopAll, Failing
    <3>2. AskedFirst'
      BY <2>1, <3>1 DEF AskedFirst, InStopAll, Failing
    <3>3. Behind'
      BY <2>1, <3>1 DEF Behind, InStopAll, Failing
    <3>4. OnTheirWay'
      BY <2>1, <2>3, <3>1 DEF OnTheirWay, InStopAll, Failing
    <3>5. DueTasksAreTold'
      BY <2>1, <3>1 DEF DueTasksAreTold, Forgotten
    <3>. QED
      BY <1>1, <3>2, <3>3, <3>4, <3>5
  <2>. QED
    BY <2>4, <2>5
<1>6. CASE Clear(w)
  <2>1. /\ UNCHANGED <<next, tracked, told, todo, current, quit, asked, due>>
        /\ plugins' = {} /\ todo[w] = {} /\ pc[w] = "item"
        /\ pc' = [pc EXCEPT ![w] = IF w = "main" THEN "ended" ELSE "dispatch"]
    BY <1>6 DEF Clear
  <2>2. \A t \in due : t[1] \in plugins => t \in told
    BY <2>1 DEF OnTheirWay, InStopAll, Failing
  <2>3. AskedFirst'
    BY <2>1 DEF AskedFirst, InStopAll, Failing
  <2>4. Behind'
    BY <2>1 DEF Behind, InStopAll, Failing
  <2>5. OnTheirWay'
    BY <2>1 DEF OnTheirWay, InStopAll, Failing
  <2>6. DueTasksAreTold'
    BY <2>1, <2>2 DEF DueTasksAreTold, Forgotten
  <2>. QED
    BY <1>1, <2>3, <2>4, <2>5, <2>6
<1>. QED
  BY <1>2, <1>3, <1>4, <1>5, <1>6 DEF StopStep

LEMMA PromiseEnd == ASSUME PromiseInv, Exit \/ Close \/ Quit \/ Dispatch PROVE PromiseInv'
<1>1. TypeInv'
  BY TypeEnd DEF PromiseInv
<1>. USE NrIsNat, TaskOfInstance
     DEF PromiseInv, TypeInv, TypeOK, loadVars, taskVars, stopVars, endVars, Threads, Goto, Nr
<1>2. UNCHANGED <<next, plugins, tracked, told, todo, current>>
  BY DEF Exit, Close, Quit, Dispatch
<1>. DEFINE Same(w, x) == pc'[w] = x <=> pc[w] = x
<1>3. \A w \in Threads : Same(w, "item") /\ Same(w, "signal") /\ Same(w, "join")
  BY DEF Exit, Close, Quit, Dispatch
<1>4. Failing' = Failing /\ \A w \in Threads : InStopAll(w)' = InStopAll(w)
  BY <1>2, <1>3 DEF Failing, InStopAll
<1>5. CASE Ask /\ asked
  <2>1. asked' /\ due' = due
    BY <1>5 DEF Ask
  <2>2. AskedFirst'
    BY <1>2, <1>5, <2>1 DEF AskedFirst, InStopAll, Failing, Exit, Close, Quit, Dispatch
  <2>3. Behind'
    BY <1>2, <1>3, <1>4, <2>1 DEF Behind
  <2>4. OnTheirWay'
    BY <1>2, <1>3, <1>4, <2>1 DEF OnTheirWay
  <2>5. DueTasksAreTold'
    BY <1>2, <2>1 DEF DueTasksAreTold, Forgotten
  <2>. QED
    BY <1>1, <2>2, <2>3, <2>4, <2>5
<1>6. CASE Ask /\ ~asked
  <2>1. asked' /\ due' = due \cup UNION {tracked[p] : p \in plugins}
    BY <1>6 DEF Ask
  <2>2. \A t \in UNION {tracked[p] : p \in plugins} :
          t[1] \in plugins /\ t \in tracked[t[1]] /\ t[1] < next
    BY DEF Behind
  <2>3. \A w \in Threads : ~InStopAll(w) /\ ~InStopAll(w)'
    BY <1>2, <1>6 DEF AskedFirst, InStopAll, Failing, Exit, Close, Quit, Dispatch
  <2>4. pc["main"] = "join" => Failing
    BY <2>3 DEF InStopAll
  <2>5. AskedFirst'
    BY <1>2, <1>6, <2>1, <2>3 DEF AskedFirst, Failing, Exit, Close, Quit, Dispatch
  <2>6. Behind'
    BY <1>2, <1>3, <1>4, <2>1, <2>2, <2>3 DEF Behind
  <2>7. OnTheirWay'
    <3>1. \A w \in Threads : pc[w] = "join" => w = "main" /\ current[w] \notin plugins
      BY <1>6, <2>4 DEF AskedFirst, Behind
    <3>. QED
      BY <1>2, <1>3, <2>1, <2>2, <2>3, <3>1 DEF OnTheirWay
  <2>8. DueTasksAreTold'
    BY <1>2, <2>1, <2>2 DEF DueTasksAreTold, Forgotten
  <2>. QED
    BY <1>1, <2>5, <2>6, <2>7, <2>8
<1>7. CASE Quit \/ Dispatch
  <2>1. UNCHANGED <<asked, due>>
    BY <1>7 DEF Quit, Dispatch
  <2>2. AskedFirst'
    BY <1>2, <1>7, <2>1 DEF AskedFirst, InStopAll, Failing, Quit, Dispatch
  <2>3. Behind'
    BY <1>2, <1>3, <1>4, <2>1 DEF Behind
  <2>4. OnTheirWay'
    BY <1>2, <1>3, <1>4, <2>1 DEF OnTheirWay
  <2>5. DueTasksAreTold'
    BY <1>2, <2>1 DEF DueTasksAreTold, Forgotten
  <2>. QED
    BY <1>1, <2>2, <2>3, <2>4, <2>5
<1>. QED
  BY <1>5, <1>6, <1>7 DEF Exit, Close

LEMMA PromiseStep == ASSUME PromiseInv, [Next]_pluginVars PROVE PromiseInv'
<1>1. CASE MainStep
  BY <1>1, PromiseLoad, PromiseEnd, PromiseStop DEF MainStep, Threads
<1>2. CASE TrayStep
  BY <1>2, PromiseEnd, PromiseStop DEF TrayStep, Threads
<1>3. CASE TaskStep \/ StartThread
  BY <1>3, PromiseTasks
<1>4. CASE Exit \/ Close
  BY <1>4, PromiseEnd
<1>5. CASE UNCHANGED pluginVars
  <2>1. TypeInv'
    BY <1>5, TypeStep DEF PromiseInv
  <2>. QED
    BY <1>5, <2>1, PromiseQuiet DEF pluginVars, loadVars, taskVars, stopVars, endVars
<1>. QED
  BY <1>1, <1>2, <1>3, <1>4, <1>5 DEF Next

\* No plugin is forgotten before the tasks it had, when its start failed or the
\* end was first asked for, were told to stop: however Exit, closing, loading and
\* registering interleave (_load_plugin, stop_all, PluginAPI.stop).
THEOREM DueTasksAreToldAlways == Spec => []DueTasksAreTold
<1>1. Spec => []PromiseInv
  BY PromiseInit, PromiseStep, PTL DEF Spec
<1>2. PromiseInv => DueTasksAreTold
  BY DEF PromiseInv
<1>. QED
  BY <1>1, <1>2, PTL
=============================================================================
