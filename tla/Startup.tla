------------------------------- MODULE Startup -------------------------------
(***************************************************************************)
(* Launching Lucid Net: main() from its first line to its last, for every  *)
(* process of one Windows session.  A launch takes the single-instance     *)
(* mutex, asks for elevation if it has no administrator rights (the        *)
(* elevated program is a new process, and this one ends), loads the        *)
(* configuration and runs.                                                 *)
(*                                                                         *)
(* The mutex is a kernel object that exists while a handle to it does.     *)
(* CreateMutexW gives a handle even to a process it tells that the object  *)
(* exists; that process keeps it while its message is on the screen.       *)
(***************************************************************************)
EXTENDS Naturals, FiniteSets

CONSTANT
    Processes   \* process slots; a slot is used again when its process ended

VARIABLES
    pc,         \* pc[p]: where main() of p stands, "off" when there is no p
    admin,      \* admin[p]: p has administrator rights
    handles,    \* processes with a handle to the mutex
    creator,    \* the mutex was created by a process with administrator rights
    parent,     \* parent[p]: the process whose ShellExecuteW started p, until
                \* that one ends or p has looked for the mutex; else p
    env         \* what the environment is like; it does not change:
                \*   care:  the user and the shell are as in TakesCare
                \*   sound: CreateMutexW does not fail
                \*   flaw:  what main() will trip over, see Flaws

vars == <<pc, admin, handles, creator, parent, env>>

Messages == {"already", "refused", "failed"}  \* a message box is shown

\* Each ends main() with an exception nobody catches: config.json is not UTF-8
\* (load_config), a machine policy changes something (log_event), the event
\* store, the tray icon or the window cannot be made.
Flaws == {"none", "encoding", "policy", "parts"}

Alive == {p \in Processes : pc[p] \in {"config", "running", "closing"}}
Off == {p \in Processes : pc[p] = "off"}

\* Types; and a process that ended has left no handle behind.
TypeOK ==
    /\ pc \in [Processes -> {"off", "acquire", "admin", "uac", "release",
                             "config", "running", "closing"} \cup Messages]
    /\ admin \in [Processes -> BOOLEAN]
    /\ handles \in SUBSET (Processes \ Off)
    /\ creator \in BOOLEAN
    /\ parent \in [Processes -> Processes]
    /\ env \in [care : BOOLEAN, sound : BOOLEAN, flaw : Flaws]

Init ==
    /\ pc = [p \in Processes |-> "off"]
    /\ admin = [p \in Processes |-> FALSE]
    /\ handles = {}
    /\ creator = FALSE
    /\ parent = [p \in Processes |-> p]
    /\ env \in [care : BOOLEAN, sound : BOOLEAN, flaw : Flaws]

Goto(p, label) == pc' = [pc EXCEPT ![p] = label]

-----------------------------------------------------------------------------
(* The user and the shell                                                  *)

\* An environment that takes care: no launch while another one is not
\* settled, and an elevated process begins after the one it replaces ended.
TakesCare(p) ==
    env.care => \A q \in Processes \ {p} : pc[q] \in {"off", "running", "closing"}

Begin(p, rights, by) ==
    /\ admin' = [admin EXCEPT ![p] = rights]
    /\ parent' = [parent EXCEPT ![p] = by]

\* A slot is left for the elevated process.
Launch(p) ==
    /\ pc[p] = "off"
    /\ Cardinality(Off) > 1
    /\ TakesCare(p)
    /\ Goto(p, "acquire")
    /\ \E rights \in BOOLEAN : Begin(p, rights, p)
    /\ UNCHANGED <<handles, creator, env>>

-----------------------------------------------------------------------------
(* _acquire_single_instance                                                *)

Created(p) ==
    /\ handles = {}
    /\ handles' = {p}
    /\ creator' = admin[p]
    /\ Goto(p, "admin")

\* Mutant of Existing: GetLastError is not looked at.
ExistingGoesOn(p) ==
    /\ handles # {}
    /\ handles' = handles \cup {p}
    /\ UNCHANGED creator
    /\ Goto(p, "admin")

\* ERROR_ALREADY_EXISTS: the message, then main() returns.
Existing(p) ==
    /\ handles # {}
    /\ handles' = handles \cup {p}
    /\ UNCHANGED creator
    /\ Goto(p, "already")

\* No handle, which the program takes for permission to go on: the call
\* failed, or a mutex made by an elevated process is denied to this one.
NoHandle(p) ==
    /\ \/ ~env.sound
       \/ handles # {} /\ creator /\ ~admin[p]
    /\ UNCHANGED <<handles, creator>>
    /\ Goto(p, "admin")

Acquire(p) ==
    /\ pc[p] = "acquire"
    /\ env.care => parent[p] = p
    /\ Created(p) \/ Existing(p) \/ NoHandle(p)
    /\ parent' = [parent EXCEPT ![p] = p]
    /\ UNCHANGED <<admin, env>>

-----------------------------------------------------------------------------
(* _request_admin_or_exit                                                  *)

CheckAdmin(p) ==
    /\ pc[p] = "admin"
    /\ Goto(p, IF admin[p] THEN "config" ELSE "uac")
    /\ UNCHANGED <<admin, handles, creator, parent, env>>

\* The user agrees: the elevated process exists before ShellExecuteW returns.
Consent(p) ==
    /\ pc[p] = "uac"
    /\ \E q \in Off :
        /\ pc' = [pc EXCEPT ![p] = "release", ![q] = "acquire"]
        /\ Begin(q, TRUE, p)
    /\ UNCHANGED <<handles, creator, env>>

\* Mutant of Refuse: a refused elevation ends without a message.
RefuseSilently(p) ==
    /\ pc[p] = "uac"
    /\ Goto(p, "release")
    /\ UNCHANGED <<admin, handles, creator, parent, env>>

\* rc <= 32: the message is shown with the mutex still held.
Refuse(p) ==
    /\ pc[p] = "uac"
    /\ Goto(p, "refused")
    /\ UNCHANGED <<admin, handles, creator, parent, env>>

-----------------------------------------------------------------------------
(* The rest of main()                                                      *)

\* _ensure_config, whose own steps are those of ConfigSync, and the parts of the
\* program: it runs, or a message says that no configuration could be written.
Configure(p) ==
    /\ pc[p] = "config"
    /\ \/ env.flaw = "none" /\ Goto(p, "running")
       \/ env.flaw # "encoding" /\ Goto(p, "failed")
    /\ UNCHANGED <<admin, handles, creator, parent, env>>

\* The main loop ends; the finally block has begun.
Exit(p) ==
    /\ pc[p] = "running"
    /\ Goto(p, "closing")
    /\ UNCHANGED <<admin, handles, creator, parent, env>>

\* Mutant of End: the handle is not closed.
EndKeepsHandle(p) ==
    /\ Goto(p, "off")
    /\ admin' = [admin EXCEPT ![p] = FALSE]
    /\ parent' = [q \in Processes |-> IF parent[q] = p THEN q ELSE parent[q]]
    /\ UNCHANGED <<handles, creator, env>>

\* The process ends, and with it its handle.
End(p) ==
    /\ Goto(p, "off")
    /\ handles' = handles \ {p}
    /\ creator' = (creator /\ handles # {p})
    /\ admin' = [admin EXCEPT ![p] = FALSE]
    /\ parent' = [q \in Processes |-> IF parent[q] = p THEN q ELSE parent[q]]
    /\ UNCHANGED env

\* _release_single_instance, then main() returns.
Release(p) == pc[p] \in {"release", "closing"} /\ End(p)

\* The user closes the message box; main() returns.
Dismiss(p) == pc[p] \in Messages /\ End(p)

\* main() ends with an exception, and without a message.  The one for a policy:
\* Logger.log raises TypeError for the level "info" of _apply_machine_policy.
Uncaught(p) == pc[p] = "config" /\ env.flaw # "none" /\ End(p)

\* A running program is killed, or the session ends.
Crash(p) == pc[p] = "running" /\ End(p)

-----------------------------------------------------------------------------
Runs(p) ==
    \/ Acquire(p) \/ CheckAdmin(p) \/ Consent(p) \/ Refuse(p)
    \/ Configure(p) \/ Uncaught(p) \/ Release(p) \/ Dismiss(p)

Next == \E p \in Processes : Launch(p) \/ Runs(p) \/ Exit(p) \/ Crash(p)

Spec == Init /\ [][Next]_vars

\* Code runs on, prompts are answered and messages closed.  Nobody need
\* launch or end the program.
FairSpec == Spec /\ \A p \in Processes : WF_vars(Runs(p))

-----------------------------------------------------------------------------
(* Properties                                                              *)

\* The single-instance guard of main.py:186: at most one process is past the
\* checks of main() and not yet ended, whatever is launched, elevated, refused
\* or killed in whatever order, while CreateMutexW does not fail.  A process
\* without administrator rights may get past the mutex (NoHandle), but its
\* elevated successor does not.
AtMostOne ==
    env.sound => \A p, q \in Alive : p = q

\* main.py:246-259: a launch by a user who takes care ends with the program
\* really running, or with a message that says what went wrong.  "Already
\* running" alone does not count.  Left out are the launches that end with
\* nothing running and no word of what is wrong: those Uncaught ends, a machine
\* policy among them, and the one that finds the last program still closing,
\* which is told "already running".
LaunchIsAnswered ==
    \A p \in Processes :
        (/\ env.care /\ env.flaw = "none"
         /\ pc[p] = "acquire"
         /\ \A q \in Processes : pc[q] # "closing")
            ~> \E q \in Processes : pc[q] \in {"running", "refused", "failed"}
=============================================================================
