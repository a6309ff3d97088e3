---------------------------- MODULE StartupProofs ----------------------------
(***************************************************************************)
(* Proofs about Startup for every set of processes.                        *)
(***************************************************************************)
EXTENDS Startup, TLAPS

\* A process beyond _acquire_single_instance that may go on.
Past(p) == pc[p] \notin {"off", "acquire", "already"}

\* Who goes on without a handle has no administrator rights, and ends at the
\* check of main(); who goes on with one is alone with it.
GuardInv ==
    /\ \A p \in Processes :
        /\ pc[p] \in {"off", "acquire"} => p \notin handles
        /\ p \in Alive => admin[p]
        /\ env.sound /\ Past(p) /\ admin[p] => p \in handles
    /\ \A p, q \in handles : Past(p) /\ Past(q) => p = q

StartInv == TypeOK /\ GuardInv

-----------------------------------------------------------------------------
LEMMA InitStarts == Init => StartInv
<1> SUFFICES ASSUME Init
             PROVE  StartInv
  OBVIOUS
<1>1. TypeOK
  BY DEF Init, TypeOK, Off
<1>2. GuardInv
  <2>1. Alive = {}
    BY DEF Init, Alive
  <2> QED
    BY <2>1 DEF Init, GuardInv, Past
<1> QED
  BY <1>1, <1>2 DEF StartInv

\* Launch: a slot that is off begins, with no handle.
LEMMA LaunchKeeps ==
    ASSUME StartInv, NEW p \in Processes, Launch(p)
    PROVE  StartInv'
<1>1. TypeOK'
  BY DEF StartInv, TypeOK, Launch, Goto, Begin, Off, Messages
<1>2. GuardInv'
  BY DEF StartInv, TypeOK, GuardInv, Launch, Goto, Begin, Off, Alive, Past
<1> QED
  BY <1>1, <1>2 DEF StartInv

\* _acquire_single_instance: a handle and permission together are given only
\* when nobody has a handle.
LEMMA AcquireKeeps ==
    ASSUME StartInv, NEW p \in Processes, Acquire(p)
    PROVE  StartInv'
<1>1. CASE Created(p)
  <2>1. TypeOK'
    BY <1>1 DEF StartInv, TypeOK, Acquire, Created, Goto, Off, Messages
  <2>2. GuardInv'
    BY <1>1 DEF StartInv, TypeOK, GuardInv, Acquire, Created, Goto, Alive, Past
  <2> QED
    BY <2>1, <2>2 DEF StartInv
<1>2. CASE Existing(p)
  <2>1. TypeOK'
    BY <1>2 DEF StartInv, TypeOK, Acquire, Existing, Goto, Off, Messages
  <2>2. GuardInv'
    BY <1>2 DEF StartInv, TypeOK, GuardInv, Acquire, Existing, Goto, Alive, Past
  <2> QED
    BY <2>1, <2>2 DEF StartInv
<1>3. CASE NoHandle(p)
  <2>1. TypeOK'
    BY <1>3 DEF StartInv, TypeOK, Acquire, NoHandle, Goto, Off, Messages
  <2>2. GuardInv'
    BY <1>3 DEF StartInv, TypeOK, GuardInv, Acquire, NoHandle, Goto, Alive, Past
  <2> QED
    BY <2>1, <2>2 DEF StartInv
<1> QED
  BY <1>1, <1>2, <1>3 DEF Acquire

\* The check for administrator rights.
LEMMA CheckAdminKeeps ==
    ASSUME StartInv, NEW p \in Processes, CheckAdmin(p)
    PROVE  StartInv'
<1>1. TypeOK'
  BY DEF StartInv, TypeOK, CheckAdmin, Goto, Off, Messages
<1>2. GuardInv'
  BY DEF StartInv, TypeOK, GuardInv, CheckAdmin, Goto, Alive, Past
<1> QED
  BY <1>1, <1>2 DEF StartInv

\* The elevated process has to take the mutex itself.
LEMMA ConsentKeeps ==
    ASSUME StartInv, NEW p \in Processes, Consent(p)
    PROVE  StartInv'
<1>1. PICK q \in Off :
        /\ pc' = [pc EXCEPT ![p] = "release", ![q] = "acquire"]
        /\ Begin(q, TRUE, p)
  BY DEF Consent
<1>2. q \in Processes /\ q # p /\ pc[p] = "uac" /\ pc[q] = "off"
  BY DEF Consent, Off
<1>3. TypeOK'
  BY <1>1, <1>2 DEF StartInv, TypeOK, Consent, Begin, Off, Messages
<1>4. GuardInv'
  BY <1>1, <1>2 DEF StartInv, TypeOK, GuardInv, Consent, Begin, Alive, Past
<1> QED
  BY <1>3, <1>4 DEF StartInv

\* Going on within main() without touching handles or rights.
LEMMA OnwardKeeps ==
    ASSUME StartInv, NEW p \in Processes, Refuse(p) \/ Configure(p) \/ Exit(p)
    PROVE  StartInv'
<1>1. TypeOK'
  BY DEF StartInv, TypeOK, Refuse, Configure, Exit, Goto, Off, Messages
<1>2. GuardInv'
  BY DEF StartInv, TypeOK, GuardInv, Refuse, Configure, Exit, Goto, Alive, Past
<1> QED
  BY <1>1, <1>2 DEF StartInv

\* A process ends with its handle.
LEMMA EndKeeps ==
    ASSUME StartInv, NEW p \in Processes, End(p)
    PROVE  StartInv'
<1>1. TypeOK'
  BY DEF StartInv, TypeOK, End, Goto, Off, Messages
<1>2. GuardInv'
  BY DEF StartInv, TypeOK, GuardInv, End, Goto, Alive, Past
<1> QED
  BY <1>1, <1>2 DEF StartInv

LEMMA StartInvAlways == Spec => []StartInv
<1>1. StartInv /\ [Next]_vars => StartInv'
  <2>1. CASE UNCHANGED vars
    BY <2>1 DEF vars, StartInv, TypeOK, GuardInv, Alive, Past, Off
  <2>2. ASSUME StartInv, NEW p \in Processes, Runs(p) PROVE StartInv'
    BY <2>2, AcquireKeeps, CheckAdminKeeps, ConsentKeeps, OnwardKeeps, EndKeeps
       DEF Runs, Uncaught, Release, Dismiss
  <2>3. ASSUME StartInv, NEW p \in Processes, Launch(p) \/ Exit(p) \/ Crash(p) PROVE StartInv'
    BY <2>3, LaunchKeeps, OnwardKeeps, EndKeeps DEF Crash
  <2> QED
    BY <2>1, <2>2, <2>3 DEF Next
<1> QED
  BY <1>1, InitStarts, PTL DEF Spec

\* TypeOK of Startup: a process that ended has no handle (main.py:302-306).
THEOREM TypesAlways == Spec => []TypeOK
<1>1. StartInv => TypeOK
  BY DEF StartInv
<1> QED
  BY <1>1, StartInvAlways, PTL

\* AtMostOne: the single-instance guard of main.py:186, through every order of
\* launches, elevations, refusals and crashes of any number of processes.
THEOREM AtMostOneAlways == Spec => []AtMostOne
<1>1. StartInv => AtMostOne
  BY DEF StartInv, GuardInv, AtMostOne, Alive, Past
<1> QED
  BY <1>1, StartInvAlways, PTL
=============================================================================
