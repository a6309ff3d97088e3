----------------------------- MODULE ConfigProofs -----------------------------
(***************************************************************************)
(* Proofs about ConfigSync for every set of edits and any number of        *)
(* crashes and restarts.                                                   *)
(***************************************************************************)
EXTENDS ConfigSync, TLAPS

LEMMA DefaultIsConfig == Default \in Configs
  BY DEF Default, Configs

LEMMA ConfigIsReadable ==
    ASSUME NEW c \in Configs PROVE c # Missing /\ c # Garbage /\ c # None
  BY ConfigAssumption

LEMMA ConfigsJoin ==
    ASSUME NEW c \in Configs, NEW d \in SUBSET AllEdits PROVE c \cup d \in Configs
  BY DEF Configs

-----------------------------------------------------------------------------
(* Types                                                                   *)

\* The copies keep their types; adopt is only reached with a configuration,
\* and a save always has an edit.
TypeInv ==
    /\ TypeOK
    /\ mpc = "adopt" => mcfg \in Configs
    /\ gpc # "idle" => gedit \in Edits

LEMMA TypeInvInit == Init => TypeInv
<1>. SUFFICES ASSUME Init PROVE TypeInv
  OBVIOUS
<1>1. 0 \in 0..MaxCrashes
  BY ConfigAssumption
<1>2. crashes \in 0..MaxCrashes
  BY <1>1 DEF Init
<1>. QED
  BY <1>2, DefaultIsConfig DEF Init, TypeInv, TypeOK

LEMMA TypeStart == ASSUME TypeInv, Start PROVE TypeInv'
<1>. USE DEF TypeInv, TypeOK, Up
<1>1. CASE StartFromFile
  BY <1>1 DEF StartFromFile, fileVars, Readable
<1>2. CASE StartFresh
  BY <1>2, DefaultIsConfig DEF StartFresh, ReplaceFile
<1>3. CASE StartOver
  BY <1>3, DefaultIsConfig DEF StartOver, ReplaceFile, KeepCopy, Readable
<1>. QED
  BY <1>1, <1>2, <1>3 DEF Start

LEMMA TypeOutside == ASSUME TypeInv, Crash \/ EditFile PROVE TypeInv'
<1>. USE DEF TypeInv, TypeOK
<1>1. CASE Crash
  <2>1. crashes' \in 0..MaxCrashes
    BY <1>1, ConfigAssumption DEF Crash
  <2>. QED
    BY <1>1, <2>1 DEF Crash
<1>2. CASE EditFile
  <2>1. \A e \in External : {e} \in SUBSET AllEdits
    BY DEF AllEdits
  <2>2. disk' \in {Missing, Garbage} \cup Configs
    BY <1>2, <2>1, ConfigsJoin DEF EditFile, Readable
  <2>. QED
    BY <1>2, <2>2 DEF EditFile, guiVars
<1>. QED
  BY <1>1, <1>2

LEMMA TypeWindow ==
    ASSUME TypeInv, (\E e \in Edits : Edit(e)) \/ GuiStep \/ Sync PROVE TypeInv'
<1>. USE DEF TypeInv, TypeOK
<1>1. CASE \E e \in Edits : Edit(e)
  <2>1. PICK e \in Edits : Edit(e)
    BY <1>1
  <2>2. {e} \in SUBSET AllEdits
    BY DEF AllEdits
  <2>3. gui' \in Configs
    BY <2>1, <2>2, ConfigsJoin DEF Edit
  <2>. QED
    BY <2>1, <2>3 DEF Edit, fileVars, monVars
<1>2. CASE SaveSucceeds
  BY <1>2 DEF SaveSucceeds, ReplaceFile
<1>3. CASE SaveFails
  BY <1>3 DEF SaveFails, fileVars, monVars
<1>4. CASE UpdateMonitor
  BY <1>4 DEF UpdateMonitor, fileVars
<1>5. CASE Sync
  BY <1>5 DEF Sync, fileVars, monVars
<1>. QED
  BY <1>1, <1>2, <1>3, <1>4, <1>5 DEF GuiStep

LEMMA TypeMonitor == ASSUME TypeInv, MonitorStep PROVE TypeInv'
<1>. USE DEF TypeInv, TypeOK
<1>1. CASE Stat
  BY <1>1 DEF Stat, fileVars, guiVars
<1>2. CASE Load
  <2>1. PICK cfg \in Configs \cup {None} : LoadConfig(cfg) /\ mcfg' = cfg
    BY <1>2 DEF Load
  <2>2. /\ disk' \in {Missing, Garbage} \cup Configs
        /\ backups' \subseteq {Garbage} \cup Configs
        /\ current' \in BOOLEAN
    BY <2>1 DEF LoadConfig, KeepCopy, fileVars
  <2>3. mpc' \in {"load", "adopt", "record"} /\ (mpc' = "adopt" => mcfg' \in Configs)
    BY <1>2, <2>1 DEF Load, Adopts
  <2>. QED
    BY <1>2, <2>1, <2>2, <2>3 DEF Load, guiVars
<1>3. CASE Adopt
  BY <1>3 DEF Adopt, guiVars
<1>4. CASE Record
  BY <1>4 DEF Record, RecordTime, guiVars
<1>. QED
  BY <1>1, <1>2, <1>3, <1>4 DEF MonitorStep

LEMMA TypeInvNext == TypeInv /\ [Next]_vars => TypeInv'
<1>. SUFFICES ASSUME TypeInv, [Next]_vars PROVE TypeInv'
  OBVIOUS
<1>1. CASE UNCHANGED vars
  BY <1>1 DEF vars, TypeInv, TypeOK
<1>. QED
  BY <1>1, TypeStart, TypeOutside, TypeWindow, TypeMonitor DEF Next

\* For any edits and faults, the three copies are configurations: no half
\* written file, failed load or crash puts anything else in one of them
\* (isinstance checks of _reload_config_if_changed and _sync_profile_menus).
THEOREM TypesAlways == Spec => []TypeOK
<1>1. TypeInv => TypeOK
  BY DEF TypeInv
<1>. QED
  BY <1>1, TypeInvInit, TypeInvNext, PTL DEF Spec

-----------------------------------------------------------------------------
(* No stale copy goes unnoticed                                            *)

\* A reload reads every good file, and no program writes config.json between
\* the two halves of a save.
SoundReloads == {"reload", "edit_before_update"} \cap Faults = {}

\* What a modification time vouches for: the monitor holds the file, or is
\* about to be handed it by the window, or the file is not worth having.
Vouched == mon = disk \/ gpc = "update" \/ disk = Garbage

\* A recorded or captured modification time that is the file's vouches for what
\* the monitor holds or has loaded.
SyncInv ==
    /\ gpc = "update" => disk = gcfg
    /\ ~running => gpc = "idle" /\ mpc = "sleep" /\ ~current
    /\ current \/ mcap => disk # Missing
    /\ current => Vouched
    /\ mpc = "adopt" /\ mcap => mcfg = disk
    /\ mpc = "record" /\ mcap => Vouched

LEMMA SyncInvInit == Init => SyncInv
  BY DefaultIsConfig, ConfigIsReadable, ConfigAssumption DEF Init, SyncInv

LEMMA SyncStart == ASSUME TypeInv, SyncInv, Start PROVE SyncInv'
<1>. USE DEF SyncInv, Vouched, Up
<1>1. CASE StartFromFile
  BY <1>1 DEF StartFromFile, fileVars, Readable
<1>2. CASE StartFresh
  BY <1>2, DefaultIsConfig, ConfigIsReadable DEF StartFresh, ReplaceFile
<1>3. CASE StartOver
  BY <1>3, DefaultIsConfig, ConfigIsReadable DEF StartOver, ReplaceFile
<1>. QED
  BY <1>1, <1>2, <1>3 DEF Start

LEMMA SyncOutside ==
    ASSUME SoundReloads, TypeInv, SyncInv, Crash \/ EditFile PROVE SyncInv'
<1>1. CASE Crash
  BY <1>1 DEF SyncInv, Crash
<1>2. CASE EditFile
  <2>1. gpc # "update" /\ UNCHANGED <<running, gpc, gcfg, mpc, mcfg>>
    BY <1>2 DEF SoundReloads, EditFile, guiVars
  <2>2. current' = FALSE /\ mcap' = FALSE
    BY <1>2 DEF EditFile
  <2>. QED
    BY <2>1, <2>2 DEF SyncInv
<1>. QED
  BY <1>1, <1>2

LEMMA SyncWindow ==
    ASSUME TypeInv, SyncInv, (\E e \in Edits : Edit(e)) \/ GuiStep \/ Sync
    PROVE  SyncInv'
<1>. USE DEF SyncInv, Vouched
<1>1. CASE \E e \in Edits : Edit(e)
  BY <1>1 DEF Edit, fileVars, monVars
<1>2. CASE SaveSucceeds
  BY <1>2, ConfigIsReadable DEF SaveSucceeds, ReplaceFile, TypeInv, TypeOK
<1>3. CASE SaveFails
  BY <1>3 DEF SaveFails, fileVars, monVars
<1>4. CASE UpdateMonitor
  BY <1>4 DEF UpdateMonitor, fileVars
<1>5. CASE Sync
  BY <1>5 DEF Sync, fileVars, monVars
<1>. QED
  BY <1>1, <1>2, <1>3, <1>4, <1>5 DEF GuiStep

\* A reload that gives nothing met garbage, which it may move aside, or no file.
NothingLoaded(cfg) ==
    /\ disk \in {Missing, Garbage}
    /\ cfg = None
    /\ \/ disk' = Missing /\ current' = FALSE
       \/ UNCHANGED <<disk, current>>

\* Any other reload gives the file.
LEMMA SoundLoad ==
    ASSUME SoundReloads, NEW cfg, LoadConfig(cfg)
    PROVE  NothingLoaded(cfg) \/ (cfg = disk /\ UNCHANGED <<disk, current>>)
  BY DEF SoundReloads, LoadConfig, NothingLoaded, fileVars, Readable

LEMMA SyncMonitor ==
    ASSUME SoundReloads, TypeInv, SyncInv, MonitorStep PROVE SyncInv'
<1>. USE DEF SyncInv
<1>1. CASE Stat
  BY <1>1 DEF Stat, ReloadNeeded, Vouched, fileVars, guiVars
<1>2. CASE Load
  <2>1. PICK cfg \in Configs \cup {None} : LoadConfig(cfg) /\ mcfg' = cfg
    BY <1>2 DEF Load
  <2>2. running /\ UNCHANGED <<running, gpc, gcfg, mon>>
    BY <1>2 DEF Load, guiVars
  <2>3. mcap' = (mcap /\ disk' = disk)
    BY <1>2 DEF Load
  <2>4. gpc = "update" => disk \notin {Missing, Garbage}
    BY ConfigIsReadable DEF TypeInv, TypeOK
  <2>5. CASE NothingLoaded(cfg)
    <3>1. mpc' = "record"
      BY <1>2, <2>1, <2>5 DEF Load, Adopts, NothingLoaded
    <3>2. mcap' => mcap /\ disk = Garbage /\ disk' = Garbage
      BY <2>3, <2>5, ConfigAssumption DEF NothingLoaded
    <3>. QED
      BY <2>2, <2>4, <2>5, <3>1, <3>2, ConfigAssumption DEF NothingLoaded, Vouched
  <2>6. CASE cfg = disk /\ UNCHANGED <<disk, current>>
    <3>1. CASE cfg # None
      <4>1. mpc' = "adopt" /\ mcfg' = disk
        BY <1>2, <2>1, <2>6, <3>1 DEF Load, Adopts
      <4>. QED
        BY <2>2, <2>3, <2>6, <4>1 DEF Vouched
    <3>2. CASE cfg = None
      <4>1. mpc' = "record"
        BY <1>2, <2>1, <3>2 DEF Load, Adopts
      <4>2. disk = Missing \/ disk = Garbage
        BY <2>6, <3>2, ConfigIsReadable DEF TypeInv, TypeOK
      <4>. QED
        BY <2>2, <2>3, <2>4, <2>6, <4>1, <4>2 DEF Vouched
    <3>. QED
      BY <3>1, <3>2
  <2>. QED
    BY <2>1, <2>5, <2>6, SoundLoad
<1>3. CASE Adopt
  BY <1>3 DEF Adopt, Vouched, guiVars
<1>4. CASE Record
  BY <1>4 DEF Record, RecordTime, Vouched, guiVars
<1>. QED
  BY <1>1, <1>2, <1>3, <1>4 DEF MonitorStep

LEMMA SyncInvNext ==
    SoundReloads /\ TypeInv /\ SyncInv /\ [Next]_vars => SyncInv'
<1>. SUFFICES ASSUME SoundReloads, TypeInv, SyncInv, [Next]_vars PROVE SyncInv'
  OBVIOUS
<1>1. CASE UNCHANGED vars
  BY <1>1 DEF vars, SyncInv, Vouched
<1>. QED
  BY <1>1, SyncStart, SyncOutside, SyncWindow, SyncMonitor DEF Next

\* While reloads succeed and nobody writes inside a save, no interleaving of
\* saves, edits from outside, reloads, crashes and restarts leaves the monitor
\* holding another configuration than the file's without a reload ahead
\* (update_config against _reload_config_if_changed).
THEOREM ReloadIsDueAlways ==
    ASSUME SoundReloads PROVE Spec => []ReloadIsDue
<1>1. SyncInv => ReloadIsDue
  BY DEF SyncInv, Vouched, ReloadIsDue, Readable
<1>2. TypeInv /\ SyncInv /\ [Next]_vars => SyncInv'
  BY SyncInvNext
<1>. QED
  BY <1>1, <1>2, SyncInvInit, TypeInvInit, TypeInvNext, PTL DEF Spec

-----------------------------------------------------------------------------
(* Nothing is destroyed                                                    *)

\* As long as a file can be moved or copied aside, whatever else fails, a start
\* or a reload that changes config.json leaves its content under another name
\* (_ensure_config, load_config).
THEOREM NothingDestroyedAlways ==
    ASSUME "copy" \notin Faults PROVE Spec => NothingDestroyed
<1>1. ASSUME Start, disk # Missing, disk' # disk PROVE disk \in backups'
  <2>1. ~StartFromFile /\ ~StartFresh
    BY <1>1 DEF StartFromFile, StartFresh, fileVars
  <2>. QED
    BY <1>1, <2>1 DEF Start, StartOver, KeepCopy
<1>2. ASSUME Load, disk # Missing, disk' # disk PROVE disk \in backups'
  BY <1>2 DEF Load, LoadConfig, KeepCopy, fileVars
<1>3. [(Start \/ Load) /\ disk # Missing /\ disk' # disk => disk \in backups']_vars
  BY <1>1, <1>2
<1>. QED
  BY <1>3, PTL DEF NothingDestroyed
=============================================================================
