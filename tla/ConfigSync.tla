------------------------------ MODULE ConfigSync ------------------------------
(***************************************************************************)
(* The three copies of the user's configuration: config.json, the          *)
(* monitor's MonitorService.config and the window's LucidNetGUI.config.    *)
(* The window edits its copy, saves it and hands it to the monitor; the    *)
(* monitor reloads the file when its modification time changed; every few  *)
(* seconds the window replaces its copy by the monitor's.                  *)
(*                                                                         *)
(* A configuration is the set of edits it contains.  Sections under        *)
(* core.config_lock() or the monitor's state lock are single steps: they   *)
(* nest in one order only (config lock, then state lock).                  *)
(***************************************************************************)
EXTENDS Naturals, FiniteSets

CONSTANTS
    Edits,      \* saves the user may make in the window, each one edit
    External,   \* edits the user may make in the file with another program
    Missing,    \* no config.json
    Garbage,    \* config.json is not JSON, or of a later version
    None,       \* load_config returned None
    Faults,     \* what may go wrong: see FaultKinds
    MaxCrashes

\* "start" and "reload": load_config fails then, though the file is good.
\* "edit_before_update": another program writes the file between the two
\* halves of a save, save_config and update_config.  "policy": a machine policy
\* changes something, which ends main() (ManagedConfig).
FaultKinds == {"start", "reload", "save", "copy", "edit_before_update", "policy"}

AllEdits == Edits \cup External

Configs == SUBSET AllEdits

ASSUME ConfigAssumption ==
    /\ Missing # Garbage
    /\ \A c \in Configs : c \notin {Missing, Garbage, None}
    /\ Faults \subseteq FaultKinds
    /\ MaxCrashes \in Nat

VARIABLES
    disk,       \* config.json
    backups,    \* contents moved or copied aside
    current,    \* the monitor's config_mtime is that of config.json
    running,    \* the process is up
    crashes,
    gui,        \* LucidNetGUI.config
    gpc,        \* the Tk thread: between clicks or inside a save
    gedit,      \* the edit being saved
    gcfg,       \* the copy a save writes
    tried,      \* edits made so far: each is made at most once
    acked,      \* edits reported as saved ("Success")
    mon,        \* MonitorService.config
    mpc,        \* the monitor thread inside _reload_config_if_changed
    mcap,       \* the modification time it took is that of config.json
    mcfg        \* what load_config gave it

vars == <<disk, backups, current, running, crashes,
          gui, gpc, gedit, gcfg, tried, acked, mon, mpc, mcap, mcfg>>

fileVars == <<disk, backups, current>>
guiVars == <<gui, gpc, gedit, gcfg, tried, acked>>
monVars == <<mon, mpc, mcap, mcfg>>

TypeOK ==
    /\ disk \in {Missing, Garbage} \cup Configs
    /\ backups \subseteq {Garbage} \cup Configs
    /\ current \in BOOLEAN
    /\ running \in BOOLEAN
    /\ crashes \in 0..MaxCrashes
    /\ gui \in Configs
    /\ gpc \in {"idle", "replace", "update"}
    /\ gedit \in Edits \cup {None}
    /\ gcfg \in Configs
    /\ tried \subseteq Edits
    /\ acked \subseteq Edits
    /\ mon \in Configs
    /\ mpc \in {"sleep", "load", "adopt", "record"}
    /\ mcap \in BOOLEAN
    /\ mcfg \in {None} \cup Configs

\* DEFAULT_CONFIG holds none of the user's edits.
Default == {}

Init ==
    /\ disk \in {Missing, Default}
    /\ backups = {}
    /\ current = FALSE
    /\ running = FALSE
    /\ crashes = 0
    /\ gui = Default
    /\ gpc = "idle"
    /\ gedit = None
    /\ gcfg = Default
    /\ tried = {}
    /\ acked = {}
    /\ mon = Default
    /\ mpc = "sleep"
    /\ mcap = FALSE
    /\ mcfg = None

-----------------------------------------------------------------------------
(* Files                                                                   *)

Readable == disk \notin {Missing, Garbage}

\* Mutant of KeepCopy: the file is given up without a copy.
NoCopy == UNCHANGED backups

\* The content of the file also exists under another name from now on.
KeepCopy == backups' = backups \cup {disk}

\* load_config, giving result cfg.  A file that does not parse is moved to a
\* .bak name; a file that cannot be opened, or not be moved, stays.
LoadConfig(cfg) ==
    \/ disk = Missing /\ cfg = None /\ UNCHANGED fileVars
    \/ disk = Garbage /\ cfg = None /\ KeepCopy /\ disk' = Missing /\ current' = FALSE
    \/ disk = Garbage /\ cfg = None /\ "copy" \in Faults /\ UNCHANGED fileVars
    \/ Readable /\ cfg = disk /\ UNCHANGED fileVars
    \/ disk # Missing /\ cfg = None /\ "reload" \in Faults /\ UNCHANGED fileVars

\* The last step of save_config, after the temporary file was written: every
\* content gets a modification time of its own.
ReplaceFile(cfg) == disk' = cfg /\ current' = FALSE /\ mcap' = FALSE

-----------------------------------------------------------------------------
(* The process                                                             *)

\* main() as far as the configuration goes: the window and the monitor start
\* from one configuration.  Where a policy changes it, log_event raises before
\* there is a monitor or a window.
Up(cfg) ==
    /\ \/ running' = TRUE /\ gui' = cfg /\ mon' = cfg
       \/ "policy" \in Faults /\ UNCHANGED <<running, gui, mon>>
    /\ UNCHANGED <<crashes, gpc, gedit, gcfg, tried, acked, mpc, mcfg>>

\* _ensure_config, the file loads.
StartFromFile ==
    /\ ~running
    /\ Readable
    /\ Up(disk)
    /\ mcap' = FALSE
    /\ UNCHANGED fileVars

\* _ensure_config, no file.
StartFresh ==
    /\ ~running
    /\ disk = Missing
    /\ Up(Default)
    /\ ReplaceFile(Default)
    /\ UNCHANGED backups

\* _ensure_config, load_config returned None: it moved the file aside, or the
\* copy to .invalid keeps it, or that fails too; then the defaults are written
\* over whatever is there.
StartOver ==
    /\ ~running
    /\ disk = Garbage \/ (Readable /\ "start" \in Faults)
    /\ KeepCopy \/ ("copy" \in Faults /\ UNCHANGED backups)
    /\ Up(Default)
    /\ ReplaceFile(Default)

\* Power loss, kill, or a normal exit: what is in memory is gone.
Crash ==
    /\ running
    /\ crashes < MaxCrashes
    /\ crashes' = crashes + 1
    /\ running' = FALSE
    /\ gpc' = "idle"
    /\ mpc' = "sleep"
    /\ current' = FALSE
    /\ UNCHANGED <<disk, backups, gui, gedit, gcfg, tried, acked, mon, mcap, mcfg>>

\* Another program rewrites the file: with one more edit, or spoiling it.
EditFile ==
    /\ \/ \E e \in External : Readable /\ e \notin disk /\ disk' = disk \cup {e}
       \/ External # {} /\ Readable /\ disk' = Garbage
    /\ gpc = "update" => "edit_before_update" \in Faults
    /\ current' = FALSE
    /\ mcap' = FALSE
    /\ UNCHANGED <<backups, running, crashes, guiVars, mon, mpc, mcfg>>

-----------------------------------------------------------------------------
(* The window (Tk thread)                                                  *)

\* A save_* or delete_* handler, under the config lock: edit and copy.
Edit(e) ==
    /\ running /\ gpc = "idle"
    /\ e \notin tried
    /\ tried' = tried \cup {e}
    /\ gedit' = e
    /\ gui' = gui \cup {e}
    /\ gcfg' = gui'
    /\ gpc' = "replace"
    /\ UNCHANGED <<fileVars, running, crashes, acked, monVars>>

SaveSucceeds ==
    /\ gpc = "replace"
    /\ ReplaceFile(gcfg)
    /\ gpc' = "update"
    /\ UNCHANGED <<backups, running, crashes, gui, gedit, gcfg, tried, acked, mon, mpc, mcfg>>

\* Five PermissionErrors: the toast shows the error, the edit stays in memory.
SaveFails ==
    /\ gpc = "replace"
    /\ "save" \in Faults
    /\ gpc' = "idle"
    /\ UNCHANGED <<fileVars, running, crashes, gui, gedit, gcfg, tried, acked, monVars>>

\* monitor.update_config and the success toast; the handlers that change the
\* profile lists also refresh the menus, which is Sync.
UpdateMonitor ==
    /\ gpc = "update"
    /\ mon' = gcfg
    /\ acked' = acked \cup {gedit}
    /\ gpc' = "idle"
    /\ UNCHANGED <<fileVars, running, crashes, gui, gedit, gcfg, tried, mpc, mcap, mcfg>>

\* _sync_profile_menus, every three seconds and at the end of some saves.
Sync ==
    /\ running /\ gpc = "idle"
    /\ gui' = mon
    /\ UNCHANGED <<fileVars, running, crashes, gpc, gedit, gcfg, tried, acked, monVars>>

-----------------------------------------------------------------------------
(* The monitor thread: _reload_config_if_changed                           *)

\* A modification time other than the recorded one, and a file.
ReloadNeeded == disk # Missing /\ ~current

Stat ==
    /\ running /\ mpc = "sleep"
    /\ IF ReloadNeeded
       THEN mpc' = "load" /\ mcap' = TRUE
       ELSE mpc' = "record" /\ mcap' = (disk # Missing)
    /\ UNCHANGED <<fileVars, running, crashes, guiVars, mon, mcfg>>

\* Mutant of Adopts: whatever load_config returned is taken.
AdoptsAnything(cfg) == TRUE

\* Only a dict replaces the configuration.
Adopts(cfg) == cfg # None

Load ==
    /\ mpc = "load"
    /\ \E cfg \in Configs \cup {None} : LoadConfig(cfg) /\ mcfg' = cfg
    /\ mpc' = IF Adopts(mcfg') THEN "adopt" ELSE "record"
    /\ mcap' = (mcap /\ disk' = disk)
    /\ UNCHANGED <<running, crashes, guiVars, mon>>

Adopt ==
    /\ mpc = "adopt"
    /\ mon' = mcfg
    /\ current' = mcap
    /\ mpc' = "record"
    /\ UNCHANGED <<disk, backups, running, crashes, guiVars, mcap, mcfg>>

\* Mutant of RecordTime: the time is taken again after the load.
RecordTimeNow == current' = (disk # Missing)

RecordTime == current' = mcap

\* The last section records the time taken, whether or not the load succeeded.
Record ==
    /\ mpc = "record"
    /\ RecordTime
    /\ mpc' = "sleep"
    /\ UNCHANGED <<disk, backups, running, crashes, guiVars, mon, mcap, mcfg>>

-----------------------------------------------------------------------------
MonitorStep == Stat \/ Load \/ Adopt \/ Record

GuiStep == SaveSucceeds \/ SaveFails \/ UpdateMonitor

Start == StartFromFile \/ StartFresh \/ StartOver

Next ==
    \/ Start \/ Crash \/ EditFile
    \/ \E e \in Edits : Edit(e)
    \/ GuiStep \/ Sync
    \/ MonitorStep

Spec == Init /\ [][Next]_vars

\* The threads run and the Tk timer fires.
Fairness == WF_vars(MonitorStep) /\ WF_vars(GuiStep) /\ WF_vars(Sync)

FairSpec == Spec /\ Fairness

-----------------------------------------------------------------------------
\* Between polls and saves, a monitor whose configuration is not the file's
\* has a reload ahead (update_config, _reload_config_if_changed).
ReloadIsDue ==
    running /\ gpc = "idle" /\ mpc = "sleep" /\ Readable /\ mon # disk
        => ~current

\* Once edits stop, window, monitor and file come to hold one configuration.
Converges == <>[](running /\ Readable => gui = mon /\ mon = disk)

\* An edit the window reported as saved stays in the file (save_*, update_config,
\* _sync_profile_menus).
SavedEditsStay == Readable => acked \subseteq disk

\* A start and a reload destroy nothing: a file that could not be read is kept
\* aside before the defaults replace it, or is what was kept (_ensure_config,
\* load_config).
NothingDestroyed ==
    [][(Start \/ Load) /\ disk # Missing /\ disk' # disk => disk \in backups']_vars
=============================================================================
