------------------------------ MODULE HostsFile ------------------------------
(***************************************************************************)
(* The managed groups of the Windows hosts file: hosts_manager.py, and the *)
(* programs that call it, the window's "hosts" task (one at a time, by its *)
(* task key) and `lucid_cli hosts apply` from other processes.  Another    *)
(* program, or the user with an editor, may write the file at any moment.  *)
(*                                                                         *)
(* apply_group is a read, a backup, a pure edit of the text, a write of    *)
(* the shared temporary file and a rename.  A text is a sequence of lines; *)
(* blank lines and the case of a host name are layout and left out.        *)
(***************************************************************************)
EXTENDS Integers, Sequences

CONSTANTS
    Appliers,       \* threads and processes that call apply_group
    Groups,         \* names of managed groups
    Addresses,      \* what an entry maps its host to; Invalid ones are refused
    Invalid,        \* addresses ip_address() does not parse
    Requests,       \* the calls of apply_group that are made: see Jobs
    Texts,          \* what the file may hold at first, and what another
                    \* program may leave in it
    MaxEdits,       \* bound: how often another program writes
    Seconds,        \* bound: the seconds a backup can be named after
    Alone,          \* no two appliers are at work at once
    None            \* no such file, or no call under way

\* "raw" is a line with bytes that are not UTF-8; read, it is "replaced": the
\* same with U+FFFD in their place.
Readable == [kind : {"begin", "end"}, of : Groups]
                \cup [kind : {"entry"}, of : Addresses \ Invalid]
                \cup [kind : {"other", "replaced"}, of : STRING]

Line == Readable \cup [kind : {"raw"}, of : STRING]

Jobs == [group : Groups, entries : Seq(Addresses), enabled : BOOLEAN]

ASSUME HostsAssumption ==
    /\ Invalid \subseteq Addresses
    /\ Requests \subseteq Jobs
    /\ Texts \subseteq Seq(Line)
    /\ MaxEdits \in Nat
    /\ Seconds \subseteq Nat /\ Seconds # {}
    /\ Alone \in BOOLEAN

VARIABLES
    hosts,      \* text of the hosts file
    tmp,        \* text of hosts.tmp, or None
    writers,    \* appliers that have hosts.tmp open
    backups,    \* backups[s]: text of hosts.<s>.bak, or None
    second,     \* int(time.time())
    pc,         \* pc[a]: the next call of apply_group
    job,        \* job[a]: the arguments of apply_group
    current,    \* current[a]: its variable of that name, the text it read
    updated,    \* updated[a]: its variable of that name, the text to write
    edits,      \* how often another program wrote
    disturbed   \* appliers whose backup was made before the file last changed

vars == <<hosts, tmp, writers, backups, second, pc, job, current, updated,
          edits, disturbed>>

files == <<hosts, tmp, writers, backups>>
locals == <<job, current, updated>>

-----------------------------------------------------------------------------
(* The edit of the text                                                    *)

BeginOf(g) == [kind |-> "begin", of |-> g]
EndOf(g) == [kind |-> "end", of |-> g]

\* open(hosts_path, encoding="utf-8", errors="replace") and read.
DecodeLine(line) == IF line.kind = "raw" THEN [kind |-> "replaced", of |-> line.of] ELSE line

Decode(text) == [i \in DOMAIN text |-> DecodeLine(text[i])]

\* Mutant of RemoveLine: any END line ends the group.
RemoveToAnyEnd(g, s, line) ==
    IF line = BeginOf(g) THEN [s EXCEPT !.skipping = TRUE]
    ELSE IF line.kind = "end" THEN [s EXCEPT !.skipping = FALSE]
    ELSE IF s.skipping THEN s
    ELSE [s EXCEPT !.output = Append(@, line)]

\* One line of remove_managed_group, after which s.skipping says whether the
\* next line belongs to the group.
RemoveLine(g, s, line) ==
    IF line = BeginOf(g) THEN [s EXCEPT !.skipping = TRUE]
    ELSE IF s.skipping /\ line = EndOf(g) THEN [s EXCEPT !.skipping = FALSE]
    ELSE IF s.skipping THEN s
    ELSE [s EXCEPT !.output = Append(@, line)]

\* state[n] is what the loop has after n lines.
RemoveManagedGroup(text, g) ==
    LET state[n \in 0..Len(text)] ==
            IF n = 0 THEN [output |-> <<>>, skipping |-> FALSE]
            ELSE RemoveLine(g, state[n - 1], text[n])
    IN  state[Len(text)].output

RenderGroup(g, entries) ==
    <<BeginOf(g)>>
        \o [i \in DOMAIN entries |-> [kind |-> "entry", of |-> entries[i]]]
        \o <<EndOf(g)>>

ValidEntries(entries) ==
    entries # <<>> /\ \A i \in DOMAIN entries : entries[i] \notin Invalid

PreviewRaises(j) == j.enabled /\ ~ValidEntries(j.entries)

\* Mutant of PreviewApply: a group is removed only to disable it.
PreviewAppends(text, j) ==
    IF j.enabled THEN text \o RenderGroup(j.group, j.entries)
    ELSE RemoveManagedGroup(text, j.group)

PreviewApply(text, j) ==
    RemoveManagedGroup(text, j.group)
        \o (IF j.enabled THEN RenderGroup(j.group, j.entries) ELSE <<>>)

-----------------------------------------------------------------------------
Init ==
    /\ hosts \in Texts
    /\ tmp = None
    /\ writers = {}
    /\ backups = [s \in Seconds |-> None]
    /\ second \in Seconds
    /\ pc = [a \in Appliers |-> "idle"]
    /\ job = [a \in Appliers |-> None]
    /\ current = [a \in Appliers |-> None]
    /\ updated = [a \in Appliers |-> None]
    /\ edits = 0
    /\ disturbed = {}

Goto(a, label) == pc' = [pc EXCEPT ![a] = label]

PastBackup == {a \in Appliers : pc[a] \in {"preview", "open", "write", "replace"}}

\* apply_group ends: it returned, raised, or its process died.
Ends(a) ==
    /\ Goto(a, "idle")
    /\ job' = [job EXCEPT ![a] = None]
    /\ current' = [current EXCEPT ![a] = None]
    /\ updated' = [updated EXCEPT ![a] = None]
    /\ writers' = writers \ {a}
    /\ disturbed' = (IF hosts' = hosts THEN disturbed ELSE disturbed \cup PastBackup) \ {a}

\* The button, or the command line: entries and group are the caller's.
Call(a, j) ==
    /\ pc[a] = "idle"
    /\ Alone => \A b \in Appliers : pc[b] = "idle"
    /\ Goto(a, "read")
    /\ job' = [job EXCEPT ![a] = j]
    /\ UNCHANGED <<files, second, current, updated, edits, disturbed>>

Read(a) ==
    /\ pc[a] = "read"
    /\ current' = [current EXCEPT ![a] = Decode(hosts)]
    /\ Goto(a, "backup")
    /\ UNCHANGED <<files, second, job, updated, edits, disturbed>>

\* Mutant of Backup: the backup is made once, when there is none yet.
BackupOnce(a) ==
    /\ pc[a] = "backup"
    /\ backups' = [backups EXCEPT ![second] = IF @ = None THEN hosts ELSE @]
    /\ disturbed' = disturbed \ {a}
    /\ Goto(a, "preview")
    /\ UNCHANGED <<hosts, tmp, writers, second, locals, edits>>

\* backup_hosts_file copies the file as it is now; a second backup of the
\* same second replaces the first.
Backup(a) ==
    /\ pc[a] = "backup"
    /\ backups' = [backups EXCEPT ![second] = hosts]
    /\ disturbed' = disturbed \ {a}
    /\ Goto(a, "preview")
    /\ UNCHANGED <<hosts, tmp, writers, second, locals, edits>>

Preview(a) ==
    /\ pc[a] = "preview"
    /\ ~PreviewRaises(job[a])
    /\ updated' = [updated EXCEPT ![a] = PreviewApply(current[a], job[a])]
    /\ Goto(a, "open")
    /\ UNCHANGED <<files, second, job, current, edits, disturbed>>

\* preview_apply raises ValueError, after the backup was made.
Reject(a) ==
    /\ pc[a] = "preview"
    /\ PreviewRaises(job[a])
    /\ UNCHANGED <<hosts, tmp, backups, second, edits>>
    /\ Ends(a)

\* open(tmp_path, "w") truncates what is there.
Open(a) ==
    /\ pc[a] = "open"
    /\ tmp' = <<>>
    /\ writers' = writers \cup {a}
    /\ Goto(a, "write")
    /\ UNCHANGED <<hosts, backups, second, locals, edits, disturbed>>

\* Writing starts at the front of the file: what is there and longer stays.
Over(new, old) == new \o SubSeq(old, Len(new) + 1, Len(old))

\* Mutant of Write: the rename comes before the text is flushed.
WriteHalf(a) ==
    /\ pc[a] = "write"
    /\ \E n \in 0..Len(updated[a]) :
            tmp' = Over(SubSeq(updated[a], 1, n), tmp)
    /\ writers' = writers \ {a}
    /\ Goto(a, "replace")
    /\ UNCHANGED <<hosts, backups, second, locals, edits, disturbed>>

\* Mutant of Write: the file is not closed before the rename.
WriteKeepsOpen(a) ==
    /\ pc[a] = "write"
    /\ tmp' = Over(updated[a], tmp)
    /\ Goto(a, "replace")
    /\ UNCHANGED <<hosts, writers, backups, second, locals, edits, disturbed>>

\* write, flush, fsync and close.
Write(a) ==
    /\ pc[a] = "write"
    /\ tmp' = Over(updated[a], tmp)
    /\ writers' = writers \ {a}
    /\ Goto(a, "replace")
    /\ UNCHANGED <<hosts, backups, second, locals, edits, disturbed>>

\* os.replace succeeds when the file is there and nobody has it open.
Replace(a) ==
    /\ pc[a] = "replace"
    /\ tmp # None /\ writers = {}
    /\ hosts' = tmp
    /\ tmp' = None
    /\ Ends(a)
    /\ UNCHANGED <<backups, second, edits>>

\* A call raises OSError, or the process dies: what was done stays.  A write
\* that fails leaves a part of the text.
Fail(a) ==
    /\ pc[a] # "idle"
    /\ IF pc[a] = "write"
       THEN \E n \in 0..Len(updated[a]) :
                tmp' = Over(SubSeq(updated[a], 1, n), tmp)
       ELSE UNCHANGED tmp
    /\ UNCHANGED <<hosts, backups, second, edits>>
    /\ Ends(a)

\* Another program writes the file.
Edit ==
    /\ edits < MaxEdits
    /\ edits' = edits + 1
    /\ hosts' \in Texts \ {hosts}
    /\ disturbed' = disturbed \cup PastBackup
    /\ UNCHANGED <<tmp, writers, backups, second, pc, locals>>

Tick ==
    /\ second + 1 \in Seconds
    /\ second' = second + 1
    /\ UNCHANGED <<files, pc, locals, edits, disturbed>>

Next ==
    \/ \E a \in Appliers :
        \/ \E j \in Requests : Call(a, j)
        \/ Read(a) \/ Backup(a) \/ Preview(a) \/ Reject(a) \/ Open(a)
        \/ Write(a) \/ Replace(a) \/ Fail(a)
    \/ Edit
    \/ Tick

Spec == Init /\ [][Next]_vars

-----------------------------------------------------------------------------
(* Properties                                                              *)

\* Types; and only an applier about to write has the temporary file open.
TypeOK ==
    /\ hosts \in Seq(Line)
    /\ tmp \in Seq(Line) \cup {None}
    /\ writers = {a \in Appliers : pc[a] = "write"}
    /\ backups \in [Seconds -> Seq(Line) \cup {None}]
    /\ second \in Seconds
    /\ pc \in [Appliers -> {"idle", "read", "backup"} \cup
                            {"preview", "open", "write", "replace"}]
    /\ job \in [Appliers -> Jobs \cup {None}]
    /\ current \in [Appliers -> Seq(Line) \cup {None}]
    /\ updated \in [Appliers -> Seq(Line) \cup {None}]
    /\ edits \in 0..MaxEdits
    /\ disturbed \subseteq Appliers

\* a's rename has put its file in place.
Replaces(a) == pc[a] = "replace" /\ pc'[a] = "idle" /\ hosts' # hosts

\* hosts_manager.py:108-113, "atomic replacement": whatever fails or dies at
\* whatever moment, the file holds a text another program left there or the
\* whole text an applier rendered, never a part of one.
AtomicReplace ==
    [][hosts' # hosts =>
        \/ edits' # edits
        \/ \E a \in Appliers : Replaces(a) /\ hosts' = updated[a]]_vars

\* hosts_manager.py:93-106, "backup before write": the text an applier
\* replaces is in a backup, unless the file changed after the backup.
ReplacedIsBackedUp ==
    [][\A a \in Appliers \ disturbed :
        Replaces(a) => \E s \in Seconds : backups[s] = hosts]_vars

\* Line i of a text is in its group g, by definition: some BEGIN of g is not
\* after it, the END of that BEGIN not before it.
InGroup(t, g, i) ==
    \E b \in 1..i, e \in i..Len(t) :
        t[b] = BeginOf(g) /\ t[e] = EndOf(g) /\ \A k \in b..(e - 1) : t[k] # EndOf(g)

\* Every BEGIN of g has its END.
WellFormed(t, g) ==
    \A b \in DOMAIN t :
        t[b] = BeginOf(g) => \E e \in b..Len(t) : t[e] = EndOf(g)

\* The lines of a text at these indices, in their order.
LinesAt(t, indices) ==
    LET lines[n \in 0..Len(t)] ==
            IF n = 0 THEN <<>>
            ELSE IF n \in indices THEN Append(lines[n - 1], t[n])
            ELSE lines[n - 1]
    IN  lines[Len(t)]

Outside(t, g) == LinesAt(t, {i \in DOMAIN t : ~InGroup(t, g, i)})
Inside(t, g) == LinesAt(t, {i \in DOMAIN t : InGroup(t, g, i)})

\* hosts_manager.py:63-104: applying a group to a file that nobody else changed
\* meanwhile, and whose markers are in order, leaves all lines outside the
\* group as they were read, other groups included, and leaves in the group
\* exactly the entries asked for.  As they were read: a line in UTF-8 stays, the
\* bytes of another that are not UTF-8 are lost.
OnlyTheGroupChanges ==
    [][\A a \in Appliers :
        LET j == job[a]
            read == Decode(hosts)
        IN
        Replaces(a) /\ current[a] = read /\ WellFormed(read, j.group) =>
            /\ Outside(hosts', j.group) = Outside(read, j.group)
            /\ Inside(hosts', j.group) =
                    IF j.enabled THEN RenderGroup(j.group, j.entries) ELSE <<>>]_vars

\* Applying a group twice is applying it once, and disabling it afterwards is
\* disabling it: what any number of clicks adds can be undone by one.
GroupIsReversible ==
    \A j \in Requests :
        LET once == PreviewApply(Decode(hosts), j) IN
        /\ PreviewApply(Decode(once), j) = once
        /\ RemoveManagedGroup(Decode(once), j.group)
                = RemoveManagedGroup(Decode(hosts), j.group)
=============================================================================
