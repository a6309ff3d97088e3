------------------------------- MODULE DdnsSync -------------------------------
(***************************************************************************)
(* Dynamic DNS: the monitor thread polls the public address through the    *)
(* cache of core.get_public_ip and asks the provider for an update when it *)
(* is not the last one synced; the window's Force sync button does the     *)
(* same from a worker thread.  The provider records the address a request  *)
(* comes from.                                                             *)
(*                                                                         *)
(* The machine's public address follows Route; addresses seen, cached and  *)
(* recorded are positions on Route, 0 standing for none.                   *)
(***************************************************************************)
EXTENDS Naturals, Sequences

CONSTANTS
    Route,      \* the public addresses the machine gets, in order
    Offline,    \* member of Route: no connection
    Urls,       \* update URLs the user may save
    NoUrl,
    Acts,       \* what the user may do: see UserActs
    Faults,     \* subset of FaultKinds
    MaxFailures \* how many times a call fails or the process ends

\* "move_in_force": the address changes while a Force sync is under way.
FaultKinds == {"fetch", "provider", "cycle", "restart", "move_in_force"}

UserActs == {"force", "other", "url", "auto", "pause"}

Positions == 1..Len(Route)

ASSUME DdnsAssumption ==
    /\ Len(Route) \in Nat \ {0}
    /\ NoUrl \notin Urls
    /\ Acts \subseteq UserActs
    /\ Faults \subseteq FaultKinds
    /\ MaxFailures \in Nat

VARIABLES
    at,         \* where on Route the machine is
    record,     \* record[u]: the address the provider of u has
    url,        \* the update URL in the credential store
    auto,       \* settings.auto_update_ddns
    paused,     \* metered connection or battery saver
    cached,     \* _public_ip_cache: the address,
    fresh,      \*   it is at most 20 seconds old,
    backingOff, \*   next_retry lies ahead
    mpc,        \* where the monitor is in its cycle
    mauto,      \* auto in the configuration of this cycle
    mip,        \* the public address of this cycle
    murl,       \* the URL of this cycle's update
    mok,        \* the provider accepted it
    last,       \* _last_ddns_success_ip
    waiting,    \* _next_ddns_retry lies ahead
    published,  \* public_ip of the state the monitor published
    fpc,        \* the Force sync worker
    furl,       \* its URL
    fok,        \* the provider accepted its update
    failures

ddnsVars == <<at, record, url, auto, paused, cached, fresh, backingOff, mpc, mauto, mip,
              murl, mok, last, waiting, published, fpc, furl, fok, failures>>

worldVars == <<at, record, failures>>
userVars == <<url, auto, paused>>
cacheVars == <<cached, fresh, backingOff>>
cycleVars == <<mauto, mip, murl, mok>>
syncVars == <<last, waiting>>
forceVars == <<fpc, furl, fok>>

TypeOK ==
    /\ at \in Positions
    /\ record \in [Urls -> Positions \cup {0}]
    /\ url \in Urls \cup {NoUrl}
    /\ auto \in BOOLEAN /\ paused \in BOOLEAN
    /\ cached \in Positions \cup {0}
    /\ fresh \in BOOLEAN /\ backingOff \in BOOLEAN
    /\ mpc \in {"sleep", "fetch", "decide", "send", "mark", "publish"}
    /\ mauto \in BOOLEAN
    /\ mip \in Positions \cup {0}
    /\ murl \in Urls \cup {NoUrl}
    /\ mok \in BOOLEAN
    /\ last \in Positions \cup {0}
    /\ waiting \in BOOLEAN
    /\ published \in Positions \cup {0}
    /\ fpc \in {"idle", "send", "mark"}
    /\ furl \in Urls \cup {NoUrl}
    /\ fok \in BOOLEAN
    /\ failures \in 0..MaxFailures


Init ==
    /\ at = 1
    /\ record = [u \in Urls |-> 0]
    /\ url \in Urls \cup {NoUrl}
    /\ auto = (url # NoUrl)
    /\ paused = FALSE
    /\ cached = 0 /\ fresh = FALSE /\ backingOff = FALSE
    /\ mpc = "sleep" /\ mauto = FALSE /\ mip = 0 /\ murl = NoUrl /\ mok = FALSE
    /\ last = 0 /\ waiting = FALSE /\ published = 0
    /\ fpc = "idle" /\ furl = NoUrl /\ fok = FALSE
    /\ failures = 0

Online == Route[at] # Offline

\* Two positions with the same address look the same to the program.
Same(i, j) == i # 0 /\ j # 0 /\ Route[i] = Route[j]

\* Fault f strikes.
Strike(f) ==
    /\ f \in Faults
    /\ failures < MaxFailures
    /\ failures' = failures + 1

\* update_ddns(u), returning ok.  An answer may be lost after the update.
Update(u, ok) ==
    \/ /\ ok /\ Online
       /\ record' = [record EXCEPT ![u] = at]
       /\ UNCHANGED failures
    \/ /\ ~ok /\ ~Online
       /\ UNCHANGED <<record, failures>>
    \/ /\ ~ok /\ Online /\ Strike("provider")
       /\ record' \in {record, [record EXCEPT ![u] = at]}

-----------------------------------------------------------------------------
(* The monitor's cycle (_run)                                              *)

Wake ==
    /\ mpc = "sleep"
    /\ mpc' = "fetch"
    /\ mauto' = auto
    /\ UNCHANGED <<worldVars, userVars, cacheVars, mip, murl, mok, syncVars, published, forceVars>>

\* A fresh address, or during the backoff whatever the cache has.
CacheAnswers == (cached # 0 /\ fresh) \/ backingOff

\* get_public_ip answers from the cache.
FetchCached ==
    /\ mpc = "fetch"
    /\ CacheAnswers
    /\ mip' = cached
    /\ mpc' = "decide"
    /\ UNCHANGED <<worldVars, userVars, cacheVars, mauto, murl, mok, syncVars, published, forceVars>>

\* get_public_ip asks api.ipify.org.
FetchAddress ==
    /\ mpc = "fetch"
    /\ ~CacheAnswers
    /\ Online
    /\ mip' = at
    /\ cached' = at /\ fresh' = TRUE /\ UNCHANGED backingOff
    /\ mpc' = "decide"
    /\ UNCHANGED <<worldVars, userVars, mauto, murl, mok, syncVars, published, forceVars>>

FetchFails ==
    /\ mpc = "fetch"
    /\ ~CacheAnswers
    /\ (~Online /\ UNCHANGED failures) \/ Strike("fetch")
    /\ mip' = 0
    /\ backingOff' = TRUE /\ UNCHANGED <<cached, fresh>>
    /\ mpc' = "decide"
    /\ UNCHANGED <<at, record, userVars, mauto, murl, mok, syncVars, published, forceVars>>

\* The early returns of _maybe_update_ddns.
NothingToSync == paused \/ ~mauto \/ mip = 0 \/ Same(mip, last) \/ waiting

Skip ==
    /\ mpc = "decide"
    /\ NothingToSync
    /\ mpc' = "publish"
    /\ UNCHANGED <<worldVars, userVars, cacheVars, cycleVars, syncVars, published, forceVars>>

\* No valid URL: tried again after the backoff.
SkipWithoutUrl ==
    /\ mpc = "decide"
    /\ ~NothingToSync
    /\ url = NoUrl
    /\ waiting' = TRUE
    /\ mpc' = "publish"
    /\ UNCHANGED <<worldVars, userVars, cacheVars, cycleVars, last, published, forceVars>>

Decide ==
    /\ mpc = "decide"
    /\ ~NothingToSync
    /\ url # NoUrl
    /\ murl' = url
    /\ mpc' = "send"
    /\ UNCHANGED <<worldVars, userVars, cacheVars, mauto, mip, mok, syncVars, published, forceVars>>

Send ==
    /\ mpc = "send"
    /\ \E ok \in BOOLEAN : Update(murl, ok) /\ mok' = ok
    /\ mpc' = "mark"
    /\ UNCHANGED <<at, userVars, cacheVars, mauto, mip, murl, syncVars, published, forceVars>>

\* Mutant of Mark: the address is marked before the answer is looked at.
MarkAlways == last' = mip /\ waiting' = ~mok

\* Mutant of Mark: the URL is passed for the address.
MarkUrl == IF mok THEN last' = murl /\ waiting' = FALSE
                  ELSE waiting' = TRUE /\ UNCHANGED last

\* _mark_ddns_success or _schedule_ddns_retry.
Mark == IF mok THEN last' = mip /\ waiting' = FALSE
               ELSE waiting' = TRUE /\ UNCHANGED last

Settle ==
    /\ mpc = "mark"
    /\ Mark
    /\ mpc' = "publish"
    /\ murl' = NoUrl /\ mok' = FALSE
    /\ UNCHANGED <<worldVars, userVars, cacheVars, mauto, mip, published, forceVars>>

\* What a cycle knew is gone with it.
CycleOver ==
    /\ mpc' = "sleep"
    /\ mauto' = FALSE /\ mip' = 0 /\ murl' = NoUrl /\ mok' = FALSE

Publish ==
    /\ mpc = "publish"
    /\ published' = mip
    /\ CycleOver
    /\ UNCHANGED <<worldVars, userVars, cacheVars, syncVars, forceVars>>

\* An exception ends the cycle before it publishes.
CycleFails ==
    /\ mpc \in {"decide", "mark"}
    /\ Strike("cycle")
    /\ CycleOver
    /\ UNCHANGED <<at, record, userVars, cacheVars, syncVars, published, forceVars>>

-----------------------------------------------------------------------------
(* The user and the clock                                                  *)

ForceOver == fpc' = "idle" /\ furl' = NoUrl /\ fok' = FALSE

\* force_update_ddns: one task with the key "ddns" at a time.
ForceSync ==
    /\ "force" \in Acts
    /\ fpc = "idle" /\ url # NoUrl
    /\ fpc' = "send"
    /\ furl' = url
    /\ UNCHANGED <<worldVars, userVars, cacheVars, mpc, cycleVars, syncVars, published, fok>>

ForceSend ==
    /\ fpc = "send"
    /\ \E ok \in BOOLEAN : Update(furl, ok) /\ fok' = ok
    /\ fpc' = "mark"
    /\ UNCHANGED <<at, userVars, cacheVars, mpc, cycleVars, syncVars, published, furl>>

\* force_ddns_sync marks the address last published, not the one it sent from.
ForceMark ==
    /\ fpc = "mark"
    /\ IF fok /\ published # 0
       THEN last' = published /\ waiting' = FALSE
       ELSE UNCHANGED syncVars
    /\ ForceOver
    /\ UNCHANGED <<worldVars, userVars, cacheVars, mpc, cycleVars, published>>

\* The dual-stack button and the command line: the monitor learns nothing.
OtherSync ==
    /\ "other" \in Acts
    /\ \E u \in Urls : Update(u, TRUE)
    /\ UNCHANGED <<at, userVars, cacheVars, mpc, cycleVars, syncVars, published, forceVars>>

\* save_ddns_url: clearing the URL turns Auto-DDNS off.
SaveUrl ==
    /\ "url" \in Acts
    /\ \E u \in Urls \cup {NoUrl} : url' = u
    /\ auto' = (auto /\ url' # NoUrl)
    /\ UNCHANGED <<worldVars, paused, cacheVars, mpc, cycleVars, syncVars, published, forceVars>>

\* save_settings: Auto-DDNS needs a URL.
SaveAuto ==
    /\ "auto" \in Acts
    /\ auto' = (~auto /\ url # NoUrl)
    /\ UNCHANGED <<worldVars, url, paused, cacheVars, mpc, cycleVars, syncVars, published, forceVars>>

\* background_work_policy and power_efficiency_policy.
Pause ==
    /\ "pause" \in Acts
    /\ paused' = ~paused
    /\ UNCHANGED <<worldVars, url, auto, cacheVars, mpc, cycleVars, syncVars, published, forceVars>>

\* The public address changes.
Move ==
    /\ at < Len(Route)
    /\ fpc = "idle" \/ "move_in_force" \in Faults
    /\ at' = at + 1
    /\ UNCHANGED <<record, failures, userVars, cacheVars, mpc, cycleVars, syncVars, published, forceVars>>

CacheExpires ==
    /\ fresh /\ fresh' = FALSE
    /\ UNCHANGED <<worldVars, userVars, cached, backingOff, mpc, cycleVars, syncVars, published, forceVars>>

BackoffEnds ==
    /\ backingOff /\ backingOff' = FALSE
    /\ UNCHANGED <<worldVars, userVars, cached, fresh, mpc, cycleVars, syncVars, published, forceVars>>

RetryDue ==
    /\ waiting /\ waiting' = FALSE
    /\ UNCHANGED <<worldVars, userVars, cacheVars, mpc, cycleVars, last, published, forceVars>>

\* The process ends and starts again: none of this was persisted.
Restart ==
    /\ Strike("restart")
    /\ cached' = 0 /\ fresh' = FALSE /\ backingOff' = FALSE
    /\ last' = 0 /\ waiting' = FALSE /\ published' = 0
    /\ CycleOver /\ ForceOver
    /\ UNCHANGED <<at, record, userVars>>

-----------------------------------------------------------------------------
MonitorStep ==
    \/ Wake \/ FetchCached \/ FetchAddress \/ FetchFails
    \/ Skip \/ SkipWithoutUrl \/ Decide \/ Send \/ Settle \/ Publish

UserStep == ForceSync \/ OtherSync \/ SaveUrl \/ SaveAuto \/ Pause

ForceStep == ForceSend \/ ForceMark

Timers == CacheExpires \/ BackoffEnds \/ RetryDue

Next == MonitorStep \/ CycleFails \/ UserStep \/ ForceStep \/ Timers \/ Move \/ Restart

Spec == Init /\ [][Next]_ddnsVars

\* The monitor thread runs and deadlines pass.
FairSpec ==
    /\ Spec
    /\ WF_ddnsVars(MonitorStep)
    /\ WF_ddnsVars(CacheExpires)
    /\ WF_ddnsVars(BackoffEnds)
    /\ WF_ddnsVars(RetryDue)

-----------------------------------------------------------------------------
\* An address marked as synced was accepted by a provider, or a later one was
\* (_last_ddns_success_ip).
SyncedNotBehind == last # 0 => \E u \in Urls : last <= record[u]

\* An update to another URL than u is under way.
ElsewhereUnderWay(u) ==
    (mpc \in {"send", "mark"} /\ murl # u) \/ (fpc # "idle" /\ furl # u)

\* The monitor has an address to tell, and u is the URL to tell it to.
ToTell(u) == url = u /\ ~Same(last, at) /\ ~ElsewhereUnderWay(u)

\* While the URL is u, Auto-DDNS is on, nothing pauses it and the connection is
\* up, an address not yet marked as synced comes to be held by the provider of
\* u: backoffs, the cache, lost answers and Force sync together do not leave it
\* unsent (_maybe_update_ddns).  Only the address is compared with the mark: a
\* URL saved when the address is marked already, or while an update to the old
\* URL is under way, is told nothing until the address changes.
EventuallySynced ==
    \A u \in Urls :
        ToTell(u) /\ [](url = u /\ auto /\ ~paused /\ Online)
            ~> Same(record[u], at)
=============================================================================
