------------------------------ MODULE DdnsProofs ------------------------------
(***************************************************************************)
(* Proofs about DdnsSync for every route of addresses, every set of update *)
(* URLs and any number of failures.                                        *)
(***************************************************************************)
EXTENDS DdnsSync, TLAPS

\* Positions never run ahead of the machine; an accepted update of the monitor
\* has left an address at least as late as the one it will mark; an accepted
\* Force sync has left the machine's address, later than any published.
DdnsInv ==
    /\ at \in Nat /\ record \in [Urls -> Nat] /\ mip \in Nat /\ cached \in Nat
    /\ mok \in BOOLEAN /\ last \in Nat /\ published \in Nat /\ fok \in BOOLEAN
    /\ url \in Urls \cup {NoUrl}
    /\ mip <= at /\ cached <= at /\ published <= at
    /\ \A u \in Urls : record[u] <= at
    /\ mpc \in {"send", "mark"} => murl \in Urls
    /\ mpc = "mark" /\ mok => mip <= record[murl]
    /\ fpc # "idle" => furl \in Urls
    /\ fpc = "mark" /\ fok => record[furl] = at
    /\ SyncedNotBehind

\* A step that leaves the provider and the marks alone keeps what they say.
LEMMA SameRecords ==
    ASSUME DdnsInv, UNCHANGED <<record, last>> PROVE SyncedNotBehind'
  BY DEF DdnsInv, SyncedNotBehind

\* update_ddns only moves a record forward, and up to the machine when it
\* reports success.
LEMMA UpdateMovesForward ==
    ASSUME DdnsInv, NEW u \in Urls, NEW ok \in BOOLEAN, Update(u, ok)
    PROVE  /\ record' \in [Urls -> Nat]
           /\ \A v \in Urls : record[v] <= record'[v] /\ record'[v] <= at
           /\ ok => record'[u] = at
<1>. USE DEF DdnsInv
<1>1. record' \in {record, [record EXCEPT ![u] = at]}
  BY DEF Update
<1>2. ok => record' = [record EXCEPT ![u] = at]
  BY DEF Update
<1>. QED
  BY <1>1, <1>2

\* Marks stay backed when records only move forward.
LEMMA ForwardKeepsMarks ==
    ASSUME DdnsInv, UNCHANGED last, record' \in [Urls -> Nat],
           \A v \in Urls : record[v] <= record'[v]
    PROVE  SyncedNotBehind'
<1>. SUFFICES ASSUME last # 0 PROVE \E v \in Urls : last <= record'[v]
  BY DEF SyncedNotBehind
<1>1. PICK v \in Urls : last <= record[v]
  BY DEF DdnsInv, SyncedNotBehind
<1>. QED
  BY <1>1 DEF DdnsInv

LEMMA DdnsInvInit == Init => DdnsInv
<1>. SUFFICES ASSUME Init PROVE DdnsInv
  OBVIOUS
<1>1. at = 1 /\ mip = 0 /\ cached = 0 /\ last = 0 /\ published = 0
  BY DEF Init
<1>2. record \in [Urls -> Nat] /\ \A u \in Urls : record[u] <= at
  BY <1>1 DEF Init
<1>3. SyncedNotBehind
  BY <1>1 DEF SyncedNotBehind
<1>4. /\ mpc = "sleep" /\ mok \in BOOLEAN /\ url \in Urls \cup {NoUrl}
        /\ fpc = "idle" /\ fok \in BOOLEAN
  BY DEF Init
<1>. QED
  BY <1>1, <1>2, <1>3, <1>4 DEF DdnsInv

\* What a cycle or a Force sync leaves behind.
LEMMA CycleOverTypes ==
    ASSUME CycleOver
    PROVE  /\ mpc' = "sleep" /\ mauto' \in BOOLEAN /\ mip' \in Positions \cup {0}
           /\ murl' \in Urls \cup {NoUrl} /\ mok' \in BOOLEAN
  BY Zenon DEF CycleOver

LEMMA ForceOverTypes ==
    ASSUME ForceOver
    PROVE  fpc' = "idle" /\ furl' \in Urls \cup {NoUrl} /\ fok' \in BOOLEAN
  BY Zenon DEF ForceOver

LEMMA DdnsMonitor == ASSUME DdnsInv, MonitorStep \/ CycleFails PROVE DdnsInv'
<1>. USE DEF DdnsInv, worldVars, userVars, forceVars, cacheVars, cycleVars, syncVars
<1>1. CASE Wake
  BY <1>1, SameRecords DEF Wake
<1>2. CASE FetchCached
  BY <1>2, SameRecords DEF FetchCached
<1>3. CASE FetchAddress
  BY <1>3, SameRecords DEF FetchAddress
<1>4. CASE FetchFails
  BY <1>4, SameRecords DEF FetchFails
<1>5. CASE Skip
  BY <1>5, SameRecords DEF Skip
<1>6. CASE SkipWithoutUrl
  BY <1>6, SameRecords DEF SkipWithoutUrl
<1>7. CASE Decide
  BY <1>7, SameRecords DEF Decide
<1>8. CASE Send
  <2>1. PICK ok \in BOOLEAN : Update(murl, ok) /\ mok' = ok
    BY <1>8 DEF Send
  <2>2. murl \in Urls
    BY <1>8 DEF Send
  <2>3. /\ record' \in [Urls -> Nat]
        /\ \A v \in Urls : record[v] <= record'[v] /\ record'[v] <= at
        /\ ok => record'[murl] = at
    BY <2>1, <2>2, UpdateMovesForward
  <2>4. SyncedNotBehind'
    BY <1>8, <2>3, ForwardKeepsMarks DEF Send
  <2>. QED
    BY <1>8, <2>1, <2>2, <2>3, <2>4 DEF Send
<1>9. CASE Settle
  <2>1. SyncedNotBehind'
    BY <1>9 DEF Settle, Mark, SyncedNotBehind
  <2>. QED
    BY <1>9, <2>1 DEF Settle, Mark
<1>10. CASE Publish
  <2>1. SyncedNotBehind'
    BY <1>10, SameRecords DEF Publish
  <2>2. /\ mpc' = "sleep" /\ mip' = 0 /\ mok' \in BOOLEAN /\ published' = mip
        /\ UNCHANGED <<at, record, url, cached, last, forceVars>>
    BY <1>10, CycleOverTypes DEF Publish, CycleOver
  <2>. QED
    BY <2>1, <2>2
<1>11. CASE CycleFails
  <2>1. SyncedNotBehind'
    BY <1>11, SameRecords DEF CycleFails
  <2>2. /\ mpc' = "sleep" /\ mip' = 0 /\ mok' \in BOOLEAN /\ published' = published
        /\ UNCHANGED <<at, record, url, cached, last, forceVars>>
    BY <1>11, CycleOverTypes DEF CycleFails, CycleOver, Strike
  <2>. QED
    BY <2>1, <2>2
<1>. QED
  BY <1>1, <1>2, <1>3, <1>4, <1>5, <1>6, <1>7, <1>8, <1>9, <1>10, <1>11 DEF MonitorStep

LEMMA DdnsUser == ASSUME DdnsInv, UserStep PROVE DdnsInv'
<1>. USE DEF DdnsInv, worldVars, userVars, forceVars, cacheVars, cycleVars, syncVars
<1>1. CASE ForceSync
  BY <1>1, SameRecords DEF ForceSync
<1>2. CASE OtherSync
  <2>1. PICK u \in Urls : Update(u, TRUE)
    BY <1>2 DEF OtherSync
  <2>2. /\ record' \in [Urls -> Nat]
        /\ \A v \in Urls : record[v] <= record'[v] /\ record'[v] <= at
    BY <2>1, UpdateMovesForward
  <2>3. SyncedNotBehind'
    BY <1>2, <2>2, ForwardKeepsMarks DEF OtherSync
  <2>. QED
    BY <1>2, <2>2, <2>3 DEF OtherSync
<1>3. CASE SaveUrl
  BY <1>3, SameRecords DEF SaveUrl
<1>4. CASE SaveAuto
  BY <1>4, SameRecords DEF SaveAuto
<1>5. CASE Pause
  BY <1>5, SameRecords DEF Pause
<1>. QED
  BY <1>1, <1>2, <1>3, <1>4, <1>5 DEF UserStep

LEMMA DdnsForce == ASSUME DdnsInv, ForceStep PROVE DdnsInv'
<1>. USE DEF DdnsInv, worldVars, userVars, forceVars, cacheVars, cycleVars, syncVars
<1>1. CASE ForceSend
  <2>1. PICK ok \in BOOLEAN : Update(furl, ok) /\ fok' = ok
    BY <1>1 DEF ForceSend
  <2>2. furl \in Urls
    BY <1>1 DEF ForceSend
  <2>3. /\ record' \in [Urls -> Nat]
        /\ \A v \in Urls : record[v] <= record'[v] /\ record'[v] <= at
        /\ ok => record'[furl] = at
    BY <2>1, <2>2, UpdateMovesForward
  <2>4. SyncedNotBehind'
    BY <1>1, <2>3, ForwardKeepsMarks DEF ForceSend
  <2>. QED
    BY <1>1, <2>1, <2>2, <2>3, <2>4 DEF ForceSend
<1>2. CASE ForceMark
  <2>1. SyncedNotBehind'
    BY <1>2 DEF ForceMark, SyncedNotBehind
  <2>. QED
    BY <1>2, <2>1 DEF ForceMark, ForceOver
<1>. QED
  BY <1>1, <1>2 DEF ForceStep

\* The address stays the same while a Force sync is under way.
StillForce == "move_in_force" \notin Faults

LEMMA DdnsOutside ==
    ASSUME StillForce, DdnsInv, Timers \/ Move \/ Restart PROVE DdnsInv'
<1>. USE DEF DdnsInv, worldVars, userVars, forceVars, cacheVars, cycleVars, syncVars
<1>1. CASE CacheExpires
  BY <1>1, SameRecords DEF CacheExpires
<1>2. CASE BackoffEnds
  BY <1>2, SameRecords DEF BackoffEnds
<1>3. CASE RetryDue
  BY <1>3, SameRecords DEF RetryDue
<1>4. CASE Move
  BY <1>4, SameRecords DEF StillForce, Move
<1>5. CASE Restart
  <2>1. SyncedNotBehind'
    BY <1>5 DEF Restart, SyncedNotBehind
  <2>2. /\ mpc' = "sleep" /\ mip' = 0 /\ mok' \in BOOLEAN
        /\ fpc' = "idle" /\ fok' \in BOOLEAN
        /\ cached' = 0 /\ last' = 0 /\ published' = 0
        /\ UNCHANGED <<at, record, url>>
    BY <1>5, CycleOverTypes, ForceOverTypes DEF Restart, CycleOver, ForceOver
  <2>. QED
    BY <2>1, <2>2
<1>. QED
  BY <1>1, <1>2, <1>3, <1>4, <1>5 DEF Timers

LEMMA DdnsInvNext == StillForce /\ DdnsInv /\ [Next]_ddnsVars => DdnsInv'
<1>. SUFFICES ASSUME StillForce, DdnsInv, [Next]_ddnsVars PROVE DdnsInv'
  OBVIOUS
<1>1. CASE UNCHANGED ddnsVars
  BY <1>1, SameRecords DEF ddnsVars, DdnsInv
<1>. QED
  BY <1>1, DdnsMonitor, DdnsUser, DdnsForce, DdnsOutside DEF Next

\* While the address does not change under a Force sync, no address is marked
\* as synced before a provider accepted it or a later one: not with stale
\* cached addresses, lost answers, retries, restarts, Force sync against the
\* monitor, or updates made behind its back (_maybe_update_ddns,
\* force_ddns_sync, _mark_ddns_success).
THEOREM SyncedNotBehindAlways ==
    ASSUME StillForce PROVE Spec => []SyncedNotBehind
<1>1. DdnsInv => SyncedNotBehind
  BY DEF DdnsInv
<1>2. DdnsInv /\ [Next]_ddnsVars => DdnsInv'
  BY DdnsInvNext
<1>. QED
  BY <1>1, <1>2, DdnsInvInit, PTL DEF Spec

-----------------------------------------------------------------------------
\* update_ddns records the machine's address, if any.
LEMMA UpdateTypes ==
    ASSUME TypeOK, NEW u, NEW ok \in BOOLEAN, Update(u, ok)
    PROVE  record' \in [Urls -> Positions \cup {0}] /\ failures' \in 0..MaxFailures
<1>1. record' \in {record, [record EXCEPT ![u] = at]}
  BY DEF Update
<1>2. failures' \in 0..MaxFailures
  BY DdnsAssumption DEF TypeOK, Update, Strike
<1>. QED
  BY <1>1, <1>2 DEF TypeOK

LEMMA TypesMonitor == ASSUME TypeOK, MonitorStep \/ CycleFails PROVE TypeOK'
<1>. USE DEF TypeOK, worldVars, userVars, forceVars, cacheVars, cycleVars, syncVars
<1>1. CASE Wake
  BY <1>1 DEF Wake
<1>2. CASE FetchCached
  BY <1>2 DEF FetchCached
<1>3. CASE FetchAddress
  BY <1>3 DEF FetchAddress
<1>4. CASE FetchFails
  <2>1. failures' \in 0..MaxFailures
    BY <1>4, DdnsAssumption DEF FetchFails, Strike
  <2>. QED
    BY <1>4, <2>1 DEF FetchFails
<1>5. CASE Skip
  BY <1>5 DEF Skip
<1>6. CASE SkipWithoutUrl
  BY <1>6 DEF SkipWithoutUrl
<1>7. CASE Decide
  <2>1. /\ murl' = url /\ mpc' = "send"
        /\ UNCHANGED <<worldVars, userVars, cacheVars, mauto, mip, mok, syncVars, published, forceVars>>
    BY <1>7 DEF Decide
  <2>. QED
    BY <2>1
<1>8. CASE Send
  <2>1. PICK ok \in BOOLEAN : Update(murl, ok) /\ mok' = ok
    BY <1>8 DEF Send
  <2>. QED
    BY <1>8, <2>1, UpdateTypes DEF Send
<1>9. CASE Settle
  <2>1. last' \in Positions \cup {0}
    BY <1>9 DEF Settle, Mark
  <2>2. waiting' \in BOOLEAN
    BY <1>9, Zenon DEF Settle, Mark
  <2>3. murl' \in Urls \cup {NoUrl} /\ mok' \in BOOLEAN
    BY <1>9, Zenon DEF Settle
  <2>4. /\ mpc' = "publish"
        /\ UNCHANGED <<worldVars, userVars, cacheVars, mauto, mip, published, forceVars>>
    BY <1>9 DEF Settle
  <2>. QED
    BY <2>1, <2>2, <2>3, <2>4
<1>10. CASE Publish
  BY <1>10, CycleOverTypes DEF Publish
<1>11. CASE CycleFails
  <2>1. failures' \in 0..MaxFailures
    BY <1>11, DdnsAssumption DEF CycleFails, Strike
  <2>. QED
    BY <1>11, <2>1, CycleOverTypes DEF CycleFails
<1>. QED
  BY <1>1, <1>2, <1>3, <1>4, <1>5, <1>6, <1>7, <1>8, <1>9, <1>10, <1>11 DEF MonitorStep

LEMMA TypesUser == ASSUME TypeOK, UserStep \/ ForceStep PROVE TypeOK'
<1>. USE DEF TypeOK, worldVars, userVars, forceVars, cacheVars, cycleVars, syncVars
<1>1. CASE ForceSync
  BY <1>1 DEF ForceSync
<1>2. CASE OtherSync
  <2>1. PICK u \in Urls : Update(u, TRUE)
    BY <1>2 DEF OtherSync
  <2>2. record' \in [Urls -> Positions \cup {0}] /\ failures' \in 0..MaxFailures
    BY <2>1, UpdateTypes
  <2>3. UNCHANGED <<at, userVars, cacheVars, mpc, cycleVars, syncVars, published, forceVars>>
    BY <1>2 DEF OtherSync
  <2>. QED
    BY <2>2, <2>3
<1>3. CASE SaveUrl
  BY <1>3 DEF SaveUrl
<1>4. CASE SaveAuto
  BY <1>4 DEF SaveAuto
<1>5. CASE Pause
  BY <1>5 DEF Pause
<1>6. CASE ForceSend
  <2>1. PICK ok \in BOOLEAN : Update(furl, ok) /\ fok' = ok
    BY <1>6 DEF ForceSend
  <2>. QED
    BY <1>6, <2>1, UpdateTypes DEF ForceSend
<1>7. CASE ForceMark
  <2>1. last' \in Positions \cup {0}
    BY <1>7 DEF ForceMark
  <2>2. waiting' \in BOOLEAN
    BY <1>7, Zenon DEF ForceMark
  <2>3. ForceOver /\ UNCHANGED <<worldVars, userVars, cacheVars, mpc, cycleVars, published>>
    BY <1>7 DEF ForceMark
  <2>. QED
    BY <2>1, <2>2, <2>3, ForceOverTypes
<1>. QED
  BY <1>1, <1>2, <1>3, <1>4, <1>5, <1>6, <1>7 DEF UserStep, ForceStep

LEMMA TypesOutside == ASSUME TypeOK, Timers \/ Move \/ Restart PROVE TypeOK'
<1>. USE DEF TypeOK, worldVars, userVars, forceVars, cacheVars, cycleVars, syncVars
<1>1. CASE CacheExpires
  <2>1. fresh' \in BOOLEAN
    BY <1>1, Zenon DEF CacheExpires
  <2>2. UNCHANGED <<worldVars, userVars, cached, backingOff, mpc, cycleVars, syncVars, published, forceVars>>
    BY <1>1 DEF CacheExpires
  <2>. QED
    BY <2>1, <2>2
<1>2. CASE BackoffEnds
  <2>1. backingOff' \in BOOLEAN
    BY <1>2, Zenon DEF BackoffEnds
  <2>2. UNCHANGED <<worldVars, userVars, cached, fresh, mpc, cycleVars, syncVars, published, forceVars>>
    BY <1>2 DEF BackoffEnds
  <2>. QED
    BY <2>1, <2>2
<1>3. CASE RetryDue
  <2>1. waiting' \in BOOLEAN
    BY <1>3, Zenon DEF RetryDue
  <2>2. UNCHANGED <<worldVars, userVars, cacheVars, mpc, cycleVars, last, published, forceVars>>
    BY <1>3 DEF RetryDue
  <2>. QED
    BY <2>1, <2>2
<1>4. CASE Move
  <2>1. at' \in Positions
    BY <1>4, DdnsAssumption DEF Move, Positions
  <2>. QED
    BY <1>4, <2>1 DEF Move
<1>5. CASE Restart
  <2>1. failures' \in 0..MaxFailures
    BY <1>5, DdnsAssumption DEF Restart, Strike
  <2>. QED
    BY <1>5, <2>1, CycleOverTypes, ForceOverTypes DEF Restart
<1>. QED
  BY <1>1, <1>2, <1>3, <1>4, <1>5 DEF Timers

\* Whatever the route, the URLs, the user and the failures, what is cached,
\* published, marked and recorded is an address the machine has on its way.
THEOREM TypesAlways == Spec => []TypeOK
<1>1. Init => TypeOK
  <2>. SUFFICES ASSUME Init PROVE TypeOK
    OBVIOUS
  <2>1. /\ at \in Positions /\ record \in [Urls -> Positions \cup {0}]
        /\ failures \in 0..MaxFailures
    BY DdnsAssumption DEF Init, Positions
  <2>2. auto \in BOOLEAN
    BY Zenon DEF Init
  <2>. QED
    BY <2>1, <2>2 DEF Init, TypeOK
<1>2. TypeOK /\ [Next]_ddnsVars => TypeOK'
  <2>1. TypeOK /\ UNCHANGED ddnsVars => TypeOK'
    BY DEF TypeOK, ddnsVars
  <2>. QED
    BY <2>1, TypesMonitor, TypesUser, TypesOutside DEF Next
<1>. QED
  BY <1>1, <1>2, PTL DEF Spec
=============================================================================
