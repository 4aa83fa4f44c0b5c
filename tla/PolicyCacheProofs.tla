------------------------- MODULE PolicyCacheProofs -------------------------
(***************************************************************************)
(* Proofs about PolicyCache, for any instances, values, calls and times.   *)
(*                                                                         *)
(* Staleness is bounded because an entry's life is fixed when it is        *)
(* written: the invariant relates when an entry expires, or when the       *)
(* answer in flight was read, to when the row last changed.                *)
(*                                                                         *)
(* A version is given again only after it went back, which takes a set     *)
(* that was overtaken: versions above the row's have been given at most    *)
(* once for each such set.                                                 *)
(***************************************************************************)
EXTENDS PolicyCache, TLAPS

\* No entry outlives its time to live, counted from now.
ShortLived == \A i \in Instances : cache[i].expiresAt <= now + TTL

\* An entry that holds something else than the row was read before it changed.
StaleExpires ==
  \A i \in Instances :
    ~cache[i].failed /\ cache[i].value # policy.value =>
      cache[i].expiresAt <= changed + TTL + Latency

\* The answers in flight were read recently, and a stale one before the change.
FillsRecent ==
  \A r \in Requests :
    req[r].at = "fill" =>
      /\ req[r].readAt <= now /\ now <= req[r].readAt + Latency
      /\ ~req[r].failed /\ req[r].value # policy.value => req[r].readAt <= changed

\* A call that is going to write read a version that can still be bumped.
SetsBounded ==
  \A r \in Requests : req[r].at = "write" => req[r].from \in 1..(MaxVersion - 1)

\* Every call in flight is on an instance.
Placed == \A r \in Requests : req[r].at # "idle" => req[r].inst \in Instances

Inv ==
  /\ TypeOK
  /\ changed <= now
  /\ ShortLived
  /\ StaleExpires
  /\ FillsRecent
  /\ SetsBounded
  /\ Placed

LEMMA Constants ==
  /\ TTL \in Nat /\ TTL > 0 /\ Latency \in Nat /\ MaxTime \in Nat
  /\ MaxVersion \in Nat /\ MaxVersion > 0
  /\ 0 \in 0..MaxTime /\ 1 \in 1..MaxVersion
  /\ \A t \in 0..MaxTime : t + TTL \in Times
BY TimeAssumption, VersionAssumption DEF Times

LEMMA Blanks ==
  /\ Idle \in Call /\ Idle.at = "idle"
  /\ NoEntry \in Entry /\ NoEntry.value = Fallback /\ NoEntry.expiresAt = -TTL
BY Constants, ValueAssumption DEF Idle, Call, NoEntry, Entry, Times

LEMMA InvInit == Init => Inv
<1> SUFFICES ASSUME Init PROVE Inv
  OBVIOUS
<1>1. TypeOK
  BY Constants, Blanks DEF Init, TypeOK
<1>2. changed <= now /\ ShortLived /\ StaleExpires
  BY Constants, Blanks DEF Init, ShortLived, StaleExpires
<1>3. FillsRecent /\ SetsBounded /\ Placed
  BY Blanks DEF Init, FillsRecent, SetsBounded, Placed
<1> QED BY <1>1, <1>2, <1>3 DEF Inv

\* A call changes its own slot to q and nothing else but, perhaps, a cache.
LEMMA SlotStep ==
  ASSUME Inv, NEW r \in Requests, NEW q \in Call,
         req' = [req EXCEPT ![r] = q], UNCHANGED <<policy, now, changed, written, overtaken>>,
         q.at = "fill" =>
           /\ q.readAt <= now /\ now <= q.readAt + Latency
           /\ ~q.failed /\ q.value # policy.value => q.readAt <= changed,
         q.at = "write" => q.from \in 1..(MaxVersion - 1),
         q.at # "idle" => q.inst \in Instances
  PROVE  req' \in [Requests -> Call] /\ FillsRecent' /\ SetsBounded' /\ Placed'
<1>1. req \in [Requests -> Call]
  BY DEF Inv, TypeOK
<1>2. FillsRecent'
  BY <1>1 DEF Inv, FillsRecent
<1>3. SetsBounded'
  BY <1>1 DEF Inv, SetsBounded
<1>4. Placed'
  BY <1>1 DEF Inv, Placed
<1> QED BY <1>1, <1>2, <1>3, <1>4

LEMMA FinishStep ==
  ASSUME Inv, NEW r \in Requests, Finish(r), UNCHANGED <<policy, now, changed, written, overtaken>>
  PROVE  req' \in [Requests -> Call] /\ FillsRecent' /\ SetsBounded' /\ Placed'
BY Blanks, SlotStep DEF Finish

\* A step of slot r that leaves the tables, the caches and the clock alone.
LEMMA QuietStep ==
  ASSUME Inv, UNCHANGED <<policy, cache, now, changed, written, overtaken>>,
         req' \in [Requests -> Call], FillsRecent', SetsBounded', Placed'
  PROVE  Inv'
BY DEF Inv, TypeOK, ShortLived, StaleExpires

\* Entry e of instance i replaces the one before.
LEMMA CacheStep ==
  ASSUME Inv, NEW i \in Instances, NEW e \in Entry, cache' = [cache EXCEPT ![i] = e],
         UNCHANGED <<policy, now, changed, written, overtaken>>,
         e.expiresAt <= now + TTL,
         ~e.failed /\ e.value # policy.value => e.expiresAt <= changed + TTL + Latency,
         req' \in [Requests -> Call], FillsRecent', SetsBounded', Placed'
  PROVE  Inv'
<1>1. cache \in [Instances -> Entry]
  BY DEF Inv, TypeOK
<1>2. ShortLived'
  BY <1>1 DEF Inv, ShortLived
<1>3. StaleExpires'
  BY <1>1 DEF Inv, StaleExpires
<1> QED BY <1>1, <1>2, <1>3 DEF Inv, TypeOK

\* An entry that is gone is no stale entry.
LEMMA GoneFits ==
  ASSUME Inv
  PROVE  NoEntry.expiresAt <= now + TTL /\ NoEntry.expiresAt <= changed + TTL + Latency
BY Constants, Blanks DEF Inv, TypeOK

LEMMA InvStep == Inv /\ [Next]_vars => Inv'
<1> SUFFICES ASSUME Inv, [Next]_vars PROVE Inv'
  OBVIOUS
<1>0. /\ policy \in [value : Values, version : 1..MaxVersion]
      /\ cache \in [Instances -> Entry] /\ req \in [Requests -> Call]
      /\ now \in 0..MaxTime /\ changed \in 0..MaxTime
      /\ written \in [1..MaxVersion -> Nat] /\ overtaken \in Nat
      /\ changed <= now
  BY DEF Inv, TypeOK
<1>1. ASSUME NEW r \in Requests, NEW i \in Instances, GetCached(r, i) PROVE Inv'
  <2> DEFINE q == [Idle EXCEPT !.at = "version", !.inst = i, !.stamp = TRUE,
                               !.value = cache[i].value, !.failed = cache[i].failed]
  <2>1. q \in Call /\ q.at = "version" /\ q.inst = i
    BY <1>0, Blanks DEF Call, Entry
  <2>2. req' = [req EXCEPT ![r] = q]
    BY <1>1 DEF GetCached
  <2> HIDE DEF q
  <2> QED BY <1>1, <2>1, <2>2, SlotStep, QuietStep DEF GetCached
<1>2. ASSUME NEW r \in Requests, NEW i \in Instances, GetRead(r, i) PROVE Inv'
  <2>1. PICK stamp \in BOOLEAN, failed \in BOOLEAN :
          req' = [req EXCEPT ![r] =
                   [@ EXCEPT !.at = "fill", !.inst = i, !.stamp = stamp, !.failed = failed,
                             !.value = IF failed THEN Fallback ELSE policy.value,
                             !.readAt = now]]
    BY <1>2 DEF GetRead
  <2> DEFINE q == [Idle EXCEPT !.at = "fill", !.inst = i, !.stamp = stamp, !.failed = failed,
                               !.value = IF failed THEN Fallback ELSE policy.value,
                               !.readAt = now]
  <2>2. /\ q \in Call /\ q.at = "fill" /\ q.inst = i /\ q.readAt = now
        /\ q.failed = failed /\ (~failed => q.value = policy.value)
    BY <1>0, Blanks, ValueAssumption DEF Call
  <2>3. req' = [req EXCEPT ![r] = q]
    BY <1>2, <2>1 DEF GetRead
  <2> HIDE DEF q
  <2>4. q.readAt <= now /\ now <= q.readAt + Latency
    BY <1>0, <2>2, Constants
  <2> QED BY <1>2, <2>2, <2>3, <2>4, SlotStep, QuietStep DEF GetRead
<1>3. ASSUME NEW r \in Requests, GetFill(r) PROVE Inv'
  <2> DEFINE e == [value |-> req[r].value, expiresAt |-> ExpiryOf(now),
                   failed |-> req[r].failed]
  <2>0. req[r] \in Call /\ req[r].at = "fill" /\ req[r].inst \in Instances
    BY <1>0, <1>3 DEF GetFill, Inv, Placed
  <2>1. /\ e \in Entry /\ e.expiresAt = now + TTL
        /\ e.value = req[r].value /\ e.failed = req[r].failed
    BY <1>0, <2>0, Constants DEF ExpiryOf, Entry, Call
  <2>2. cache' = [cache EXCEPT ![req[r].inst] = e] /\ UNCHANGED <<policy, now, changed, written, overtaken>>
    BY <1>3 DEF GetFill
  <2> HIDE DEF e
  <2>3. e.expiresAt <= now + TTL
    BY <1>0, <2>1, Constants
  <2>4. ~e.failed /\ e.value # policy.value => e.expiresAt <= changed + TTL + Latency
    <3>1. /\ req[r].readAt \in 0..MaxTime
          /\ now <= req[r].readAt + Latency
          /\ ~req[r].failed /\ req[r].value # policy.value => req[r].readAt <= changed
      BY <2>0 DEF Inv, FillsRecent, Call
    <3> QED BY <1>0, <2>1, <3>1, Constants
  <2>5. req' \in [Requests -> Call] /\ FillsRecent' /\ SetsBounded' /\ Placed'
    <3>1. CASE Finish(r)
      BY <2>2, <3>1, FinishStep
    <3>2. CASE req' = [req EXCEPT ![r] = [@ EXCEPT !.at = "version", !.readAt = 0]]
      <4> DEFINE q == [req[r] EXCEPT !.at = "version", !.readAt = 0]
      <4>1. q \in Call /\ q.at = "version" /\ q.inst = req[r].inst
        BY <2>0, Constants DEF Call
      <4>2. req' = [req EXCEPT ![r] = q]
        BY <3>2
      <4> HIDE DEF q
      <4> QED BY <2>0, <2>2, <4>1, <4>2, SlotStep
    <3> QED BY <1>3, <3>1, <3>2 DEF GetFill
  <2> QED BY <2>0, <2>1, <2>2, <2>3, <2>4, <2>5, CacheStep
<1>4. ASSUME NEW r \in Requests, GetVersion(r) PROVE Inv'
  BY <1>4, FinishStep, QuietStep DEF GetVersion
<1>5. ASSUME NEW r \in Requests, NEW i \in Instances, NEW v \in Values,
             SetRead(r, i, v)
      PROVE  Inv'
  <2> DEFINE q == [Idle EXCEPT !.at = "write", !.inst = i, !.value = v,
                               !.from = policy.version]
  <2>0. policy.version \in 1..(MaxVersion - 1) /\ policy.version \in 0..MaxVersion
    <3>1. policy.version \in 1..MaxVersion /\ policy.version < MaxVersion
      BY <1>0, <1>5 DEF SetRead
    <3> QED BY <3>1, Constants
  <2>1. /\ q \in Call /\ q.at = "write" /\ q.inst = i
        /\ q.from \in 1..(MaxVersion - 1)
    BY <2>0, Blanks DEF Call
  <2>2. req' = [req EXCEPT ![r] = q]
    BY <1>5 DEF SetRead
  <2> HIDE DEF q
  <2> QED BY <1>5, <2>1, <2>2, SlotStep, QuietStep DEF SetRead
<1>6. ASSUME NEW r \in Requests, SetWrite(r) PROVE Inv'
  <2>0. /\ req[r] \in Call /\ req[r].at = "write" /\ req[r].inst \in Instances
        /\ req[r].from \in 1..(MaxVersion - 1)
    BY <1>0, <1>6 DEF SetWrite, Inv, SetsBounded, Placed
  <2>1. /\ policy' = [value |-> req[r].value, version |-> req[r].from + 1]
        /\ written' = [written EXCEPT ![req[r].from + 1] = @ + 1]
        /\ overtaken' = IF req[r].from = policy.version THEN overtaken ELSE overtaken + 1
        /\ changed' = now /\ now' = now /\ cache' = cache
    BY <1>6 DEF SetWrite, NextVersion
  <2>2. /\ policy' \in [value : Values, version : 1..MaxVersion]
        /\ written' \in [1..MaxVersion -> Nat] /\ overtaken' \in Nat
    BY <1>0, <2>0, <2>1, Constants DEF Call
  <2> DEFINE q == [Idle EXCEPT !.at = "invalidate", !.inst = req[r].inst]
  <2>3. q \in Call /\ q.at = "invalidate" /\ q.inst \in Instances
    BY <2>0, Blanks DEF Call
  <2>4. req' = [req EXCEPT ![r] = q]
    BY <1>6 DEF SetWrite
  <2> HIDE DEF q
  <2>5. req' \in [Requests -> Call]
    BY <1>0, <2>3, <2>4
  <2>6. ShortLived' /\ StaleExpires'
    <3>1. ASSUME NEW i \in Instances PROVE cache[i].expiresAt \in Int
      BY <1>0, Constants DEF Entry, Times
    <3> QED BY <1>0, <2>1, <3>1, Constants DEF Inv, ShortLived, StaleExpires
  <2>7. FillsRecent'
    <3>1. ASSUME NEW x \in Requests, req'[x].at = "fill"
          PROVE  x # r /\ req'[x] = req[x]
      BY <1>0, <2>3, <2>4, <3>1
    <3> QED BY <2>1, <3>1 DEF Inv, FillsRecent
  <2>8. SetsBounded' /\ Placed'
    BY <1>0, <2>0, <2>3, <2>4 DEF Inv, SetsBounded, Placed
  <2>9. (changed <= now)' /\ changed' \in 0..MaxTime /\ now' \in 0..MaxTime
    BY <1>0, <2>1
  <2> QED BY <1>0, <2>1, <2>2, <2>5, <2>6, <2>7, <2>8, <2>9 DEF Inv, TypeOK
<1>7. ASSUME NEW r \in Requests, SetInvalidate(r) PROVE Inv'
  <2>1. req[r].inst \in Instances
    BY <1>7 DEF SetInvalidate, Inv, Placed
  <2>2. req' \in [Requests -> Call] /\ FillsRecent' /\ SetsBounded' /\ Placed'
    BY <1>7, FinishStep DEF SetInvalidate
  <2> QED BY <1>7, <2>1, <2>2, Blanks, GoneFits, CacheStep DEF SetInvalidate
<1>8. ASSUME NEW i \in Instances, Restart(i) PROVE Inv'
  <2>1. req' \in [Requests -> Call]
    BY <1>0, <1>8, Blanks DEF Restart
  <2>2. FillsRecent' /\ SetsBounded' /\ Placed'
    BY <1>0, <1>8, Blanks DEF Restart, Inv, FillsRecent, SetsBounded, Placed
  <2> QED BY <1>8, <2>1, <2>2, Blanks, GoneFits, CacheStep DEF Restart
<1>9. CASE Tick
  <2>1. now' = now + 1 /\ now' \in 0..MaxTime /\ UNCHANGED <<policy, cache, req, changed, written, overtaken>>
    BY <1>0, <1>9, Constants DEF Tick
  <2>2. (changed <= now)'
    BY <1>0, <2>1
  <2>3. ShortLived' /\ StaleExpires'
    <3>1. ASSUME NEW i \in Instances PROVE cache[i].expiresAt \in Int
      BY <1>0, Constants DEF Entry, Times
    <3> QED BY <1>0, <2>1, <3>1, Constants DEF Inv, ShortLived, StaleExpires
  <2>4. FillsRecent'
    <3>1. ASSUME NEW r \in Requests PROVE req[r].readAt \in Int
      BY <1>0 DEF Call
    <3> QED BY <1>0, <1>9, <2>1, <3>1, Constants DEF Tick, Inv, FillsRecent
  <2>5. SetsBounded' /\ Placed'
    BY <2>1 DEF Inv, SetsBounded, Placed
  <2> QED BY <1>0, <2>1, <2>2, <2>3, <2>4, <2>5 DEF Inv, TypeOK
<1>10. CASE UNCHANGED vars
  BY <1>10 DEF vars, Inv, TypeOK, ShortLived, StaleExpires, FillsRecent, SetsBounded, Placed
<1> QED BY <1>1, <1>2, <1>3, <1>4, <1>5, <1>6, <1>7, <1>8, <1>9, <1>10 DEF Next, Serve

\* The inductive invariant of the cache and its clock.
THEOREM CacheInvariant == Spec => []Inv
BY InvInit, InvStep, PTL DEF Spec

\* Types, for any values, instances and times.
THEOREM CacheTyped == Spec => []TypeOK
<1>1. Inv => TypeOK
  BY DEF Inv
<1> QED BY <1>1, CacheInvariant, PTL

\* A changed policy is served stale for less than TTL + Latency, on every
\* instance, whatever reads were in flight and whoever restarted.
THEOREM StalenessBounded == Spec => []BoundedStaleness
<1>1. Inv => BoundedStaleness
  <2> SUFFICES ASSUME Inv, NEW i \in Instances, Live(cache[i]), ~cache[i].failed,
                      cache[i].value # policy.value
               PROVE  now < changed + TTL + Latency
    BY DEF BoundedStaleness
  <2>1. cache[i].expiresAt \in Int /\ now \in Int /\ changed \in Int
    BY Constants DEF Inv, TypeOK, Entry, Times
  <2>2. now < cache[i].expiresAt /\ cache[i].expiresAt <= changed + TTL + Latency
    BY <2>1 DEF Live, Inv, StaleExpires
  <2> QED BY <2>1, <2>2, Constants
<1> QED BY <1>1, CacheInvariant, PTL

\* A version that is not above the row's may have been given once more than there
\* were sets that were overtaken; one above it was not, since a set that takes the
\* row back to a lower version is one of them.
VersionInv ==
  /\ VersionsRepeatByRaces
  /\ \A v \in 1..MaxVersion : v > policy.version => written[v] <= overtaken

LEMMA VersionStep ==
  ASSUME Inv, VersionInv, [Next]_vars
  PROVE  VersionInv'
<1>0. /\ policy \in [value : Values, version : 1..MaxVersion]
      /\ req \in [Requests -> Call] /\ MaxVersion \in Nat
      /\ written \in [1..MaxVersion -> Nat] /\ overtaken \in Nat
  BY Constants DEF Inv, TypeOK
<1>1. ASSUME NEW r \in Requests, SetWrite(r) PROVE VersionInv'
  <2> DEFINE w == req[r].from + 1
  <2>1. req[r].from \in 1..(MaxVersion - 1) /\ policy.version \in 1..MaxVersion
    BY <1>0, <1>1 DEF SetWrite, Inv, SetsBounded
  <2>2. /\ policy'.version = w /\ written' = [written EXCEPT ![w] = @ + 1]
        /\ overtaken' = IF req[r].from = policy.version THEN overtaken ELSE overtaken + 1
    BY <1>1 DEF SetWrite, NextVersion
  <2>3. w \in 1..MaxVersion /\ w = req[r].from + 1
    BY <1>0, <2>1
  <2> HIDE DEF w
  <2>4. ASSUME NEW v \in 1..MaxVersion
        PROVE  written'[v] <= 1 + overtaken' /\ (v > w => written'[v] <= overtaken')
    <3>1. /\ written[v] \in Nat /\ written[v] <= 1 + overtaken
          /\ v > policy.version => written[v] <= overtaken
      BY <1>0 DEF VersionInv, VersionsRepeatByRaces
    <3>2. written'[v] = IF v = w THEN written[v] + 1 ELSE written[v]
      BY <1>0, <2>2, <2>3
    <3>3. CASE req[r].from = policy.version
      BY <1>0, <2>1, <2>2, <2>3, <3>1, <3>2, <3>3
    <3>4. CASE req[r].from # policy.version
      BY <1>0, <2>1, <2>2, <2>3, <3>1, <3>2, <3>4
    <3> QED BY <3>3, <3>4
  <2> QED BY <2>2, <2>4 DEF VersionInv, VersionsRepeatByRaces
<1>2. CASE ~\E r \in Requests : SetWrite(r)
  <2>1. UNCHANGED <<policy, written, overtaken>>
    BY <1>2 DEF Next, Serve, GetCached, GetRead, GetFill, GetVersion, SetRead, SetInvalidate,
                Restart, Tick, vars
  <2> QED BY <2>1 DEF VersionInv, VersionsRepeatByRaces
<1> QED BY <1>1, <1>2

\* However sets of the policy overlap, a version is given at most once more than
\* there were sets that were overtaken; without one, it names one value.
THEOREM VersionsRepeat == Spec => []VersionsRepeatByRaces
<1>1. Init => VersionInv
  <2> SUFFICES ASSUME Init PROVE VersionInv
    OBVIOUS
  <2>1. overtaken = 0 /\ policy.version = 1
        /\ \A v \in 1..MaxVersion : written[v] = IF v = 1 THEN 1 ELSE 0
    BY DEF Init
  <2> QED BY <2>1, Constants DEF VersionInv, VersionsRepeatByRaces
<1>2. Inv /\ VersionInv /\ [Next]_vars => VersionInv'
  BY VersionStep
<1>3. VersionInv => VersionsRepeatByRaces
  BY DEF VersionInv
<1> QED BY <1>1, <1>2, <1>3, CacheInvariant, PTL DEF Spec

=============================================================================
