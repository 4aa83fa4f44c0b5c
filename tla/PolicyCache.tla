---------------------------- MODULE PolicyCache ----------------------------
(***************************************************************************)
(* One policy of PoliciesService (apps/api): the row of system_policies,   *)
(* the per-process cache in front of it, the reads, writes and versioned   *)
(* reads in flight, and the clock the cache entries expire by.             *)
(*                                                                         *)
(* Keys are independent, so one stands for all.  Every key is seeded by    *)
(* the migrations: the row exists, at version 1.                           *)
(***************************************************************************)
EXTENDS Integers

CONSTANTS
  Instances,  \* API processes, each with a cache of its own
  Values,     \* valid values of the policy
  Fallback,   \* what a read that fails or does not validate yields
  Requests,   \* slots for calls in flight at once
  TTL,        \* CACHE_TTL_MS
  Latency,    \* longest time a cache fill is in flight
  MaxVersion, \* bound: no set starts at this version
  MaxRaces,   \* bound: no set starts after this many that were overtaken
  MaxTime,    \* bound: the clock
  NoInstance

ASSUME ValueAssumption == Fallback \in Values /\ NoInstance \notin Instances
ASSUME TimeAssumption == TTL \in Nat \ {0} /\ Latency \in Nat /\ MaxTime \in Nat
ASSUME VersionAssumption == MaxVersion \in Nat \ {0} /\ MaxRaces \in Nat

VARIABLES
  policy,  \* the row: value and version
  cache,   \* the entry of each instance
  req,     \* the calls in flight
  now,     \* the time
  changed, \* history: when the row last changed
  written, \* history: how often each version was given to a value
  overtaken \* history: the sets that replaced another version than they had read

vars == <<policy, cache, req, now, changed, written, overtaken>>

Times == -TTL .. MaxTime + TTL

\* The history field failed marks an entry filled by a read that failed.
Entry == [value : Values, expiresAt : Times, failed : BOOLEAN]

\* An entry that has never been written, or was deleted, expired long ago.
NoEntry == [value |-> Fallback, expiresAt |-> -TTL, failed |-> FALSE]

Call == [at : {"idle", "fill", "version", "write", "invalidate"},
         inst : Instances \cup {NoInstance}, stamp : BOOLEAN,
         value : Values, failed : BOOLEAN, readAt : 0..MaxTime, from : 0..MaxVersion]

Idle == [at |-> "idle", inst |-> NoInstance, stamp |-> FALSE, value |-> Fallback,
         failed |-> FALSE, readAt |-> 0, from |-> 0]

TypeOK ==
  /\ policy \in [value : Values, version : 1..MaxVersion]
  /\ cache \in [Instances -> Entry]
  /\ req \in [Requests -> Call]
  /\ now \in 0..MaxTime
  /\ changed \in 0..MaxTime
  /\ written \in [1..MaxVersion -> Nat]
  /\ overtaken \in Nat

Init ==
  /\ policy \in [value : Values, version : {1}]
  /\ cache = [i \in Instances |-> NoEntry]
  /\ req = [r \in Requests |-> Idle]
  /\ now = 0
  /\ changed = 0
  /\ written = [v \in 1..MaxVersion |-> IF v = 1 THEN 1 ELSE 0]
  /\ overtaken = 0

Finish(r) == req' = [req EXCEPT ![r] = Idle]

Live(e) == e.expiresAt > now

(***************************************************************************)
(* get and getWithVersion                                                  *)
(***************************************************************************)
\* A live entry is returned at once: nothing to do for get, while
\* getWithVersion goes on to read the version.
GetCached(r, i) ==
  /\ req[r] = Idle
  /\ Live(cache[i])
  /\ req' = [req EXCEPT ![r] = [@ EXCEPT !.at = "version", !.inst = i, !.stamp = TRUE,
                                         !.value = cache[i].value,
                                         !.failed = cache[i].failed]]
  /\ UNCHANGED <<policy, cache, now, changed, written, overtaken>>

\* No live entry: the row is read; an error leaves the fallback.
GetRead(r, i) ==
  /\ req[r] = Idle
  /\ ~Live(cache[i])
  /\ \E stamp, failed \in BOOLEAN :
       req' = [req EXCEPT ![r] =
                [@ EXCEPT !.at = "fill", !.inst = i, !.stamp = stamp, !.failed = failed,
                          !.value = IF failed THEN Fallback ELSE policy.value,
                          !.readAt = now]]
  /\ UNCHANGED <<policy, cache, now, changed, written, overtaken>>

\* Mutant of ExpiryOf: the entry is kept one moment too long.
ExpiryOfLate(t) == t + TTL + 1

ExpiryOf(t) == t + TTL

\* The answer is cached, whatever happened to the row since it was read.
GetFill(r) ==
  LET i == req[r].inst IN
  /\ req[r].at = "fill"
  /\ cache' = [cache EXCEPT ![i] = [value |-> req[r].value, expiresAt |-> ExpiryOf(now),
                                    failed |-> req[r].failed]]
  /\ IF req[r].stamp
       THEN req' = [req EXCEPT ![r] = [@ EXCEPT !.at = "version", !.readAt = 0]]
       ELSE Finish(r)
  /\ UNCHANGED <<policy, now, changed, written, overtaken>>

\* The version is read from the row, never cached, and returned with the value.
GetVersion(r) ==
  /\ req[r].at = "version"
  /\ Finish(r)
  /\ UNCHANGED <<policy, cache, now, changed, written, overtaken>>

(***************************************************************************)
(* set                                                                     *)
(***************************************************************************)
\* Mutant of NextVersion: the version is not bumped.
SameVersion(from) == from

NextVersion(from) == from + 1

SetRead(r, i, v) ==
  /\ req[r] = Idle
  /\ policy.version < MaxVersion /\ overtaken < MaxRaces
  /\ req' = [req EXCEPT ![r] = [@ EXCEPT !.at = "write", !.inst = i, !.value = v,
                                         !.from = policy.version]]
  /\ UNCHANGED <<policy, cache, now, changed, written, overtaken>>

\* The UPDATE names the key only and writes the version computed before, even
\* if another set has changed the row since: the version may repeat or go back.
SetWrite(r) ==
  LET row == [value |-> req[r].value, version |-> NextVersion(req[r].from)] IN
  /\ req[r].at = "write"
  /\ policy' = row
  /\ changed' = now
  /\ written' = [written EXCEPT ![row.version] = @ + 1]
  /\ overtaken' = IF req[r].from = policy.version THEN overtaken ELSE overtaken + 1
  /\ req' = [req EXCEPT ![r] = [Idle EXCEPT !.at = "invalidate", !.inst = req[r].inst]]
  /\ UNCHANGED <<cache, now>>

\* Only the cache of the instance that served the call forgets the old value.
SetInvalidate(r) ==
  /\ req[r].at = "invalidate"
  /\ cache' = [cache EXCEPT ![req[r].inst] = NoEntry]
  /\ Finish(r)
  /\ UNCHANGED <<policy, now, changed, written, overtaken>>

(***************************************************************************)
(* The world                                                               *)
(***************************************************************************)
\* Time passes; a fill in flight does not take longer than Latency.
Tick ==
  /\ now < MaxTime
  /\ \A r \in Requests : req[r].at = "fill" => now < req[r].readAt + Latency
  /\ now' = now + 1
  /\ UNCHANGED <<policy, cache, req, changed, written, overtaken>>

\* An instance restarts: its cache and the calls it was serving are gone.
Restart(i) ==
  /\ cache' = [cache EXCEPT ![i] = NoEntry]
  /\ req' = [r \in Requests |-> IF req[r].inst = i THEN Idle ELSE req[r]]
  /\ UNCHANGED <<policy, now, changed, written, overtaken>>

Serve(r, i) ==
  \/ GetCached(r, i) \/ GetRead(r, i)
  \/ \E v \in Values : SetRead(r, i, v)

Next ==
  \/ \E r \in Requests :
       \/ \E i \in Instances : Serve(r, i)
       \/ GetFill(r) \/ GetVersion(r) \/ SetWrite(r) \/ SetInvalidate(r)
  \/ \E i \in Instances : Restart(i)
  \/ Tick

Spec == Init /\ [][Next]_vars

(***************************************************************************)
(* Properties                                                              *)
(***************************************************************************)

\* A stale value is served for a bounded time after the row has changed: TTL
\* plus the time a fill was in flight when it happened.  An entry filled by a
\* failed read holds the fallback instead, for the same time.
BoundedStaleness ==
  \A i \in Instances :
    Live(cache[i]) /\ ~cache[i].failed /\ cache[i].value # policy.value =>
      now < changed + TTL + Latency

\* The stamp on a case says by its version which tiers were in force, so a
\* version is to name one value.  It comes to name more only where officers
\* change the policy at once: a version is given to one value more for each set
\* that was overtaken, between its read of the version and its update, by another.
\* Without such a set no version is ever given twice.
VersionsRepeatByRaces ==
  \A version \in 1..MaxVersion : written[version] <= 1 + overtaken

\* getWithVersion returns the version of the value it returns: the stamp
\* "kyc.tiers@version" of a new case names the policy the case was started
\* under.  A read that failed is left out.
StampIsForValue ==
  \A r \in Requests :
    req[r].at = "version" /\ ~req[r].failed => req[r].value = policy.value

=============================================================================
