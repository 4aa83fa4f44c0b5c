---------------------------- MODULE Idempotency ----------------------------
(***************************************************************************)
(* Idempotency keys of apps/api: IdempotencyService.lookup, reserve and    *)
(* store over the idempotency_keys table.                                  *)
(*                                                                         *)
(* The service has no caller yet; the command around it (look the key up,  *)
(* reserve it, execute, store the answer) is the one its header prescribes *)
(* and is external.  It may die between any two calls, and a key may pass  *)
(* its expiry at any time.  (user, scope, key) is one member of Keys, the  *)
(* hash of a request one of Payloads.                                      *)
(***************************************************************************)
CONSTANTS
  Keys,      \* (user, scope, key) triples
  Payloads,  \* request hashes
  Callers,   \* commands in flight
  NoKey, NoPayload, NoCaller

ASSUME IdemAssumption ==
  NoKey \notin Keys /\ NoPayload \notin Payloads /\ NoCaller \notin Callers

VARIABLES
  idemRows,    \* the table: hash of the reservation, who answered, still live?
  idemCalls,   \* what each command is doing
  executions   \* history: the payloads executed under each key, by whom

idemVars == <<idemRows, idemCalls, executions>>

Stages == {"idle", "lookup", "reserve", "execute", "store",
           "answered", "conflict", "refused"}

IdemRow == [hash : Payloads \cup {NoPayload}, answer : Callers \cup {NoCaller},
            live : BOOLEAN]
NoRow == [hash |-> NoPayload, answer |-> NoCaller, live |-> FALSE]

IdemCall == [at : Stages, key : Keys \cup {NoKey},
             hash : Payloads \cup {NoPayload}, answer : Callers \cup {NoCaller}]
NoCall == [at |-> "idle", key |-> NoKey, hash |-> NoPayload, answer |-> NoCaller]

IdemTypeOK ==
  /\ idemRows \in [Keys -> IdemRow]
  /\ idemCalls \in [Callers -> IdemCall]
  /\ executions \in [Keys -> SUBSET (Callers \X Payloads)]

IdemInit ==
  /\ idemRows = [k \in Keys |-> NoRow]
  /\ idemCalls = [c \in Callers |-> NoCall]
  /\ executions = [k \in Keys |-> {}]

\* Mutant of Reserved: an expired row may be taken over.
ReservedLive(k) == idemRows[k].live

Reserved(k) == idemRows[k].hash # NoPayload

Advance(c, at) == idemCalls' = [idemCalls EXCEPT ![c].at = at]

\* Mutant of SamePayload: the hash is not compared.
AnyPayload(row, h) == TRUE

\* Is the key found for the request it was reserved for?
SamePayload(row, h) == row.hash = h

\* A command arrives with a key and a payload.
Issue(c, k, h) ==
  /\ idemCalls[c].at = "idle"
  /\ \A e \in executions[k] : e[1] # c
  /\ idemCalls' = [idemCalls EXCEPT ![c] =
                     [at |-> "lookup", key |-> k, hash |-> h, answer |-> NoCaller]]
  /\ UNCHANGED <<idemRows, executions>>

\* A key past its expiry is no longer found, a key without an answer is in
\* flight, and a key used for another payload is refused.
Lookup(c) ==
  LET row == idemRows[idemCalls[c].key]
      same == SamePayload(row, idemCalls[c].hash)
  IN
  /\ idemCalls[c].at = "lookup"
  /\ \/ /\ ~row.live
        /\ Advance(c, "reserve")
     \/ /\ row.live /\ ~same
        /\ Advance(c, "conflict")
     \/ /\ row.live /\ same /\ row.answer = NoCaller
        /\ Advance(c, "reserve")
     \/ /\ row.live /\ same /\ row.answer # NoCaller
        /\ idemCalls' = [idemCalls EXCEPT ![c].at = "answered",
                                          ![c].answer = row.answer]
  /\ UNCHANGED <<idemRows, executions>>

\* The unique index lets one INSERT through, whatever the age of the row there.
Reserve(c) ==
  LET k == idemCalls[c].key IN
  /\ idemCalls[c].at = "reserve"
  /\ \/ /\ ~Reserved(k)
        /\ idemRows' = [idemRows EXCEPT ![k] =
             [hash |-> idemCalls[c].hash, answer |-> NoCaller, live |-> TRUE]]
        /\ Advance(c, "execute")
     \/ /\ Reserved(k)
        /\ Advance(c, "refused")
        /\ UNCHANGED idemRows
  /\ UNCHANGED executions

Execute(c) ==
  /\ idemCalls[c].at = "execute"
  /\ executions' = [executions EXCEPT ![idemCalls[c].key] =
                      @ \cup {<<c, idemCalls[c].hash>>}]
  /\ Advance(c, "store")
  /\ UNCHANGED idemRows

Store(c) ==
  /\ idemCalls[c].at = "store"
  /\ idemRows' = [idemRows EXCEPT ![idemCalls[c].key].answer = c]
  /\ idemCalls' = [idemCalls EXCEPT ![c].at = "answered", ![c].answer = c]
  /\ UNCHANGED executions

\* The command ends, or its process dies with the key still reserved.
Forget(c) ==
  /\ idemCalls[c].at # "idle"
  /\ idemCalls' = [idemCalls EXCEPT ![c] = NoCall]
  /\ UNCHANGED <<idemRows, executions>>

ExpireKey(k) ==
  /\ idemRows[k].live
  /\ idemRows' = [idemRows EXCEPT ![k].live = FALSE]
  /\ UNCHANGED <<idemCalls, executions>>

IdemNext ==
  \/ \E c \in Callers, k \in Keys, h \in Payloads : Issue(c, k, h)
  \/ \E c \in Callers : \/ Lookup(c)
                        \/ Reserve(c)
                        \/ Execute(c)
                        \/ Store(c)
                        \/ Forget(c)
  \/ \E k \in Keys : ExpireKey(k)

IdemSpec == IdemInit /\ [][IdemNext]_idemVars

(***************************************************************************)
(* Properties                                                              *)
(***************************************************************************)
\* Whatever dies, expires or is retried, one command at most is executed
\* under a key: "never re-execute" (idempotency.service.ts).
NeverReexecuted ==
  \A k \in Keys : \A e, f \in executions[k] : e = f

\* An answer that is replayed was produced under the same key by a command
\* with the same payload, also when the key expired in between.
ReplayIsOwn ==
  \A c \in Callers :
    idemCalls[c].at = "answered" =>
      <<idemCalls[c].answer, idemCalls[c].hash>> \in executions[idemCalls[c].key]

=============================================================================
