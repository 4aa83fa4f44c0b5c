--------------------------- MODULE ServicesProofs ---------------------------
(*****************************************************************************)
(* Proofs about the API's smaller components, for any keys, amounts, dates,  *)
(* requests and rows, and about their composition in MCServices.             *)
(*                                                                           *)
(* Idempotency: a row is never taken over and keeps its hash, so the one     *)
(* command that reserved a key is the only one that can execute under it:    *)
(* the invariant follows that command from its reservation to its answer.    *)
(* DomainMachines: what is final is the present state, and what is not a     *)
(* first state has its way in behind it.  Economics: quotients enclosed by   *)
(* their remainders, and months counted from the beginning of the calendar.  *)
(* Profiles: a request that found the row, or whose identity had it or got   *)
(* it meanwhile, still finds it; a code found free is free unless it was     *)
(* taken.                                                                    *)
(*****************************************************************************)
EXTENDS MCServices, ConsoleProofs

(*****************************************************************************)
(* Idempotency keys (Idempotency)                                            *)
(*****************************************************************************)

\* A command in flight has a key and a payload.
Placed ==
  \A c \in Callers :
    idemCalls[c].at # "idle" => idemCalls[c].key \in Keys /\ idemCalls[c].hash \in Payloads

Holds(c, k) == idemCalls[c].at \in {"execute", "store"} /\ idemCalls[c].key = k

\* One command at most is between the reservation of a key and its answer.
OneHolder ==
  \A k \in Keys : \A c, d \in Callers : (Holds(c, k) /\ Holds(d, k)) => c = d

\* It holds the key with the hash of its own payload, and nobody executed yet.
HolderReserved ==
  \A c \in Callers :
    LET k == idemCalls[c].key IN
    idemCalls[c].at \in {"execute", "store"} =>
      /\ idemRows[k].hash = idemCalls[c].hash
      /\ executions[k] = IF idemCalls[c].at = "store" THEN {<<c, idemCalls[c].hash>>} ELSE {}

\* What was executed under a key had the payload the row keeps.
ExecutedReserved ==
  \A k \in Keys : \A e \in executions[k] : e[2] = idemRows[k].hash

\* The answer in a row was produced by an execution of that row's payload.
AnswerExecuted ==
  \A k \in Keys :
    idemRows[k].answer # NoCaller =>
      <<idemRows[k].answer, idemRows[k].hash>> \in executions[k]

IdemInv ==
  /\ IdemTypeOK
  /\ Placed
  /\ OneHolder
  /\ HolderReserved
  /\ ExecutedReserved
  /\ AnswerExecuted
  /\ NeverReexecuted
  /\ ReplayIsOwn

LEMMA Blanks ==
  /\ NoRow \in IdemRow /\ NoRow.hash = NoPayload /\ NoRow.answer = NoCaller
  /\ NoCall \in IdemCall /\ NoCall.at = "idle"
BY DEF NoRow, IdemRow, NoCall, IdemCall, Stages

LEMMA IdemInvInit == IdemInit => IdemInv
<1> SUFFICES ASSUME IdemInit PROVE IdemInv
  OBVIOUS
<1>1. IdemTypeOK
  BY Blanks DEF IdemInit, IdemTypeOK
<1>2. Placed /\ OneHolder /\ HolderReserved /\ ReplayIsOwn
  BY Blanks DEF IdemInit, Placed, OneHolder, Holds, HolderReserved, ReplayIsOwn
<1>3. ExecutedReserved /\ AnswerExecuted /\ NeverReexecuted
  BY Blanks DEF IdemInit, ExecutedReserved, AnswerExecuted, NeverReexecuted
<1> QED BY <1>1, <1>2, <1>3 DEF IdemInv

\* A command that moves to a stage at which it does not hold a key.
LEMMA CallMoves ==
  ASSUME IdemInv, NEW c \in Callers, NEW q \in IdemCall,
         idemCalls' = [idemCalls EXCEPT ![c] = q], UNCHANGED <<idemRows, executions>>,
         q.at \notin {"execute", "store"},
         q.at # "idle" => q.key \in Keys /\ q.hash \in Payloads,
         q.at = "answered" => <<q.answer, q.hash>> \in executions[q.key]
  PROVE  IdemInv'
<1>1. IdemTypeOK'
  BY DEF IdemInv, IdemTypeOK
<1>2. idemCalls'[c] = q /\ \A d \in Callers \ {c} : idemCalls'[d] = idemCalls[d]
  BY DEF IdemInv, IdemTypeOK
<1>3. idemRows' = idemRows /\ executions' = executions
  OBVIOUS
<1>4. Placed' /\ ReplayIsOwn'
  BY <1>2, <1>3 DEF IdemInv, Placed, ReplayIsOwn
<1>5. OneHolder' /\ HolderReserved'
  BY <1>2, <1>3 DEF IdemInv, OneHolder, Holds, HolderReserved
<1>6. ExecutedReserved' /\ AnswerExecuted' /\ NeverReexecuted'
  BY <1>3 DEF IdemInv, ExecutedReserved, AnswerExecuted, NeverReexecuted
<1> QED BY <1>1, <1>4, <1>5, <1>6 DEF IdemInv

LEMMA IssueKeeps ==
  ASSUME IdemInv, NEW c \in Callers, NEW k \in Keys, NEW h \in Payloads, Issue(c, k, h)
  PROVE  IdemInv'
<1> DEFINE q == [at |-> "lookup", key |-> k, hash |-> h, answer |-> NoCaller]
<1>1. q \in IdemCall /\ q.at = "lookup" /\ q.key = k /\ q.hash = h
  BY DEF IdemCall, Stages
<1>2. /\ idemCalls' = [idemCalls EXCEPT ![c] = q]
      /\ idemRows' = idemRows /\ executions' = executions
  BY DEF Issue
<1> HIDE DEF q
<1> QED BY <1>1, <1>2, CallMoves

LEMMA AdvanceKeeps ==
  ASSUME IdemInv, NEW c \in Callers, NEW at \in {"reserve", "conflict", "refused"},
         idemCalls[c].at # "idle", Advance(c, at), UNCHANGED <<idemRows, executions>>
  PROVE  IdemInv'
<1> DEFINE q == [idemCalls[c] EXCEPT !.at = at]
<1>1. /\ q \in IdemCall /\ q.at = at
      /\ q.key = idemCalls[c].key /\ q.hash = idemCalls[c].hash
  BY DEF IdemInv, IdemTypeOK, IdemCall, Stages
<1>2. /\ idemCalls' = [idemCalls EXCEPT ![c] = q]
      /\ idemRows' = idemRows /\ executions' = executions
  BY DEF Advance, IdemInv, IdemTypeOK
<1>3. q.key \in Keys /\ q.hash \in Payloads
  BY <1>1 DEF IdemInv, Placed
<1> HIDE DEF q
<1> QED BY <1>1, <1>2, <1>3, CallMoves

LEMMA LookupKeeps == ASSUME IdemInv, NEW c \in Callers, Lookup(c) PROVE IdemInv'
<1> DEFINE row == idemRows[idemCalls[c].key]
<1>1. idemCalls[c].key \in Keys /\ idemCalls[c].hash \in Payloads
  BY DEF Lookup, IdemInv, Placed
<1>2. idemRows' = idemRows /\ executions' = executions /\ idemCalls[c].at = "lookup"
  BY DEF Lookup
<1>3. CASE \E at \in {"reserve", "conflict"} : Advance(c, at)
  BY <1>2, <1>3, AdvanceKeeps
<1>4. CASE /\ SamePayload(row, idemCalls[c].hash) /\ row.answer # NoCaller
           /\ idemCalls' = [idemCalls EXCEPT ![c].at = "answered", ![c].answer = row.answer]
  <2> DEFINE q == [idemCalls[c] EXCEPT !.at = "answered", !.answer = row.answer]
  <2>1. /\ q \in IdemCall /\ q.at = "answered" /\ q.answer = row.answer
        /\ q.key = idemCalls[c].key /\ q.hash = idemCalls[c].hash
    BY <1>1 DEF IdemInv, IdemTypeOK, IdemRow, IdemCall, Stages
  <2>2. idemCalls' = [idemCalls EXCEPT ![c] = q]
    BY <1>4 DEF IdemInv, IdemTypeOK
  <2>3. <<q.answer, q.hash>> \in executions[q.key]
    BY <1>1, <1>4, <2>1 DEF IdemInv, AnswerExecuted, SamePayload
  <2> HIDE DEF q
  <2> QED BY <1>1, <1>2, <2>1, <2>2, <2>3, CallMoves
<1> QED BY <1>3, <1>4 DEF Lookup

LEMMA ReserveKeeps == ASSUME IdemInv, NEW c \in Callers, Reserve(c) PROVE IdemInv'
<1> DEFINE k == idemCalls[c].key
           h == idemCalls[c].hash
           q == [idemCalls[c] EXCEPT !.at = "execute"]
           row == [hash |-> h, answer |-> NoCaller, live |-> TRUE]
<1>1. k \in Keys /\ h \in Payloads /\ idemCalls[c].at = "reserve" /\ executions' = executions
  BY DEF Reserve, IdemInv, Placed
<1>2. CASE Reserved(k)
  BY <1>1, <1>2, AdvanceKeeps DEF Reserve
<1>3. CASE ~Reserved(k)
  <2>1. row \in IdemRow /\ row.hash = h /\ row.answer = NoCaller
    BY <1>1 DEF IdemRow
  <2>2. q \in IdemCall /\ q.at = "execute" /\ q.key = k /\ q.hash = h
    BY DEF IdemInv, IdemTypeOK, IdemCall, Stages
  <2>3. idemCalls' = [idemCalls EXCEPT ![c] = q] /\ idemRows' = [idemRows EXCEPT ![k] = row]
    BY <1>3 DEF Reserve, Advance, IdemInv, IdemTypeOK
  <2>4. idemRows[k].hash = NoPayload /\ NoPayload \notin Payloads
    BY <1>3, IdemAssumption DEF Reserved
  <2>5. executions[k] = {}
    <3>1. executions[k] \in SUBSET (Callers \X Payloads)
      BY <1>1 DEF IdemInv, IdemTypeOK
    <3>2. \A e \in executions[k] : e[2] \in Payloads /\ e[2] = NoPayload
      BY <1>1, <2>4, <3>1 DEF IdemInv, ExecutedReserved
    <3> QED BY <2>4, <3>2
  <2>6. \A d \in Callers : ~Holds(d, k)
    BY <1>1, <2>4 DEF IdemInv, Holds, HolderReserved, Placed
  <2> HIDE DEF q, row
  <2>7. IdemTypeOK'
    BY <1>1, <2>1, <2>2, <2>3 DEF IdemInv, IdemTypeOK
  <2>8. /\ idemCalls'[c] = q /\ \A d \in Callers \ {c} : idemCalls'[d] = idemCalls[d]
        /\ idemRows'[k] = row /\ \A j \in Keys \ {k} : idemRows'[j] = idemRows[j]
    BY <1>1, <2>3 DEF IdemInv, IdemTypeOK
  <2> HIDE DEF k, h
  <2>9. Placed' /\ ReplayIsOwn'
    BY <1>1, <2>2, <2>8 DEF IdemInv, Placed, ReplayIsOwn
  <2>10. OneHolder'
    BY <2>2, <2>6, <2>8 DEF IdemInv, OneHolder, Holds
  <2>11. HolderReserved'
    <3> SUFFICES ASSUME NEW d \in Callers, idemCalls'[d].at \in {"execute", "store"}
                 PROVE  /\ idemRows'[idemCalls'[d].key].hash = idemCalls'[d].hash
                        /\ executions'[idemCalls'[d].key] =
                             IF idemCalls'[d].at = "store" THEN {<<d, idemCalls'[d].hash>>} ELSE {}
      BY DEF HolderReserved
    <3>1. CASE d = c
      BY <3>1, <1>1, <2>1, <2>2, <2>5, <2>8
    <3>2. CASE d # c
      <4>1. idemCalls'[d] = idemCalls[d] /\ idemCalls[d].key \in Keys \ {k}
        BY <3>2, <2>6, <2>8 DEF Holds, IdemInv, Placed
      <4> QED BY <4>1, <1>1, <2>8 DEF IdemInv, HolderReserved
    <3> QED BY <3>1, <3>2
  <2>12. ExecutedReserved' /\ AnswerExecuted' /\ NeverReexecuted'
    BY <1>1, <2>1, <2>5, <2>8 DEF IdemInv, ExecutedReserved, AnswerExecuted, NeverReexecuted
  <2> QED BY <2>7, <2>9, <2>10, <2>11, <2>12 DEF IdemInv
<1> QED BY <1>2, <1>3

LEMMA ExecuteKeeps == ASSUME IdemInv, NEW c \in Callers, Execute(c) PROVE IdemInv'
<1> DEFINE k == idemCalls[c].key
           h == idemCalls[c].hash
           q == [idemCalls[c] EXCEPT !.at = "store"]
<1>1. k \in Keys /\ h \in Payloads /\ idemCalls[c].at = "execute" /\ idemRows' = idemRows
  BY DEF Execute, IdemInv, Placed
<1>2. executions[k] = {} /\ idemRows[k].hash = h
  BY <1>1 DEF IdemInv, HolderReserved
<1>3. q \in IdemCall /\ q.at = "store" /\ q.key = k /\ q.hash = h
  BY DEF IdemInv, IdemTypeOK, IdemCall, Stages
<1>4. /\ idemCalls' = [idemCalls EXCEPT ![c] = q]
      /\ executions' = [executions EXCEPT ![k] = {<<c, h>>}]
  BY <1>1, <1>2 DEF Execute, Advance, IdemInv, IdemTypeOK
<1>5. \A d \in Callers \ {c} : ~Holds(d, k)
  BY <1>1 DEF IdemInv, OneHolder, Holds
<1> HIDE DEF q
<1>6. IdemTypeOK'
  BY <1>1, <1>3, <1>4 DEF IdemInv, IdemTypeOK
<1>7. /\ idemCalls'[c] = q /\ \A d \in Callers \ {c} : idemCalls'[d] = idemCalls[d]
      /\ executions'[k] = {<<c, h>>} /\ \A j \in Keys \ {k} : executions'[j] = executions[j]
  BY <1>1, <1>4 DEF IdemInv, IdemTypeOK
<1> HIDE DEF k, h
<1>8. Placed' /\ OneHolder'
  BY <1>1, <1>3, <1>5, <1>7 DEF IdemInv, Placed, OneHolder, Holds
<1>9. HolderReserved'
  <2> SUFFICES ASSUME NEW d \in Callers, idemCalls'[d].at \in {"execute", "store"}
               PROVE  /\ idemRows'[idemCalls'[d].key].hash = idemCalls'[d].hash
                      /\ executions'[idemCalls'[d].key] =
                           IF idemCalls'[d].at = "store" THEN {<<d, idemCalls'[d].hash>>} ELSE {}
    BY DEF HolderReserved
  <2>1. CASE d = c
    BY <2>1, <1>1, <1>2, <1>3, <1>7
  <2>2. CASE d # c
    <3>1. idemCalls'[d] = idemCalls[d] /\ idemCalls[d].key \in Keys \ {k}
      BY <2>2, <1>5, <1>7 DEF Holds, IdemInv, Placed
    <3> QED BY <3>1, <1>1, <1>7 DEF IdemInv, HolderReserved
  <2> QED BY <2>1, <2>2
<1>10. ReplayIsOwn'
  <2> SUFFICES ASSUME NEW d \in Callers, idemCalls'[d].at = "answered"
               PROVE  <<idemCalls'[d].answer, idemCalls'[d].hash>> \in executions'[idemCalls'[d].key]
    BY DEF ReplayIsOwn
  <2>1. d # c /\ idemCalls'[d] = idemCalls[d] /\ idemCalls[d].key \in Keys
    BY <1>3, <1>7 DEF IdemInv, Placed
  <2> QED BY <2>1, <1>2, <1>7 DEF IdemInv, ReplayIsOwn
<1>11. ExecutedReserved' /\ AnswerExecuted' /\ NeverReexecuted'
  BY <1>1, <1>2, <1>7 DEF IdemInv, ExecutedReserved, AnswerExecuted, NeverReexecuted
<1> QED BY <1>6, <1>8, <1>9, <1>10, <1>11 DEF IdemInv

LEMMA StoreKeeps == ASSUME IdemInv, NEW c \in Callers, Store(c) PROVE IdemInv'
<1> DEFINE k == idemCalls[c].key
           h == idemCalls[c].hash
           q == [idemCalls[c] EXCEPT !.at = "answered", !.answer = c]
           row == [idemRows[k] EXCEPT !.answer = c]
<1>1. k \in Keys /\ h \in Payloads /\ idemCalls[c].at = "store" /\ executions' = executions
  BY DEF Store, IdemInv, Placed
<1>2. executions[k] = {<<c, h>>} /\ idemRows[k].hash = h
  BY <1>1 DEF IdemInv, HolderReserved
<1>3. /\ q \in IdemCall /\ q.at = "answered" /\ q.key = k /\ q.hash = h /\ q.answer = c
      /\ row \in IdemRow /\ row.hash = h /\ row.answer = c
  BY <1>1, <1>2 DEF IdemInv, IdemTypeOK, IdemCall, IdemRow, Stages
<1>4. idemCalls' = [idemCalls EXCEPT ![c] = q] /\ idemRows' = [idemRows EXCEPT ![k] = row]
  BY <1>1 DEF Store, IdemInv, IdemTypeOK
<1> HIDE DEF q, row
<1>5. IdemTypeOK'
  BY <1>1, <1>3, <1>4 DEF IdemInv, IdemTypeOK
<1>6. /\ idemCalls'[c] = q /\ \A d \in Callers \ {c} : idemCalls'[d] = idemCalls[d]
      /\ idemRows'[k] = row /\ \A j \in Keys \ {k} : idemRows'[j] = idemRows[j]
  BY <1>1, <1>4 DEF IdemInv, IdemTypeOK
<1> HIDE DEF k, h
<1>7. Placed' /\ OneHolder' /\ ReplayIsOwn'
  BY <1>1, <1>2, <1>3, <1>6 DEF IdemInv, Placed, OneHolder, Holds, ReplayIsOwn
<1>8. HolderReserved'
  <2> SUFFICES ASSUME NEW d \in Callers, idemCalls'[d].at \in {"execute", "store"}
               PROVE  /\ idemRows'[idemCalls'[d].key].hash = idemCalls'[d].hash
                      /\ executions'[idemCalls'[d].key] =
                           IF idemCalls'[d].at = "store" THEN {<<d, idemCalls'[d].hash>>} ELSE {}
    BY DEF HolderReserved
  <2>1. idemCalls'[d] = idemCalls[d] /\ idemCalls[d].key \in Keys
    BY <1>3, <1>6 DEF IdemInv, Placed
  <2>2. idemRows'[idemCalls[d].key].hash = idemRows[idemCalls[d].key].hash
    BY <2>1, <1>2, <1>3, <1>6
  <2> QED BY <2>1, <2>2, <1>1 DEF IdemInv, HolderReserved
<1>9. ExecutedReserved' /\ AnswerExecuted' /\ NeverReexecuted'
  BY <1>1, <1>2, <1>3, <1>6 DEF IdemInv, ExecutedReserved, AnswerExecuted, NeverReexecuted
<1> QED BY <1>5, <1>7, <1>8, <1>9 DEF IdemInv

LEMMA ForgetKeeps == ASSUME IdemInv, NEW c \in Callers, Forget(c) PROVE IdemInv'
BY Blanks, CallMoves DEF Forget

LEMMA ExpireKeeps == ASSUME IdemInv, NEW k \in Keys, ExpireKey(k) PROVE IdemInv'
<1>1. IdemTypeOK'
  BY DEF ExpireKey, IdemInv, IdemTypeOK, IdemRow
<1>2. \A j \in Keys : idemRows'[j].hash = idemRows[j].hash /\ idemRows'[j].answer = idemRows[j].answer
  BY DEF ExpireKey, IdemInv, IdemTypeOK, IdemRow
<1>3. idemCalls' = idemCalls /\ executions' = executions
  BY DEF ExpireKey
<1>4. Placed' /\ OneHolder' /\ ReplayIsOwn' /\ NeverReexecuted'
  BY <1>3 DEF IdemInv, Placed, OneHolder, Holds, ReplayIsOwn, NeverReexecuted
<1>5. HolderReserved' /\ ExecutedReserved' /\ AnswerExecuted'
  BY <1>2, <1>3 DEF IdemInv, Placed, HolderReserved, ExecutedReserved, AnswerExecuted
<1> QED BY <1>1, <1>4, <1>5 DEF IdemInv

LEMMA IdemInvNext == IdemInv /\ [IdemNext]_idemVars => IdemInv'
<1> SUFFICES ASSUME IdemInv, [IdemNext]_idemVars PROVE IdemInv'
  OBVIOUS
<1>1. ASSUME NEW c \in Callers, NEW k \in Keys, NEW h \in Payloads, Issue(c, k, h)
      PROVE  IdemInv'
  BY <1>1, IssueKeeps
<1>2. ASSUME NEW c \in Callers,
             Lookup(c) \/ Reserve(c) \/ Execute(c) \/ Store(c) \/ Forget(c)
      PROVE  IdemInv'
  BY <1>2, LookupKeeps, ReserveKeeps, ExecuteKeeps, StoreKeeps, ForgetKeeps
<1>3. ASSUME NEW k \in Keys, ExpireKey(k) PROVE IdemInv'
  BY <1>3, ExpireKeeps
<1>4. CASE UNCHANGED idemVars
  BY <1>4 DEF idemVars, IdemInv, IdemTypeOK, Placed, OneHolder, Holds, HolderReserved,
     ExecutedReserved, AnswerExecuted, NeverReexecuted, ReplayIsOwn
<1> QED BY <1>1, <1>2, <1>3, <1>4 DEF IdemNext

LEMMA IdemInvAlways == IdemSpec => []IdemInv
<1> QED BY IdemInvInit, IdemInvNext, PTL DEF IdemSpec

\* The table and the commands keep their types.
THEOREM IdemTypeCorrect == IdemSpec => []IdemTypeOK
<1>1. IdemInv => IdemTypeOK
  BY DEF IdemInv
<1> QED BY IdemInvAlways, <1>1, PTL

\* Of any number of commands with one key, one at most is executed, through
\* expiries and processes that die at any moment.
THEOREM KeysNeverReexecute == IdemSpec => []NeverReexecuted
<1>1. IdemInv => NeverReexecuted
  BY DEF IdemInv
<1> QED BY IdemInvAlways, <1>1, PTL

\* An answer that is replayed belongs to the payload it is replayed for.
THEOREM AnswersAreOwn == IdemSpec => []ReplayIsOwn
<1>1. IdemInv => ReplayIsOwn
  BY DEF IdemInv
<1> QED BY IdemInvAlways, <1>1, PTL

(*****************************************************************************)
(* Domain state machines (DomainMachines)                                    *)
(*****************************************************************************)

\* An entity leaves no state that is final, and passed no state without its way in.
MachinesTrail ==
  LET table == machines[entity.machine] IN
  /\ entity = [machine |-> entity.machine, state |-> entity.state]
  /\ entity.state \in passed
  /\ \A s \in passed : s = entity.state \/ table[s] # {}
  /\ \A s \in passed : s \in FirstStates[entity.machine] \/ \E p \in passed : s \in table[p]
  /\ entity.machine = "referral_reward" /\ "CREDITED" \in passed
       => entity.state \in {"CREDITED", "REVERSED"}

MachinesInv == MachinesTypeOK /\ MachinesTrail

\* The tables are closed: every target is a state, and so is a first state.
Closed(m) ==
  /\ \A s \in DOMAIN machines[m] : machines[m][s] \subseteq DOMAIN machines[m]
  /\ FirstStates[m] \subseteq DOMAIN machines[m]

LEMMA MachineNames ==
  /\ DOMAIN machines = {"investment_round", "investment", "deposit", "withdrawal",
                        "referral_reward", "notification_delivery"}
  /\ machines["investment_round"] = RoundMachine /\ machines["investment"] = InvestmentMachine
  /\ machines["deposit"] = DepositMachine /\ machines["withdrawal"] = WithdrawalMachine
  /\ machines["referral_reward"] = RewardMachine
  /\ machines["notification_delivery"] = DeliveryMachine
BY DEF machines

LEMMA MachinesClosed == \A m \in DOMAIN machines : Closed(m)
<1>1. Closed("investment_round")
  BY MachineNames DEF Closed, RoundMachine, FirstStates
<1>2. Closed("investment")
  BY MachineNames DEF Closed, InvestmentMachine, FirstStates
<1>3. Closed("deposit")
  BY MachineNames DEF Closed, DepositMachine, FirstStates
<1>4. Closed("withdrawal")
  BY MachineNames DEF Closed, WithdrawalMachine, FirstStates
<1>5. Closed("referral_reward")
  BY MachineNames DEF Closed, RewardMachine, FirstStates
<1>6. Closed("notification_delivery")
  BY MachineNames DEF Closed, DeliveryMachine, FirstStates
<1> QED BY <1>1, <1>2, <1>3, <1>4, <1>5, <1>6, MachineNames

LEMMA MachinesInvInit == MachinesInit => MachinesInv
<1> SUFFICES ASSUME MachinesInit PROVE MachinesInv
  OBVIOUS
<1>0. PICK m \in DOMAIN machines :
        \E s \in FirstStates[m] : entity = [machine |-> m, state |-> s] /\ passed = {s}
  BY DEF MachinesInit
<1>1. PICK s \in FirstStates[m] : entity = [machine |-> m, state |-> s] /\ passed = {s}
  BY <1>0
<1>2. entity.machine = m /\ entity.state = s /\ s \in DOMAIN machines[m]
  BY <1>1, MachinesClosed DEF Closed
<1>3. MachinesTypeOK
  BY <1>1, <1>2 DEF MachinesTypeOK
<1>4. MachinesTrail
  BY <1>1, <1>2 DEF MachinesTrail, FirstStates
<1> QED BY <1>3, <1>4 DEF MachinesInv

LEMMA MachinesInvStep == MachinesInv /\ [MachinesNext]_machineVars => MachinesInv'
<1> SUFFICES ASSUME MachinesInv, [MachinesNext]_machineVars PROVE MachinesInv'
  OBVIOUS
<1>1. CASE UNCHANGED machineVars
  BY <1>1 DEF machineVars, MachinesInv, MachinesTypeOK, MachinesTrail
<1>2. CASE MachinesNext
  <2> DEFINE m == entity.machine
  <2>1. PICK s \in machines[m][entity.state] :
          entity' = [entity EXCEPT !.state = s] /\ passed' = passed \cup {s}
    BY <1>2 DEF MachinesNext
  <2>2. entity' = [machine |-> m, state |-> s] /\ entity'.machine = m /\ entity'.state = s
    BY <2>1 DEF MachinesInv, MachinesTrail
  <2>3. m \in DOMAIN machines /\ s \in DOMAIN machines[m] /\ machines[m][entity.state] # {}
    BY <2>1, MachinesClosed DEF MachinesInv, MachinesTypeOK, Closed
  <2>4. MachinesTypeOK'
    BY <2>1, <2>2, <2>3 DEF MachinesInv, MachinesTypeOK
  <2>5. ASSUME m = "referral_reward", "CREDITED" \in passed' PROVE s \in {"CREDITED", "REVERSED"}
    <3>1. CASE "CREDITED" \in passed
      <4>1. entity.state \in {"CREDITED", "REVERSED"} /\ s \in RewardMachine[entity.state]
        BY <2>1, <2>5, <3>1, MachineNames DEF MachinesInv, MachinesTrail
      <4> QED BY <4>1 DEF RewardMachine
    <3>2. CASE "CREDITED" \notin passed
      BY <2>1, <2>5, <3>2
    <3> QED BY <3>1, <3>2
  <2>6. MachinesTrail'
    BY <2>1, <2>2, <2>3, <2>5 DEF MachinesInv, MachinesTrail
  <2> QED BY <2>4, <2>6 DEF MachinesInv
<1> QED BY <1>1, <1>2

LEMMA MachinesInvMoves == MachinesInv => MoneyMovesOnce
<1> SUFFICES ASSUME MachinesInv PROVE MoneyMovesOnce
  OBVIOUS
<1>1. /\ entity.state \in passed
      /\ \A s \in passed : s = entity.state \/ machines[entity.machine][s] # {}
      /\ \A s \in passed : \/ s \in FirstStates[entity.machine]
                           \/ \E p \in passed : s \in machines[entity.machine][p]
      /\ passed \subseteq DOMAIN machines[entity.machine]
  BY DEF MachinesInv, MachinesTypeOK, MachinesTrail
<1>2. ASSUME entity.machine = "withdrawal"
      PROVE  /\ ~("COMPLETED" \in passed /\ "REJECTED_RELEASED" \in passed)
             /\ ~("COMPLETED" \in passed /\ "FAILED_RELEASED" \in passed)
             /\ passed \cap {"COMPLETED", "REJECTED_RELEASED", "FAILED_RELEASED"} # {} =>
                  "FUNDS_RESERVED" \in passed /\ "REJECTED" \notin passed
  <2>1. machines[entity.machine] = WithdrawalMachine
        /\ FirstStates[entity.machine] = {"REQUESTED"}
    BY <1>2, MachineNames DEF FirstStates
  <2>2. \A s \in {"COMPLETED", "REJECTED_RELEASED", "FAILED_RELEASED", "REJECTED"} :
          WithdrawalMachine[s] = {}
    BY DEF WithdrawalMachine
  <2>3. \A s \in {"COMPLETED", "REJECTED_RELEASED", "FAILED_RELEASED", "REJECTED"} :
          s \in passed => s = entity.state
    BY <1>1, <2>1, <2>2
  <2>4. \A p \in DOMAIN WithdrawalMachine :
          /\ WithdrawalMachine[p] \cap {"COMPLETED", "REJECTED_RELEASED", "FAILED_RELEASED"} # {}
               => p \in {"PENDING_MANUAL_PAYOUT", "FUNDS_RESERVED"}
          /\ "PENDING_MANUAL_PAYOUT" \in WithdrawalMachine[p] => p = "FUNDS_RESERVED"
    BY DEF WithdrawalMachine
  <2>5. "PENDING_MANUAL_PAYOUT" \in passed => "FUNDS_RESERVED" \in passed
    BY <1>1, <2>1, <2>4
  <2>6. passed \cap {"COMPLETED", "REJECTED_RELEASED", "FAILED_RELEASED"} # {}
          => "FUNDS_RESERVED" \in passed
    BY <1>1, <2>1, <2>4, <2>5
  <2> QED BY <2>3, <2>6
<1>3. ASSUME entity.machine = "investment"
      PROVE  ~("COMPLETED" \in passed /\ "REFUNDED" \in passed)
  <2>1. InvestmentMachine["COMPLETED"] = {} /\ InvestmentMachine["REFUNDED"] = {}
    BY DEF InvestmentMachine
  <2> QED BY <1>1, <1>3, <2>1, MachineNames
<1>4. ASSUME entity.machine = "deposit", "REVERSED" \in passed
      PROVE  "CREDITED" \in passed
  <2>1. \A p \in DOMAIN DepositMachine : "REVERSED" \in DepositMachine[p] => p = "CREDITED"
    BY DEF DepositMachine
  <2>2. FirstStates["deposit"] = {"INTENT_CREATED"}
    BY DEF FirstStates
  <2> QED BY <1>1, <1>4, <2>1, <2>2, MachineNames
<1>5. ASSUME entity.machine = "referral_reward"
      PROVE  ~("DISQUALIFIED" \in passed /\ "CREDITED" \in passed)
  <2>1. RewardMachine["DISQUALIFIED"] = {}
    BY DEF RewardMachine
  <2>2. "CREDITED" \in passed => entity.state \in {"CREDITED", "REVERSED"}
    BY <1>5 DEF MachinesInv, MachinesTrail
  <2> QED BY <1>1, <1>5, <2>1, <2>2, MachineNames
<1> QED BY <1>2, <1>3, <1>4, <1>5 DEF MoneyMovesOnce

\* The type invariant: an entity is in a state of its own machine.
THEOREM MachinesType == MachinesSpec => []MachinesTypeOK
<1>1. MachinesInv => MachinesTypeOK
  BY DEF MachinesInv
<1> QED BY <1>1, MachinesInvInit, MachinesInvStep, PTL DEF MachinesSpec

\* On whatever path, money moves once: what is final ends it, and what pays out
\* or releases has its way there behind it (MoneyMovesOnce).
THEOREM MoneyMoves == MachinesSpec => []MoneyMovesOnce
BY MachinesInvMoves, MachinesInvInit, MachinesInvStep, PTL DEF MachinesSpec

(*****************************************************************************)
(* Money (Economics)                                                         *)
(*****************************************************************************)

\* Rounding half up is exact to half a unit.
LEMMA MulBpsNearest ==
  ASSUME NEW amount \in Int, NEW bps \in Int
  PROVE  /\ amount * bps \in Int /\ MulBps(amount, bps) \in Int
         /\ 20000 * MulBps(amount, bps) - 10000 <= 2 * (amount * bps)
         /\ 2 * (amount * bps) < 20000 * MulBps(amount, bps) + 10000
<1> DEFINE e == amount * bps
<1>1. e \in Int
  OBVIOUS
<1>2. MulBps(amount, bps) = (2 * e + 10000) \div 20000
  BY DEF MulBps, DivRoundHalfUp
<1> HIDE DEF e
<1> DEFINE r == (2 * e + 10000) \div 20000
<1>3. r \in Int /\ 20000 * r <= 2 * e + 10000 /\ 2 * e + 10000 < 20000 * r + 20000
  BY <1>1
<1> HIDE DEF r
<1>4. 20000 * r - 10000 <= 2 * e /\ 2 * e < 20000 * r + 10000
  BY <1>1, <1>3
<1>5. MulBps(amount, bps) = r
  BY <1>2 DEF r
<1>6. amount * bps = e
  BY DEF e
<1> QED BY <1>1, <1>3, <1>4, <1>5, <1>6

LEMMA EconomicsExact == ASSUME ComputeEconomics PROVE MoneyIsExact'
<1>1. PICK price \in Int, qty \in Int, bps \in Int :
        worked' = [of |-> "economics", price |-> price, qty |-> qty, bps |-> bps,
                   profit |-> Profit(price, qty, bps),
                   maturity |-> MaturityValue(price, qty, bps)]
  BY EconomicsAssumption DEF ComputeEconomics
<1> DEFINE p == price * qty
           r == MulBps(p, bps)
<1>2. p \in Int
  OBVIOUS
<1>3. /\ p * bps \in Int /\ r \in Int /\ 20000 * r - 10000 <= 2 * (p * bps)
      /\ 2 * (p * bps) < 20000 * r + 10000
  BY <1>2, MulBpsNearest
<1>4. /\ worked'.of = "economics" /\ worked'.price * worked'.qty = p /\ worked'.bps = bps
      /\ worked'.profit = r /\ worked'.maturity = p + r
  BY <1>1 DEF Profit, MaturityValue
<1>5. worked'.price * worked'.qty * worked'.bps = p * bps
  BY <1>4
<1> HIDE DEF p, r
<1>6. worked'.maturity - worked'.price * worked'.qty = r
  BY <1>2, <1>3, <1>4
<1>7. ProfitIsNearest'
  BY <1>3, <1>4, <1>5, <1>6 DEF ProfitIsNearest
<1> QED BY <1>4, <1>7 DEF MoneyIsExact, FeeIsCapped, AmountIsExact

LEMMA FeeExact == ASSUME ComputeFee PROVE MoneyIsExact'
<1>1. PICK amount \in Int, bps \in Int, cap \in Nat :
        worked' = [of |-> "fee", amount |-> amount, bps |-> bps, cap |-> cap,
                   fee |-> PercentFeeCapped(amount, bps, cap)]
  BY EconomicsAssumption DEF ComputeFee
<1> DEFINE e == amount * bps
           r == MulBps(amount, bps)
           f == AtMost(r, cap)
<1>2. e \in Int /\ r \in Int /\ 20000 * r - 10000 <= 2 * e /\ 2 * e < 20000 * r + 10000
  BY MulBpsNearest
<1>3. /\ worked'.of = "fee" /\ worked'.amount * worked'.bps = e /\ worked'.cap = cap
      /\ worked'.fee = f
  BY <1>1 DEF PercentFeeCapped
<1> HIDE DEF e, r
<1>4. f \in Int /\ f <= cap /\ f <= r /\ f \in {r, cap}
  BY <1>2 DEF AtMost
<1> HIDE DEF f
<1>5. 20000 * f - 10000 <= 2 * e
  BY <1>2, <1>4
<1>6. e >= 10000 * cap => f = cap
  BY <1>2, <1>4
<1>7. 2 * worked'.amount * worked'.bps = 2 * e
  <2>1. worked'.amount = amount /\ worked'.bps = bps
    BY <1>1
  <2> QED BY <2>1 DEF e
<1>8. FeeIsCapped'
  BY <1>3, <1>4, <1>5, <1>6, <1>7 DEF FeeIsCapped
<1> QED BY <1>3, <1>8 DEF MoneyIsExact, ProfitIsNearest, AmountIsExact
\* What is typed after the point, as hundredths.
Hundredths(s) ==
  IF Len(s) = 0 THEN 0 ELSE IF Len(s) = 1 THEN 10 * s[1] ELSE 10 * s[1] + s[2]

LEMMA Padding ==
  ASSUME NEW len \in 0..2, NEW digits \in [1..len -> 0..9],
         NEW padded, padded = digits \o SubSeq(<<0, 0>>, 1, 2 - Len(digits))
  PROVE  /\ padded[1] \in Int /\ padded[2] \in Int
         /\ 10 * padded[1] + padded[2] = Hundredths(digits)
         /\ Hundredths(digits) \in 0..99
<1> DEFINE pad == SubSeq(<<0, 0>>, 1, 2 - Len(digits))
<1>1. digits \in Seq(0..9) /\ Len(digits) = len
  OBVIOUS
<1>2. pad \in Seq({0}) /\ Len(pad) = 2 - len /\ \A k \in 1..(2 - len) : pad[k] = 0
  <2>1. <<0, 0>> \in Seq({0}) /\ Len(<<0, 0>>) = 2 /\ <<0, 0>>[1] = 0 /\ <<0, 0>>[2] = 0
    OBVIOUS
  <2> QED BY <1>1, <2>1
<1>3. padded = digits \o pad
  OBVIOUS
<1> HIDE DEF pad
<1>4. \A k \in 1..2 : padded[k] = IF k <= len THEN digits[k] ELSE pad[k - len]
  BY <1>1, <1>2, <1>3
<1>5. CASE len = 0
  <2>1. padded[1] = 0 /\ padded[2] = 0 /\ Len(digits) = 0
    BY <1>1, <1>2, <1>4, <1>5
  <2> QED BY <2>1 DEF Hundredths
<1>6. CASE len = 1
  <2>1. PICK a \in 0..9 : a = digits[1]
    BY <1>6
  <2>2. padded[1] = a /\ padded[2] = 0
    BY <1>2, <1>4, <1>6, <2>1
  <2>3. Hundredths(digits) = 10 * a
    BY <1>1, <1>6, <2>1 DEF Hundredths
  <2>4. 10 * a + 0 = 10 * a /\ 10 * a \in 0..99 /\ a \in Int
    OBVIOUS
  <2> QED BY <2>2, <2>3, <2>4
<1>7. CASE len = 2
  <2>1. PICK a \in 0..9 : a = digits[1]
    BY <1>7
  <2>2. PICK b \in 0..9 : b = digits[2]
    BY <1>7
  <2>3. padded[1] = a /\ padded[2] = b
    BY <1>4, <1>7, <2>1, <2>2
  <2>4. Hundredths(digits) = 10 * a + b
    BY <1>1, <1>7, <2>1, <2>2 DEF Hundredths
  <2>5. 10 * a + b \in 0..99 /\ a \in Int /\ b \in Int
    OBVIOUS
  <2> QED BY <2>3, <2>4, <2>5
<1> QED BY <1>5, <1>6, <1>7

LEMMA Shown ==
  ASSUME NEW major \in Nat, NEW h \in 0..99
  PROVE  /\ Format(Scale * major + h).major = major
         /\ Hundredths(Format(Scale * major + h).digits) = h
<1> DEFINE a == Scale * major + h
           t == (a % 100) \div 10
           u == a % 10
<1>1. a \in Nat /\ a = 100 * major + h
  BY DEF Scale
<1>2. a \div 100 = major /\ a % 100 = h
  <2> HIDE DEF a
  <2> QED BY <1>1
<1>3. 10 * t + u = h
  <2> HIDE DEF a
  <2>1. a % 10 = h % 10
    BY <1>1
  <2> QED BY <1>2, <2>1
<1>4. Format(a).major = a \div 100 /\ Format(a).digits = <<t, u>>
  <2> HIDE DEF a
  <2> QED BY <1>1 DEF Format, Scale
<1> HIDE DEF t, u
<1>5. Hundredths(<<t, u>>) = 10 * t + u
  BY DEF Hundredths
<1> QED BY <1>2, <1>3, <1>4, <1>5

LEMMA AmountExact == ASSUME EnterAmount PROVE MoneyIsExact'
<1>1. PICK major \in Nat, len \in 0..2 : \E digits \in [1..len -> 0..9] :
        worked' = [of |-> "amount", major |-> major, digits |-> digits,
                   minor |-> ParseMajor(major, digits)]
  BY DEF EnterAmount
<1>2. PICK digits \in [1..len -> 0..9] :
        worked' = [of |-> "amount", major |-> major, digits |-> digits,
                   minor |-> ParseMajor(major, digits)]
  BY <1>1
<1>3. PICK padded : padded = digits \o SubSeq(<<0, 0>>, 1, 2 - Len(digits))
  OBVIOUS
<1>4. PICK h \in 0..99 : h = Hundredths(digits)
  BY <1>3, Padding
<1>5. padded[1] \in Int /\ padded[2] \in Int /\ 10 * padded[1] + padded[2] = h
  BY <1>3, <1>4, Padding
<1>6. ParseMajor(major, digits) = Scale * major + h
  <2>1. ParseMajor(major, digits) = major * Scale + 10 * padded[1] + padded[2]
    BY <1>3 DEF ParseMajor
  <2>2. PICK a \in Int : a = padded[1]
    BY <1>5
  <2>3. PICK b \in Int : b = padded[2]
    BY <1>5
  <2>4. major * Scale + 10 * a + b = Scale * major + (10 * a + b)
    BY DEF Scale
  <2>5. 10 * a + b = h /\ ParseMajor(major, digits) = major * Scale + 10 * a + b
    BY <1>5, <2>1, <2>2, <2>3
  <2> QED BY <2>4, <2>5
<1>7. /\ worked'.of = "amount" /\ worked'.major = major /\ worked'.digits = digits
      /\ worked'.minor = Scale * major + h
  BY <1>2, <1>6
<1>8. /\ Format(Scale * major + h).major = major
      /\ Hundredths(Format(Scale * major + h).digits) = h
  BY Shown
<1>9. /\ Format(worked'.minor).major = worked'.major
      /\ Hundredths(Format(worked'.minor).digits) = Hundredths(worked'.digits)
      /\ worked'.minor = Scale * worked'.major + Hundredths(worked'.digits)
  BY <1>4, <1>7, <1>8
<1>10. AmountIsExact'
  BY <1>9 DEF AmountIsExact, Hundredths
<1> QED BY <1>7, <1>10 DEF MoneyIsExact, ProfitIsNearest, FeeIsCapped

\* Whatever is computed, of whatever amounts: a profit is the nearest minor unit
\* of the whole principal's share, a fee is capped, an amount is what was entered
\* (MoneyIsExact).
THEOREM MoneyExact == EconSpec => []MoneyIsExact
<1>1. EconInit => MoneyIsExact
  BY DEF EconInit, MoneyIsExact, ProfitIsNearest, FeeIsCapped, AmountIsExact
<1>2. MoneyIsExact /\ [EconNext]_econVars => MoneyIsExact'
  <2> SUFFICES ASSUME MoneyIsExact, [EconNext]_econVars PROVE MoneyIsExact'
    OBVIOUS
  <2>1. CASE UNCHANGED econVars
    BY <2>1 DEF econVars, MoneyIsExact, ProfitIsNearest, FeeIsCapped, AmountIsExact
  <2>2. ASSUME ComputeMaturity PROVE MoneyIsExact'
    <3>1. worked'.of = "term"
      BY <2>2 DEF ComputeMaturity
    <3> QED BY <3>1 DEF MoneyIsExact, ProfitIsNearest, FeeIsCapped, AmountIsExact
  <2> QED BY <2>1, <2>2, EconomicsExact, FeeExact, AmountExact DEF EconNext
<1> QED BY <1>1, <1>2, PTL DEF EconSpec

(*****************************************************************************)
(* Calendar (Economics)                                                      *)
(*****************************************************************************)

LEMMA NatMin ==
  ASSUME NEW T \in SUBSET Nat, T # {}
  PROVE  \E x \in T : \A y \in T : x <= y
<1>1. PICK x \in T : \A y \in T : ~(<<y, x>> \in OpToRel(<, Nat))
  BY NatLessThanWellFounded, WFMin
<1>2. \A y \in T : ~(y < x)
  BY <1>1 DEF OpToRel
<1> QED BY <1>2

\* Days before the first of a month, counted as Elapsed counts them.
MonthBase(y, m) ==
  LET before == <<0, 31, 59, 90, 120, 151, 181, 212, 243, 273, 304, 334>>
      past == y - 1
  IN 365 * past + (past \div 4) - (past \div 100) + (past \div 400) + before[m]
       + (IF Leap(y) /\ m > 2 THEN 1 ELSE 0)

\* Months are numbered from the beginning of year 0.
Months == Nat \ (0..11)
MonthNo(i) == 12 * i.y + i.m - 1
BaseOf(k) == MonthBase(k \div 12, (k % 12) + 1)
LengthOf(k) == DaysInUtcMonth(k \div 12, (k % 12) + 1)

LEMMA DivStep ==
  ASSUME NEW y \in Nat \ {0}
  PROVE  /\ y \div 4 = ((y - 1) \div 4) + (IF y % 4 = 0 THEN 1 ELSE 0)
         /\ y \div 100 = ((y - 1) \div 100) + (IF y % 100 = 0 THEN 1 ELSE 0)
         /\ y \div 400 = ((y - 1) \div 400) + (IF y % 400 = 0 THEN 1 ELSE 0)
         /\ y % 100 = 0 => y % 4 = 0
         /\ y % 400 = 0 => y % 100 = 0
OBVIOUS

LEMMA YearStep ==
  ASSUME NEW y \in Nat \ {0}
  PROVE  MonthBase(y + 1, 1) = MonthBase(y, 12) + DaysInUtcMonth(y, 12)
<1>1. (y + 1) - 1 = y
  OBVIOUS
<1>2. MonthBase(y + 1, 1) = 365 * y + (y \div 4) - (y \div 100) + (y \div 400)
  BY <1>1 DEF MonthBase
<1>3. PICK a \in Int : a = (y - 1) \div 4
  OBVIOUS
<1>4. PICK b \in Int : b = (y - 1) \div 100
  OBVIOUS
<1>5. PICK c \in Int : c = (y - 1) \div 400
  OBVIOUS
<1>6. MonthBase(y, 12) = 365 * (y - 1) + a - b + c + 334 + (IF Leap(y) THEN 1 ELSE 0)
  BY <1>3, <1>4, <1>5 DEF MonthBase
<1>7. DaysInUtcMonth(y, 12) = 31
  BY DEF DaysInUtcMonth
<1>8. PICK fourth \in {0, 1} : fourth = IF y % 4 = 0 THEN 1 ELSE 0
  OBVIOUS
<1>9. PICK century \in {0, 1} : century = IF y % 100 = 0 THEN 1 ELSE 0
  OBVIOUS
<1>10. PICK fourthCentury \in {0, 1} : fourthCentury = IF y % 400 = 0 THEN 1 ELSE 0
  OBVIOUS
<1>11. y \div 4 = a + fourth /\ y \div 100 = b + century /\ y \div 400 = c + fourthCentury
  BY <1>3, <1>4, <1>5, <1>8, <1>9, <1>10, DivStep
<1>12. (IF Leap(y) THEN 1 ELSE 0) = fourth - century + fourthCentury
  BY <1>8, <1>9, <1>10, DivStep DEF Leap
<1>13. MonthBase(y + 1, 1) = 365 * y + (a + fourth) - (b + century) + (c + fourthCentury)
  BY <1>2, <1>11
<1>14. MonthBase(y, 12) = 365 * (y - 1) + a - b + c + 334 + (fourth - century + fourthCentury)
  BY <1>6, <1>12
<1> QED BY <1>7, <1>13, <1>14

LEMMA MonthStep ==
  ASSUME NEW y \in Nat \ {0}, NEW m \in 1..11
  PROVE  MonthBase(y, m + 1) = MonthBase(y, m) + DaysInUtcMonth(y, m)
<1> DEFINE before == <<0, 31, 59, 90, 120, 151, 181, 212, 243, 273, 304, 334>>
           past == y - 1
<1>1. PICK q \in Int : q = 365 * past + (past \div 4) - (past \div 100) + (past \div 400)
  OBVIOUS
<1>2. PICK leap \in {0, 1} : leap = IF Leap(y) THEN 1 ELSE 0
  OBVIOUS
<1>3. ASSUME NEW k \in 1..12 PROVE MonthBase(y, k) = q + before[k] + (IF k > 2 THEN leap ELSE 0)
  BY <1>1, <1>2 DEF MonthBase
<1>4. DaysInUtcMonth(y, m) = IF m = 2 THEN 28 + leap ELSE IF m \in {4, 6, 9, 11} THEN 30 ELSE 31
  BY <1>2 DEF DaysInUtcMonth
<1>5. \A k \in 1..11 : before[k + 1] = before[k] + IF k = 2 THEN 28 ELSE IF k \in {4, 6, 9, 11} THEN 30 ELSE 31
  OBVIOUS
<1>6. \A k \in 1..12 : before[k] \in Int
  OBVIOUS
<1>7. m + 1 \in 1..12 /\ m \in 1..12
  OBVIOUS
<1>8. PICK u \in Int : u = before[m]
  BY <1>6, <1>7
<1>9. PICK v \in Int : v = before[m + 1]
  BY <1>6, <1>7
<1>10. /\ MonthBase(y, m) = q + u + (IF m > 2 THEN leap ELSE 0)
       /\ MonthBase(y, m + 1) = q + v + (IF m + 1 > 2 THEN leap ELSE 0)
       /\ v = u + IF m = 2 THEN 28 ELSE IF m \in {4, 6, 9, 11} THEN 30 ELSE 31
  BY <1>3, <1>5, <1>7, <1>8, <1>9
<1> HIDE DEF before, past
<1>11. CASE m = 2
  BY <1>4, <1>10, <1>11
<1>12. CASE m = 1
  BY <1>4, <1>10, <1>12
<1>13. CASE m > 2
  BY <1>4, <1>10, <1>13
<1> QED BY <1>11, <1>12, <1>13

LEMMA MonthTypes ==
  ASSUME NEW k \in Months
  PROVE  /\ k + 1 \in Months /\ k \div 12 \in Nat \ {0} /\ (k % 12) + 1 \in 1..12
         /\ BaseOf(k) \in Int /\ LengthOf(k) \in 28..31
<1>1. k \in Nat /\ k >= 12
  BY DEF Months
<1>2. PICK y \in Nat \ {0} : y = k \div 12
  BY <1>1
<1>3. PICK m \in 1..12 : m = (k % 12) + 1
  BY <1>1
<1>4. DaysInUtcMonth(y, m) \in 28..31
  BY DEF DaysInUtcMonth
<1>5. MonthBase(y, m) \in Int
  <2> DEFINE before == <<0, 31, 59, 90, 120, 151, 181, 212, 243, 273, 304, 334>>
             past == y - 1
  <2>1. PICK q \in Int : q = 365 * past + (past \div 4) - (past \div 100) + (past \div 400)
    OBVIOUS
  <2>2. before[m] \in Int
    OBVIOUS
  <2>3. PICK leap \in Int : leap = IF Leap(y) /\ m > 2 THEN 1 ELSE 0
    OBVIOUS
  <2>4. MonthBase(y, m) = q + before[m] + leap
    BY <2>1, <2>3 DEF MonthBase
  <2> HIDE DEF before
  <2> QED BY <2>2, <2>4
<1>6. k + 1 \in Months
  BY <1>1 DEF Months
<1> QED BY <1>2, <1>3, <1>4, <1>5, <1>6 DEF BaseOf, LengthOf

LEMMA NextMonth ==
  ASSUME NEW k \in Months
  PROVE  BaseOf(k + 1) = BaseOf(k) + LengthOf(k)
<1>1. k \in Nat /\ k >= 12
  BY DEF Months
<1>2. PICK y \in Nat \ {0} : y = k \div 12
  BY <1>1
<1>3. PICK m \in 1..12 : m = (k % 12) + 1
  BY <1>1
<1>4. k = 12 * y + (m - 1)
  BY <1>1, <1>2, <1>3
<1>5. BaseOf(k) = MonthBase(y, m) /\ LengthOf(k) = DaysInUtcMonth(y, m)
  BY <1>2, <1>3 DEF BaseOf, LengthOf
<1>6. CASE m = 12
  <2>1. (k + 1) \div 12 = y + 1 /\ ((k + 1) % 12) + 1 = 1
    BY <1>4, <1>6
  <2>2. BaseOf(k + 1) = MonthBase(y + 1, 1)
    BY <2>1 DEF BaseOf
  <2> QED BY <1>5, <1>6, <2>2, YearStep
<1>7. CASE m \in 1..11
  <2>1. (k + 1) \div 12 = y /\ ((k + 1) % 12) + 1 = m + 1
    BY <1>4, <1>7
  <2>2. BaseOf(k + 1) = MonthBase(y, m + 1)
    BY <2>1 DEF BaseOf
  <2> QED BY <1>5, <1>7, <2>2, MonthStep
<1> QED BY <1>6, <1>7

\* Months are four weeks or more, so n of them are: there is no smallest n
\* that says otherwise.
LEMMA MonthsApart ==
  ASSUME NEW k \in Months, NEW n \in Nat
  PROVE  k + n \in Months /\ BaseOf(k + n) >= BaseOf(k) + 28 * n
<1> DEFINE Short == {x \in Nat : ~(BaseOf(k + x) >= BaseOf(k) + 28 * x)}
<1>0. \A x \in Nat : k + x \in Months
  BY DEF Months
<1>1. SUFFICES ASSUME Short # {} PROVE FALSE
  BY <1>0
<1>2. PICK x \in Short : \A y \in Short : x <= y
  <2>1. Short \in SUBSET Nat
    OBVIOUS
  <2> HIDE DEF Short
  <2> QED BY <1>1, <2>1, NatMin
<1>3. x # 0
  <2>1. k + 0 = k /\ BaseOf(k) \in Int
    BY MonthTypes DEF Months
  <2> QED BY <2>1
<1>4. PICK p \in Nat : p = x - 1
  BY <1>3
<1>5. BaseOf(k + p) >= BaseOf(k) + 28 * p
  BY <1>2, <1>4
<1>6. PICK l \in Months : l = k + p
  BY <1>0
<1>7. k + x = l + 1
  BY <1>4, <1>6 DEF Months
<1>8. BaseOf(l + 1) = BaseOf(l) + LengthOf(l) /\ BaseOf(l) \in Int /\ LengthOf(l) \in 28..31
      /\ BaseOf(k) \in Int
  BY NextMonth, MonthTypes
<1>9. BaseOf(k + x) >= BaseOf(k) + 28 * x
  BY <1>4, <1>5, <1>6, <1>7, <1>8
<1> QED BY <1>9

LEMMA LaterMonth ==
  ASSUME NEW k \in Months, NEW n \in Nat \ {0}
  PROVE  /\ k + n \in Months
         /\ BaseOf(k + n) >= BaseOf(k) + LengthOf(k) + 28 * (n - 1)
<1>1. k + 1 \in Months /\ BaseOf(k + 1) = BaseOf(k) + LengthOf(k)
  BY MonthTypes, NextMonth
<1>2. PICK p \in Nat : p = n - 1
  OBVIOUS
<1>3. (k + 1) + p \in Months /\ BaseOf((k + 1) + p) >= BaseOf(k + 1) + 28 * p
  BY <1>1, MonthsApart
<1>4. (k + 1) + p = k + n
  BY <1>2 DEF Months
<1> QED BY <1>1, <1>2, <1>3, <1>4

(***************************************************************************)
(* Dates                                                                   *)
(***************************************************************************)
Dates == {i \in [y : Nat \ {0}, m : 1..12, d : 1..31, h : 0..23] :
            i.d <= DaysInUtcMonth(i.y, i.m)}

LEMMA MonthSplit ==
  ASSUME NEW y \in Nat \ {0}, NEW m \in 1..12
  PROVE  (12 * y + m - 1) \div 12 = y /\ ((12 * y + m - 1) % 12) + 1 = m
OBVIOUS

LEMMA IndexSplit ==
  ASSUME NEW y \in Nat \ {0}, NEW index \in Nat
  PROVE  /\ y + (index \div 12) \in Nat \ {0} /\ 1 + (index % 12) \in 1..12
         /\ 12 * (y + (index \div 12)) + (1 + (index % 12)) - 1 = 12 * y + index
<1>1. PICK q \in Nat : q = index \div 12
  OBVIOUS
<1>2. PICK r \in 0..11 : r = index % 12
  OBVIOUS
<1>3. index = 12 * q + r
  BY <1>1, <1>2
<1> QED BY <1>1, <1>2, <1>3

LEMMA DateIs ==
  ASSUME NEW i \in Dates
  PROVE  /\ MonthNo(i) \in Months /\ i.d \in 1..LengthOf(MonthNo(i)) /\ i.h \in 0..23
         /\ Elapsed(i) = 24 * (BaseOf(MonthNo(i)) + i.d) + i.h
<1>1. /\ i.y \in Nat \ {0} /\ i.m \in 1..12 /\ i.d \in 1..31 /\ i.h \in 0..23
      /\ i.d <= DaysInUtcMonth(i.y, i.m)
  BY DEF Dates
<1>2. PICK k \in Months : k = MonthNo(i)
  BY <1>1 DEF Months, MonthNo
<1>3. k \div 12 = i.y /\ (k % 12) + 1 = i.m
  <2>1. k = 12 * i.y + i.m - 1
    BY <1>2 DEF MonthNo
  <2>2. /\ (12 * i.y + i.m - 1) \div 12 = i.y
        /\ ((12 * i.y + i.m - 1) % 12) + 1 = i.m
    BY <1>1, MonthSplit
  <2> QED BY <2>1, <2>2
<1>4. BaseOf(k) = MonthBase(i.y, i.m) /\ LengthOf(k) = DaysInUtcMonth(i.y, i.m)
  BY <1>3 DEF BaseOf, LengthOf
<1>5. Elapsed(i) = 24 * (MonthBase(i.y, i.m) + i.d) + i.h
  BY DEF Elapsed, MonthBase
<1>6. LengthOf(k) \in 28..31
  BY MonthTypes
<1> QED BY <1>1, <1>2, <1>4, <1>5, <1>6

LEMMA AddIs ==
  ASSUME NEW i \in Dates, NEW n \in Nat, NEW j, j = AddUtcMonths(i, n)
  PROVE  /\ j \in Dates /\ MonthNo(j) = MonthNo(i) + n /\ j.h = i.h
         /\ j.d = AtMost(i.d, LengthOf(MonthNo(i) + n))
<1>1. /\ i.y \in Nat \ {0} /\ i.m \in 1..12 /\ i.d \in 1..31 /\ i.h \in 0..23
      /\ i = [y |-> i.y, m |-> i.m, d |-> i.d, h |-> i.h]
  BY DEF Dates
<1>2. PICK index \in Nat : index = i.m - 1 + n
  BY <1>1
<1>3. PICK y \in Nat \ {0} : y = i.y + (index \div 12)
  BY <1>1, IndexSplit
<1>4. PICK m \in 1..12 : m = 1 + (index % 12)
  BY <1>1, IndexSplit
<1>5. 12 * y + m - 1 = MonthNo(i) + n
  <2>1. 12 * y + m - 1 = 12 * i.y + index
    BY <1>1, <1>3, <1>4, IndexSplit
  <2> QED BY <1>1, <1>2, <2>1 DEF MonthNo
<1>6. PICK k \in Months : k = MonthNo(i) + n
  BY <1>5 DEF Months
<1>7. k \div 12 = y /\ (k % 12) + 1 = m
  <2>1. k = 12 * y + m - 1
    BY <1>5, <1>6
  <2>2. (12 * y + m - 1) \div 12 = y /\ ((12 * y + m - 1) % 12) + 1 = m
    BY MonthSplit
  <2> QED BY <2>1, <2>2
<1>8. LengthOf(k) = DaysInUtcMonth(y, m) /\ LengthOf(k) \in 28..31
  BY <1>7, MonthTypes DEF LengthOf
<1>9. j = [i EXCEPT !.y = y, !.m = m, !.d = AtMost(i.d, LengthOf(k))]
  BY <1>2, <1>3, <1>4, <1>8 DEF AddUtcMonths
<1>10. PICK d \in 1..31 : d = AtMost(i.d, LengthOf(k)) /\ d <= LengthOf(k)
  BY <1>1, <1>8 DEF AtMost
<1>11. j = [y |-> y, m |-> m, d |-> d, h |-> i.h]
  BY <1>1, <1>9, <1>10
<1>12. j \in Dates
  BY <1>1, <1>8, <1>10, <1>11 DEF Dates
<1> QED BY <1>5, <1>6, <1>10, <1>11, <1>12 DEF MonthNo

\* Dates in order stay in order to the day, when months are added to both.
LEMMA AddsInOrder ==
  ASSUME NEW i \in Dates, NEW f \in Dates, NEW n \in Nat, Elapsed(i) <= Elapsed(f)
  PROVE  Elapsed(AddUtcMonths(i, n)) < Elapsed(AddUtcMonths(f, n)) + 24
<1>1. PICK a \in Months : a = MonthNo(i)
  BY DateIs
<1>2. PICK b \in Months : b = MonthNo(f)
  BY DateIs
<1>3. PICK j \in Dates : j = AddUtcMonths(i, n)
  BY AddIs
<1>4. PICK g \in Dates : g = AddUtcMonths(f, n)
  BY AddIs
<1>5. /\ i.d \in 1..LengthOf(a) /\ i.h \in 0..23 /\ Elapsed(i) = 24 * (BaseOf(a) + i.d) + i.h
      /\ f.d \in 1..LengthOf(b) /\ f.h \in 0..23 /\ Elapsed(f) = 24 * (BaseOf(b) + f.d) + f.h
  BY <1>1, <1>2, DateIs
<1>6. /\ MonthNo(j) = a + n /\ j.h = i.h /\ j.d = AtMost(i.d, LengthOf(a + n))
      /\ MonthNo(g) = b + n /\ g.h = f.h /\ g.d = AtMost(f.d, LengthOf(b + n))
  BY <1>1, <1>2, <1>3, <1>4, AddIs
<1>7. /\ a + n \in Months /\ j.d \in 1..LengthOf(a + n)
      /\ Elapsed(j) = 24 * (BaseOf(a + n) + j.d) + j.h
      /\ b + n \in Months /\ g.d \in 1..LengthOf(b + n)
      /\ Elapsed(g) = 24 * (BaseOf(b + n) + g.d) + g.h
  BY <1>6, DateIs
<1>8. /\ BaseOf(a) \in Int /\ BaseOf(b) \in Int /\ LengthOf(a) \in 28..31
      /\ LengthOf(b) \in 28..31 /\ BaseOf(a + n) \in Int /\ BaseOf(b + n) \in Int
      /\ LengthOf(a + n) \in 28..31 /\ LengthOf(b + n) \in 28..31
  BY <1>7, MonthTypes
<1>9. ~(b < a)
  <2> SUFFICES ASSUME b < a PROVE FALSE
    OBVIOUS
  <2>1. PICK x \in Nat \ {0} : a = b + x
    <3>1. a - b \in Nat \ {0} /\ a = b + (a - b)
      BY DEF Months
    <3> QED BY <3>1
  <2>2. BaseOf(a) >= BaseOf(b) + LengthOf(b) + 28 * (x - 1)
    BY <2>1, LaterMonth
  <2> QED BY <1>5, <1>8, <2>1, <2>2
<1>10. CASE a = b
  <2>1. i.d <= f.d
    BY <1>5, <1>8, <1>10
  <2>2. j.d <= g.d
    BY <1>5, <1>6, <1>8, <1>10, <2>1 DEF AtMost
  <2> QED BY <1>3, <1>4, <1>5, <1>6, <1>7, <1>8, <1>10, <2>2
<1>11. CASE a < b
  <2>1. PICK x \in Nat \ {0} : b = a + x
    <3>1. b - a \in Nat \ {0} /\ b = a + (b - a)
      BY <1>11 DEF Months
    <3> QED BY <3>1
  <2>2. (a + n) + x = b + n
    BY <2>1 DEF Months
  <2>3. BaseOf(b + n) >= BaseOf(a + n) + LengthOf(a + n) + 28 * (x - 1)
    BY <1>7, <2>2, LaterMonth
  <2> QED BY <1>3, <1>4, <1>5, <1>6, <1>7, <1>8, <2>1, <2>3
<1> QED BY <1>9, <1>10, <1>11 DEF Months

\* A term of months is four weeks each or more.
LEMMA AddsLong ==
  ASSUME NEW i \in Dates, NEW n \in Nat
  PROVE  Elapsed(AddUtcMonths(i, n)) - Elapsed(i) >= 672 * n
<1>1. PICK a \in Months : a = MonthNo(i)
  BY DateIs
<1>2. PICK j \in Dates : j = AddUtcMonths(i, n)
  BY AddIs
<1>3. /\ i.d \in 1..LengthOf(a) /\ i.h \in 0..23 /\ Elapsed(i) = 24 * (BaseOf(a) + i.d) + i.h
  BY <1>1, DateIs
<1>4. /\ MonthNo(j) = a + n /\ j.h = i.h /\ j.d = AtMost(i.d, LengthOf(a + n))
  BY <1>1, <1>2, AddIs
<1>5. /\ a + n \in Months /\ j.d \in 1..LengthOf(a + n)
      /\ Elapsed(j) = 24 * (BaseOf(a + n) + j.d) + j.h
  BY <1>4, DateIs
<1>6. /\ BaseOf(a) \in Int /\ LengthOf(a) \in 28..31 /\ BaseOf(a + n) \in Int
      /\ LengthOf(a + n) \in 28..31
  BY <1>5, MonthTypes
<1>7. BaseOf(a + n) + j.d >= BaseOf(a) + i.d + 28 * n
  <2>1. CASE i.d <= LengthOf(a + n)
    <3>1. j.d = i.d
      BY <1>3, <1>4, <1>6, <2>1 DEF AtMost
    <3>2. BaseOf(a + n) >= BaseOf(a) + 28 * n
      BY MonthsApart
    <3> QED BY <1>3, <1>6, <3>1, <3>2
  <2>2. CASE i.d > LengthOf(a + n)
    <3>1. j.d = LengthOf(a + n)
      BY <1>3, <1>4, <1>6, <2>2 DEF AtMost
    <3>2. n # 0
      <4>1. n = 0 => a + n = a
        BY DEF Months
      <4> QED BY <1>3, <1>6, <2>2, <4>1
    <3>3. BaseOf(a + n) >= BaseOf(a) + LengthOf(a) + 28 * (n - 1)
      BY <3>2, LaterMonth
    <3> QED BY <1>3, <1>6, <3>1, <3>3
  <2> QED BY <1>3, <1>6, <2>1, <2>2
<1> QED BY <1>2, <1>3, <1>4, <1>5, <1>6, <1>7

LEMMA TermsInOrder ==
  ASSUME NEW i \in Dates, NEW f \in Dates, NEW value \in Nat, NEW unit \in DurationUnits,
         Elapsed(i) <= Elapsed(f)
  PROVE  MaturesAt(i, value, unit) < MaturesAt(f, value, unit) + 24
<1>1. Elapsed(i) \in Int /\ Elapsed(f) \in Int
  <2>1. ASSUME NEW a \in Dates PROVE Elapsed(a) \in Int
    <3>1. /\ MonthNo(a) \in Months /\ a.h \in 0..23 /\ a.d \in Int
          /\ Elapsed(a) = 24 * (BaseOf(MonthNo(a)) + a.d) + a.h
      BY DateIs DEF Dates
    <3>2. BaseOf(MonthNo(a)) \in Int
      BY <3>1, MonthTypes
    <3> QED BY <3>1, <3>2
  <2> QED BY <2>1
<1>2. CASE unit \in {"HOURS", "DAYS", "WEEKS"}
  BY <1>1, <1>2 DEF MaturesAt
<1>3. CASE unit = "MONTHS"
  BY <1>3, AddsInOrder DEF MaturesAt
<1>4. CASE unit = "YEARS"
  <2>1. 12 * value \in Nat
    OBVIOUS
  <2>2. Elapsed(AddUtcMonths(i, 12 * value)) < Elapsed(AddUtcMonths(f, 12 * value)) + 24
    BY <2>1, AddsInOrder
  <2> QED BY <1>4, <2>2 DEF MaturesAt
<1> QED BY <1>2, <1>3, <1>4 DEF DurationUnits

\* Terms of any length, from any dates, keep the order of activations to the day
\* (MaturityKeepsOrder).
THEOREM MaturitiesInOrder == EconSpec => []MaturityKeepsOrder
<1>1. EconInit => MaturityKeepsOrder
  BY DEF EconInit, MaturityKeepsOrder
<1>2. MaturityKeepsOrder /\ [EconNext]_econVars => MaturityKeepsOrder'
  <2> SUFFICES ASSUME MaturityKeepsOrder, [EconNext]_econVars PROVE MaturityKeepsOrder'
    OBVIOUS
  <2>1. CASE UNCHANGED econVars
    BY <2>1 DEF econVars, MaturityKeepsOrder
  <2>2. CASE ComputeMaturity
    <3>1. PICK f \in Activations : \E value \in TermValues, unit \in DurationUnits :
            worked' = [of |-> "term", from |-> f, value |-> value, unit |-> unit,
                       matures |-> MaturesAt(f, value, unit)]
      BY <2>2 DEF ComputeMaturity
    <3>2. PICK value \in TermValues, unit \in DurationUnits :
            worked' = [of |-> "term", from |-> f, value |-> value, unit |-> unit,
                       matures |-> MaturesAt(f, value, unit)]
      BY <3>1
    <3>3. Activations \subseteq Dates /\ value \in Nat
      BY CalendarAssumption DEF Dates
    <3>4. \A i \in Activations : Elapsed(i) <= Elapsed(f) =>
            MaturesAt(i, value, unit) < MaturesAt(f, value, unit) + 24
      BY <3>3, TermsInOrder
    <3>5. unit = "MONTHS" => MaturesAt(f, value, unit) - Elapsed(f) >= 672 * value
      BY <3>3, AddsLong DEF MaturesAt
    <3>6. /\ worked'.from = f /\ worked'.value = value /\ worked'.unit = unit
          /\ worked'.matures = MaturesAt(f, value, unit)
      BY <3>2
    <3> QED BY <3>4, <3>5, <3>6 DEF MaturityKeepsOrder
  <2>3. CASE ComputeEconomics \/ ComputeFee \/ EnterAmount
    <3>1. worked'.of \in {"economics", "fee", "amount"}
      BY <2>3 DEF ComputeEconomics, ComputeFee, EnterAmount
    <3> QED BY <3>1 DEF MaturityKeepsOrder
  <2> QED BY <2>1, <2>2, <2>3 DEF EconNext
<1> QED BY <1>1, <1>2, PTL DEF EconSpec

(*****************************************************************************)
(* Provisioning of users (Profiles)                                          *)
(*****************************************************************************)

ProfileRows == [email : Emails \cup {NoEmail}, username : Names \cup {NoName},
                code : (Bases \X CodeSuffixes) \cup {NoCode}, there : BOOLEAN]
ProfileRequests ==
  [at : {"idle", "select", "code", "insert", "reselect", "sync", "served", "failed"},
   subject : Subjects \cup {NoSubject}, email : Emails \cup {NoEmail},
   code : (Bases \X CodeSuffixes) \cup {NoCode}, known : BOOLEAN, raced : BOOLEAN]

\* A request that is not idle has its identity's token; one that found the row
\* to update, or whose identity has had its row meanwhile, still finds it.
RequestKept(q) ==
  /\ q.at # "idle" => q.subject \in Subjects /\ q.email \in Emails
  /\ q.at = "sync" => There(q.subject)
  /\ q.known => q.at \notin {"idle", "failed"} /\ There(q.subject)

\* A numbered code that was found free is free, unless another request took it.
CodeFree(q) ==
  (q.at = "insert" /\ q.code # NoCode /\ ~q.raced) =>
    q.code[2] \in Randoms \/ q.code \notin CodesInUse

ProfileInv ==
  /\ ProfileTypeOK
  /\ \A c \in Requests : RequestKept(profileCalls[c]) /\ CodeFree(profileCalls[c])

LEMMA ProfileNothing ==
  /\ NoProfile \in ProfileRows /\ ~NoProfile.there
  /\ NoProfileCall \in ProfileRequests /\ NoProfileCall.at = "idle" /\ ~NoProfileCall.known
BY DEF NoProfile, NoProfileCall, ProfileRows, ProfileRequests

LEMMA ProfileInvInit == ProfileInit => ProfileInv
<1> SUFFICES ASSUME ProfileInit PROVE ProfileInv
  OBVIOUS
<1>1. ProfileTypeOK
  BY ProfileNothing DEF ProfileInit, ProfileTypeOK, ProfileRows, ProfileRequests
<1>2. \A c \in Requests : profileCalls[c] = NoProfileCall
  BY DEF ProfileInit
<1> QED BY <1>1, <1>2, ProfileNothing DEF ProfileInv, RequestKept, CodeFree

\* A request moves while the rows stay.
LEMMA RequestMoves ==
  ASSUME ProfileInv, NEW c \in Requests, NEW q \in ProfileRequests,
         profileCalls' = [profileCalls EXCEPT ![c] = q], UNCHANGED profiles,
         RequestKept(q), CodeFree(q)
  PROVE  ProfileInv'
<1>1. profileCalls \in [Requests -> ProfileRequests]
  BY DEF ProfileInv, ProfileTypeOK, ProfileRequests
<1>2. profileCalls' \in [Requests -> ProfileRequests]
      /\ \A d \in Requests : profileCalls'[d] = IF d = c THEN q ELSE profileCalls[d]
  BY <1>1
<1>3. ProfileTypeOK'
  BY <1>2 DEF ProfileInv, ProfileTypeOK, ProfileRequests
<1>4. ASSUME NEW d \in Requests PROVE (RequestKept(profileCalls[d]) /\ CodeFree(profileCalls[d]))'
  BY <1>2 DEF ProfileInv, RequestKept, CodeFree, There, CodesInUse
<1> QED BY <1>3, <1>4 DEF ProfileInv

\* It moves on, with what it has.
LEMMA GoesKeeps ==
  ASSUME ProfileInv, NEW c \in Requests, profileCalls[c].at # "idle",
         \/ Goes(c, "code") \/ Goes(c, "served") \/ Goes(c, "reselect")
         \/ Goes(c, "sync") /\ There(profileCalls[c].subject)
  PROVE  ProfileInv'
<1>1. PICK at \in {"code", "served", "sync", "reselect"} :
        Goes(c, at) /\ (at = "sync" => There(profileCalls[c].subject))
  OBVIOUS
<1> DEFINE q == [profileCalls[c] EXCEPT !.at = at]
<1>2. profileCalls[c] \in ProfileRequests /\ RequestKept(profileCalls[c])
  BY DEF ProfileInv, ProfileTypeOK, ProfileRequests
<1>3. /\ q \in ProfileRequests /\ q.at = at /\ q.subject = profileCalls[c].subject
      /\ q.email = profileCalls[c].email /\ q.known = profileCalls[c].known
  BY <1>2 DEF ProfileRequests
<1>4. profileCalls' = [profileCalls EXCEPT ![c] = q] /\ UNCHANGED profiles
  BY <1>1 DEF Goes
<1> HIDE DEF q
<1>5. RequestKept(q) /\ CodeFree(q)
  BY <1>1, <1>2, <1>3 DEF RequestKept, CodeFree
<1> QED BY <1>3, <1>4, <1>5, RequestMoves

LEMMA RequestKeeps ==
  ASSUME ProfileInv, NEW c \in Requests, NEW s \in Subjects, NEW e \in EmailsOf[s],
         Request(c, s, e)
  PROVE  ProfileInv'
<1> DEFINE q == [NoProfileCall EXCEPT !.at = "select", !.subject = s, !.email = e,
                   !.known = There(s)]
<1>1. e \in Emails /\ There(s) \in BOOLEAN
  BY DEF Emails, There, ProfileInv, ProfileTypeOK
<1>2. q \in ProfileRequests /\ q.at = "select" /\ q.subject = s /\ q.email = e
      /\ q.known = There(s)
  BY <1>1 DEF NoProfileCall, ProfileRequests
<1>3. profileCalls' = [profileCalls EXCEPT ![c] = q] /\ UNCHANGED profiles
  BY DEF Request
<1> HIDE DEF q
<1>4. RequestKept(q) /\ CodeFree(q)
  BY <1>1, <1>2 DEF RequestKept, CodeFree
<1> QED BY <1>2, <1>3, <1>4, RequestMoves

\* uniqueReferralCode answers a code that is free, or a random one.
LEMMA UniqueCodesAre ==
  ASSUME NEW name \in Names \cup {NoName}, NEW code \in UniqueCodes(name)
  PROVE  /\ code \in (Bases \X CodeSuffixes) \cup {NoCode}
         /\ code # NoCode => code[2] \in Randoms \/ code \notin CodesInUse
<1> DEFINE free == {i \in 0..MaxSuffix : <<Base[name], i>> \notin CodesInUse}
<1>1. CASE name = NoName
  BY <1>1 DEF UniqueCodes
<1>2. CASE name # NoName /\ free = {}
  <2>1. PICK r \in Randoms : code = <<Base[name], r>>
    BY <1>2 DEF UniqueCodes
  <2> QED BY <1>2, <2>1 DEF Bases, CodeSuffixes
<1>3. CASE name # NoName /\ free # {}
  <2>1. free \in SUBSET Nat
    BY ProfilesAssumption
  <2>2. \E i \in free : \A j \in free : i <= j
    BY <1>3, <2>1, NatMin
  <2> DEFINE i == CHOOSE i \in free : \A j \in free : i <= j
  <2>3. i \in free
    BY <2>2
  <2>4. code = <<Base[name], i>>
    BY <1>3 DEF UniqueCodes
  <2> HIDE DEF i
  <2>5. Base[name] \in Bases /\ i \in CodeSuffixes /\ <<Base[name], i>> \notin CodesInUse
    BY <1>3, <2>3 DEF Bases, CodeSuffixes
  <2> QED BY <2>4, <2>5
<1> QED BY <1>1, <1>2, <1>3

LEMMA PickCodeKeeps == ASSUME ProfileInv, NEW c \in Requests, PickCode(c) PROVE ProfileInv'
<1> DEFINE s == profileCalls[c].subject
<1>1. profileCalls[c] \in ProfileRequests /\ RequestKept(profileCalls[c])
      /\ profileCalls[c].at = "code"
  BY DEF ProfileInv, ProfileTypeOK, ProfileRequests, PickCode
<1>2. NameOf[s] \in Names \cup {NoName}
  BY <1>1, ProfilesAssumption DEF RequestKept
<1>3. PICK code \in UniqueCodes(NameOf[s]) :
        profileCalls' = [profileCalls EXCEPT ![c].at = "insert", ![c].code = code]
  BY DEF PickCode
<1>4. /\ code \in (Bases \X CodeSuffixes) \cup {NoCode}
      /\ code # NoCode => code[2] \in Randoms \/ code \notin CodesInUse
  BY <1>2, UniqueCodesAre
<1> DEFINE q == [profileCalls[c] EXCEPT !.at = "insert", !.code = code]
<1>5. /\ q \in ProfileRequests /\ q.at = "insert" /\ q.code = code /\ q.subject = s
      /\ q.email = profileCalls[c].email /\ q.known = profileCalls[c].known
  BY <1>1, <1>4 DEF ProfileRequests
<1>6. profileCalls' = [profileCalls EXCEPT ![c] = q] /\ UNCHANGED profiles
  BY <1>3 DEF PickCode
<1> HIDE DEF q, s
<1>7. RequestKept(q) /\ CodeFree(q)
  BY <1>1, <1>4, <1>5 DEF RequestKept, CodeFree, s
<1> QED BY <1>5, <1>6, <1>7, RequestMoves
LEMMA SelectUserKeeps == ASSUME ProfileInv, NEW c \in Requests, SelectUser(c) PROVE ProfileInv'
BY GoesKeeps DEF SelectUser

\* A failed request found no row on reselect: there has been none.
LEMMA ReselectKeeps == ASSUME ProfileInv, NEW c \in Requests, Reselect(c) PROVE ProfileInv'
<1>1. profileCalls[c].at = "reselect"
  BY DEF Reselect
<1>2. CASE There(profileCalls[c].subject)
  BY <1>1, <1>2, GoesKeeps DEF Reselect, AfterReselect
<1>3. CASE ~There(profileCalls[c].subject)
  <2> DEFINE q == [profileCalls[c] EXCEPT !.at = "failed"]
  <2>1. profileCalls[c] \in ProfileRequests /\ RequestKept(profileCalls[c])
    BY DEF ProfileInv, ProfileTypeOK, ProfileRequests
  <2>2. /\ q \in ProfileRequests /\ q.at = "failed" /\ q.subject = profileCalls[c].subject
        /\ q.email = profileCalls[c].email /\ q.known = profileCalls[c].known
    BY <2>1 DEF ProfileRequests
  <2>3. profileCalls' = [profileCalls EXCEPT ![c] = q] /\ UNCHANGED profiles
    BY <1>3 DEF Reselect, AfterReselect, Goes
  <2> HIDE DEF q
  <2>4. RequestKept(q) /\ CodeFree(q)
    BY <1>1, <1>3, <2>1, <2>2 DEF RequestKept, CodeFree
  <2> QED BY <2>2, <2>3, <2>4, RequestMoves
<1> QED BY <1>2, <1>3

\* A row changes and keeps its code: what a request found stays so.
LEMMA RowChanges ==
  ASSUME ProfileInv, NEW s \in Subjects, There(s), NEW row \in ProfileRows,
         row.there, row.code = profiles[s].code,
         profiles' = [profiles EXCEPT ![s] = row],
         ProfileTypeOK', NEW d \in Requests,
         RequestKept(profileCalls'[d]), CodeFree(profileCalls'[d])
  PROVE  RequestKept(profileCalls[d])' /\ CodeFree(profileCalls[d])'
<1>1. profiles \in [Subjects -> ProfileRows]
  BY DEF ProfileInv, ProfileTypeOK, ProfileRows
<1>2. \A t \in Subjects : There(t)' = There(t) /\ profiles'[t].code = profiles[t].code
  BY <1>1 DEF There
<1>3. CodesInUse' = CodesInUse
  BY <1>2 DEF CodesInUse
<1> QED BY <1>2, <1>3 DEF RequestKept, CodeFree, ProfileTypeOK

LEMMA SyncIdentityKeeps ==
  ASSUME ProfileInv, NEW c \in Requests, SyncIdentity(c) PROVE ProfileInv'
<1> DEFINE s == profileCalls[c].subject
           e == profileCalls[c].email
<1>1. /\ profileCalls \in [Requests -> ProfileRequests] /\ profiles \in [Subjects -> ProfileRows]
      /\ profileCalls[c].at = "sync" /\ s \in Subjects /\ e \in Emails /\ There(s)
  BY DEF ProfileInv, ProfileTypeOK, ProfileRequests, ProfileRows, SyncIdentity, RequestKept
<1>2. CASE Goes(c, AfterConflict)
  BY <1>1, <1>2, GoesKeeps DEF AfterConflict
<1>3. CASE /\ profiles' = [profiles EXCEPT ![s].email = e]
           /\ profileCalls' = [profileCalls EXCEPT ![c].at = "served"]
  <2> DEFINE row == [profiles[s] EXCEPT !.email = e]
             q == [profileCalls[c] EXCEPT !.at = "served"]
  <2>1. row \in ProfileRows /\ row.there = There(s) /\ row.code = profiles[s].code
    BY <1>1 DEF ProfileRows, There
  <2>2. q \in ProfileRequests /\ q.at = "served" /\ q.subject = s /\ q.email = e
        /\ q.known = profileCalls[c].known
    BY <1>1 DEF ProfileRequests
  <2>3. profiles' = [profiles EXCEPT ![s] = row] /\ profileCalls' = [profileCalls EXCEPT ![c] = q]
    BY <1>3
  <2> HIDE DEF row, q
  <2>4. profileCalls' \in [Requests -> ProfileRequests]
        /\ \A d \in Requests : profileCalls'[d] = IF d = c THEN q ELSE profileCalls[d]
    BY <1>1, <2>2, <2>3
  <2>5. ProfileTypeOK'
    BY <1>1, <2>1, <2>3, <2>4 DEF ProfileTypeOK, ProfileRequests, ProfileRows
  <2>6. ASSUME NEW d \in Requests
        PROVE  RequestKept(profileCalls'[d]) /\ CodeFree(profileCalls'[d])
    BY <1>1, <2>2, <2>4 DEF ProfileInv, RequestKept, CodeFree
  <2>7. ASSUME NEW d \in Requests PROVE (RequestKept(profileCalls[d]) /\ CodeFree(profileCalls[d]))'
    BY <1>1, <2>1, <2>3, <2>5, <2>6, RowChanges
  <2> QED BY <2>5, <2>7 DEF ProfileInv
<1> QED BY <1>2, <1>3 DEF SyncIdentity

LEMMA ChangeUsernameKeeps ==
  ASSUME ProfileInv, NEW s \in Subjects, NEW n \in Names, ChangeUsername(s, n) PROVE ProfileInv'
<1> DEFINE row == [profiles[s] EXCEPT !.username = n]
<1>1. profiles \in [Subjects -> ProfileRows] /\ There(s)
  BY DEF ProfileInv, ProfileTypeOK, ProfileRows, ChangeUsername
<1>2. row \in ProfileRows /\ row.there = There(s) /\ row.code = profiles[s].code
  BY <1>1 DEF ProfileRows, There
<1>3. profiles' = [profiles EXCEPT ![s] = row] /\ UNCHANGED profileCalls
  BY DEF ChangeUsername
<1> HIDE DEF row
<1>4. ProfileTypeOK'
  BY <1>1, <1>2, <1>3 DEF ProfileInv, ProfileTypeOK, ProfileRows
<1>5. ASSUME NEW d \in Requests PROVE (RequestKept(profileCalls[d]) /\ CodeFree(profileCalls[d]))'
  BY <1>1, <1>2, <1>3, <1>4, RowChanges DEF ProfileInv
<1> QED BY <1>4, <1>5 DEF ProfileInv

LEMMA InsertUserKeeps == ASSUME ProfileInv, NEW c \in Requests, InsertUser(c) PROVE ProfileInv'
<1> DEFINE s == profileCalls[c].subject
           row == [email |-> profileCalls[c].email, username |-> NameOf[s],
                   code |-> profileCalls[c].code, there |-> TRUE]
<1>1. /\ profileCalls \in [Requests -> ProfileRequests] /\ profiles \in [Subjects -> ProfileRows]
      /\ profileCalls[c].at = "insert" /\ s \in Subjects /\ profileCalls[c].email \in Emails
  BY DEF ProfileInv, ProfileTypeOK, ProfileRequests, ProfileRows, InsertUser, RequestKept
<1>2. CASE Goes(c, "reselect")
  BY <1>1, <1>2, GoesKeeps
<1>3. CASE /\ ~Clash(s, row)
           /\ profiles' = [profiles EXCEPT ![s] = row]
           /\ profileCalls' = [d \in Requests |->
                IF d = c THEN [profileCalls[d] EXCEPT !.at = "served"]
                ELSE [profileCalls[d] EXCEPT !.raced = @ \/ Racing(d, row),
                                             !.known = @ \/ Provisioning(d, s)]]
  <2>1. row \in ProfileRows /\ row.there /\ row.code = profileCalls[c].code
    <3>1. NameOf[s] \in Names \cup {NoName}
      BY <1>1, ProfilesAssumption
    <3> QED BY <1>1, <3>1 DEF ProfileRows, ProfileRequests
  <2>2. ~There(s)
    BY <1>3 DEF Clash
  <2> HIDE DEF row
  <2>3. profiles' \in [Subjects -> ProfileRows] /\ profiles'[s] = row
        /\ \A t \in Subjects \ {s} : profiles'[t] = profiles[t]
    BY <1>1, <1>3, <2>1
  <2>4. \A t \in Subjects : There(t) => There(t)'
    BY <2>1, <2>3 DEF There
  <2>5. CodesInUse' \subseteq CodesInUse \cup {row.code}
    BY <2>3 DEF CodesInUse, There
  <2>6. ASSUME NEW d \in Requests
        PROVE  /\ profileCalls'[d] \in ProfileRequests
               /\ RequestKept(profileCalls[d])' /\ CodeFree(profileCalls[d])'
    <3>1. profileCalls[d] \in ProfileRequests /\ RequestKept(profileCalls[d])
          /\ CodeFree(profileCalls[d])
      BY <1>1 DEF ProfileInv
    <3>2. CASE d = c
      <4>1. profileCalls'[d] = [profileCalls[d] EXCEPT !.at = "served"]
        BY <1>3, <3>2
      <4>2. /\ profileCalls'[d] \in ProfileRequests /\ profileCalls'[d].at = "served"
            /\ profileCalls'[d].subject = s /\ profileCalls'[d].email = profileCalls[d].email
            /\ profileCalls'[d].known = profileCalls[d].known
        BY <3>1, <3>2, <4>1 DEF ProfileRequests
      <4> QED BY <1>1, <2>4, <3>1, <3>2, <4>2 DEF RequestKept, CodeFree
    <3>3. CASE d # c
      <4> DEFINE b == profileCalls[d].raced \/ Racing(d, row)
                 k == profileCalls[d].known \/ Provisioning(d, s)
      <4>1. profileCalls'[d] = [profileCalls[d] EXCEPT !.raced = b, !.known = k]
        BY <1>3, <3>3
      <4>2. b \in BOOLEAN /\ k \in BOOLEAN
        OBVIOUS
      <4>a. k => profileCalls[d].known \/ Provisioning(d, s)
        OBVIOUS
      <4>3. b => profileCalls[d].raced \/ Racing(d, row)
        OBVIOUS
      <4>4. Racing(d, row) => b
        OBVIOUS
      <4>5. profileCalls[d].raced => b
        OBVIOUS
      <4> HIDE DEF b, k
      <4>6. /\ profileCalls'[d] \in ProfileRequests /\ profileCalls'[d].at = profileCalls[d].at
            /\ profileCalls'[d].subject = profileCalls[d].subject
            /\ profileCalls'[d].email = profileCalls[d].email
            /\ profileCalls'[d].code = profileCalls[d].code
            /\ profileCalls'[d].known = k
            /\ profileCalls'[d].raced = b
        BY <3>1, <4>1, <4>2 DEF ProfileRequests
      <4>b. s \in Subjects /\ profiles'[s].there
        BY <1>1, <2>1, <2>3
      <4>c. ASSUME profileCalls[d].subject = s PROVE profiles'[profileCalls'[d].subject].there
        BY <4>6, <4>b, <4>c
      <4>d. profileCalls[d].subject \in Subjects /\ There(profileCalls[d].subject)
              => profiles'[profileCalls'[d].subject].there
        BY <2>4, <4>6 DEF There
      <4>e. profileCalls'[d].at = "sync" => profiles'[profileCalls'[d].subject].there
        BY <3>1, <4>6, <4>d DEF RequestKept
      <4>f. k => profileCalls'[d].at \notin {"idle", "failed"}
                 /\ profiles'[profileCalls'[d].subject].there
        BY <3>1, <4>6, <4>a, <4>c, <4>d DEF RequestKept, Provisioning
      <4>7. RequestKept(profileCalls[d])'
        BY <3>1, <4>6, <4>e, <4>f DEF RequestKept, There
      <4>8. CodeFree(profileCalls[d])'
        BY <2>5, <3>1, <4>4, <4>5, <4>6 DEF CodeFree, Racing
      <4> QED BY <4>6, <4>7, <4>8
    <3> QED BY <3>2, <3>3
  <2>7. DOMAIN profileCalls' = Requests /\ profileCalls' = [d \in Requests |-> profileCalls'[d]]
    BY <1>3
  <2>8. profileCalls' \in [Requests -> ProfileRequests]
    BY <2>6, <2>7
  <2>9. ProfileTypeOK'
    BY <2>3, <2>8 DEF ProfileTypeOK, ProfileRequests, ProfileRows
  <2> QED BY <2>6, <2>9 DEF ProfileInv
<1> QED BY <1>2, <1>3 DEF InsertUser
LEMMA ProfileInvStep == ProfileInv /\ [ProfileNext]_profileVars => ProfileInv'
<1> SUFFICES ASSUME ProfileInv, [ProfileNext]_profileVars PROVE ProfileInv'
  OBVIOUS
<1>1. ASSUME NEW c \in Requests, ProvisionStep(c) PROVE ProfileInv'
  BY <1>1, SelectUserKeeps, PickCodeKeeps, InsertUserKeeps, ReselectKeeps, SyncIdentityKeeps
     DEF ProvisionStep
<1>2. CASE UNCHANGED profileVars
  BY <1>2 DEF profileVars, ProfileInv, ProfileTypeOK, RequestKept, CodeFree, There, CodesInUse
<1> QED BY <1>1, <1>2, RequestKeeps, ChangeUsernameKeeps DEF ProfileNext

\* The type invariant: rows and requests hold addresses, names and codes.
THEOREM ProfilesType == ProfileSpec => []ProfileTypeOK
<1>1. ProfileInv => ProfileTypeOK
  BY DEF ProfileInv
<1> QED BY <1>1, ProfileInvInit, ProfileInvStep, PTL DEF ProfileSpec

\* No conflict fails a request of an identity that had its row, or got it from
\* another request while this one ran (KnownUserServed).
THEOREM KnownUsersServed == ProfileSpec => []KnownUserServed
<1>1. ProfileInv => KnownUserServed
  BY DEF ProfileInv, RequestKept, KnownUserServed
<1> QED BY <1>1, ProfileInvInit, ProfileInvStep, PTL DEF ProfileSpec

\* An insert that is refused had met its own row, a holder of its address or its
\* username, or a request that took its code, unless the code was random.
LEMMA RefusedInsert ==
  ASSUME ProfileInv, NEW c \in Requests, [ProfileNext]_profileVars,
         profileCalls[c].at = "insert", profileCalls'[c].at = "reselect"
  PROVE  LET call == profileCalls[c] IN
         \/ There(call.subject) \/ Held(call.subject, "email", call.email)
         \/ NameOf[call.subject] # NoName /\ Held(call.subject, "username", NameOf[call.subject])
         \/ call.raced \/ call.code[2] \in Randoms
<1> DEFINE s == profileCalls[c].subject
           row == [email |-> profileCalls[c].email, username |-> NameOf[s],
                   code |-> profileCalls[c].code, there |-> TRUE]
<1>1. profileCalls \in [Requests -> ProfileRequests] /\ s \in Subjects
  BY DEF ProfileInv, ProfileTypeOK, ProfileRequests, RequestKept
<1>2. InsertUser(c) /\ Goes(c, "reselect")
  <2>1. CASE UNCHANGED profileVars
    BY <2>1 DEF profileVars
  <2>2. ASSUME NEW d \in Requests, NEW t \in Subjects, NEW e \in EmailsOf[t], Request(d, t, e)
        PROVE  FALSE
    BY <1>1, <2>2 DEF Request
  <2>3. ASSUME NEW t \in Subjects, NEW n \in Names, ChangeUsername(t, n) PROVE FALSE
    BY <2>3 DEF ChangeUsername
  <2>4. ASSUME NEW d \in Requests, SelectUser(d) \/ PickCode(d) \/ Reselect(d) \/ SyncIdentity(d)
        PROVE  FALSE
    BY <1>1, <2>4 DEF SelectUser, PickCode, Reselect, SyncIdentity, Goes
  <2>5. PICK d \in Requests : InsertUser(d)
    BY <2>1, <2>2, <2>3, <2>4 DEF ProfileNext, ProvisionStep
  <2>6. profileCalls'[c].at # profileCalls[c].at /\ profileCalls'[c].at # "served"
    OBVIOUS
  <2>7. d = c
    <3>1. SUFFICES ASSUME d # c PROVE FALSE
      OBVIOUS
    <3>2. CASE Goes(d, "reselect")
      BY <1>1, <2>6, <3>1, <3>2 DEF Goes, ProfileRequests
    <3>3. CASE ~Goes(d, "reselect")
      <4> DEFINE t == profileCalls[d].subject
                 taken == [email |-> profileCalls[d].email, username |-> NameOf[t],
                           code |-> profileCalls[d].code, there |-> TRUE]
                 b == profileCalls[c].raced \/ Racing(c, taken)
                 k == profileCalls[c].known \/ Provisioning(c, t)
      <4>1. profileCalls'[c] = [profileCalls[c] EXCEPT !.raced = b, !.known = k]
        BY <2>5, <3>1, <3>3 DEF InsertUser
      <4> HIDE DEF b, k
      <4>2. profileCalls[c] \in ProfileRequests
        BY <1>1
      <4> QED BY <2>6, <4>1, <4>2 DEF ProfileRequests
    <3> QED BY <3>2, <3>3
  <2>8. Goes(c, "reselect")
    BY <1>1, <2>5, <2>6, <2>7 DEF InsertUser, ProfileRequests
  <2> QED BY <2>5, <2>6, <2>7, <2>8
<1>3. Clash(s, row)
  BY <1>1, <1>2 DEF InsertUser, ProfileRequests
<1>4. ASSUME profileCalls[c].code # NoCode, Held(s, "code", profileCalls[c].code), ~profileCalls[c].raced
      PROVE  profileCalls[c].code[2] \in Randoms
  BY <1>4 DEF ProfileInv, CodeFree, Held, CodesInUse
<1> QED BY <1>3, <1>4 DEF Clash

\* A first request is refused only for a row of its own, a holder of its address
\* or username, or a code taken since it was found free, unless the code was
\* random and had not been looked up (ConflictsAreReal).
THEOREM ConflictsReal == ProfileSpec => ConflictsAreReal
<1>1. ProfileInv /\ [ProfileNext]_profileVars =>
        [\A c \in Requests :
           LET call == profileCalls[c] IN
           (call.at = "insert" /\ profileCalls'[c].at = "reselect") =>
             \/ There(call.subject) \/ Held(call.subject, "email", call.email)
             \/ NameOf[call.subject] # NoName /\ Held(call.subject, "username", NameOf[call.subject])
             \/ call.raced \/ call.code[2] \in Randoms]_profileVars
  BY RefusedInsert
<1> QED BY <1>1, ProfileInvInit, ProfileInvStep, PTL DEF ProfileSpec, ConflictsAreReal

(***************************************************************************)
(* The components side by side (MCServices)                                *)
(***************************************************************************)
\* A step is one of a single component, and the others stay as they are.
LEMMA ServicesSteps ==
  ASSUME [ServicesNext]_servicesVars
  PROVE  /\ [IdemNext]_idemVars /\ [EconNext]_econVars /\ [ListNext]_listVars
         /\ [ProfileNext]_profileVars /\ [ReviewNext]_reviewVars
         /\ focus' = focus
         /\ IF focus = "machines" THEN [MachinesNext]_machineVars ELSE UNCHANGED machineVars
<1>1. CASE UNCHANGED servicesVars
  BY <1>1 DEF servicesVars
<1>2. CASE On("keys") /\ IdemNext
            /\ UNCHANGED <<machineVars, econVars, listVars, profileVars, reviewVars>>
  BY <1>2 DEF On
<1>3. CASE On("machines") /\ MachinesNext
            /\ UNCHANGED <<idemVars, econVars, listVars, profileVars, reviewVars>>
  BY <1>3 DEF On
<1>4. CASE On("amounts") /\ EconNext
            /\ UNCHANGED <<idemVars, machineVars, listVars, profileVars, reviewVars>>
  BY <1>4 DEF On
<1>5. CASE On("lists") /\ ListNext
            /\ UNCHANGED <<idemVars, machineVars, econVars, profileVars, reviewVars>>
  BY <1>5 DEF On
<1>6. CASE On("profiles") /\ ProfileNext
            /\ UNCHANGED <<idemVars, machineVars, econVars, listVars, reviewVars>>
  BY <1>6 DEF On
<1>7. CASE On("review") /\ ReviewNext
            /\ UNCHANGED <<idemVars, machineVars, econVars, listVars, profileVars>>
  BY <1>7 DEF On
<1> QED BY <1>1, <1>2, <1>3, <1>4, <1>5, <1>6, <1>7 DEF ServicesNext

\* A behaviour of the composition is a behaviour of each component.
LEMMA ServicesAreComponents ==
  ServicesSpec => IdemSpec /\ EconSpec /\ ListSpec /\ ProfileSpec /\ ReviewSpec
<1>1. ServicesInit => IdemInit /\ EconInit /\ ListInit /\ ProfileInit /\ ReviewInit
  BY DEF ServicesInit
<1>2. [ServicesNext]_servicesVars =>
        /\ [IdemNext]_idemVars /\ [EconNext]_econVars /\ [ListNext]_listVars
        /\ [ProfileNext]_profileVars /\ [ReviewNext]_reviewVars
  BY ServicesSteps
<1> QED BY <1>1, <1>2, PTL DEF ServicesSpec, IdemSpec, EconSpec, ListSpec, ProfileSpec, ReviewSpec

\* The machines take part in the behaviours of their own focus only.
MachinesOn ==
  IF focus = "machines" THEN MachinesInv
  ELSE entity = [machine |-> "deposit", state |-> "EXPIRED"] /\ passed = {"EXPIRED"}

LEMMA MachinesOnAlways == ServicesSpec => [](MachinesTypeOK /\ MoneyMovesOnce)
<1>1. ServicesInit => MachinesOn
  BY MachinesInvInit DEF ServicesInit, MachinesOn
<1>2. MachinesOn /\ [ServicesNext]_servicesVars => MachinesOn'
  <2> SUFFICES ASSUME MachinesOn, [ServicesNext]_servicesVars PROVE MachinesOn'
    OBVIOUS
  <2>1. focus' = focus
        /\ IF focus = "machines" THEN [MachinesNext]_machineVars ELSE UNCHANGED machineVars
    BY ServicesSteps
  <2>2. CASE focus = "machines"
    BY <2>1, <2>2, MachinesInvStep DEF MachinesOn
  <2>3. CASE focus # "machines"
    BY <2>1, <2>3 DEF MachinesOn, machineVars
  <2> QED BY <2>2, <2>3
<1>3. MachinesOn => MachinesTypeOK /\ MoneyMovesOnce
  <2> SUFFICES ASSUME MachinesOn PROVE MachinesTypeOK /\ MoneyMovesOnce
    OBVIOUS
  <2>1. CASE focus = "machines"
    BY <2>1, MachinesInvMoves DEF MachinesOn, MachinesInv
  <2>2. CASE focus # "machines"
    <3>1. /\ entity.machine = "deposit" /\ entity.state = "EXPIRED" /\ passed = {"EXPIRED"}
      BY <2>2 DEF MachinesOn
    <3>2. "deposit" \in DOMAIN machines /\ "EXPIRED" \in DOMAIN machines["deposit"]
      BY MachineNames DEF DepositMachine
    <3> QED BY <3>1, <3>2 DEF MachinesTypeOK, MoneyMovesOnce
  <2> QED BY <2>1, <2>2
<1> QED BY <1>1, <1>2, <1>3, PTL DEF ServicesSpec

\* The type invariants of the API's smaller components, side by side.
THEOREM ServicesType == ServicesSpec => []ServicesTypeOK
<1>1. IdemTypeOK /\ (MachinesTypeOK /\ MoneyMovesOnce) /\ ListTypeOK /\ ProfileTypeOK
        /\ ReviewTypeOK => ServicesTypeOK
  BY DEF ServicesTypeOK
<1> QED BY <1>1, ServicesAreComponents, MachinesOnAlways, IdemTypeCorrect, ListsType,
        ProfilesType, ReviewType, PTL

\* Whatever the run of MCServices checks of them holds for every value of its
\* constants: the safety properties of the components, side by side.
THEOREM ServicesSafe ==
  ServicesSpec =>
    /\ [](NeverReexecuted /\ ReplayIsOwn)
    /\ [](MoneyMovesOnce /\ MoneyIsExact /\ MaturityKeepsOrder)
    /\ [](ListIsExact /\ ReviewIsKept)
    /\ []KnownUserServed /\ ConflictsAreReal
BY ServicesAreComponents, MachinesOnAlways, KeysNeverReexecute, AnswersAreOwn, MoneyExact,
   MaturitiesInOrder, ListsExact, ReviewsAreKept, KnownUsersServed, ConflictsReal, PTL
=============================================================================
