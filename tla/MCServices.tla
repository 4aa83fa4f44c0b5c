----------------------------- MODULE MCServices -----------------------------
(***************************************************************************)
(* Instances of components that share no state with one another:           *)
(* a behaviour is one of `focus` alone, the others stay as they start, so  *)
(* that one run checks them all at the cost of their sum.                  *)
(***************************************************************************)
EXTENDS Idempotency, DomainMachines, Economics, ConsoleLists, Profiles,
        CaseReview

VARIABLE focus

MCPrices == {-1, 0, 1, 3, 99, 10001, 12345}
MCQuantities == {-1, 0, 1, 2, 7}
MCRates == {-1, 0, 1, 500, 3333, 5000, 9999}
MCCaps == {0, 1, 500}
\* Month ends of a common and of a leap year, at both ends of the day.
MCActivations ==
  [y : {2023, 2024}, m : {1, 2, 3, 11, 12}, d : {1, 27, 28}, h : {0, 23}]
    \cup [y : {2023, 2024}, m : {1, 3, 12}, d : {29, 30, 31}, h : {0, 23}]
    \cup [y : {2024}, m : {2}, d : {29}, h : {0, 23}]
MCTermValues == {1, 2, 12, 13}

\* Two rows of one instant, the newest inserted while the list is walked.
MCFirstRows == {[t |-> 1000, id |-> 1], [t |-> 2001, id |-> 2]}
MCListRows == MCFirstRows \cup {[t |-> 2001, id |-> 3]}
MCFirstTag == [r \in MCListRows |-> IF r.id = 2 THEN "b" ELSE "a"]
\* The oldest leaves its list and comes back, another one joins it.
MCMoves == {<<[t |-> 1000, id |-> 1], "a">>, <<[t |-> 1000, id |-> 1], "b">>,
            <<[t |-> 2001, id |-> 2], "a">>}

\* Two usernames with the same referral code, and an address that changes hands.
MCEmailsOf == [s1 |-> {"e1", "e2"}, s2 |-> {"e2"}]
MCNameOf == [s1 |-> "Ann", s2 |-> "ann"]
MCBase == [Ann |-> "ann", ann |-> "ann"]

\* One officer may lose a request and repeat it while another one works.
MCMaxActions == [o1 |-> 2, o2 |-> 1]

ServicesInit ==
  /\ focus \in {"keys", "machines", "amounts", "lists", "profiles", "review"}
  /\ IdemInit /\ EconInit /\ ListInit /\ ProfileInit /\ ReviewInit
  /\ IF focus = "machines" THEN MachinesInit
     ELSE entity = [machine |-> "deposit", state |-> "EXPIRED"] /\ passed = {"EXPIRED"}

On(f) == focus = f /\ UNCHANGED focus

ServicesNext ==
  \/ /\ On("keys") /\ IdemNext
     /\ UNCHANGED <<machineVars, econVars, listVars, profileVars, reviewVars>>
  \/ /\ On("machines") /\ MachinesNext
     /\ UNCHANGED <<idemVars, econVars, listVars, profileVars, reviewVars>>
  \/ /\ On("amounts") /\ EconNext
     /\ UNCHANGED <<idemVars, machineVars, listVars, profileVars, reviewVars>>
  \/ /\ On("lists") /\ ListNext
     /\ UNCHANGED <<idemVars, machineVars, econVars, profileVars, reviewVars>>
  \/ /\ On("profiles") /\ ProfileNext
     /\ UNCHANGED <<idemVars, machineVars, econVars, listVars, reviewVars>>
  \/ /\ On("review") /\ ReviewNext
     /\ UNCHANGED <<idemVars, machineVars, econVars, listVars, profileVars>>

servicesVars == <<focus, idemVars, machineVars, econVars, listVars, profileVars, reviewVars>>

ServicesSpec == ServicesInit /\ [][ServicesNext]_servicesVars

ServicesTypeOK == IdemTypeOK /\ MachinesTypeOK /\ ListTypeOK /\ ProfileTypeOK
                      /\ ReviewTypeOK
=============================================================================
