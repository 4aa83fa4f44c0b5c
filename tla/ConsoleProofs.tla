---------------------------- MODULE ConsoleProofs ---------------------------
(*****************************************************************************)
(* Proofs about the admin console, for any officers, rows and requests.      *)
(*                                                                           *)
(* CaseReview: a handler rewrites the notes it has read, so the invariant    *)
(* keeps, with what is stored, what each handler has read and what each page *)
(* was told: only handlers that overlap may lose a note.                     *)
(*                                                                           *)
(* ConsoleLists: the invariant keeps, for each load, what its answer must    *)
(* hold when it arrives; a row of the walk is shown, cut off by a cursor or  *)
(* still ahead of it.                                                        *)
(*****************************************************************************)
EXTENDS CaseReview, ConsoleLists, FiniteSetTheorems, TLAPS

(*****************************************************************************)
(* Officers' pages (CaseReview)                                              *)
(*****************************************************************************)

Times == {"none", "sent", "read", "done", "refused"}
Requested == [op : Ops \cup {"none"}, at : Times, base : Seq(Actions)]
CaseViews == [notes : Seq(Actions), status : 0..MaxDecisions, decisions : 0..MaxDecisions]
ReviewPages == [at : {"loading", "shown", "failed"}, fetched : BOOLEAN, row : CaseViews,
                view : CaseViews, busy : BOOLEAN, sent : Nat,
                said : {"nothing", "ok", "error"}]

Added(p) == actions[p].op = "note" /\ actions[p].at = "done"

\* Every line of a reading of the notes is there once and was added.
LinesAdded(s) == IsInjective(s) /\ \A p \in Range(s) : Added(p)

\* A page's reading has the note, unless another one overlapped it.
Has(q, v) == (actions[q].op = "note" /\ q \notin overlapped) => q \in Range(v.notes)

KeptPage(o, r) ==
  /\ LinesAdded(r.row.notes) /\ LinesAdded(r.view.notes)
  /\ r.sent <= MaxActions[o]
  /\ r.fetched => r.at = "loading"
  /\ r.busy => r.sent > 0
  /\ r.row.status <= decided
  /\ r.view.status <= r.view.decisions
  /\ r.said = "ok" => /\ r.sent > 0 /\ actions[<<o, r.sent>>].at = "done"
                      /\ r.fetched => Has(<<o, r.sent>>, r.row)
                      /\ r.at = "shown" => Has(<<o, r.sent>>, r.view)
PageKept(o) == KeptPage(o, reviews[o])

\* The requests an officer has not sent yet.
NotSent == \A o \in Officers : \A n \in 1..MaxActions[o] :
             n > reviews[o].sent => actions[<<o, n>>] = NoAction

\* What a handler read has every note that was added and did not overlap another.
BasesHaveNotes ==
  \A p, q \in Actions : (Running(q) /\ Added(p) /\ p \notin overlapped) => p \in Range(actions[q].base)

RunningOverlap ==
  \A p, q \in Actions : (Running(p) /\ Running(q) /\ p # q) => p \in overlapped

ReviewTypes ==
  /\ notes \in Seq(Actions) /\ decided \in 0..MaxDecisions
  /\ actions \in [Actions -> Requested]
  /\ reviews \in [Officers -> ReviewPages]
  /\ overlapped \in SUBSET Actions

ReviewInv ==
  /\ ReviewTypes
  /\ LinesAdded(notes) /\ \A q \in Actions : LinesAdded(actions[q].base)
  /\ NotSent
  /\ \A o \in Officers : PageKept(o)
  /\ NotesStay
  /\ BasesHaveNotes
  /\ RunningOverlap

LEMMA ActionsAre ==
  /\ \A o \in Officers : \A n \in 1..MaxActions[o] : <<o, n>> \in Actions
  /\ \A q \in Actions : q[1] \in Officers /\ q[2] \in 1..MaxActions[q[1]] /\ q = <<q[1], q[2]>>
BY DEF Actions

LEMMA EmptyLines == <<>> \in Seq(Actions) /\ LinesAdded(<<>>)
BY DEF LinesAdded, Range, IsInjective

LEMMA AppendLines ==
  ASSUME NEW s \in Seq(Actions), NEW q \in Actions, IsInjective(s), q \notin Range(s)
  PROVE  /\ Append(s, q) \in Seq(Actions)
         /\ Range(Append(s, q)) = Range(s) \cup {q}
         /\ IsInjective(Append(s, q))
<1> DEFINE t == Append(s, q)
<1>1. t \in Seq(Actions) /\ Len(t) = Len(s) + 1 /\ Len(s) \in Nat
      /\ DOMAIN t = 1..(Len(s) + 1) /\ DOMAIN s = 1..Len(s)
      /\ t[Len(s) + 1] = q /\ \A i \in 1..Len(s) : t[i] = s[i]
  OBVIOUS
<1> HIDE DEF t
<1>2. Range(t) = Range(s) \cup {q}
  <2>1. Range(t) \subseteq Range(s) \cup {q}
    BY <1>1 DEF Range
  <2>2. q \in Range(t)
    BY <1>1 DEF Range
  <2>3. Range(s) \subseteq Range(t)
    BY <1>1 DEF Range
  <2> QED BY <2>1, <2>2, <2>3
<1>3. IsInjective(t)
  <2> SUFFICES ASSUME NEW a \in DOMAIN t, NEW b \in DOMAIN t, t[a] = t[b] PROVE a = b
    BY DEF IsInjective
  <2>1. \A i \in 1..Len(s) : s[i] \in Range(s)
    BY <1>1 DEF Range
  <2>2. CASE a \in 1..Len(s) /\ b \in 1..Len(s)
    BY <1>1, <2>2 DEF IsInjective
  <2>3. CASE a = Len(s) + 1 \/ b = Len(s) + 1
    BY <1>1, <2>1, <2>3
  <2> QED BY <1>1, <2>2, <2>3
<1> QED BY <1>1, <1>2, <1>3 DEF t

LEMMA ReviewInvTypes == ReviewInv => ReviewTypeOK
<1> SUFFICES ASSUME ReviewInv PROVE ReviewTypeOK
  OBVIOUS
<1>1. \A s \in Seq(Actions) : LinesAdded(s) => IsLines(s)
  BY DEF LinesAdded, IsLines, Range
<1>2. ASSUME NEW q \in Actions
      PROVE  /\ actions[q].op \in Ops \cup {"none"} /\ IsLines(actions[q].base)
             /\ actions[q].at \in Times
  BY <1>1 DEF ReviewInv, ReviewTypes, Requested
<1>3. ASSUME NEW o \in Officers
      PROVE  /\ reviews[o].at \in {"loading", "shown", "failed"} /\ IsView(reviews[o].view)
             /\ reviews[o].busy \in BOOLEAN /\ reviews[o].sent \in 0..MaxActions[o]
             /\ reviews[o].said \in {"nothing", "ok", "error"}
  <2>1. reviews[o] \in ReviewPages /\ PageKept(o) /\ MaxActions[o] \in Nat
    BY ReviewAssumption DEF ReviewInv, ReviewTypes
  <2> QED BY <1>1, <2>1 DEF ReviewPages, CaseViews, IsView, PageKept, KeptPage
<1> QED BY <1>1, <1>2, <1>3 DEF ReviewInv, ReviewTypes, ReviewTypeOK, Times

LEMMA ReviewInvKept == ReviewInv => ReviewIsKept
<1> SUFFICES ASSUME ReviewInv PROVE ReviewIsKept
  OBVIOUS
<1>1. StatusHasItsDecision
  BY DEF ReviewInv, PageKept, KeptPage, StatusHasItsDecision
<1>2. AddedIsShown
  <2> SUFFICES ASSUME NEW o \in Officers, CanRun(o), reviews[o].said = "ok",
                      actions[Current(o)].op = "note", Current(o) \notin overlapped
               PROVE  Current(o) \in Range(reviews[o].view.notes)
    BY DEF AddedIsShown
  <2> QED BY DEF ReviewInv, PageKept, KeptPage, CanRun, Has, Current
<1> QED BY <1>1, <1>2 DEF ReviewInv, ReviewIsKept

LEMMA BlankTypes ==
  /\ NoAction \in Requested /\ Blank \in CaseViews
  /\ NoAction.base = <<>> /\ NoAction.op = "none" /\ NoAction.at = "none"
  /\ Blank.notes = <<>> /\ Blank.status = 0 /\ Blank.decisions = 0
  /\ \A sent \in Nat : Mounting(sent) \in ReviewPages
BY EmptyLines, ReviewAssumption
   DEF NoAction, Blank, Mounting, Requested, CaseViews, ReviewPages, Times

LEMMA ReviewInvInit == ReviewInit => ReviewInv
<1> SUFFICES ASSUME ReviewInit PROVE ReviewInv
  OBVIOUS
<1>1. notes = <<>> /\ decided = 0 /\ overlapped = {}
      /\ actions = [q \in Actions |-> NoAction] /\ reviews = [o \in Officers |-> Mounting(0)]
  BY DEF ReviewInit
<1>2. ReviewTypes
  BY <1>1, BlankTypes, EmptyLines, ReviewAssumption DEF ReviewTypes
<1>3. \A q \in Actions : actions[q] = NoAction
  BY <1>1
<1>4. LinesAdded(notes) /\ \A q \in Actions : LinesAdded(actions[q].base)
  BY <1>1, <1>3, EmptyLines, BlankTypes
<1>5. NotSent
  BY <1>3, ActionsAre DEF NotSent
<1>6. \A o \in Officers : PageKept(o)
  <2> TAKE o \in Officers
  <2>1. reviews[o] = Mounting(0) /\ MaxActions[o] \in Nat
    BY <1>1, ReviewAssumption
  <2> QED BY <1>1, <2>1, EmptyLines, BlankTypes DEF PageKept, KeptPage, Mounting
<1>7. NotesStay /\ BasesHaveNotes /\ RunningOverlap
  BY <1>3, BlankTypes DEF NotesStay, BasesHaveNotes, RunningOverlap, Running
<1> QED BY <1>2, <1>4, <1>5, <1>6, <1>7 DEF ReviewInv
\* What was added stays added, and what overlapped.
Onwards ==
  /\ \A p \in Actions : actions[p].at = "done" =>
       actions'[p].at = "done" /\ actions'[p].op = actions[p].op
  /\ overlapped \subseteq overlapped'
  /\ decided \in Nat /\ decided' \in Nat /\ decided <= decided'

LEMMA LinesStay ==
  ASSUME NEW s \in Seq(Actions), LinesAdded(s), Onwards PROVE LinesAdded(s)'
<1>1. \A p \in Range(s) : p \in Actions
  BY DEF Range
<1> QED BY <1>1 DEF LinesAdded, Added, Onwards

LEMMA PageStays ==
  ASSUME NEW o \in Officers, NEW r \in ReviewPages, KeptPage(o, r), Onwards
  PROVE  KeptPage(o, r)'
<1>1. LinesAdded(r.row.notes)' /\ LinesAdded(r.view.notes)'
  BY LinesStay DEF ReviewPages, CaseViews, KeptPage
<1>2. r.row.status <= decided'
  BY ReviewAssumption DEF KeptPage, Onwards, ReviewPages, CaseViews
<1>3. ASSUME r.said = "ok"
      PROVE  /\ r.sent > 0 /\ actions'[<<o, r.sent>>].at = "done"
             /\ r.fetched => Has(<<o, r.sent>>, r.row)'
             /\ r.at = "shown" => Has(<<o, r.sent>>, r.view)'
  <2>1. <<o, r.sent>> \in Actions
    BY <1>3, ActionsAre, ReviewAssumption DEF KeptPage, ReviewPages
  <2>2. actions'[<<o, r.sent>>].at = "done" /\ actions'[<<o, r.sent>>].op = actions[<<o, r.sent>>].op
    BY <1>3, <2>1 DEF KeptPage, Onwards
  <2> QED BY <1>3, <2>2 DEF KeptPage, Onwards, Has
<1> QED BY <1>1, <1>2, <1>3 DEF KeptPage

\* A page turns while the case and the requests stay as they are.
LEMMA PageTurns ==
  ASSUME ReviewInv, NEW o \in Officers, NEW r \in ReviewPages, Turn(o, r),
         r.sent = reviews[o].sent, KeptPage(o, r),
         UNCHANGED <<notes, decided, actions, overlapped>>
  PROVE  ReviewInv'
<1>1. reviews' = [reviews EXCEPT ![o] = r] /\ reviews \in [Officers -> ReviewPages]
  BY DEF Turn, ReviewInv, ReviewTypes
<1>2. ReviewTypes'
  BY <1>1 DEF ReviewInv, ReviewTypes
<1>3. LinesAdded(notes)' /\ \A q \in Actions : LinesAdded(actions[q].base)'
  BY DEF ReviewInv, LinesAdded, Added
<1>4. NotSent'
  BY <1>1 DEF ReviewInv, NotSent
<1>5. \A p \in Officers : PageKept(p)'
  <2> TAKE p \in Officers
  <2>1. KeptPage(p, reviews'[p])
    BY <1>1 DEF ReviewInv, PageKept
  <2> QED BY <2>1 DEF PageKept, KeptPage, LinesAdded, Added, Has
<1>6. (NotesStay /\ BasesHaveNotes /\ RunningOverlap)'
  BY DEF ReviewInv, NotesStay, BasesHaveNotes, RunningOverlap, Running, Added
<1> QED BY <1>2, <1>3, <1>4, <1>5, <1>6 DEF ReviewInv

LEMMA ReadCaseKeeps == ASSUME ReviewInv, NEW o \in Officers, ReadCase(o) PROVE ReviewInv'
<1> DEFINE row == [notes |-> notes, status |-> decided, decisions |-> 0]
           r == [reviews[o] EXCEPT !.fetched = TRUE, !.row = row]
<1>1. reviews[o] \in ReviewPages /\ KeptPage(o, reviews[o])
  BY DEF ReviewInv, ReviewTypes, PageKept
<1>2. row \in CaseViews /\ row.notes = notes /\ row.status = decided
  BY ReviewAssumption DEF CaseViews, ReviewInv, ReviewTypes
<1>3. Turn(o, r) /\ reviews[o].at = "loading" /\ UNCHANGED <<notes, decided, actions, overlapped>>
  BY DEF ReadCase
<1> HIDE DEF row
<1>4. /\ r \in ReviewPages /\ r.at = reviews[o].at /\ r.fetched /\ r.row = row
      /\ r.view = reviews[o].view /\ r.busy = reviews[o].busy /\ r.sent = reviews[o].sent
      /\ r.said = reviews[o].said
  BY <1>1, <1>2 DEF ReviewPages
<1> HIDE DEF r
<1>5. ASSUME r.said = "ok" PROVE Has(<<o, r.sent>>, r.row)
  <2>1. <<o, r.sent>> \in Actions /\ actions[<<o, r.sent>>].at = "done"
    BY <1>1, <1>4, <1>5, ActionsAre, ReviewAssumption DEF KeptPage, ReviewPages
  <2> QED BY <1>2, <1>4, <2>1 DEF Has, ReviewInv, NotesStay
<1>6. decided \in Nat /\ LinesAdded(notes)
  BY ReviewAssumption DEF ReviewInv, ReviewTypes
<1>7. KeptPage(o, r)
  BY <1>1, <1>2, <1>3, <1>4, <1>5, <1>6 DEF KeptPage
<1> QED BY <1>3, <1>4, <1>7, PageTurns

LEMMA LoadedKeeps == ASSUME ReviewInv, NEW o \in Officers, Loaded(o) PROVE ReviewInv'
<1> DEFINE row == reviews[o].row
           view == [row EXCEPT !.decisions = decided]
           r == [reviews[o] EXCEPT !.at = "shown", !.fetched = FALSE, !.row = Blank,
                   !.view = view, !.busy = FALSE]
<1>1. reviews[o] \in ReviewPages /\ KeptPage(o, reviews[o]) /\ row \in CaseViews
  BY DEF ReviewInv, ReviewTypes, PageKept, ReviewPages
<1>2. Turn(o, r) /\ reviews[o].fetched /\ UNCHANGED <<notes, decided, actions, overlapped>>
  BY DEF Loaded, AdminCaseView
<1>3. row.status <= decided /\ LinesAdded(row.notes)
      /\ (reviews[o].said = "ok" => Has(<<o, reviews[o].sent>>, row))
  BY <1>1, <1>2 DEF KeptPage
<1> HIDE DEF row
<1>4. view \in CaseViews /\ view.notes = row.notes /\ view.status = row.status
      /\ view.decisions = decided
  BY <1>1 DEF CaseViews, ReviewInv, ReviewTypes
<1> HIDE DEF view
<1>5. /\ r \in ReviewPages /\ r.at = "shown" /\ ~r.fetched /\ r.row = Blank
      /\ r.view = view /\ ~r.busy /\ r.sent = reviews[o].sent /\ r.said = reviews[o].said
  BY <1>1, <1>4, BlankTypes DEF ReviewPages
<1> HIDE DEF r
<1>6. decided \in Nat /\ Has(<<o, r.sent>>, row) = Has(<<o, r.sent>>, view)
  BY <1>4, ReviewAssumption DEF ReviewInv, ReviewTypes, Has
<1>7. KeptPage(o, r)
  BY <1>1, <1>3, <1>4, <1>5, <1>6, BlankTypes, EmptyLines DEF KeptPage
<1> QED BY <1>2, <1>5, <1>7, PageTurns

\* The other steps of a page: it drops what it loads, reports, or is opened again.
LEMMA PageDrops ==
  ASSUME ReviewInv, NEW o \in Officers, NEW r \in ReviewPages, Turn(o, r),
         UNCHANGED <<notes, decided, actions, overlapped>>,
         r.sent = reviews[o].sent, ~r.fetched, r.busy => reviews[o].busy,
         r.view \in {Blank, reviews[o].view},
         r.row \in {Blank, reviews[o].row},
         r.said = "ok" =>
           r.at # "shown" /\ r.sent > 0 /\ actions[<<o, r.sent>>].at = "done"
  PROVE  ReviewInv'
<1>1. KeptPage(o, reviews[o])
  BY DEF ReviewInv, PageKept
<1>2. LinesAdded(Blank.notes) /\ Blank.status <= decided /\ Blank.status <= Blank.decisions
  BY EmptyLines, BlankTypes, ReviewAssumption DEF ReviewInv, ReviewTypes
<1>3. KeptPage(o, r)
  BY <1>1, <1>2 DEF KeptPage
<1> QED BY <1>3, PageTurns

LEMMA PageDropsAll ==
  ASSUME ReviewInv, NEW o \in Officers,
         LoadFailed(o) \/ Reported(o) \/ ActionLost(o) \/ OpenCase(o)
  PROVE  ReviewInv'
<1>1. reviews[o] \in ReviewPages /\ KeptPage(o, reviews[o])
      /\ UNCHANGED <<notes, decided, actions, overlapped>>
  BY DEF ReviewInv, ReviewTypes, PageKept, LoadFailed, Reported, ActionLost, OpenCase
<1>2. reviews[o].said = "ok" => reviews[o].sent > 0 /\ actions[<<o, reviews[o].sent>>].at = "done"
  BY <1>1 DEF KeptPage
<1>3. CASE LoadFailed(o)
  <2> DEFINE r == [reviews[o] EXCEPT !.at = "failed", !.fetched = FALSE, !.row = Blank,
                     !.busy = FALSE]
  <2>1. Turn(o, r)
    BY <1>3 DEF LoadFailed
  <2>2. /\ r \in ReviewPages /\ r.at = "failed" /\ ~r.fetched /\ ~r.busy /\ r.row = Blank
        /\ r.view = reviews[o].view /\ r.sent = reviews[o].sent /\ r.said = reviews[o].said
    BY <1>1, BlankTypes DEF ReviewPages
  <2> HIDE DEF r
  <2> QED BY <1>1, <1>2, <2>1, <2>2, PageDrops
<1>4. CASE Reported(o)
  <2>1. reviews[o].at = "shown" /\ reviews[o].busy /\ ~reviews[o].fetched /\ reviews[o].sent > 0
    BY <1>1, <1>4 DEF Reported, KeptPage, ReviewPages
  <2>2. CASE /\ actions[Current(o)].at = "done"
             /\ Turn(o, [reviews[o] EXCEPT !.said = "ok", !.at = "loading"])
    <3> DEFINE r == [reviews[o] EXCEPT !.said = "ok", !.at = "loading"]
    <3>1. Turn(o, r) /\ actions[<<o, reviews[o].sent>>].at = "done"
      BY <2>2 DEF Current
    <3>2. /\ r \in ReviewPages /\ r.at = "loading" /\ ~r.fetched /\ r.busy /\ r.row = reviews[o].row
          /\ r.view = reviews[o].view /\ r.sent = reviews[o].sent
      BY <1>1, <2>1 DEF ReviewPages
    <3> HIDE DEF r
    <3> QED BY <1>1, <2>1, <3>1, <3>2, PageDrops
  <2>3. CASE Turn(o, [reviews[o] EXCEPT !.said = "error", !.busy = FALSE])
    <3> DEFINE r == [reviews[o] EXCEPT !.said = "error", !.busy = FALSE]
    <3>1. Turn(o, r)
      BY <2>3
    <3>2. /\ r \in ReviewPages /\ ~r.fetched /\ ~r.busy /\ r.row = reviews[o].row
          /\ r.view = reviews[o].view /\ r.sent = reviews[o].sent /\ r.said = "error"
      BY <1>1, <2>1 DEF ReviewPages
    <3> HIDE DEF r
    <3> QED BY <1>1, <3>1, <3>2, PageDrops
  <2> QED BY <1>4, <2>2, <2>3 DEF Reported
<1>5. CASE ActionLost(o)
  <2> DEFINE r == [reviews[o] EXCEPT !.said = "error", !.busy = FALSE]
  <2>1. Turn(o, r) /\ ~reviews[o].fetched
    BY <1>1, <1>5 DEF ActionLost, KeptPage
  <2>2. /\ r \in ReviewPages /\ ~r.fetched /\ ~r.busy /\ r.row = reviews[o].row
        /\ r.view = reviews[o].view /\ r.sent = reviews[o].sent /\ r.said = "error"
    BY <1>1, <2>1 DEF ReviewPages
  <2> HIDE DEF r
  <2> QED BY <1>1, <2>1, <2>2, PageDrops
<1>6. CASE OpenCase(o)
  <2> DEFINE r == Mounting(reviews[o].sent)
  <2>1. Turn(o, r) /\ reviews[o].sent \in Nat
    BY <1>1, <1>6 DEF OpenCase, ReviewPages
  <2>2. /\ r \in ReviewPages /\ ~r.fetched /\ ~r.busy /\ r.row = Blank
        /\ r.view = Blank /\ r.sent = reviews[o].sent /\ r.said = "nothing"
    BY <2>1, BlankTypes DEF Mounting
  <2> HIDE DEF r
  <2> QED BY <1>1, <2>1, <2>2, PageDrops
<1> QED BY <1>3, <1>4, <1>5, <1>6
LEMMA RunKeeps ==
  ASSUME ReviewInv, NEW o \in Officers, NEW op \in Ops, Run(o, op) PROVE ReviewInv'
<1> DEFINE n == reviews[o].sent + 1
           q == <<o, n>>
           a == [op |-> op, at |-> "sent", base |-> <<>>]
           r == [reviews[o] EXCEPT !.busy = TRUE, !.sent = n, !.said = "nothing"]
<1>1. reviews[o] \in ReviewPages /\ KeptPage(o, reviews[o]) /\ MaxActions[o] \in Nat
  BY ReviewAssumption DEF ReviewInv, ReviewTypes, PageKept
<1>2. /\ n <= MaxActions[o] /\ Turn(o, r) /\ actions' = [actions EXCEPT ![q] = a]
      /\ UNCHANGED <<notes, decided, overlapped>>
      /\ reviews[o].at = "shown" /\ ~reviews[o].busy
  BY DEF Run, CanRun
<1>3. n \in 1..MaxActions[o] /\ n > reviews[o].sent /\ n \in Nat /\ n > 0
  BY <1>1, <1>2 DEF ReviewPages
<1>4. q \in Actions /\ actions[q] = NoAction
  BY <1>3, ActionsAre DEF ReviewInv, NotSent
<1>5. a \in Requested /\ a.op = op /\ a.at = "sent" /\ a.base = <<>>
  BY EmptyLines DEF Requested, Times
<1>6. /\ r \in ReviewPages /\ r.sent = n /\ r.said = "nothing" /\ r.row = reviews[o].row
      /\ r.view = reviews[o].view /\ r.fetched = reviews[o].fetched /\ r.at = reviews[o].at
  <2> HIDE DEF n
  <2> QED BY <1>1, <1>3 DEF ReviewPages
<1>7. ~Added(q) /\ ~Running(q)
  BY <1>4, BlankTypes DEF Added, Running
<1>8. actions \in [Actions -> Requested] /\ reviews \in [Officers -> ReviewPages]
  BY DEF ReviewInv, ReviewTypes
<1> HIDE DEF a, r
<1>9. actions' \in [Actions -> Requested] /\ actions'[q] = a
      /\ \A p \in Actions \ {q} : actions'[p] = actions[p]
  BY <1>2, <1>4, <1>5, <1>8
<1>10. reviews' \in [Officers -> ReviewPages] /\ reviews'[o] = r
       /\ \A p \in Officers \ {o} : reviews'[p] = reviews[p]
  BY <1>2, <1>6, <1>8 DEF Turn
<1>11. ReviewTypes'
  BY <1>2, <1>9, <1>10 DEF ReviewInv, ReviewTypes
<1>12. Onwards
  <2>1. \A p \in Actions : actions[p].at = "done" => actions'[p] = actions[p]
    BY <1>4, <1>9, BlankTypes
  <2>2. decided \in Nat /\ decided' = decided /\ overlapped' = overlapped
    BY <1>2, ReviewAssumption DEF ReviewInv, ReviewTypes
  <2> QED BY <2>1, <2>2 DEF Onwards
<1>13. \A p \in Actions : (Added(p) <=> Added(p)') /\ (Running(p) <=> Running(p)')
       /\ (Running(p) => actions'[p] = actions[p])
  <2> TAKE p \in Actions
  <2>1. CASE p = q
    BY <1>5, <1>7, <1>9, <2>1 DEF Added, Running
  <2>2. CASE p # q
    BY <1>9, <2>2 DEF Added, Running
  <2> QED BY <2>1, <2>2
<1>14. LinesAdded(notes)' /\ \A p \in Actions : LinesAdded(actions[p].base)'
  <2>1. LinesAdded(notes)'
    BY <1>2, <1>12, LinesStay DEF ReviewInv, ReviewTypes, LinesAdded, Added
  <2>2. ASSUME NEW p \in Actions PROVE LinesAdded(actions[p].base)'
    <3>1. CASE p = q
      BY <1>5, <1>9, <3>1 DEF LinesAdded, Range, IsInjective
    <3>2. CASE p # q
      <4>1. actions[p].base \in Seq(Actions) /\ LinesAdded(actions[p].base)
            /\ actions'[p].base = actions[p].base
        BY <1>8, <1>9, <3>2 DEF ReviewInv, Requested
      <4> DEFINE s == actions[p].base
      <4>2. s \in Seq(Actions) /\ LinesAdded(s) /\ \A x \in Range(s) : x \in Actions
        BY <4>1 DEF Range
      <4> QED BY <1>13, <4>1, <4>2 DEF LinesAdded, Added
    <3> QED BY <3>1, <3>2
  <2> QED BY <2>1, <2>2
<1>15. NotSent'
  <2> SUFFICES ASSUME NEW p \in Officers, NEW m \in 1..MaxActions[p], m > reviews'[p].sent
               PROVE  actions'[<<p, m>>] = NoAction
    BY DEF NotSent
  <2>1. <<p, m>> \in Actions
    BY ActionsAre
  <2>2. m > reviews[p].sent /\ <<p, m>> # q
    <3>1. CASE p = o
      BY <1>1, <1>3, <1>6, <1>10, <3>1, ReviewAssumption DEF ReviewPages
    <3>2. CASE p # o
      BY <1>10, <3>2
    <3> QED BY <3>1, <3>2
  <2> QED BY <1>9, <2>1, <2>2 DEF ReviewInv, NotSent
<1>16. \A p \in Officers : PageKept(p)'
  <2> TAKE p \in Officers
  <2>1. CASE p = o
    <3>1. PICK x \in ReviewPages : x = r
      BY <1>6
    <3>2. KeptPage(o, x)
      BY <1>1, <1>2, <1>3, <1>6, <3>1 DEF KeptPage
    <3>3. KeptPage(o, x)'
      BY <1>12, <3>2, PageStays
    <3> QED BY <1>10, <2>1, <3>1, <3>3 DEF PageKept
  <2>2. CASE p # o
    <3>1. PICK x \in ReviewPages : x = reviews[p]
      BY <1>8
    <3>2. KeptPage(p, x)'
      BY <1>12, <3>1, PageStays DEF ReviewInv, PageKept
    <3> QED BY <1>10, <2>2, <3>1, <3>2 DEF PageKept
  <2> QED BY <2>1, <2>2
<1>17. (NotesStay /\ BasesHaveNotes /\ RunningOverlap)'
  BY <1>2, <1>13 DEF ReviewInv, NotesStay, BasesHaveNotes, RunningOverlap, Added
<1> QED BY <1>11, <1>14, <1>15, <1>16, <1>17 DEF ReviewInv
\* The other steps are handlers': they leave the pages as they are.
LEMMA HandlerKeeps ==
  ASSUME ReviewInv, UNCHANGED reviews, ReviewTypes', Onwards,
         \A p \in Actions : actions[p] = NoAction => actions'[p] = NoAction,
         LinesAdded(notes)', \A p \in Actions : LinesAdded(actions[p].base)',
         (NotesStay /\ BasesHaveNotes /\ RunningOverlap)'
  PROVE  ReviewInv'
<1>1. NotSent'
  BY ActionsAre DEF ReviewInv, NotSent
<1>2. \A p \in Officers : PageKept(p)'
  <2> TAKE p \in Officers
  <2>1. PICK x \in ReviewPages : x = reviews[p]
    BY DEF ReviewInv, ReviewTypes
  <2>2. KeptPage(p, x)'
    BY <2>1, PageStays DEF ReviewInv, PageKept
  <2> QED BY <2>1, <2>2 DEF PageKept
<1> QED BY <1>1, <1>2 DEF ReviewInv

LEMMA ReadNotesKeeps == ASSUME ReviewInv, NEW q \in Actions, ReadNotes(q) PROVE ReviewInv'
<1> DEFINE a == [actions[q] EXCEPT !.at = "read", !.base = notes]
           others == {p \in Actions : Running(p)}
<1>1. /\ actions[q].op = "note" /\ actions[q].at = "sent"
      /\ actions' = [actions EXCEPT ![q] = a]
      /\ overlapped' = overlapped \cup others \cup (IF others = {} THEN {} ELSE {q})
      /\ UNCHANGED <<notes, decided, reviews>>
  BY DEF ReadNotes
<1>2. actions \in [Actions -> Requested] /\ notes \in Seq(Actions) /\ decided \in Nat
  BY ReviewAssumption DEF ReviewInv, ReviewTypes
<1>3. a \in Requested /\ a.op = "note" /\ a.at = "read" /\ a.base = notes
  BY <1>1, <1>2 DEF Requested, Times
<1> HIDE DEF a
<1>4. actions' \in [Actions -> Requested] /\ actions'[q] = a
      /\ \A p \in Actions \ {q} : actions'[p] = actions[p]
  BY <1>1, <1>2, <1>3
<1>5. ReviewTypes'
  BY <1>1, <1>4 DEF ReviewInv, ReviewTypes
<1>6. \A p \in Actions : Added(p)' <=> Added(p)
  BY <1>1, <1>3, <1>4 DEF Added
<1>7. Onwards
  <2>1. \A p \in Actions : actions[p].at = "done" => actions'[p] = actions[p]
    BY <1>1, <1>4
  <2> QED BY <1>1, <1>2, <2>1 DEF Onwards
<1>8. \A p \in Actions : actions[p] = NoAction => actions'[p] = NoAction
  BY <1>1, <1>4, BlankTypes
<1>9. PICK s \in Seq(Actions) : s = notes /\ LinesAdded(s)
  BY <1>2 DEF ReviewInv
<1>10. LinesAdded(s)' /\ notes' = s
  BY <1>1, <1>7, <1>9, LinesStay
<1>11. ASSUME NEW p \in Actions PROVE LinesAdded(actions[p].base)'
  <2>1. CASE p = q
    BY <1>3, <1>4, <1>9, <1>10, <2>1
  <2>2. CASE p # q
    <3>1. PICK t \in Seq(Actions) : t = actions[p].base /\ LinesAdded(t)
      BY <1>2 DEF ReviewInv, Requested
    <3>2. LinesAdded(t)'
      BY <1>7, <3>1, LinesStay
    <3> QED BY <1>4, <2>2, <3>1, <3>2
  <2> QED BY <2>1, <2>2
<1>12. NotesStay'
  BY <1>1, <1>6 DEF ReviewInv, NotesStay, Added
<1>13. BasesHaveNotes'
  <2> SUFFICES ASSUME NEW p \in Actions, NEW r \in Actions, Running(r)', Added(p)', p \notin overlapped'
               PROVE  p \in Range(actions'[r].base)
    BY DEF BasesHaveNotes
  <2>1. Added(p) /\ p \notin overlapped
    BY <1>1, <1>6
  <2>2. CASE r = q
    BY <1>3, <1>4, <2>1, <2>2 DEF ReviewInv, NotesStay, Added
  <2>3. CASE r # q
    BY <1>4, <2>1, <2>3 DEF ReviewInv, BasesHaveNotes, Running
  <2> QED BY <2>2, <2>3
<1>14. RunningOverlap'
  <2> SUFFICES ASSUME NEW p \in Actions, NEW r \in Actions, Running(p)', Running(r)', p # r
               PROVE  p \in overlapped'
    BY DEF RunningOverlap
  <2>1. CASE p = q
    <3>1. r \in others
      BY <1>4, <2>1 DEF Running
    <3> QED BY <1>1, <2>1, <3>1
  <2>2. CASE p # q
    <3>1. p \in others
      BY <1>4, <2>2 DEF Running
    <3> QED BY <1>1, <3>1
  <2> QED BY <2>1, <2>2
<1> QED BY <1>1, <1>5, <1>7, <1>8, <1>9, <1>10, <1>11, <1>12, <1>13, <1>14, HandlerKeeps

LEMMA WriteNotesKeeps == ASSUME ReviewInv, NEW q \in Actions, WriteNotes(q) PROVE ReviewInv'
<1> DEFINE a == [actions[q] EXCEPT !.at = "done", !.base = <<>>]
<1>1. /\ Running(q) /\ actions' = [actions EXCEPT ![q] = a]
      /\ notes' = Append(actions[q].base, q)
      /\ UNCHANGED <<decided, reviews, overlapped>>
  BY DEF WriteNotes, WithLine
<1>2. actions \in [Actions -> Requested] /\ decided \in Nat
  BY ReviewAssumption DEF ReviewInv, ReviewTypes
<1>3. a \in Requested /\ a.op = "note" /\ a.at = "done" /\ a.base = <<>>
  BY <1>1, <1>2, EmptyLines DEF Requested, Times, Running
<1> HIDE DEF a
<1>4. actions' \in [Actions -> Requested] /\ actions'[q] = a
      /\ \A p \in Actions \ {q} : actions'[p] = actions[p]
  BY <1>1, <1>2, <1>3
<1>5. PICK s \in Seq(Actions) : s = actions[q].base /\ LinesAdded(s)
  BY <1>2 DEF ReviewInv, Requested
<1>6. q \notin Range(s) /\ ~Added(q)
  BY <1>1, <1>5 DEF LinesAdded, Added, Running
<1>7. notes' \in Seq(Actions) /\ Range(notes') = Range(s) \cup {q} /\ IsInjective(notes')
  BY <1>1, <1>5, <1>6, AppendLines DEF LinesAdded
<1>8. ReviewTypes'
  BY <1>1, <1>4, <1>7 DEF ReviewInv, ReviewTypes
<1>9. \A p \in Actions : Added(p)' <=> (Added(p) \/ p = q)
  BY <1>3, <1>4 DEF Added
<1>10. \A p \in Actions : Running(p)' => Running(p) /\ p # q /\ actions'[p] = actions[p]
  BY <1>3, <1>4 DEF Running
<1>11. Onwards
  <2>1. \A p \in Actions : actions[p].at = "done" => actions'[p] = actions[p]
    BY <1>1, <1>4 DEF Running
  <2> QED BY <1>1, <1>2, <2>1 DEF Onwards
<1>12. \A p \in Actions : actions[p] = NoAction => actions'[p] = NoAction
  BY <1>1, <1>4, BlankTypes DEF Running
<1>13. LinesAdded(notes)'
  <2>1. \A p \in Range(s) : p \in Actions /\ Added(p)
    BY <1>5 DEF LinesAdded, Range
  <2> QED BY <1>7, <1>9, <2>1 DEF LinesAdded
<1>14. ASSUME NEW p \in Actions PROVE LinesAdded(actions[p].base)'
  <2>1. CASE p = q
    BY <1>3, <1>4, <2>1 DEF LinesAdded, Range, IsInjective
  <2>2. CASE p # q
    <3>1. PICK t \in Seq(Actions) : t = actions[p].base /\ LinesAdded(t)
      BY <1>2 DEF ReviewInv, Requested
    <3>2. LinesAdded(t)'
      BY <1>11, <3>1, LinesStay
    <3> QED BY <1>4, <2>2, <3>1, <3>2
  <2> QED BY <2>1, <2>2
<1>15. NotesStay'
  <2> SUFFICES ASSUME NEW p \in Actions, Added(p)', p \notin overlapped' PROVE p \in Range(notes')
    BY DEF NotesStay, Added
  <2>1. CASE p = q
    BY <1>7, <2>1
  <2>2. CASE p # q
    BY <1>1, <1>5, <1>7, <1>9, <2>2 DEF ReviewInv, BasesHaveNotes
  <2> QED BY <2>1, <2>2
<1>16. BasesHaveNotes'
  <2> SUFFICES ASSUME NEW p \in Actions, NEW r \in Actions, Running(r)', Added(p)', p \notin overlapped'
               PROVE  p \in Range(actions'[r].base)
    BY DEF BasesHaveNotes
  <2>1. Running(r) /\ r # q /\ actions'[r] = actions[r] /\ p \notin overlapped
    BY <1>1, <1>10
  <2>2. CASE p = q
    BY <1>1, <2>1, <2>2 DEF ReviewInv, RunningOverlap
  <2>3. CASE p # q
    BY <1>9, <2>1, <2>3 DEF ReviewInv, BasesHaveNotes
  <2> QED BY <2>2, <2>3
<1>17. RunningOverlap'
  BY <1>1, <1>10 DEF ReviewInv, RunningOverlap
<1> QED BY <1>1, <1>8, <1>11, <1>12, <1>13, <1>14, <1>15, <1>16, <1>17, HandlerKeeps

LEMMA CommitDecisionKeeps ==
  ASSUME ReviewInv, NEW q \in Actions, CommitDecision(q) PROVE ReviewInv'
<1>1. /\ actions[q].op \in {"decide", "sync"} /\ actions[q].at = "sent"
      /\ UNCHANGED <<notes, reviews, overlapped>>
  BY DEF CommitDecision
<1>2. actions \in [Actions -> Requested] /\ decided \in 0..MaxDecisions /\ MaxDecisions \in Nat
  BY ReviewAssumption DEF ReviewInv, ReviewTypes
<1>3. PICK at \in {"done", "refused"} : actions' = [actions EXCEPT ![q].at = at]
  BY <1>1 DEF CommitDecision
<1>4. decided' \in 0..MaxDecisions /\ decided <= decided'
  BY <1>2 DEF CommitDecision
<1> DEFINE a == [actions[q] EXCEPT !.at = at]
<1>5. a \in Requested /\ a.op = actions[q].op /\ a.at = at /\ a.base = actions[q].base
      /\ actions' = [actions EXCEPT ![q] = a]
  BY <1>2, <1>3 DEF Requested, Times
<1> HIDE DEF a
<1>6. actions' \in [Actions -> Requested] /\ actions'[q] = a
      /\ \A p \in Actions \ {q} : actions'[p] = actions[p]
  BY <1>2, <1>5
<1>7. ReviewTypes'
  BY <1>1, <1>4, <1>6 DEF ReviewInv, ReviewTypes
<1>8. \A p \in Actions : (Added(p) <=> Added(p)') /\ (Running(p) <=> Running(p)')
       /\ actions'[p].base = actions[p].base
  BY <1>1, <1>5, <1>6 DEF Added, Running
<1>9. Onwards
  <2>1. \A p \in Actions : actions[p].at = "done" => actions'[p] = actions[p]
    BY <1>1, <1>6
  <2> QED BY <1>1, <1>2, <1>4, <2>1 DEF Onwards
<1>10. \A p \in Actions : actions[p] = NoAction => actions'[p] = NoAction
  BY <1>1, <1>6, BlankTypes
<1>11. ASSUME NEW s \in Seq(Actions), LinesAdded(s) PROVE LinesAdded(s)'
  BY <1>9, <1>11, LinesStay
<1>12. LinesAdded(notes)'
  <2>1. PICK s \in Seq(Actions) : s = notes /\ LinesAdded(s)
    BY DEF ReviewInv, ReviewTypes
  <2> QED BY <1>1, <1>11, <2>1
<1>13. ASSUME NEW p \in Actions PROVE LinesAdded(actions[p].base)'
  <2>1. PICK s \in Seq(Actions) : s = actions[p].base /\ LinesAdded(s)
    BY <1>2 DEF ReviewInv, Requested
  <2> QED BY <1>8, <1>11, <2>1
<1>14. (NotesStay /\ BasesHaveNotes /\ RunningOverlap)'
  BY <1>1, <1>8 DEF ReviewInv, NotesStay, BasesHaveNotes, RunningOverlap, Added
<1> QED BY <1>1, <1>7, <1>9, <1>10, <1>12, <1>13, <1>14, HandlerKeeps

LEMMA ReviewInvStep == ReviewInv /\ [ReviewNext]_reviewVars => ReviewInv'
<1> SUFFICES ASSUME ReviewInv, [ReviewNext]_reviewVars PROVE ReviewInv'
  OBVIOUS
<1>1. ASSUME NEW o \in Officers,
             \/ ReadCase(o) \/ Loaded(o) \/ LoadFailed(o)
             \/ \E op \in Ops : Run(o, op)
             \/ Reported(o) \/ ActionLost(o) \/ OpenCase(o)
      PROVE  ReviewInv'
  BY <1>1, ReadCaseKeeps, LoadedKeeps, PageDropsAll, RunKeeps
<1>2. ASSUME NEW q \in Actions, ReadNotes(q) \/ WriteNotes(q) \/ CommitDecision(q)
      PROVE  ReviewInv'
  BY <1>2, ReadNotesKeeps, WriteNotesKeeps, CommitDecisionKeeps
<1>3. CASE UNCHANGED reviewVars
  BY <1>3 DEF reviewVars, ReviewInv, ReviewTypes, LinesAdded, Added, NotSent, PageKept, KeptPage,
              Has, NotesStay, BasesHaveNotes, RunningOverlap, Running
<1> QED BY <1>1, <1>2, <1>3 DEF ReviewNext

\* The type invariant: the notes and every reading of them are lines, each once.
THEOREM ReviewType == ReviewSpec => []ReviewTypeOK
BY ReviewInvTypes, ReviewInvInit, ReviewInvStep, PTL DEF ReviewSpec

\* However their requests and loads overlap: a note officers wrote stays, unless
\* another one was being added at the same time, and is shown once reported, and
\* a status shown is not newer than the decisions listed below it (ReviewIsKept).
THEOREM ReviewsAreKept == ReviewSpec => []ReviewIsKept
BY ReviewInvKept, ReviewInvInit, ReviewInvStep, PTL DEF ReviewSpec

(*****************************************************************************)
(* Lists and their pages (ConsoleLists)                                      *)
(*****************************************************************************)

SortedRows(s) == \A i, j \in DOMAIN s : i < j => Newer(s[i], s[j])

ListLoads == [filter : Filters, cursor : Cursors, append : BOOLEAN, served : BOOLEAN,
              alone : BOOLEAN, rows : Seq(ListRows), next : Cursors]

\* A row that a page does not show comes after its last one.
Reached(load, r) ==
  \/ r \in Range(load.rows)
  \/ load.next # NoCursor /\ Newer(Last(load.rows), r)

LoadKept(load) ==
  /\ Range(load.rows) \subseteq listed
  /\ load.append <=> load.cursor # NoCursor
  /\ load.alone /\ load.append =>
       load.cursor = console.cursor /\ (walk.clean => load.filter = console.filter)
  /\ load.served =>
       /\ SortedRows(load.rows)
       /\ \A i \in DOMAIN load.rows : After(load.cursor, load.rows[i])
       /\ load.next # NoCursor =>
            load.rows # <<>> /\ load.next = EncodeCursor(Last(load.rows))
  /\ load.served /\ load.alone /\ ~load.append => load.filter = walk.filter
  /\ load.served /\ load.alone /\ (load.append => walk.clean /\ ~walk.overlapped) =>
       \A r \in walk.rows :
         /\ ~load.append => Matches(load.filter, r)
         /\ Matches(load.filter, r) /\ After(load.cursor, r) => Reached(load, r)

\* The items are in order, and the cursor is that of the last of them.
ItemsSorted ==
  ~walk.overlapped =>
    /\ SortedRows(console.items)
    /\ console.cursor # NoCursor =>
         console.items # <<>> /\ console.cursor = EncodeCursor(Last(console.items))

\* Every row of the walk was shown, shares its millisecond with the last of a
\* page, or is still ahead of the cursor, under the filter of the first page;
\* unless the walk begins anew.
WalkGoesOn ==
  (/\ walk.clean /\ ~walk.overlapped
   /\ \A i \in DOMAIN loads : loads[i].served => loads[i].append) =>
    /\ walk.filter = console.filter
    /\ \A r \in walk.rows :
         \/ r \in Range(console.items)
         \/ \E s \in walk.lasts : s.t \div 1000 = r.t \div 1000
         \/ /\ console.cursor # NoCursor /\ Matches(console.filter, r)
            /\ Newer(console.cursor, r)

ListWalks == [filter : Filters, rows : SUBSET ListRows, lasts : SUBSET ListRows,
              clean : BOOLEAN, overlapped : BOOLEAN]

ListInv ==
  /\ IsFiniteSet(listed) /\ listed \subseteq ListRows /\ tagOf \in [ListRows -> Tags]
  /\ loads \in Seq(ListLoads)
  /\ \A i \in DOMAIN loads : LoadKept(loads[i])
  /\ \A i \in DOMAIN loads : loads[i].alone => Len(loads) = 1
  /\ console \in [filter : Filters, items : Seq(ListRows), cursor : Cursors]
  /\ Range(console.items) \subseteq listed
  /\ walk \in ListWalks
  /\ walk.rows \subseteq listed /\ walk.lasts \subseteq listed
  /\ ItemsSorted /\ WalkGoesOn

(***************************************************************************)
(* The order of rows                                                       *)
(***************************************************************************)
LEMMA RowTypes == \A r \in ListRows : r.t \in Nat /\ r.id \in Nat \ {0}
BY ListsAssumption

LEMMA NewerOrders ==
  /\ \A r \in ListRows : ~Newer(r, r)
  /\ \A r, s, u \in ListRows : Newer(r, s) /\ Newer(s, u) => Newer(r, u)
  /\ \A r, s \in ListRows : r = s \/ Newer(r, s) \/ Newer(s, r)
  /\ \A r, s \in ListRows : Newer(r, s) => ~Newer(s, r)
<1>1. \A r, s \in ListRows : r.id = s.id => r = s
  BY ListsAssumption
<1> QED BY <1>1, RowTypes DEF Newer

\* The rank of a row, the number of those before it, places the rows one each.
LEMMA SortingExists ==
  ASSUME NEW rows \in SUBSET ListRows, IsFiniteSet(rows)
  PROVE  \E s \in [1..Cardinality(rows) -> rows] : SortedRows(s)
<1> DEFINE n == Cardinality(rows)
           Before(r) == {x \in rows : Newer(x, r)}
           rank == [r \in rows |-> Cardinality(Before(r)) + 1]
<1>1. n \in Nat
  BY FS_CardinalityType
<1>2. ASSUME NEW r \in rows
      PROVE  IsFiniteSet(Before(r)) /\ Cardinality(Before(r)) \in Nat /\ Cardinality(Before(r)) < n
  <2>1. Before(r) \in SUBSET rows /\ r \notin Before(r)
    BY NewerOrders
  <2>2. /\ IsFiniteSet(Before(r)) /\ Cardinality(Before(r)) <= n
        /\ Cardinality(Before(r)) # n
    BY <2>1, FS_Subset
  <2> QED BY <1>1, <2>2, FS_CardinalityType
<1>3. ASSUME NEW r \in rows, NEW u \in rows, Newer(r, u)
      PROVE  rank[r] < rank[u]
  <2>1. Before(r) \in SUBSET Before(u) /\ r \in Before(u) /\ r \notin Before(r)
    BY <1>3, NewerOrders
  <2>2. Cardinality(Before(r)) <= Cardinality(Before(u))
        /\ Cardinality(Before(r)) # Cardinality(Before(u))
    BY <1>2, <2>1, FS_Subset
  <2> HIDE DEF Before
  <2> QED BY <1>2, <2>2
<1>4. rank \in [rows -> 1..n]
  <2> HIDE DEF Before, n
  <2> QED BY <1>1, <1>2
<1>5. \A r, u \in rows : rank[r] = rank[u] => r = u
  <2> SUFFICES ASSUME NEW r \in rows, NEW u \in rows, r # u PROVE rank[r] # rank[u]
    OBVIOUS
  <2>1. Newer(r, u) \/ Newer(u, r)
    BY NewerOrders
  <2>2. rank[r] < rank[u] \/ rank[u] < rank[r]
    BY <1>3, <2>1
  <2>3. rank[r] \in Int /\ rank[u] \in Int
    BY <1>4
  <2> HIDE DEF rank
  <2> QED BY <2>2, <2>3
<1> HIDE DEF rank, Before
<1>6. rank \in Injection(rows, 1..n)
  BY <1>4, <1>5 DEF Injection, IsInjective
<1>7. IsFiniteSet(1..n) /\ Cardinality(1..n) = n
  <2> HIDE DEF n
  <2> QED BY <1>1, FS_Interval
<1>8. rank \in Surjection(rows, 1..n)
  BY <1>6, <1>7, FS_Injection
<1>9. \A k \in 1..n : \E r \in rows : rank[r] = k
  BY <1>8 DEF Surjection
<1> DEFINE s == [k \in 1..n |-> CHOOSE r \in rows : rank[r] = k]
<1>10. \A k \in 1..n : s[k] \in rows /\ rank[s[k]] = k
  BY <1>9
<1>11. s \in [1..n -> rows]
  BY <1>10
<1>12. ASSUME NEW i \in 1..n, NEW j \in 1..n, i < j PROVE Newer(s[i], s[j])
  <2>1. s[i] \in rows /\ s[j] \in rows /\ rank[s[i]] = i /\ rank[s[j]] = j
    BY <1>10
  <2> HIDE DEF s, n
  <2>2. i \in Int /\ j \in Int /\ ~(j < i) /\ i # j
    BY <1>1, <1>12
  <2> QED BY <1>3, <2>1, <2>2, NewerOrders
<1>13. SortedRows(s)
  BY <1>12 DEF SortedRows
<1> QED BY <1>11, <1>13

LEMMA NewestFirstSorts ==
  ASSUME NEW rows \in SUBSET ListRows, IsFiniteSet(rows),
         NEW s, s = NewestFirst(rows)
  PROVE  /\ s \in Seq(ListRows) /\ Range(s) = rows /\ SortedRows(s)
<1> DEFINE n == Cardinality(rows)
<1>1. s \in [1..n -> rows] /\ SortedRows(s)
  BY SortingExists DEF NewestFirst, SortedRows
<1>2. n \in Nat /\ IsFiniteSet(1..n) /\ Cardinality(1..n) = n
  <2>1. n \in Nat
    BY FS_CardinalityType
  <2> HIDE DEF n
  <2> QED BY <2>1, FS_Interval
<1> HIDE DEF n
<1>3. ASSUME NEW i \in 1..n, NEW j \in 1..n, s[i] = s[j] PROVE i = j
  <2>1. ~Newer(s[i], s[j]) /\ ~Newer(s[j], s[i])
    BY <1>1, <1>3, NewerOrders
  <2>2. ~(i < j) /\ ~(j < i)
    BY <1>1, <2>1 DEF SortedRows
  <2> QED BY <1>2, <2>2
<1>4. s \in Injection(1..n, rows)
  BY <1>1, <1>3 DEF Injection, IsInjective
<1>5. s \in Surjection(1..n, rows)
  BY <1>2, <1>4, FS_Injection DEF n
<1>6. Range(s) = rows
  BY <1>1, <1>5 DEF Surjection, Range
<1> QED BY <1>1, <1>2, <1>6

(***************************************************************************)
(* Cursors and pages                                                       *)
(***************************************************************************)
LEMMA CursorOf ==
  ASSUME NEW s \in ListRows
  PROVE  /\ EncodeCursor(s) \in Cursors /\ EncodeCursor(s) # NoCursor
         /\ \A r \in ListRows : Newer(EncodeCursor(s), r) => Newer(s, r)
         /\ \A r \in ListRows :
              Newer(s, r) => s.t \div 1000 = r.t \div 1000 \/ Newer(EncodeCursor(s), r)
<1> DEFINE c == EncodeCursor(s)
<1>1. s.t \in Nat /\ s.id \in Nat \ {0}
  BY RowTypes
<1>2. PICK ms \in Nat : ms = s.t \div 1000
  BY <1>1
<1>3. 1000 * ms <= s.t /\ s.t < 1000 * ms + 1000
  BY <1>1, <1>2
<1>4. c = [t |-> 1000 * ms, id |-> s.id] /\ c.t = 1000 * ms /\ c.id = s.id
  BY <1>2 DEF EncodeCursor
<1>5. 1000 * ms \in Nat
  OBVIOUS
<1>6. c \in Cursors /\ c # NoCursor
  BY <1>1, <1>4, <1>5 DEF Cursors, NoCursor
<1>7. ASSUME NEW r \in ListRows, Newer(c, r) PROVE Newer(s, r)
  BY <1>1, <1>3, <1>4, <1>7, RowTypes DEF Newer
<1>8. ASSUME NEW r \in ListRows, Newer(s, r), s.t \div 1000 # r.t \div 1000
      PROVE  Newer(c, r)
  <2>1. r.t \in Nat /\ r.t <= s.t
    BY <1>1, <1>8, RowTypes DEF Newer
  <2>2. r.t < 1000 * ms
    <3>1. PICK q \in Nat : q = r.t \div 1000
      BY <2>1
    <3>2. 1000 * q <= r.t /\ r.t < 1000 * q + 1000
      BY <2>1, <3>1
    <3>3. q # ms
      BY <1>2, <1>8, <3>1
    <3>4. q + 1 <= ms
      BY <1>1, <1>3, <2>1, <3>2, <3>3
    <3> QED BY <2>1, <3>2, <3>4
  <2> QED BY <1>4, <2>2 DEF Newer
<1> QED BY <1>6, <1>7, <1>8

LEMMA FirstOnes ==
  ASSUME NEW s \in Seq(ListRows), SortedRows(s), NEW n \in Nat, n <= Len(s)
  PROVE  /\ SubSeq(s, 1, n) \in Seq(ListRows) /\ Len(SubSeq(s, 1, n)) = n
         /\ Range(SubSeq(s, 1, n)) \subseteq Range(s) /\ SortedRows(SubSeq(s, 1, n))
         /\ \A i \in 1..n : SubSeq(s, 1, n)[i] = s[i]
<1>1. /\ SubSeq(s, 1, n) \in Seq(ListRows) /\ Len(SubSeq(s, 1, n)) = n
      /\ \A i \in 1..n : SubSeq(s, 1, n)[i] = s[i]
  OBVIOUS
<1>2. DOMAIN SubSeq(s, 1, n) = 1..n /\ 1..n \subseteq DOMAIN s
  BY <1>1
<1> QED BY <1>1, <1>2 DEF Range, SortedRows

LEMMA PageOfIs ==
  ASSUME IsFiniteSet(listed), listed \subseteq ListRows,
         NEW filter, NEW cursor, NEW page, page = PageOf(filter, cursor)
  PROVE  /\ page.rows \in Seq(ListRows) /\ Range(page.rows) \subseteq listed
         /\ page.next \in Cursors /\ SortedRows(page.rows)
         /\ \A i \in DOMAIN page.rows : After(cursor, page.rows[i])
         /\ page.next # NoCursor =>
              page.rows # <<>> /\ page.next = EncodeCursor(Last(page.rows))
         /\ \A r \in listed : Matches(filter, r) /\ After(cursor, r) => Reached(page, r)
<1> DEFINE found == {r \in listed : Matches(filter, r) /\ After(cursor, r)}
<1>1. found \in SUBSET ListRows /\ IsFiniteSet(found)
  <2>1. found \in SUBSET listed
    OBVIOUS
  <2> QED BY <2>1, FS_Subset
<1>2. PICK rows : rows = NewestFirst(found)
  OBVIOUS
<1>3. rows \in Seq(ListRows) /\ Range(rows) = found /\ SortedRows(rows)
  BY <1>1, <1>2, NewestFirstSorts
<1>4. \A i \in DOMAIN rows : rows[i] \in listed /\ After(cursor, rows[i])
  BY <1>3 DEF Range
<1>5. \A r \in listed : Matches(filter, r) /\ After(cursor, r) => \E i \in DOMAIN rows : rows[i] = r
  BY <1>3 DEF Range
<1>6. PageLimit \in Nat /\ PageLimit > 0
  BY ListsAssumption
<1>7. /\ Len(rows) > PageLimit =>
           page = [rows |-> SubSeq(rows, 1, PageLimit),
                   next |-> EncodeCursor(Last(SubSeq(rows, 1, PageLimit)))]
      /\ ~(Len(rows) > PageLimit) => page = [rows |-> rows, next |-> NoCursor]
  BY <1>2 DEF PageOf
<1> HIDE DEF found
<1>8. CASE Len(rows) > PageLimit
  <2> DEFINE shown == SubSeq(rows, 1, PageLimit)
  <2>1. /\ shown \in Seq(ListRows) /\ Len(shown) = PageLimit
        /\ Range(shown) \subseteq Range(rows) /\ SortedRows(shown)
        /\ \A i \in 1..PageLimit : shown[i] = rows[i]
    BY <1>3, <1>6, <1>8, FirstOnes
  <2>2. page.rows = shown /\ page.next = EncodeCursor(Last(shown))
    BY <1>7, <1>8
  <2> HIDE DEF shown
  <2>3. Last(shown) = rows[PageLimit] /\ Last(shown) \in ListRows /\ shown # <<>>
    BY <1>3, <1>6, <1>8, <2>1 DEF Last
  <2>4. page.next \in Cursors
    BY <2>2, <2>3, CursorOf
  <2>5. \A i \in DOMAIN shown : After(cursor, shown[i])
    BY <1>4, <1>6, <1>8, <2>1
  <2>6. Range(shown) \subseteq listed
    BY <1>4, <2>1 DEF Range
  <2>7. ASSUME NEW r \in listed, Matches(filter, r), After(cursor, r) PROVE Reached(page, r)
    <3>1. PICK i \in DOMAIN rows : rows[i] = r
      BY <1>5, <2>7
    <3>2. CASE i <= PageLimit
      BY <1>3, <2>1, <2>2, <3>1, <3>2 DEF Reached, Range
    <3>3. CASE i > PageLimit
      <4>1. Newer(rows[PageLimit], rows[i])
        BY <1>3, <1>6, <1>8, <3>1, <3>3 DEF SortedRows
      <4> QED BY <2>2, <2>3, <3>1, <4>1, CursorOf DEF Reached
    <3> QED BY <1>3, <1>6, <3>1, <3>2, <3>3
  <2> QED BY <2>1, <2>2, <2>3, <2>4, <2>5, <2>6, <2>7
<1>9. CASE ~(Len(rows) > PageLimit)
  <2>1. page.rows = rows /\ page.next = NoCursor
    BY <1>7, <1>9
  <2>2. NoCursor \in Cursors
    BY DEF NoCursor, Cursors
  <2>3. Range(rows) \subseteq listed
    BY <1>4 DEF Range
  <2>4. \A r \in listed : Matches(filter, r) /\ After(cursor, r) => Reached(page, r)
    BY <1>5, <2>1 DEF Reached, Range
  <2> QED BY <1>3, <1>4, <2>1, <2>2, <2>3, <2>4
<1> QED BY <1>8, <1>9

(***************************************************************************)
(* Sequences                                                               *)
(***************************************************************************)
LEMMA Appending ==
  ASSUME NEW a \in Seq(ListRows), NEW b \in Seq(ListRows)
  PROVE  /\ a \o b \in Seq(ListRows) /\ Range(a \o b) = Range(a) \cup Range(b)
         /\ b # <<>> => a \o b # <<>> /\ Last(a \o b) = Last(b)
<1>1. a \o b \in Seq(ListRows) /\ Len(a \o b) = Len(a) + Len(b)
  OBVIOUS
<1>2. \A i \in 1..(Len(a) + Len(b)) :
        (a \o b)[i] = IF i <= Len(a) THEN a[i] ELSE b[i - Len(a)]
  OBVIOUS
<1>3. ASSUME NEW x PROVE x \in Range(a \o b) <=> x \in Range(a) \/ x \in Range(b)
  <2>1. ASSUME NEW i \in DOMAIN a PROVE a[i] \in Range(a \o b)
    BY <1>1, <1>2, <2>1 DEF Range
  <2>2. ASSUME NEW i \in DOMAIN b PROVE b[i] \in Range(a \o b)
    <3>1. i + Len(a) \in 1..(Len(a) + Len(b)) /\ (a \o b)[i + Len(a)] = b[i]
      BY <1>2
    <3> QED BY <1>1, <3>1 DEF Range
  <2>3. ASSUME NEW i \in DOMAIN (a \o b) PROVE (a \o b)[i] \in Range(a) \cup Range(b)
    <3>1. i \in 1..(Len(a) + Len(b))
      BY <1>1
    <3> QED BY <1>2, <3>1 DEF Range
  <2> QED BY <2>1, <2>2, <2>3 DEF Range
<1>4. b # <<>> => Len(b) > 0
  OBVIOUS
<1> QED BY <1>1, <1>2, <1>3, <1>4 DEF Last

LEMMA SortedAppending ==
  ASSUME NEW a \in Seq(ListRows), NEW b \in Seq(ListRows), SortedRows(a), SortedRows(b),
         \A i \in DOMAIN a, j \in DOMAIN b : Newer(a[i], b[j])
  PROVE  SortedRows(a \o b)
<1>1. DOMAIN (a \o b) = 1..(Len(a) + Len(b))
  OBVIOUS
<1>2. \A i \in 1..(Len(a) + Len(b)) :
        (a \o b)[i] = IF i <= Len(a) THEN a[i] ELSE b[i - Len(a)]
  OBVIOUS
<1>3. ASSUME NEW i \in 1..(Len(a) + Len(b)), NEW j \in 1..(Len(a) + Len(b)), i < j
      PROVE  Newer((a \o b)[i], (a \o b)[j])
  <2>1. CASE j <= Len(a)
    BY <1>2, <1>3, <2>1 DEF SortedRows
  <2>2. CASE i <= Len(a) /\ ~(j <= Len(a))
    BY <1>2, <1>3, <2>2
  <2>3. CASE ~(i <= Len(a))
    <3>1. i - Len(a) \in DOMAIN b /\ j - Len(a) \in DOMAIN b /\ i - Len(a) < j - Len(a)
          /\ ~(j <= Len(a))
      BY <1>3, <2>3
    <3>2. Newer(b[i - Len(a)], b[j - Len(a)])
      BY <3>1 DEF SortedRows
    <3> QED BY <1>2, <2>3, <3>1, <3>2
  <2> QED BY <2>1, <2>2, <2>3
<1> QED BY <1>1, <1>3 DEF SortedRows

LEMMA Removing ==
  ASSUME NEW S, NEW s \in Seq(S), NEW i \in DOMAIN s
  PROVE  /\ RemoveAt(s, i) \in Seq(S) /\ Len(RemoveAt(s, i)) = Len(s) - 1
         /\ \A j \in DOMAIN RemoveAt(s, i) :
              \E k \in DOMAIN s : k # i /\ RemoveAt(s, i)[j] = s[k]
         /\ \A k \in DOMAIN s : k # i =>
              \E j \in DOMAIN RemoveAt(s, i) : RemoveAt(s, i)[j] = s[k]
<1> DEFINE a == SubSeq(s, 1, i - 1)
           b == SubSeq(s, i + 1, Len(s))
<1>1. /\ a \in Seq(S) /\ Len(a) = i - 1 /\ \A k \in 1..(i - 1) : a[k] = s[k]
  OBVIOUS
<1>2. /\ b \in Seq(S) /\ Len(b) = Len(s) - i
      /\ \A k \in 1..(Len(s) - i) : b[k] = s[i + k]
  OBVIOUS
<1>3. RemoveAt(s, i) = a \o b
  BY DEF RemoveAt
<1> HIDE DEF a, b
<1>4. /\ a \o b \in Seq(S) /\ Len(a \o b) = Len(s) - 1
      /\ \A k \in 1..(Len(s) - 1) :
           (a \o b)[k] = IF k <= i - 1 THEN a[k] ELSE b[k - (i - 1)]
  <2>1. Len(a) + Len(b) = Len(s) - 1
    BY <1>1, <1>2
  <2>2. /\ a \o b \in Seq(S) /\ Len(a \o b) = Len(a) + Len(b)
        /\ \A k \in 1..(Len(a) + Len(b)) :
             (a \o b)[k] = IF k <= Len(a) THEN a[k] ELSE b[k - Len(a)]
    BY <1>1, <1>2
  <2> QED BY <1>1, <2>1, <2>2
<1>5. \A k \in 1..(Len(s) - 1) : (a \o b)[k] = IF k <= i - 1 THEN s[k] ELSE s[k + 1]
  <2> SUFFICES ASSUME NEW k \in 1..(Len(s) - 1)
               PROVE  (a \o b)[k] = IF k <= i - 1 THEN s[k] ELSE s[k + 1]
    OBVIOUS
  <2>1. CASE k <= i - 1
    BY <1>1, <1>4, <2>1
  <2>2. CASE ~(k <= i - 1)
    <3>1. k - (i - 1) \in 1..(Len(s) - i) /\ i + (k - (i - 1)) = k + 1
      BY <2>2
    <3> QED BY <1>2, <1>4, <2>2, <3>1
  <2> QED BY <2>1, <2>2
<1>6. ASSUME NEW k \in DOMAIN s, k # i
      PROVE  \E j \in 1..(Len(s) - 1) : (a \o b)[j] = s[k]
  <2>1. CASE k < i
    <3>1. k \in 1..(Len(s) - 1) /\ k <= i - 1
      BY <2>1
    <3> QED BY <1>5, <3>1
  <2>2. CASE k > i
    <3>1. k - 1 \in 1..(Len(s) - 1) /\ ~(k - 1 <= i - 1) /\ k - 1 + 1 = k
      BY <2>2
    <3> QED BY <1>5, <3>1
  <2>3. k < i \/ k > i
    <3>1. k \in Int /\ i \in Int /\ k # i
      BY <1>6
    <3> QED BY <3>1
  <2> QED BY <2>1, <2>2, <2>3, Zenon
<1>7. ASSUME NEW j \in 1..(Len(s) - 1)
      PROVE  \E k \in DOMAIN s : k # i /\ (a \o b)[j] = s[k]
  <2>1. CASE j <= i - 1
    <3>1. j \in DOMAIN s /\ j # i
      BY <2>1
    <3> QED BY <1>5, <2>1, <3>1
  <2>2. CASE ~(j <= i - 1)
    <3>1. j + 1 \in DOMAIN s /\ j + 1 # i
      BY <2>2
    <3> QED BY <1>5, <2>2, <3>1
  <2> QED BY <2>1, <2>2
<1>8. DOMAIN (a \o b) = 1..(Len(s) - 1)
  BY <1>4
<1> QED BY <1>3, <1>4, <1>6, <1>7, <1>8

(***************************************************************************)
(* The invariant                                                           *)
(***************************************************************************)
LEMMA LoadTypes ==
  ASSUME NEW l \in ListLoads
  PROVE  /\ l = [filter |-> l.filter, cursor |-> l.cursor, append |-> l.append,
                 served |-> l.served, alone |-> l.alone, rows |-> l.rows, next |-> l.next]
         /\ l.filter \in Filters /\ l.cursor \in Cursors /\ l.append \in BOOLEAN
         /\ l.served \in BOOLEAN /\ l.alone \in BOOLEAN /\ l.rows \in Seq(ListRows)
         /\ l.next \in Cursors
BY DEF ListLoads

LEMMA ListInvProves == ListInv => ListTypeOK /\ ListIsExact
<1> SUFFICES ASSUME ListInv PROVE ListTypeOK /\ ListIsExact
  OBVIOUS
<1>1. ListTypeOK
  <2>1. ASSUME NEW i \in DOMAIN loads
        PROVE  /\ loads[i].filter \in Filters /\ loads[i].cursor \in Cursors
               /\ loads[i].append \in BOOLEAN /\ loads[i].served \in BOOLEAN
               /\ loads[i].alone \in BOOLEAN
               /\ Range(loads[i].rows) \subseteq listed /\ loads[i].next \in Cursors
    <3>1. loads[i] \in ListLoads /\ Range(loads[i].rows) \subseteq listed
      BY DEF ListInv, LoadKept
    <3> QED BY <3>1, LoadTypes
  <2> QED BY <2>1 DEF ListInv, ListWalks, ListTypeOK
<1>2. NoRowTwice
  BY DEF NoRowTwice, ListInv, ItemsSorted, SortedRows
<1>3. WalkIsComplete
  BY DEF WalkIsComplete, ListInv, WalkGoesOn
<1> QED BY <1>1, <1>2, <1>3 DEF ListIsExact

LEMMA ListInvInit == ListInit => ListInv
<1> SUFFICES ASSUME ListInit PROVE ListInv
  OBVIOUS
<1> DEFINE first == Load(AnyTag, NoCursor, FALSE)
<1>1. /\ first \in ListLoads /\ first.append = FALSE /\ first.cursor = NoCursor
      /\ first.served = FALSE /\ first.rows = <<>>
  BY DEF Load, ListLoads, Filters, Cursors, NoCursor
<1>2. loads = <<first>> /\ Len(loads) = 1 /\ loads[1] = first
  BY DEF ListInit
<1> HIDE DEF first
<1>3. LoadKept(first)
  BY <1>1 DEF LoadKept, Range
<1>4. /\ IsFiniteSet(listed) /\ listed \subseteq ListRows /\ tagOf \in [ListRows -> Tags]
  BY ListsAssumption DEF ListInit
<1>5. loads \in Seq(ListLoads) /\ \A i \in DOMAIN loads : LoadKept(loads[i])
  BY <1>1, <1>2, <1>3
<1>6. /\ console \in [filter : Filters, items : Seq(ListRows), cursor : Cursors]
      /\ console.items = <<>> /\ console.cursor = NoCursor
  BY DEF ListInit, Filters, Cursors, NoCursor
<1>7. /\ walk \in ListWalks /\ walk.rows = {} /\ walk.lasts = {}
      /\ walk.filter = console.filter
  BY DEF ListInit, ListWalks, Filters
<1>8. Range(console.items) = {}
  BY <1>6 DEF Range
<1>9. ItemsSorted /\ WalkGoesOn
  BY <1>6, <1>7 DEF ItemsSorted, WalkGoesOn, SortedRows
<1> QED BY <1>2, <1>4, <1>5, <1>6, <1>7, <1>8, <1>9 DEF ListInv

LEMMA InsertRowKeeps == ASSUME ListInv, NEW r \in ListRows, InsertRow(r) PROVE ListInv'
<1>1. /\ listed' = listed \cup {r} /\ listed \subseteq listed' /\ listed' \subseteq ListRows
      /\ UNCHANGED <<tagOf, loads, console, walk>>
  BY DEF InsertRow, ListInv
<1>2. IsFiniteSet(listed')
  BY <1>1, FS_AddElement DEF ListInv
<1>3. ASSUME NEW i \in DOMAIN loads PROVE LoadKept(loads[i])'
  BY <1>1, <1>3 DEF ListInv, LoadKept, Matches
<1>4. ItemsSorted' /\ WalkGoesOn'
  BY <1>1 DEF ListInv, ItemsSorted, WalkGoesOn, Matches
<1> QED BY <1>1, <1>2, <1>3, <1>4 DEF ListInv

\* A row whose tag changes leaves the walk, or the walk has no filter.
LEMMA ChangeTagKeeps ==
  ASSUME ListInv, NEW r \in ListRows, NEW tag \in Tags, ChangeTag(r, tag) PROVE ListInv'
<1>1. /\ UNCHANGED <<listed, loads, console>> /\ tagOf' \in [ListRows -> Tags]
      /\ \A s \in ListRows : s # r => tagOf'[s] = tagOf[s]
  BY DEF ChangeTag, ListInv
<1>2. PICK rows : rows = IF walk.filter = AnyTag THEN walk.rows ELSE walk.rows \ {r}
  OBVIOUS
<1>3. walk' = [filter |-> walk.filter, rows |-> rows, lasts |-> walk.lasts,
               clean |-> walk.clean, overlapped |-> walk.overlapped]
  BY <1>2 DEF ChangeTag, ListInv, ListWalks
<1>4. /\ walk' \in ListWalks /\ walk'.rows \subseteq walk.rows /\ walk'.lasts = walk.lasts
      /\ walk'.filter = walk.filter /\ walk'.clean = walk.clean
      /\ walk'.overlapped = walk.overlapped
  BY <1>2, <1>3 DEF ListInv, ListWalks
<1>5. \A s \in walk'.rows : Matches(walk.filter, s)' <=> Matches(walk.filter, s)
  BY <1>1, <1>2, <1>3 DEF Matches, ListInv, ListWalks
<1>6. ASSUME NEW i \in DOMAIN loads PROVE LoadKept(loads[i])'
  <2>1. LoadKept(loads[i]) /\ loads[i] \in ListLoads
    BY DEF ListInv
  <2>2. ASSUME loads[i].served, loads[i].alone,
               loads[i].append => walk.clean /\ ~walk.overlapped
        PROVE  loads[i].filter = walk.filter
    <3>1. CASE ~loads[i].append
      BY <2>1, <2>2, <3>1 DEF LoadKept
    <3>2. CASE loads[i].append
      <4>1. Len(loads) = 1
        BY <2>2 DEF ListInv
      <4>2. \A k \in DOMAIN loads : loads[k].served => loads[k].append
        BY <3>2, <4>1 DEF ListInv
      <4> QED BY <2>1, <2>2, <3>2, <4>2 DEF ListInv, WalkGoesOn, LoadKept
    <3> QED BY <3>1, <3>2
  <2> QED BY <1>1, <1>4, <1>5, <2>1, <2>2 DEF LoadKept, Reached
<1>7. ItemsSorted'
  BY <1>1, <1>4 DEF ListInv, ItemsSorted
<1>8. WalkGoesOn'
  <2> SUFFICES ASSUME walk.clean, ~walk.overlapped,
                      \A i \in DOMAIN loads : loads[i].served => loads[i].append
               PROVE  /\ walk.filter = console.filter
                      /\ \A s \in walk'.rows :
                           \/ s \in Range(console.items)
                           \/ \E u \in walk.lasts : u.t \div 1000 = s.t \div 1000
                           \/ /\ console.cursor # NoCursor /\ Matches(walk.filter, s)'
                              /\ Newer(console.cursor, s)
    BY <1>1, <1>4 DEF WalkGoesOn, Matches
  <2>1. /\ walk.filter = console.filter
        /\ \A s \in walk.rows :
             \/ s \in Range(console.items)
             \/ \E u \in walk.lasts : u.t \div 1000 = s.t \div 1000
             \/ /\ console.cursor # NoCursor /\ Matches(console.filter, s)
                /\ Newer(console.cursor, s)
    BY DEF ListInv, WalkGoesOn
  <2> QED BY <1>4, <1>5, <2>1
<1> QED BY <1>1, <1>4, <1>6, <1>7, <1>8 DEF ListInv

LEMMA SelectFilterKeeps == ASSUME ListInv, NEW f \in Filters, SelectFilter(f) PROVE ListInv'
<1>1. /\ console' = [filter |-> f, items |-> console.items, cursor |-> console.cursor]
      /\ walk' = [filter |-> walk.filter, rows |-> walk.rows, lasts |-> walk.lasts,
                  clean |-> FALSE, overlapped |-> walk.overlapped]
      /\ UNCHANGED <<listed, tagOf, loads>>
  BY DEF SelectFilter, ListInv, ListWalks
<1>2. /\ console'.items = console.items /\ console'.cursor = console.cursor
      /\ walk'.filter = walk.filter /\ walk'.rows = walk.rows /\ walk'.lasts = walk.lasts
      /\ walk'.clean = FALSE /\ walk'.overlapped = walk.overlapped
  BY <1>1
<1>3. ASSUME NEW i \in DOMAIN loads PROVE LoadKept(loads[i])'
  BY <1>1, <1>2, <1>3 DEF ListInv, LoadKept, Matches
<1>4. ItemsSorted' /\ WalkGoesOn'
  BY <1>2 DEF ListInv, ItemsSorted, WalkGoesOn
<1>5. /\ console' \in [filter : Filters, items : Seq(ListRows), cursor : Cursors]
      /\ walk' \in ListWalks
  BY <1>1 DEF ListInv, ListWalks
<1> QED BY <1>1, <1>2, <1>3, <1>4, <1>5 DEF ListInv

LEMMA SendKeeps ==
  ASSUME ListInv, NEW load \in ListLoads, Send(load), ~load.served, load.rows = <<>>,
         load.append <=> load.cursor # NoCursor, load.append => load.cursor = console.cursor,
         load.filter = console.filter
  PROVE  ListInv'
<1> DEFINE alone == loads = <<>>
<1>1. PICK sent : sent = [load EXCEPT !.alone = alone]
  OBVIOUS
<1>2. /\ sent \in ListLoads /\ sent.filter = load.filter /\ sent.cursor = load.cursor
      /\ sent.append = load.append /\ sent.served = load.served /\ sent.alone = alone
      /\ sent.rows = load.rows
  BY <1>1, LoadTypes DEF ListLoads
<1>3. PICK olds : olds = [i \in DOMAIN loads |-> [loads[i] EXCEPT !.alone = FALSE]]
  OBVIOUS
<1>4. ASSUME NEW i \in DOMAIN loads
      PROVE  /\ olds[i] \in ListLoads /\ olds[i].filter = loads[i].filter
             /\ olds[i].cursor = loads[i].cursor /\ olds[i].append = loads[i].append
             /\ olds[i].served = loads[i].served /\ olds[i].alone = FALSE
             /\ olds[i].rows = loads[i].rows /\ olds[i].next = loads[i].next
  <2>1. loads[i] \in ListLoads /\ olds[i] = [loads[i] EXCEPT !.alone = FALSE]
    BY <1>3 DEF ListInv
  <2> QED BY <2>1, LoadTypes DEF ListLoads
<1>5. olds \in Seq(ListLoads) /\ Len(olds) = Len(loads) /\ Len(loads) \in Nat
  <2>1. DOMAIN loads = 1..Len(loads) /\ Len(loads) \in Nat
    BY DEF ListInv
  <2>2. olds \in [1..Len(loads) -> ListLoads]
    BY <1>3, <1>4, <2>1
  <2> QED BY <2>1, <2>2
<1>6. loads' = Append(olds, sent) /\ UNCHANGED <<listed, tagOf, console, walk>>
  BY <1>1, <1>3 DEF Send
<1>7. /\ loads' \in Seq(ListLoads) /\ Len(loads') = Len(loads) + 1
      /\ \A i \in DOMAIN loads : i \in DOMAIN loads' /\ loads'[i] = olds[i]
      /\ loads'[Len(loads) + 1] = sent
      /\ \A i \in DOMAIN loads' : i \in DOMAIN loads \/ i = Len(loads) + 1
  BY <1>2, <1>5, <1>6 DEF ListInv
<1>8. ASSUME NEW i \in DOMAIN loads' PROVE LoadKept(loads[i])'
  <2>1. CASE i \in DOMAIN loads
    <3>1. LoadKept(loads[i])
      BY <2>1 DEF ListInv
    <3>2. loads'[i] = olds[i]
      BY <1>7, <2>1
    <3> QED BY <1>4, <1>6, <2>1, <3>1, <3>2 DEF LoadKept, Reached, Matches
  <2>2. CASE i = Len(loads) + 1
    <3>1. loads'[i] = sent
      BY <1>7, <2>2
    <3> QED BY <1>2, <1>6, <3>1 DEF LoadKept, Range
  <2> QED BY <1>7, <2>1, <2>2
<1>9. ASSUME NEW i \in DOMAIN loads', loads'[i].alone PROVE Len(loads') = 1
  <2>1. i = Len(loads) + 1
    BY <1>4, <1>7, <1>9
  <2>2. loads = <<>>
    BY <1>2, <1>7, <1>9, <2>1
  <2> QED BY <1>7, <2>2
<1>10. ItemsSorted'
  BY <1>6 DEF ListInv, ItemsSorted
<1>11. WalkGoesOn'
  <2>1. (\A i \in DOMAIN loads' : loads'[i].served => loads'[i].append) =>
           \A i \in DOMAIN loads : loads[i].served => loads[i].append
    BY <1>4, <1>7
  <2> QED BY <1>6, <2>1 DEF ListInv, WalkGoesOn, Matches
<1> QED BY <1>6, <1>7, <1>8, <1>9, <1>10, <1>11 DEF ListInv

LEMMA SendsKeep == ASSUME ListInv, SubmitFilter \/ LoadMore PROVE ListInv'
<1>1. /\ console.filter \in Filters /\ console.cursor \in Cursors /\ NoCursor \in Cursors
  BY DEF ListInv, NoCursor, Cursors
<1>2. ASSUME NEW cursor \in Cursors, NEW append \in BOOLEAN,
             append <=> cursor # NoCursor, append => cursor = console.cursor,
             Send(Load(console.filter, cursor, append))
      PROVE  ListInv'
  <2>1. PICK load : load = Load(console.filter, cursor, append)
    OBVIOUS
  <2>2. /\ load \in ListLoads /\ load.filter = console.filter /\ load.cursor = cursor
        /\ load.append = append /\ load.served = FALSE /\ load.rows = <<>>
    BY <1>1, <2>1 DEF Load, ListLoads
  <2> QED BY <1>2, <2>1, <2>2, SendKeeps
<1>3. CASE SubmitFilter
  BY <1>1, <1>2, <1>3 DEF SubmitFilter
<1>4. CASE LoadMore
  BY <1>1, <1>2, <1>4 DEF LoadMore
<1> QED BY <1>3, <1>4

LEMMA ServeKeeps == ASSUME ListInv, NEW i \in DOMAIN loads, Serve(i) PROVE ListInv'
<1>1. PICK load \in ListLoads : load = loads[i]
  BY DEF ListInv
<1>2. PICK page : page = PageOf(load.filter, load.cursor)
  OBVIOUS
<1>3. /\ page.rows \in Seq(ListRows) /\ Range(page.rows) \subseteq listed
      /\ page.next \in Cursors /\ SortedRows(page.rows)
      /\ \A j \in DOMAIN page.rows : After(load.cursor, page.rows[j])
      /\ page.next # NoCursor =>
           page.rows # <<>> /\ page.next = EncodeCursor(Last(page.rows))
      /\ \A r \in listed :
           Matches(load.filter, r) /\ After(load.cursor, r) => Reached(page, r)
  BY <1>2, PageOfIs DEF ListInv
<1>4. PICK new : new = [load EXCEPT !.served = TRUE, !.rows = page.rows, !.next = page.next]
  OBVIOUS
<1>5. /\ new \in ListLoads /\ new.filter = load.filter /\ new.cursor = load.cursor
      /\ new.append = load.append /\ new.served = TRUE /\ new.alone = load.alone
      /\ new.rows = page.rows /\ new.next = page.next
  BY <1>3, <1>4, LoadTypes DEF ListLoads
<1>6. loads' = [loads EXCEPT ![i] = new]
  <2>1. loads' = [loads EXCEPT ![i].served = TRUE, ![i].rows = page.rows, ![i].next = page.next]
    BY <1>1, <1>2 DEF Serve
  <2> QED BY <1>1, <1>4, <2>1
<1>7. /\ loads' \in Seq(ListLoads) /\ Len(loads') = Len(loads) /\ DOMAIN loads' = DOMAIN loads
      /\ loads'[i] = new /\ \A j \in DOMAIN loads : j # i => loads'[j] = loads[j]
  BY <1>5, <1>6 DEF ListInv
<1>8. UNCHANGED <<listed, tagOf, console>> /\ ~load.served /\ LoadKept(load)
  BY <1>1 DEF Serve, ListInv
<1>9. /\ load.append => walk' = walk
      /\ ~load.append => walk' = [walk EXCEPT !.filter = load.filter,
                                              !.rows = {r \in listed : Matches(load.filter, r)},
                                              !.lasts = {}]
  BY <1>1 DEF Serve
<1>10. /\ walk' \in ListWalks
       /\ walk'.rows \subseteq listed /\ walk'.lasts \subseteq listed
       /\ walk'.clean = walk.clean /\ walk'.overlapped = walk.overlapped
       /\ load.append => walk' = walk
       /\ ~load.append => /\ walk'.rows = {r \in listed : Matches(load.filter, r)}
                          /\ walk'.filter = load.filter
  <2>1. CASE load.append
    BY <1>9, <2>1 DEF ListInv
  <2>2. CASE ~load.append
    <3> DEFINE rows == {r \in listed : Matches(load.filter, r)}
    <3>1. rows \subseteq listed /\ rows \in SUBSET ListRows
      BY DEF ListInv
    <3>2. walk' = [walk EXCEPT !.filter = load.filter, !.rows = rows, !.lasts = {}]
      BY <1>9, <2>2
    <3> HIDE DEF rows
    <3>3. walk' = [filter |-> load.filter, rows |-> rows, lasts |-> {},
                   clean |-> walk.clean, overlapped |-> walk.overlapped]
      BY <3>2 DEF ListInv, ListWalks
    <3> QED BY <2>2, <3>1, <3>3, LoadTypes DEF ListInv, ListWalks, rows
  <2> QED BY <2>1, <2>2
<1>11. LoadKept(loads[i])'
  <2>1. Range(new.rows) \subseteq listed' /\ (new.append <=> new.cursor # NoCursor)
    BY <1>3, <1>5, <1>8 DEF LoadKept
  <2>2. new.alone /\ new.append => /\ new.cursor = console'.cursor
                                   /\ walk'.clean => new.filter = console'.filter
    BY <1>5, <1>8, <1>10 DEF LoadKept
  <2>3. /\ SortedRows(new.rows)
        /\ \A j \in DOMAIN new.rows : After(new.cursor, new.rows[j])
        /\ new.next # NoCursor =>
             new.rows # <<>> /\ new.next = EncodeCursor(Last(new.rows))
    BY <1>3, <1>5
  <2>4. ASSUME NEW r \in walk'.rows
        PROVE  /\ ~new.append => Matches(new.filter, r)
               /\ Matches(new.filter, r) /\ After(new.cursor, r) => Reached(new, r)
    BY <1>3, <1>5, <1>10 DEF Reached, ListInv
  <2>5. ~new.append => new.filter = walk'.filter
    BY <1>5, <1>10
  <2> QED BY <1>7, <1>8, <2>1, <2>2, <2>3, <2>4, <2>5 DEF LoadKept, Reached, Matches
<1>12. ASSUME NEW j \in DOMAIN loads, j # i PROVE LoadKept(loads[j])'
  <2>1. LoadKept(loads[j]) /\ ~loads[j].alone
    BY <1>12 DEF ListInv
  <2> QED BY <1>7, <1>8, <1>10, <1>12, <2>1 DEF LoadKept
<1>13. ASSUME NEW j \in DOMAIN loads', loads'[j].alone PROVE Len(loads') = 1
  BY <1>1, <1>5, <1>7, <1>13 DEF ListInv
<1>14. ItemsSorted'
  BY <1>8, <1>10 DEF ListInv, ItemsSorted
<1>15. WalkGoesOn'
  <2>1. CASE load.append
    <3>1. \A j \in DOMAIN loads :
            (loads'[j].served => loads'[j].append) => (loads[j].served => loads[j].append)
      BY <1>1, <1>7, <2>1
    <3> QED BY <1>1, <1>7, <1>8, <1>10, <2>1, <3>1 DEF ListInv, WalkGoesOn, Matches
  <2>2. CASE ~load.append
    <3>1. loads'[i].served /\ ~loads'[i].append /\ i \in DOMAIN loads'
      BY <1>5, <1>7, <2>2
    <3> QED BY <3>1 DEF WalkGoesOn
  <2> QED BY <2>1, <2>2
<1>16. \A j \in DOMAIN loads' : LoadKept(loads[j])'
  BY <1>7, <1>11, <1>12
<1> QED BY <1>7, <1>8, <1>10, <1>13, <1>14, <1>15, <1>16 DEF ListInv

\* A load that leaves: the others were not alone, and stay.
LEMMA OthersStay ==
  ASSUME ListInv, NEW i \in DOMAIN loads, loads' = RemoveAt(loads, i),
         UNCHANGED <<listed, tagOf>>
  PROVE  /\ loads' \in Seq(ListLoads)
         /\ \A j \in DOMAIN loads' : LoadKept(loads[j])' /\ ~loads'[j].alone
         /\ \A k \in DOMAIN loads : k # i => \E j \in DOMAIN loads' : loads'[j] = loads[k]
<1>1. loads \in Seq(ListLoads)
  BY DEF ListInv
<1>2. /\ loads' \in Seq(ListLoads) /\ Len(loads') = Len(loads) - 1
      /\ \A j \in DOMAIN loads' : \E k \in DOMAIN loads : k # i /\ loads'[j] = loads[k]
      /\ \A k \in DOMAIN loads : k # i => \E j \in DOMAIN loads' : loads'[j] = loads[k]
  BY <1>1, Removing
<1>3. ASSUME NEW j \in DOMAIN loads' PROVE LoadKept(loads[j])' /\ ~loads'[j].alone
  <2>1. PICK k \in DOMAIN loads : k # i /\ loads'[j] = loads[k]
    BY <1>2
  <2>2. LoadKept(loads[k]) /\ ~loads[k].alone
    BY <1>1, <2>1 DEF ListInv
  <2> QED BY <2>1, <2>2 DEF LoadKept
<1> QED BY <1>2, <1>3

LEMMA LoadFailsKeeps ==
  ASSUME ListInv, NEW i \in DOMAIN loads, LoadFails(i) PROVE ListInv'
<1>1. /\ loads' \in Seq(ListLoads)
      /\ \A j \in DOMAIN loads' : LoadKept(loads[j])' /\ ~loads'[j].alone
      /\ \A k \in DOMAIN loads : k # i => \E j \in DOMAIN loads' : loads'[j] = loads[k]
  BY OthersStay DEF LoadFails
<1>2. /\ UNCHANGED <<listed, tagOf, console>>
      /\ walk' = [walk EXCEPT !.clean = walk.clean /\ loads[i].append]
  BY DEF LoadFails
<1>3. loads[i] \in ListLoads /\ loads[i].append \in BOOLEAN
  BY LoadTypes DEF ListInv
<1>4. PICK kept \in BOOLEAN : kept = (walk.clean /\ loads[i].append)
  BY <1>3 DEF ListInv, ListWalks
<1>5. walk' = [filter |-> walk.filter, rows |-> walk.rows, lasts |-> walk.lasts,
               clean |-> kept, overlapped |-> walk.overlapped]
  BY <1>2, <1>4 DEF ListInv, ListWalks
<1>6. /\ walk' \in ListWalks /\ walk'.filter = walk.filter
      /\ walk'.rows = walk.rows /\ walk'.lasts = walk.lasts
      /\ walk'.clean <=> walk.clean /\ loads[i].append
      /\ walk'.overlapped = walk.overlapped
  BY <1>4, <1>5 DEF ListInv, ListWalks
<1>7. ItemsSorted'
  BY <1>2, <1>6 DEF ListInv, ItemsSorted
<1>8. WalkGoesOn'
  <2> SUFFICES ASSUME walk'.clean, ~walk'.overlapped,
                      \A j \in DOMAIN loads' : loads'[j].served => loads'[j].append
               PROVE  WalkGoesOn'
    BY DEF WalkGoesOn
  <2>1. \A k \in DOMAIN loads : loads[k].served => loads[k].append
    BY <1>1, <1>6
  <2> QED BY <1>2, <1>6, <2>1 DEF ListInv, WalkGoesOn, Matches
<1> QED BY <1>1, <1>2, <1>6, <1>7, <1>8 DEF ListInv

LEMMA ArriveKeeps == ASSUME ListInv, NEW i \in DOMAIN loads, Arrive(i) PROVE ListInv'
<1>1. PICK load \in ListLoads : load = loads[i]
  BY DEF ListInv
<1>2. /\ loads' \in Seq(ListLoads)
      /\ \A j \in DOMAIN loads' : LoadKept(loads[j])' /\ ~loads'[j].alone
      /\ \A k \in DOMAIN loads : k # i => \E j \in DOMAIN loads' : loads'[j] = loads[k]
  BY OthersStay DEF Arrive
<1>3. /\ load.served /\ UNCHANGED <<listed, tagOf>>
      /\ console' = [console EXCEPT
           !.items = IF load.append THEN console.items \o load.rows ELSE load.rows,
           !.cursor = load.next]
      /\ walk' = [walk EXCEPT
           !.lasts = IF load.next = NoCursor THEN walk.lasts
                     ELSE walk.lasts \cup {Last(load.rows)},
           !.clean = IF load.append THEN walk.clean ELSE load.filter = console.filter,
           !.overlapped = ~load.alone \/ (load.append /\ walk.overlapped)]
  BY <1>1 DEF Arrive
<1>4. /\ load.filter \in Filters /\ load.cursor \in Cursors /\ load.append \in BOOLEAN
      /\ load.alone \in BOOLEAN /\ load.rows \in Seq(ListRows) /\ load.next \in Cursors
  BY LoadTypes
<1>5. /\ LoadKept(load) /\ Range(load.rows) \subseteq listed /\ SortedRows(load.rows)
      /\ (load.append <=> load.cursor # NoCursor)
      /\ \A k \in DOMAIN load.rows : After(load.cursor, load.rows[k])
      /\ load.next # NoCursor =>
           load.rows # <<>> /\ load.next = EncodeCursor(Last(load.rows))
  <2>1. LoadKept(load)
    BY <1>1 DEF ListInv
  <2> QED BY <1>3, <2>1 DEF LoadKept
<1>6. load.next # NoCursor => Last(load.rows) \in listed /\ Last(load.rows) \in ListRows
  <2>1. load.rows # <<>> => Last(load.rows) \in Range(load.rows)
    <3>1. load.rows # <<>> => Len(load.rows) \in DOMAIN load.rows
      BY <1>4
    <3> QED BY <3>1 DEF Last, Range
  <2>2. load.next # NoCursor => Last(load.rows) \in listed
    BY <1>5, <2>1, Zenon
  <2> QED BY <2>2 DEF ListInv
<1>7. PICK items : items = IF load.append THEN console.items \o load.rows ELSE load.rows
  OBVIOUS
<1>8. /\ items \in Seq(ListRows) /\ Range(items) \subseteq listed
      /\ Range(load.rows) \subseteq Range(items)
      /\ load.append => Range(console.items) \subseteq Range(items)
      /\ load.rows # <<>> => items # <<>> /\ Last(items) = Last(load.rows)
  <2>1. console.items \in Seq(ListRows) /\ Range(console.items) \subseteq listed
    BY DEF ListInv
  <2>2. CASE load.append
    BY <1>4, <1>5, <1>7, <2>1, <2>2, Appending
  <2>3. CASE ~load.append
    BY <1>4, <1>5, <1>7, <2>3
  <2> QED BY <2>2, <2>3
<1>9. /\ console' = [filter |-> console.filter, items |-> items, cursor |-> load.next]
      /\ console' \in [filter : Filters, items : Seq(ListRows), cursor : Cursors]
      /\ console'.filter = console.filter /\ console'.items = items
      /\ console'.cursor = load.next
  BY <1>3, <1>4, <1>7, <1>8 DEF ListInv
<1>10. PICK lasts : lasts = IF load.next = NoCursor THEN walk.lasts
                            ELSE walk.lasts \cup {Last(load.rows)}
  OBVIOUS
<1>11. PICK clean \in BOOLEAN :
         clean = IF load.append THEN walk.clean ELSE load.filter = console.filter
  BY <1>4 DEF ListInv, ListWalks
<1>12. PICK crossed \in BOOLEAN :
         crossed = (~load.alone \/ (load.append /\ walk.overlapped))
  BY <1>4 DEF ListInv, ListWalks
<1>13. walk' = [filter |-> walk.filter, rows |-> walk.rows, lasts |-> lasts,
                clean |-> clean, overlapped |-> crossed]
  BY <1>3, <1>10, <1>11, <1>12 DEF ListInv, ListWalks
<1>14. /\ lasts \subseteq listed /\ lasts \in SUBSET ListRows /\ walk.lasts \subseteq lasts
       /\ load.next # NoCursor => Last(load.rows) \in lasts
  BY <1>6, <1>10 DEF ListInv
<1>15. /\ walk' \in ListWalks /\ walk'.filter = walk.filter
       /\ walk'.rows = walk.rows /\ walk'.lasts = lasts /\ walk'.clean = clean
       /\ walk'.overlapped = crossed
  BY <1>13, <1>14 DEF ListInv, ListWalks
<1>16. ItemsSorted'
  <2> SUFFICES ASSUME ~crossed
               PROVE  /\ SortedRows(items)
                      /\ load.next # NoCursor =>
                           items # <<>> /\ load.next = EncodeCursor(Last(items))
    BY <1>9, <1>15 DEF ItemsSorted
  <2>1. load.next # NoCursor => items # <<>> /\ load.next = EncodeCursor(Last(items))
    BY <1>5, <1>8, Zenon
  <2>2. CASE ~load.append
    BY <1>5, <1>7, <2>1, <2>2
  <2>3. CASE load.append
    <3>1. load.alone /\ ~walk.overlapped /\ load.cursor = console.cursor
          /\ load.cursor # NoCursor
      BY <1>5, <1>12, <2>3 DEF LoadKept
    <3>2. /\ console.items \in Seq(ListRows) /\ SortedRows(console.items)
          /\ console.items # <<>> /\ load.cursor = EncodeCursor(Last(console.items))
      BY <3>1 DEF ListInv, ItemsSorted
    <3>3. PICK last \in ListRows : last = Last(console.items)
      BY <3>2 DEF Last
    <3>4. ASSUME NEW a \in DOMAIN console.items, NEW b \in DOMAIN load.rows
          PROVE  Newer(console.items[a], load.rows[b])
      <4>1. load.rows[b] \in ListRows /\ Newer(load.cursor, load.rows[b])
        <5>1. After(load.cursor, load.rows[b])
          BY <1>5
        <5> QED BY <1>4, <3>1, <5>1 DEF After
      <4>2. Newer(last, load.rows[b])
        BY <3>2, <3>3, <4>1, CursorOf
      <4>3. console.items[a] = last \/ Newer(console.items[a], last)
        BY <3>2, <3>3 DEF Last, SortedRows
      <4>4. console.items[a] \in ListRows
        BY <3>2
      <4> QED BY <4>1, <4>2, <4>3, <4>4, NewerOrders
    <3>5. SortedRows(console.items \o load.rows)
      BY <1>4, <1>5, <3>2, <3>4, SortedAppending
    <3> QED BY <1>7, <2>1, <2>3, <3>5
  <2> QED BY <2>2, <2>3
<1>17. WalkGoesOn'
  <2> SUFFICES ASSUME clean, ~crossed
               PROVE  /\ walk.filter = console.filter
                      /\ \A r \in walk.rows :
                           \/ r \in Range(items)
                           \/ \E s \in lasts : s.t \div 1000 = r.t \div 1000
                           \/ /\ load.next # NoCursor /\ Matches(console.filter, r)
                              /\ Newer(load.next, r)
    <3>1. PICK f : f = console.filter /\ console'.filter = f
      BY <1>9
    <3>2. \A r : Matches(f, r)' <=> Matches(f, r)
      BY <1>3 DEF Matches
    <3>3. ASSUME walk'.clean, ~walk'.overlapped PROVE clean /\ ~crossed
      BY <1>15, <3>3
    <3> QED BY <1>9, <1>15, <3>1, <3>2, <3>3 DEF WalkGoesOn
  <2>1. /\ load.alone /\ (load.append => walk.clean /\ ~walk.overlapped)
        /\ walk.rows \subseteq ListRows
    BY <1>11, <1>12 DEF ListInv, ListWalks
  <2>2. load.filter = console.filter
    BY <1>5, <1>11, <2>1 DEF LoadKept
  <2>3. \A k \in DOMAIN loads : load.append => (loads[k].served => loads[k].append)
    <3>1. Len(loads) = 1
      BY <1>1, <2>1 DEF ListInv
    <3> QED BY <1>1, <3>1 DEF ListInv
  <2>4. walk.filter = console.filter
    <3>1. CASE ~load.append
      BY <1>3, <1>5, <2>1, <2>2, <3>1 DEF LoadKept
    <3>2. CASE load.append
      BY <2>1, <2>3, <3>2 DEF ListInv, WalkGoesOn
    <3> QED BY <3>1, <3>2
  <2>5. ASSUME NEW r \in walk.rows
        PROVE  \/ r \in Range(items)
               \/ \E s \in lasts : s.t \div 1000 = r.t \div 1000
               \/ /\ load.next # NoCursor /\ Matches(console.filter, r)
                  /\ Newer(load.next, r)
    <3>1. /\ ~load.append => Matches(load.filter, r)
          /\ Matches(load.filter, r) /\ After(load.cursor, r) => Reached(load, r)
      BY <1>3, <1>5, <2>1 DEF LoadKept
    <3>2. ASSUME Matches(load.filter, r), After(load.cursor, r)
          PROVE  \/ r \in Range(items)
                 \/ \E s \in lasts : s.t \div 1000 = r.t \div 1000
                 \/ /\ load.next # NoCursor /\ Matches(console.filter, r)
                    /\ Newer(load.next, r)
      <4>1. CASE r \in Range(load.rows)
        BY <1>8, <4>1
      <4>2. CASE load.next # NoCursor /\ Newer(Last(load.rows), r)
        <5>1. PICK s \in ListRows : s = Last(load.rows)
          BY <1>6, <4>2
        <5>2. s \in lasts /\ load.next = EncodeCursor(s) /\ Newer(s, r)
          BY <1>5, <1>14, <4>2, <5>1, Zenon
        <5>3. s.t \div 1000 = r.t \div 1000 \/ Newer(EncodeCursor(s), r)
          BY <2>1, <5>2, CursorOf
        <5> QED BY <2>2, <3>2, <4>2, <5>2, <5>3
      <4> QED BY <3>1, <3>2, <4>1, <4>2 DEF Reached
    <3>3. CASE ~load.append
      BY <1>5, <3>1, <3>2, <3>3 DEF After
    <3>4. CASE load.append
      <4>1. load.cursor = console.cursor
        BY <1>5, <2>1, <3>4 DEF LoadKept
      <4>2. \/ r \in Range(console.items)
            \/ \E s \in walk.lasts : s.t \div 1000 = r.t \div 1000
            \/ /\ console.cursor # NoCursor /\ Matches(console.filter, r)
               /\ Newer(console.cursor, r)
        BY <2>1, <2>3, <3>4 DEF ListInv, WalkGoesOn
      <4>3. CASE r \in Range(console.items)
        BY <1>8, <3>4, <4>3
      <4>4. CASE \E s \in walk.lasts : s.t \div 1000 = r.t \div 1000
        BY <1>14, <4>4
      <4>5. CASE Matches(console.filter, r) /\ Newer(console.cursor, r)
        BY <2>2, <3>2, <4>1, <4>5 DEF After
      <4> QED BY <4>2, <4>3, <4>4, <4>5
    <3> QED BY <3>3, <3>4
  <2> QED BY <2>4, <2>5
<1>18. Range(items) \subseteq listed /\ walk.rows \subseteq listed
  BY <1>8 DEF ListInv
<1> QED BY <1>2, <1>3, <1>9, <1>14, <1>15, <1>16, <1>17, <1>18 DEF ListInv

LEMMA ListInvStep == ListInv /\ [ListNext]_listVars => ListInv'
<1> SUFFICES ASSUME ListInv, [ListNext]_listVars PROVE ListInv'
  OBVIOUS
<1>1. CASE UNCHANGED listVars
  BY <1>1 DEF listVars, ListInv, LoadKept, Reached, ItemsSorted, WalkGoesOn, Matches
<1>2. CASE \E move \in Moves : ChangeTag(move[1], move[2])
  BY <1>2, ListsAssumption, ChangeTagKeeps
<1>3. CASE /\ ListNext /\ ~\E move \in Moves : ChangeTag(move[1], move[2])
  BY <1>3, InsertRowKeeps, SelectFilterKeeps, SendsKeep, ServeKeeps, ArriveKeeps,
     LoadFailsKeeps DEF ListNext
<1> QED BY <1>1, <1>2, <1>3

\* The type invariant: the page holds rows of the table.
THEOREM ListsType == ListSpec => []ListTypeOK
BY ListInvInit, ListInvStep, ListInvProves, PTL DEF ListSpec

\* The list is the list there is, for any rows, page sizes and filters, through
\* insertions, failures, changes of the filter and of what it tests
\* (ListIsExact).
THEOREM ListsExact == ListSpec => []ListIsExact
BY ListInvInit, ListInvStep, ListInvProves, PTL DEF ListSpec
=============================================================================
