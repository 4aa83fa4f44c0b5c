----------------------------- MODULE CaseReview -----------------------------
(***************************************************************************)
(* The console's page of one KYC case, open at several officers, and the   *)
(* handlers behind it that KycCase leaves out: the view of the case        *)
(* (getCaseAdmin) and the internal notes (addInternalNote).  The page of a *)
(* user loads, runs and shows in the same way.                             *)
(*                                                                         *)
(* A page sends one request at a time and loads the case again after it;   *)
(* its answer is applied as it is made, for the page does nothing else     *)
(* meanwhile.  A request may be lost to the page and still be served, and  *)
(* an officer may leave and come back.  Which decisions are accepted is    *)
(* KycCase's subject; here each one moves the status and is recorded.  The *)
(* user's submits, which move the status without a decision, are left out. *)
(***************************************************************************)
EXTENDS Naturals, Sequences, SequencesExt

CONSTANTS
  Officers,
  MaxActions,    \* bound: requests each officer sends
  MaxDecisions   \* bound: decisions made on the case

ASSUME ReviewAssumption == MaxActions \in [Officers -> Nat] /\ MaxDecisions \in Nat

VARIABLES
  notes,      \* notes_internal: its lines, each named by the request that wrote it
  decided,    \* the case's decisions; its status is that of the last one
  actions,    \* the requests the officers sent
  reviews,    \* their pages
  overlapped  \* history: notes whose handlers ran at the same time

reviewVars == <<notes, decided, actions, reviews, overlapped>>

Actions == UNION {{o} \X (1..MaxActions[o]) : o \in Officers}
Ops == {"note", "decide", "sync"}
NoAction == [op |-> "none", at |-> "none", base |-> <<>>]
Blank == [notes |-> <<>>, status |-> 0, decisions |-> 0]

IsLines(s) == Range(s) \subseteq Actions /\ IsInjective(s)
IsView(v) == IsLines(v.notes) /\ v.status \in 0..MaxDecisions /\ v.decisions \in 0..MaxDecisions

ReviewTypeOK ==
  /\ IsLines(notes) /\ decided \in 0..MaxDecisions
  /\ \A q \in Actions :
       /\ actions[q].op \in Ops \cup {"none"} /\ IsLines(actions[q].base)
       /\ actions[q].at \in {"none", "sent", "read", "done", "refused"}
  /\ \A o \in Officers :
       /\ reviews[o].at \in {"loading", "shown", "failed"} /\ IsView(reviews[o].view)
       /\ reviews[o].busy \in BOOLEAN /\ reviews[o].sent \in 0..MaxActions[o]
       /\ reviews[o].said \in {"nothing", "ok", "error"}
  /\ overlapped \subseteq Actions

\* The page as it mounts, with the requests its officer has sent before.
Mounting(sent) ==
  [at |-> "loading", fetched |-> FALSE, row |-> Blank, view |-> Blank,
   busy |-> FALSE, sent |-> sent, said |-> "nothing"]

ReviewInit ==
  /\ notes = <<>> /\ decided = 0 /\ overlapped = {}
  /\ actions = [q \in Actions |-> NoAction]
  /\ reviews = [o \in Officers |-> Mounting(0)]

Turn(o, page) == reviews' = [reviews EXCEPT ![o] = page]

\* getCaseAdmin reads the case first ...
ReadCase(o) ==
  /\ reviews[o].at = "loading" /\ ~reviews[o].fetched
  /\ Turn(o, [reviews[o] EXCEPT !.fetched = TRUE,
                !.row = [notes |-> notes, status |-> decided, decisions |-> 0]])
  /\ UNCHANGED <<notes, decided, actions, overlapped>>

\* Mutant of AdminCaseView: the decisions are read before the case.
DecisionsFirst(row) == [row EXCEPT !.decisions = row.status, !.status = decided]

\* ... and then, after an audit row, the decisions on it.
AdminCaseView(row) == [row EXCEPT !.decisions = decided]

\* The spinner gives way to the case, or to the error, which no later load
\* clears; either way the operation that loaded is over.
Loaded(o) ==
  /\ reviews[o].fetched
  /\ Turn(o, [reviews[o] EXCEPT !.at = "shown", !.fetched = FALSE, !.row = Blank,
                !.view = AdminCaseView(reviews[o].row), !.busy = FALSE])
  /\ UNCHANGED <<notes, decided, actions, overlapped>>

LoadFailed(o) ==
  /\ reviews[o].at = "loading"
  /\ Turn(o, [reviews[o] EXCEPT !.at = "failed", !.fetched = FALSE, !.row = Blank,
                !.busy = FALSE])
  /\ UNCHANGED <<notes, decided, actions, overlapped>>

\* Every button of the page waits for the operation that is running.
CanRun(o) == reviews[o].at = "shown" /\ ~reviews[o].busy

Current(o) == <<o, reviews[o].sent>>

Run(o, op) ==
  LET n == reviews[o].sent + 1 IN
  /\ CanRun(o) /\ n <= MaxActions[o]
  /\ Turn(o, [reviews[o] EXCEPT !.busy = TRUE, !.sent = n, !.said = "nothing"])
  /\ actions' = [actions EXCEPT ![<<o, n>>] = [op |-> op, at |-> "sent", base |-> <<>>]]
  /\ UNCHANGED <<notes, decided, overlapped>>

Running(q) == actions[q].op = "note" /\ actions[q].at = "read"

\* addInternalNote reads the notes it will append to ...
ReadNotes(q) ==
  LET others == {p \in Actions : Running(p)} IN
  /\ actions[q].op = "note" /\ actions[q].at = "sent"
  /\ actions' = [actions EXCEPT ![q].at = "read", ![q].base = notes]
  /\ overlapped' = overlapped \cup others \cup (IF others = {} THEN {} ELSE {q})
  /\ UNCHANGED <<notes, decided, reviews>>

\* Mutant of WithLine: the notes there are replaced.
LineAlone(base, q) == <<q>>

\* `${kase.notesInternal}\n${line}`
WithLine(base, q) == Append(base, q)

\* ... and writes them back with its line, whatever they are by then.
WriteNotes(q) ==
  /\ Running(q)
  /\ notes' = WithLine(actions[q].base, q)
  /\ actions' = [actions EXCEPT ![q].at = "done", ![q].base = <<>>]
  /\ UNCHANGED <<decided, reviews, overlapped>>

\* decide and syncFromProvider commit a decision with the status; a sync may
\* find nothing to apply, a decision may be refused.
CommitDecision(q) ==
  /\ actions[q].op \in {"decide", "sync"} /\ actions[q].at = "sent"
  /\ \/ /\ decided < MaxDecisions
        /\ decided' = decided + 1
        /\ actions' = [actions EXCEPT ![q].at = "done"]
     \/ /\ actions' = [actions EXCEPT ![q].at = IF actions[q].op = "sync" THEN "done"
                                                ELSE "refused"]
        /\ UNCHANGED decided
  /\ UNCHANGED <<notes, reviews, overlapped>>

\* run: an answer is reported and the case loaded again, a refusal is reported.
Reported(o) ==
  /\ reviews[o].at = "shown" /\ reviews[o].busy
  /\ \/ /\ actions[Current(o)].at = "done"
        /\ Turn(o, [reviews[o] EXCEPT !.said = "ok", !.at = "loading"])
     \/ /\ actions[Current(o)].at = "refused"
        /\ Turn(o, [reviews[o] EXCEPT !.said = "error", !.busy = FALSE])
  /\ UNCHANGED <<notes, decided, actions, overlapped>>

\* The connection fails: the page reports an error, the handler goes on.
ActionLost(o) ==
  /\ reviews[o].at = "shown" /\ reviews[o].busy
  /\ Turn(o, [reviews[o] EXCEPT !.said = "error", !.busy = FALSE])
  /\ UNCHANGED <<notes, decided, actions, overlapped>>

\* The officer leaves the page and comes back, whatever it shows.
OpenCase(o) ==
  /\ Turn(o, Mounting(reviews[o].sent))
  /\ UNCHANGED <<notes, decided, actions, overlapped>>

ReviewNext ==
  \/ \E o \in Officers :
       \/ ReadCase(o) \/ Loaded(o) \/ LoadFailed(o)
       \/ \E op \in Ops : Run(o, op)
       \/ Reported(o) \/ ActionLost(o) \/ OpenCase(o)
  \/ \E q \in Actions : ReadNotes(q) \/ WriteNotes(q) \/ CommitDecision(q)

ReviewSpec == ReviewInit /\ [][ReviewNext]_reviewVars

(***************************************************************************)
(* Properties                                                              *)
(***************************************************************************)
\* A note that was added stays, unless another one was being added at the same
\* time, by the same officer's lost request included (addInternalNote).
NotesStay ==
  \A q \in Actions :
    (actions[q].op = "note" /\ actions[q].at = "done" /\ q \notin overlapped)
      => q \in Range(notes)

\* The status an officer is shown has its decision in the list shown below it,
\* although the two are read at different moments: a decision made in between may
\* be listed as well, under a status older than it (adminCaseView).
StatusHasItsDecision ==
  \A o \in Officers : reviews[o].view.status <= reviews[o].view.decisions

\* A page that says a note was added shows it, with the same exception (run).
AddedIsShown ==
  \A o \in Officers :
    LET q == Current(o) IN
    (CanRun(o) /\ reviews[o].said = "ok" /\ actions[q].op = "note" /\ q \notin overlapped)
      => q \in Range(reviews[o].view.notes)

\* What officers wrote is kept, what they added is shown, and no status is shown
\* without the decision it comes from.
ReviewIsKept == NotesStay /\ StatusHasItsDecision /\ AddedIsShown
=============================================================================
