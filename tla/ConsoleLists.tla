---------------------------- MODULE ConsoleLists ----------------------------
(***************************************************************************)
(* The lists of the admin console (users, KYC cases, audit events): the    *)
(* pages of AdminService.listUsers, AdminService.listAudit and             *)
(* KycService.listCases, and the console page that loads them, appends     *)
(* "Load more" and filters.                                                *)
(*                                                                         *)
(* The three lists differ in what a row holds and in what the filter       *)
(* tests: a row is the time of its creation (in microseconds, as the       *)
(* database keeps it) and its id, and has a tag: a case its status, a      *)
(* user the account's status, an audit event its action.  Others insert    *)
(* rows and change tags at any moment; rows are not removed.  A request is *)
(* answered from the rows of some moment and its answer applied later;     *)
(* nothing keeps the page from sending a second one before that.           *)
(***************************************************************************)
EXTENDS Naturals, Sequences, FiniteSets, SequencesExt

CONSTANTS
  ListRows,   \* rows that may exist: [t, id]
  FirstRows,  \* those that exist when the page is opened
  Tags,       \* values the filter tests
  FirstTag,   \* the tag of each row when it is inserted
  Moves,      \* bound: the tags that others give to rows later, <<row, tag>>
  AnyTag,     \* the filter left empty
  PageLimit,  \* rows of a page
  MaxLoads    \* bound: requests in flight

ASSUME ListsAssumption ==
  /\ ListRows \subseteq [t : Nat, id : Nat \ {0}]   \* 0: no cursor
  /\ \A r, s \in ListRows : r.id = s.id => r = s
  /\ FirstRows \subseteq ListRows /\ IsFiniteSet(FirstRows)
  /\ FirstTag \in [ListRows -> Tags] /\ Moves \subseteq ListRows \X Tags
  /\ AnyTag \notin Tags /\ PageLimit \in Nat \ {0} /\ MaxLoads \in Nat \ {0}

VARIABLES
  listed,    \* the table
  tagOf,     \* what the filter tests of each row
  loads,     \* the requests in flight, in the order they were sent
  console,   \* the page: selected filter, items, cursor
  walk       \* history: the first page's filter, the rows that matched it and
             \* kept their tags since, the last rows of pages, was the filter
             \* left alone, did loads overlap

listVars == <<listed, tagOf, loads, console, walk>>

NoCursor == [t |-> 0, id |-> 0]
Cursors == [t : Nat, id : Nat]
Filters == Tags \cup {AnyTag}

ListTypeOK ==
  /\ listed \subseteq ListRows /\ tagOf \in [ListRows -> Tags]
  /\ \A i \in DOMAIN loads :
       /\ loads[i].filter \in Filters /\ loads[i].cursor \in Cursors
       /\ loads[i].append \in BOOLEAN /\ loads[i].served \in BOOLEAN
       /\ loads[i].alone \in BOOLEAN
       /\ Range(loads[i].rows) \subseteq listed /\ loads[i].next \in Cursors
  /\ console.filter \in Filters /\ console.cursor \in Cursors
  /\ Range(console.items) \subseteq listed
  /\ walk.filter \in Filters /\ walk.rows \subseteq listed /\ walk.lasts \subseteq listed
  /\ walk.clean \in BOOLEAN /\ walk.overlapped \in BOOLEAN

Matches(filter, r) == filter = AnyTag \/ tagOf[r] = filter
Newer(r, s) == r.t > s.t \/ (r.t = s.t /\ r.id > s.id)

\* ORDER BY created_at DESC, id DESC: the one order there is of rows, ids differ.
NewestFirst(rows) ==
  CHOOSE s \in [1..Cardinality(rows) -> rows] :
    \A i, j \in DOMAIN s : i < j => Newer(s[i], s[j])

\* Mutant of EncodeCursor: the next millisecond, as rounding up would.
EncodeRounded(r) == [t |-> 1000 * (r.t \div 1000) + 1000, id |-> r.id]

\* The cursor keeps the milliseconds of the row's time.
EncodeCursor(r) == [t |-> 1000 * (r.t \div 1000), id |-> r.id]

\* (created_at, id) < (cursor.createdAt, cursor.id)
After(cursor, r) == cursor = NoCursor \/ Newer(cursor, r)

\* Mutant of PageOf: the cursor of the row that did not fit.
PageSkipping(filter, cursor) ==
  LET rows == NewestFirst({r \in listed : Matches(filter, r) /\ After(cursor, r)})
      more == Len(rows) > PageLimit
      page == IF more THEN SubSeq(rows, 1, PageLimit) ELSE rows
  IN [rows |-> page, next |-> IF more THEN EncodeCursor(rows[PageLimit + 1]) ELSE NoCursor]

\* A page, and the cursor of the next one when a further row was found.
PageOf(filter, cursor) ==
  LET rows == NewestFirst({r \in listed : Matches(filter, r) /\ After(cursor, r)})
      more == Len(rows) > PageLimit
      page == IF more THEN SubSeq(rows, 1, PageLimit) ELSE rows
  IN [rows |-> page, next |-> IF more THEN EncodeCursor(Last(page)) ELSE NoCursor]

Load(filter, cursor, append) ==
  [filter |-> filter, cursor |-> cursor, append |-> append, served |-> FALSE, alone |-> TRUE,
   rows |-> <<>>, next |-> NoCursor]

\* The page loads its first rows when it mounts.
ListInit ==
  /\ listed = FirstRows /\ tagOf = FirstTag
  /\ loads = <<Load(AnyTag, NoCursor, FALSE)>>
  /\ console = [filter |-> AnyTag, items |-> <<>>, cursor |-> NoCursor]
  /\ walk = [filter |-> AnyTag, rows |-> {}, lasts |-> {}, clean |-> TRUE,
             overlapped |-> FALSE]

InsertRow(r) ==
  /\ r \notin listed
  /\ listed' = listed \cup {r}
  /\ UNCHANGED <<tagOf, loads, console, walk>>

\* A case moves to another status, or an account does: a filtered list walked
\* meanwhile owes the row no longer.
ChangeTag(r, tag) ==
  /\ r \in listed /\ tag # tagOf[r]
  /\ tagOf' = [tagOf EXCEPT ![r] = tag]
  /\ walk' = [walk EXCEPT !.rows = IF walk.filter = AnyTag THEN @ ELSE @ \ {r}]
  /\ UNCHANGED <<listed, loads, console>>

SelectFilter(f) ==
  /\ f # console.filter
  /\ console' = [console EXCEPT !.filter = f]
  /\ walk' = [walk EXCEPT !.clean = FALSE]
  /\ UNCHANGED <<listed, tagOf, loads>>

Send(load) ==
  /\ Len(loads) < MaxLoads
  /\ LET alone == loads = <<>> IN
     loads' = Append([i \in DOMAIN loads |-> [loads[i] EXCEPT !.alone = FALSE]],
                     [load EXCEPT !.alone = alone])
  /\ UNCHANGED <<listed, tagOf, console, walk>>

SubmitFilter == Send(Load(console.filter, NoCursor, FALSE))

\* The button is there as long as the last answer had a further page, and uses
\* the filter selected now.
LoadMore ==
  /\ console.cursor # NoCursor
  /\ Send(Load(console.filter, console.cursor, TRUE))

Serve(i) ==
  /\ ~loads[i].served
  /\ LET page == PageOf(loads[i].filter, loads[i].cursor) IN
     loads' = [loads EXCEPT ![i].served = TRUE, ![i].rows = page.rows, ![i].next = page.next]
  /\ walk' = IF loads[i].append THEN walk
             ELSE [walk EXCEPT !.filter = loads[i].filter,
                               !.rows = {r \in listed : Matches(loads[i].filter, r)},
                               !.lasts = {}]
  /\ UNCHANGED <<listed, tagOf, console>>

\* Answers are applied as they arrive: items and cursor are those of the last.
Arrive(i) ==
  LET load == loads[i] IN
  /\ load.served
  /\ console' = [console EXCEPT
       !.items = IF load.append THEN @ \o load.rows ELSE load.rows,
       !.cursor = load.next]
  /\ loads' = RemoveAt(loads, i)
  /\ walk' = [walk EXCEPT
       !.lasts = IF load.next = NoCursor THEN @ ELSE @ \cup {Last(load.rows)},
       !.clean = IF load.append THEN @ ELSE load.filter = console.filter,
       !.overlapped = ~load.alone \/ (load.append /\ @)]
  /\ UNCHANGED <<listed, tagOf>>

LoadFails(i) ==
  /\ loads' = RemoveAt(loads, i)
  /\ walk' = [walk EXCEPT !.clean = @ /\ loads[i].append]
  /\ UNCHANGED <<listed, tagOf, console>>

ListNext ==
  \/ \E r \in ListRows : InsertRow(r)
  \/ \E move \in Moves : ChangeTag(move[1], move[2])
  \/ \E f \in Filters : SelectFilter(f)
  \/ SubmitFilter
  \/ LoadMore
  \/ \E i \in DOMAIN loads : Serve(i) \/ Arrive(i) \/ LoadFails(i)

ListSpec == ListInit /\ [][ListNext]_listVars

(***************************************************************************)
(* Properties                                                              *)
(***************************************************************************)
\* Rows that are inserted while pages are loaded, and rows of one instant, are
\* never shown twice, whatever filter is selected in between: the list stays
\* newest first.  (Two loads in flight at once can break it: the button is not
\* disabled while loading.)
NoRowTwice ==
  ~walk.overlapped =>
    \A i, j \in DOMAIN console.items :
      i < j => Newer(console.items[i], console.items[j])

\* Walked to the end, the list shows every row that matched at its first page
\* and, under a filter, kept its tag since, whatever happens to the tags of
\* others; except rows of the same millisecond as the last row of a page, which
\* the cursor cuts off.
WalkIsComplete ==
  (walk.clean /\ ~walk.overlapped /\ loads = <<>> /\ console.cursor = NoCursor) =>
    \A r \in walk.rows :
      \/ r \in Range(console.items)
      \/ \E s \in walk.lasts : s.t \div 1000 = r.t \div 1000

\* The list the console shows is the list there is: each row once, newest
\* first, none left out that stayed on it while it was walked (listUsers,
\* listAudit, listCases).
ListIsExact == NoRowTwice /\ WalkIsComplete
=============================================================================
