------------------------- MODULE KycDocumentsProofs -------------------------
(***************************************************************************)
(* Proofs about KycDocuments, for any finite sets of documents and         *)
(* requests and any limit.                                                 *)
(*                                                                         *)
(* The three properties hold because a document belongs to one request     *)
(* from its storing to its row, and because rows are never revived.        *)
(***************************************************************************)
EXTENDS KycDocuments, FiniteSetTheorems, TLAPS

\* What a request knows of the document it holds.
Holds(r) ==
  /\ req[r].at = "upload_row" =>
       req[r].doc \in Docs /\ req[r].doc \in objects /\ rows[req[r].doc] = "absent"
  /\ req[r].at \in {"delete_case", "delete_row"} =>
       req[r].doc \in Docs /\ rows[req[r].doc] # "absent"
  /\ req[r].at = "delete_object" => req[r].doc \in Docs /\ rows[req[r].doc] = "deleted"

Held == \A r \in Requests : Holds(r)

\* A stored document awaits one row.
OneUploader ==
  \A r, s \in Requests :
    req[r].at = "upload_row" /\ req[s].at = "upload_row" /\ req[r].doc = req[s].doc => r = s

Working == {"upload_row", "delete_object"}

\* While nothing has failed, an object is listed or some request will see to it.
Accounted ==
  ~mishap => \A d \in objects :
    rows[d] = "live" \/ \E r \in Requests : req[r].at \in Working /\ req[r].doc = d

\* The uploads that passed the count and have not made their row yet.
Counted == {r \in Requests : req[r].at \in {"upload_store", "upload_row"}}

LimitWithCounted ==
  Cardinality(LiveDocs) + Cardinality(Counted) <= MaxDocuments + Cardinality(Requests) - 1

Inv ==
  /\ TypeOK
  /\ Held
  /\ OneUploader
  /\ LiveHasObject
  /\ Accounted
  /\ LimitWithCounted

\* The sets that are counted are finite and their sizes are numbers.
LEMMA Sizes ==
  /\ IsFiniteSet(LiveDocs) /\ Cardinality(LiveDocs) \in Nat
  /\ IsFiniteSet(Counted) /\ Cardinality(Counted) \in Nat
  /\ Cardinality(Requests) \in Nat /\ MaxDocuments \in Nat /\ MaxDocuments > 0
<1>1. LiveDocs \subseteq Docs /\ Counted \subseteq Requests
  BY DEF LiveDocs, Counted
<1>2. IsFiniteSet(LiveDocs) /\ IsFiniteSet(Counted)
  BY <1>1, DocAssumption, FS_Subset
<1> QED BY <1>2, DocAssumption, LimitAssumption, FS_CardinalityType

\* The limit survives a step after which no more documents are live and no
\* more uploads counted.
LEMMA LimitKept ==
  ASSUME LimitWithCounted, LiveDocs' \subseteq LiveDocs, Counted' \subseteq Counted
  PROVE  LimitWithCounted'
<1>1. /\ Cardinality(LiveDocs') \in Nat /\ Cardinality(LiveDocs') <= Cardinality(LiveDocs)
      /\ Cardinality(Counted') \in Nat /\ Cardinality(Counted') <= Cardinality(Counted)
  <2>1. IsFiniteSet(LiveDocs') /\ IsFiniteSet(Counted')
    BY Sizes, FS_Subset
  <2> QED BY <2>1, Sizes, FS_Subset, FS_CardinalityType
<1> QED BY <1>1, Sizes DEF LimitWithCounted

LEMMA InvInit == Init => Inv
<1> SUFFICES ASSUME Init PROVE Inv
  OBVIOUS
<1>1. TypeOK
  BY DEF Init, TypeOK, Idle, Steps, KycStates
<1>2. Held /\ OneUploader /\ LiveHasObject /\ Accounted
  BY DEF Init, Held, Holds, OneUploader, LiveHasObject, LiveDocs, Accounted, Idle
<1>3. LimitWithCounted
  <2>1. LiveDocs = {} /\ Counted = {}
    BY DEF Init, LiveDocs, Counted, Idle
  <2> QED BY <2>1, Sizes, FS_EmptySet DEF LimitWithCounted
<1> QED BY <1>1, <1>2, <1>3 DEF Inv

\* The slot of r becomes q, the tables stay, and no document changes hands
\* that matters: the steps that only read.
LEMMA SlotStep ==
  ASSUME Inv, NEW r \in Requests, NEW at \in Steps, NEW d \in Docs \cup {NoDoc},
         req' = [req EXCEPT ![r] = [at |-> at, doc |-> d]],
         UNCHANGED <<rows, objects, mishap>>, status' \in KycStates,
         at # "upload_row",
         at \in {"delete_case", "delete_row"} => d \in Docs /\ rows[d] # "absent",
         at = "delete_object" => d \in Docs /\ rows[d] = "deleted",
         mishap \/ req[r].at \notin Working
  PROVE  TypeOK' /\ Held' /\ OneUploader' /\ LiveHasObject' /\ Accounted'
<1> DEFINE q == [at |-> at, doc |-> d]
<1>1. req \in [Requests -> [at : Steps, doc : Docs \cup {NoDoc}]]
  BY DEF Inv, TypeOK
<1>2. q \in [at : Steps, doc : Docs \cup {NoDoc}] /\ q.at = at /\ q.doc = d
  OBVIOUS
<1>3. req' = [req EXCEPT ![r] = q]
  OBVIOUS
<1> HIDE DEF q
<1>4. /\ req'[r] = q
      /\ \A s \in Requests : s # r => req'[s] = req[s]
  BY <1>1, <1>3
<1>5. TypeOK'
  BY <1>1, <1>2, <1>3 DEF Inv, TypeOK
<1>6. Held' /\ OneUploader'
  BY <1>2, <1>4 DEF Inv, Held, Holds, OneUploader
<1>7. LiveHasObject'
  BY DEF Inv, LiveHasObject, LiveDocs
<1>8. Accounted'
  <2> SUFFICES ASSUME ~mishap, NEW e \in objects, rows[e] # "live"
               PROVE  \E s \in Requests : req'[s].at \in Working /\ req'[s].doc = e
    BY DEF Accounted
  <2>1. PICK s \in Requests : req[s].at \in Working /\ req[s].doc = e
    BY DEF Inv, Accounted
  <2> QED BY <2>1, <1>4
<1> QED BY <1>5, <1>6, <1>7, <1>8

LEMMA UploadStep ==
  ASSUME Inv, NEW r \in Requests,
         UploadRead(r) \/ UploadCount(r) \/ UploadStore(r) \/ UploadRow(r)
  PROVE  Inv'
<1>1. req \in [Requests -> [at : Steps, doc : Docs \cup {NoDoc}]] /\ status \in KycStates
  BY DEF Inv, TypeOK
<1>2. CASE UploadRead(r)
  <2>1. req' = [req EXCEPT ![r] = [at |-> "upload_count", doc |-> NoDoc]]
    BY <1>2 DEF UploadRead, Goto
  <2>2. req[r].at = "idle"
    BY <1>2 DEF UploadRead, Idle
  <2>3. TypeOK' /\ Held' /\ OneUploader' /\ LiveHasObject' /\ Accounted'
    <3> HIDE DEF Working
    <3>1. "idle" \notin Working /\ "upload_count" \in Steps
      BY DEF Working, Steps
    <3> QED BY <1>1, <1>2, <2>1, <2>2, <3>1, SlotStep DEF UploadRead
  <2>4. LiveDocs' = LiveDocs /\ Counted' \subseteq Counted
    BY <1>1, <1>2, <2>1 DEF UploadRead, LiveDocs, Counted
  <2>5. LimitWithCounted'
    BY <2>4, LimitKept DEF Inv
  <2> QED BY <2>3, <2>5 DEF Inv
<1>3. CASE UploadCount(r)
  <2>1. req[r].at = "upload_count" /\ UNCHANGED <<status, rows, objects, mishap>>
    BY <1>3 DEF UploadCount
  <2>2. LiveDocs' = LiveDocs
    BY <2>1 DEF LiveDocs
  <2>3. "upload_count" \notin Working /\ "upload_store" \in Steps /\ "idle" \in Steps
    BY DEF Working, Steps
  <2>4. CASE BelowLimit /\ Goto(r, "upload_store", NoDoc)
    <3>1. req' = [req EXCEPT ![r] = [at |-> "upload_store", doc |-> NoDoc]]
      BY <2>4 DEF Goto
    <3>2. TypeOK' /\ Held' /\ OneUploader' /\ LiveHasObject' /\ Accounted'
      BY <1>1, <2>1, <2>3, <3>1, SlotStep
    <3>3. LimitWithCounted'
      <4>1. Cardinality(LiveDocs) < MaxDocuments
        BY <2>4 DEF BelowLimit
      <4>2. Counted' \subseteq Requests
        BY DEF Counted
      <4>3. Cardinality(Counted') \in Nat /\ Cardinality(Counted') <= Cardinality(Requests)
        <5>1. IsFiniteSet(Counted')
          BY <4>2, DocAssumption, FS_Subset
        <5> QED BY <4>2, <5>1, DocAssumption, FS_Subset, FS_CardinalityType
      <4>4. Cardinality(LiveDocs') + Cardinality(Counted')
              <= MaxDocuments + Cardinality(Requests) - 1
        BY <2>2, <4>1, <4>3, Sizes
      <4> QED BY <4>4 DEF LimitWithCounted
    <3> QED BY <3>2, <3>3 DEF Inv
  <2>5. CASE Finish(r)
    <3>1. req' = [req EXCEPT ![r] = [at |-> "idle", doc |-> NoDoc]]
      BY <2>5 DEF Finish, Idle
    <3>2. TypeOK' /\ Held' /\ OneUploader' /\ LiveHasObject' /\ Accounted'
      BY <1>1, <2>1, <2>3, <3>1, SlotStep
    <3>3. Counted' \subseteq Counted
      BY <1>1, <3>1 DEF Counted
    <3>4. LimitWithCounted'
      BY <2>2, <3>3, LimitKept DEF Inv
    <3> QED BY <3>2, <3>4 DEF Inv
  <2> QED BY <1>3, <2>4, <2>5 DEF UploadCount
<1>4. CASE UploadStore(r)
  <2>1. PICK d \in Docs :
          /\ Unused(d) /\ objects' = objects \cup {d}
          /\ req' = [req EXCEPT ![r] = [at |-> "upload_row", doc |-> d]]
    BY <1>4 DEF UploadStore, Goto
  <2>2. req[r].at = "upload_store" /\ UNCHANGED <<status, rows, mishap>>
    BY <1>4 DEF UploadStore
  <2> DEFINE q == [at |-> "upload_row", doc |-> d]
  <2>3. q \in [at : Steps, doc : Docs \cup {NoDoc}] /\ q.at = "upload_row" /\ q.doc = d
    BY DEF Steps
  <2>4. req' = [req EXCEPT ![r] = q]
    BY <2>1
  <2> HIDE DEF q
  <2>5. req'[r] = q /\ \A s \in Requests : s # r => req'[s] = req[s]
    BY <1>1, <2>4
  <2>6. rows[d] = "absent" /\ \A s \in Requests : req[s].doc # d
    BY <2>1 DEF Unused
  <2>7. TypeOK'
    BY <1>1, <2>1, <2>2, <2>3, <2>4 DEF Inv, TypeOK
  <2>8. Held'
    BY <2>1, <2>2, <2>3, <2>5, <2>6 DEF Inv, Held, Holds
  <2>9. OneUploader'
    BY <2>3, <2>5, <2>6 DEF Inv, OneUploader
  <2>10. LiveHasObject'
    BY <2>1, <2>2 DEF Inv, LiveHasObject, LiveDocs
  <2>11. Accounted'
    <3> SUFFICES ASSUME ~mishap, NEW e \in objects', rows[e] # "live"
                 PROVE  \E s \in Requests : req'[s].at \in Working /\ req'[s].doc = e
      BY <2>2 DEF Accounted
    <3>1. CASE e = d
      BY <2>3, <2>5, <3>1 DEF Working
    <3>2. CASE e # d
      <4>1. PICK s \in Requests : req[s].at \in Working /\ req[s].doc = e
        BY <2>1, <3>2 DEF Inv, Accounted
      <4>2. s # r
        BY <2>2, <4>1 DEF Working
      <4> QED BY <2>5, <4>1, <4>2
    <3> QED BY <3>1, <3>2
  <2>12. LiveDocs' = LiveDocs /\ Counted' \subseteq Counted
    BY <2>2, <2>5 DEF LiveDocs, Counted
  <2>13. LimitWithCounted'
    BY <2>12, LimitKept DEF Inv
  <2> QED BY <2>7, <2>8, <2>9, <2>10, <2>11, <2>13 DEF Inv
<1>5. CASE UploadRow(r)
  <2> DEFINE d == req[r].doc
  <2>1. req[r].at = "upload_row" /\ UNCHANGED <<status, objects, mishap>>
    BY <1>5 DEF UploadRow
  <2>2. d \in Docs /\ d \in objects /\ rows[d] = "absent"
    BY <2>1 DEF Inv, Held, Holds
  <2>3. rows' = [rows EXCEPT ![d] = "live"] /\ req' = [req EXCEPT ![r] = Idle]
    BY <1>5 DEF UploadRow, Finish
  <2> HIDE DEF d
  <2>4. Idle \in [at : Steps, doc : Docs \cup {NoDoc}] /\ Idle.at = "idle"
    BY DEF Idle, Steps
  <2>5. req'[r] = Idle /\ \A s \in Requests : s # r => req'[s] = req[s]
    BY <1>1, <2>3
  <2>6. rows \in [Docs -> {"absent", "live", "deleted"}]
    BY DEF Inv, TypeOK
  <2>7. rows'[d] = "live" /\ \A e \in Docs : e # d => rows'[e] = rows[e]
    BY <2>2, <2>3, <2>6
  <2>8. TypeOK'
    BY <1>1, <2>1, <2>2, <2>3, <2>4, <2>6 DEF Inv, TypeOK
  <2>9. Held'
    <3> SUFFICES ASSUME NEW s \in Requests, s # r
                 PROVE  Holds(s)'
      BY <2>4, <2>5 DEF Held, Holds
    <3>1. req[s].at = "upload_row" => req[s].doc # d
      BY <2>1, <2>2 DEF Inv, OneUploader, d
    <3> QED BY <2>1, <2>2, <2>5, <2>7, <3>1 DEF Inv, Held, Holds
  <2>10. OneUploader'
    BY <2>4, <2>5 DEF Inv, OneUploader
  <2>11. LiveHasObject'
    BY <2>1, <2>2, <2>7 DEF Inv, LiveHasObject, LiveDocs
  <2>12. Accounted'
    <3> SUFFICES ASSUME ~mishap, NEW e \in objects, rows'[e] # "live"
                 PROVE  \E s \in Requests : req'[s].at \in Working /\ req'[s].doc = e
      BY <2>1 DEF Accounted
    <3>1. e \in Docs /\ e # d /\ rows[e] # "live"
      BY <2>7 DEF Inv, TypeOK
    <3>2. PICK s \in Requests : req[s].at \in Working /\ req[s].doc = e
      BY <3>1 DEF Inv, Accounted
    <3>3. s # r
      BY <3>1, <3>2 DEF d
    <3> QED BY <2>5, <3>2, <3>3
  <2>13. LimitWithCounted'
    <3>1. LiveDocs' = LiveDocs \cup {d} /\ d \notin LiveDocs
      BY <2>2, <2>7 DEF LiveDocs
    <3>2. Counted' = Counted \ {r} /\ r \in Counted
      BY <2>1, <2>4, <2>5 DEF Counted
    <3>3. Cardinality(LiveDocs') = Cardinality(LiveDocs) + 1
      BY <3>1, Sizes, FS_AddElement
    <3>4. Cardinality(Counted') = Cardinality(Counted) - 1
      BY <3>2, Sizes, FS_RemoveElement
    <3> QED BY <3>3, <3>4, Sizes DEF Inv, LimitWithCounted
  <2> QED BY <2>8, <2>9, <2>10, <2>11, <2>12, <2>13 DEF Inv
<1> QED BY <1>2, <1>3, <1>4, <1>5

\* The request that deletes an object ends: with its call done or not.
LEMMA ObjectGone ==
  ASSUME Inv, NEW r \in Requests, req[r].at = "delete_object",
         req' = [req EXCEPT ![r] = Idle], objects' = objects \ {req[r].doc},
         UNCHANGED <<status, rows>>, mishap' \in BOOLEAN, mishap => mishap'
  PROVE  Inv'
<1>1. /\ req \in [Requests -> [at : Steps, doc : Docs \cup {NoDoc}]] /\ objects \subseteq Docs
  BY DEF Inv, TypeOK
<1>2. Idle \in [at : Steps, doc : Docs \cup {NoDoc}] /\ Idle.at = "idle"
  BY DEF Idle, Steps
<1>3. req'[r] = Idle /\ \A s \in Requests : s # r => req'[s] = req[s]
  BY <1>1
<1>4. req[r].doc \in Docs /\ rows[req[r].doc] = "deleted"
  BY DEF Inv, Held, Holds
<1>5. TypeOK'
  BY <1>1, <1>2 DEF Inv, TypeOK
<1>6. Held' /\ OneUploader'
  BY <1>2, <1>3, <1>4 DEF Inv, Held, Holds, OneUploader
<1>7. LiveHasObject'
  BY <1>4 DEF Inv, LiveHasObject, LiveDocs
<1>8. Accounted'
  <2> SUFFICES ASSUME ~mishap, NEW e \in objects', rows[e] # "live"
               PROVE  \E s \in Requests : req'[s].at \in Working /\ req'[s].doc = e
    BY DEF Accounted
  <2>1. PICK s \in Requests : req[s].at \in Working /\ req[s].doc = e
    BY DEF Inv, Accounted
  <2>2. s # r
    BY <2>1
  <2> QED BY <1>3, <2>1, <2>2
<1>9. LiveDocs' = LiveDocs /\ Counted' \subseteq Counted
  BY <1>2, <1>3 DEF LiveDocs, Counted
<1>10. LimitWithCounted'
  BY <1>9, LimitKept DEF Inv
<1> QED BY <1>5, <1>6, <1>7, <1>8, <1>10 DEF Inv

LEMMA DeleteStep ==
  ASSUME Inv, NEW r \in Requests,
         \/ \E d \in Docs : DeleteRead(r, d)
         \/ DeleteCase(r) \/ DeleteRow(r) \/ DeleteObject(r)
  PROVE  Inv'
<1>1. /\ req \in [Requests -> [at : Steps, doc : Docs \cup {NoDoc}]] /\ status \in KycStates
      /\ rows \in [Docs -> {"absent", "live", "deleted"}] /\ objects \subseteq Docs
      /\ mishap \in BOOLEAN
  BY DEF Inv, TypeOK
<1>2. ASSUME NEW d \in Docs, DeleteRead(r, d) PROVE Inv'
  <2>1. /\ req' = [req EXCEPT ![r] = [at |-> "delete_case", doc |-> d]]
        /\ UNCHANGED <<status, rows, objects, mishap>> /\ rows[d] = "live"
    BY <1>2 DEF DeleteRead, Goto
  <2>2. req[r].at \notin Working
    BY <1>2 DEF DeleteRead, Idle, Working
  <2>3. TypeOK' /\ Held' /\ OneUploader' /\ LiveHasObject' /\ Accounted'
    <3>1. "delete_case" \in Steps
      BY DEF Steps
    <3> QED BY <1>1, <2>1, <2>2, <3>1, SlotStep
  <2>4. LiveDocs' = LiveDocs /\ Counted' \subseteq Counted
    BY <1>1, <2>1 DEF LiveDocs, Counted
  <2>5. LimitWithCounted'
    BY <2>4, LimitKept DEF Inv
  <2> QED BY <2>3, <2>5 DEF Inv
<1>3. CASE DeleteCase(r)
  <2>1. req[r].at = "delete_case" /\ UNCHANGED <<status, rows, objects, mishap>>
    BY <1>3 DEF DeleteCase
  <2>2. PICK at \in {"delete_row", "idle"}, d \in Docs \cup {NoDoc} :
          /\ req' = [req EXCEPT ![r] = [at |-> at, doc |-> d]]
          /\ at = "delete_row" => d = req[r].doc
    <3>1. CASE Editable
      <4>1. req' = [req EXCEPT ![r] = [at |-> "delete_row", doc |-> req[r].doc]]
        BY <1>3, <3>1 DEF DeleteCase, Goto, FirstDeletion
      <4> QED BY <1>1, <4>1
    <3>2. CASE ~Editable
      <4>1. req' = [req EXCEPT ![r] = [at |-> "idle", doc |-> NoDoc]]
        BY <1>3, <3>2 DEF DeleteCase, Finish, Idle
      <4> QED BY <4>1
    <3> QED BY <3>1, <3>2
  <2>3. at = "delete_row" => d \in Docs /\ rows[d] # "absent"
    BY <2>1, <2>2 DEF Inv, Held, Holds
  <2>4. req[r].at \notin Working /\ at \in Steps
    BY <2>1 DEF Working, Steps
  <2>5. TypeOK' /\ Held' /\ OneUploader' /\ LiveHasObject' /\ Accounted'
    BY <1>1, <2>1, <2>2, <2>3, <2>4, SlotStep
  <2>6. LiveDocs' = LiveDocs /\ Counted' \subseteq Counted
    BY <1>1, <2>1, <2>2 DEF LiveDocs, Counted
  <2>7. LimitWithCounted'
    BY <2>6, LimitKept DEF Inv
  <2> QED BY <2>5, <2>7 DEF Inv
<1>4. CASE DeleteRow(r)
  <2> DEFINE d == req[r].doc
             q == [at |-> "delete_object", doc |-> d]
  <2>1. req[r].at = "delete_row" /\ UNCHANGED <<status, objects, mishap>>
    BY <1>4 DEF DeleteRow
  <2>2. d \in Docs /\ rows[d] # "absent"
    BY <2>1 DEF Inv, Held, Holds
  <2>3. rows' = [rows EXCEPT ![d] = "deleted"] /\ req' = [req EXCEPT ![r] = q]
    BY <1>4 DEF DeleteRow, AfterRow, Goto
  <2>4. q \in [at : Steps, doc : Docs \cup {NoDoc}] /\ q.at = "delete_object" /\ q.doc = d
    BY <2>2 DEF Steps
  <2> HIDE DEF q, d
  <2>5. req'[r] = q /\ \A s \in Requests : s # r => req'[s] = req[s]
    BY <1>1, <2>3
  <2>6. rows'[d] = "deleted" /\ \A e \in Docs : e # d => rows'[e] = rows[e]
    BY <1>1, <2>2, <2>3
  <2>7. TypeOK'
    BY <1>1, <2>1, <2>2, <2>3, <2>4 DEF Inv, TypeOK
  <2>8. Held'
    <3> SUFFICES ASSUME NEW s \in Requests
                 PROVE  Holds(s)'
      BY DEF Held
    <3>1. CASE s = r
      BY <2>2, <2>4, <2>5, <2>6, <3>1 DEF Holds
    <3>2. CASE s # r
      BY <2>1, <2>2, <2>5, <2>6, <3>2 DEF Inv, Held, Holds
    <3> QED BY <3>1, <3>2
  <2>9. OneUploader'
    BY <2>4, <2>5 DEF Inv, OneUploader
  <2>10. LiveHasObject'
    BY <2>1, <2>2, <2>6 DEF Inv, LiveHasObject, LiveDocs
  <2>11. Accounted'
    <3> SUFFICES ASSUME ~mishap, NEW e \in objects, rows'[e] # "live"
                 PROVE  \E s \in Requests : req'[s].at \in Working /\ req'[s].doc = e
      BY <2>1 DEF Accounted
    <3>1. CASE e = d
      BY <2>4, <2>5, <3>1 DEF Working
    <3>2. CASE e # d
      <4>1. PICK s \in Requests : req[s].at \in Working /\ req[s].doc = e
        BY <1>1, <2>6, <3>2 DEF Inv, Accounted
      <4>2. s # r
        BY <3>2, <4>1 DEF d
      <4> QED BY <2>5, <4>1, <4>2
    <3> QED BY <3>1, <3>2
  <2>12. LiveDocs' \subseteq LiveDocs /\ Counted' \subseteq Counted
    BY <2>4, <2>5, <2>6 DEF LiveDocs, Counted
  <2>13. LimitWithCounted'
    BY <2>12, LimitKept DEF Inv
  <2> QED BY <2>7, <2>8, <2>9, <2>10, <2>11, <2>13 DEF Inv
<1>5. CASE DeleteObject(r)
  <2>1. req[r].at = "delete_object" /\ UNCHANGED <<status, rows, mishap>>
    BY <1>5 DEF DeleteObject
  <2>2. objects' = objects \ {req[r].doc} /\ req' = [req EXCEPT ![r] = Idle]
    BY <1>5 DEF DeleteObject, Finish
  <2> QED BY <1>1, <2>1, <2>2, ObjectGone
<1> QED BY <1>2, <1>3, <1>4, <1>5

LEMMA FailStep ==
  ASSUME Inv, NEW r \in Requests, Fail(r)
  PROVE  Inv'
<1>1. /\ req \in [Requests -> [at : Steps, doc : Docs \cup {NoDoc}]] /\ objects \subseteq Docs
  BY DEF Inv, TypeOK
<1>2. req' = [req EXCEPT ![r] = Idle] /\ mishap' = TRUE /\ UNCHANGED <<status, rows>>
  BY DEF Fail, Finish
<1>3. CASE req[r].at = "delete_object" /\ objects' = objects \ {req[r].doc}
  BY <1>2, <1>3, ObjectGone
<1>4. CASE objects \subseteq objects' /\ objects' \subseteq Docs
  <2>1. Idle \in [at : Steps, doc : Docs \cup {NoDoc}] /\ Idle.at = "idle"
    BY DEF Idle, Steps
  <2>2. req'[r] = Idle /\ \A s \in Requests : s # r => req'[s] = req[s]
    BY <1>1, <1>2
  <2>3. TypeOK'
    BY <1>1, <1>2, <1>4, <2>1 DEF Inv, TypeOK
  <2>4. Held' /\ OneUploader'
    BY <1>2, <1>4, <2>1, <2>2 DEF Inv, Held, Holds, OneUploader
  <2>5. LiveHasObject' /\ Accounted'
    BY <1>2, <1>4 DEF Inv, LiveHasObject, LiveDocs, Accounted
  <2>6. LiveDocs' = LiveDocs /\ Counted' \subseteq Counted
    BY <1>2, <2>1, <2>2 DEF LiveDocs, Counted
  <2>7. LimitWithCounted'
    BY <2>6, LimitKept DEF Inv
  <2> QED BY <2>3, <2>4, <2>5, <2>7 DEF Inv
<1> QED BY <1>1, <1>3, <1>4 DEF Fail

LEMMA InvStep == Inv /\ [Next]_vars => Inv'
<1> SUFFICES ASSUME Inv, [Next]_vars PROVE Inv'
  OBVIOUS
<1>1. CASE \E r \in Requests : Serve(r)
  <2>1. PICK r \in Requests : Serve(r)
    BY <1>1
  <2> QED BY <2>1, UploadStep, DeleteStep, FailStep DEF Serve
<1>2. CASE status' \in KycStates /\ UNCHANGED <<rows, objects, req, mishap>>
  <2>1. TypeOK' /\ Held' /\ OneUploader' /\ LiveHasObject' /\ Accounted'
    BY <1>2 DEF Inv, TypeOK, Held, Holds, OneUploader, LiveHasObject, LiveDocs, Accounted
  <2>2. LiveDocs' = LiveDocs /\ Counted' = Counted
    BY <1>2 DEF LiveDocs, Counted
  <2> QED BY <2>1, <2>2, LimitKept DEF Inv
<1>3. CASE CaseMoves
  BY <1>2, <1>3 DEF CaseMoves
<1>4. CASE UNCHANGED vars
  BY <1>2, <1>4 DEF vars, Inv, TypeOK
<1> QED BY <1>1, <1>3, <1>4 DEF Next

\* The inductive invariant, and with it the types, hold in every state.
THEOREM DocumentsTracked == Spec => []Inv
<1> QED BY InvInit, InvStep, PTL DEF Spec

\* A document the API lists always has its object, whatever fails or races.
THEOREM ListedCanBeOpened == Spec => []LiveHasObject
<1>1. Inv => LiveHasObject
  BY DEF Inv
<1> QED BY <1>1, DocumentsTracked, PTL

\* The limit on documents is passed by at most one for each further request.
THEOREM LimitNearlyKept == Spec => []LimitPassedByRacersOnly
<1>1. Inv => LimitPassedByRacersOnly
  BY Sizes DEF Inv, LimitWithCounted, LimitPassedByRacersOnly
<1> QED BY <1>1, DocumentsTracked, PTL

\* With no request in flight and nothing failed, every object is listed.
THEOREM NothingLeftBehind == Spec => []NoOrphans
<1>1. Inv => NoOrphans
  <2> SUFFICES ASSUME Inv, ~mishap, \A r \in Requests : req[r] = Idle
               PROVE  objects = LiveDocs
    BY DEF NoOrphans
  <2>1. LiveDocs \subseteq objects
    BY DEF Inv, LiveHasObject
  <2>2. \A r \in Requests : req[r].at \notin Working
    BY DEF Idle, Working
  <2>3. objects \subseteq LiveDocs
    BY <2>2 DEF Inv, TypeOK, Accounted, LiveDocs
  <2> QED BY <2>1, <2>3
<1> QED BY <1>1, DocumentsTracked, PTL
=============================================================================
