-------------------------- MODULE OfferStoreProofs --------------------------
(* Theorems about OfferStore, for every number of sessions, users and ids. *)
EXTENDS OfferStore, TLAPS

-----------------------------------------------------------------------------
(* A session between requests remembers a well-formed blank request. *)
LEMMA BlankType == ASSUME NEW s \in Sessions PROVE Blank(s) \in Request
  <1>1. (CHOOSE v \in Values : TRUE) \in Values
    BY ValuesAssumption
  <1>2. Owner[s] \in Users
    BY OwnerAssumption
  <1>3. 1 \in Ids
    BY MaxIdAssumption DEF Ids
  <1> QED
    BY <1>1, <1>2, <1>3 DEF Blank, Request, Content

(* The row a request writes is a row of the requester. *)
LEMMA RowOfType ==
  ASSUME TypeOK, NEW s \in Sessions
  PROVE  RowOf(s) \in Row /\ RowOf(s).owner = Owner[s]
  BY OwnerAssumption DEF TypeOK, RowOf, Row, Request

(* What every way of ending a request leaves behind. *)
LEMMA AnswerType ==
  ASSUME TypeOK, NEW s \in Sessions, NEW status \in Status, Answer(s, status)
  PROVE  /\ pc' \in [Sessions -> {"idle", "insert", "begin", "unset", "commit",
                          "update", "readback", "delete", "source", "copy"}]
         /\ req' \in [Sessions -> Request]
         /\ todo' \in [Sessions -> SUBSET Ids]
         /\ draft' \in [Sessions -> [Ids -> Row \cup {NoRow}]]
         /\ resp' \in [Sessions -> Status]
  <1>1. NoDraft \in [Ids -> Row \cup {NoRow}]
    BY DEF NoDraft
  <1> QED
    BY <1>1, BlankType DEF TypeOK, Answer

(* Committing well-typed rows keeps the table well-typed. *)
LEMMA InstallType ==
  ASSUME TypeOK, NEW f \in [Ids -> Row \cup {NoRow}], Install(f)
  PROVE  rows' \in [Ids -> Row \cup {NoRow}] /\ published' \subseteq Content
  <1>1. rows' \in [Ids -> Row \cup {NoRow}]
    BY DEF TypeOK, Install
  <1>2. \A i \in Ids : f[i] # NoRow => f[i].content \in Content
    BY DEF Row
  <1>3. published' \subseteq Content
    BY <1>2 DEF TypeOK, Install
  <1> QED
    BY <1>1, <1>3

LEMMA OnlyType ==
  ASSUME NEW i \in Ids, NEW r \in Row
  PROVE  Only(i, r) \in [Ids -> Row \cup {NoRow}]
  BY DEF Only, NoDraft

LEMMA NextIdType ==
  ASSUME nextId \in 1..(MaxId + 1), nextId \in Ids
  PROVE  nextId + 1 \in 1..(MaxId + 1)
  BY MaxIdAssumption DEF Ids

LEMMA CopyOfType ==
  ASSUME NEW r \in Request, NEW c \in Content
  PROVE  CopyOf(c, r) \in Request
  BY DEF CopyOf, Request

(* A request arrives with an input of its type. *)
LEMMA AcceptType ==
  ASSUME TypeOK, NEW s \in Sessions, NEW r \in Request,
         NEW label \in {"insert", "begin", "update", "delete", "source"},
         Accept(s, r, label)
  PROVE  TypeOK'
  BY DEF TypeOK, Accept, Goto, Status

(* Type correctness is inductive: one step per handler step. *)
LEMMA TypeOKStep == TypeOK /\ [Next]_vars => TypeOK'
  <1> SUFFICES ASSUME TypeOK, [Next]_vars PROVE TypeOK'
    OBVIOUS
  <1>1. CASE UNCHANGED vars
    BY <1>1 DEF TypeOK, vars
  <1>2. ASSUME NEW s \in Sessions, Arrive(s) PROVE TypeOK'
    <2>1. CASE CreateOffer(s)
      BY <2>1, AcceptType DEF CreateOffer, Input
    <2>2. CASE UpdateOffer(s)
      BY <2>2, AcceptType DEF UpdateOffer, Input
    <2>3. CASE DeleteOffer(s)
      BY <2>3, AcceptType DEF DeleteOffer, Input
    <2>4. CASE ImportOffer(s)
      BY <2>4, AcceptType DEF ImportOffer, Input
    <2>5. CASE Refuse(s)
      BY <2>5 DEF TypeOK, Refuse, Status
    <2> QED
      BY <1>2, <2>1, <2>2, <2>3, <2>4, <2>5 DEF Arrive
  <1>3. ASSUME NEW s \in Sessions, Work(s) PROVE TypeOK'
    <2>1. CASE Insert(s)
      <3>1. CASE nextId \in Ids
        <4>1. Only(nextId, RowOf(s)) \in [Ids -> Row \cup {NoRow}]
          BY <3>1, OnlyType, RowOfType
        <4>2. Install(Only(nextId, RowOf(s))) /\ Report(s) /\ nextId' = nextId + 1
              /\ wrote' = [wrote EXCEPT ![s] = TRUE]
          BY <2>1, <3>1 DEF Insert
        <4> QED
          BY <3>1, <4>1, <4>2, InstallType, AnswerType, NextIdType DEF Report, TypeOK, Status
      <3>2. CASE nextId \notin Ids
        BY <2>1, <3>2, AnswerType DEF Insert, TypeOK, Table, Status
      <3> QED
        BY <3>1, <3>2
    <2>2. CASE Update(s)
      <3> DEFINE i == req[s].id
      <3>1. i \in Ids
        BY DEF TypeOK, Request
      <3>2. CASE i \in List(Owner[s])
        <4>1. Only(i, RowOf(s)) \in [Ids -> Row \cup {NoRow}]
          BY <3>1, OnlyType, RowOfType
        <4>2. Install(Only(i, RowOf(s))) /\ Goto(s, "readback")
              /\ wrote' = [wrote EXCEPT ![s] = TRUE]
              /\ UNCHANGED <<nextId, req, todo, draft, resp>>
          BY <2>2, <3>2 DEF Update
        <4> QED
          BY <4>1, <4>2, InstallType DEF TypeOK, Goto
      <3>3. CASE i \notin List(Owner[s])
        BY <2>2, <3>3, AnswerType DEF Update, TypeOK, Table, Status
      <3> QED
        BY <3>2, <3>3
    <2>3. CASE ReadBack(s)
      BY <2>3, AnswerType DEF ReadBack, TypeOK, Table, Status
    <2>4. CASE Delete(s)
      BY <2>4, AnswerType DEF Report, Delete, TypeOK, Table, Status
    <2>5. CASE ReadSource(s)
      <3>1. CASE GetPublicByID(req[s].id)
        <4>1. rows[req[s].id].content \in Content
          BY <3>1 DEF GetPublicByID, ListPublic, TypeOK, Row
        <4>2. CopyOf(rows[req[s].id].content, req[s]) \in Request
          BY <4>1, CopyOfType DEF TypeOK
        <4>3. QED
          <5>1. /\ req' = [req EXCEPT ![s] = CopyOf(rows[req[s].id].content, @)]
                /\ Goto(s, "copy")
                /\ UNCHANGED <<todo, draft, resp, Table, nextId, wrote>>
            BY <2>5, <3>1 DEF ReadSource
          <5>2. req' \in [Sessions -> Request]
            BY <4>2, <5>1 DEF TypeOK
          <5> QED
            BY <5>1, <5>2 DEF TypeOK, Table, Goto
      <3>2. CASE ~GetPublicByID(req[s].id)
        BY <2>5, <3>2, AnswerType DEF ReadSource, TypeOK, Table, Status
      <3> QED
        BY <3>1, <3>2
    <2>6. CASE UnsetStart(s)
      BY <2>6 DEF UnsetStart, TypeOK, Goto, List
    <2>7. CASE UnsetRow(s)
      <3>1. PICK i \in todo[s] :
              /\ todo' = [todo EXCEPT ![s] = @ \ {i}]
              /\ draft' = [draft EXCEPT ![s][i] =
                      IF rows[i] = NoRow THEN NoRow ELSE Lowered(rows[i])]
        BY <2>7 DEF UnsetRow
      <3>2. i \in Ids /\ rows[i] \in Row \cup {NoRow}
        BY DEF TypeOK
      <3>3. rows[i] # NoRow => Lowered(rows[i]) \in Row
        BY <3>2 DEF Row, Lowered
      <3> QED
        BY <2>7, <3>1, <3>2, <3>3 DEF UnsetRow, TypeOK
    <2>8. CASE InsertCurrent(s)
      <3>1. CASE nextId \in Ids
        <4>1. /\ draft' = [draft EXCEPT ![s] = [@ EXCEPT ![nextId] = RowOf(s)]]
              /\ nextId' = nextId + 1
              /\ Goto(s, "commit")
              /\ UNCHANGED <<req, todo, resp, Table, wrote>>
          BY <2>8, <3>1 DEF InsertCurrent
        <4>2. draft' \in [Sessions -> [Ids -> Row \cup {NoRow}]]
          BY <3>1, <4>1, RowOfType DEF TypeOK
        <4> QED
          BY <3>1, <4>1, <4>2, NextIdType DEF TypeOK, Table, Goto
      <3>2. CASE nextId \notin Ids
        BY <2>8, <3>2, AnswerType DEF InsertCurrent, TypeOK, Table, Status
      <3> QED
        BY <3>1, <3>2
    <2>9. CASE UpdateTarget(s)
      <3>1. CASE req[s].id \in List(Owner[s])
        <4>1. /\ draft' = [draft EXCEPT ![s] = [@ EXCEPT ![req[s].id] = RowOf(s)]]
              /\ Goto(s, "commit")
              /\ UNCHANGED <<req, todo, resp, Table, nextId, wrote>>
          BY <2>9, <3>1 DEF UpdateTarget
        <4>2. draft' \in [Sessions -> [Ids -> Row \cup {NoRow}]]
          BY <3>1, <4>1, RowOfType DEF TypeOK, List
        <4> QED
          BY <4>1, <4>2 DEF TypeOK, Table, Goto
      <3>2. CASE req[s].id \notin List(Owner[s])
        BY <2>9, <3>2, AnswerType DEF UpdateTarget, TypeOK, Table, Status
      <3> QED
        BY <3>1, <3>2
    <2>10. CASE Commit(s)
      <3>1. draft[s] \in [Ids -> Row \cup {NoRow}]
        BY DEF TypeOK
      <3> QED
        BY <2>10, <3>1, InstallType, AnswerType DEF Report, Commit, TypeOK, Status
    <2> QED
      BY <1>3, <2>1, <2>2, <2>3, <2>4, <2>5, <2>6, <2>7, <2>8, <2>9, <2>10 DEF Work
  <1>4. ASSUME NEW s \in Sessions, Abort(s) \/ DeadlockAbort(s) PROVE TypeOK'
    BY <1>4, AnswerType DEF Abort, DeadlockAbort, TypeOK, Table, Status
  <1> QED
    BY <1>1, <1>2, <1>3, <1>4 DEF Next

LEMMA TypeOKInit == Init => TypeOK
  BY BlankType, MaxIdAssumption DEF Init, TypeOK, NoDraft, Status

(* Every reachable state is well typed. *)
THEOREM TypeCorrect == Spec => []TypeOK
  BY TypeOKInit, TypeOKStep, PTL DEF Spec

-----------------------------------------------------------------------------
(* Locks.  LocksStayHome is not inductive alone: it needs to know that a   *)
(* row some request is about to lock is still its owner's, hence that ids  *)
(* are not used twice, hence that drafts and pending ids lie below the     *)
(* sequence.                                                               *)

(* Ids from nextId on have never been used. *)
FreshIds ==
  \A i \in Ids : i >= nextId =>
     /\ rows[i] = NoRow
     /\ \A s \in Sessions : draft[s][i] = NoRow /\ i \notin todo[s]

(* A row is locked by one transaction at most. *)
Exclusive ==
  \A s, t \in Sessions, i \in Ids :
     s # t => draft[s][i] = NoRow \/ draft[t][i] = NoRow

(* Rows locked or about to be locked are the locker's; an inserted row not *)
(* yet committed is on nobody's list.                                      *)
OwnRows ==
  \A s \in Sessions, i \in Ids :
     /\ (i \in todo[s] \/ draft[s][i] # NoRow) /\ rows[i] # NoRow
          => rows[i].owner = Owner[s]
     /\ rows[i] = NoRow /\ draft[s][i] # NoRow
          => \A t \in Sessions : i \notin todo[t]

LockInv == FreshIds /\ Exclusive /\ OwnRows /\ LocksStayHome

LEMMA LockInvInit == Init => LockInv
  BY DEF Init, LockInv, FreshIds, Exclusive, OwnRows, LocksStayHome, NoDraft

(* A request that ends without touching the table. *)
LEMMA AnswerLocks ==
  ASSUME TypeOK, LockInv, NEW s \in Sessions, NEW status \in Status,
         Answer(s, status), UNCHANGED rows, UNCHANGED nextId
  PROVE  LockInv'
  BY DEF TypeOK, LockInv, FreshIds, Exclusive, OwnRows, LocksStayHome, Answer, NoDraft

(* A step that changes neither the table nor any lock, and leaves the      *)
(* sessions that hold locks where they are.                                *)
LEMMA QuietLocks ==
  ASSUME LockInv, UNCHANGED <<rows, nextId, todo, draft>>,
         \A s \in Sessions : pc[s] \in {"unset", "commit"} => pc'[s] = pc[s]
  PROVE  LockInv'
  BY DEF LockInv, FreshIds, Exclusive, OwnRows, LocksStayHome

LEMMA LockInvStep == TypeOK /\ LockInv /\ [Next]_vars => LockInv'
  <1> SUFFICES ASSUME TypeOK, LockInv, [Next]_vars PROVE LockInv'
    OBVIOUS
  <1>1. CASE UNCHANGED vars
    BY <1>1, QuietLocks DEF vars
  <1>2. ASSUME NEW s \in Sessions, Arrive(s) PROVE LockInv'
    <2>1. /\ UNCHANGED <<rows, nextId, todo, draft>>
          /\ pc[s] = "idle"
          /\ \E label : pc' = [pc EXCEPT ![s] = label]
      BY <1>2 DEF Arrive, CreateOffer, UpdateOffer, DeleteOffer, ImportOffer,
                  Refuse, Accept, Goto, TypeOK
    <2> QED
      BY <2>1, QuietLocks DEF TypeOK
  <1>3. ASSUME NEW s \in Sessions, Work(s) PROVE LockInv'
    <2>0. "ok" \in Status /\ "notFound" \in Status /\ "error" \in Status
      BY DEF Status
    <2>1. CASE Insert(s)
      <3>1. CASE nextId \in Ids
        <4>1. /\ rows' = [i \in Ids |-> IF Only(nextId, RowOf(s))[i] # NoRow
                                 THEN Only(nextId, RowOf(s))[i] ELSE rows[i]]
              /\ nextId' = nextId + 1
              /\ Report(s)
          BY <2>1, <3>1 DEF Insert, Install
        <4>2. \A i \in Ids : i # nextId => rows'[i] = rows[i]
          BY <3>1, <4>1 DEF Only, NoDraft
        <4>3. draft[s] = NoDraft
          BY <2>1 DEF Insert, LockInv, LocksStayHome, TypeOK, NoDraft
        <4>4. PICK status \in Status : Answer(s, status)
          BY <4>1, <2>0 DEF Report
        <4> QED
          BY <3>1, <4>1, <4>2, <4>3, <4>4, MaxIdAssumption
          DEF TypeOK, LockInv, FreshIds, Exclusive, OwnRows, LocksStayHome,
              Answer, NoDraft, Ids
      <3>2. CASE nextId \notin Ids
        BY <2>1, <2>0, <3>2, AnswerLocks DEF Insert, Table
      <3> QED
        BY <3>1, <3>2
    <2>2. CASE Update(s)
      <3> DEFINE i == req[s].id
      <3>1. i \in Ids
        BY DEF TypeOK, Request
      <3>2. CASE i \in List(Owner[s])
        <4>1. /\ rows' = [j \in Ids |-> IF Only(i, RowOf(s))[j] # NoRow
                                 THEN Only(i, RowOf(s))[j] ELSE rows[j]]
              /\ pc[s] = "update" /\ Goto(s, "readback") /\ Free(s, i)
              /\ UNCHANGED <<nextId, req, todo, draft, resp>>
          BY <2>2, <3>2 DEF Update, Install
        <4>2. RowOf(s) # NoRow /\ RowOf(s).owner = Owner[s]
          BY RowOfType, NoRowAssumption
        <4>3. \A j \in Ids : j # i => rows'[j] = rows[j]
          BY <3>1, <4>1 DEF Only, NoDraft
        <4>4. rows'[i] = RowOf(s) /\ rows[i] # NoRow /\ rows[i].owner = Owner[s]
          BY <3>1, <3>2, <4>1, <4>2 DEF Only, NoDraft, List
        <4>5. /\ \A j \in Ids : rows'[j] = NoRow <=> rows[j] = NoRow
              /\ \A j \in Ids : rows[j] # NoRow => rows'[j].owner = rows[j].owner
          BY <4>2, <4>3, <4>4
        <4>6. \A t \in Sessions : pc[t] \in {"unset", "commit"} => pc'[t] = pc[t]
          BY <4>1 DEF TypeOK, Goto
        <4> QED
          BY <4>1, <4>5, <4>6
          DEF LockInv, FreshIds, Exclusive, OwnRows, LocksStayHome
      <3>3. CASE i \notin List(Owner[s])
        BY <2>2, <2>0, <3>3, AnswerLocks DEF Update, Table
      <3> QED
        BY <3>2, <3>3
    <2>3. CASE ReadBack(s)
      BY <2>3, <2>0, AnswerLocks DEF ReadBack, Table
    <2>4. CASE Delete(s)
      <3> DEFINE i == req[s].id
      <3>1. CASE i \in List(Owner[s])
        <4>1. /\ rows' = [rows EXCEPT ![i] = NoRow]
              /\ pc[s] = "delete" /\ Free(s, i) /\ Report(s)
              /\ UNCHANGED nextId
          BY <2>4, <3>1 DEF Delete
        <4>2. draft[s] = NoDraft
          BY <4>1 DEF LockInv, LocksStayHome, TypeOK, NoDraft
        <4>3. \A t \in Sessions : draft[t][i] = NoRow
          BY <3>1, <4>1, <4>2 DEF Free, NoDraft, List
        <4> QED
          BY <3>1, <4>1, <4>3
          DEF TypeOK, LockInv, FreshIds, Exclusive, OwnRows, LocksStayHome,
              Report, Answer, NoDraft
      <3>2. CASE i \notin List(Owner[s])
        BY <2>4, <2>0, <3>2, AnswerLocks DEF Delete, Table
      <3> QED
        BY <3>1, <3>2
    <2>5. CASE ReadSource(s)
      <3>1. CASE GetPublicByID(req[s].id)
        <4>1. /\ pc[s] = "source" /\ Goto(s, "copy")
              /\ UNCHANGED <<rows, nextId, todo, draft>>
          BY <2>5, <3>1 DEF ReadSource, Table
        <4> QED
          BY <4>1, QuietLocks DEF TypeOK, Goto
      <3>2. CASE ~GetPublicByID(req[s].id)
        BY <2>5, <2>0, <3>2, AnswerLocks DEF ReadSource, Table
      <3> QED
        BY <3>1, <3>2
    <2>6. CASE UnsetStart(s)
      BY <2>6 DEF UnsetStart, TypeOK, LockInv, FreshIds, Exclusive, OwnRows,
                  LocksStayHome, Goto, List
    <2>7. CASE UnsetRow(s)
      <3>1. PICK i \in todo[s] :
              /\ Free(s, i)
              /\ todo' = [todo EXCEPT ![s] = @ \ {i}]
              /\ draft' = [draft EXCEPT ![s][i] =
                      IF rows[i] = NoRow THEN NoRow ELSE Lowered(rows[i])]
        BY <2>7 DEF UnsetRow
      <3>2. i \in Ids /\ rows[i] \in Row \cup {NoRow}
        BY DEF TypeOK
      <3>3. rows[i] # NoRow => Lowered(rows[i]).owner = Owner[s]
        BY <3>2 DEF Row, LockInv, OwnRows, Lowered
      <3>4. pc[s] = "unset" /\ UNCHANGED <<rows, nextId, pc>>
        BY <2>7 DEF UnsetRow
      <3> QED
        BY <3>1, <3>2, <3>3, <3>4
        DEF TypeOK, LockInv, FreshIds, Exclusive, OwnRows, LocksStayHome, Free
    <2>8. CASE InsertCurrent(s)
      <3>1. CASE nextId \in Ids
        <4>1. /\ draft' = [draft EXCEPT ![s] = [@ EXCEPT ![nextId] = RowOf(s)]]
              /\ nextId' = nextId + 1
              /\ pc[s] = "unset" /\ Goto(s, "commit")
              /\ UNCHANGED <<rows, todo>>
          BY <2>8, <3>1 DEF InsertCurrent, UnsetDone, Table
        <4>2. RowOf(s).owner = Owner[s]
          BY RowOfType
        <4>3. \A t \in Sessions, i \in Ids :
                 t # s \/ i # nextId => draft'[t][i] = draft[t][i]
          BY <3>1, <4>1 DEF TypeOK
        <4>a. draft'[s][nextId] = RowOf(s)
          BY <3>1, <4>1 DEF TypeOK
        <4>b. nextId \in Nat
          BY MaxIdAssumption DEF TypeOK
        <4>c. rows[nextId] = NoRow /\ \A t \in Sessions : nextId \notin todo[t]
          BY <3>1, <4>b DEF LockInv, FreshIds
        <4>4. draft'[s][nextId] = RowOf(s) /\ rows[nextId] = NoRow
          BY <4>a, <4>c
        <4>5. FreshIds'
          BY <3>1, <4>1, <4>3, MaxIdAssumption DEF TypeOK, LockInv, FreshIds, Ids
        <4>6. Exclusive'
          BY <3>1, <4>1, <4>3 DEF TypeOK, LockInv, FreshIds, Exclusive, Ids
        <4>7. OwnRows' /\ LocksStayHome'
          BY <3>1, <4>1, <4>2, <4>3, <4>4, <4>c
          DEF TypeOK, LockInv, OwnRows, LocksStayHome, Goto
        <4> QED
          BY <4>5, <4>6, <4>7 DEF LockInv
      <3>2. CASE nextId \notin Ids
        BY <2>8, <2>0, <3>2, AnswerLocks DEF InsertCurrent, Table
      <3> QED
        BY <3>1, <3>2
    <2>9. CASE UpdateTarget(s)
      <3> DEFINE i == req[s].id
      <3>1. CASE i \in List(Owner[s])
        <4>1. /\ draft' = [draft EXCEPT ![s] = [@ EXCEPT ![i] = RowOf(s)]]
              /\ pc[s] = "unset" /\ Goto(s, "commit") /\ Free(s, i)
              /\ UNCHANGED <<rows, nextId, todo>>
          BY <2>9, <3>1 DEF UpdateTarget, UnsetDone, Table
        <4>2. RowOf(s).owner = Owner[s]
          BY RowOfType
        <4> QED
          BY <3>1, <4>1, <4>2
          DEF TypeOK, LockInv, FreshIds, Exclusive, OwnRows, LocksStayHome,
              Goto, Free, List
      <3>2. CASE i \notin List(Owner[s])
        BY <2>9, <2>0, <3>2, AnswerLocks DEF UpdateTarget, Table
      <3> QED
        BY <3>1, <3>2
    <2>10. CASE Commit(s)
      <3>1. /\ rows' = [i \in Ids |-> IF draft[s][i] # NoRow
                                        THEN draft[s][i] ELSE rows[i]]
            /\ Report(s) /\ UNCHANGED nextId /\ pc[s] = "commit"
        BY <2>10 DEF Commit, Install
      <3> QED
        BY <3>1 DEF TypeOK, LockInv, FreshIds, Exclusive, OwnRows,
                    LocksStayHome, Report, Answer, NoDraft
    <2> QED
      BY <1>3, <2>1, <2>2, <2>3, <2>4, <2>5, <2>6, <2>7, <2>8, <2>9, <2>10 DEF Work
  <1>4. ASSUME NEW s \in Sessions, Abort(s) \/ DeadlockAbort(s) PROVE LockInv'
    BY <1>4, AnswerLocks DEF Abort, DeadlockAbort, Table, Status
  <1> QED
    BY <1>1, <1>2, <1>3, <1>4 DEF Next

LEMMA LockInvariant == Spec => [](TypeOK /\ LockInv)
  BY TypeOKInit, TypeOKStep, LockInvInit, LockInvStep, PTL DEF Spec

(* A lock is always on a row of the account whose request holds it, and    *)
(* is gone when the request is answered.                                   *)
THEOREM LocksAreHome == Spec => []LocksStayHome
  <1>1. LockInv => LocksStayHome
    BY DEF LockInv
  <1> QED
    BY <1>1, LockInvariant, PTL

-----------------------------------------------------------------------------
(* Isolation.  A step is one session's: it leaves the other requests alone *)
(* and changes only unlocked or self-locked rows of its own account.       *)

Step(t) == Arrive(t) \/ Work(t) \/ Abort(t) \/ DeadlockAbort(t)

(* What a step of t leaves alone.                                          *)
Frame(t) ==
  /\ \A s \in Sessions \ {t} :
       /\ pc'[s] = pc[s] /\ req'[s] = req[s]
       /\ todo'[s] = todo[s] /\ draft'[s] = draft[s]
  /\ \A i \in Ids : rows'[i] # rows[i] =>
       /\ pc'[t] # pc[t]
       /\ rows[i] # NoRow => rows[i].owner = Owner[t]
       /\ rows'[i] # NoRow => rows'[i].owner = Owner[t]
       /\ \A s \in Sessions \ {t} : draft[s][i] = NoRow

LEMMA AnswerFrame ==
  ASSUME TypeOK, NEW t \in Sessions, NEW status, Answer(t, status), UNCHANGED rows
  PROVE  Frame(t)
  BY DEF TypeOK, Answer, Frame

LEMMA StepFrame ==
  ASSUME TypeOK, LockInv, NEW t \in Sessions, Step(t)
  PROVE  Frame(t)
  <1>1. CASE Arrive(t)
    BY <1>1 DEF Arrive, CreateOffer, UpdateOffer, DeleteOffer, ImportOffer,
                Refuse, Accept, Goto, TypeOK, Frame
  <1>2. CASE Abort(t) \/ DeadlockAbort(t)
    BY <1>2, AnswerFrame DEF Abort, DeadlockAbort, Table
  <1>3. CASE Insert(t)
    <2>1. CASE nextId \in Ids
      <3>1. /\ rows' = [i \in Ids |-> IF Only(nextId, RowOf(t))[i] # NoRow
                               THEN Only(nextId, RowOf(t))[i] ELSE rows[i]]
            /\ Report(t) /\ pc[t] \in {"insert", "copy"}
        BY <1>3, <2>1 DEF Insert, Install
      <3>2. \A i \in Ids : rows'[i] # rows[i] => i = nextId /\ rows'[i] = RowOf(t)
        BY <2>1, <3>1 DEF Only, NoDraft
      <3>3. nextId \in Nat
        BY MaxIdAssumption DEF TypeOK
      <3>4. rows[nextId] = NoRow /\ \A s \in Sessions : draft[s][nextId] = NoRow
        BY <2>1, <3>3 DEF LockInv, FreshIds
      <3> QED
        BY <3>1, <3>2, <3>4, RowOfType DEF Frame, Report, Answer, TypeOK
    <2>2. CASE nextId \notin Ids
      BY <1>3, <2>2, AnswerFrame DEF Insert, Table
    <2> QED
      BY <2>1, <2>2
  <1>4. CASE Update(t)
    <2>1. CASE req[t].id \in List(Owner[t])
      <3>1. /\ rows' = [i \in Ids |-> IF Only(req[t].id, RowOf(t))[i] # NoRow
                               THEN Only(req[t].id, RowOf(t))[i] ELSE rows[i]]
            /\ pc[t] = "update" /\ Goto(t, "readback") /\ Free(t, req[t].id)
            /\ UNCHANGED <<req, todo, draft>>
        BY <1>4, <2>1 DEF Update, Install
      <3>2. \A i \in Ids : rows'[i] # rows[i] => i = req[t].id /\ rows'[i] = RowOf(t)
        BY <3>1 DEF Only, NoDraft, TypeOK, Request
      <3> QED
        BY <2>1, <3>1, <3>2, RowOfType DEF Frame, Goto, Free, List, TypeOK
    <2>2. CASE req[t].id \notin List(Owner[t])
      BY <1>4, <2>2, AnswerFrame DEF Update, Table
    <2> QED
      BY <2>1, <2>2
  <1>5. CASE ReadBack(t)
    BY <1>5, AnswerFrame DEF ReadBack, Table
  <1>6. CASE Delete(t)
    <2>1. CASE req[t].id \in List(Owner[t])
      BY <1>6, <2>1 DEF Delete, Report, Answer, Frame, Free, List, TypeOK
    <2>2. CASE req[t].id \notin List(Owner[t])
      BY <1>6, <2>2, AnswerFrame DEF Delete, Table
    <2> QED
      BY <2>1, <2>2
  <1>7. CASE ReadSource(t)
    <2>1. CASE GetPublicByID(req[t].id)
      BY <1>7, <2>1 DEF ReadSource, Table, Goto, Frame, TypeOK
    <2>2. CASE ~GetPublicByID(req[t].id)
      BY <1>7, <2>2, AnswerFrame DEF ReadSource, Table
    <2> QED
      BY <2>1, <2>2
  <1>8. CASE UnsetStart(t)
    BY <1>8 DEF UnsetStart, Goto, Frame, TypeOK
  <1>9. CASE UnsetRow(t)
    BY <1>9 DEF UnsetRow, Frame, TypeOK
  <1>10. CASE InsertCurrent(t)
    <2>1. CASE nextId \in Ids
      BY <1>10, <2>1 DEF InsertCurrent, Table, Goto, Frame, TypeOK
    <2>2. CASE nextId \notin Ids
      BY <1>10, <2>2, AnswerFrame DEF InsertCurrent, Table
    <2> QED
      BY <2>1, <2>2
  <1>11. CASE UpdateTarget(t)
    <2>1. CASE req[t].id \in List(Owner[t])
      BY <1>11, <2>1 DEF UpdateTarget, Table, Goto, Frame, TypeOK
    <2>2. CASE req[t].id \notin List(Owner[t])
      BY <1>11, <2>2, AnswerFrame DEF UpdateTarget, Table
    <2> QED
      BY <2>1, <2>2
  <1>12. CASE Commit(t)
    <2>1. /\ rows' = [i \in Ids |-> IF draft[t][i] # NoRow
                                      THEN draft[t][i] ELSE rows[i]]
          /\ Report(t) /\ pc[t] = "commit"
      BY <1>12 DEF Commit, Install
    <2>2. \A i \in Ids : rows'[i] # rows[i] => /\ draft[t][i] # NoRow
                                              /\ rows'[i] = draft[t][i]
      BY <2>1
    <2> QED
      BY <2>1, <2>2 DEF Frame, Report, Answer, TypeOK, LockInv, Exclusive, OwnRows,
                        LocksStayHome
  <1> QED
    BY <1>1, <1>2, <1>3, <1>4, <1>5, <1>6, <1>7, <1>8, <1>9, <1>10, <1>11, <1>12
    DEF Step, Work

(* A step changes rows of the account whose request takes it and of no     *)
(* other, however many sessions the accounts have.                         *)
THEOREM AccountsAreIsolated == Spec => Isolation
  <1>1. TypeOK /\ LockInv /\ [Next]_vars => [OwnRowsOnly]_vars
    <2> SUFFICES ASSUME TypeOK, LockInv, Next PROVE OwnRowsOnly
      BY DEF OwnRowsOnly
    <2>1. PICK t \in Sessions : Step(t)
      BY DEF Next, Step
    <2>2. Frame(t)
      BY <2>1, StepFrame
    <2> QED
      BY <2>2 DEF Frame, OwnRowsOnly
  <1> QED
    BY <1>1, LockInvariant, PTL DEF Spec, Isolation

-----------------------------------------------------------------------------
(* At most one current offer, when every user has one session.  With two   *)
(* the claim is false: TLC finds the two transactions.  The assumption is  *)
(* used where another session's step would have to change rows of the      *)
(* same user between the unset and the commit.                             *)

OneSessionPerUser == \A s, t \in Sessions : Owner[s] = Owner[t] => s = t

(* How far the transaction of session s has got: while it unsets, what it  *)
(* has locked is lowered and what is still current is left to visit; at    *)
(* its commit one draft is the new row and every other current row of the  *)
(* user is lowered.                                                        *)
Unsetting(s) ==
  \A i \in Ids :
     /\ draft[s][i] # NoRow =>
          rows[i] # NoRow /\ draft[s][i] = Lowered(rows[i])
     /\ i \in List(Owner[s]) /\ rows[i].current =>
          i \in todo[s] \/ draft[s][i] # NoRow

Committing(s) ==
  \E k \in Ids :
     /\ draft[s][k] = RowOf(s)
     /\ \A i \in Ids \ {k} :
          /\ draft[s][i] # NoRow =>
               rows[i] # NoRow /\ draft[s][i] = Lowered(rows[i])
          /\ i \in List(Owner[s]) /\ rows[i].current => draft[s][i] # NoRow

Phase(s) ==
  /\ pc[s] \in {"insert", "copy", "update"} => ~req[s].current
  /\ pc[s] \in {"begin", "unset", "commit"} => req[s].current
  /\ pc[s] = "unset" => Unsetting(s)
  /\ pc[s] = "commit" => Committing(s)

SwitchInv == \A s \in Sessions : Phase(s)

LEMMA SwitchInvInit == Init => SwitchInv
  BY DEF Init, SwitchInv, Phase

(* A step of another user's session does not disturb the phase of s.       *)
LEMMA PhaseFrame ==
  ASSUME TypeOK, LockInv, OneSessionPerUser,
         NEW s \in Sessions, NEW t \in Sessions, s # t, Frame(t), Phase(s)
  PROVE  Phase(s)'
  <1>1. /\ pc'[s] = pc[s] /\ req'[s] = req[s]
        /\ todo'[s] = todo[s] /\ draft'[s] = draft[s]
    BY DEF Frame
  <1>2. Owner[s] # Owner[t]
    BY DEF OneSessionPerUser
  <1>3. \A i \in Ids : draft[s][i] # NoRow => rows'[i] = rows[i]
    BY DEF Frame
  <1>4. \A i \in Ids : (i \in List(Owner[s]))' =>
                        i \in List(Owner[s]) /\ rows'[i] = rows[i]
    BY <1>2 DEF Frame, List
  <1>5. RowOf(s)' = RowOf(s)
    BY <1>1 DEF RowOf
  <1>6. Unsetting(s) => Unsetting(s)'
    BY <1>1, <1>3, <1>4 DEF Unsetting
  <1>7. Committing(s) => Committing(s)'
    BY <1>1, <1>3, <1>4, <1>5 DEF Committing
  <1> QED
    BY <1>1, <1>6, <1>7 DEF Phase

LEMMA AnswerPhase ==
  ASSUME TypeOK, NEW s \in Sessions, NEW status, Answer(s, status)
  PROVE  Phase(s)'
  BY DEF TypeOK, Answer, Phase

(* The session's own step takes its phase to the next one.                 *)
LEMMA PhaseStep ==
  ASSUME TypeOK, LockInv, NEW s \in Sessions, Phase(s), Step(s)
  PROVE  Phase(s)'
  <1>1. CASE Arrive(s)
    BY <1>1 DEF Arrive, CreateOffer, UpdateOffer, DeleteOffer, ImportOffer,
                Refuse, Accept, Goto, TypeOK, Phase
  <1>2. CASE Abort(s) \/ DeadlockAbort(s)
    BY <1>2, AnswerPhase DEF Abort, DeadlockAbort
  <1>3. CASE Insert(s) \/ ReadBack(s) \/ Delete(s) \/ Commit(s)
    BY <1>3, AnswerPhase DEF Report, Insert, ReadBack, Delete, Commit
  <1>4. CASE Update(s)
    <2>1. CASE req[s].id \in List(Owner[s])
      BY <1>4, <2>1 DEF Update, Goto, Phase, TypeOK
    <2>2. CASE req[s].id \notin List(Owner[s])
      BY <1>4, <2>2, AnswerPhase DEF Update
    <2> QED
      BY <2>1, <2>2
  <1>5. CASE ReadSource(s)
    <2>1. CASE GetPublicByID(req[s].id)
      <3>1. /\ req' = [req EXCEPT ![s] = CopyOf(rows[req[s].id].content, @)]
            /\ pc' = [pc EXCEPT ![s] = "copy"]
        BY <1>5, <2>1 DEF ReadSource, Goto
      <3>2. req[s] \in Request
        BY DEF TypeOK
      <3>3. ~CopyOf(rows[req[s].id].content, req[s]).current
        BY <3>2 DEF CopyOf, Request
      <3>4. req'[s] = CopyOf(rows[req[s].id].content, req[s]) /\ pc'[s] = "copy"
        BY <3>1 DEF TypeOK
      <3> QED
        BY <3>3, <3>4 DEF Phase
    <2>2. CASE ~GetPublicByID(req[s].id)
      BY <1>5, <2>2, AnswerPhase DEF ReadSource
    <2> QED
      BY <2>1, <2>2
  <1>6. CASE UnsetStart(s)
    BY <1>6 DEF UnsetStart, Goto, Phase, Unsetting, TypeOK, LockInv,
                LocksStayHome, List
  <1>7. CASE UnsetRow(s)
    <2>1. PICK i \in todo[s] :
            /\ todo' = [todo EXCEPT ![s] = @ \ {i}]
            /\ draft' = [draft EXCEPT ![s][i] =
                    IF rows[i] = NoRow THEN NoRow ELSE Lowered(rows[i])]
      BY <1>7 DEF UnsetRow
    <2>2. i \in Ids /\ rows[i] \in Row \cup {NoRow}
      BY DEF TypeOK
    <2>3. rows[i] # NoRow => Lowered(rows[i]) # NoRow
      BY <2>2, NoRowAssumption DEF Row, Lowered
    <2>4. UNCHANGED <<rows, pc, req>> /\ pc[s] = "unset"
      BY <1>7 DEF UnsetRow
    <2>5. Unsetting(s)'
      BY <2>1, <2>2, <2>3, <2>4 DEF Phase, Unsetting, TypeOK, List
    <2> QED
      BY <2>4, <2>5 DEF Phase
  <1>8. CASE InsertCurrent(s) /\ nextId \in Ids
    <2>1. /\ draft' = [draft EXCEPT ![s] = [@ EXCEPT ![nextId] = RowOf(s)]]
          /\ pc[s] = "unset" /\ todo[s] = {} /\ Goto(s, "commit")
          /\ UNCHANGED <<rows, req>>
      BY <1>8 DEF InsertCurrent, UnsetDone, Table
    <2>2. draft'[s][nextId] = RowOf(s)' /\ RowOf(s)' = RowOf(s)
      BY <1>8, <2>1 DEF TypeOK, RowOf
    <2>3. \A i \in Ids \ {nextId} : draft'[s][i] = draft[s][i]
      BY <2>1 DEF TypeOK
    <2>4. Committing(s)'
      BY <1>8, <2>1, <2>2, <2>3 DEF Phase, Unsetting, Committing, List
    <2> QED
      BY <2>1, <2>4 DEF Phase, Goto, TypeOK
  <1>9. CASE InsertCurrent(s) /\ nextId \notin Ids
    BY <1>9, AnswerPhase DEF InsertCurrent
  <1>10. CASE UpdateTarget(s) /\ req[s].id \in List(Owner[s])
    <2> DEFINE k == req[s].id
    <2>1. /\ draft' = [draft EXCEPT ![s] = [@ EXCEPT ![k] = RowOf(s)]]
          /\ pc[s] = "unset" /\ todo[s] = {} /\ Goto(s, "commit")
          /\ UNCHANGED <<rows, req>>
      BY <1>10 DEF UpdateTarget, UnsetDone, Table
    <2>2. k \in Ids /\ draft'[s][k] = RowOf(s)' /\ RowOf(s)' = RowOf(s)
      BY <1>10, <2>1 DEF TypeOK, RowOf, List
    <2>3. \A i \in Ids \ {k} : draft'[s][i] = draft[s][i]
      BY <2>1 DEF TypeOK
    <2>4. Committing(s)'
      BY <2>1, <2>2, <2>3 DEF Phase, Unsetting, Committing, List
    <2> QED
      BY <2>1, <2>4 DEF Phase, Goto, TypeOK
  <1>11. CASE UpdateTarget(s) /\ req[s].id \notin List(Owner[s])
    BY <1>11, AnswerPhase DEF UpdateTarget
  <1> QED
    BY <1>1, <1>2, <1>3, <1>4, <1>5, <1>6, <1>7, <1>8, <1>9, <1>10, <1>11
    DEF Step, Work

LEMMA SwitchInvStep ==
  ASSUME OneSessionPerUser
  PROVE  TypeOK /\ LockInv /\ SwitchInv /\ [Next]_vars => SwitchInv'
  <1> SUFFICES ASSUME TypeOK, LockInv, SwitchInv, [Next]_vars PROVE SwitchInv'
    OBVIOUS
  <1>1. CASE UNCHANGED vars
    BY <1>1 DEF vars, SwitchInv, Phase, Unsetting, Committing, RowOf, List
  <1>2. CASE Next
    <2>1. PICK t \in Sessions : Step(t)
      BY <1>2 DEF Next, Step
    <2>2. Frame(t)
      BY <2>1, StepFrame
    <2>3. \A s \in Sessions : Phase(s)'
      BY <2>1, <2>2, PhaseFrame, PhaseStep DEF SwitchInv
    <2> QED
      BY <2>3 DEF SwitchInv
  <1> QED
    BY <1>1, <1>2

(* Every step is a step of OfferBook or leaves the table alone.            *)
LEMMA StepRefines ==
  ASSUME TypeOK, LockInv, NEW t \in Sessions, Phase(t), Step(t), rows' # rows
  PROVE  \E i \in Ids :
           \/ Book!Remove(Owner[t], i)
           \/ \E r \in Row : Book!Put(Owner[t], i, r)
  <1> USE DEF Book!Ids, Book!Row, Ids, Row, Content
  <1>1. CASE Insert(t)
    <2>1. /\ rows' = [i \in Ids |-> IF Only(nextId, RowOf(t))[i] # NoRow
                             THEN Only(nextId, RowOf(t))[i] ELSE rows[i]]
          /\ nextId \in Ids /\ ~req[t].current
      BY <1>1 DEF Insert, Install, Table, Phase
    <2>2. RowOf(t) \in Row /\ RowOf(t).owner = Owner[t] /\ ~RowOf(t).current
      BY <2>1, RowOfType DEF RowOf
    <2>3. rows' = [i \in Ids |-> IF i = nextId THEN RowOf(t) ELSE rows[i]]
      BY <2>1, <2>2, NoRowAssumption DEF Only, NoDraft
    <2>4. nextId \in Nat
      BY MaxIdAssumption DEF TypeOK
    <2>5. rows[nextId] = NoRow
      BY <2>1, <2>4 DEF LockInv, FreshIds
    <2>6. Book!Put(Owner[t], nextId, RowOf(t))
      BY <2>2, <2>3, <2>5 DEF Book!Put
    <2> QED
      BY <2>1, <2>2, <2>6
  <1>2. CASE Update(t)
    <2> DEFINE k == req[t].id
    <2>1. /\ rows' = [i \in Ids |-> IF Only(k, RowOf(t))[i] # NoRow
                             THEN Only(k, RowOf(t))[i] ELSE rows[i]]
          /\ k \in List(Owner[t]) /\ ~req[t].current
      BY <1>2 DEF Update, Install, Table, Phase
    <2>2. RowOf(t) \in Row /\ RowOf(t).owner = Owner[t] /\ ~RowOf(t).current
      BY <2>1, RowOfType DEF RowOf
    <2>3. k \in Ids /\ rows[k].owner = Owner[t]
      BY <2>1 DEF List
    <2>4. rows' = [i \in Ids |-> IF i = k THEN RowOf(t) ELSE rows[i]]
      BY <2>1, <2>2, <2>3, NoRowAssumption DEF Only, NoDraft
    <2>5. Book!Put(Owner[t], k, RowOf(t))
      BY <2>2, <2>3, <2>4 DEF Book!Put
    <2> QED
      BY <2>2, <2>3, <2>5
  <1>3. CASE Delete(t)
    <2>1. /\ req[t].id \in List(Owner[t])
          /\ rows' = [rows EXCEPT ![req[t].id] = NoRow]
      BY <1>3 DEF Delete, Table
    <2>2. Book!Remove(Owner[t], req[t].id)
      BY <2>1 DEF Book!Remove, List
    <2> QED
      BY <2>1, <2>2 DEF List
  <1>4. CASE Commit(t)
    <2>1. /\ rows' = [i \in Ids |-> IF draft[t][i] # NoRow
                                      THEN draft[t][i] ELSE rows[i]]
          /\ pc[t] = "commit"
      BY <1>4 DEF Commit, Install
    <2>2. RowOf(t) \in Row /\ RowOf(t).owner = Owner[t] /\ RowOf(t).current
      BY <2>1, RowOfType DEF RowOf, Phase
    <2>3. PICK k \in Ids :
            /\ draft[t][k] = RowOf(t)
            /\ \A i \in Ids \ {k} :
                 /\ draft[t][i] # NoRow =>
                      rows[i] # NoRow /\ draft[t][i] = Lowered(rows[i])
                 /\ i \in List(Owner[t]) /\ rows[i].current => draft[t][i] # NoRow
      BY <2>1 DEF Phase, Committing
    <2>4. rows[k] = NoRow \/ rows[k].owner = Owner[t]
      BY <2>2, <2>3, NoRowAssumption DEF LockInv, OwnRows
    <2>5. ASSUME NEW i \in Ids, i # k
          PROVE  rows'[i] = Book!Demoted(rows[i], Owner[t])
      <3>1. CASE draft[t][i] # NoRow
        <4>1. rows'[i] = Lowered(rows[i]) /\ rows[i] # NoRow
          BY <2>1, <2>3, <2>5, <3>1
        <4>2. rows[i].owner = Owner[t]
          BY <3>1, <4>1 DEF LockInv, OwnRows
        <4> QED
          BY <4>1, <4>2 DEF Book!Demoted, Lowered
      <3>2. CASE draft[t][i] = NoRow
        <4>1. rows'[i] = rows[i]
          BY <2>1, <3>2
        <4>2. CASE i \notin List(Owner[t])
          BY <4>1, <4>2 DEF Book!Demoted, List
        <4>3. CASE i \in List(Owner[t])
          <5>1. rows[i] \in Row /\ rows[i].current = FALSE
            BY <2>3, <2>5, <3>2, <4>3 DEF List, TypeOK
          <5>2. [rows[i] EXCEPT !.current = FALSE] = rows[i]
            BY <5>1
          <5> QED
            BY <4>1, <4>3, <5>2 DEF Book!Demoted, List
        <4> QED
          BY <4>2, <4>3
      <3> QED
        BY <3>1, <3>2
    <2>6. rows'[k] = RowOf(t)
      BY <2>1, <2>2, <2>3, NoRowAssumption
    <2>7. rows' = [i \in Ids |-> IF i = k THEN RowOf(t)
                                 ELSE Book!Demoted(rows[i], Owner[t])]
      BY <2>1, <2>5, <2>6
    <2>8. Book!Put(Owner[t], k, RowOf(t))
      BY <2>2, <2>4, <2>7 DEF Book!Put
    <2> QED
      BY <2>2, <2>8
  <1>5. CASE ~(Insert(t) \/ Update(t) \/ Delete(t) \/ Commit(t))
    BY <1>5 DEF Step, Arrive, CreateOffer, UpdateOffer, DeleteOffer, ImportOffer,
       Refuse, Accept, Abort, DeadlockAbort, Work, ReadBack, ReadSource,
       UnsetStart, UnsetRow, InsertCurrent, UpdateTarget, Table
  <1> QED
    BY <1>1, <1>2, <1>3, <1>4, <1>5

(* With one session per user, the statements of all requests amount to the *)
(* atomic operations of OfferBook.                                         *)
THEOREM StatementsImplementBook ==
  ASSUME OneSessionPerUser PROVE Spec => ImplementsBook
  <1>1. Init => Book!Init
    BY DEF Init, Book!Init, Ids, Book!Ids
  <1>2. TypeOK /\ LockInv /\ SwitchInv /\ [Next]_vars => [Book!Next]_rows
    <2> SUFFICES ASSUME TypeOK, LockInv, SwitchInv, Next, rows' # rows
                 PROVE  Book!Next
      BY DEF vars
    <2>1. PICK t \in Sessions : Step(t)
      BY DEF Next, Step
    <2>2. Phase(t) /\ Owner[t] \in Users
      BY OwnerAssumption DEF SwitchInv
    <2>3. \E i \in Ids : \/ Book!Remove(Owner[t], i)
                        \/ \E r \in Row : Book!Put(Owner[t], i, r)
      BY <2>1, <2>2, StepRefines
    <2> QED
      BY <2>2, <2>3 DEF Book!Next, Book!Ids, Ids, Book!Row, Row, Content
  <1>3. Spec => [](TypeOK /\ LockInv /\ SwitchInv)
    BY TypeOKInit, TypeOKStep, LockInvInit, LockInvStep, SwitchInvInit,
       SwitchInvStep, PTL DEF Spec
  <1> QED
    BY <1>1, <1>2, <1>3, PTL DEF Spec, ImplementsBook, Book!Spec

(* The atomic operations keep at most one current offer per user.          *)
LEMMA BookKeepsOneCurrent ==
  AtMostOneCurrent /\ [Book!Next]_rows => AtMostOneCurrent'
  <1> SUFFICES ASSUME AtMostOneCurrent, Book!Next PROVE AtMostOneCurrent'
    BY DEF AtMostOneCurrent, List
  <1> USE DEF Book!Ids, Ids
  <1>1. PICK u \in Users, i \in Ids :
          Book!Remove(u, i) \/ \E r \in Book!Row : Book!Put(u, i, r)
    BY DEF Book!Next
  <1>2. CASE Book!Remove(u, i)
    BY <1>2 DEF Book!Remove, AtMostOneCurrent, List
  <1>3. ASSUME NEW r \in Book!Row, Book!Put(u, i, r) PROVE AtMostOneCurrent'
    <2>1. CASE r.current
      <3>1. /\ r.owner = u /\ r # NoRow
            /\ rows' = [j \in Ids |-> IF j = i THEN r ELSE Book!Demoted(rows[j], u)]
        BY <1>3, <2>1, NoRowAssumption DEF Book!Put, Book!Row, Row, Content
      <3>2. \A v \in Users : \A j \in Ids \ {i} :
              j \in List(v)' /\ rows'[j].current =>
                 v # u /\ j \in List(v) /\ rows[j].current
        BY <3>1 DEF Book!Demoted, List
      <3> QED
        BY <3>1, <3>2 DEF AtMostOneCurrent, List
    <2>2. CASE ~r.current
      <3>1. rows' = [j \in Ids |-> IF j = i THEN r ELSE rows[j]]
        BY <1>3, <2>2 DEF Book!Put
      <3> QED
        BY <2>2, <3>1 DEF AtMostOneCurrent, List
    <2> QED
      BY <2>1, <2>2
  <1> QED
    BY <1>1, <1>2, <1>3

(* "Only one offer can be current at a time", for a user whose requests    *)
(* are sent one after the other.                                           *)
THEOREM OnlyOneCurrent ==
  ASSUME OneSessionPerUser PROVE Spec => []AtMostOneCurrent
  <1>1. Init => AtMostOneCurrent
    BY DEF Init, AtMostOneCurrent, List
  <1>2. Spec => [][Book!Next]_rows
    BY StatementsImplementBook, PTL DEF ImplementsBook, Book!Spec
  <1>3. Spec => Init
    BY DEF Spec
  <1> QED
    BY <1>1, <1>2, <1>3, BookKeepsOneCurrent, PTL

-----------------------------------------------------------------------------
(* Where contents come from.  NoPrivateLeak says it of committed rows; a   *)
(* content passes through a request and a draft before it is committed,    *)
(* and Import trusts that what it read from a public row has been public,  *)
(* so the invariant follows contents through all three.                    *)

(* User u may hold content c: he typed it, or it has been public.          *)
Sourced(c, u) == c[1] = u \/ c \in published

RequestsSourced == \A s \in Sessions : Sourced(req[s].content, Owner[s])

DraftsSourced ==
  \A s \in Sessions, i \in Ids :
     draft[s][i] # NoRow => Sourced(draft[s][i].content, Owner[s])

RowsSourced ==
  \A i \in Ids : rows[i] # NoRow =>
     /\ Sourced(rows[i].content, rows[i].owner)
     /\ rows[i].public => rows[i].content \in published

SourceInv == RequestsSourced /\ DraftsSourced /\ RowsSourced

LEMMA BlankIsOwn ==
  ASSUME NEW s \in Sessions PROVE Blank(s).content[1] = Owner[s]
  BY DEF Blank

LEMMA SourceInvInit == Init => SourceInv
  BY BlankIsOwn DEF Init, SourceInv, RequestsSourced, DraftsSourced, RowsSourced,
     Sourced, NoDraft

(* A request that ends leaves no draft and remembers a blank of its own.   *)
LEMMA AnswerSourced ==
  ASSUME TypeOK, SourceInv, NEW s \in Sessions, NEW status, Answer(s, status),
         published \subseteq published'
  PROVE  RequestsSourced' /\ DraftsSourced'
  <1>1. /\ req' = [req EXCEPT ![s] = Blank(s)]
        /\ draft' = [draft EXCEPT ![s] = NoDraft]
    BY DEF Answer
  <1>2. RequestsSourced'
    BY <1>1, BlankIsOwn DEF TypeOK, SourceInv, RequestsSourced, Sourced
  <1>3. DraftsSourced'
    BY <1>1 DEF TypeOK, SourceInv, DraftsSourced, Sourced, NoDraft
  <1> QED
    BY <1>2, <1>3

(* Committing rows whose contents their owner may hold keeps the table so. *)
LEMMA InstallSourced ==
  ASSUME TypeOK, RowsSourced, NEW f \in [Ids -> Row \cup {NoRow}], Install(f),
         \A i \in Ids : f[i] # NoRow => Sourced(f[i].content, f[i].owner)
  PROVE  RowsSourced' /\ published \subseteq published'
  <1>1. /\ published \subseteq published'
        /\ \A i \in Ids : f[i] # NoRow /\ f[i].public => f[i].content \in published'
    BY DEF Install
  <1>2. \A i \in Ids : rows'[i] = IF f[i] # NoRow THEN f[i] ELSE rows[i]
    BY DEF Install
  <1> QED
    BY <1>1, <1>2 DEF RowsSourced, Sourced

(* A step that leaves table and drafts alone may only bring a request of   *)
(* the session's own content.                                              *)
LEMMA QuietSourced ==
  ASSUME SourceInv, UNCHANGED <<rows, draft, published>>,
         \A s \in Sessions : \/ req'[s].content = req[s].content
                            \/ Sourced(req'[s].content, Owner[s])
  PROVE  SourceInv'
  BY DEF SourceInv, RequestsSourced, DraftsSourced, RowsSourced, Sourced

LEMMA SourceInvStep == TypeOK /\ LockInv /\ SourceInv /\ [Next]_vars => SourceInv'
  <1> SUFFICES ASSUME TypeOK, LockInv, SourceInv, [Next]_vars PROVE SourceInv'
    OBVIOUS
  <1>1. CASE UNCHANGED vars
    BY <1>1, QuietSourced DEF vars
  <1>2. ASSUME NEW s \in Sessions, NEW status, Answer(s, status), UNCHANGED Table
        PROVE  SourceInv'
    BY <1>2, AnswerSourced DEF Table, SourceInv, RowsSourced, Sourced
  <1>3. ASSUME NEW s \in Sessions, Arrive(s) PROVE SourceInv'
    <2>1. UNCHANGED <<rows, draft, published>>
      BY <1>3 DEF Arrive, CreateOffer, UpdateOffer, DeleteOffer, ImportOffer,
                  Refuse, Accept
    <2>2. \/ UNCHANGED req
          \/ \E r \in Request : /\ r.content[1] = Owner[s]
                                /\ req' = [req EXCEPT ![s] = r]
      BY <1>3 DEF Arrive, CreateOffer, UpdateOffer, DeleteOffer, ImportOffer,
                  Refuse, Accept, Input
    <2> QED
      BY <2>1, <2>2, QuietSourced DEF TypeOK, Sourced
  <1>4. ASSUME NEW s \in Sessions, Work(s) PROVE SourceInv'
    <2>0. /\ RowOf(s) \in Row /\ RowOf(s).owner = Owner[s]
          /\ RowOf(s).content = req[s].content
          /\ Sourced(RowOf(s).content, Owner[s])
      BY RowOfType DEF RowOf, SourceInv, RequestsSourced
    <2>1. ASSUME NEW i \in Ids, Install(Only(i, RowOf(s)))
          PROVE  RowsSourced' /\ published \subseteq published'
      <3>1. Only(i, RowOf(s)) \in [Ids -> Row \cup {NoRow}]
        BY <2>0, OnlyType
      <3>2. \A j \in Ids : Only(i, RowOf(s))[j] # NoRow =>
                             Only(i, RowOf(s))[j] = RowOf(s)
        BY DEF Only, NoDraft
      <3> QED
        BY <2>0, <2>1, <3>1, <3>2, InstallSourced DEF SourceInv
    <2>2. CASE Insert(s) /\ nextId \in Ids
      <3>1. Install(Only(nextId, RowOf(s))) /\ \E status : Answer(s, status)
        BY <2>2 DEF Insert, Report
      <3> QED
        BY <2>1, <2>2, <3>1, AnswerSourced DEF SourceInv
    <2>3. CASE Update(s) /\ req[s].id \in List(Owner[s])
      <3>1. Install(Only(req[s].id, RowOf(s))) /\ UNCHANGED <<req, draft>>
        BY <2>3 DEF Update
      <3>2. RowsSourced' /\ published \subseteq published'
        BY <2>1, <2>3, <3>1 DEF List
      <3> QED
        BY <3>1, <3>2 DEF SourceInv, RequestsSourced, DraftsSourced, Sourced
    <2>4. CASE Delete(s) /\ req[s].id \in List(Owner[s])
      <3>1. /\ rows' = [rows EXCEPT ![req[s].id] = NoRow]
            /\ UNCHANGED published
            /\ \E status : Answer(s, status)
        BY <2>4 DEF Delete, Report
      <3>2. RowsSourced'
        BY <3>1 DEF TypeOK, SourceInv, RowsSourced, Sourced
      <3> QED
        BY <3>1, <3>2, AnswerSourced DEF SourceInv
    <2>5. CASE ReadSource(s) /\ GetPublicByID(req[s].id)
      <3> DEFINE c == rows[req[s].id].content
      <3>1. /\ req' = [req EXCEPT ![s] = CopyOf(c, @)]
            /\ UNCHANGED <<rows, draft, published>>
        BY <2>5 DEF ReadSource, Table
      <3>2. c \in published
        BY <2>5 DEF GetPublicByID, ListPublic, SourceInv, RowsSourced
      <3>3. CopyOf(c, req[s]).content = c
        BY DEF CopyOf, TypeOK, Request
      <3> HIDE DEF c
      <3>4. \A t \in Sessions : req'[t] = IF t = s THEN CopyOf(c, req[s]) ELSE req[t]
        BY <3>1 DEF TypeOK
      <3> QED
        BY <3>1, <3>2, <3>3, <3>4, QuietSourced DEF Sourced
    <2>6. CASE UnsetStart(s)
      BY <2>6, QuietSourced DEF UnsetStart
    <2>7. CASE UnsetRow(s)
      <3>1. PICK i \in todo[s] :
              draft' = [draft EXCEPT ![s] = [@ EXCEPT ![i] =
                          IF rows[i] = NoRow THEN NoRow ELSE Lowered(rows[i])]]
        BY <2>7 DEF UnsetRow
      <3>2. i \in Ids /\ rows[i] \in Row \cup {NoRow}
        BY DEF TypeOK
      <3>3. rows[i] # NoRow => /\ Lowered(rows[i]).content = rows[i].content
                              /\ Sourced(rows[i].content, Owner[s])
        BY <3>2 DEF Row, Lowered, LockInv, OwnRows, SourceInv, RowsSourced
      <3>4. \A t \in Sessions, j \in Ids : draft'[t][j] =
              IF t = s /\ j = i
                THEN IF rows[i] = NoRow THEN NoRow ELSE Lowered(rows[i])
                ELSE draft[t][j]
        BY <3>1, <3>2 DEF TypeOK
      <3>5. UNCHANGED <<rows, req, published>>
        BY <2>7 DEF UnsetRow
      <3>6. DraftsSourced'
        BY <3>3, <3>4, <3>5 DEF SourceInv, DraftsSourced, Sourced
      <3> QED
        BY <3>5, <3>6 DEF SourceInv, RequestsSourced, RowsSourced, Sourced
    <2>8. ASSUME NEW i \in Ids, draft' = [draft EXCEPT ![s] = [@ EXCEPT ![i] = RowOf(s)]],
                 UNCHANGED <<rows, req, published>>
          PROVE  SourceInv'
      <3>1. \A t \in Sessions, j \in Ids : draft'[t][j] =
              IF t = s /\ j = i THEN RowOf(s) ELSE draft[t][j]
        BY <2>8 DEF TypeOK
      <3>2. DraftsSourced'
        BY <2>0, <2>8, <3>1 DEF SourceInv, DraftsSourced, Sourced
      <3> QED
        BY <2>8, <3>2 DEF SourceInv, RequestsSourced, RowsSourced, Sourced
    <2>9. CASE InsertCurrent(s) /\ nextId \in Ids
      BY <2>8, <2>9 DEF InsertCurrent, Table
    <2>10. CASE UpdateTarget(s) /\ req[s].id \in List(Owner[s])
      <3>1. req[s].id \in Ids
        BY <2>10 DEF List
      <3> QED
        BY <2>8, <2>10, <3>1 DEF UpdateTarget, Table
    <2>11. CASE Commit(s)
      <3>1. Install(draft[s]) /\ \E status : Answer(s, status)
        BY <2>11 DEF Commit, Report
      <3>2. draft[s] \in [Ids -> Row \cup {NoRow}]
        BY DEF TypeOK
      <3>3. \A i \in Ids : draft[s][i] # NoRow =>
                             Sourced(draft[s][i].content, draft[s][i].owner)
        BY DEF LockInv, LocksStayHome, SourceInv, DraftsSourced
      <3>4. RowsSourced' /\ published \subseteq published'
        BY <3>1, <3>2, <3>3, InstallSourced DEF SourceInv
      <3> QED
        BY <3>1, <3>4, AnswerSourced DEF SourceInv
    <2>12. CASE \/ Insert(s) /\ nextId \notin Ids
                \/ InsertCurrent(s) /\ nextId \notin Ids
                \/ Update(s) /\ req[s].id \notin List(Owner[s])
                \/ Delete(s) /\ req[s].id \notin List(Owner[s])
                \/ UpdateTarget(s) /\ req[s].id \notin List(Owner[s])
                \/ ReadSource(s) /\ ~GetPublicByID(req[s].id)
                \/ ReadBack(s)
      BY <1>2, <2>12 DEF Insert, InsertCurrent, Update, Delete, UpdateTarget,
                         ReadSource, ReadBack
    <2> QED
      BY <1>4, <2>2, <2>3, <2>4, <2>5, <2>6, <2>7, <2>9, <2>10, <2>11, <2>12
      DEF Work
  <1>5. ASSUME NEW s \in Sessions, Abort(s) \/ DeadlockAbort(s) PROVE SourceInv'
    BY <1>2, <1>5 DEF Abort, DeadlockAbort
  <1> QED
    BY <1>1, <1>3, <1>4, <1>5 DEF Next

(* ImportOffer never copies the content of an offer that was private all   *)
(* along, whatever updates, deletions and transactions of any number of    *)
(* sessions run between its two statements.                                *)
THEOREM NothingPrivateLeaks == Spec => []NoPrivateLeak
  <1>1. SourceInv => NoPrivateLeak
    BY DEF SourceInv, RowsSourced, Sourced, NoPrivateLeak, List
  <1> QED
    BY <1>1, LockInvariant, SourceInvInit, SourceInvStep, PTL DEF Spec

-----------------------------------------------------------------------------
(* A switch keeps a current offer, however many tabs its user has open:    *)
(* whatever a transaction has locked and lowered, what it is about to      *)
(* commit holds the requested row, and that row is current.                *)

Switches(s) ==
  /\ pc[s] \in {"begin", "unset", "commit"} => req[s].current
  /\ pc[s] = "commit" => \E k \in Ids : draft[s][k] = RowOf(s)

SwitchesInv == \A s \in Sessions : Switches(s)

LEMMA SwitchesInvInit == Init => SwitchesInv
  BY DEF Init, SwitchesInv, Switches

(* The session's own step.                                                 *)
LEMMA SwitchesOwnStep ==
  ASSUME TypeOK, NEW s \in Sessions, Switches(s), Step(s)
  PROVE  Switches(s)'
  <1>1. ASSUME NEW status, Answer(s, status) PROVE Switches(s)'
    BY <1>1 DEF TypeOK, Answer, Switches
  <1>2. CASE Arrive(s)
    BY <1>2 DEF Arrive, CreateOffer, UpdateOffer, DeleteOffer, ImportOffer,
                Refuse, Accept, Goto, TypeOK, Switches
  <1>3. CASE Abort(s) \/ DeadlockAbort(s)
    BY <1>1, <1>3 DEF Abort, DeadlockAbort
  <1>4. CASE Insert(s) \/ ReadBack(s) \/ Delete(s) \/ Commit(s)
    BY <1>1, <1>4 DEF Report, Insert, ReadBack, Delete, Commit
  <1>5. CASE Update(s)
    BY <1>1, <1>5 DEF Update, Goto, Switches, TypeOK
  <1>6. CASE ReadSource(s)
    BY <1>1, <1>6 DEF ReadSource, Goto, Switches, TypeOK
  <1>7. CASE UnsetStart(s)
    BY <1>7 DEF UnsetStart, Goto, Switches, TypeOK
  <1>8. CASE UnsetRow(s)
    BY <1>8 DEF UnsetRow, Switches
  <1>9. ASSUME NEW i \in Ids, pc[s] = "unset", Goto(s, "commit"), UNCHANGED req,
               draft' = [draft EXCEPT ![s] = [@ EXCEPT ![i] = RowOf(s)]]
        PROVE  Switches(s)'
    <2>1. draft'[s][i] = RowOf(s) /\ RowOf(s)' = RowOf(s)
      BY <1>9 DEF TypeOK, RowOf
    <2> QED
      BY <1>9, <2>1 DEF Switches
  <1>10. CASE InsertCurrent(s)
    BY <1>1, <1>9, <1>10 DEF InsertCurrent, UnsetDone
  <1>11. CASE UpdateTarget(s)
    <2>1. req[s].id \in Ids
      BY DEF TypeOK, Request
    <2> QED
      BY <1>1, <1>9, <1>11, <2>1 DEF UpdateTarget, UnsetDone
  <1> QED
    BY <1>2, <1>3, <1>4, <1>5, <1>6, <1>7, <1>8, <1>10, <1>11 DEF Step, Work

LEMMA SwitchesInvStep == TypeOK /\ LockInv /\ SwitchesInv /\ [Next]_vars => SwitchesInv'
  <1> SUFFICES ASSUME TypeOK, LockInv, SwitchesInv, [Next]_vars PROVE SwitchesInv'
    OBVIOUS
  <1>1. CASE UNCHANGED vars
    BY <1>1 DEF vars, SwitchesInv, Switches, RowOf
  <1>2. CASE Next
    <2>1. PICK t \in Sessions : Step(t)
      BY <1>2 DEF Next, Step
    <2>2. Frame(t)
      BY <2>1, StepFrame
    <2>3. ASSUME NEW s \in Sessions PROVE Switches(s)'
      <3>1. CASE s = t
        BY <2>1, <3>1, SwitchesOwnStep DEF SwitchesInv
      <3>2. CASE s # t
        BY <2>2, <3>2 DEF Frame, SwitchesInv, Switches, RowOf
      <3> QED
        BY <3>1, <3>2
    <2> QED
      BY <2>3 DEF SwitchesInv
  <1> QED
    BY <1>1, <1>2

(* A user who has a current offer is left without only by his own plain    *)
(* update or deletion: CreateAsCurrent and UpdateAsCurrent, whether they   *)
(* commit, fail or race with each other, keep one.                         *)
THEOREM SwitchingKeepsOne == Spec => SwitchKeepsCurrent
  <1> DEFINE Loses(u) == HasCurrent(u) /\ ~HasCurrent(u)'
             Excused(u) == \E s \in Sessions : /\ Owner[s] = u /\ pc'[s] # pc[s]
                                              /\ pc[s] \in {"update", "delete"}
  <1>1. ASSUME TypeOK, LockInv, SwitchesInv, Next, NEW u \in Users, Loses(u)
        PROVE  Excused(u)
    <2>1. PICK t \in Sessions : Step(t)
      BY <1>1 DEF Next, Step
    <2>2. Frame(t)
      BY <1>1, <2>1, StepFrame
    <2>3. PICK i \in Ids : i \in List(u) /\ rows[i].current
      BY <1>1 DEF HasCurrent, List
    <2>4. rows'[i] # rows[i]
      BY <1>1, <2>3 DEF HasCurrent, List
    <2>5. Owner[t] = u /\ pc'[t] # pc[t]
      BY <2>2, <2>3, <2>4 DEF Frame, List
    <2>6. ~Insert(t)
      <3> SUFFICES ASSUME Insert(t) PROVE FALSE
        OBVIOUS
      <3>1. nextId \in Ids /\ rows' = [j \in Ids |-> IF Only(nextId, RowOf(t))[j] # NoRow
                                 THEN Only(nextId, RowOf(t))[j] ELSE rows[j]]
        BY <2>4 DEF Insert, Install, Table
      <3>2. i = nextId
        BY <2>4, <3>1 DEF Only, NoDraft
      <3>3. nextId \in Nat
        BY <1>1, MaxIdAssumption DEF TypeOK
      <3>4. rows[nextId] = NoRow
        BY <1>1, <3>1, <3>3 DEF LockInv, FreshIds
      <3> QED
        BY <2>3, <3>2, <3>4 DEF List
    <2>7. ~Commit(t)
      <3> SUFFICES ASSUME Commit(t) PROVE FALSE
        OBVIOUS
      <3>1. pc[t] = "commit" /\ rows' = [j \in Ids |-> IF draft[t][j] # NoRow
                                            THEN draft[t][j] ELSE rows[j]]
        BY DEF Commit, Install
      <3>2. PICK k \in Ids : draft[t][k] = RowOf(t)
        BY <1>1, <3>1 DEF SwitchesInv, Switches
      <3>3. RowOf(t) # NoRow /\ RowOf(t).owner = u /\ RowOf(t).current
        BY <1>1, <2>5, <3>1, RowOfType, NoRowAssumption DEF SwitchesInv, Switches, RowOf
      <3>4. rows'[k] = RowOf(t)
        BY <3>1, <3>2, <3>3
      <3> QED
        BY <1>1, <3>3, <3>4 DEF HasCurrent, List
    <2>8. Update(t) \/ Delete(t)
      BY <2>1, <2>4, <2>6, <2>7 DEF Step, Arrive, CreateOffer, UpdateOffer, DeleteOffer,
         ImportOffer, Refuse, Accept, Abort, DeadlockAbort, Work, ReadBack, ReadSource,
         UnsetStart, UnsetRow, InsertCurrent, UpdateTarget, Table
    <2> QED
      BY <2>5, <2>8 DEF Update, Delete
  <1>2. ASSUME UNCHANGED vars, NEW u \in Users, Loses(u) PROVE FALSE
    BY <1>2 DEF vars, HasCurrent, List
  <1>3. TypeOK /\ LockInv /\ SwitchesInv /\ [Next]_vars =>
           [\A u \in Users : HasCurrent(u) /\ ~HasCurrent(u)' =>
              \E s \in Sessions : /\ Owner[s] = u /\ pc'[s] # pc[s]
                                   /\ pc[s] \in {"update", "delete"}]_vars
    BY <1>1, <1>2
  <1>4. Spec => [](TypeOK /\ LockInv /\ SwitchesInv)
    BY LockInvariant, SwitchesInvInit, SwitchesInvStep, PTL DEF Spec
  <1> QED
    BY <1>3, <1>4, PTL DEF Spec, SwitchKeepsCurrent

-----------------------------------------------------------------------------
(* A 404 tells the truth when every user has one session.  With two, the   *)
(* other tab may delete the row between the UPDATE and the read-back.      *)

(* A request in flight has no answer yet and has written nothing before    *)
(* its read-back; the row that reads is the one the Update wrote.          *)
Truthful(s) ==
  /\ resp[s] = "notFound" => ~wrote[s]
  /\ pc[s] # "idle" => resp[s] = "none"
  /\ pc[s] \notin {"idle", "readback"} => ~wrote[s]
  /\ pc[s] = "readback" => req[s].id \in List(Owner[s])

TruthInv == \A s \in Sessions : Truthful(s)

LEMMA TruthInvInit == Init => TruthInv
  BY DEF Init, TruthInv, Truthful

(* An answer other than 404 may be given at any time; a 404 only by a      *)
(* request that has written nothing.                                       *)
LEMMA AnswerTruthful ==
  ASSUME TypeOK, NEW s \in Sessions, NEW status, Answer(s, status),
         status = "notFound" => ~wrote'[s]
  PROVE  Truthful(s)'
  BY DEF TypeOK, Answer, Truthful

LEMMA TruthOwnStep ==
  ASSUME TypeOK, NEW s \in Sessions, Truthful(s), Step(s)
  PROVE  Truthful(s)'
  <1>1. CASE Arrive(s)
    BY <1>1 DEF Arrive, CreateOffer, UpdateOffer, DeleteOffer, ImportOffer,
                Refuse, Accept, Goto, TypeOK, Truthful
  <1>2. ASSUME NEW status, Answer(s, status), pc[s] \notin {"idle", "readback"},
               UNCHANGED wrote
        PROVE  Truthful(s)'
    BY <1>2, AnswerTruthful DEF Truthful
  <1>3. ASSUME NEW status \in {"ok", "error"}, Answer(s, status) PROVE Truthful(s)'
    BY <1>3, AnswerTruthful
  <1>4. CASE Abort(s) \/ DeadlockAbort(s)
    BY <1>3, <1>4 DEF Abort, DeadlockAbort
  <1>5. CASE Insert(s) \/ Commit(s)
    BY <1>3, <1>5 DEF Insert, Commit, Report
  <1>6. CASE Update(s) /\ req[s].id \in List(Owner[s])
    <2>1. /\ rows' = [j \in Ids |-> IF Only(req[s].id, RowOf(s))[j] # NoRow
                             THEN Only(req[s].id, RowOf(s))[j] ELSE rows[j]]
          /\ pc' = [pc EXCEPT ![s] = "readback"] /\ pc[s] = "update"
          /\ UNCHANGED <<req, resp>>
      BY <1>6 DEF Update, Install, Goto
    <2>2. RowOf(s) # NoRow /\ RowOf(s).owner = Owner[s]
      BY RowOfType, NoRowAssumption
    <2>3. (req[s].id \in List(Owner[s]))'
      BY <1>6, <2>1, <2>2 DEF Only, NoDraft, List
    <2>4. resp[s] # "notFound"
      BY <2>1 DEF Truthful
    <2> QED
      BY <2>1, <2>3, <2>4 DEF Truthful, TypeOK
  <1>7. CASE Update(s) /\ req[s].id \notin List(Owner[s])
    BY <1>2, <1>7 DEF Update
  <1>8. CASE ReadBack(s)
    BY <1>3, <1>8 DEF ReadBack, Truthful, GetByID
  <1>9. CASE Delete(s)
    BY <1>2, <1>3, <1>9 DEF Delete, Report
  <1>10. CASE ReadSource(s)
    BY <1>2, <1>10 DEF ReadSource, Goto, Truthful, TypeOK
  <1>11. CASE UnsetStart(s) \/ UnsetRow(s)
    BY <1>11 DEF UnsetStart, UnsetRow, Goto, Truthful, TypeOK
  <1>12. CASE InsertCurrent(s) \/ UpdateTarget(s)
    BY <1>2, <1>12 DEF InsertCurrent, UpdateTarget, UnsetDone, Goto, Truthful, TypeOK
  <1> QED
    BY <1>1, <1>4, <1>5, <1>6, <1>7, <1>8, <1>9, <1>10, <1>11, <1>12 DEF Step, Work

(* A step leaves the answers of the other sessions alone.                  *)
LEMMA AnswersFrame ==
  ASSUME TypeOK, NEW t \in Sessions, Step(t), NEW s \in Sessions, s # t
  PROVE  resp'[s] = resp[s] /\ wrote'[s] = wrote[s]
  <1>1. \/ resp' = resp
        \/ \E status : resp' = [resp EXCEPT ![t] = status]
    BY DEF Step, Arrive, CreateOffer, UpdateOffer, DeleteOffer, ImportOffer, Refuse,
       Accept, Abort, DeadlockAbort, Work, Insert, Update, ReadBack, Delete, ReadSource,
       UnsetStart, UnsetRow, InsertCurrent, UpdateTarget, Commit, Report, Answer
  <1>2. \/ wrote' = wrote
        \/ \E b : wrote' = [wrote EXCEPT ![t] = b]
    BY DEF Step, Arrive, CreateOffer, UpdateOffer, DeleteOffer, ImportOffer, Refuse,
       Accept, Abort, DeadlockAbort, Work, Insert, Update, ReadBack, Delete, ReadSource,
       UnsetStart, UnsetRow, InsertCurrent, UpdateTarget, Commit
  <1> QED
    BY <1>1, <1>2 DEF TypeOK

LEMMA TruthInvStep ==
  ASSUME OneSessionPerUser
  PROVE  TypeOK /\ LockInv /\ TruthInv /\ [Next]_vars => TruthInv'
  <1> SUFFICES ASSUME TypeOK, LockInv, TruthInv, [Next]_vars PROVE TruthInv'
    OBVIOUS
  <1>1. CASE UNCHANGED vars
    BY <1>1 DEF vars, TruthInv, Truthful, List
  <1>2. CASE Next
    <2>1. PICK t \in Sessions : Step(t)
      BY <1>2 DEF Next, Step
    <2>2. Frame(t)
      BY <2>1, StepFrame
    <2>3. ASSUME NEW s \in Sessions PROVE Truthful(s)'
      <3>1. CASE s = t
        BY <2>1, <3>1, TruthOwnStep DEF TruthInv
      <3>2. CASE s # t
        <4>1. Owner[s] # Owner[t]
          BY <3>2 DEF OneSessionPerUser
        <4>2. \A i \in List(Owner[s]) : rows'[i] = rows[i]
          BY <2>2, <4>1 DEF Frame, List
        <4>3. pc'[s] = pc[s] /\ req'[s] = req[s]
          BY <2>2, <3>2 DEF Frame
        <4>4. resp'[s] = resp[s] /\ wrote'[s] = wrote[s]
          BY <2>1, <3>2, AnswersFrame
        <4> QED
          BY <4>2, <4>3, <4>4 DEF TruthInv, Truthful, List
      <3> QED
        BY <3>1, <3>2
    <2> QED
      BY <2>3 DEF TruthInv
  <1> QED
    BY <1>1, <1>2

(* The request that was answered 404 has changed nothing: the unset of a   *)
(* failed UpdateAsCurrent is rolled back, and the read-back of an Update   *)
(* finds the row it wrote.                                                 *)
THEOREM NotFoundIsTrue ==
  ASSUME OneSessionPerUser PROVE Spec => []NotFoundWroteNothing
  <1>1. TruthInv => NotFoundWroteNothing
    BY DEF TruthInv, Truthful, NotFoundWroteNothing
  <1> QED
    BY <1>1, LockInvariant, TruthInvInit, TruthInvStep, PTL DEF Spec

=============================================================================
