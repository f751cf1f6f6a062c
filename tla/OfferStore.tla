----------------------------- MODULE OfferStore -----------------------------
(***************************************************************************)
(* The offers table and the request handlers that write it: the handler,   *)
(* service and repository layers of pkg/ as one state machine per request, *)
(* one step per SQL statement, on PostgreSQL's READ COMMITTED isolation    *)
(* (the level BeginTx(ctx, nil) and autocommit statements get).            *)
(*                                                                         *)
(* A session is one client that sends its next request when it has the     *)
(* answer to the last.  Several sessions may be of one user (two tabs, two *)
(* devices).  What the properties do not tell apart is abstracted: prices, *)
(* names and notes are one value, tagged with the user who typed it.       *)
(*                                                                         *)
(* An operator named Bug_X is the definition X with a plausible mistake in *)
(* the code it models; nothing uses it but the experiments that show which *)
(* property would notice that mistake.                                     *)
(***************************************************************************)
EXTENDS Naturals, FiniteSets

CONSTANTS Sessions,     \* clients, each with at most one request in flight
          Users,        \* accounts
          Owner,        \* the account each session is logged in to
          Values,       \* what a user can type into an offer's fields
          MaxId,        \* last value of the sequence behind offers.id
          NoRow         \* "no such row"

Ids == 1..MaxId
Content == Users \X Values
Row == [owner: Users, content: Content, current: BOOLEAN, public: BOOLEAN]
Request == [op: {"create", "update", "delete", "import"}, id: Ids,
            content: Content, current: BOOLEAN, public: BOOLEAN]
Status == {"none", "ok", "notFound", "invalid", "error"}

ASSUME OwnerAssumption == Owner \in [Sessions -> Users]
ASSUME MaxIdAssumption == MaxId \in Nat \ {0}
ASSUME NoRowAssumption == NoRow \notin Row
ASSUME ValuesAssumption == Values # {}

VARIABLES rows,       \* committed table: id -> row or NoRow
          nextId,     \* the sequence; it never goes back, rollbacks included
          pc,         \* the statement each session's request is at
          req,        \* the request's input
          todo,       \* ids the running unset statement has still to visit
          draft,      \* rows a transaction has locked, as it will commit them
          resp,       \* last answer of each session
          wrote,      \* history: the request in flight has committed a write
          published   \* history: contents that some public row has had

vars == <<rows, nextId, pc, req, todo, draft, resp, wrote, published>>

-----------------------------------------------------------------------------
(* Reading the committed table *)

(* A session between requests remembers none. *)
Blank(s) == [op |-> "delete", id |-> 1,
             content |-> <<Owner[s], CHOOSE v \in Values : TRUE>>,
             current |-> FALSE, public |-> FALSE]

NoDraft == [i \in Ids |-> NoRow]

List(u) == {i \in Ids : rows[i] # NoRow /\ rows[i].owner = u}
GetByID(i, u) == i \in List(u)
ListPublic == {i \in Ids : rows[i] # NoRow /\ rows[i].public}
Bug_GetPublicByID(i) == \E u \in Users : i \in List(u)   \* no is_public test
GetPublicByID(i) == i \in ListPublic

(* Row locks.  A row updated by a transaction stays locked to its end.     *)
Free(s, i) == \A t \in Sessions \ {s} : draft[t][i] = NoRow

RowOf(s) == [owner |-> Owner[s], content |-> req[s].content,
             current |-> req[s].current, public |-> req[s].public]

-----------------------------------------------------------------------------
(* Parts of actions *)

(* Commit the rows of f (NoRow: row untouched).                            *)
Install(f) ==
  /\ rows' = [i \in Ids |-> IF f[i] # NoRow THEN f[i] ELSE rows[i]]
  /\ published' = published \cup
       {f[i].content : i \in {j \in Ids : f[j] # NoRow /\ f[j].public}}

(* No deferred Rollback. *)
Bug_Answer(s, status) ==
  /\ pc' = [pc EXCEPT ![s] = "idle"]
  /\ resp' = [resp EXCEPT ![s] = status]
  /\ todo' = [todo EXCEPT ![s] = {}]
  /\ req' = [req EXCEPT ![s] = Blank(s)]
  /\ UNCHANGED draft

(* The request ends; whatever its transaction still held is released.      *)
Answer(s, status) ==
  /\ pc' = [pc EXCEPT ![s] = "idle"]
  /\ resp' = [resp EXCEPT ![s] = status]
  /\ todo' = [todo EXCEPT ![s] = {}]
  /\ draft' = [draft EXCEPT ![s] = NoDraft]
  /\ req' = [req EXCEPT ![s] = Blank(s)]

(* A write is committed; the connection or the client may be gone before   *)
(* its outcome is known, and then the answer is the error's.               *)
Report(s) == \E status \in {"ok", "error"} : Answer(s, status)

Goto(s, label) == pc' = [pc EXCEPT ![s] = label]

Table == <<rows, published>>

Only(i, r) == [NoDraft EXCEPT ![i] = r]

-----------------------------------------------------------------------------
(* Requests arriving at the handlers *)

Accept(s, r, label) ==
  /\ pc[s] = "idle"
  /\ req' = [req EXCEPT ![s] = r]
  /\ resp' = [resp EXCEPT ![s] = "none"]
  /\ wrote' = [wrote EXCEPT ![s] = FALSE]
  /\ Goto(s, label)
  /\ UNCHANGED <<rows, nextId, todo, draft, published>>

Input(s, op) == {r \in Request : r.op = op /\ r.content[1] = Owner[s]}

(* CreateAsCurrent never called. *)
Bug_CreateOffer(s) ==
  \E r \in {q \in Input(s, "create") : q.id = 1} : Accept(s, r, "insert")

CreateOffer(s) ==
  \E r \in {q \in Input(s, "create") : q.id = 1} :
     Accept(s, r, IF r.current THEN "begin" ELSE "insert")

UpdateOffer(s) ==
  \E r \in Input(s, "update") :
     Accept(s, r, IF r.current THEN "begin" ELSE "update")

DeleteOffer(s) ==
  \E r \in {q \in Input(s, "delete") : ~q.current /\ ~q.public} :
     Accept(s, r, "delete")

ImportOffer(s) ==
  \E r \in {q \in Input(s, "import") : ~q.current /\ ~q.public} :
     Accept(s, r, "source")

(* A malformed id or body, or input that fails validation, is answered     *)
(* before any statement runs.                                              *)
Refuse(s) ==
  /\ pc[s] = "idle"
  /\ resp' = [resp EXCEPT ![s] = "invalid"]
  /\ wrote' = [wrote EXCEPT ![s] = FALSE]
  /\ UNCHANGED <<rows, nextId, pc, req, todo, draft, published>>

-----------------------------------------------------------------------------
(* Autocommitted statements *)

(* INSERT; the sequence running out is an error of the statement.          *)
Insert(s) ==
  /\ pc[s] \in {"insert", "copy"}
  /\ IF nextId \in Ids
       THEN /\ Install(Only(nextId, RowOf(s)))
            /\ nextId' = nextId + 1
            /\ wrote' = [wrote EXCEPT ![s] = TRUE]
            /\ Report(s)
       ELSE /\ Answer(s, "error")
            /\ UNCHANGED <<Table, nextId, wrote>>

(* UPDATE ... WHERE id AND user_id, waiting for the row's lock.            *)
Update(s) ==
  /\ pc[s] = "update"
  /\ LET i == req[s].id IN
     IF i \in List(Owner[s])
       THEN /\ Free(s, i)
            /\ Install(Only(i, RowOf(s)))
            /\ wrote' = [wrote EXCEPT ![s] = TRUE]
            /\ Goto(s, "readback")
            /\ UNCHANGED <<nextId, req, todo, draft, resp>>
       ELSE /\ Answer(s, "notFound")
            /\ UNCHANGED <<Table, nextId, wrote>>

(* The separate SELECT that builds the answer to an Update.                *)
ReadBack(s) ==
  /\ pc[s] = "readback"
  /\ Answer(s, IF GetByID(req[s].id, Owner[s]) THEN "ok" ELSE "notFound")
  /\ UNCHANGED <<Table, nextId, wrote>>

Delete(s) ==
  /\ pc[s] = "delete"
  /\ LET i == req[s].id IN
     IF i \in List(Owner[s])
       THEN /\ Free(s, i)
            /\ rows' = [rows EXCEPT ![i] = NoRow]
            /\ wrote' = [wrote EXCEPT ![s] = TRUE]
            /\ Report(s)
            /\ UNCHANGED <<nextId, published>>
       ELSE /\ Answer(s, "notFound")
            /\ UNCHANGED <<Table, nextId, wrote>>

(* Import reads the public source in one statement and inserts the copy in *)
(* a later one; the copy is the requester's, private and not current.      *)
CopyOf(c, r) == [r EXCEPT !.content = c, !.current = FALSE, !.public = FALSE]

ReadSource(s) ==
  /\ pc[s] = "source"
  /\ IF GetPublicByID(req[s].id)
       THEN /\ req' = [req EXCEPT ![s] = CopyOf(rows[req[s].id].content, @)]
            /\ Goto(s, "copy")
            /\ UNCHANGED <<todo, draft, resp>>
       ELSE Answer(s, "notFound")
  /\ UNCHANGED <<Table, nextId, wrote>>

-----------------------------------------------------------------------------
(* CreateAsCurrent and UpdateAsCurrent: one transaction                    *)

(* The unset not scoped by user_id. *)
Bug_UnsetStart(s) ==
  /\ pc[s] = "begin"
  /\ todo' = [todo EXCEPT ![s] = {i \in Ids : rows[i] # NoRow /\ rows[i].current}]
  /\ Goto(s, "unset")
  /\ UNCHANGED <<rows, nextId, req, draft, resp, wrote, published>>

(* UPDATE offers SET is_current = FALSE WHERE is_current AND user_id: the  *)
(* statement works on the rows its snapshot matches.                       *)
UnsetStart(s) ==
  /\ pc[s] = "begin"
  /\ todo' = [todo EXCEPT ![s] = {i \in List(Owner[s]) : rows[i].current}]
  /\ Goto(s, "unset")
  /\ UNCHANGED <<rows, nextId, req, draft, resp, wrote, published>>

Lowered(r) == [r EXCEPT !.current = FALSE]

(* One row of that statement: wait for its lock, then act on its newest    *)
(* committed version; a row deleted meanwhile is skipped.                  *)
UnsetRow(s) ==
  /\ pc[s] = "unset"
  /\ \E i \in todo[s] :
       /\ Free(s, i)
       /\ todo' = [todo EXCEPT ![s] = @ \ {i}]
       /\ draft' = [draft EXCEPT ![s][i] =
                      IF rows[i] = NoRow THEN NoRow ELSE Lowered(rows[i])]
  /\ UNCHANGED <<rows, nextId, pc, req, resp, wrote, published>>

Bug_UnsetDone(s) == pc[s] = "unset"      \* the unset left out or unfinished
UnsetDone(s) == pc[s] = "unset" /\ todo[s] = {}

(* The INSERT of CreateAsCurrent.                                          *)
InsertCurrent(s) ==
  /\ UnsetDone(s)
  /\ req[s].op = "create"
  /\ IF nextId \in Ids
       THEN /\ draft' = [draft EXCEPT ![s][nextId] = RowOf(s)]
            /\ nextId' = nextId + 1
            /\ Goto(s, "commit")
            /\ UNCHANGED <<req, todo, resp>>
       ELSE Answer(s, "error") /\ UNCHANGED nextId
  /\ UNCHANGED <<Table, wrote>>

(* The unset committed although the target is not found. *)
Bug_UpdateTarget(s) ==
  /\ UnsetDone(s)
  /\ req[s].op = "update"
  /\ LET i == req[s].id IN
     IF i \in List(Owner[s])
       THEN /\ Free(s, i)
            /\ draft' = [draft EXCEPT ![s][i] = RowOf(s)]
            /\ Goto(s, "commit")
            /\ UNCHANGED <<req, todo, resp, Table, wrote>>
       ELSE /\ Install(draft[s])
            /\ wrote' = [wrote EXCEPT ![s] = draft[s] # NoDraft]
            /\ Answer(s, "notFound")
  /\ UNCHANGED nextId

(* The UPDATE of UpdateAsCurrent and the SELECT after it, which reads what *)
(* the transaction itself wrote.  No row: the deferred Rollback undoes the *)
(* unset.                                                                  *)
UpdateTarget(s) ==
  /\ UnsetDone(s)
  /\ req[s].op = "update"
  /\ LET i == req[s].id IN
     IF i \in List(Owner[s])
       THEN /\ Free(s, i)
            /\ draft' = [draft EXCEPT ![s][i] = RowOf(s)]
            /\ Goto(s, "commit")
            /\ UNCHANGED <<req, todo, resp>>
       ELSE Answer(s, "notFound")
  /\ UNCHANGED <<Table, nextId, wrote>>

Commit(s) ==
  /\ pc[s] = "commit"
  /\ Install(draft[s])
  /\ wrote' = [wrote EXCEPT ![s] = TRUE]
  /\ Report(s)
  /\ UNCHANGED nextId

-----------------------------------------------------------------------------
(* Failures *)

(* The client goes away (the request's context is cancelled) or the        *)
(* connection fails: the statement and the transaction are rolled back.    *)
Abort(s) ==
  /\ pc[s] # "idle"
  /\ Answer(s, "error")
  /\ UNCHANGED <<Table, nextId, wrote>>

(* s waits for a row that t has locked.                                    *)
WaitsFor(s, t) ==
  /\ s # t
  /\ \/ /\ pc[s] \in {"update", "delete"}
        /\ req[s].id \in List(Owner[s])
        /\ draft[t][req[s].id] # NoRow
     \/ /\ UnsetDone(s)
        /\ req[s].op = "update"
        /\ req[s].id \in List(Owner[s])
        /\ draft[t][req[s].id] # NoRow
     \/ /\ pc[s] = "unset" /\ todo[s] # {}
        /\ \A i \in todo[s] : ~Free(s, i)
        /\ \E i \in todo[s] : draft[t][i] # NoRow

(* PostgreSQL ends a cycle of waiting transactions by aborting one.        *)
DeadlockAbort(s) ==
  /\ \E D \in SUBSET Sessions :
        s \in D /\ \A d \in D : \E t \in D : WaitsFor(d, t)
  /\ Answer(s, "error")
  /\ UNCHANGED <<Table, nextId, wrote>>

-----------------------------------------------------------------------------
Init ==
  /\ rows = [i \in Ids |-> NoRow]
  /\ nextId = 1
  /\ pc = [s \in Sessions |-> "idle"]
  /\ req = [s \in Sessions |-> Blank(s)]
  /\ todo = [s \in Sessions |-> {}]
  /\ draft = [s \in Sessions |-> NoDraft]
  /\ resp = [s \in Sessions |-> "none"]
  /\ wrote = [s \in Sessions |-> FALSE]
  /\ published = {}

(* The statement a request is at.                                          *)
Work(s) ==
  \/ Insert(s) \/ Update(s) \/ ReadBack(s) \/ Delete(s) \/ ReadSource(s)
  \/ UnsetStart(s) \/ UnsetRow(s) \/ InsertCurrent(s) \/ UpdateTarget(s)
  \/ Commit(s)

Arrive(s) ==
  \/ CreateOffer(s) \/ UpdateOffer(s) \/ DeleteOffer(s) \/ ImportOffer(s)
  \/ Refuse(s)

Next == \E s \in Sessions : Arrive(s) \/ Work(s) \/ Abort(s) \/ DeadlockAbort(s)

Spec == Init /\ [][Next]_vars

(* Go and PostgreSQL keep running a request that can take its next step;   *)
(* row locks are granted in the order they were asked for, so a request    *)
(* is not overtaken for ever; the deadlock detector runs.                  *)
Fairness == \A s \in Sessions : SF_vars(Work(s)) /\ WF_vars(DeadlockAbort(s))
FairSpec == Spec /\ Fairness

-----------------------------------------------------------------------------
(* Properties *)

(* Every variable stays in its type; in particular no draft names a row    *)
(* the table could not hold.                                               *)
TypeOK ==
  /\ rows \in [Ids -> Row \cup {NoRow}]
  /\ nextId \in 1..(MaxId + 1)
  /\ pc \in [Sessions -> {"idle", "insert", "begin", "unset", "commit",
                          "update", "readback", "delete", "source", "copy"}]
  /\ req \in [Sessions -> Request]
  /\ todo \in [Sessions -> SUBSET Ids]
  /\ draft \in [Sessions -> [Ids -> Row \cup {NoRow}]]
  /\ resp \in [Sessions -> Status]
  /\ wrote \in [Sessions -> BOOLEAN]
  /\ published \subseteq Content

(* "Only one offer can be current at a time" (domain/offer.go): committed  *)
(* state never has two current offers of one user.                         *)
AtMostOneCurrent ==
  \A u \in Users : \A i, j \in List(u) :
     rows[i].current /\ rows[j].current => i = j

(* What a user's table holds was typed by him or had been made public by   *)
(* somebody: ImportOffer never copies the content of an offer that was     *)
(* private all along, whatever updates race with its two statements.       *)
NoPrivateLeak ==
  \A u \in Users : \A i \in List(u) :
     rows[i].content[1] = u \/ rows[i].content \in published

(* A 404 tells the truth: the request that got it has changed nothing (the *)
(* unset of a failed UpdateAsCurrent is rolled back, and the read-back of  *)
(* an Update finds the row it wrote).                                      *)
NotFoundWroteNothing ==
  \A s \in Sessions : resp[s] = "notFound" => ~wrote[s]

(* Every locked row is of the user whose request locked it, and a session  *)
(* holds locks only between the first unset row and its commit: no request *)
(* can wait for another account's, nor for one that has been answered.     *)
LocksStayHome ==
  \A s \in Sessions, i \in Ids : draft[s][i] # NoRow =>
     /\ draft[s][i].owner = Owner[s]
     /\ pc[s] \in {"unset", "commit"}

(* A step changes rows of the account whose request takes it, and of no    *)
(* other: every statement is scoped by user_id.                            *)
OwnRowsOnly ==
  \A i \in Ids : rows'[i] # rows[i] =>
     \E s \in Sessions : /\ pc'[s] # pc[s]
                          /\ \A r \in {rows[i], rows'[i]} \ {NoRow} :
                                r.owner = Owner[s]
Isolation == [][OwnRowsOnly]_vars

HasCurrent(u) == \E i \in List(u) : rows[i].current

(* Switching the current offer is atomic: a user who has one is left       *)
(* without only by his own plain update or deletion, never by a            *)
(* CreateAsCurrent or UpdateAsCurrent, whether it succeeds or fails.       *)
SwitchKeepsCurrent ==
  [][\A u \in Users : HasCurrent(u) /\ ~HasCurrent(u)' =>
       \E s \in Sessions : /\ Owner[s] = u /\ pc'[s] # pc[s]
                            /\ pc[s] \in {"update", "delete"}]_vars

(* Every request is answered: no lock outlives its request and no cycle of *)
(* waiting transactions lasts.                                             *)
EveryRequestAnswered ==
  \A s \in Sessions : pc[s] # "idle" ~> pc[s] = "idle"

(* The statements of all requests amount to the atomic operations of       *)
(* OfferBook: each request takes effect in one step, or not at all.        *)
Book == INSTANCE OfferBook WITH book <- rows
ImplementsBook == Book!Spec

=============================================================================
