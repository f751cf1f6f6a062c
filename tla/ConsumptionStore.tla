-------------------------- MODULE ConsumptionStore --------------------------
(***************************************************************************)
(* The consumption_history table and the handler that saves into it: one   *)
(* transaction per request, one INSERT ... ON CONFLICT DO UPDATE per month *)
(* in the order the client listed them, each of which holds its row (or    *)
(* its place in the unique index) to the end of the transaction.           *)
(*                                                                         *)
(* What a month records is one value; the readings that the validation     *)
(* lets through are Valid.                                                 *)
(*                                                                         *)
(* An operator named Bug_X is the definition X with a plausible mistake in *)
(* the code it models; nothing uses it but the experiments that show which *)
(* property would notice that mistake.                                     *)
(***************************************************************************)
EXTENDS Naturals, Sequences

CONSTANTS Sessions,     \* clients, each with at most one save in flight
          Users, Owner,
          LastMonth,    \* of the calendar months, numbered from January 2000
          Values, Valid,
          MaxEntries,   \* bound: entries in a request
          NoEntry       \* "no such row"

Months == 0..LastMonth
Entry == [month: Months, value: Values]
Bodies == UNION {[1..n -> Entry] : n \in 0..MaxEntries}
Status == {"none", "ok", "invalid", "error"}

ASSUME OwnerAssumption == Owner \in [Sessions -> Users]
(* Years outside 2000..2100 are refused: there is a last month.            *)
ASSUME MonthsAssumption == LastMonth \in Nat
ASSUME EntriesAssumption == MaxEntries \in Nat
ASSUME ValuesAssumption == Valid \subseteq Values /\ NoEntry \notin Values

VARIABLES history,  \* committed rows: user -> month -> value or NoEntry
          pc,
          body,     \* the entries of the request in flight
          at,       \* the entry whose statement is next
          draft,    \* what each transaction has written (and so locked)
          resp      \* last answer of each session

vars == <<history, pc, body, at, draft, resp>>

NoDraft == [m \in Months |-> NoEntry]

(* The row of month m is not held by another transaction of the same user. *)
Free(s, m) == \A t \in Sessions \ {s} :
                Owner[t] = Owner[s] => draft[t][m] = NoEntry

-----------------------------------------------------------------------------
(* No deferred Rollback. *)
Bug_Answer(s, status) ==
  /\ pc' = [pc EXCEPT ![s] = "idle"]
  /\ body' = [body EXCEPT ![s] = <<>>]
  /\ at' = [at EXCEPT ![s] = 1]
  /\ resp' = [resp EXCEPT ![s] = status]
  /\ UNCHANGED draft

(* The request ends and its transaction releases what it held.             *)
Answer(s, status) ==
  /\ pc' = [pc EXCEPT ![s] = "idle"]
  /\ body' = [body EXCEPT ![s] = <<>>]
  /\ at' = [at EXCEPT ![s] = 1]
  /\ draft' = [draft EXCEPT ![s] = NoDraft]
  /\ resp' = [resp EXCEPT ![s] = status]

(* The transaction is committed; the connection may fail before its        *)
(* outcome is known.                                                       *)
Report(s) == \E status \in {"ok", "error"} : Answer(s, status)

Accepted(b) == \A i \in 1..Len(b) : b[i].value \in Valid

(* Every entry is validated before the first is written.                   *)
SaveHistory(s) ==
  /\ pc[s] = "idle"
  /\ \E b \in Bodies :
       /\ Accepted(b)
       /\ body' = [body EXCEPT ![s] = b]
  /\ pc' = [pc EXCEPT ![s] = "upsert"]
  /\ resp' = [resp EXCEPT ![s] = "none"]
  /\ UNCHANGED <<history, at, draft>>

Refuse(s) ==
  /\ pc[s] = "idle"
  /\ resp' = [resp EXCEPT ![s] = "invalid"]
  /\ UNCHANGED <<history, pc, body, at, draft>>

(* ON CONFLICT DO NOTHING. *)
Bug_UpsertMonth(s) ==
  /\ pc[s] = "upsert" /\ at[s] <= Len(body[s])
  /\ LET e == body[s][at[s]] IN
       /\ Free(s, e.month)
       /\ draft' = IF history[Owner[s]][e.month] = NoEntry
                     THEN [draft EXCEPT ![s][e.month] = e.value]
                     ELSE draft
  /\ at' = [at EXCEPT ![s] = @ + 1]
  /\ UNCHANGED <<history, pc, body, resp>>

UpsertMonth(s) ==
  /\ pc[s] = "upsert" /\ at[s] <= Len(body[s])
  /\ LET e == body[s][at[s]] IN
       /\ Free(s, e.month)
       /\ draft' = [draft EXCEPT ![s][e.month] = e.value]
  /\ at' = [at EXCEPT ![s] = @ + 1]
  /\ UNCHANGED <<history, pc, body, resp>>

Commit(s) ==
  /\ pc[s] = "upsert" /\ at[s] > Len(body[s])
  /\ history' = [history EXCEPT ![Owner[s]] =
       [m \in Months |-> IF draft[s][m] # NoEntry THEN draft[s][m] ELSE @[m]]]
  /\ Report(s)

-----------------------------------------------------------------------------
(* Failures *)

Abort(s) ==
  /\ pc[s] # "idle"
  /\ Answer(s, "error")
  /\ UNCHANGED history

(* s waits for a row that t holds.                                         *)
WaitsFor(s, t) ==
  /\ s # t /\ Owner[t] = Owner[s]
  /\ pc[s] = "upsert" /\ at[s] <= Len(body[s])
  /\ draft[t][body[s][at[s]].month] # NoEntry

Deadlocked(D) == D # {} /\ \A d \in D : \E t \in D : WaitsFor(d, t)

(* PostgreSQL ends a cycle of waiting transactions by aborting one.        *)
DeadlockAbort(s) ==
  /\ \E D \in SUBSET Sessions : s \in D /\ Deadlocked(D)
  /\ Answer(s, "error")
  /\ UNCHANGED history

-----------------------------------------------------------------------------
Init ==
  /\ history = [u \in Users |-> NoDraft]
  /\ pc = [s \in Sessions |-> "idle"]
  /\ body = [s \in Sessions |-> <<>>]
  /\ at = [s \in Sessions |-> 1]
  /\ draft = [s \in Sessions |-> NoDraft]
  /\ resp = [s \in Sessions |-> "none"]

Work(s) == UpsertMonth(s) \/ Commit(s)

Next == \E s \in Sessions :
          \/ SaveHistory(s) \/ Refuse(s) \/ Work(s) \/ Abort(s) \/ DeadlockAbort(s)

Spec == Init /\ [][Next]_vars

(* A request that can go on does; rows are granted in the order they were  *)
(* asked for; the deadlock detector runs.                                  *)
Fairness == \A s \in Sessions : SF_vars(Work(s)) /\ WF_vars(DeadlockAbort(s))
FairSpec == Spec /\ Fairness

-----------------------------------------------------------------------------
(* Properties *)

(* Every variable stays in its type, and no value that the validation      *)
(* refuses is ever written.                                                *)
TypeOK ==
  /\ history \in [Users -> [Months -> Valid \cup {NoEntry}]]
  /\ pc \in [Sessions -> {"idle", "upsert"}]
  /\ body \in [Sessions -> Bodies]
  /\ at \in [Sessions -> 1..(MaxEntries + 1)]
  /\ draft \in [Sessions -> [Months -> Valid \cup {NoEntry}]]
  /\ resp \in [Sessions -> Status]

Chronological(b) == \A i, j \in 1..Len(b) : i < j => b[i].month < b[j].month

(* The pages send their months oldest first: saves that do never deadlock, *)
(* however many tabs and devices of the user save at a time.               *)
OrderedSavesNeverDeadlock ==
  \A D \in SUBSET Sessions :
     (\A d \in D : Chronological(body[d])) => ~Deadlocked(D)

(* Every save is answered, also when two list their months in different    *)
(* orders and deadlock.                                                    *)
EveryRequestAnswered == \A s \in Sessions : pc[s] # "idle" ~> pc[s] = "idle"

(* Each save takes effect whole and in one step, with the last value given *)
(* for each month, or not at all; 204 means it did, and after a 500 it may *)
(* have as well.                                                           *)
Log == INSTANCE ConsumptionLog
         WITH waiting <- {s \in Sessions : pc[s] # "idle"},
              asked <- body, answer <- resp
ImplementsLog == Log!Spec

=============================================================================
