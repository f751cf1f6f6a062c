------------------------------ MODULE ColdStart ------------------------------
(***************************************************************************)
(* Instances starting against one database: database.Open and its schema   *)
(* migrations, and what the two entry points do with the outcome.  Nothing *)
(* keeps two instances from migrating at the same time but the locks of    *)
(* the statements and the primary key of schema_migrations.                *)
(*                                                                         *)
(* A serverless instance (api/index.go) initialises in a sync.Once inside  *)
(* its first request; a server (cmd/server) before it listens.             *)
(*                                                                         *)
(* An operator named Bug_X is the definition X with a plausible mistake in *)
(* the code it models; nothing uses it but the experiments that show which *)
(* property would notice that mistake.                                     *)
(***************************************************************************)
EXTENDS Naturals, Sequences

CONSTANTS Instances,
          Serverless,   \* those run by api/index.go; the others by cmd/server
          MaxFaults     \* bound: crashes and lost connections in a behaviour

ASSUME ServerlessAssumption == Serverless \subseteq Instances
ASSUME FaultsAssumption == MaxFaults \in Nat

(* The tables each migration's statements lock, in their order.            *)
Touches == << <<"offers">>, <<"offers">>, <<"history">>, <<"offers">>,
              <<"users", "revoked", "offers", "history">>,
              <<"history">>, <<"offers">>, <<"users">> >>
Last == Len(Touches)
Versions == 1..Last

VARIABLES ledger,   \* does schema_migrations exist?
          applied,  \* the versions committed to it
          effects,  \* history: how often each migration's changes were committed
          pc,
          at,       \* the migration each instance is at
          held,     \* how many of its tables the running transaction has locked
          faults,
          reply     \* how the last request to each instance went wrong

vars == <<ledger, applied, effects, pc, at, held, faults, reply>>

Goto(i, label) == pc' = [pc EXCEPT ![i] = label]

(* The greatest version committed, 0 if there is none.                     *)
MaxApplied == IF applied = {} THEN 0
              ELSE CHOOSE v \in applied : \A w \in applied : w <= v

Locked(i) == {Touches[at[i]][k] : k \in 1..held[i]}
Free(i, table) == \A j \in Instances \ {i} : table \notin Locked(j)

-----------------------------------------------------------------------------
(* Transactions end *)

(* The error of a migration ignored by the caller. *)
Bug_FailStart(i) ==
  /\ Goto(i, "serving")
  /\ held' = [held EXCEPT ![i] = 0]
  /\ UNCHANGED <<at, reply>>

(* No deferred Rollback: the transaction stays open. *)
Bug2_FailStart(i) ==
  /\ Goto(i, IF i \in Serverless THEN "broken" ELSE "exited")
  /\ held' = [held EXCEPT ![i] = IF i \in Serverless THEN @ ELSE 0]
  /\ reply' = [reply EXCEPT ![i] = IF i \in Serverless THEN "initPanic" ELSE @]
  /\ UNCHANGED at

(* Open returns an error: the deferred Rollback has run, the Once is spent *)
(* and its request panics, or the server exits.                            *)
FailStart(i) ==
  /\ Goto(i, IF i \in Serverless THEN "broken" ELSE "exited")
  /\ held' = [held EXCEPT ![i] = 0]
  /\ reply' = [reply EXCEPT ![i] = IF i \in Serverless THEN "initPanic" ELSE @]
  /\ UNCHANGED at

Schema == <<ledger, applied, effects>>

-----------------------------------------------------------------------------
(* Starting up *)

Start(i) ==
  /\ pc[i] = "cold"
  /\ Goto(i, "check")
  /\ UNCHANGED <<Schema, at, held, faults, reply>>

(* CREATE TABLE IF NOT EXISTS looks whether the table exists ...           *)
CheckLedger(i) ==
  /\ pc[i] = "check"
  /\ Goto(i, IF ledger THEN "read" ELSE "create")
  /\ UNCHANGED <<Schema, at, held, faults, reply>>

(* ... and if not creates it, which fails if another instance has by then. *)
CreateLedger(i) ==
  /\ pc[i] = "create"
  /\ IF ledger
       THEN FailStart(i) /\ UNCHANGED ledger
       ELSE /\ ledger' = TRUE
            /\ Goto(i, "read")
            /\ UNCHANGED <<at, held, reply>>
  /\ UNCHANGED <<applied, effects, faults>>

(* Read once, outside any transaction.                                     *)
ReadVersion(i) ==
  /\ pc[i] = "read"
  /\ at' = [at EXCEPT ![i] = MaxApplied + 1]
  /\ Goto(i, "migrate")
  /\ UNCHANGED <<Schema, held, faults, reply>>

(* The statements of a migration, each waiting for its table.              *)
LockTable(i) ==
  /\ pc[i] = "migrate" /\ at[i] \in Versions
  /\ held[i] < Len(Touches[at[i]])
  /\ Free(i, Touches[at[i]][held[i] + 1])
  /\ held' = [held EXCEPT ![i] = @ + 1]
  /\ UNCHANGED <<Schema, pc, at, faults, reply>>

(* INSERT ... ON CONFLICT DO NOTHING. *)
Bug_RecordVersion(i) ==
  /\ pc[i] = "migrate" /\ at[i] \in Versions /\ held[i] = Len(Touches[at[i]])
  /\ Goto(i, "commit")
  /\ UNCHANGED <<Schema, at, held, faults, reply>>

(* INSERT INTO schema_migrations: a duplicate if somebody was faster.      *)
RecordVersion(i) ==
  /\ pc[i] = "migrate" /\ at[i] \in Versions /\ held[i] = Len(Touches[at[i]])
  /\ IF at[i] \in applied
       THEN FailStart(i)
       ELSE Goto(i, "commit") /\ UNCHANGED <<at, held, reply>>
  /\ UNCHANGED <<Schema, faults>>

CommitMigration(i) ==
  /\ pc[i] = "commit"
  /\ applied' = applied \cup {at[i]}
  /\ effects' = [effects EXCEPT ![at[i]] = @ + 1]
  /\ at' = [at EXCEPT ![i] = @ + 1]
  /\ held' = [held EXCEPT ![i] = 0]
  /\ Goto(i, "migrate")
  /\ UNCHANGED <<ledger, faults, reply>>

(* All migrations done; CleanupExpiredTokens may fail without harm.        *)
Ready(i) ==
  /\ pc[i] = "migrate" /\ at[i] > Last
  /\ Goto(i, "serving")
  /\ UNCHANGED <<Schema, at, held, faults, reply>>

-----------------------------------------------------------------------------
(* Requests to an instance that has started, or tried to *)

Request(i) ==
  /\ pc[i] \in {"serving", "broken"}
  /\ reply' = [reply EXCEPT ![i] = IF pc[i] = "serving" THEN @ ELSE "nilPanic"]
  /\ UNCHANGED <<Schema, pc, at, held, faults>>

-----------------------------------------------------------------------------
(* Failures *)

(* The connection is lost or the database refuses.                         *)
DbError(i) ==
  /\ pc[i] \in {"check", "create", "read", "migrate", "commit"}
  /\ faults < MaxFaults
  /\ faults' = faults + 1
  /\ FailStart(i)
  /\ UNCHANGED Schema

(* The process is killed, the platform drops the instance, or a supervisor *)
(* starts an exited server again.                                          *)
Crash(i) ==
  /\ pc[i] \notin {"cold", "exited"}
  /\ faults < MaxFaults
  /\ faults' = faults + 1
  /\ Goto(i, "cold")
  /\ held' = [held EXCEPT ![i] = 0]
  /\ reply' = [reply EXCEPT ![i] = "none"]
  /\ UNCHANGED <<Schema, at>>

Restart(i) ==
  /\ pc[i] = "exited"
  /\ Goto(i, "cold")
  /\ UNCHANGED <<Schema, at, held, faults, reply>>

-----------------------------------------------------------------------------
Init ==
  /\ ledger = FALSE
  /\ applied = {}
  /\ effects = [v \in Versions |-> 0]
  /\ pc = [i \in Instances |-> "cold"]
  /\ at = [i \in Instances |-> 1]
  /\ held = [i \in Instances |-> 0]
  /\ faults = 0
  /\ reply = [i \in Instances |-> "none"]

Boot(i) ==
  \/ Start(i) \/ CheckLedger(i) \/ CreateLedger(i) \/ ReadVersion(i)
  \/ LockTable(i) \/ RecordVersion(i) \/ CommitMigration(i) \/ Ready(i)

Next == \E i \in Instances :
          Boot(i) \/ Request(i) \/ DbError(i) \/ Crash(i) \/ Restart(i)

Spec == Init /\ [][Next]_vars

(* Requests come, and a start that can go on does; a table is granted in   *)
(* the order it was asked for.                                             *)
FairSpec == Spec /\ \A i \in Instances : SF_vars(Boot(i))

-----------------------------------------------------------------------------
(* Properties *)

Label == {"cold", "check", "create", "read", "migrate", "commit", "serving",
          "broken", "exited"}

(* Every variable stays in its type.                                       *)
TypeOK ==
  /\ ledger \in BOOLEAN
  /\ applied \subseteq Versions
  /\ effects \in [Versions -> Nat]
  /\ pc \in [Instances -> Label]
  /\ at \in [Instances -> 1..(Last + 1)]
  /\ held \in [Instances -> Nat]
  /\ faults \in 0..MaxFaults
  /\ reply \in [Instances -> {"none", "initPanic", "nilPanic"}]

(* The versions on record are 1, ..., n: the MAX that a start reads tells  *)
(* it everything, however the migrations of other instances interleave.    *)
NoGaps == \A v \in applied : 1..v \subseteq applied

(* No migration's changes are committed twice (the backfill of version 2   *)
(* would overwrite prices edited since), nor without being on record.      *)
AppliedOnce == \A v \in Versions : effects[v] = IF v \in applied THEN 1 ELSE 0

(* The ledger is true: both of the above.                                  *)
LedgerTrue == NoGaps /\ AppliedOnce

(* An instance serves only on the complete schema.                         *)
ServingIsMigrated ==
  \A i \in Instances : pc[i] = "serving" => applied = Versions

(* A start comes to an end, whatever other instances hold.                 *)
EveryStartEnds ==
  \A i \in Instances :
    pc[i] = "check" ~> pc[i] \in {"serving", "broken", "exited", "cold"}

(* Instances that start together do not all lose: without faults, one of   *)
(* them serves in the end.                                                 *)
SomebodyServes == <>(faults > 0 \/ \E i \in Instances : pc[i] = "serving")

(* Every start comes to an end, and without faults one ends well.          *)
StartsEnd == EveryStartEnds /\ SomebodyServes

(* "routes all /api/* requests through the Chi router" (api/index.go): no  *)
(* request but the one that initialises the instance goes unrouted.        *)
RequestsAreRouted == \A i \in Instances : reply[i] # "nilPanic"

=============================================================================
