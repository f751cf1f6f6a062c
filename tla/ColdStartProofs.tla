--------------------------- MODULE ColdStartProofs ---------------------------
(* Theorems about ColdStart, for any number of instances, serverless or    *)
(* not, and of faults.                                                     *)
EXTENDS ColdStart, TLAPS

-----------------------------------------------------------------------------
(* Every migration locks a table; nothing else about the eight matters.    *)
LEMMA TouchesFacts ==
  /\ Last \in Nat
  /\ \A v \in Versions : Len(Touches[v]) \in Nat /\ Len(Touches[v]) >= 1
  <1>1. Last = 8
    BY DEF Last, Touches
  <1>2. \A v \in 1..8 : v = 1 \/ v = 2 \/ v = 3 \/ v = 4 \/ v = 5 \/ v = 6 \/ v = 7
                        \/ v = 8
    OBVIOUS
  <1>3. /\ Touches[1] = <<"offers">> /\ Touches[2] = <<"offers">>
        /\ Touches[3] = <<"history">> /\ Touches[4] = <<"offers">>
        /\ Touches[5] = <<"users", "revoked", "offers", "history">>
        /\ Touches[6] = <<"history">> /\ Touches[7] = <<"offers">>
        /\ Touches[8] = <<"users">>
    BY DEF Touches
  <1>4. \A table : Len(<<table>>) = 1
    OBVIOUS
  <1>5. Len(<<"users", "revoked", "offers", "history">>) = 4
    OBVIOUS
  <1>6. /\ Len(Touches[1]) = 1 /\ Len(Touches[2]) = 1 /\ Len(Touches[3]) = 1
        /\ Len(Touches[4]) = 1 /\ Len(Touches[6]) = 1 /\ Len(Touches[7]) = 1
        /\ Len(Touches[8]) = 1
    BY <1>3, <1>4
  <1>7. Len(Touches[5]) = 4
    BY <1>3, <1>5
  <1>8. \A v \in Versions : Len(Touches[v]) = 1 \/ Len(Touches[v]) = 4
    BY <1>1, <1>2, <1>6, <1>7 DEF Versions
  <1>9. Last \in Nat
    BY <1>1
  <1>10. ASSUME NEW v \in Versions PROVE Len(Touches[v]) \in Nat /\ Len(Touches[v]) >= 1
    <2>1. CASE Len(Touches[v]) = 1
      BY <2>1
    <2>2. CASE Len(Touches[v]) = 4
      BY <2>2
    <2> QED
      BY <1>8, <2>1, <2>2
  <1> QED
    BY <1>9, <1>10

(* The inductive invariant.  A transaction about to commit version v has   *)
(* every table of v locked, so no other instance is in the middle of v;    *)
(* and an instance at v knows that 1, ..., v-1 are committed.              *)

KnowsEarlier(i) ==
  pc[i] \in {"migrate", "commit"} => \A w \in Versions : w < at[i] => w \in applied

HoldsAll(i) ==
  /\ pc[i] \notin {"migrate", "commit"} => held[i] = 0
  /\ held[i] > 0 => at[i] \in Versions /\ held[i] <= Len(Touches[at[i]])
  /\ pc[i] = "commit" => /\ at[i] \in Versions
                         /\ held[i] = Len(Touches[at[i]])
                         /\ at[i] \notin applied

Apart(i, j) == \A k \in 1..held[i], l \in 1..held[j] :
                 Touches[at[i]][k] # Touches[at[j]][l]

Inv == /\ TypeOK
       /\ NoGaps
       /\ AppliedOnce
       /\ \A i \in Instances : KnowsEarlier(i) /\ HoldsAll(i)
       /\ \A i, j \in Instances : i # j => Apart(i, j)
       /\ ServingIsMigrated

LEMMA InvInit == Init => Inv
  <1> SUFFICES ASSUME Init PROVE Inv
    OBVIOUS
  <1>1. TypeOK
    <2>1. 1 \in 1..(Last + 1) /\ 0 \in 0..MaxFaults
      BY TouchesFacts, FaultsAssumption
    <2>2. effects \in [Versions -> Nat]
      BY DEF Init
    <2>3. pc \in [Instances -> Label] /\ held \in [Instances -> Nat]
      BY DEF Init, Label
    <2> QED
      BY <2>1, <2>2, <2>3 DEF Init, TypeOK
  <1>2. NoGaps /\ AppliedOnce /\ ServingIsMigrated
    BY DEF Init, NoGaps, AppliedOnce, ServingIsMigrated
  <1>3. \A i \in Instances : KnowsEarlier(i) /\ HoldsAll(i)
    <2>1. \A i \in Instances : pc[i] = "cold" /\ held[i] = 0
      BY DEF Init
    <2> TAKE i \in Instances
    <2>2. pc[i] \notin {"migrate", "commit"} /\ pc[i] # "commit" /\ ~(held[i] > 0)
      BY <2>1
    <2>3. KnowsEarlier(i)
      BY <2>2 DEF KnowsEarlier
    <2>4. HoldsAll(i)
      BY <2>1, <2>2 DEF HoldsAll
    <2> QED
      BY <2>3, <2>4
  <1>4. \A i, j \in Instances : i # j => Apart(i, j)
    BY DEF Init, Apart
  <1> QED
    BY <1>1, <1>2, <1>3, <1>4 DEF Inv

(* What a start reads tells it which migrations are committed: all before  *)
(* the greatest.                                                           *)
LEMMA MaxAppliedIs ==
  ASSUME Inv
  PROVE  /\ MaxApplied \in 0..Last
         /\ \A w \in Versions : w < MaxApplied + 1 => w \in applied
  <1>1. CASE applied = {}
    BY <1>1, TouchesFacts DEF MaxApplied, Versions
  <1>2. CASE applied # {}
    <2>1. applied \in SUBSET (0..Last)
      BY TouchesFacts DEF Inv, TypeOK, Versions
    <2>2. \E v \in applied : \A w \in applied : w <= v
      <3>1. Last = 8
        BY DEF Last, Touches
      <3>2. \A v \in applied : v = 1 \/ v = 2 \/ v = 3 \/ v = 4 \/ v = 5 \/ v = 6 \/ v = 7
                               \/ v = 8
        BY <3>1 DEF Inv, TypeOK, Versions
      <3> QED
        BY <1>2, <3>2, SMT
    <2>3. MaxApplied \in applied
      BY <1>2, <2>2 DEF MaxApplied
    <2> QED
      BY <2>1, <2>3, TouchesFacts DEF Inv, NoGaps, Versions
  <1> QED
    BY <1>1, <1>2

(* A start that ends without committing. *)
LEMMA FailInv ==
  ASSUME Inv, NEW i \in Instances, FailStart(i), UNCHANGED <<applied, effects>>,
         ledger' \in BOOLEAN, faults' \in 0..MaxFaults
  PROVE  Inv'
  <1> USE DEF Inv
  <1>1. TypeOK'
    BY DEF TypeOK, FailStart, Goto, Label
  <1>2. pc'[i] \in {"broken", "exited"} /\ held'[i] = 0
        /\ \A j \in Instances \ {i} : pc'[j] = pc[j] /\ held'[j] = held[j]
    BY DEF TypeOK, FailStart, Goto
  <1>3. \A j \in Instances : KnowsEarlier(j)' /\ HoldsAll(j)'
    BY <1>2 DEF KnowsEarlier, HoldsAll, FailStart
  <1>4. \A j, k \in Instances : j # k => Apart(j, k)'
    BY <1>2 DEF Apart, FailStart
  <1>5. NoGaps' /\ AppliedOnce' /\ ServingIsMigrated'
    BY <1>2 DEF NoGaps, AppliedOnce, ServingIsMigrated
  <1> QED
    BY <1>1, <1>3, <1>4, <1>5

(* A step of an instance that holds nothing and does not migrate yet. *)
LEMMA QuietInv ==
  ASSUME Inv, NEW i \in Instances, NEW label \in Label, Goto(i, label),
         label \notin {"migrate", "commit", "serving"}, held'[i] = 0,
         \A j \in Instances \ {i} : held'[j] = held[j],
         held' \in [Instances -> Nat],
         UNCHANGED <<applied, effects, at>>, ledger' \in BOOLEAN,
         faults' \in 0..MaxFaults,
         reply' \in [Instances -> {"none", "initPanic", "nilPanic"}]
  PROVE  Inv'
  <1> USE DEF Inv
  <1>1. TypeOK'
    BY DEF TypeOK, Goto
  <1>2. pc'[i] = label /\ \A j \in Instances \ {i} : pc'[j] = pc[j]
    BY DEF TypeOK, Goto
  <1>3. \A j \in Instances : KnowsEarlier(j)' /\ HoldsAll(j)'
    BY <1>2 DEF KnowsEarlier, HoldsAll
  <1>4. \A j, k \in Instances : j # k => Apart(j, k)'
    BY DEF Apart
  <1>5. NoGaps' /\ AppliedOnce' /\ ServingIsMigrated'
    BY <1>2 DEF NoGaps, AppliedOnce, ServingIsMigrated
  <1> QED
    BY <1>1, <1>3, <1>4, <1>5

-----------------------------------------------------------------------------
(* The steps that matter, one lemma each. *)

LEMMA ReadVersionInv ==
  ASSUME Inv, NEW i \in Instances, ReadVersion(i) PROVE Inv'
  <1> USE DEF Inv
  <1>1. MaxApplied \in 0..Last /\ \A w \in Versions : w < MaxApplied + 1 => w \in applied
    BY MaxAppliedIs
  <1>2. MaxApplied + 1 \in 1..(Last + 1)
    BY <1>1, TouchesFacts
  <1>3. /\ pc' = [pc EXCEPT ![i] = "migrate"] /\ at' = [at EXCEPT ![i] = MaxApplied + 1]
        /\ UNCHANGED <<ledger, applied, effects, held, faults, reply>>
        /\ pc[i] = "read"
    BY DEF ReadVersion, Goto, Schema
  <1>4. TypeOK'
    BY <1>2, <1>3 DEF TypeOK, Label
  <1>5. /\ pc'[i] = "migrate" /\ at'[i] = MaxApplied + 1
        /\ \A j \in Instances \ {i} : pc'[j] = pc[j] /\ at'[j] = at[j]
    BY <1>3 DEF TypeOK
  <1>6. held[i] = 0
    BY <1>3 DEF HoldsAll
  <1>7. \A j \in Instances : KnowsEarlier(j)'
    BY <1>1, <1>3, <1>5 DEF KnowsEarlier
  <1>8. \A j \in Instances : HoldsAll(j)'
    BY <1>3, <1>5, <1>6 DEF HoldsAll
  <1>9. \A j, k \in Instances : j # k => Apart(j, k)'
    BY <1>3, <1>5, <1>6 DEF Apart
  <1>10. NoGaps' /\ AppliedOnce' /\ ServingIsMigrated'
    BY <1>3, <1>5 DEF NoGaps, AppliedOnce, ServingIsMigrated
  <1> QED
    BY <1>4, <1>7, <1>8, <1>9, <1>10

LEMMA LockTableInv ==
  ASSUME Inv, NEW i \in Instances, LockTable(i) PROVE Inv'
  <1> USE DEF Inv
  <1>1. /\ held' = [held EXCEPT ![i] = held[i] + 1]
        /\ UNCHANGED <<ledger, applied, effects, pc, at, faults, reply>>
        /\ pc[i] = "migrate" /\ at[i] \in Versions /\ held[i] < Len(Touches[at[i]])
        /\ Free(i, Touches[at[i]][held[i] + 1])
    BY DEF LockTable, Schema
  <1>2. held[i] \in Nat /\ Len(Touches[at[i]]) \in Nat
    BY <1>1, TouchesFacts DEF TypeOK
  <1>3. TypeOK'
    BY <1>1, <1>2 DEF TypeOK
  <1>4. held'[i] = held[i] + 1 /\ \A j \in Instances \ {i} : held'[j] = held[j]
    BY <1>1 DEF TypeOK
  <1>5. \A j \in Instances : KnowsEarlier(j)' /\ HoldsAll(j)'
    BY <1>1, <1>2, <1>4 DEF KnowsEarlier, HoldsAll
  <1>6. \A j \in Instances \ {i} : \A l \in 1..held[j] :
          Touches[at[i]][held[i] + 1] # Touches[at[j]][l]
    BY <1>1 DEF Free, Locked
  <1>7. \A k \in 1..(held[i] + 1) : k \in 1..held[i] \/ k = held[i] + 1
    BY <1>2
  <1>8. \A j \in Instances \ {i} : Apart(i, j)' /\ Apart(j, i)'
    BY <1>1, <1>4, <1>6, <1>7 DEF Apart
  <1>9. \A j, k \in Instances : j # k => Apart(j, k)'
    <2> TAKE j, k \in Instances
    <2>1. CASE j # i /\ k # i
      BY <1>1, <1>4, <2>1 DEF Apart
    <2> QED
      BY <1>8, <2>1
  <1>10. NoGaps' /\ AppliedOnce' /\ ServingIsMigrated'
    BY <1>1 DEF NoGaps, AppliedOnce, ServingIsMigrated
  <1> QED
    BY <1>3, <1>5, <1>9, <1>10

(* Nobody else can be about to commit the version this commits, having the *)
(* same tables locked; so it does not become committed twice.              *)
LEMMA CommitMigrationInv ==
  ASSUME Inv, NEW i \in Instances, CommitMigration(i) PROVE Inv'
  <1> USE DEF Inv
  <1> DEFINE v == at[i]
  <1>1. /\ pc[i] = "commit" /\ applied' = applied \cup {v}
        /\ effects' = [effects EXCEPT ![v] = effects[v] + 1]
        /\ at' = [at EXCEPT ![i] = v + 1] /\ held' = [held EXCEPT ![i] = 0]
        /\ pc' = [pc EXCEPT ![i] = "migrate"]
        /\ UNCHANGED <<ledger, faults, reply>>
    BY DEF CommitMigration, Goto
  <1>2. v \in Versions /\ v \notin applied /\ held[i] = Len(Touches[v])
    BY <1>1 DEF HoldsAll
  <1>3. v \in 1..Last /\ Last \in Nat /\ held[i] \in Nat /\ held[i] >= 1
    BY <1>2, TouchesFacts DEF Versions
  <1>4. TypeOK'
    <2>1. applied' \subseteq Versions /\ effects' \in [Versions -> Nat]
      BY <1>1, <1>2 DEF TypeOK
    <2>2. v + 1 \in 1..(Last + 1)
      BY <1>3
    <2> QED
      BY <1>1, <2>1, <2>2 DEF TypeOK, Label
  <1>5. /\ pc'[i] = "migrate" /\ at'[i] = v + 1 /\ held'[i] = 0
        /\ \A j \in Instances \ {i} : pc'[j] = pc[j] /\ at'[j] = at[j] /\ held'[j] = held[j]
    BY <1>1 DEF TypeOK
  <1>6. \A w \in Versions : w < v => w \in applied
    BY <1>1 DEF KnowsEarlier
  <1> HIDE DEF v
  <1>7. \A j \in Instances \ {i} : pc[j] = "commit" => at[j] # v
    <2> SUFFICES ASSUME NEW j \in Instances \ {i}, pc[j] = "commit", at[j] = v
                 PROVE  FALSE
      OBVIOUS
    <2>1. held[j] = Len(Touches[v])
      BY DEF HoldsAll
    <2>2. 1 \in 1..held[i] /\ 1 \in 1..held[j]
      BY <1>2, <1>3, <2>1
    <2>3. Touches[v][1] # Touches[v][1]
      BY <2>2 DEF Apart, v
    <2> QED
      BY <2>3
  <1>8. \A j \in Instances : KnowsEarlier(j)'
    <2>1. \A w \in Versions : w < v + 1 => w \in applied \cup {v}
      BY <1>3, <1>6 DEF Versions
    <2>2. KnowsEarlier(i)'
      BY <1>1, <1>5, <2>1 DEF KnowsEarlier
    <2>3. \A j \in Instances \ {i} : KnowsEarlier(j)'
      BY <1>1, <1>5 DEF KnowsEarlier
    <2> QED
      BY <2>2, <2>3
  <1>9. \A j \in Instances : HoldsAll(j)'
    <2>1. HoldsAll(i)'
      BY <1>5 DEF HoldsAll
    <2>2. \A j \in Instances \ {i} : HoldsAll(j)'
      BY <1>1, <1>5, <1>7 DEF HoldsAll
    <2> QED
      BY <2>1, <2>2
  <1>10. \A j, k \in Instances : j # k => Apart(j, k)'
    BY <1>5 DEF Apart
  <1>11. NoGaps'
    <2>1. \A w \in 1..v : w \in applied \cup {v}
      BY <1>3, <1>6 DEF Versions
    <2> QED
      BY <1>1, <2>1 DEF NoGaps
  <1>12. AppliedOnce'
    <2>1. effects'[v] = 1
      BY <1>1, <1>2 DEF TypeOK, AppliedOnce
    <2>2. \A w \in Versions \ {v} : effects'[w] = effects[w]
      BY <1>1 DEF TypeOK
    <2> QED
      BY <1>1, <2>1, <2>2 DEF AppliedOnce
  <1>13. ServingIsMigrated'
    BY <1>1, <1>2, <1>5 DEF ServingIsMigrated
  <1> QED
    BY <1>4, <1>8, <1>9, <1>10, <1>11, <1>12, <1>13

(* The instance has come past the last version: all are committed. *)
LEMMA ReadyInv ==
  ASSUME Inv, NEW i \in Instances, Ready(i) PROVE Inv'
  <1> USE DEF Inv
  <1>1. /\ pc[i] = "migrate" /\ at[i] > Last /\ pc' = [pc EXCEPT ![i] = "serving"]
        /\ UNCHANGED <<ledger, applied, effects, at, held, faults, reply>>
    BY DEF Ready, Goto, Schema
  <1>2. applied = Versions
    <2>1. \A w \in Versions : w < at[i]
      BY <1>1, TouchesFacts DEF Versions, TypeOK
    <2> QED
      BY <1>1, <2>1 DEF KnowsEarlier, TypeOK
  <1>3. at[i] \notin Versions /\ held[i] \in Nat
    BY <1>1, TouchesFacts DEF Versions, TypeOK
  <1>4. held[i] = 0
    BY <1>3 DEF HoldsAll
  <1>5. TypeOK'
    BY <1>1 DEF TypeOK, Label
  <1>6. pc'[i] = "serving" /\ \A j \in Instances \ {i} : pc'[j] = pc[j]
    BY <1>1 DEF TypeOK
  <1>7. \A j \in Instances : KnowsEarlier(j)' /\ HoldsAll(j)'
    BY <1>1, <1>4, <1>6 DEF KnowsEarlier, HoldsAll
  <1>8. \A j, k \in Instances : j # k => Apart(j, k)'
    BY <1>1 DEF Apart
  <1>9. NoGaps' /\ AppliedOnce' /\ ServingIsMigrated'
    BY <1>1, <1>2 DEF NoGaps, AppliedOnce, ServingIsMigrated
  <1> QED
    BY <1>5, <1>7, <1>8, <1>9

LEMMA RecordVersionInv ==
  ASSUME Inv, NEW i \in Instances, RecordVersion(i) PROVE Inv'
  <1> USE DEF Inv
  <1>1. CASE at[i] \in applied
    BY <1>1, FailInv DEF RecordVersion, Schema, TypeOK
  <1>2. CASE at[i] \notin applied
    <2>1. /\ pc[i] = "migrate" /\ at[i] \in Versions /\ held[i] = Len(Touches[at[i]])
          /\ pc' = [pc EXCEPT ![i] = "commit"]
          /\ UNCHANGED <<ledger, applied, effects, at, held, faults, reply>>
      BY <1>2 DEF RecordVersion, Goto, Schema
    <2>2. TypeOK'
      BY <2>1 DEF TypeOK, Label
    <2>3. pc'[i] = "commit" /\ \A j \in Instances \ {i} : pc'[j] = pc[j]
      BY <2>1 DEF TypeOK
    <2>4. \A j \in Instances : KnowsEarlier(j)'
      BY <2>1, <2>3 DEF KnowsEarlier
    <2>5. \A j \in Instances : HoldsAll(j)'
      BY <1>2, <2>1, <2>3 DEF HoldsAll, TypeOK
    <2>6. \A j, k \in Instances : j # k => Apart(j, k)'
      BY <2>1 DEF Apart
    <2>7. NoGaps' /\ AppliedOnce' /\ ServingIsMigrated'
      BY <2>1, <2>3 DEF NoGaps, AppliedOnce, ServingIsMigrated
    <2> QED
      BY <2>2, <2>4, <2>5, <2>6, <2>7
  <1> QED
    BY <1>1, <1>2

-----------------------------------------------------------------------------
(* Inv is preserved by every step. *)
LEMMA InvStep == Inv /\ [Next]_vars => Inv'
  <1> SUFFICES ASSUME Inv, [Next]_vars PROVE Inv'
    OBVIOUS
  <1> USE DEF Inv
  <1>1. ASSUME NEW i \in Instances, Start(i) PROVE Inv'
    <2>1. held[i] = 0
      BY <1>1 DEF Start, HoldsAll
    <2> QED
      BY <1>1, <2>1, QuietInv DEF Start, Schema, TypeOK, Label
  <1>2. ASSUME NEW i \in Instances, CheckLedger(i) PROVE Inv'
    <2>1. held[i] = 0
      BY <1>2 DEF CheckLedger, HoldsAll
    <2> QED
      BY <1>2, <2>1, QuietInv DEF CheckLedger, Schema, TypeOK, Label
  <1>3. ASSUME NEW i \in Instances, CreateLedger(i) PROVE Inv'
    <2>1. held[i] = 0
      BY <1>3 DEF CreateLedger, HoldsAll
    <2>2. CASE ledger
      BY <1>3, <2>2, FailInv DEF CreateLedger, TypeOK
    <2>3. CASE ~ledger
      BY <1>3, <2>1, <2>3, QuietInv DEF CreateLedger, TypeOK, Label
    <2> QED
      BY <2>2, <2>3
  <1>4. ASSUME NEW i \in Instances, ReadVersion(i) PROVE Inv'
    BY <1>4, ReadVersionInv
  <1>5. ASSUME NEW i \in Instances, LockTable(i) PROVE Inv'
    BY <1>5, LockTableInv
  <1>6. ASSUME NEW i \in Instances, RecordVersion(i) PROVE Inv'
    BY <1>6, RecordVersionInv
  <1>7. ASSUME NEW i \in Instances, CommitMigration(i) PROVE Inv'
    BY <1>7, CommitMigrationInv
  <1>8. ASSUME NEW i \in Instances, Ready(i) PROVE Inv'
    BY <1>8, ReadyInv
  <1>9. ASSUME NEW i \in Instances, Request(i) PROVE Inv'
    <2>1. UNCHANGED <<ledger, applied, effects, pc, at, held, faults>>
          /\ reply' \in [Instances -> {"none", "initPanic", "nilPanic"}]
      BY <1>9 DEF Request, Schema, TypeOK
    <2> QED
      BY <2>1 DEF TypeOK, NoGaps, AppliedOnce, KnowsEarlier, HoldsAll, Apart,
                  ServingIsMigrated
  <1>10. ASSUME NEW i \in Instances, DbError(i) PROVE Inv'
    <2>1. faults' \in 0..MaxFaults
      BY <1>10, FaultsAssumption DEF DbError, TypeOK
    <2> QED
      BY <1>10, <2>1, FailInv DEF DbError, Schema, TypeOK
  <1>11. ASSUME NEW i \in Instances, Crash(i) PROVE Inv'
    <2>1. faults' \in 0..MaxFaults
      BY <1>11, FaultsAssumption DEF Crash, TypeOK
    <2>2. Goto(i, "cold") /\ held' = [held EXCEPT ![i] = 0]
          /\ reply' = [reply EXCEPT ![i] = "none"]
          /\ UNCHANGED <<ledger, applied, effects, at>>
      BY <1>11 DEF Crash, Schema
    <2>3. reply' \in [Instances -> {"none", "initPanic", "nilPanic"}]
          /\ held' \in [Instances -> Nat] /\ held'[i] = 0
          /\ \A j \in Instances \ {i} : held'[j] = held[j]
      BY <2>2 DEF TypeOK
    <2> QED
      BY <2>1, <2>2, <2>3, QuietInv DEF TypeOK, Label
  <1>12. ASSUME NEW i \in Instances, Restart(i) PROVE Inv'
    <2>1. held[i] = 0
      BY <1>12 DEF Restart, HoldsAll
    <2> QED
      BY <1>12, <2>1, QuietInv DEF Restart, Schema, TypeOK, Label
  <1>13. CASE UNCHANGED vars
    BY <1>13 DEF vars, TypeOK, NoGaps, AppliedOnce, KnowsEarlier, HoldsAll, Apart,
                 ServingIsMigrated
  <1> HIDE DEF Inv
  <1> QED
    BY <1>1, <1>2, <1>3, <1>4, <1>5, <1>6, <1>7, <1>8, <1>9, <1>10, <1>11, <1>12,
       <1>13 DEF Next, Boot

LEMMA InvAlways == Spec => []Inv
  BY InvInit, InvStep, PTL DEF Spec

-----------------------------------------------------------------------------
(* Every variable stays in its type. *)
THEOREM TypeCorrect == Spec => []TypeOK
  <1>1. Inv => TypeOK
    BY DEF Inv
  <1> QED
    BY <1>1, InvAlways, PTL

(* However the migrations of instances starting together interleave, crash *)
(* or lose their connection, schema_migrations never skips a version: what *)
(* migrate concludes from SELECT MAX(version) is right.                    *)
THEOREM LedgerHasNoGaps == Spec => []NoGaps
  <1>1. Inv => NoGaps
    BY DEF Inv
  <1> QED
    BY <1>1, InvAlways, PTL

(* applyMigration commits the changes of each migration at most once, and  *)
(* always together with its version.                                       *)
THEOREM MigrationsApplyOnce == Spec => []AppliedOnce
  <1>1. Inv => AppliedOnce
    BY DEF Inv
  <1> QED
    BY <1>1, InvAlways, PTL

(* So the ledger tells every start exactly what has been done.             *)
THEOREM LedgerStaysTrue == Spec => []LedgerTrue
  <1>1. NoGaps /\ AppliedOnce => LedgerTrue
    BY DEF LedgerTrue
  <1> QED
    BY <1>1, LedgerHasNoGaps, MigrationsApplyOnce, PTL

(* An instance that serves requests does so on the complete schema.        *)
THEOREM ServedOnFullSchema == Spec => []ServingIsMigrated
  <1>1. Inv => ServingIsMigrated
    BY DEF Inv
  <1> QED
    BY <1>1, InvAlways, PTL

=============================================================================
