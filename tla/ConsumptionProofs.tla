-------------------------- MODULE ConsumptionProofs --------------------------
(* Theorems about ConsumptionStore, for every set of sessions, users and   *)
(* months and every length of a request.                                   *)
EXTENDS ConsumptionStore, WellFoundedInduction, TLAPS

-----------------------------------------------------------------------------
(* What a transaction holds is what the entries it has executed say.       *)

InBounds(s) == at[s] <= Len(body[s]) + 1

(* The entries of a request passed the validation before any was written.  *)
InFlight(s) == Accepted(body[s])

DraftSays(s) == draft[s] = Log!Said(body[s], at[s] - 1)

IdleIsBlank(s) == pc[s] = "idle" => body[s] = <<>> /\ at[s] = 1

Inv == /\ TypeOK
       /\ \A s \in Sessions : InBounds(s) /\ InFlight(s) /\ DraftSays(s)
                              /\ IdleIsBlank(s)

LEMMA BodyLen ==
  ASSUME NEW b \in Bodies
  PROVE  /\ Len(b) \in 0..MaxEntries
         /\ \A i \in 1..Len(b) : b[i] \in Entry
  BY EntriesAssumption DEF Bodies

LEMMA EmptyBody == <<>> \in Bodies /\ Len(<<>>) = 0
  BY EntriesAssumption DEF Bodies

(* An empty prefix says nothing. *)
LEMMA SaidNothing == ASSUME NEW b PROVE Log!Said(b, 0) = NoDraft
  BY DEF Log!Said, NoDraft

(* One more entry overrides what was said of its month, and only that.     *)
LEMMA SaidNext ==
  ASSUME NEW b \in Bodies, NEW n \in Nat, n < Len(b)
  PROVE  Log!Said(b, n + 1) =
           [Log!Said(b, n) EXCEPT ![b[n + 1].month] = b[n + 1].value]
  <1> DEFINE e == b[n + 1]
             k == n + 1
  <1>1. k \in 1..k /\ k \in 1..Len(b) /\ e \in Entry /\ Len(b) \in Nat
    BY BodyLen
  <1>2. ASSUME NEW m \in Months
        PROVE  Log!Said(b, k)[m] = IF m = e.month THEN e.value
                                   ELSE Log!Said(b, n)[m]
    <2>1. CASE m = e.month
      <3>1. Log!Names(b, k, m)
        BY <1>1, <2>1 DEF Log!Names
      <3>2. \A i \in 1..k : (\A j \in 1..k : Log!Names(b, j, m) => j <= i)
                              => i = k
        BY <1>1, <3>1
      <3>3. \A j \in 1..k : Log!Names(b, j, m) => j <= k
        OBVIOUS
      <3>4. Log!LastOf(b, k, m) = k
        BY <1>1, <3>1, <3>2, <3>3 DEF Log!LastOf
      <3> QED
        BY <1>1, <2>1, <3>1, <3>4 DEF Log!Said
    <2>2. CASE m # e.month
      <3>1. ~Log!Names(b, k, m)
        BY <2>2 DEF Log!Names
      <3>2. \A i : i \in 1..k /\ i # k <=> i \in 1..n
        OBVIOUS
      <3>3. \A i : /\ i \in 1..k /\ Log!Names(b, i, m)
                   /\ \A j \in 1..k : Log!Names(b, j, m) => j <= i
               <=> /\ i \in 1..n /\ Log!Names(b, i, m)
                   /\ \A j \in 1..n : Log!Names(b, j, m) => j <= i
        BY <3>1, <3>2
      <3>4. Log!LastOf(b, k, m) = Log!LastOf(b, n, m)
        BY <3>3 DEF Log!LastOf
      <3>5. (\E i \in 1..k : Log!Names(b, i, m)) <=> (\E i \in 1..n : Log!Names(b, i, m))
        BY <3>1, <3>2
      <3> QED
        BY <2>2, <3>4, <3>5 DEF Log!Said
    <2> QED
      BY <2>1, <2>2
  <1> QED
    BY <1>2 DEF Log!Said

-----------------------------------------------------------------------------
LEMMA InvInit == Init => Inv
  BY EmptyBody, SaidNothing, EntriesAssumption
  DEF Init, Inv, TypeOK, InBounds, InFlight, DraftSays, IdleIsBlank, Accepted,
      NoDraft, Status

LEMMA NothingSaid == ASSUME NEW b PROVE Log!Said(b, 1 - 1) = NoDraft
  BY SaidNothing

(* The end of a request. *)
LEMMA AnswerInv ==
  ASSUME Inv, NEW s \in Sessions, NEW status \in Status, Answer(s, status),
         history' \in [Users -> [Months -> Valid \cup {NoEntry}]]
  PROVE  Inv'
  <1> USE DEF Inv
  <1>1. TypeOK'
    BY EmptyBody, EntriesAssumption DEF TypeOK, Answer, NoDraft
  <1>2. /\ body'[s] = <<>> /\ at'[s] = 1 /\ draft'[s] = NoDraft /\ pc'[s] = "idle"
        /\ \A t \in Sessions \ {s} : /\ body'[t] = body[t] /\ at'[t] = at[t]
                                     /\ draft'[t] = draft[t] /\ pc'[t] = pc[t]
    BY DEF TypeOK, Answer
  <1>3. \A t \in Sessions : InBounds(t)' /\ InFlight(t)' /\ IdleIsBlank(t)'
    BY <1>2, EmptyBody DEF InBounds, InFlight, IdleIsBlank, Accepted
  <1>4. \A t \in Sessions : DraftSays(t)'
    BY <1>2, NothingSaid DEF DraftSays
  <1> QED
    BY <1>1, <1>3, <1>4

LEMMA UpsertInv ==
  ASSUME Inv, NEW s \in Sessions, UpsertMonth(s) PROVE Inv'
  <1> USE DEF Inv
  <1> DEFINE e == body[s][at[s]]
  <1>1. /\ pc[s] = "upsert" /\ at[s] <= Len(body[s])
        /\ draft' = [draft EXCEPT ![s][e.month] = e.value]
        /\ at' = [at EXCEPT ![s] = @ + 1]
        /\ UNCHANGED <<history, pc, body, resp>>
    BY DEF UpsertMonth
  <1>2. /\ body[s] \in Bodies /\ at[s] \in Nat /\ at[s] >= 1
        /\ Len(body[s]) \in 0..MaxEntries
    BY BodyLen DEF TypeOK
  <1>3. at[s] \in 1..Len(body[s])
    BY <1>1, <1>2
  <1>4. e \in Entry /\ e.value \in Valid /\ e.month \in Months
    BY <1>2, <1>3, BodyLen DEF Entry, InFlight, Accepted
  <1>5. TypeOK'
    <2>1. at' \in [Sessions -> 1..(MaxEntries + 1)]
      BY <1>1, <1>2, <1>3, EntriesAssumption DEF TypeOK
    <2>2. draft' \in [Sessions -> [Months -> Valid \cup {NoEntry}]]
      BY <1>1, <1>4 DEF TypeOK
    <2> QED
      BY <1>1, <2>1, <2>2 DEF TypeOK
  <1>6. draft'[s] = Log!Said(body[s], at[s])
    <2>1. draft[s] = Log!Said(body[s], at[s] - 1)
      BY DEF DraftSays
    <2>2. at[s] - 1 \in Nat /\ at[s] - 1 < Len(body[s]) /\ (at[s] - 1) + 1 = at[s]
      BY <1>2, <1>3
    <2>3. Log!Said(body[s], at[s]) =
            [Log!Said(body[s], at[s] - 1) EXCEPT ![e.month] = e.value]
      BY <1>2, <2>2, SaidNext
    <2> QED
      BY <1>1, <2>1, <2>3 DEF TypeOK
  <1>7. \A t \in Sessions : DraftSays(t)'
    <2>1. DraftSays(s)'
      <3>1. body'[s] = body[s] /\ at'[s] = at[s] + 1 /\ at'[s] - 1 = at[s]
        BY <1>1, <1>2 DEF TypeOK
      <3> QED
        BY <1>6, <3>1 DEF DraftSays
    <2>2. \A t \in Sessions \ {s} : DraftSays(t)'
      BY <1>1 DEF DraftSays, TypeOK
    <2> QED
      BY <2>1, <2>2
  <1>8. \A t \in Sessions : InBounds(t)' /\ InFlight(t)' /\ IdleIsBlank(t)'
    BY <1>1, <1>2 DEF InBounds, InFlight, IdleIsBlank, TypeOK
  <1> QED
    BY <1>5, <1>7, <1>8

LEMMA SaveHistoryInv ==
  ASSUME Inv, NEW s \in Sessions, SaveHistory(s) PROVE Inv'
  <1> USE DEF Inv
  <1>1. PICK b \in Bodies : Accepted(b) /\ body' = [body EXCEPT ![s] = b]
    BY DEF SaveHistory
  <1>2. /\ pc[s] = "idle" /\ pc' = [pc EXCEPT ![s] = "upsert"]
        /\ resp' = [resp EXCEPT ![s] = "none"] /\ UNCHANGED <<history, at, draft>>
    BY DEF SaveHistory
  <1>3. TypeOK'
    BY <1>1, <1>2 DEF TypeOK, Status
  <1>4. at[s] = 1 /\ draft[s] = NoDraft
    BY <1>2, NothingSaid DEF IdleIsBlank, DraftSays
  <1>5. Len(b) \in Nat
    BY BodyLen
  <1>6. \A t \in Sessions : InBounds(t)' /\ InFlight(t)' /\ IdleIsBlank(t)'
    BY <1>1, <1>2, <1>4, <1>5 DEF InBounds, InFlight, IdleIsBlank, TypeOK
  <1>7. \A t \in Sessions : DraftSays(t)'
    BY <1>1, <1>2, <1>4, NothingSaid DEF DraftSays, TypeOK
  <1> QED
    BY <1>3, <1>6, <1>7

LEMMA CommitType ==
  ASSUME Inv, NEW s \in Sessions, Commit(s)
  PROVE  history' \in [Users -> [Months -> Valid \cup {NoEntry}]]
  BY OwnerAssumption DEF Inv, TypeOK, Commit, Report

LEMMA InvStep == Inv /\ [Next]_vars => Inv'
  <1> SUFFICES ASSUME Inv, [Next]_vars PROVE Inv'
    OBVIOUS
  <1>1. CASE UNCHANGED vars
    BY <1>1 DEF vars, Inv, TypeOK, InBounds, InFlight, DraftSays, IdleIsBlank
  <1>2. ASSUME NEW s \in Sessions, Refuse(s) PROVE Inv'
    BY <1>2 DEF Refuse, Inv, TypeOK, InBounds, InFlight, DraftSays, IdleIsBlank,
                Status
  <1>3. ASSUME NEW s \in Sessions, Commit(s) PROVE Inv'
    BY <1>3, CommitType, AnswerInv DEF Commit, Report, Status
  <1>4. ASSUME NEW s \in Sessions, Abort(s) \/ DeadlockAbort(s) PROVE Inv'
    BY <1>4, AnswerInv DEF Abort, DeadlockAbort, Status, Inv, TypeOK
  <1> QED
    BY <1>1, <1>2, <1>3, <1>4, SaveHistoryInv, UpsertInv DEF Next, Work

(* Every reachable state is well typed; no refused value is ever written.  *)
THEOREM TypeCorrect == Spec => []TypeOK
  <1>1. Inv => TypeOK
    BY DEF Inv
  <1> QED
    BY <1>1, InvInit, InvStep, PTL DEF Spec

-----------------------------------------------------------------------------
(* Whole saves *)

LEMMA SameBodies == Log!Bodies = Bodies
  BY DEF Log!Bodies, Log!Entry, Bodies, Entry

Waiting == {s \in Sessions : pc[s] # "idle"}

LEMMA StopsWaiting ==
  ASSUME Inv, NEW s \in Sessions, NEW status, Answer(s, status), pc[s] # "idle"
  PROVE  Log!Done(s, status)
  <1>1. s \in Waiting /\ Waiting' = Waiting \ {s}
    BY DEF Inv, TypeOK, Answer, Waiting
  <1> QED
    BY <1>1 DEF Log!Done, Answer, Waiting

LEMMA LogStep == Inv /\ [Next]_vars => [Log!Next]_(Log!logVars)
  <1> SUFFICES ASSUME Inv, Next PROVE [Log!Next]_(Log!logVars)
    BY DEF vars, Log!logVars
  <1>1. ASSUME NEW s \in Sessions, SaveHistory(s) PROVE Log!Next
    <2>1. PICK b \in Bodies : body' = [body EXCEPT ![s] = b]
      BY <1>1 DEF SaveHistory
    <2>2. s \notin Waiting /\ Waiting' = Waiting \cup {s}
      BY <1>1 DEF SaveHistory, Inv, TypeOK, Waiting
    <2>3. Log!Ask(s, b)
      BY <1>1, <2>1, <2>2 DEF SaveHistory, Log!Ask, Waiting
    <2> QED
      BY <2>1, <2>3, SameBodies DEF Log!Next
  <1>2. ASSUME NEW s \in Sessions, Refuse(s) PROVE Log!Next
    BY <1>2 DEF Refuse, Log!Refuse, Log!Next
  <1>3. ASSUME NEW s \in Sessions, UpsertMonth(s) PROVE UNCHANGED Log!logVars
    BY <1>3 DEF UpsertMonth, Log!logVars
  <1>4. ASSUME NEW s \in Sessions, Commit(s) PROVE Log!Next
    <2>1. \E how \in {"ok", "error"} : Log!Done(s, how)
      BY <1>4, StopsWaiting DEF Commit, Report
    <2>2. at[s] - 1 = Len(body[s])
      BY <1>4, BodyLen DEF Commit, Inv, TypeOK, InBounds
    <2>3. draft[s] = Log!Said(body[s], Len(body[s]))
      BY <2>2 DEF Inv, DraftSays
    <2>4. history' = [history EXCEPT ![Owner[s]] =
                        Log!Over(@, Log!Said(body[s], Len(body[s])))]
      BY <1>4, <2>3 DEF Commit, Log!Over
    <2> QED
      BY <2>1, <2>4 DEF Log!Save, Log!Next
  <1>5. ASSUME NEW s \in Sessions, Abort(s) PROVE Log!Next
    BY <1>5, StopsWaiting DEF Abort, Log!Fail, Log!Next
  <1>6. ASSUME NEW s \in Sessions, DeadlockAbort(s) PROVE Log!Next
    <2>1. pc[s] # "idle"
      BY <1>6 DEF DeadlockAbort, Deadlocked, WaitsFor
    <2> QED
      BY <1>6, <2>1, StopsWaiting DEF DeadlockAbort, Log!Fail, Log!Next
  <1> QED
    BY <1>1, <1>2, <1>3, <1>4, <1>5, <1>6 DEF Next, Work

(* The statements of all saves amount to saves that happen in one step,    *)
(* whole or not at all, and are answered accordingly.                      *)
THEOREM SavesImplementLog == Spec => ImplementsLog
  <1>1. Init => Log!Init
    BY DEF Init, Log!Init, NoDraft
  <1> QED
    BY <1>1, InvInit, InvStep, LogStep, PTL DEF Spec, ImplementsLog, Log!Spec

-----------------------------------------------------------------------------
(* Deadlock *)

(* A bounded set of naturals that is not empty has a greatest element: the *)
(* distances to the bound have a least one.                                *)
LEMMA HasGreatest ==
  ASSUME NEW n \in Nat, NEW T \in SUBSET (0..n), T # {}
  PROVE  \E x \in T : \A y \in T : y <= x
<1> DEFINE R == OpToRel(<, Nat)
           S == {n - t : t \in T}
<1>1. \A t \in T : t \in Int /\ n - t \in Nat
  OBVIOUS
<1>2. S \in SUBSET Nat /\ S # {}
  <2>1. PICK t \in T : TRUE
    OBVIOUS
  <2>2. n - t \in S
    BY <2>1
  <2> QED
    BY <1>1, <2>2
<1>3. PICK s \in S : \A r \in S : <<r, s>> \notin R
  <2>1. IsWellFoundedOn(R, Nat)
    BY NatLessThanWellFounded
  <2> HIDE DEF R, S
  <2> QED
    BY <1>2, <2>1, WFMin
<1>4. PICK x \in T : s = n - x
  BY <1>3
<1>5. \A y \in T : ~(n - y < n - x)
  <2> TAKE y \in T
  <2>1. <<n - y, n - x>> \notin R
    BY <1>3, <1>4
  <2> QED
    BY <1>1, <2>1 DEF OpToRel
<1> QED
  BY <1>1, <1>4, <1>5

(* A chronological transaction holds only months before the one it waits   *)
(* for, so along a chain of waiting transactions the months grow: no cycle.*)
LEMMA NoCycle == Inv => OrderedSavesNeverDeadlock
  <1> SUFFICES ASSUME Inv, NEW D \in SUBSET Sessions,
                      \A d \in D : Chronological(body[d]), Deadlocked(D)
               PROVE  FALSE
    BY DEF OrderedSavesNeverDeadlock
  <1> DEFINE next(d) == body[d][at[d]].month
  <1>1. LastMonth \in Nat /\ Months = 0..LastMonth
    BY MonthsAssumption DEF Months
  <1>2. \A d \in D : /\ at[d] \in 1..Len(body[d]) /\ Len(body[d]) \in Nat
                     /\ next(d) \in Months
    <2> TAKE d \in D
    <2>1. at[d] <= Len(body[d])
      BY DEF Deadlocked, WaitsFor
    <2>2. body[d] \in Bodies /\ at[d] \in Nat /\ at[d] >= 1
      BY DEF Inv, TypeOK
    <2> QED
      BY <2>1, <2>2, BodyLen DEF Entry
  <1>3. \A d \in D : \E t \in D : next(d) < next(t)
    <2> TAKE d \in D
    <2>1. PICK t \in D : WaitsFor(d, t)
      BY DEF Deadlocked
    <2>2. draft[t][next(d)] # NoEntry
      BY <2>1 DEF WaitsFor
    <2> HIDE DEF next
    <2>3. PICK i \in 1..(at[t] - 1) : Log!Names(body[t], i, next(d))
      <3>1. draft[t] = Log!Said(body[t], at[t] - 1)
        BY DEF Inv, DraftSays
      <3>2. next(d) \in Months
        BY <1>2
      <3>3. Log!Said(body[t], at[t] - 1)[next(d)] # NoEntry
        BY <2>2, <3>1
      <3> QED
        BY <3>2, <3>3 DEF Log!Said
    <2>4. i \in 1..Len(body[t]) /\ i < at[t] /\ body[t][i].month = next(d)
      BY <1>2, <2>3 DEF Log!Names
    <2>5. body[t][i].month < body[t][at[t]].month
      BY <1>2, <2>4 DEF Chronological
    <2> QED
      BY <2>4, <2>5 DEF next
  <1> HIDE DEF next
  <1>3a. \A d \in D : next(d) \in Int
    <2> TAKE d \in D
    <2>1. next(d) \in Months
      BY <1>2
    <2>2. Months \subseteq Int
      BY <1>1
    <2> QED
      BY <2>1, <2>2
  <1>4. DEFINE T == {next(d) : d \in D}
  <1>5. T \in SUBSET (0..LastMonth) /\ T # {}
    <2>1. \A d \in D : next(d) \in 0..LastMonth
      BY <1>1, <1>2
    <2>2. D # {}
      BY DEF Deadlocked
    <2> QED
      BY <2>1, <2>2
  <1>6. PICK x \in T : \A y \in T : y <= x
    <2> HIDE DEF T
    <2> QED
      BY <1>1, <1>5, HasGreatest
  <1>7. PICK d \in D : x = next(d)
    BY <1>6
  <1>8. PICK t \in D : next(d) < next(t)
    BY <1>3
  <1> QED
    BY <1>3a, <1>6, <1>7, <1>8

(* Saves that list their months oldest first never deadlock.               *)
THEOREM ChronologicalSavesNeverDeadlock == Spec => []OrderedSavesNeverDeadlock
  BY InvInit, InvStep, NoCycle, PTL DEF Spec

=============================================================================
