--------------------------- MODULE ConsumptionLog ---------------------------
(***************************************************************************)
(* What saving a consumption history promises: a request is answered once, *)
(* and either every month it names takes the last value it gives for it,   *)
(* in one step, or nothing happens.                                        *)
(***************************************************************************)
EXTENDS Naturals, Sequences

CONSTANTS Sessions, Users, Owner, Months, Values, MaxEntries, NoEntry

Entry == [month: Months, value: Values]
Bodies == UNION {[1..n -> Entry] : n \in 0..MaxEntries}
Answers == {"none", "ok", "invalid", "error"}

VARIABLES history, waiting, asked, answer

logVars == <<history, waiting, asked, answer>>

Names(b, i, m) == i \in 1..Len(b) /\ b[i].month = m

(* The last of b's first n entries about month m.                          *)
LastOf(b, n, m) ==
  CHOOSE i \in 1..n : /\ Names(b, i, m)
                      /\ \A j \in 1..n : Names(b, j, m) => j <= i

(* What b's first n entries say of each month.                             *)
Said(b, n) ==
  [m \in Months |-> IF \E i \in 1..n : Names(b, i, m)
                      THEN b[LastOf(b, n, m)].value ELSE NoEntry]

Over(h, said) == [m \in Months |-> IF said[m] # NoEntry THEN said[m] ELSE h[m]]

Ask(s, b) ==
  /\ s \notin waiting
  /\ waiting' = waiting \cup {s}
  /\ asked' = [asked EXCEPT ![s] = b]
  /\ answer' = [answer EXCEPT ![s] = "none"]
  /\ UNCHANGED history

Done(s, how) ==
  /\ s \in waiting
  /\ waiting' = waiting \ {s}
  /\ asked' = [asked EXCEPT ![s] = <<>>]
  /\ answer' = [answer EXCEPT ![s] = how]

(* Saved, and said so unless the connection failed just then.              *)
Save(s) ==
  /\ \E how \in {"ok", "error"} : Done(s, how)
  /\ history' = [history EXCEPT
       ![Owner[s]] = Over(@, Said(asked[s], Len(asked[s])))]

Fail(s) == Done(s, "error") /\ UNCHANGED history

Refuse(s) ==
  /\ s \notin waiting
  /\ answer' = [answer EXCEPT ![s] = "invalid"]
  /\ UNCHANGED <<history, waiting, asked>>

Init ==
  /\ history = [u \in Users |-> [m \in Months |-> NoEntry]]
  /\ waiting = {}
  /\ asked = [s \in Sessions |-> <<>>]
  /\ answer = [s \in Sessions |-> "none"]

Next == \E s \in Sessions : \/ \E b \in Bodies : Ask(s, b)
                            \/ Save(s) \/ Fail(s) \/ Refuse(s)

Spec == Init /\ [][Next]_logVars

=============================================================================
