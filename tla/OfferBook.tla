------------------------------ MODULE OfferBook ------------------------------
(***************************************************************************)
(* What the offer operations promise, as one atomic step each: putting an  *)
(* offer (create, update, import) or removing one.  Making an offer        *)
(* current takes the flag from the user's other offers in the same step.   *)
(***************************************************************************)
EXTENDS Naturals

CONSTANTS Users, Values, MaxId, NoRow

Ids == 1..MaxId
Row == [owner: Users, content: Users \X Values,
        current: BOOLEAN, public: BOOLEAN]

VARIABLE book

Demoted(r, u) == IF r # NoRow /\ r.owner = u
                   THEN [r EXCEPT !.current = FALSE] ELSE r

(* User u puts r at id i, a new id or one of his own.                      *)
Put(u, i, r) ==
  /\ r.owner = u
  /\ book[i] = NoRow \/ book[i].owner = u
  /\ book' = [j \in Ids |-> IF j = i THEN r
                            ELSE IF r.current THEN Demoted(book[j], u)
                            ELSE book[j]]

Remove(u, i) ==
  /\ book[i] # NoRow /\ book[i].owner = u
  /\ book' = [book EXCEPT ![i] = NoRow]

Init == book = [i \in Ids |-> NoRow]

Next == \E u \in Users, i \in Ids :
          Remove(u, i) \/ \E r \in Row : Put(u, i, r)

Spec == Init /\ [][Next]_book

=============================================================================
