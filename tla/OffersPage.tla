----------------------------- MODULE OffersPage -----------------------------
(***************************************************************************)
(* The offers in one browser tab: the cached list and the mutations of     *)
(* useOffers (on TanStack Query), the OffersPage with its form and the     *)
(* modal of public offers, the simulation the Dashboard leaves in the      *)
(* cache, and the two podiums computed from both.  The server keeps the    *)
(* offers; requests are served and answered in any order, or fail, and     *)
(* another tab may write too.  The session is that of module Dashboard.    *)
(*                                                                         *)
(* onSuccess returns the promise of the refetch, so a mutation is pending, *)
(* and the form open, until the list has been read anew.                   *)
(*                                                                         *)
(* Typing is not step by step: what a form may hold when it is submitted   *)
(* is any of Fillings.  A Bug_X is X as a slip would leave it; nothing uses *)
(* it, but the properties are checked to tell it from X.                   *)
(***************************************************************************)
EXTENDS Integers, FiniteSets, Sequences, Sorting

CONSTANTS
  MaxId,         \* bound: offers ever created
  MaxWrites,     \* bound: writes sent, here and in the other tab
  MaxFlight,     \* bound: requests in flight
  Edited,        \* bound: the fields a user ever changes
  Typed,         \* bound: the numbers a user types
  Shared,        \* public offers of other users
  InitialOffers, \* what the user may have stored before
  Solar,         \* profile.has_solar_panels
  None           \* an offer that is not there; an emptied number field

Texts == {"name", "provider"}
Numbers == {"peak", "mid", "valley", "powerPeak", "powerValley", "surplus", "months"}
Toggles == {"flat", "same", "permanence", "green", "current", "public"}
Fields == Texts \cup Numbers \cup Toggles
Words == {"", "text"}
Ids == 1..MaxId

(* is_current and is_public of an import, the others as in the source.     *)
Stored(o) == /\ DOMAIN o = Fields
             /\ \A f \in Texts : o[f] \in Words
             /\ \A f \in Numbers : o[f] \in Int
             /\ \A f \in Toggles : o[f] \in BOOLEAN

Priced(o) == \A f \in Numbers \ {"months"} : o[f] >= 0

ASSUME BoundsAssumption == MaxId \in Nat /\ MaxWrites \in Nat /\ MaxFlight \in Nat
ASSUME NoneAssumption == None \notin Int /\ None \notin [Ids -> Int \cup {None}]
ASSUME EditedAssumption == Edited \subseteq Fields \ {"green"}
ASSUME TypedAssumption == Typed \ {None} \subseteq Int
(* What is stored before has been given the first ids.                     *)
ASSUME OffersAssumption ==
  /\ \A o \in Shared : Stored(o)
  /\ \A os \in InitialOffers :
       /\ DOMAIN os = Ids
       /\ \E k \in 0..MaxId : \A i \in Ids :
            IF i <= k THEN os[i] # None /\ Stored(os[i]) ELSE os[i] = None

VARIABLES
  offers,   \* server: the user's offers, None where there is none
  created,  \* server: ids given so far
  writes,   \* writes sent so far
  list,     \* the offers query: its data, None before the first
  flight,   \* requests sent whose promise has not been settled
  route,    \* "/" or "/offers"
  form,     \* showForm and editingOffer
  modal,    \* showPublicOffers: "closed" or "open"
  sim,      \* the annualSimulation query: year totals by offer
  missed    \* the server has been written to and this tab was not told

vars == <<offers, created, writes, list, flight, route, form, modal, sim, missed>>
server == <<offers, created>>
screen == <<route, form, modal>>

-----------------------------------------------------------------------------
(* The form *)

Blank == [f \in Fields |-> CASE f \in Texts -> ""
                             [] f \in Numbers -> 0
                             [] f \in Toggles -> FALSE]

(* The inputs on screen, the only ones that are validated.                 *)
Visible(v) ==
  Fields \ ((IF v["flat"] THEN {"mid", "valley"} ELSE {})
            \cup (IF v["same"] THEN {"powerValley"} ELSE {})
            \cup (IF Solar THEN {} ELSE {"surplus"})
            \cup (IF v["permanence"] THEN {} ELSE {"months"}))

(* Prices of any sign. *)
Bug_Passes(f, x) ==
  CASE f \in Texts -> x # ""
    [] f = "surplus" -> x = None \/ x >= 0
    [] f = "months" -> x # None /\ x \in 1..60
    [] f \in Numbers \ {"surplus", "months"} -> x # None
    [] OTHER -> TRUE

Passes(f, x) ==
  CASE f \in Texts -> x # ""
    [] f = "surplus" -> x = None \/ x >= 0
    [] f = "months" -> x # None /\ x \in 1..60
    [] f \in Numbers \ {"surplus", "months"} -> x # None /\ x >= 0
    [] OTHER -> TRUE

Valid(v) == \A f \in Visible(v) : Passes(f, v[f])

(* What keystrokes can make of a form.  The radio "No" of the permanence   *)
(* sets the months to 0; they cannot be typed without it.                  *)
Inputs(f, base) == CASE f \in Texts -> Words
                      [] f \in Toggles -> BOOLEAN
                      [] f = "months" -> Typed \cup {base[f], 0}
                      [] OTHER -> Typed \cup {base[f]}
Radio(v, base) ==
  IF v["permanence"] THEN v
  ELSE [v EXCEPT !["months"] = IF base["permanence"] THEN 0 ELSE base["months"]]
Typing(base, t, n, b) ==
  [f \in Fields |-> CASE f \notin Edited -> base[f]
                      [] f \in Edited \cap Texts -> t[f]
                      [] f \in Edited \cap Numbers -> n[f]
                      [] f \in Edited \cap Toggles -> b[f]]
TypedNumbers(base) ==
  {n \in [Edited \cap Numbers -> Typed \cup {0} \cup {base[f] : f \in Numbers}] :
     \A f \in Edited \cap Numbers : n[f] \in Inputs(f, base)}
Fillings(base) ==
  {Radio(Typing(base, t, n, b), base) : t \in [Edited \cap Texts -> Words],
                                        n \in TypedNumbers(base),
                                        b \in [Edited \cap Toggles -> BOOLEAN]}

(* The request's body: an emptied number is NaN, null in JSON, and leaves  *)
(* the zero of the server's struct.                                        *)
Sent(v) == [f \in Fields |-> IF f \in Numbers /\ v[f] = None THEN 0 ELSE v[f]]

-----------------------------------------------------------------------------
(* The server, one request at a time (OfferBook)                           *)

(* validateOfferInput, whatever the form shows of the offer.               *)
Acceptable(o) ==
  /\ \A f \in Texts : o[f] # ""
  /\ Priced(o)
  /\ o["permanence"] => o["months"] > 0

Without(o) == IF o = None THEN None ELSE [o EXCEPT !["current"] = FALSE]
Put(id, o) == [i \in Ids |-> IF i = id THEN o
                             ELSE IF o["current"] THEN Without(offers[i]) ELSE offers[i]]

(* Stands for the year's bill, that module Billing computes: a kWh in each *)
(* period and a kW in each, less a kWh sold, whose credit may exceed them. *)
Cost(o) ==
  (IF o["flat"] THEN 3 * o["peak"] ELSE o["peak"] + o["mid"] + o["valley"])
  + (IF o["same"] THEN 2 * o["powerPeak"] ELSE o["powerPeak"] + o["powerValley"])
  - o["surplus"]
Totals(os) == [i \in Ids |-> IF os[i] = None THEN None ELSE Cost(os[i])]

-----------------------------------------------------------------------------
(* The two podiums, of a list and a simulation's totals.  Lists come       *)
(* newest first.                                                           *)

CurrentOf(data) == {i \in Ids : /\ data[i] # None /\ data[i]["current"]
                                /\ \A j \in Ids : j > i /\ data[j] # None => ~data[j]["current"]}
Before(totals, i, j) == \/ totals[i] < totals[j]
                        \/ totals[i] = totals[j] /\ i > j
First3(seq) == SubSeq(seq, 1, IF Len(seq) < 3 THEN Len(seq) ELSE 3)
Simulated(totals) == {i \in Ids : totals # None /\ totals[i] # None}

(* OffersPage: nothing is compared with a current offer that was not       *)
(* simulated or whose year costs exactly nothing; no card has a medal or a *)
(* saving then, whatever the others cost.                                  *)
Reference(data, totals) ==
  {c \in CurrentOf(data) : c \in Simulated(totals) /\ totals[c] # 0}
AnnualSaving(data, totals) ==
  [i \in UNION {Simulated(totals) \ {c} : c \in Reference(data, totals)} |->
     LET c == CHOOSE c \in Reference(data, totals) : TRUE IN totals[i] - totals[c]]

(* What is dearer may be on the podium. *)
Bug_Podium(data, totals) ==
  LET saving == AnnualSaving(data, totals)
  IN  First3(Sorted(DOMAIN saving,
                    LAMBDA i, j : Before(totals, i, j)))

Podium(data, totals) ==
  LET saving == AnnualSaving(data, totals)
  IN  First3(Sorted({i \in DOMAIN saving : saving[i] < 0},
                    LAMBDA i, j : Before(totals, i, j)))

(* The order of the cards: what was not simulated comes last.              *)
SortedOffers(data, totals) ==
  Sorted({i \in Ids : data[i] # None},
    LAMBDA i, j : IF Reference(data, totals) = {} \/ {i, j} \cap Simulated(totals) = {}
                    THEN i > j
                  ELSE IF {i, j} \subseteq Simulated(totals) THEN Before(totals, i, j)
                  ELSE i \in Simulated(totals))

(* A card: its rank, and the saving unless it is the current offer.        *)
Card(data, totals, i) ==
  [rank |-> {p \in DOMAIN Podium(data, totals) : Podium(data, totals)[p] = i},
   saving |-> IF data[i]["current"] \/ i \notin DOMAIN AnnualSaving(data, totals)
                THEN {} ELSE {AnnualSaving(data, totals)[i]}]

(* The Dashboard's top3, whatever the current offer costs, and what an     *)
(* empty place says.                                                       *)
Top3(data, totals) ==
  First3(Sorted(
    {i \in Simulated(totals) : \E c \in CurrentOf(data) \cap Simulated(totals) :
                                 i # c /\ totals[i] < totals[c]},
    LAMBDA i, j : Before(totals, i, j)))
KpiCard(data, totals, p) ==
  LET i == Top3(data, totals)[p]
  IN  [offer |-> i, savings |-> totals[CHOOSE c \in CurrentOf(data) : TRUE] - totals[i]]
Hint(data, totals) == IF CurrentOf(data) = {} THEN "no current offer"
                      ELSE IF totals = None THEN "not simulated" ELSE "none cheaper"

-----------------------------------------------------------------------------
(* Requests *)

WriteKinds == {"create", "update", "delete", "import"}
Request(kind, id, values) ==
  [kind |-> kind, id |-> id, values |-> values, base |-> None, status |-> "sent",
   \* tells two requests of a kind apart
   n |-> CHOOSE k \in 1..(MaxFlight + 2) : \A r \in flight : r.kind = kind => r.n # k,
   \* whose mutation it is: the page's, of a form left meanwhile, or nobody's
   waits |-> "page",
   \* nothing has been written since it knew, or will know, the server
   sure |-> TRUE]

FirstRead == [kind |-> "read", id |-> None, values |-> None, base |-> None,
              status |-> "sent", n |-> 1, waits |-> "page", sure |-> TRUE]
Reads(rest) == {r \in rest : r.kind = "read"}
Refreshing(rest) == {r \in rest : r.status = "refreshing"}
Pending(kinds) == {r \in flight : r.kind \in kinds /\ r.waits # "nobody"}
Room(n) == Cardinality(flight) + n <= MaxFlight

(* The list is what the server has, as far as this tab can know.           *)
Told == /\ ~missed /\ list.ok
        /\ \A r \in flight : r.kind \in WriteKinds => r.status \notin {"ok", "refreshing"}

NoForm == [open |-> FALSE, id |-> None, base |-> None, sure |-> TRUE]

(* Mutations whose refetch has ended, or has been given up, are done:      *)
(* handleSubmit goes on and closes the form, whichever is open by now.     *)
Settle(done) ==
  form' = IF \E r \in done : r.kind \in {"create", "update"} /\ r.waits # "nobody"
            THEN NoForm ELSE form

(* What a write does to what others know.                                  *)
Outdate(rest) ==
  {IF \/ r.kind = "update" /\ r.status = "sent"
      \/ r.kind = "simulate" /\ r.status = "ok"
     THEN [r EXCEPT !.sure = FALSE] ELSE r : r \in rest}
Miss(rest) ==
  {IF r.kind = "read" /\ r.status = "ok" THEN [r EXCEPT !.sure = FALSE] ELSE r : r \in rest}

-----------------------------------------------------------------------------
(* What the user does *)

OpenNew ==
  /\ route = "/offers" /\ ~form.open /\ modal = "closed"
  /\ form' = [open |-> TRUE, id |-> None, base |-> Blank, sure |-> TRUE]
  /\ UNCHANGED <<server, writes, list, flight, route, modal, sim, missed>>

(* is_public is not copied into the form. *)
Bug_FormOf(o) == [f \in Fields |-> IF f = "public" THEN FALSE ELSE o[f]]

(* reset(...): every field of the offer as it was listed.                  *)
FormOf(o) == [f \in Fields |-> o[f]]

OpenEdit ==
  /\ route = "/offers" /\ ~form.open /\ modal = "closed" /\ list.data # None
  /\ \E i \in Ids :
       /\ list.data[i] # None
       /\ form' = [open |-> TRUE, id |-> i, base |-> FormOf(list.data[i]), sure |-> Told]
  /\ UNCHANGED <<server, writes, list, flight, route, modal, sim, missed>>

(* The button is disabled while a form of this mount is being saved.       *)
Submit ==
  /\ form.open /\ Pending({"create", "update"}) = {}
  /\ writes < MaxWrites /\ Room(1)
  /\ form.id = None => created + Cardinality({r \in flight : r.kind \in {"create", "import"}
                                                /\ r.status = "sent"}) < MaxId
  /\ \E v \in Fillings(form.base) :
       /\ Valid(v)
       /\ flight' = flight \cup
            {[Request(IF form.id = None THEN "create" ELSE "update", form.id, v)
                EXCEPT !.base = form.base, !.sure = form.sure]}
  /\ writes' = writes + 1
  /\ UNCHANGED <<server, list, screen, sim, missed>>

(* Also while it is being saved. *)
CancelForm ==
  /\ form.open
  /\ form' = NoForm
  /\ flight' = {IF r.kind \in {"create", "update"} /\ r.waits = "page"
                  THEN [r EXCEPT !.waits = "left"] ELSE r : r \in flight}
  /\ UNCHANGED <<server, writes, list, route, modal, sim, missed>>

DeleteOffer ==
  /\ route = "/offers" /\ ~form.open /\ modal = "closed" /\ list.data # None
  /\ writes < MaxWrites /\ Room(1)
  /\ \E i \in Ids : /\ list.data[i] # None
                    /\ flight' = flight \cup {Request("delete", i, None)}
  /\ writes' = writes + 1
  /\ UNCHANGED <<server, list, screen, sim, missed>>

(* The modal reads the public list, that no write reads anew.              *)
OpenPublic ==
  /\ route = "/offers" /\ ~form.open /\ modal = "closed"
  /\ modal' = "open"
  /\ UNCHANGED <<server, writes, list, flight, route, form, sim, missed>>

(* One import of this modal at a time, of an offer the list had.           *)
ImportOffer ==
  /\ modal = "open" /\ Pending({"import"}) = {}
  /\ writes < MaxWrites /\ Room(1)
  /\ created + Cardinality({r \in flight : r.kind \in {"create", "import"}
                                           /\ r.status = "sent"}) < MaxId
  /\ \E o \in Shared : flight' = flight \cup {Request("import", None, o)}
  /\ writes' = writes + 1
  /\ UNCHANGED <<server, list, screen, sim, missed>>

Leave(kinds) == {IF r.kind \in kinds THEN [r EXCEPT !.waits = "nobody"] ELSE r : r \in flight}

ClosePublic ==
  /\ modal # "closed"
  /\ modal' = "closed"
  /\ flight' = Leave({"import"})
  /\ UNCHANGED <<server, writes, list, route, form, sim, missed>>

(* The page unmounts; what it has sent goes on without it.                 *)
Navigate ==
  /\ route' = IF route = "/" THEN "/offers" ELSE "/"
  /\ form' = NoForm /\ modal' = "closed"
  /\ flight' = Leave(WriteKinds \cup {"simulate"})
  /\ UNCHANGED <<server, writes, list, sim, missed>>

AnnualSimulate ==
  /\ route = "/" /\ list.data # None /\ \E i \in Ids : list.data[i] # None
  /\ Pending({"simulate"}) = {} /\ Room(1)
  /\ flight' = flight \cup {Request("simulate", None, None)}
  /\ UNCHANGED <<server, writes, list, screen, sim, missed>>

(* Either page mounts, or the window gets the focus, and the list is stale *)
Refetch ==
  /\ Reads(flight) = {} /\ Room(1)
  /\ flight' = flight \cup {Request("read", None, None)}
  /\ UNCHANGED <<server, writes, list, screen, sim, missed>>

-----------------------------------------------------------------------------
(* The server serves *)

(* r is answered and the offers become os; Miss if nobody tells this tab.  *)
Written(r, os) ==
  /\ offers' = os
  /\ flight' = Outdate(flight \ {r}) \cup {[r EXCEPT !.status = "ok"]}
  /\ form' = [form EXCEPT !.sure = FALSE]
  /\ sim' = [sim EXCEPT !.sure = FALSE]
  /\ UNCHANGED <<writes, list, route, modal, missed>>

Refuse(r) ==
  /\ flight' = (flight \ {r}) \cup {[r EXCEPT !.status = "refused", !.values = None]}
  /\ UNCHANGED <<server, writes, list, screen, sim, missed>>

ServeRead(r) ==
  /\ r.status = "sent" /\ r.kind \in {"read", "simulate"}
  /\ flight' = (flight \ {r}) \cup
       {[r EXCEPT !.status = "ok",
                  !.values = IF r.kind = "read" THEN offers ELSE Totals(offers)]}
  /\ UNCHANGED <<server, writes, list, screen, sim, missed>>

ServeCreate(r) ==
  /\ r.status = "sent" /\ r.kind = "create"
  /\ IF Acceptable(Sent(r.values))
       THEN created' = created + 1 /\ Written(r, Put(created', Sent(r.values)))
       ELSE Refuse(r)

ServeUpdate(r) ==
  /\ r.status = "sent" /\ r.kind = "update"
  /\ IF Acceptable(Sent(r.values)) /\ offers[r.id] # None
       THEN created' = created /\ Written(r, Put(r.id, Sent(r.values)))
       ELSE Refuse(r)

ServeDelete(r) ==
  /\ r.status = "sent" /\ r.kind = "delete"
  /\ IF offers[r.id] # None
       THEN created' = created /\ Written(r, [offers EXCEPT ![r.id] = None])
       ELSE Refuse(r)

(* Unless it is not public any more.                                       *)
ServeImport(r) ==
  /\ r.status = "sent" /\ r.kind = "import"
  /\ \/ /\ created' = created + 1
        /\ Written(r, Put(created', [r.values EXCEPT !["current"] = FALSE, !["public"] = FALSE]))
     \/ Refuse(r)

(* Another tab of the user changes a field of an offer or deletes it.      *)
Elsewhere ==
  /\ writes < MaxWrites
  /\ writes' = writes + 1
  /\ \E i \in Ids :
       /\ offers[i] # None
       /\ \/ offers' = [offers EXCEPT ![i] = None]
          \/ \E f \in Edited : \E x \in Inputs(f, offers[i]) :
               LET v == [offers[i] EXCEPT ![f] = x]
               IN  Valid(v) /\ Acceptable(Sent(v)) /\ offers' = Put(i, Sent(v))
  /\ offers' # offers
  /\ flight' = Miss(Outdate(flight)) /\ missed' = TRUE
  /\ form' = [form EXCEPT !.sure = FALSE]
  /\ sim' = [sim EXCEPT !.sure = FALSE]
  /\ UNCHANGED <<created, list, route, modal>>

-----------------------------------------------------------------------------
(* Answers *)

(* A read under way is left to end. *)
Bug_WriteAnswered(r) ==
  /\ r.kind \in WriteKinds /\ r.status = "ok"
  /\ LET rest == flight \ {r}
         me == [r EXCEPT !.status = "refreshing", !.values = None, !.sure = TRUE]
     IN  /\ flight' = IF Reads(rest) # {} THEN rest \cup {me}
                      ELSE rest \cup {me, Request("read", None, None)}
         /\ UNCHANGED <<missed, form>>
  /\ UNCHANGED <<server, writes, list, route, modal, sim>>

(* onSuccess: the list is invalid and is read anew, by either page.  A     *)
(* read under way is given up for it, and those who waited for it go on,   *)
(* unless it is the first one: that one is left to end, and if it has been *)
(* served already nobody will tell what it missed.                         *)
WriteAnswered(r) ==
  /\ r.kind \in WriteKinds /\ r.status = "ok"
  /\ LET rest == flight \ {r}
         me == [r EXCEPT !.status = "refreshing", !.values = None, !.sure = TRUE]
     IN  IF list.data = None /\ Reads(rest) # {}
           THEN /\ flight' = Miss(rest) \cup {me}
                /\ missed' = (missed \/ \E q \in Reads(rest) : q.status = "ok")
                /\ UNCHANGED form
           ELSE /\ flight' = (rest \ (Reads(rest) \cup Refreshing(rest)))
                             \cup {me, Request("read", None, None)}
                /\ Settle(Refreshing(rest))
                /\ UNCHANGED missed
  /\ UNCHANGED <<server, writes, list, route, modal, sim>>

ReadAnswered(r) ==
  /\ r.kind = "read" /\ r.status = "ok"
  /\ list' = [data |-> r.values, ok |-> TRUE]
  /\ missed' = (missed /\ ~r.sure)
  /\ flight' = flight \ ({r} \cup Refreshing(flight))
  /\ Settle(Refreshing(flight))
  /\ UNCHANGED <<server, writes, route, modal, sim>>

SimulationAnswered(r) ==
  /\ r.kind = "simulate" /\ r.status = "ok"
  /\ sim' = [totals |-> r.values, sure |-> r.sure]
  /\ flight' = flight \ {r}
  /\ UNCHANGED <<server, writes, list, screen, missed>>

(* A mutation waits on, though nobody reads. *)
Bug_ReadFailed(r) ==
  /\ r.kind = "read"
  /\ list' = [list EXCEPT !.ok = FALSE]
  /\ flight' = flight \ {r}
  /\ UNCHANGED <<server, writes, screen, sim, missed>>

(* The query keeps its data.                                               *)
ReadFailed(r) ==
  /\ r.kind = "read"
  /\ list' = [list EXCEPT !.ok = FALSE]
  /\ flight' = flight \ ({r} \cup Refreshing(flight))
  /\ Settle(Refreshing(flight))
  /\ UNCHANGED <<server, writes, route, modal, sim, missed>>

(* The form closes whatever the answer. *)
Bug_RequestFailed(r) ==
  /\ r.kind # "read" /\ r.status # "refreshing"
  /\ LET untold == r.kind \in WriteKinds /\ r.status = "ok"
     IN  /\ missed' = (missed \/ untold)
         /\ flight' = IF untold THEN Miss(flight \ {r}) ELSE flight \ {r}
  /\ Settle({r})
  /\ UNCHANGED <<server, writes, list, route, modal, sim>>

(* Refused, or lost before or after it was served: handleSubmit throws.    *)
RequestFailed(r) ==
  /\ r.kind # "read" /\ r.status # "refreshing"
  /\ LET untold == r.kind \in WriteKinds /\ r.status = "ok"
     IN  /\ missed' = (missed \/ untold)
         /\ flight' = IF untold THEN Miss(flight \ {r}) ELSE flight \ {r}
  /\ UNCHANGED <<server, writes, list, screen, sim>>

-----------------------------------------------------------------------------
Init ==
  /\ offers \in InitialOffers
  /\ created = Cardinality({i \in Ids : offers[i] # None})
  /\ writes = 0
  /\ list = [data |-> None, ok |-> FALSE]
  /\ flight = {FirstRead}
  /\ route \in {"/", "/offers"} /\ form = NoForm /\ modal = "closed"
  /\ sim = [totals |-> None, sure |-> FALSE] /\ missed = FALSE

User == OpenNew \/ OpenEdit \/ Submit \/ CancelForm \/ DeleteOffer \/ OpenPublic
        \/ ImportOffer \/ ClosePublic \/ Navigate \/ AnnualSimulate
Serve(r) == ServeRead(r) \/ ServeCreate(r) \/ ServeUpdate(r) \/ ServeDelete(r)
            \/ ServeImport(r)
Receive(r) == WriteAnswered(r) \/ ReadAnswered(r) \/ SimulationAnswered(r)
              \/ ReadFailed(r) \/ RequestFailed(r)
Next == User \/ Refetch \/ Elsewhere
        \/ \E r \in flight : Serve(r) \/ Receive(r)
Spec == Init /\ [][Next]_vars

-----------------------------------------------------------------------------
(* Properties *)

(* Every variable stays in its type; a form, the modal and the simulation  *)
(* of the other page exclude each other; there is one read at a time, and  *)
(* no mutation waits for a read that nobody is doing.                      *)
TypeOK ==
  /\ created \in 0..MaxId /\ writes \in 0..MaxWrites
  /\ \A i \in Ids : /\ i > created => offers[i] = None
                    /\ offers[i] # None => Stored(offers[i])
  /\ Cardinality(flight) <= MaxFlight + 1
  /\ \A r \in flight : /\ r.status \in {"sent", "ok", "refused", "refreshing"}
                       /\ r.waits \in {"page", "left", "nobody"}
  /\ form.open => route = "/offers" /\ modal = "closed"
  /\ modal # "closed" => route = "/offers"
  /\ Cardinality(Reads(flight)) <= 1
  /\ Refreshing(flight) # {} => Reads(flight) # {}

(* Once every write of this tab has been answered and its refetch is over, *)
(* the list is what the server has, whatever the order of reads and        *)
(* writes, failures and refusals; unless another tab has written, an       *)
(* answer was lost or a write ended before the first read.                 *)
ListCoherent == Told => list.data = offers

(* What a user did not change in a form is not changed by saving it, if    *)
(* the form was opened on such a list and nothing else was written since.  *)
UntouchedStay ==
  [][\A r \in flight :
       (r.kind = "update" /\ r.sure /\ [r EXCEPT !.status = "ok"] \in flight' \ flight)
       => \A f \in Fields : r.values[f] = r.base[f]
            => offers'[r.id][f] = offers[r.id][f]]_vars

(* A form closes under its user only by its own submission, carried out    *)
(* and read back, or by one whose form was closed while it was saved.      *)
FormKept ==
  [][form.open /\ ~form'.open /\ route' = route
     /\ Cardinality(flight') < Cardinality(flight)
       => \E r \in Refreshing(flight) :
            /\ r.kind \in {"create", "update"}
            /\ \/ r.waits = "left"
               \/ r.id = form.id /\ r.base = form.base]_vars

(* What the form lets through the server accepts, unless the offer is gone *)
(* or a price the form does not show, and did not check, is negative.      *)
RefusedForCause ==
  [][\A r \in flight :
       (/\ r.kind \in {"create", "update"} /\ r.status = "sent"
        /\ [r EXCEPT !.status = "refused", !.values = None] \in flight' \ flight)
       => \/ r.kind = "update" /\ offers[r.id] = None
          \/ \E f \in Numbers \ Visible(r.values) : r.values[f] # None /\ r.values[f] < 0]_vars

(* If nothing was written since the simulation, the Dashboard's three are  *)
(* right: the p-th is cheaper than the current offer and at most p - 1     *)
(* offers are cheaper still, nobody cheaper than one of them is left out,  *)
(* the savings and what an empty place says are true.  The offers page     *)
(* gives the same three its medals, its cards begin with them, and every   *)
(* card has its true difference with the current offer; unless that one    *)
(* costs exactly nothing a year: then, though others may cost less than    *)
(* nothing, it has no medal and no difference, and only the Dashboard      *)
(* recommends them.                                                        *)
PodiumTrue ==
  Told /\ sim.sure =>
    LET podium == Podium(list.data, sim.totals)
        top3 == Top3(list.data, sim.totals)
        cards == SortedOffers(list.data, sim.totals)
        current == {i \in Ids : offers[i] # None /\ offers[i]["current"]}
        Cheaper(i) == {j \in Ids : offers[j] # None /\ Cost(offers[j]) < Cost(offers[i])}
        cheap == UNION {Cheaper(c) : c \in current}
        Saving(i) == {Cost(offers[i]) - Cost(offers[c]) : c \in current}
        free == \E c \in current : Cost(offers[c]) = 0
    IN  /\ Len(top3) = IF Cardinality(cheap) < 3 THEN Cardinality(cheap) ELSE 3
        /\ \A p \in DOMAIN top3 :
             LET card == KpiCard(list.data, sim.totals, p)
             IN  /\ top3[p] \in cheap
                 /\ Cardinality(Cheaper(top3[p])) < p
                 /\ card.offer = top3[p] /\ -card.savings \in Saving(top3[p])
        /\ \A i \in cheap \ {top3[p] : p \in DOMAIN top3} :
             \A p \in DOMAIN top3 : Cost(offers[top3[p]]) <= Cost(offers[i])
        /\ Len(top3) < 3 => Hint(list.data, sim.totals) =
                              IF current = {} THEN "no current offer" ELSE "none cheaper"
        /\ podium = IF free THEN <<>> ELSE top3
        /\ \A p \in DOMAIN podium : podium[p] = cards[p]
        /\ \A i \in Ids : offers[i] # None =>
             LET card == Card(list.data, sim.totals, i)
             IN  /\ card.saving = IF free \/ i \in current THEN {} ELSE Saving(i)
                 /\ card.rank = {p \in DOMAIN top3 : ~free /\ top3[p] = i}

=============================================================================
