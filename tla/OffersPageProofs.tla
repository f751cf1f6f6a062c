--------------------------- MODULE OffersPageProofs ---------------------------
(* Theorems about OffersPage, for every number of offers, writes and       *)
(* requests in flight, every filling of the form and every public offer.   *)
EXTENDS OffersPage, FiniteSetTheorems, TLAPS

(* The values of a function on a finite set are no more than its members.  *)
LEMMA ImageBound ==
  ASSUME NEW S, IsFiniteSet(S), NEW g, NEW T, T \subseteq {g[p] : p \in S}
  PROVE  IsFiniteSet(T) /\ Cardinality(T) <= Cardinality(S)
<1> DEFINE I == {g[p] : p \in S}
<1>1. [p \in S |-> g[p]] \in Surjection(S, I)
  BY DEF Surjection
<1>2. IsFiniteSet(I) /\ Cardinality(I) <= Cardinality(S)
  <2> HIDE DEF I
  <2>1. PICK h : h \in Surjection(S, I)
    BY <1>1
  <2> QED
    BY <2>1, FS_Surjection
<1>3. IsFiniteSet(T) /\ Cardinality(T) <= Cardinality(I)
  BY <1>2, FS_Subset
<1> QED
  BY <1>2, <1>3, FS_CardinalityType

-----------------------------------------------------------------------------
(* What is in flight: requests of the eight fields of Request, of which    *)
(* kind and number tell one from another, few enough to number one more.   *)

RequestFields == {"kind", "id", "values", "base", "status", "n", "waits", "sure"}
Shaped(r) ==
  /\ r = [x \in RequestFields |-> r[x]]
  /\ r.kind \in WriteKinds \cup {"read", "simulate"}
  /\ r.status \in {"sent", "ok", "refused", "refreshing"}
  /\ r.waits \in {"page", "left", "nobody"}
  /\ r.sure \in BOOLEAN

(* The same request, now and before: kind and number say which it is.       *)
Same(p, r) == p.kind = r.kind /\ p.n = r.n

Keyed == \A r, q \in flight : Same(r, q) => r = q
OneRead == \A r, q \in Reads(flight) : r = q
Mutations == {r \in flight : r.kind # "read"}
Creating == {r \in flight : r.kind \in {"create", "import"} /\ r.status = "sent"}

FlightInv ==
  /\ IsFiniteSet(flight) /\ \A r \in flight : Shaped(r)
  /\ Keyed /\ OneRead
  /\ Cardinality(Mutations) <= MaxFlight

(* What the server and the tab hold are offers; what was submitted passed  *)
(* the form.                                                               *)
Snapshot(os) == DOMAIN os = Ids /\ \A i \in Ids : os[i] # None => Stored(os[i])
Filled(v) == /\ DOMAIN v = Fields
             /\ \A f \in Texts : v[f] \in Words
             /\ \A f \in Numbers : v[f] \in Int \cup {None}
             /\ \A f \in Toggles : v[f] \in BOOLEAN

ServerInv ==
  /\ created \in 0..MaxId /\ created + Cardinality(Creating) <= MaxId
  /\ Snapshot(offers) /\ \A i \in Ids : i > created => offers[i] = None

ListInv ==
  /\ list = [data |-> list.data, ok |-> list.ok] /\ list.ok \in BOOLEAN
  /\ list.data # None => Snapshot(list.data)

FormInv ==
  /\ form = [open |-> form.open, id |-> form.id, base |-> form.base, sure |-> form.sure]
  /\ form.open \in BOOLEAN /\ form.sure \in BOOLEAN
  /\ form.open => /\ route = "/offers" /\ modal = "closed"
                  /\ Stored(form.base) /\ form.id \in Ids \cup {None}
  /\ route \in {"/", "/offers"}
  /\ modal # "closed" => route = "/offers"

Meant(r) ==
  /\ r.kind = "read" => r.status \in {"sent", "ok"} /\ (r.status = "ok" => Snapshot(r.values))
  /\ r.status = "refreshing" => r.kind \in WriteKinds
  /\ r.status = "sent" =>
       /\ r.kind \in {"create", "update"} => Filled(r.values) /\ Valid(r.values)
       /\ r.kind \in {"update", "delete"} => r.id \in Ids
       /\ r.kind = "import" => r.values \in Shared
SentInv == \A r \in flight : Meant(r)

Awaited == Refreshing(flight) # {} => Reads(flight) # {}

TypeInv ==
  /\ writes \in 0..MaxWrites
  /\ FlightInv /\ ServerInv /\ ListInv /\ FormInv /\ SentInv /\ Awaited

(* A read that was served tells what the server has, unless a write has    *)
(* been served since, whose answer will have the list read anew or of      *)
(* which this tab is not told.                                             *)
Writing == \E w \in flight : w.kind \in WriteKinds /\ w.status = "ok"
CoherentInv ==
  /\ \A r \in Reads(flight) :
       /\ r.status = "sent" => r.sure
       /\ r.status = "ok" /\ r.sure => r.values = offers \/ Writing
       /\ r.status = "ok" /\ ~r.sure => missed
  /\ ListCoherent

(* An edit that is sure began with what the server has.                    *)
SureInv ==
  /\ form.open /\ form.id # None /\ form.sure =>
       \A f \in Fields : form.base[f] = offers[form.id][f]
  /\ \A r \in flight : r.kind = "update" /\ r.status = "sent" /\ r.sure =>
       \A f \in Fields : r.base[f] = offers[r.id][f]

(* The form's own submission, at most one: the form is open for it as long *)
(* as it waits, and it began as the form did.                              *)
Submissions == Pending({"create", "update"})
FormOfSubmission ==
  /\ \A r, q \in Submissions : r = q
  /\ \A r \in Submissions : r.waits = "page" =>
       form.open /\ r.id = form.id /\ r.base = form.base

PageInv == TypeInv /\ CoherentInv /\ SureInv /\ FormOfSubmission
-----------------------------------------------------------------------------
(* The fields of what becomes of a request *)

(* q is p, no more waited for and no surer than it was.                    *)
Kin(p, q) ==
  /\ Same(p, q) /\ Shaped(q)
  /\ q.id = p.id /\ q.base = p.base /\ q.values = p.values /\ q.status = p.status
  /\ q.sure => p.sure
  /\ q.waits = "page" => p.waits = "page"
  /\ q.waits # "nobody" => p.waits # "nobody"

(* q is what has become of p, which was handled.                           *)
Handled(p, q) ==
  /\ Same(p, q) /\ Shaped(q)
  /\ q.id = p.id /\ q.base = p.base /\ q.waits = p.waits

LEMMA KinReflexive == ASSUME NEW p, Shaped(p) PROVE Kin(p, p)
  BY DEF Kin, Same

LEMMA UnsureFields ==
  ASSUME NEW p, Shaped(p)
  PROVE  Kin(p, [p EXCEPT !.sure = FALSE]) /\ ~[p EXCEPT !.sure = FALSE].sure
  BY DEF Kin, Same, Shaped, RequestFields

LEMMA WaitsFields ==
  ASSUME NEW p, Shaped(p), NEW w \in {"left", "nobody"}, w = "left" => p.waits = "page"
  PROVE  Kin(p, [p EXCEPT !.waits = w]) /\ [p EXCEPT !.waits = w].waits = w
  BY DEF Kin, Same, Shaped, RequestFields

LEMMA StatusFields ==
  ASSUME NEW p, Shaped(p), NEW s \in {"sent", "ok", "refused", "refreshing"}
  PROVE  LET q == [p EXCEPT !.status = s]
         IN  Handled(p, q) /\ q.status = s /\ q.values = p.values /\ q.sure = p.sure
  BY DEF Handled, Same, Shaped, RequestFields

Answering(p, s, v) == [p EXCEPT !.status = s, !.values = v]
Refreshed(p) == [p EXCEPT !.status = "refreshing", !.values = None, !.sure = TRUE]

LEMMA AnswerFields ==
  ASSUME NEW p, Shaped(p), NEW s \in {"sent", "ok", "refused", "refreshing"}, NEW v
  PROVE  /\ Handled(p, Answering(p, s, v)) /\ Answering(p, s, v).status = s
         /\ Answering(p, s, v).values = v /\ Answering(p, s, v).sure = p.sure
  BY DEF Answering, Handled, Same, Shaped, RequestFields

LEMMA RefreshFields ==
  ASSUME NEW p, Shaped(p)
  PROVE  Handled(p, Refreshed(p)) /\ Refreshed(p).status = "refreshing"
  BY DEF Refreshed, Handled, Same, Shaped, RequestFields

(* The members of Outdate, Miss and Leave, one by one.                     *)
Outdated(p) ==
  IF \/ p.kind = "update" /\ p.status = "sent"
     \/ p.kind = "simulate" /\ p.status = "ok"
    THEN [p EXCEPT !.sure = FALSE] ELSE p
Missed(p) == IF p.kind = "read" /\ p.status = "ok" THEN [p EXCEPT !.sure = FALSE] ELSE p
Abandoned(p, kinds) == IF p.kind \in kinds THEN [p EXCEPT !.waits = "nobody"] ELSE p
Uncovered(p) == IF p.kind \in {"create", "update"} /\ p.waits = "page"
                  THEN [p EXCEPT !.waits = "left"] ELSE p

(* What is only right as long as nothing is written.                       *)
Knows(p) == \/ p.kind = "update" /\ p.status = "sent"
            \/ p.kind = "simulate" /\ p.status = "ok"

LEMMA OutdatedFields ==
  ASSUME NEW p, Shaped(p)
  PROVE  /\ Kin(p, Outdated(p))
         /\ Knows(p) => ~Outdated(p).sure
         /\ p.kind \notin {"update", "simulate"} => Outdated(p) = p
  BY UnsureFields, KinReflexive DEF Outdated, Knows

LEMMA MissedFields ==
  ASSUME NEW p, Shaped(p)
  PROVE  /\ Kin(p, Missed(p))
         /\ p.kind = "read" /\ p.status = "ok" => ~Missed(p).sure
         /\ ~(p.kind = "read" /\ p.status = "ok") => Missed(p) = p
  BY UnsureFields, KinReflexive DEF Missed

LEMMA AbandonedFields ==
  ASSUME NEW p, Shaped(p), NEW kinds
  PROVE  /\ Kin(p, Abandoned(p, kinds))
         /\ p.kind \in kinds => Abandoned(p, kinds).waits = "nobody"
         /\ p.kind \notin kinds => Abandoned(p, kinds) = p
  BY WaitsFields, KinReflexive DEF Abandoned

LEMMA UncoveredFields ==
  ASSUME NEW p, Shaped(p)
  PROVE  /\ Kin(p, Uncovered(p))
         /\ p.kind \in {"create", "update"} => Uncovered(p).waits # "page"
         /\ p.kind \notin {"create", "update"} => Uncovered(p) = p
  BY WaitsFields, KinReflexive DEF Uncovered
-----------------------------------------------------------------------------
(* Counting what is in flight *)

LEMMA FlightBound ==
  ASSUME FlightInv
  PROVE  /\ Cardinality(flight) \in Nat /\ Cardinality(flight) <= MaxFlight + 1
         /\ Cardinality(Reads(flight)) <= 1
<1>1. IsFiniteSet(Mutations) /\ IsFiniteSet(Reads(flight))
  BY FS_Subset DEF FlightInv, Mutations, Reads
<1>2. Cardinality(Reads(flight)) \in {0, 1}
  <2>1. CASE Reads(flight) = {}
    BY <2>1, FS_EmptySet
  <2>2. CASE Reads(flight) # {}
    <3>1. PICK r \in Reads(flight) : Reads(flight) = {r}
      BY <2>2 DEF FlightInv, OneRead
    <3> QED
      BY <3>1, FS_Singleton
  <2> QED
    BY <2>1, <2>2
<1>3. flight = Mutations \cup Reads(flight) /\ Mutations \cap Reads(flight) = {}
  BY DEF Mutations, Reads
<1>4. Cardinality(flight) = Cardinality(Mutations) + Cardinality(Reads(flight))
  <2>1. Cardinality(Mutations \cap Reads(flight)) = 0
    BY <1>3, FS_EmptySet
  <2>2. Cardinality(Mutations \cup Reads(flight)) =
          Cardinality(Mutations) + Cardinality(Reads(flight))
            - Cardinality(Mutations \cap Reads(flight))
    BY <1>1, FS_Union
  <2>3. Cardinality(Mutations) \in Nat
    BY <1>1, FS_CardinalityType
  <2>4. Cardinality(flight) = Cardinality(Mutations) + Cardinality(Reads(flight)) - 0
    BY <1>3, <2>1, <2>2, Zenon
  <2> QED
    BY <1>2, <2>3, <2>4
<1>5. Cardinality(Mutations) \in Nat
  BY <1>1, FS_CardinalityType
<1> QED
  BY <1>2, <1>4, <1>5, BoundsAssumption DEF FlightInv

(* There is a number left for a request of any kind.                       *)
LEMMA FreshNumber ==
  ASSUME FlightInv, NEW kind
  PROVE  \E k \in 1..(MaxFlight + 2) : \A r \in flight : r.kind = kind => r.n # k
<1> DEFINE g == [r \in flight |-> r.n]
           taken == {g[r] : r \in flight}
<1>1. IsFiniteSet(taken) /\ Cardinality(taken) <= Cardinality(flight)
  <2>1. IsFiniteSet(flight)
    BY DEF FlightInv
  <2> QED
    BY <2>1, ImageBound
<1>2. Cardinality(1..(MaxFlight + 2)) = MaxFlight + 2
  BY BoundsAssumption, FS_Interval
<1>3. ~(1..(MaxFlight + 2) \subseteq taken)
  <2> SUFFICES ASSUME 1..(MaxFlight + 2) \subseteq taken PROVE FALSE
    OBVIOUS
  <2>1. Cardinality(1..(MaxFlight + 2)) <= Cardinality(taken)
    BY <1>1, FS_Subset
  <2>2. Cardinality(taken) \in Nat
    BY <1>1, FS_CardinalityType
  <2> QED
    BY <1>1, <1>2, <2>1, <2>2, FlightBound, BoundsAssumption
<1> QED
  BY <1>3

LEMMA RequestIs ==
  ASSUME FlightInv, NEW kind \in WriteKinds \cup {"read", "simulate"}, NEW id, NEW values
  PROVE  LET q == Request(kind, id, values)
         IN  /\ Shaped(q) /\ q.kind = kind /\ q.id = id /\ q.values = values
             /\ q.base = None /\ q.status = "sent" /\ q.waits = "page" /\ q.sure
             /\ \A r \in flight : r.kind = kind => r.n # q.n
<1> DEFINE k == CHOOSE k \in 1..(MaxFlight + 2) : \A r \in flight : r.kind = kind => r.n # k
<1>1. \A r \in flight : r.kind = kind => r.n # k
  BY FreshNumber
<1>2. Request(kind, id, values) =
        [kind |-> kind, id |-> id, values |-> values, base |-> None, status |-> "sent",
         n |-> k, waits |-> "page", sure |-> TRUE]
  BY DEF Request
<1> HIDE DEF k
<1> QED
  BY <1>1, <1>2 DEF Shaped, RequestFields

(* What comes of the requests in flight is as they were, and a request     *)
(* sent with a number of its own as well.                                  *)
LEMMA FlightDrifts ==
  ASSUME FlightInv, NEW g, \A p \in flight : Same(p, g[p]) /\ Shaped(g[p]),
         flight' \subseteq {g[p] : p \in flight}
  PROVE  FlightInv'
<1>1. IsFiniteSet(flight')
  BY ImageBound DEF FlightInv
<1>2. /\ \A r \in flight' : Shaped(r)
      /\ \A r, q \in flight' : Same(r, q) => r = q
  BY DEF FlightInv, Keyed, Same
<1>3. OneRead'
  BY DEF FlightInv, OneRead, Reads, Same
<1>4. Cardinality(Mutations') <= MaxFlight
  <2>1. Mutations' \subseteq {g[p] : p \in Mutations}
    BY DEF Mutations, Same
  <2>2. IsFiniteSet(Mutations)
    BY FS_Subset DEF FlightInv, Mutations
  <2>3. IsFiniteSet(Mutations') /\ Cardinality(Mutations') <= Cardinality(Mutations)
    BY <2>1, <2>2, ImageBound
  <2> QED
    BY <2>2, <2>3, FS_CardinalityType, BoundsAssumption DEF FlightInv
<1> QED
  BY <1>1, <1>2, <1>3, <1>4 DEF FlightInv, Keyed

LEMMA FlightGrows ==
  ASSUME FlightInv, NEW g, \A p \in flight : Same(p, g[p]) /\ Shaped(g[p]),
         NEW new, Shaped(new), \A p \in flight : p.kind = new.kind => p.n # new.n,
         flight' \subseteq {g[p] : p \in flight} \cup {new},
         IF new.kind = "read" THEN \A q \in Reads(flight') : q = new ELSE Room(1)
  PROVE  FlightInv'
<1>1. IsFiniteSet(flight')
  <2>1. IsFiniteSet({g[p] : p \in flight})
    BY ImageBound DEF FlightInv
  <2>2. IsFiniteSet({g[p] : p \in flight} \cup {new})
    BY <2>1, FS_AddElement
  <2> QED
    BY <2>2, FS_Subset
<1>2. \A r \in flight' : Shaped(r)
  BY DEF FlightInv
<1>3. ASSUME NEW r \in flight', NEW q \in flight', Same(r, q) PROVE r = q
  BY <1>3 DEF FlightInv, Keyed, Same
<1>4. OneRead'
  BY DEF FlightInv, OneRead, Reads, Same
<1>5. Cardinality(Mutations') <= MaxFlight
  <2>1. IsFiniteSet(Mutations) /\ IsFiniteSet(Mutations')
    BY <1>1, FS_Subset DEF FlightInv, Mutations
  <2>2. CASE new.kind = "read"
    <3>1. Mutations' \subseteq {g[p] : p \in Mutations}
      BY <2>2 DEF Mutations, Same
    <3>2. Cardinality(Mutations') <= Cardinality(Mutations)
      BY <2>1, <3>1, ImageBound
    <3> QED
      BY <2>1, <3>2, FS_CardinalityType, BoundsAssumption DEF FlightInv
  <2>3. CASE new.kind # "read"
    <3>1. Cardinality(flight) + 1 <= MaxFlight
      BY <2>3 DEF Room
    <3> DEFINE image == {g[p] : p \in flight}
    <3>2. Mutations' \subseteq image \cup {new}
      BY DEF Mutations
    <3>3. IsFiniteSet(image) /\ Cardinality(image) <= Cardinality(flight)
      BY ImageBound DEF FlightInv
    <3> HIDE DEF image
    <3>4. /\ IsFiniteSet(image \cup {new})
          /\ Cardinality(image \cup {new}) <= Cardinality(flight) + 1
      <4>1. Cardinality(image) \in Nat
        BY <3>3, FS_CardinalityType
      <4>2. Cardinality(image \cup {new}) \in {Cardinality(image), Cardinality(image) + 1}
        BY <3>3, FS_AddElement
      <4>3. IsFiniteSet(image \cup {new})
        BY <3>3, FS_AddElement
      <4> QED
        BY <3>3, <4>1, <4>2, <4>3, FlightBound
    <3>5. /\ IsFiniteSet(Mutations')
          /\ Cardinality(Mutations') <= Cardinality(image \cup {new})
      BY <3>2, <3>4, FS_Subset
    <3> QED
      BY <2>1, <3>1, <3>4, <3>5, FS_CardinalityType, FlightBound, BoundsAssumption
  <2> QED
    BY <2>2, <2>3
<1> QED
  BY <1>1, <1>2, <1>3, <1>4, <1>5 DEF FlightInv, Keyed
-----------------------------------------------------------------------------
(* What a form may hold, and what the server makes of it *)

LEMMA FieldSorts ==
  /\ Fields = Texts \cup Numbers \cup Toggles
  /\ Texts \cap Numbers = {} /\ Texts \cap Toggles = {} /\ Numbers \cap Toggles = {}
  /\ "name" \in Texts /\ "provider" \in Texts
  /\ {"peak", "mid", "valley", "powerPeak", "powerValley", "surplus", "months"} \subseteq Numbers
  /\ {"flat", "same", "permanence", "green", "current", "public"} \subseteq Toggles
  BY DEF Fields, Texts, Numbers, Toggles

LEMMA StoredIsFilled == ASSUME NEW o, Stored(o) PROVE Filled(o)
  BY DEF Stored, Filled

LEMMA BlankStored == Stored(Blank)
<1>1. DOMAIN Blank = Fields /\ \A f \in Texts : Blank[f] = ""
  BY FieldSorts DEF Blank
<1>2. \A f \in Numbers : Blank[f] \in Int
  <2>1. \A f \in Numbers : Blank[f] = 0
    BY FieldSorts DEF Blank
  <2> QED
    BY <2>1
<1>3. \A f \in Toggles : Blank[f] \in BOOLEAN
  BY FieldSorts DEF Blank
<1>4. \A f \in Texts : Blank[f] \in Words
  BY <1>1 DEF Words
<1> QED
  BY <1>1, <1>2, <1>3, <1>4, Zenon DEF Stored

LEMMA FormOfStored == ASSUME NEW o, Stored(o) PROVE Stored(FormOf(o)) /\ \A f \in Fields : FormOf(o)[f] = o[f]
<1>1. DOMAIN FormOf(o) = Fields /\ \A f \in Fields : FormOf(o)[f] = o[f]
  BY DEF FormOf
<1> QED
  BY <1>1, FieldSorts DEF Stored

LEMMA AlteredFilled ==
  ASSUME NEW v, Filled(v), NEW f \in Fields, NEW x,
         f \in Texts => x \in Words,
         f \in Numbers => x \in Int \cup {None},
         f \in Toggles => x \in BOOLEAN
  PROVE  Filled([v EXCEPT ![f] = x])
<1> DEFINE w == [v EXCEPT ![f] = x]
<1>1. DOMAIN w = Fields /\ \A k \in Fields : w[k] = IF k = f THEN x ELSE v[k]
  BY DEF Filled
<1> HIDE DEF w
<1>2. ASSUME NEW k \in Texts PROVE w[k] \in Words
  BY <1>1, FieldSorts DEF Filled
<1>3. ASSUME NEW k \in Numbers PROVE w[k] \in Int \cup {None}
  BY <1>1, FieldSorts DEF Filled
<1>4. ASSUME NEW k \in Toggles PROVE w[k] \in BOOLEAN
  BY <1>1, FieldSorts DEF Filled
<1>5. Filled(w)
  BY <1>1, <1>2, <1>3, <1>4, Zenon DEF Filled
<1> QED
  BY <1>5 DEF w

LEMMA InputsFilled ==
  ASSUME NEW base, Stored(base), NEW f \in Fields, NEW x \in Inputs(f, base)
  PROVE  /\ f \in Texts => x \in Words
         /\ f \in Numbers => x \in Int \cup {None}
         /\ f \in Toggles => x \in BOOLEAN
<1>1. Typed \subseteq Int \cup {None}
  BY TypedAssumption
<1>2. f \in Texts => x \in Words
  BY FieldSorts DEF Inputs
<1>3. f \in Numbers => x \in Typed \cup {base[f], 0}
  BY FieldSorts DEF Inputs
<1>4. f \in Toggles => x \in BOOLEAN
  BY FieldSorts DEF Inputs
<1>5. f \in Numbers => base[f] \in Int
  BY Zenon DEF Stored
<1>6. ASSUME f \in Numbers PROVE x \in Int \cup {None}
  <2>1. x \in Typed \/ x = base[f] \/ x = 0
    BY <1>3, <1>6, Zenon
  <2>2. CASE x \in Typed
    BY <1>1, <2>2, Zenon
  <2>3. CASE x = base[f]
    BY <1>5, <1>6, <2>3, Zenon
  <2>4. CASE x = 0
    BY <2>4
  <2> QED
    BY <2>1, <2>2, <2>3, <2>4, Zenon
<1> QED
  BY <1>2, <1>4, <1>6, Zenon

LEMMA RadioFilled ==
  ASSUME NEW base, Stored(base), NEW w, Filled(w) PROVE Filled(Radio(w, base))
<1>1. CASE w["permanence"]
  BY <1>1, Zenon DEF Radio
<1>2. CASE ~w["permanence"]
  <2> DEFINE x == IF base["permanence"] THEN 0 ELSE base["months"]
  <2>1. Radio(w, base) = [w EXCEPT !["months"] = x]
    BY <1>2, Zenon DEF Radio
  <2>2. x \in Int
    <3>1. base["months"] \in Int
      BY FieldSorts, Zenon DEF Stored
    <3>2. x = 0 \/ x = base["months"]
      BY Zenon
    <3> HIDE DEF x
    <3> QED
      BY <3>1, <3>2
  <2>3. "months" \in Fields /\ "months" \notin Texts /\ "months" \notin Toggles
    BY FieldSorts
  <2> HIDE DEF x
  <2>4. Filled([w EXCEPT !["months"] = x])
    BY <2>2, <2>3, AlteredFilled, Zenon
  <2> QED
    BY <2>1, <2>4, Zenon
<1> QED
  BY <1>1, <1>2

(* Whatever is typed, the form holds texts, numbers or nothing, toggles.   *)
LEMMA TypingFilled ==
  ASSUME NEW base, Stored(base), NEW t \in [Edited \cap Texts -> Words], NEW n,
         \A f \in Edited \cap Numbers : n[f] \in Inputs(f, base),
         NEW b \in [Edited \cap Toggles -> BOOLEAN]
  PROVE  Filled(Typing(base, t, n, b))
<1> DEFINE w == Typing(base, t, n, b)
<1>0. DOMAIN w = Fields
  BY Zenon DEF Typing
<1>1. /\ \A f \in Fields \ Edited : w[f] = base[f]
      /\ \A f \in Edited \cap Texts : w[f] = t[f]
      /\ \A f \in Edited \cap Numbers : w[f] = n[f]
      /\ \A f \in Edited \cap Toggles : w[f] = b[f]
  BY FieldSorts DEF Typing
<1> HIDE DEF w
<1>2. ASSUME NEW f \in Texts PROVE w[f] \in Words
  <2>1. base[f] \in Words
    BY Zenon DEF Stored
  <2>2. f \in Edited => t[f] \in Words
    OBVIOUS
  <2> QED
    BY <1>1, <2>1, <2>2, FieldSorts
<1>3. ASSUME NEW f \in Numbers PROVE w[f] \in Int \cup {None}
  <2>1. base[f] \in Int
    BY Zenon DEF Stored
  <2>2. f \in Edited => n[f] \in Int \cup {None}
    BY FieldSorts, InputsFilled
  <2> QED
    BY <1>1, <2>1, <2>2, FieldSorts
<1>4. ASSUME NEW f \in Toggles PROVE w[f] \in BOOLEAN
  <2>1. base[f] \in BOOLEAN
    BY Zenon DEF Stored
  <2>2. f \in Edited => b[f] \in BOOLEAN
    OBVIOUS
  <2> QED
    BY <1>1, <2>1, <2>2, FieldSorts
<1>5. Filled(w)
  BY <1>0, <1>2, <1>3, <1>4, Zenon DEF Filled
<1> QED
  BY <1>5 DEF w

LEMMA FillingsFilled ==
  ASSUME NEW base, Stored(base), NEW v \in Fillings(base) PROVE Filled(v)
<1>1. \E t \in [Edited \cap Texts -> Words], n \in TypedNumbers(base),
         b \in [Edited \cap Toggles -> BOOLEAN] : v = Radio(Typing(base, t, n, b), base)
  BY DEF Fillings
<1>2. PICK t \in [Edited \cap Texts -> Words], n \in TypedNumbers(base),
           b \in [Edited \cap Toggles -> BOOLEAN] : v = Radio(Typing(base, t, n, b), base)
  BY <1>1
<1>3. \A f \in Edited \cap Numbers : n[f] \in Inputs(f, base)
  BY DEF TypedNumbers
<1>4. Filled(Typing(base, t, n, b))
  BY <1>3, TypingFilled
<1> QED
  BY <1>2, <1>4, RadioFilled

LEMMA SentFields ==
  ASSUME NEW v, Filled(v)
  PROVE  /\ Stored(Sent(v))
         /\ \A f \in Fields : Sent(v)[f] = IF f \in Numbers /\ v[f] = None THEN 0 ELSE v[f]
<1>1. /\ DOMAIN Sent(v) = Fields
      /\ \A f \in Fields : Sent(v)[f] = IF f \in Numbers /\ v[f] = None THEN 0 ELSE v[f]
  BY DEF Sent
<1>2. \A f \in Texts : Sent(v)[f] \in Words
  BY <1>1, FieldSorts DEF Filled
<1>3. \A f \in Numbers : Sent(v)[f] \in Int
  <2>1. \A f \in Numbers : v[f] \in Int \cup {None}
    BY Zenon DEF Filled
  <2> QED
    BY <1>1, <2>1, FieldSorts
<1>4. \A f \in Toggles : Sent(v)[f] \in BOOLEAN
  <2>1. \A f \in Toggles : v[f] \in BOOLEAN
    BY Zenon DEF Filled
  <2> QED
    BY <1>1, <2>1, FieldSorts
<1> QED
  BY <1>1, <1>2, <1>3, <1>4, Zenon DEF Stored

LEMMA ImportStored ==
  ASSUME NEW o \in Shared
  PROVE  Stored([o EXCEPT !["current"] = FALSE, !["public"] = FALSE])
<1> DEFINE w == [o EXCEPT !["current"] = FALSE, !["public"] = FALSE]
<1>1. Stored(o)
  BY OffersAssumption
<1>2. /\ DOMAIN w = Fields
      /\ \A k \in Fields : w[k] = o[k] \/ (k \in {"current", "public"} /\ w[k] = FALSE)
  BY <1>1 DEF Stored
<1> HIDE DEF w
<1>3. \A f \in Toggles : w[f] \in BOOLEAN
  BY <1>1, <1>2, FieldSorts DEF Stored
<1>4. /\ \A f \in Texts : w[f] \in Words
      /\ \A f \in Numbers : w[f] \in Int
  <2>1. \A f \in Texts \cup Numbers : w[f] = o[f]
    BY <1>2, FieldSorts
  <2> QED
    BY <1>1, <2>1, Zenon DEF Stored
<1>5. Stored(w)
  BY <1>2, <1>3, <1>4 DEF Stored
<1> QED
  BY <1>5 DEF w

LEMMA PutSnapshot ==
  ASSUME Snapshot(offers), NEW id \in Ids, NEW o, Stored(o)
  PROVE  /\ Snapshot(Put(id, o)) /\ Put(id, o)[id] = o
         /\ \A i \in Ids : i # id /\ offers[i] = None => Put(id, o)[i] = None
<1>1. /\ DOMAIN Put(id, o) = Ids /\ Put(id, o)[id] = o
      /\ \A i \in Ids : i # id => Put(id, o)[i] \in {offers[i], Without(offers[i])}
  BY DEF Put
<1>2. ASSUME NEW i \in Ids, offers[i] # None PROVE Stored(Without(offers[i]))
  <2> DEFINE w == [offers[i] EXCEPT !["current"] = FALSE]
  <2>1. Stored(offers[i])
    BY <1>2 DEF Snapshot
  <2>2. /\ DOMAIN w = Fields
        /\ \A k \in Fields : w[k] = offers[i][k] \/ (k = "current" /\ w[k] = FALSE)
    BY <2>1 DEF Stored
  <2>3. Without(offers[i]) = w
    BY <1>2 DEF Without
  <2> HIDE DEF w
  <2>4. \A f \in Toggles : w[f] \in BOOLEAN
    BY <2>1, <2>2, FieldSorts DEF Stored
  <2>5. /\ \A f \in Texts : w[f] \in Words
        /\ \A f \in Numbers : w[f] \in Int
    <3>1. \A f \in Texts \cup Numbers : w[f] = offers[i][f]
      BY <2>2, FieldSorts
    <3> QED
      BY <2>1, <3>1, Zenon DEF Stored
  <2> QED
    BY <2>2, <2>3, <2>4, <2>5 DEF Stored
<1>3. Without(None) = None
  BY DEF Without
<1>4. ASSUME NEW i \in Ids, Put(id, o)[i] # None PROVE Stored(Put(id, o)[i])
  BY <1>1, <1>2, <1>3, <1>4 DEF Snapshot
<1>5. \A i \in Ids : i # id /\ offers[i] = None => Put(id, o)[i] = None
  BY <1>1, <1>3
<1> QED
  BY <1>1, <1>4, <1>5 DEF Snapshot
-----------------------------------------------------------------------------
(* How what is in flight changes, g saying what becomes of each request    *)

LEMMA MeantKept == ASSUME NEW p, Meant(p), NEW q, Kin(p, q) PROVE Meant(q)
  BY DEF Kin, Same, Meant

LEMMA CreatingCount ==
  ASSUME FlightInv PROVE IsFiniteSet(Creating) /\ Cardinality(Creating) \in Nat
  BY FS_Subset, FS_CardinalityType DEF FlightInv, Creating

(* Nothing is handled: some may have gone.                                 *)
LEMMA Drifts ==
  ASSUME TypeInv, NEW g, \A p \in flight : Kin(p, g[p]),
         flight' \subseteq {g[p] : p \in flight}
  PROVE  /\ FlightInv' /\ SentInv'
         /\ Cardinality(Creating') \in Nat /\ Cardinality(Creating') <= Cardinality(Creating)
<1>1. FlightInv'
  BY FlightDrifts DEF TypeInv, Kin
<1>2. SentInv'
  BY MeantKept DEF TypeInv, SentInv
<1>3. Creating' \subseteq {g[p] : p \in Creating}
  BY DEF Creating, Kin, Same
<1>4. IsFiniteSet(Creating') /\ Cardinality(Creating') <= Cardinality(Creating)
  BY <1>3, ImageBound, CreatingCount DEF TypeInv
<1> QED
  BY <1>1, <1>2, <1>4, FS_CardinalityType

(* A request is sent.                                                      *)
LEMMA Sends ==
  ASSUME TypeInv, NEW new, Shaped(new), Meant(new),
         \A p \in flight : p.kind = new.kind => p.n # new.n,
         IF new.kind = "read" THEN Reads(flight) = {} ELSE Room(1),
         flight' = flight \cup {new}
  PROVE  /\ FlightInv' /\ SentInv' /\ (Awaited' \/ new.status = "refreshing")
         /\ Cardinality(Creating') \in Nat
         /\ Cardinality(Creating') <=
              Cardinality(Creating) + IF new.kind \in {"create", "import"} THEN 1 ELSE 0
<1> DEFINE g == [p \in flight |-> p]
<1>0. \A p \in flight : Shaped(p)
  BY DEF TypeInv, FlightInv
<1>1. FlightInv'
  <2>1. \A p \in flight : Same(p, g[p]) /\ Shaped(g[p])
    BY <1>0 DEF Same
  <2>2. flight' \subseteq {g[p] : p \in flight} \cup {new}
    OBVIOUS
  <2>3. IF new.kind = "read" THEN \A q \in Reads(flight') : q = new ELSE Room(1)
    BY DEF Reads
  <2> HIDE DEF g
  <2> QED
    BY <2>1, <2>2, <2>3, FlightGrows DEF TypeInv
<1>2. SentInv'
  BY DEF TypeInv, SentInv
<1>3. Awaited' \/ new.status = "refreshing"
  BY DEF TypeInv, Awaited, Refreshing, Reads
<1>4. CASE new.kind \in {"create", "import"}
  <2>1. Creating' \subseteq Creating \cup {new}
    BY DEF Creating
  <2>2. /\ IsFiniteSet(Creating \cup {new})
        /\ Cardinality(Creating \cup {new}) \in {Cardinality(Creating), Cardinality(Creating) + 1}
    BY CreatingCount, FS_AddElement DEF TypeInv
  <2>3. IsFiniteSet(Creating') /\ Cardinality(Creating') <= Cardinality(Creating \cup {new})
    BY <2>1, <2>2, FS_Subset
  <2>4. Cardinality(Creating') \in Nat /\ Cardinality(Creating) \in Nat
    BY <2>3, FS_CardinalityType, CreatingCount DEF TypeInv
  <2> QED
    BY <1>1, <1>2, <1>3, <1>4, <2>2, <2>3, <2>4
<1>5. CASE new.kind \notin {"create", "import"}
  <2>1. Creating' = Creating
    BY <1>5 DEF Creating
  <2>2. Cardinality(Creating) \in Nat
    BY CreatingCount DEF TypeInv
  <2> QED
    BY <1>1, <1>2, <1>3, <1>5, <2>1, <2>2
<1> QED
  BY <1>4, <1>5

(* The request r is handled and is not a new one any more.                 *)
LEMMA Handles ==
  ASSUME TypeInv, NEW r \in flight, NEW me, Handled(r, me), Meant(me), me.status # "sent",
         NEW g, g[r] = me, \A p \in flight : p # r => Kin(p, g[p]),
         NEW new, Shaped(new), Meant(new), \A p \in flight : p.kind = new.kind => p.n # new.n,
         new.kind = "read",
         \/ flight' \subseteq {g[p] : p \in flight}
         \/ /\ flight' \subseteq {g[p] : p \in flight} \cup {new}
            /\ \A q \in Reads(flight') : q = new
  PROVE  /\ FlightInv' /\ SentInv'
         /\ Cardinality(Creating') \in Nat
         /\ Cardinality(Creating') + (IF r \in Creating THEN 1 ELSE 0) <= Cardinality(Creating)
<1>1. \A p \in flight : Same(p, g[p]) /\ Shaped(g[p])
  BY DEF Kin, Handled
<1>2. FlightInv'
  BY <1>1, FlightDrifts, FlightGrows DEF TypeInv
<1>3. SentInv'
  <2>1. \A p \in flight : Meant(g[p])
    BY MeantKept DEF TypeInv, SentInv
  <2> QED
    BY <2>1 DEF SentInv
<1>4. Creating' \subseteq {g[p] : p \in Creating \ {r}}
  <2> SUFFICES ASSUME NEW q \in Creating' PROVE q \in {g[p] : p \in Creating \ {r}}
    OBVIOUS
  <2>1. q \in flight' /\ q.kind \in {"create", "import"} /\ q.status = "sent"
    BY DEF Creating
  <2>2. PICK p \in flight : q = g[p]
    BY <2>1
  <2>3. p # r
    BY <2>1, <2>2
  <2> QED
    BY <2>1, <2>2, <2>3 DEF Creating, Kin, Same
<1>5. /\ IsFiniteSet(Creating \ {r})
      /\ Cardinality(Creating \ {r}) + (IF r \in Creating THEN 1 ELSE 0) = Cardinality(Creating)
  <2>1. IsFiniteSet(Creating) /\ Cardinality(Creating) \in Nat
    BY CreatingCount DEF TypeInv
  <2>2. /\ IsFiniteSet(Creating \ {r})
        /\ Cardinality(Creating \ {r}) =
             IF r \in Creating THEN Cardinality(Creating) - 1 ELSE Cardinality(Creating)
    BY <2>1, FS_RemoveElement
  <2> QED
    BY <2>1, <2>2
<1>6. IsFiniteSet(Creating') /\ Cardinality(Creating') <= Cardinality(Creating \ {r})
  BY <1>4, <1>5, ImageBound
<1>7. Cardinality(Creating') \in Nat /\ Cardinality(Creating \ {r}) \in Nat
  BY <1>5, <1>6, FS_CardinalityType
<1> QED
  BY <1>2, <1>3, <1>5, <1>6, <1>7
-----------------------------------------------------------------------------
(* Types *)

LEMMA TypeInvInit == Init => TypeInv
<1> SUFFICES ASSUME Init PROVE TypeInv
  OBVIOUS
<1>1. /\ FirstRead.kind = "read" /\ FirstRead.status = "sent" /\ Shaped(FirstRead)
      /\ Meant(FirstRead) /\ flight = {FirstRead}
  BY DEF Init, FirstRead, Shaped, RequestFields, Meant
<1>2. FlightInv
  <2>1. Mutations = {} /\ IsFiniteSet(flight)
    BY <1>1, FS_Singleton DEF Mutations
  <2>2. Cardinality(Mutations) = 0
    BY <2>1, FS_EmptySet
  <2> QED
    BY <1>1, <2>1, <2>2, BoundsAssumption DEF FlightInv, Keyed, OneRead, Reads
<1>3. PICK k \in 0..MaxId : \A i \in Ids :
        IF i <= k THEN offers[i] # None /\ Stored(offers[i]) ELSE offers[i] = None
  BY OffersAssumption DEF Init
<1>4. created = k
  <2>1. {i \in Ids : offers[i] # None} = 1..k
    BY <1>3, BoundsAssumption DEF Ids
  <2>2. Cardinality(1..k) = k
    BY FS_Interval
  <2> QED
    BY <2>1, <2>2 DEF Init
<1>5. ServerInv
  <2>1. Creating = {}
    BY <1>1 DEF Creating
  <2>2. Cardinality(Creating) = 0
    BY <2>1, FS_EmptySet
  <2>3. Snapshot(offers)
    BY <1>3, OffersAssumption DEF Init, Snapshot
  <2>4. \A i \in Ids : i > created => offers[i] = None
    BY <1>3, <1>4 DEF Ids
  <2> QED
    BY <1>4, <2>2, <2>3, <2>4, BoundsAssumption DEF ServerInv
<1>6. ListInv
  BY DEF Init, ListInv
<1>7. FormInv
  BY DEF Init, NoForm, FormInv
<1>8. SentInv /\ Awaited
  BY <1>1 DEF SentInv, Awaited, Refreshing
<1>9. writes \in 0..MaxWrites
  BY BoundsAssumption DEF Init
<1> QED
  BY <1>2, <1>5, <1>6, <1>7, <1>8, <1>9 DEF TypeInv

(* A step that sends nothing and leaves the server alone.                  *)
LEMMA TypeDrifts ==
  ASSUME TypeInv, NEW g, \A p \in flight : Kin(p, g[p]),
         flight' \subseteq {g[p] : p \in flight}, UNCHANGED <<server, writes>>,
         ListInv', FormInv', Awaited'
  PROVE  TypeInv'
<1>1. /\ FlightInv' /\ SentInv'
      /\ Cardinality(Creating') \in Nat /\ Cardinality(Creating') <= Cardinality(Creating)
  BY Drifts
<1>2. Cardinality(Creating) \in Nat
  BY CreatingCount DEF TypeInv
<1>3. ServerInv'
  <2>1. created' = created /\ offers' = offers
    BY DEF server
  <2>2. created' + Cardinality(Creating') <= MaxId
    BY <1>1, <1>2, <2>1, BoundsAssumption DEF TypeInv, ServerInv
  <2> QED
    BY <2>1, <2>2 DEF TypeInv, ServerInv, Snapshot
<1> QED
  BY <1>1, <1>3 DEF TypeInv

(* If no request goes, those that are waited for go on.                    *)
LEMMA AwaitedDrifts ==
  ASSUME TypeInv, NEW g, \A p \in flight : Kin(p, g[p]), flight' = {g[p] : p \in flight}
  PROVE  Awaited'
<1> SUFFICES ASSUME NEW q \in Refreshing(flight') PROVE Reads(flight') # {}
  BY DEF Awaited
<1>1. PICK p \in flight : q = g[p]
  BY DEF Refreshing
<1>2. p \in Refreshing(flight)
  BY <1>1 DEF Refreshing, Kin
<1>3. PICK d \in Reads(flight) : TRUE
  BY <1>2 DEF TypeInv, Awaited
<1>4. g[d] \in Reads(flight')
  BY <1>3 DEF Reads, Kin, Same
<1> QED
  BY <1>4

LEMMA FlightShaped == TypeInv => \A p \in flight : Shaped(p) /\ Meant(p)
  BY DEF TypeInv, FlightInv, SentInv

LEMMA TypeStill ==
  ASSUME TypeInv, UNCHANGED <<server, writes, flight>>, ListInv', FormInv' PROVE TypeInv'
<1> DEFINE g == [p \in flight |-> p]
<1>1. \A p \in flight : Kin(p, g[p])
  BY FlightShaped, KinReflexive
<1>2. flight' = {g[p] : p \in flight}
  OBVIOUS
<1> HIDE DEF g
<1> QED
  BY <1>1, <1>2, TypeDrifts, AwaitedDrifts

LEMMA ListKept == ASSUME TypeInv, UNCHANGED list PROVE ListInv'
  BY DEF TypeInv, ListInv

LEMMA FormUnchanged == ASSUME TypeInv, UNCHANGED screen PROVE FormInv'
  BY DEF TypeInv, FormInv, screen

(* The form stays, or is closed.                                           *)
LEMMA FormGoes ==
  ASSUME TypeInv, form' \in {form, NoForm}, UNCHANGED <<route, modal>> PROVE FormInv'
<1>1. CASE form' = form
  BY <1>1, FormUnchanged DEF screen
<1>2. CASE form' = NoForm
  BY <1>2 DEF NoForm, TypeInv, FormInv
<1> QED
  BY <1>1, <1>2

LEMMA FormUnsure ==
  ASSUME TypeInv, form' = [form EXCEPT !.sure = FALSE], UNCHANGED <<route, modal>>
  PROVE  /\ FormInv' /\ form'.open = form.open /\ form'.id = form.id /\ form'.base = form.base
         /\ ~form'.sure
<1>1. form = [open |-> form.open, id |-> form.id, base |-> form.base, sure |-> form.sure]
  BY DEF TypeInv, FormInv
<1>2. form' = [open |-> form.open, id |-> form.id, base |-> form.base, sure |-> FALSE]
  BY <1>1
<1>3. /\ form'.open = form.open /\ form'.id = form.id /\ form'.base = form.base
      /\ form'.sure = FALSE
  BY <1>2
<1> QED
  BY <1>2, <1>3 DEF TypeInv, FormInv

LEMMA TypeSends ==
  ASSUME TypeInv, NEW kind \in WriteKinds \cup {"read", "simulate"}, NEW new, Shaped(new),
         Meant(new), new.kind = kind, new.status = "sent",
         \A p \in flight : p.kind = new.kind => p.n # new.n,
         IF kind = "read" THEN Reads(flight) = {} ELSE Room(1),
         flight' = flight \cup {new},
         kind \in {"create", "import"} => created + Cardinality(Creating) < MaxId,
         \/ writes' = writes
         \/ writes < MaxWrites /\ writes' = writes + 1,
         UNCHANGED <<server, list, screen>>
  PROVE  TypeInv'
<1>1. /\ FlightInv' /\ SentInv' /\ Awaited'
      /\ Cardinality(Creating') \in Nat
      /\ Cardinality(Creating') <=
           Cardinality(Creating) + IF kind \in {"create", "import"} THEN 1 ELSE 0
  BY Sends
<1>2. Cardinality(Creating) \in Nat
  BY CreatingCount DEF TypeInv
<1>3. ServerInv'
  <2>1. created' = created /\ offers' = offers
    BY DEF server
  <2>2. created' + Cardinality(Creating') <= MaxId
    BY <1>1, <1>2, <2>1, BoundsAssumption DEF TypeInv, ServerInv
  <2> QED
    BY <2>1, <2>2 DEF TypeInv, ServerInv, Snapshot
<1>4. ListInv' /\ FormInv'
  BY ListKept, FormUnchanged
<1>5. writes' \in 0..MaxWrites
  BY BoundsAssumption DEF TypeInv
<1> QED
  BY <1>1, <1>3, <1>4, <1>5 DEF TypeInv
LEMMA CreatingSet ==
  {r \in flight : r.kind \in {"create", "import"} /\ r.status = "sent"} = Creating
  BY DEF Creating

(* What Submit sends.                                                      *)
Submitted(v) ==
  [Request(IF form.id = None THEN "create" ELSE "update", form.id, v)
     EXCEPT !.base = form.base, !.sure = form.sure]

LEMMA SubmittedIs ==
  ASSUME TypeInv, form.open, NEW v, Filled(v), Valid(v)
  PROVE  LET new == Submitted(v)
         IN  /\ Shaped(new) /\ Meant(new) /\ new.status = "sent" /\ new.waits = "page"
             /\ new.kind = IF form.id = None THEN "create" ELSE "update"
             /\ new.id = form.id /\ new.values = v /\ new.base = form.base
             /\ new.sure = form.sure
             /\ \A p \in flight : p.kind = new.kind => p.n # new.n
<1> DEFINE kind == IF form.id = None THEN "create" ELSE "update"
           q == Request(kind, form.id, v)
           new == [q EXCEPT !.base = form.base, !.sure = form.sure]
<1>1. kind \in WriteKinds \cup {"read", "simulate"}
  BY DEF WriteKinds
<1>2. /\ Shaped(q) /\ q.kind = kind /\ q.id = form.id /\ q.values = v
      /\ q.status = "sent" /\ q.waits = "page"
      /\ \A r \in flight : r.kind = kind => r.n # q.n
  BY <1>1, RequestIs DEF TypeInv
<1>3. form.sure \in BOOLEAN /\ form.id \in Ids \cup {None}
  BY DEF TypeInv, FormInv
<1> HIDE DEF q
<1>4. /\ Shaped(new) /\ new.kind = q.kind /\ new.id = q.id /\ new.values = q.values
      /\ new.base = form.base /\ new.status = q.status /\ new.n = q.n /\ new.waits = q.waits
      /\ new.sure = form.sure
  <2> DEFINE b == form.base
             s == form.sure
  <2>1. s \in BOOLEAN
    BY <1>3
  <2> HIDE DEF b, s
  <2>2. LET w == [q EXCEPT !.base = b, !.sure = s]
        IN  /\ Shaped(w) /\ w.kind = q.kind /\ w.id = q.id /\ w.values = q.values
            /\ w.base = b /\ w.status = q.status /\ w.n = q.n /\ w.waits = q.waits
            /\ w.sure = s
    BY <1>2, <2>1 DEF Shaped, RequestFields
  <2> QED
    BY <2>2 DEF b, s
<1>5. Submitted(v) = new
  BY DEF Submitted, q
<1> HIDE DEF new
<1>6. Meant(new)
  BY <1>2, <1>3, <1>4 DEF Meant
<1> QED
  BY <1>2, <1>4, <1>5, <1>6

LEMMA SubmitSends ==
  ASSUME TypeInv, Submit
  PROVE  \E v : /\ Filled(v) /\ Valid(v) /\ form.open
                /\ flight' = flight \cup {Submitted(v)}
                /\ form.id = None => created + Cardinality(Creating) < MaxId
<1>1. PICK v \in Fillings(form.base) : Valid(v) /\ flight' = flight \cup {Submitted(v)}
  BY DEF Submit, Submitted
<1>2. form.open /\ (form.id = None => created + Cardinality(Creating) < MaxId)
  BY CreatingSet DEF Submit
<1>3. Stored(form.base)
  BY <1>2 DEF TypeInv, FormInv
<1>4. Filled(v)
  BY <1>3, FillingsFilled
<1> QED
  BY <1>1, <1>2, <1>4

LEMMA TypeSubmit == ASSUME TypeInv, Submit PROVE TypeInv'
<1>1. PICK v : /\ Filled(v) /\ Valid(v) /\ form.open
               /\ flight' = flight \cup {Submitted(v)}
               /\ form.id = None => created + Cardinality(Creating) < MaxId
  BY SubmitSends
<1> DEFINE new == Submitted(v)
           kind == IF form.id = None THEN "create" ELSE "update"
<1>2. /\ Shaped(new) /\ Meant(new) /\ new.status = "sent" /\ new.kind = kind
      /\ \A p \in flight : p.kind = new.kind => p.n # new.n
  BY <1>1, SubmittedIs
<1>3. /\ flight' = flight \cup {new} /\ Room(1) /\ writes < MaxWrites /\ writes' = writes + 1
      /\ UNCHANGED <<server, list, screen>>
  BY <1>1 DEF Submit
<1>4. kind \in WriteKinds \cup {"read", "simulate"} /\ kind # "read"
  BY DEF WriteKinds
<1>5. kind \in {"create", "import"} => created + Cardinality(Creating) < MaxId
  BY <1>1
<1> HIDE DEF new, kind
<1> QED
  BY <1>2, <1>3, <1>4, <1>5, TypeSends

LEMMA TypeRequest ==
  ASSUME TypeInv, NEW kind \in {"delete", "import", "simulate", "read"}, NEW id, NEW values,
         kind = "delete" => id \in Ids, kind = "import" => values \in Shared,
         IF kind = "read" THEN Reads(flight) = {} ELSE Room(1),
         flight' = flight \cup {Request(kind, id, values)},
         kind = "import" => created + Cardinality(Creating) < MaxId,
         \/ writes' = writes
         \/ writes < MaxWrites /\ writes' = writes + 1,
         UNCHANGED <<server, list, screen>>
  PROVE  TypeInv'
<1> DEFINE new == Request(kind, id, values)
<1>1. kind \in WriteKinds \cup {"read", "simulate"} /\ kind \notin {"create", "update"}
  BY DEF WriteKinds
<1>2. /\ Shaped(new) /\ new.kind = kind /\ new.id = id /\ new.values = values
      /\ new.status = "sent"
      /\ \A r \in flight : r.kind = kind => r.n # new.n
  BY <1>1, RequestIs DEF TypeInv
<1> HIDE DEF new
<1>3. Meant(new)
  BY <1>1, <1>2 DEF Meant
<1>4. flight' = flight \cup {new}
  BY DEF new
<1> QED
  BY <1>1, <1>2, <1>3, <1>4, TypeSends

LEMMA LeaveMoves ==
  ASSUME TypeInv, NEW kinds
  PROVE  LET g == [p \in flight |-> Abandoned(p, kinds)]
         IN  Leave(kinds) = {g[p] : p \in flight} /\ \A p \in flight : Kin(p, g[p])
<1>1. \A p \in flight : Kin(p, Abandoned(p, kinds))
  BY FlightShaped, AbandonedFields
<1>2. Leave(kinds) = {Abandoned(p, kinds) : p \in flight}
  BY DEF Leave, Abandoned
<1> QED
  BY <1>1, <1>2

LEMMA TypeLeave ==
  ASSUME TypeInv, NEW kinds, flight' = Leave(kinds), UNCHANGED <<server, writes, list>>,
         FormInv'
  PROVE  TypeInv'
<1> DEFINE g == [p \in flight |-> Abandoned(p, kinds)]
<1>1. flight' = {g[p] : p \in flight} /\ \A p \in flight : Kin(p, g[p])
  BY LeaveMoves
<1>2. ListInv'
  BY ListKept
<1> HIDE DEF g
<1> QED
  BY <1>1, <1>2, TypeDrifts, AwaitedDrifts

LEMMA CancelMoves ==
  ASSUME TypeInv, CancelForm
  PROVE  LET g == [p \in flight |-> Uncovered(p)]
         IN  flight' = {g[p] : p \in flight} /\ \A p \in flight : Kin(p, g[p])
<1>1. \A p \in flight : Kin(p, Uncovered(p))
  BY FlightShaped, UncoveredFields
<1>2. flight' = {Uncovered(p) : p \in flight}
  BY DEF CancelForm, Uncovered
<1> QED
  BY <1>1, <1>2

LEMMA TypeUser == ASSUME TypeInv, User \/ Refetch PROVE TypeInv'
<1>1. CASE OpenNew
  <2>1. FormInv'
    BY <1>1, BlankStored DEF OpenNew, TypeInv, FormInv
  <2> QED
    BY <1>1, <2>1, TypeStill, ListKept DEF OpenNew
<1>2. CASE OpenEdit
  <2>1. PICK i \in Ids : /\ list.data[i] # None
                         /\ form' = [open |-> TRUE, id |-> i, base |-> FormOf(list.data[i]),
                                     sure |-> Told]
    BY <1>2 DEF OpenEdit
  <2>2. Stored(FormOf(list.data[i]))
    BY <1>2, <2>1, FormOfStored DEF OpenEdit, TypeInv, ListInv, Snapshot
  <2>3. Told \in BOOLEAN
    BY DEF Told
  <2>4. FormInv'
    <3>1. /\ form'.open = TRUE /\ form'.id = i /\ form'.base = FormOf(list.data[i])
          /\ form'.sure = Told
      BY <2>1
    <3>2. form' = [open |-> form'.open, id |-> form'.id, base |-> form'.base, sure |-> form'.sure]
      BY <2>1, <3>1
    <3>3. route' = "/offers" /\ modal' = "closed"
      BY <1>2 DEF OpenEdit
    <3> QED
      BY <2>2, <2>3, <3>1, <3>2, <3>3 DEF FormInv
  <2> QED
    BY <1>2, <2>4, TypeStill, ListKept DEF OpenEdit
<1>3. CASE Submit
  BY <1>3, TypeSubmit
<1>4. CASE CancelForm
  <2> DEFINE g == [p \in flight |-> Uncovered(p)]
  <2>1. flight' = {g[p] : p \in flight} /\ \A p \in flight : Kin(p, g[p])
    BY <1>4, CancelMoves
  <2>2. ListInv' /\ FormInv' /\ UNCHANGED <<server, writes>>
    BY <1>4, ListKept, FormGoes DEF CancelForm
  <2> HIDE DEF g
  <2> QED
    BY <2>1, <2>2, TypeDrifts, AwaitedDrifts
<1>5. CASE DeleteOffer
  BY <1>5, TypeRequest DEF DeleteOffer
<1>6. CASE OpenPublic
  <2>1. FormInv'
    BY <1>6 DEF OpenPublic, TypeInv, FormInv
  <2> QED
    BY <1>6, <2>1, TypeStill, ListKept DEF OpenPublic
<1>7. CASE ImportOffer
  BY <1>7, CreatingSet, TypeRequest DEF ImportOffer
<1>8. CASE ClosePublic
  <2>1. FormInv'
    BY <1>8 DEF ClosePublic, TypeInv, FormInv
  <2> QED
    BY <1>8, <2>1, TypeLeave DEF ClosePublic
<1>9. CASE Navigate
  <2>1. FormInv'
    BY <1>9 DEF Navigate, NoForm, TypeInv, FormInv
  <2> QED
    BY <1>9, <2>1, TypeLeave DEF Navigate
<1>10. CASE AnnualSimulate
  BY <1>10, TypeRequest DEF AnnualSimulate
<1>11. CASE Refetch
  BY <1>11, TypeRequest DEF Refetch
<1> QED
  BY <1>1, <1>2, <1>3, <1>4, <1>5, <1>6, <1>7, <1>8, <1>9, <1>10, <1>11 DEF User
(* The read that a page or an answered write sends.                        *)
LEMMA NewRead ==
  ASSUME TypeInv
  PROVE  LET new == Request("read", None, None)
         IN  /\ Shaped(new) /\ Meant(new) /\ new.kind = "read" /\ new.status = "sent"
             /\ new.sure /\ \A p \in flight : p.kind = new.kind => p.n # new.n
<1>1. PICK kind \in WriteKinds \cup {"read", "simulate"} : kind = "read"
  OBVIOUS
<1> DEFINE new == Request(kind, None, None)
<1>2. /\ Shaped(new) /\ new.kind = kind /\ new.status = "sent" /\ new.sure
      /\ \A r \in flight : r.kind = kind => r.n # new.n
  BY RequestIs DEF TypeInv
<1>3. new = Request("read", None, None)
  BY <1>1
<1> HIDE DEF new
<1>4. Meant(new)
  BY <1>1, <1>2 DEF Meant, WriteKinds
<1> QED
  BY <1>1, <1>2, <1>3, <1>4

(* One request is served, answered with me.                                *)
LEMMA TypeServed ==
  ASSUME TypeInv, NEW r \in flight, NEW me, Handled(r, me), Meant(me),
         me.status \in {"ok", "refused"},
         NEW g, g[r] = me, \A p \in flight : p # r => Kin(p, g[p]),
         flight' = {g[p] : p \in flight},
         \/ created' = created
         \/ r \in Creating /\ created' = created + 1,
         Snapshot(offers'), \A i \in Ids : i > created' => offers'[i] = None,
         UNCHANGED <<writes, list>>, FormInv'
  PROVE  TypeInv'
<1> DEFINE new == Request("read", None, None)
<1>1. /\ Shaped(new) /\ new.kind = "read" /\ new.status = "sent"
      /\ \A p \in flight : p.kind = new.kind => p.n # new.n
  BY NewRead
<1>2. Meant(new)
  BY <1>1 DEF Meant, WriteKinds
<1> HIDE DEF new
<1>3. /\ FlightInv' /\ SentInv'
      /\ Cardinality(Creating') \in Nat
      /\ Cardinality(Creating') + (IF r \in Creating THEN 1 ELSE 0) <= Cardinality(Creating)
  BY <1>1, <1>2, Handles
<1>4. Cardinality(Creating) \in Nat
  BY CreatingCount DEF TypeInv
<1>5. created' \in 0..MaxId /\ created' + Cardinality(Creating') <= MaxId
  BY <1>3, <1>4, BoundsAssumption DEF TypeInv, ServerInv
<1>6. Awaited'
  <2> SUFFICES ASSUME NEW q \in Refreshing(flight') PROVE Reads(flight') # {}
    BY DEF Awaited
  <2>1. PICK p \in flight : q = g[p]
    BY DEF Refreshing
  <2>2. p \in Refreshing(flight)
    BY <2>1 DEF Refreshing, Kin
  <2>3. PICK d \in Reads(flight) : TRUE
    BY <2>2 DEF TypeInv, Awaited
  <2>4. g[d] \in Reads(flight')
    BY <2>3 DEF Reads, Kin, Same, Handled
  <2> QED
    BY <2>4
<1> QED
  BY <1>3, <1>5, <1>6, ListKept DEF TypeInv, ServerInv

(* What becomes of the requests when r is answered with me, the list and   *)
(* the others being told or not.                                           *)
Others(r, me) == [p \in flight |-> IF p = r THEN me ELSE p]
Outdating(r, me) == [p \in flight |-> IF p = r THEN me ELSE Outdated(p)]

LEMMA OthersMove ==
  ASSUME TypeInv, NEW r \in flight, NEW me
  PROVE  /\ (flight \ {r}) \cup {me} = {Others(r, me)[p] : p \in flight}
         /\ Others(r, me)[r] = me
         /\ \A p \in flight : p # r => Kin(p, Others(r, me)[p]) /\ Others(r, me)[p] = p
<1>1. \A p \in flight : Others(r, me)[p] = IF p = r THEN me ELSE p
  BY DEF Others
<1> QED
  BY <1>1, FlightShaped, KinReflexive

LEMMA OutdatingMoves ==
  ASSUME TypeInv, NEW r \in flight, NEW me
  PROVE  /\ Outdate(flight \ {r}) \cup {me} = {Outdating(r, me)[p] : p \in flight}
         /\ Outdating(r, me)[r] = me
         /\ \A p \in flight : p # r => /\ Kin(p, Outdating(r, me)[p])
                                       /\ Outdating(r, me)[p] = Outdated(p)
<1>1. \A p \in flight : Outdating(r, me)[p] = IF p = r THEN me ELSE Outdated(p)
  BY DEF Outdating
<1>2. Outdate(flight \ {r}) = {Outdated(p) : p \in flight \ {r}}
  BY DEF Outdate, Outdated
<1> QED
  BY <1>1, <1>2, FlightShaped, OutdatedFields

LEMMA TypeRefuse ==
  ASSUME TypeInv, NEW r \in flight, r.status = "sent", r.kind \in WriteKinds, Refuse(r)
  PROVE  TypeInv'
<1> DEFINE me == Answering(r, "refused", None)
<1>1. Handled(r, me) /\ me.status = "refused"
  BY FlightShaped, AnswerFields
<1>2. Meant(me)
  BY <1>1 DEF Meant, Handled, Same, WriteKinds
<1>3. flight' = (flight \ {r}) \cup {me} /\ UNCHANGED <<server, writes, list, screen>>
  BY DEF Refuse, Answering
<1>4. FormInv'
  BY <1>3, FormUnchanged
<1>5. /\ created' = created /\ Snapshot(offers')
      /\ \A i \in Ids : i > created' => offers'[i] = None
  BY <1>3 DEF server, TypeInv, ServerInv
<1> DEFINE g == Others(r, me)
<1> HIDE DEF me
<1>6. g[r] = me /\ flight' = {g[p] : p \in flight} /\ \A p \in flight : p # r => Kin(p, g[p])
  BY <1>3, OthersMove
<1> HIDE DEF g
<1> QED
  BY <1>1, <1>2, <1>3, <1>4, <1>5, <1>6, TypeServed

LEMMA TypeWritten ==
  ASSUME TypeInv, NEW r \in flight, r.status = "sent", r.kind \in WriteKinds,
         NEW os, Written(r, os), Snapshot(os),
         \/ created' = created
         \/ r \in Creating /\ created' = created + 1,
         \A i \in Ids : i > created' => os[i] = None
  PROVE  TypeInv'
<1> DEFINE me == [r EXCEPT !.status = "ok"]
<1>1. Handled(r, me) /\ me.status = "ok"
  BY FlightShaped, StatusFields
<1>2. Meant(me)
  BY <1>1 DEF Meant, Handled, Same, WriteKinds
<1>3. /\ flight' = Outdate(flight \ {r}) \cup {me} /\ UNCHANGED <<writes, list, route, modal>>
      /\ offers' = os
  BY DEF Written
<1>4. FormInv'
  BY FormUnsure DEF Written
<1> DEFINE g == Outdating(r, me)
<1> HIDE DEF me
<1>5. g[r] = me /\ flight' = {g[p] : p \in flight} /\ \A p \in flight : p # r => Kin(p, g[p])
  BY <1>3, OutdatingMoves
<1> HIDE DEF g
<1> QED
  BY <1>1, <1>2, <1>3, <1>4, <1>5, TypeServed

LEMMA TypeServe == ASSUME TypeInv, NEW r \in flight, Serve(r) PROVE TypeInv'
<1>0. /\ Snapshot(offers) /\ created \in 0..MaxId
      /\ \A i \in Ids : i > created => offers[i] = None
  BY DEF TypeInv, ServerInv
<1>1. CASE ServeRead(r)
  <2> DEFINE v == IF r.kind = "read" THEN offers ELSE Totals(offers)
             me == Answering(r, "ok", v)
  <2>1. Handled(r, me) /\ me.status = "ok" /\ me.values = v
    BY FlightShaped, AnswerFields
  <2>2. Meant(me)
    BY <1>0, <2>1 DEF Meant, Handled, Same, WriteKinds
  <2>3. flight' = (flight \ {r}) \cup {me} /\ UNCHANGED <<server, writes, list, screen>>
    BY <1>1 DEF ServeRead, Answering
  <2>4. FormInv'
    BY <2>3, FormUnchanged
  <2>5. /\ created' = created /\ Snapshot(offers')
        /\ \A i \in Ids : i > created' => offers'[i] = None
    BY <1>0, <2>3 DEF server
  <2> DEFINE g == Others(r, me)
  <2> HIDE DEF me
  <2>6. g[r] = me /\ flight' = {g[p] : p \in flight} /\ \A p \in flight : p # r => Kin(p, g[p])
    BY <2>3, OthersMove
  <2> HIDE DEF g
  <2> QED
    BY <2>1, <2>2, <2>3, <2>4, <2>5, <2>6, TypeServed
<1>2. CASE ServeCreate(r)
  <2>1. /\ r.status = "sent" /\ r.kind = "create" /\ r \in Creating
        /\ r.kind \in WriteKinds
    BY <1>2 DEF ServeCreate, Creating, WriteKinds
  <2>2. CASE Acceptable(Sent(r.values))
    <3>1. created' = created + 1 /\ Written(r, Put(created', Sent(r.values)))
      BY <1>2, <2>2 DEF ServeCreate
    <3>2. Stored(Sent(r.values))
      BY <2>1, FlightShaped, SentFields DEF Meant
    <3>3. created + 1 \in Ids
      <4>1. Cardinality(Creating) # 0
        BY <2>1, CreatingCount, FS_EmptySet DEF TypeInv
      <4>2. Cardinality(Creating) \in Nat /\ created + Cardinality(Creating) <= MaxId
        BY CreatingCount DEF TypeInv, ServerInv
      <4> QED
        BY <1>0, <4>1, <4>2, BoundsAssumption DEF Ids
    <3>4. Snapshot(Put(created', Sent(r.values)))
      BY <1>0, <3>1, <3>2, <3>3, PutSnapshot
    <3>5. \A i \in Ids : i > created' => Put(created', Sent(r.values))[i] = None
      BY <1>0, <3>1, <3>2, <3>3, PutSnapshot DEF Ids
    <3> QED
      BY <2>1, <3>1, <3>4, <3>5, TypeWritten
  <2>3. CASE ~Acceptable(Sent(r.values))
    BY <1>2, <2>1, <2>3, TypeRefuse DEF ServeCreate
  <2> QED
    BY <2>2, <2>3
<1>3. CASE ServeUpdate(r)
  <2>1. r.status = "sent" /\ r.kind = "update" /\ r.kind \in WriteKinds
    BY <1>3 DEF ServeUpdate, WriteKinds
  <2>2. CASE Acceptable(Sent(r.values)) /\ offers[r.id] # None
    <3>1. created' = created /\ Written(r, Put(r.id, Sent(r.values)))
      BY <1>3, <2>2 DEF ServeUpdate
    <3>2. Stored(Sent(r.values)) /\ r.id \in Ids
      BY <2>1, FlightShaped, SentFields DEF Meant
    <3>3. Snapshot(Put(r.id, Sent(r.values)))
      BY <1>0, <3>2, PutSnapshot
    <3>4. \A i \in Ids : i > created' => Put(r.id, Sent(r.values))[i] = None
      BY <1>0, <2>2, <3>1, <3>2, PutSnapshot DEF Ids
    <3> QED
      BY <2>1, <3>1, <3>3, <3>4, TypeWritten
  <2>3. CASE ~(Acceptable(Sent(r.values)) /\ offers[r.id] # None)
    BY <1>3, <2>1, <2>3, TypeRefuse DEF ServeUpdate
  <2> QED
    BY <2>2, <2>3
<1>4. CASE ServeDelete(r)
  <2>1. r.status = "sent" /\ r.kind = "delete" /\ r.kind \in WriteKinds
    BY <1>4 DEF ServeDelete, WriteKinds
  <2>2. CASE offers[r.id] # None
    <3> DEFINE os == [offers EXCEPT ![r.id] = None]
    <3>1. created' = created /\ Written(r, os)
      BY <1>4, <2>2 DEF ServeDelete
    <3>2. DOMAIN os = Ids /\ \A i \in Ids : os[i] \in {offers[i], None}
      BY <1>0 DEF Snapshot
    <3> HIDE DEF os
    <3>3. Snapshot(os) /\ \A i \in Ids : i > created' => os[i] = None
      BY <1>0, <3>1, <3>2 DEF Snapshot
    <3> QED
      BY <2>1, <3>1, <3>3, TypeWritten
  <2>3. CASE offers[r.id] = None
    BY <1>4, <2>1, <2>3, TypeRefuse DEF ServeDelete
  <2> QED
    BY <2>2, <2>3
<1>5. CASE ServeImport(r)
  <2>1. /\ r.status = "sent" /\ r.kind = "import" /\ r \in Creating
        /\ r.kind \in WriteKinds
    BY <1>5 DEF ServeImport, Creating, WriteKinds
  <2> DEFINE o == [r.values EXCEPT !["current"] = FALSE, !["public"] = FALSE]
  <2>2. CASE created' = created + 1 /\ Written(r, Put(created', o))
    <3>2. Stored(o)
      BY <2>1, FlightShaped, ImportStored DEF Meant
    <3>3. created + 1 \in Ids
      <4>1. Cardinality(Creating) # 0
        BY <2>1, CreatingCount, FS_EmptySet DEF TypeInv
      <4>2. Cardinality(Creating) \in Nat /\ created + Cardinality(Creating) <= MaxId
        BY CreatingCount DEF TypeInv, ServerInv
      <4> QED
        BY <1>0, <4>1, <4>2, BoundsAssumption DEF Ids
    <3> HIDE DEF o
    <3>4. Snapshot(Put(created', o))
      BY <1>0, <2>2, <3>2, <3>3, PutSnapshot
    <3>5. \A i \in Ids : i > created' => Put(created', o)[i] = None
      BY <1>0, <2>2, <3>2, <3>3, PutSnapshot DEF Ids
    <3> QED
      BY <2>1, <2>2, <3>4, <3>5, TypeWritten
  <2>3. CASE Refuse(r)
    BY <2>1, <2>3, TypeRefuse
  <2> QED
    BY <1>5, <2>2, <2>3 DEF ServeImport
<1> QED
  BY <1>1, <1>2, <1>3, <1>4, <1>5 DEF Serve
Missing(r, me) == [p \in flight |-> IF p = r THEN me ELSE Missed(p)]

LEMMA MissingMoves ==
  ASSUME TypeInv, NEW r \in flight, NEW me
  PROVE  /\ Miss(flight \ {r}) \cup {me} = {Missing(r, me)[p] : p \in flight}
         /\ Missing(r, me)[r] = me
         /\ \A p \in flight : p # r => /\ Kin(p, Missing(r, me)[p])
                                       /\ Missing(r, me)[p] = Missed(p)
<1>1. \A p \in flight : Missing(r, me)[p] = IF p = r THEN me ELSE Missed(p)
  BY DEF Missing
<1>2. Miss(flight \ {r}) = {Missed(p) : p \in flight \ {r}}
  BY DEF Miss, Missed
<1> QED
  BY <1>1, <1>2, FlightShaped, MissedFields

(* A write elsewhere outdates what is in flight, and nobody tells.         *)
LEMMA ElsewhereMoves ==
  ASSUME TypeInv, Elsewhere
  PROVE  /\ flight' = {Missed(Outdated(p)) : p \in flight}
         /\ \A p \in flight : /\ Kin(p, Missed(Outdated(p)))
                              /\ p.kind = "read" => Missed(Outdated(p)) = Missed(p)
                              /\ Knows(p) => ~Missed(Outdated(p)).sure
<1>1. Outdate(flight) = {Outdated(p) : p \in flight}
  BY DEF Outdate, Outdated
<1>2. Miss(Outdate(flight)) = {Missed(q) : q \in Outdate(flight)}
  BY DEF Miss, Missed
<1>3. flight' = {Missed(Outdated(p)) : p \in flight}
  BY <1>1, <1>2 DEF Elsewhere
<1>4. ASSUME NEW p \in flight
      PROVE  /\ Kin(p, Missed(Outdated(p)))
             /\ p.kind = "read" => Missed(Outdated(p)) = Missed(p)
             /\ Knows(p) => ~Missed(Outdated(p)).sure
  <2> DEFINE q == Outdated(p)
  <2>1. /\ Kin(p, q) /\ (p.kind = "read" => q = p)
        /\ Knows(p) => ~q.sure
    BY FlightShaped, OutdatedFields
  <2> HIDE DEF q
  <2>2. Kin(q, Missed(q))
    BY <2>1, MissedFields DEF Kin
  <2>3. Kin(p, Missed(q))
    BY <2>1, <2>2 DEF Kin, Same
  <2>4. Knows(p) => ~Missed(q).sure
    BY <2>1, <2>2 DEF Kin
  <2> QED
    BY <2>1, <2>3, <2>4 DEF q
<1> QED
  BY <1>3, <1>4

LEMMA ElsewhereWrites ==
  ASSUME TypeInv, Elsewhere
  PROVE  Snapshot(offers') /\ \A i \in Ids : i > created => offers'[i] = None
<1>0. Snapshot(offers) /\ \A i \in Ids : i > created => offers[i] = None
  BY DEF TypeInv, ServerInv
<1>1. PICK i \in Ids :
        /\ offers[i] # None
        /\ \/ offers' = [offers EXCEPT ![i] = None]
           \/ \E f \in Edited : \E x \in Inputs(f, offers[i]) :
                offers' = Put(i, Sent([offers[i] EXCEPT ![f] = x]))
  BY DEF Elsewhere
<1>2. CASE offers' = [offers EXCEPT ![i] = None]
  <2>1. DOMAIN offers' = Ids /\ \A j \in Ids : offers'[j] \in {offers[j], None}
    BY <1>0, <1>2 DEF Snapshot
  <2> QED
    BY <1>0, <2>1 DEF Snapshot
<1>3. CASE \E f \in Edited : \E x \in Inputs(f, offers[i]) :
             offers' = Put(i, Sent([offers[i] EXCEPT ![f] = x]))
  <2>0. PICK f \in Edited : \E x \in Inputs(f, offers[i]) :
          offers' = Put(i, Sent([offers[i] EXCEPT ![f] = x]))
    BY <1>3
  <2>1. PICK x \in Inputs(f, offers[i]) :
          offers' = Put(i, Sent([offers[i] EXCEPT ![f] = x]))
    BY <2>0
  <2>2. Stored(offers[i]) /\ f \in Fields
    BY <1>0, <1>1, EditedAssumption DEF Snapshot
  <2>3. Filled([offers[i] EXCEPT ![f] = x])
    BY <2>2, StoredIsFilled, InputsFilled, AlteredFilled
  <2>4. Stored(Sent([offers[i] EXCEPT ![f] = x]))
    BY <2>3, SentFields
  <2>5. /\ Snapshot(offers')
        /\ \A j \in Ids : j # i /\ offers[j] = None => offers'[j] = None
    BY <1>0, <2>1, <2>4, PutSnapshot
  <2> QED
    BY <1>0, <1>1, <2>5
<1> QED
  BY <1>1, <1>2, <1>3

LEMMA TypeElsewhere == ASSUME TypeInv, Elsewhere PROVE TypeInv'
<1> DEFINE g == [p \in flight |-> Missed(Outdated(p))]
<1>1. flight' = {g[p] : p \in flight} /\ \A p \in flight : Kin(p, g[p])
  BY ElsewhereMoves
<1> HIDE DEF g
<1>2. /\ FlightInv' /\ SentInv'
      /\ Cardinality(Creating') \in Nat /\ Cardinality(Creating') <= Cardinality(Creating)
  BY <1>1, Drifts
<1>3. Awaited'
  BY <1>1, AwaitedDrifts
<1>4. Cardinality(Creating) \in Nat
  BY CreatingCount DEF TypeInv
<1>5. created' = created /\ writes' \in 0..MaxWrites
  BY BoundsAssumption DEF Elsewhere, TypeInv
<1>6. ServerInv'
  <2>1. created' \in 0..MaxId /\ created' + Cardinality(Creating') <= MaxId
    BY <1>2, <1>4, <1>5, BoundsAssumption DEF TypeInv, ServerInv
  <2> QED
    BY <1>5, <2>1, ElsewhereWrites DEF ServerInv
<1>7. ListInv' /\ FormInv'
  BY ListKept, FormUnsure DEF Elsewhere
<1> QED
  BY <1>2, <1>3, <1>5, <1>6, <1>7 DEF TypeInv

(* The two ways in which the answer of a write is taken.                   *)
LEMMA WriteAnsweredMoves ==
  ASSUME TypeInv, NEW r \in flight, WriteAnswered(r)
  PROVE  LET me == Refreshed(r)
             new == Request("read", None, None)
         IN  /\ Handled(r, me) /\ me.status = "refreshing" /\ Meant(me)
             /\ \/ /\ Reads(flight) # {}
                   /\ flight' = {Missing(r, me)[p] : p \in flight}
                   /\ missed' = (missed \/ \E q \in Reads(flight) : q.status = "ok")
                   /\ form' = form
                \/ /\ flight' = (flight \ ({r} \cup Reads(flight) \cup Refreshing(flight)))
                                \cup {me, new}
                   /\ Settle(Refreshing(flight))
                   /\ missed' = missed
<1> DEFINE me == Refreshed(r)
           new == Request("read", None, None)
<1>1. r.kind \in WriteKinds /\ r.status = "ok"
  BY DEF WriteAnswered
<1>2. Handled(r, me) /\ me.status = "refreshing"
  BY FlightShaped, RefreshFields
<1>3. Meant(me)
  BY <1>1, <1>2 DEF Meant, Handled, Same, WriteKinds
<1>4. Reads(flight \ {r}) = Reads(flight) /\ Refreshing(flight \ {r}) = Refreshing(flight)
  BY <1>1 DEF Reads, Refreshing, WriteKinds
<1>5. me = [r EXCEPT !.status = "refreshing", !.values = None, !.sure = TRUE]
  BY DEF Refreshed
<1> HIDE DEF me, new
<1>6. CASE list.data = None /\ Reads(flight) # {}
  <2>1. /\ flight' = Miss(flight \ {r}) \cup {me}
        /\ missed' = (missed \/ \E q \in Reads(flight) : q.status = "ok")
        /\ form' = form
    BY <1>4, <1>5, <1>6 DEF WriteAnswered
  <2> QED
    BY <1>2, <1>3, <1>6, <2>1, MissingMoves DEF me
<1>7. CASE ~(list.data = None /\ Reads(flight) # {})
  <2>1. /\ flight' = ((flight \ {r}) \ (Reads(flight) \cup Refreshing(flight))) \cup {me, new}
        /\ Settle(Refreshing(flight))
        /\ missed' = missed
    BY <1>4, <1>5, <1>7 DEF WriteAnswered, new
  <2>2. (flight \ {r}) \ (Reads(flight) \cup Refreshing(flight)) =
          flight \ ({r} \cup Reads(flight) \cup Refreshing(flight))
    OBVIOUS
  <2> QED
    BY <1>2, <1>3, <2>1, <2>2 DEF me, new
<1> QED
  BY <1>6, <1>7

LEMMA TypeWriteAnswered == ASSUME TypeInv, NEW r \in flight, WriteAnswered(r) PROVE TypeInv'
<1> DEFINE me == Refreshed(r)
           new == Request("read", None, None)
<1>1. /\ Handled(r, me) /\ me.status = "refreshing" /\ Meant(me)
      /\ \/ /\ Reads(flight) # {} /\ flight' = {Missing(r, me)[p] : p \in flight}
            /\ form' = form
         \/ /\ flight' = (flight \ ({r} \cup Reads(flight) \cup Refreshing(flight)))
                         \cup {me, new}
            /\ Settle(Refreshing(flight))
  BY WriteAnsweredMoves
<1>2. /\ Shaped(new) /\ Meant(new) /\ new.kind = "read"
      /\ \A p \in flight : p.kind = new.kind => p.n # new.n
  BY NewRead
<1>3. r.kind \in WriteKinds /\ UNCHANGED <<server, writes, list, route, modal>>
  BY DEF WriteAnswered
<1> HIDE DEF me, new
<1>4. ListInv' /\ FormInv'
  <2>1. form' \in {form, NoForm}
    BY <1>1 DEF Settle
  <2> QED
    BY <1>3, <2>1, ListKept, FormGoes
<1>5. /\ FlightInv' /\ SentInv' /\ Awaited'
      /\ Cardinality(Creating') \in Nat
      /\ Cardinality(Creating') + (IF r \in Creating THEN 1 ELSE 0) <= Cardinality(Creating)
  <2>1. CASE /\ Reads(flight) # {} /\ flight' = {Missing(r, me)[p] : p \in flight}
    <3> DEFINE g == Missing(r, me)
    <3>1. g[r] = me /\ \A p \in flight : p # r => Kin(p, g[p])
      BY MissingMoves
    <3>2. flight' \subseteq {g[p] : p \in flight}
      BY <2>1
    <3> HIDE DEF g
    <3>3. /\ FlightInv' /\ SentInv'
          /\ Cardinality(Creating') \in Nat
          /\ Cardinality(Creating') + (IF r \in Creating THEN 1 ELSE 0) <= Cardinality(Creating)
      BY <1>1, <1>2, <3>1, <3>2, Handles
    <3>4. Reads(flight') # {}
      <4>1. PICK d \in Reads(flight) : TRUE
        BY <2>1
      <4>2. g[d] \in Reads(flight')
        BY <2>1, <3>1, <4>1, <1>1 DEF Reads, Kin, Same, g, Handled
      <4> QED
        BY <4>2
    <3> QED
      BY <3>3, <3>4 DEF Awaited
  <2>2. CASE /\ flight' = (flight \ ({r} \cup Reads(flight) \cup Refreshing(flight)))
                          \cup {me, new}
    <3> DEFINE g == Others(r, me)
    <3>1. g[r] = me /\ \A p \in flight : p # r => Kin(p, g[p]) /\ g[p] = p
      BY OthersMove
    <3> HIDE DEF g
    <3>2. flight' \subseteq {g[p] : p \in flight} \cup {new}
      BY <2>2, <3>1
    <3>3. \A q \in Reads(flight') : q = new
      BY <1>1, <1>3, <2>2 DEF Reads, Handled, Same, WriteKinds
    <3>4. new \in Reads(flight')
      BY <1>2, <2>2 DEF Reads
    <3>5. /\ FlightInv' /\ SentInv'
          /\ Cardinality(Creating') \in Nat
          /\ Cardinality(Creating') + (IF r \in Creating THEN 1 ELSE 0) <= Cardinality(Creating)
      BY <1>1, <1>2, <3>1, <3>2, <3>3, Handles
    <3> QED
      BY <3>4, <3>5 DEF Awaited
  <2> QED
    BY <1>1, <2>1, <2>2
<1>6. created' + Cardinality(Creating') <= MaxId
  <2>1. Cardinality(Creating) \in Nat
    BY CreatingCount DEF TypeInv
  <2> QED
    BY <1>3, <1>5, <2>1, BoundsAssumption DEF TypeInv, ServerInv, server
<1> QED
  BY <1>3, <1>4, <1>5, <1>6 DEF TypeInv, ServerInv, server

(* Nothing new, and whoever waits still waits for somebody.                *)
LEMMA TypeGoes ==
  ASSUME TypeInv, flight' \subseteq flight, UNCHANGED <<server, writes>>, ListInv', FormInv',
         Awaited'
  PROVE  TypeInv'
<1> DEFINE g == [p \in flight |-> p]
<1>1. \A p \in flight : Kin(p, g[p])
  BY FlightShaped, KinReflexive
<1>2. flight' \subseteq {g[p] : p \in flight}
  OBVIOUS
<1> HIDE DEF g
<1> QED
  BY <1>1, <1>2, TypeDrifts

LEMMA TypeReceive == ASSUME TypeInv, NEW r \in flight, Receive(r) PROVE TypeInv'
<1>1. CASE WriteAnswered(r)
  BY <1>1, TypeWriteAnswered
<1>2. CASE ReadAnswered(r)
  <2>1. Snapshot(r.values)
    BY <1>2, FlightShaped DEF ReadAnswered, Meant
  <2>2. ListInv'
    BY <1>2, <2>1 DEF ReadAnswered, ListInv
  <2>3. FormInv'
    BY <1>2, FormGoes DEF ReadAnswered, Settle
  <2>4. Awaited'
    BY <1>2 DEF ReadAnswered, Awaited, Refreshing
  <2> QED
    BY <1>2, <2>2, <2>3, <2>4, TypeGoes DEF ReadAnswered
<1>3. CASE SimulationAnswered(r)
  <2>1. Awaited'
    BY <1>3 DEF SimulationAnswered, TypeInv, Awaited, Refreshing, Reads
  <2> QED
    BY <1>3, <2>1, ListKept, FormUnchanged, TypeGoes DEF SimulationAnswered
<1>4. CASE ReadFailed(r)
  <2>1. ListInv'
    BY <1>4 DEF ReadFailed, TypeInv, ListInv
  <2>2. FormInv'
    BY <1>4, FormGoes DEF ReadFailed, Settle
  <2>3. Awaited'
    BY <1>4 DEF ReadFailed, Awaited, Refreshing
  <2> QED
    BY <1>4, <2>1, <2>2, <2>3, TypeGoes DEF ReadFailed
<1>5. CASE RequestFailed(r)
  <2>1. UNCHANGED <<server, writes, list, screen>> /\ r.kind # "read"
    BY <1>5 DEF RequestFailed
  <2>2. CASE flight' = flight \ {r}
    <3>1. Awaited'
      BY <2>1, <2>2 DEF TypeInv, Awaited, Refreshing, Reads
    <3> QED
      BY <2>1, <2>2, <3>1, ListKept, FormUnchanged, TypeGoes
  <2>3. CASE flight' = Miss(flight \ {r})
    <3> DEFINE g == Missing(r, r)
    <3>1. \A p \in flight : Kin(p, g[p]) /\ (p # r => g[p] = Missed(p))
      <4>1. g[r] = r /\ \A p \in flight : p # r => Kin(p, g[p]) /\ g[p] = Missed(p)
        BY MissingMoves
      <4>2. Kin(r, r)
        BY FlightShaped, KinReflexive
      <4> HIDE DEF g
      <4> QED
        BY <4>1, <4>2
    <3>2. Miss(flight \ {r}) = {Missed(p) : p \in flight \ {r}}
      BY DEF Miss, Missed
    <3> HIDE DEF g
    <3>3. flight' = {g[p] : p \in flight \ {r}}
      BY <2>3, <3>1, <3>2
    <3>4. Awaited'
      <4> SUFFICES ASSUME NEW q \in Refreshing(flight') PROVE Reads(flight') # {}
        BY DEF Awaited
      <4>1. PICK p \in flight : q = g[p]
        BY <3>3 DEF Refreshing
      <4>2. p \in Refreshing(flight)
        BY <3>1, <4>1 DEF Refreshing, Kin
      <4>3. PICK d \in Reads(flight) : TRUE
        BY <4>2 DEF TypeInv, Awaited
      <4>4. g[d] \in Reads(flight')
        BY <2>1, <3>1, <3>3, <4>3 DEF Reads, Kin, Same
      <4> QED
        BY <4>4
    <3> QED
      BY <2>1, <3>1, <3>3, <3>4, ListKept, FormUnchanged, TypeDrifts
  <2> QED
    BY <1>5, <2>2, <2>3 DEF RequestFailed
<1> QED
  BY <1>1, <1>2, <1>3, <1>4, <1>5 DEF Receive

LEMMA TypeInvStep == TypeInv /\ [Next]_vars => TypeInv'
<1> SUFFICES ASSUME TypeInv, [Next]_vars PROVE TypeInv'
  OBVIOUS
<1>1. CASE User \/ Refetch
  BY <1>1, TypeUser
<1>2. CASE Elsewhere
  BY <1>2, TypeElsewhere
<1>3. ASSUME NEW r \in flight, Serve(r) PROVE TypeInv'
  BY <1>3, TypeServe
<1>4. ASSUME NEW r \in flight, Receive(r) PROVE TypeInv'
  BY <1>4, TypeReceive
<1>5. CASE UNCHANGED vars
  <2>1. UNCHANGED <<server, writes, list, flight, screen>>
    BY <1>5 DEF vars, server, screen
  <2> QED
    BY <2>1, TypeStill, ListKept, FormUnchanged
<1> QED
  BY <1>1, <1>2, <1>3, <1>4, <1>5 DEF Next

LEMMA TypeInvariant == Spec => []TypeInv
<1> QED
  BY TypeInvInit, TypeInvStep, PTL DEF Spec

LEMMA TypeInvGivesTypeOK == TypeInv => TypeOK
<1> SUFFICES ASSUME TypeInv PROVE TypeOK
  OBVIOUS
<1>1. Cardinality(flight) <= MaxFlight + 1 /\ Cardinality(Reads(flight)) <= 1
  BY FlightBound DEF TypeInv
<1>2. \A r \in flight : /\ r.status \in {"sent", "ok", "refused", "refreshing"}
                        /\ r.waits \in {"page", "left", "nobody"}
  BY FlightShaped DEF Shaped
<1>3. /\ created \in 0..MaxId /\ writes \in 0..MaxWrites
      /\ \A i \in Ids : /\ i > created => offers[i] = None
                        /\ offers[i] # None => Stored(offers[i])
  BY DEF TypeInv, ServerInv, Snapshot
<1>4. /\ form.open => route = "/offers" /\ modal = "closed"
      /\ modal # "closed" => route = "/offers"
  BY DEF TypeInv, FormInv
<1> QED
  BY <1>1, <1>2, <1>3, <1>4 DEF TypeInv, TypeOK, Awaited

(* Every variable stays in its type, requests are as many as their bound   *)
(* allows, one read at a time, and whoever waits for a read has one to     *)
(* wait for (Request, Refetch, WriteAnswered).                             *)
THEOREM TypeCorrect == Spec => []TypeOK
<1> QED
  BY TypeInvariant, TypeInvGivesTypeOK, PTL
-----------------------------------------------------------------------------
(* The list is what the server has *)

(* A step that brings no answer to a read, nor takes one, and ends no      *)
(* write that the list does not have yet.                                  *)
LEMMA CoherentDrifts ==
  ASSUME CoherentInv, UNCHANGED <<offers, list>>, missed' <=> missed,
         \A q \in Reads(flight') : \/ q \in Reads(flight)
                                   \/ q.status = "sent" /\ q.sure,
         \A w \in flight : w.kind \in WriteKinds /\ w.status \in {"ok", "refreshing"} =>
           \E v \in flight' : v.kind = w.kind /\ v.status = w.status
  PROVE  CoherentInv'
<1>1. Writing => Writing'
  BY DEF Writing
<1>2. Told' => Told
  BY DEF Told
<1>3. ListCoherent'
  BY <1>2 DEF CoherentInv, ListCoherent
<1>4. ASSUME NEW q \in Reads(flight')
      PROVE  /\ q.status = "sent" => q.sure
             /\ q.status = "ok" /\ q.sure => q.values = offers' \/ Writing'
             /\ q.status = "ok" /\ ~q.sure => missed'
  BY <1>1 DEF CoherentInv
<1> QED
  BY <1>3, <1>4 DEF CoherentInv

LEMMA CoherentKin ==
  ASSUME TypeInv, CoherentInv, UNCHANGED <<offers, list, missed>>,
         NEW g, \A p \in flight : Kin(p, g[p]) /\ (p.kind = "read" => g[p] = p),
         flight' = {g[p] : p \in flight}
  PROVE  CoherentInv'
<1>1. \A q \in Reads(flight') : q \in Reads(flight)
  BY DEF Reads, Kin, Same
<1>2. \A w \in flight : w.kind \in WriteKinds /\ w.status \in {"ok", "refreshing"} =>
        \E v \in flight' : v.kind = w.kind /\ v.status = w.status
  BY DEF Kin, Same
<1> QED
  BY <1>1, <1>2, CoherentDrifts

LEMMA CoherentLeave ==
  ASSUME TypeInv, CoherentInv, NEW kinds, "read" \notin kinds, flight' = Leave(kinds),
         UNCHANGED <<offers, list, missed>>
  PROVE  CoherentInv'
<1> DEFINE g == [p \in flight |-> Abandoned(p, kinds)]
<1>1. flight' = {g[p] : p \in flight} /\ \A p \in flight : Kin(p, g[p])
  BY LeaveMoves
<1>2. \A p \in flight : p.kind = "read" => g[p] = p
  BY FlightShaped, AbandonedFields
<1> HIDE DEF g
<1> QED
  BY <1>1, <1>2, CoherentKin

LEMMA CoherentSends ==
  ASSUME CoherentInv, NEW new, new.kind = "read" => new.status = "sent" /\ new.sure,
         flight' = flight \cup {new}, UNCHANGED <<offers, list, missed>>
  PROVE  CoherentInv'
<1>1. \A q \in Reads(flight') : \/ q \in Reads(flight)
                                \/ q.status = "sent" /\ q.sure
  BY DEF Reads
<1> QED
  BY <1>1, CoherentDrifts

LEMMA CoherentRequest ==
  ASSUME TypeInv, CoherentInv, NEW kind \in {"delete", "import", "simulate"}, NEW id, NEW values,
         flight' = flight \cup {Request(kind, id, values)}, UNCHANGED <<offers, list, missed>>
  PROVE  CoherentInv'
<1> DEFINE new == Request(kind, id, values)
<1>1. new.kind = kind
  BY RequestIs DEF TypeInv, WriteKinds
<1> HIDE DEF new
<1>2. flight' = flight \cup {new}
  BY DEF new
<1> QED
  BY <1>1, <1>2, CoherentSends

LEMMA CoherentUser == ASSUME TypeInv, CoherentInv, User \/ Refetch PROVE CoherentInv'
<1>1. CASE OpenNew \/ OpenEdit \/ OpenPublic
  <2>1. UNCHANGED <<offers, list, missed, flight>>
    BY <1>1 DEF OpenNew, OpenEdit, OpenPublic, server
  <2> QED
    BY <2>1, CoherentDrifts
<1>2. CASE Submit
  <2>1. PICK v : Filled(v) /\ Valid(v) /\ form.open /\ flight' = flight \cup {Submitted(v)}
    BY <1>2, SubmitSends
  <2>2. Submitted(v).kind # "read"
    BY <2>1, SubmittedIs
  <2>3. UNCHANGED <<offers, list, missed>>
    BY <1>2 DEF Submit, server
  <2> QED
    BY <2>1, <2>2, <2>3, CoherentSends
<1>3. CASE CancelForm
  <2> DEFINE g == [p \in flight |-> Uncovered(p)]
  <2>1. flight' = {g[p] : p \in flight} /\ \A p \in flight : Kin(p, g[p])
    BY <1>3, CancelMoves
  <2>2. \A p \in flight : p.kind = "read" => g[p] = p
    BY FlightShaped, UncoveredFields
  <2>3. UNCHANGED <<offers, list, missed>>
    BY <1>3 DEF CancelForm, server
  <2> HIDE DEF g
  <2> QED
    BY <2>1, <2>2, <2>3, CoherentKin
<1>4. CASE DeleteOffer
  <2>1. /\ \E i \in Ids : flight' = flight \cup {Request("delete", i, None)}
        /\ UNCHANGED <<offers, list, missed>>
    BY <1>4 DEF DeleteOffer, server
  <2> QED
    BY <2>1, CoherentRequest
<1>5. CASE ImportOffer
  <2>1. /\ \E o \in Shared : flight' = flight \cup {Request("import", None, o)}
        /\ UNCHANGED <<offers, list, missed>>
    BY <1>5 DEF ImportOffer, server
  <2> QED
    BY <2>1, CoherentRequest
<1>6. CASE ClosePublic
  BY <1>6, CoherentLeave DEF ClosePublic, server
<1>7. CASE Navigate
  BY <1>7, CoherentLeave DEF Navigate, server, WriteKinds
<1>8. CASE AnnualSimulate
  <2>1. /\ flight' = flight \cup {Request("simulate", None, None)}
        /\ UNCHANGED <<offers, list, missed>>
    BY <1>8 DEF AnnualSimulate, server
  <2> QED
    BY <2>1, CoherentRequest
<1>9. CASE Refetch
  <2> DEFINE new == Request("read", None, None)
  <2>1. new.status = "sent" /\ new.sure
    BY NewRead
  <2>2. flight' = flight \cup {new} /\ UNCHANGED <<offers, list, missed>>
    BY <1>9 DEF Refetch, server
  <2> HIDE DEF new
  <2> QED
    BY <2>1, <2>2, CoherentSends
<1> QED
  BY <1>1, <1>2, <1>3, <1>4, <1>5, <1>6, <1>7, <1>8, <1>9 DEF User

LEMMA CoherentRefuse ==
  ASSUME TypeInv, CoherentInv, NEW r \in flight, r.status = "sent", r.kind \in WriteKinds,
         Refuse(r)
  PROVE  CoherentInv'
<1> DEFINE me == Answering(r, "refused", None)
<1>1. me.kind = r.kind
  BY FlightShaped, AnswerFields DEF Handled, Same
<1>2. flight' = (flight \ {r}) \cup {me} /\ UNCHANGED <<offers, list, missed>>
  BY DEF Refuse, Answering, server
<1> HIDE DEF me
<1>3. \A q \in Reads(flight') : q \in Reads(flight)
  BY <1>1, <1>2 DEF Reads, WriteKinds
<1>4. \A w \in flight : w.kind \in WriteKinds /\ w.status \in {"ok", "refreshing"} =>
        \E v \in flight' : v.kind = w.kind /\ v.status = w.status
  BY <1>2
<1> QED
  BY <1>2, <1>3, <1>4, CoherentDrifts

LEMMA CoherentWritten ==
  ASSUME TypeInv, CoherentInv, NEW r \in flight, r.status = "sent", r.kind \in WriteKinds,
         NEW os, Written(r, os)
  PROVE  CoherentInv'
<1> DEFINE me == [r EXCEPT !.status = "ok"]
<1>1. me.kind = r.kind /\ me.status = "ok"
  BY FlightShaped, StatusFields DEF Handled, Same
<1>2. flight' = Outdate(flight \ {r}) \cup {me} /\ UNCHANGED <<list, missed>>
  BY DEF Written
<1> HIDE DEF me
<1>3. Writing' /\ ~Told'
  BY <1>1, <1>2 DEF Writing, Told
<1>4. \A q \in Reads(flight') : q \in Reads(flight)
  <2>1. \A p \in flight : Outdated(p).kind = p.kind /\ (p.kind = "read" => Outdated(p) = p)
    BY FlightShaped, OutdatedFields DEF Kin, Same
  <2>2. Outdate(flight \ {r}) = {Outdated(p) : p \in flight \ {r}}
    BY DEF Outdate, Outdated
  <2>3. ASSUME NEW q \in flight', q.kind = "read" PROVE q \in flight
    <3>1. q # me
      BY <1>1, <2>3 DEF WriteKinds
    <3>2. PICK p \in flight \ {r} : q = Outdated(p)
      BY <1>2, <2>2, <3>1
    <3> QED
      BY <2>1, <2>3, <3>2
  <2> QED
    BY <2>3 DEF Reads
<1> QED
  BY <1>2, <1>3, <1>4 DEF CoherentInv, ListCoherent

LEMMA CoherentServe == ASSUME TypeInv, CoherentInv, NEW r \in flight, Serve(r) PROVE CoherentInv'
<1>1. CASE ServeRead(r)
  <2> DEFINE v == IF r.kind = "read" THEN offers ELSE Totals(offers)
             me == Answering(r, "ok", v)
  <2>1. me.kind = r.kind /\ me.values = v /\ me.status = "ok" /\ me.sure = r.sure
    BY FlightShaped, AnswerFields DEF Handled, Same
  <2>2. flight' = (flight \ {r}) \cup {me} /\ UNCHANGED <<offers, list, missed>>
    BY <1>1 DEF ServeRead, Answering, server
  <2>3. r.status = "sent" /\ r.kind \notin WriteKinds
    BY <1>1 DEF ServeRead, WriteKinds
  <2>4. r.kind = "read" => v = offers /\ r.sure
    BY <2>3 DEF CoherentInv, Reads
  <2> HIDE DEF me, v
  <2>5. Writing' <=> Writing
    BY <2>1, <2>2, <2>3 DEF Writing
  <2>6. Told' => Told
    BY <2>1, <2>2, <2>3 DEF Told
  <2>7. ListCoherent'
    BY <2>2, <2>6 DEF CoherentInv, ListCoherent
  <2>8. ASSUME NEW q \in Reads(flight')
        PROVE  /\ q.status = "sent" => q.sure
               /\ q.status = "ok" /\ q.sure => q.values = offers' \/ Writing'
               /\ q.status = "ok" /\ ~q.sure => missed'
    <3>1. CASE q = me
      BY <2>1, <2>2, <2>4, <3>1 DEF Reads
    <3>2. CASE q # me
      BY <2>2, <2>5, <3>2 DEF Reads, CoherentInv
    <3> QED
      BY <3>1, <3>2
  <2> QED
    BY <2>7, <2>8 DEF CoherentInv
<1>2. CASE ServeCreate(r)
  BY <1>2, CoherentWritten, CoherentRefuse DEF ServeCreate, WriteKinds
<1>3. CASE ServeUpdate(r)
  BY <1>3, CoherentWritten, CoherentRefuse DEF ServeUpdate, WriteKinds
<1>4. CASE ServeDelete(r)
  BY <1>4, CoherentWritten, CoherentRefuse DEF ServeDelete, WriteKinds
<1>5. CASE ServeImport(r)
  BY <1>5, CoherentWritten, CoherentRefuse DEF ServeImport, WriteKinds
<1> QED
  BY <1>1, <1>2, <1>3, <1>4, <1>5 DEF Serve

LEMMA CoherentElsewhere == ASSUME TypeInv, CoherentInv, Elsewhere PROVE CoherentInv'
<1>1. missed' = TRUE
  BY DEF Elsewhere
<1>2. ASSUME NEW q \in Reads(flight')
      PROVE  (q.status = "sent" => q.sure) /\ (q.status = "ok" => ~q.sure)
  <2>1. PICK p \in flight : q = Missed(Outdated(p))
    BY ElsewhereMoves DEF Reads
  <2>2. p.kind = "read" /\ q = Missed(p)
    BY <2>1, ElsewhereMoves DEF Reads, Kin, Same
  <2>3. /\ q.status = p.status /\ (p.status = "ok" => ~q.sure)
        /\ p.status # "ok" => q = p
    BY <2>2, FlightShaped, MissedFields DEF Kin
  <2> QED
    BY <2>2, <2>3 DEF CoherentInv, Reads
<1> QED
  BY <1>1, <1>2 DEF CoherentInv, ListCoherent, Told
LEMMA CoherentWriteAnswered ==
  ASSUME TypeInv, CoherentInv, NEW r \in flight, WriteAnswered(r) PROVE CoherentInv'
<1> DEFINE me == Refreshed(r)
           new == Request("read", None, None)
<1>1. /\ Handled(r, me) /\ me.status = "refreshing"
      /\ \/ /\ flight' = {Missing(r, me)[p] : p \in flight}
            /\ missed' = (missed \/ \E q \in Reads(flight) : q.status = "ok")
         \/ /\ flight' = (flight \ ({r} \cup Reads(flight) \cup Refreshing(flight)))
                         \cup {me, new}
            /\ missed' = missed
  BY WriteAnsweredMoves
<1>2. new.kind = "read" /\ new.status = "sent" /\ new.sure
  BY NewRead
<1>3. r.kind \in WriteKinds /\ r.kind # "read" /\ UNCHANGED <<offers, list>>
  BY DEF WriteAnswered, server, WriteKinds
<1>4. me.kind = r.kind
  BY <1>1 DEF Handled, Same
<1> HIDE DEF me, new
<1>5. CASE /\ flight' = {Missing(r, me)[p] : p \in flight}
           /\ missed' = (missed \/ \E q \in Reads(flight) : q.status = "ok")
  <2> DEFINE g == Missing(r, me)
  <2>1. g[r] = me /\ \A p \in flight : p # r => Kin(p, g[p]) /\ g[p] = Missed(p)
    BY MissingMoves
  <2>2. flight' = {g[p] : p \in flight}
    BY <1>5
  <2> HIDE DEF g
  <2>3. me \in flight'
    BY <2>1, <2>2
  <2>4. ~Told'
    BY <1>1, <1>3, <1>4, <2>3 DEF Told
  <2>5. ASSUME NEW q \in Reads(flight')
        PROVE  /\ q.status = "sent" => q.sure
               /\ q.status = "ok" => ~q.sure /\ missed'
    <3>1. PICK p \in flight : q = g[p]
      BY <2>2 DEF Reads
    <3>2. p # r
      BY <1>3, <1>4, <2>1, <3>1 DEF Reads
    <3>3. q = Missed(p) /\ p \in Reads(flight) /\ p.status = q.status
      BY <2>1, <3>1, <3>2 DEF Reads, Kin, Same
    <3>4. /\ p.status = "ok" => ~q.sure
          /\ p.status # "ok" => q = p
      BY <3>3, FlightShaped, MissedFields DEF Reads
    <3> QED
      BY <1>5, <3>3, <3>4 DEF CoherentInv
  <2> QED
    BY <2>4, <2>5 DEF CoherentInv, ListCoherent
<1>6. CASE flight' = (flight \ ({r} \cup Reads(flight) \cup Refreshing(flight))) \cup {me, new}
  <2>1. ~Told'
    BY <1>1, <1>3, <1>4, <1>6 DEF Told
  <2>2. \A q \in Reads(flight') : q = new
    BY <1>3, <1>4, <1>6 DEF Reads
  <2> QED
    BY <1>2, <2>1, <2>2 DEF CoherentInv, ListCoherent
<1> QED
  BY <1>1, <1>5, <1>6

LEMMA CoherentReadAnswered ==
  ASSUME TypeInv, CoherentInv, NEW r \in flight, ReadAnswered(r) PROVE CoherentInv'
<1>1. /\ r \in Reads(flight) /\ r.status = "ok"
      /\ list' = [data |-> r.values, ok |-> TRUE] /\ missed' = (missed /\ ~r.sure)
      /\ flight' = flight \ ({r} \cup Refreshing(flight)) /\ offers' = offers
  BY DEF ReadAnswered, Reads, server
<1>2. Reads(flight') = {}
  BY <1>1 DEF TypeInv, FlightInv, OneRead, Reads
<1>3. ListCoherent'
  <2> SUFFICES ASSUME Told' PROVE r.values = offers
    BY <1>1 DEF ListCoherent
  <2>1. r.sure
    <3>1. ~missed'
      BY DEF Told
    <3> QED
      BY <1>1, <3>1 DEF CoherentInv
  <2>2. ~Writing
    <3> SUFFICES ASSUME NEW w \in flight, w.kind \in WriteKinds, w.status = "ok" PROVE FALSE
      BY DEF Writing
    <3>1. w \in flight'
      BY <1>1 DEF Refreshing, Reads, WriteKinds
    <3> QED
      BY <3>1 DEF Told
  <2> QED
    BY <1>1, <2>1, <2>2 DEF CoherentInv
<1> QED
  BY <1>2, <1>3 DEF CoherentInv

LEMMA CoherentReceive ==
  ASSUME TypeInv, CoherentInv, NEW r \in flight, Receive(r) PROVE CoherentInv'
<1>1. CASE WriteAnswered(r)
  BY <1>1, CoherentWriteAnswered
<1>2. CASE ReadAnswered(r)
  BY <1>2, CoherentReadAnswered
<1>3. CASE SimulationAnswered(r)
  <2>1. /\ r.kind = "simulate" /\ flight' = flight \ {r}
        /\ UNCHANGED <<offers, list, missed>>
    BY <1>3 DEF SimulationAnswered, server
  <2>2. /\ \A q \in Reads(flight') : q \in Reads(flight)
        /\ \A w \in flight : w.kind \in WriteKinds => w \in flight'
    BY <2>1 DEF Reads, WriteKinds
  <2> QED
    BY <2>1, <2>2, CoherentDrifts
<1>4. CASE ReadFailed(r)
  <2>1. /\ r \in Reads(flight) /\ ~list'.ok
        /\ flight' \subseteq flight \ {r}
    BY <1>4 DEF ReadFailed, Reads, TypeInv, ListInv
  <2>2. Reads(flight') = {}
    BY <2>1 DEF TypeInv, FlightInv, OneRead, Reads
  <2> QED
    BY <2>1, <2>2 DEF CoherentInv, ListCoherent, Told
<1>5. CASE RequestFailed(r)
  <2>1. /\ r.kind # "read" /\ r.status # "refreshing" /\ UNCHANGED <<offers, list>>
        /\ missed' = (missed \/ (r.kind \in WriteKinds /\ r.status = "ok"))
        /\ flight' = IF r.kind \in WriteKinds /\ r.status = "ok"
                       THEN Miss(flight \ {r}) ELSE flight \ {r}
    BY <1>5 DEF RequestFailed, server
  <2>2. CASE r.kind \in WriteKinds /\ r.status = "ok"
    <3>1. missed' /\ flight' = {Missed(p) : p \in flight \ {r}}
      BY <2>1, <2>2 DEF Miss, Missed
    <3>2. ASSUME NEW q \in Reads(flight')
          PROVE  (q.status = "sent" => q.sure) /\ (q.status = "ok" => ~q.sure)
      <4>1. PICK p \in flight : q = Missed(p)
        BY <3>1 DEF Reads
      <4>2. /\ Kin(p, q) /\ (p.kind = "read" /\ p.status = "ok" => ~q.sure)
            /\ ~(p.kind = "read" /\ p.status = "ok") => q = p
        BY <4>1, FlightShaped, MissedFields
      <4> QED
        BY <4>2 DEF CoherentInv, Reads, Kin, Same
    <3> QED
      BY <3>1, <3>2 DEF CoherentInv, ListCoherent, Told
  <2>3. CASE ~(r.kind \in WriteKinds /\ r.status = "ok")
    <3>1. flight' = flight \ {r} /\ (missed' <=> missed)
      BY <2>1, <2>3
    <3>2. /\ \A q \in Reads(flight') : q \in Reads(flight)
          /\ \A w \in flight : w.kind \in WriteKinds /\ w.status \in {"ok", "refreshing"}
                                 => w \in flight'
      BY <2>1, <2>3, <3>1 DEF Reads
    <3> QED
      BY <2>1, <3>1, <3>2, CoherentDrifts
  <2> QED
    BY <2>2, <2>3
<1> QED
  BY <1>1, <1>2, <1>3, <1>4, <1>5 DEF Receive

LEMMA CoherentInvInit == Init => CoherentInv
<1> SUFFICES ASSUME Init PROVE CoherentInv
  OBVIOUS
<1>1. Reads(flight) \subseteq {FirstRead} /\ FirstRead.status = "sent" /\ FirstRead.sure
  BY DEF Init, FirstRead, Reads
<1>2. ~Told
  BY DEF Init, Told
<1> QED
  BY <1>1, <1>2 DEF CoherentInv, ListCoherent

LEMMA CoherentInvStep == TypeInv /\ CoherentInv /\ [Next]_vars => CoherentInv'
<1> SUFFICES ASSUME TypeInv, CoherentInv, [Next]_vars PROVE CoherentInv'
  OBVIOUS
<1>1. CASE User \/ Refetch
  BY <1>1, CoherentUser
<1>2. CASE Elsewhere
  BY <1>2, CoherentElsewhere
<1>3. ASSUME NEW r \in flight, Serve(r) PROVE CoherentInv'
  BY <1>3, CoherentServe
<1>4. ASSUME NEW r \in flight, Receive(r) PROVE CoherentInv'
  BY <1>4, CoherentReceive
<1>5. CASE UNCHANGED vars
  BY <1>5, CoherentDrifts DEF vars
<1> QED
  BY <1>1, <1>2, <1>3, <1>4, <1>5 DEF Next

(* The list is what the server has once every write of this tab has been   *)
(* answered and read back, in whatever order reads and writes are served,  *)
(* given up and answered (WriteAnswered, ReadAnswered), unless somebody    *)
(* else wrote or an answer was lost.                                       *)
THEOREM ListStaysCoherent == Spec => []ListCoherent
<1>1. CoherentInv => ListCoherent
  BY DEF CoherentInv
<1> QED
  BY <1>1, TypeInvariant, CoherentInvInit, CoherentInvStep, PTL DEF Spec
-----------------------------------------------------------------------------
(* Where each request in flight comes from *)

(* What comes of a create or an update that is served.                     *)
Carried(r, done) ==
  /\ r.kind = "create" => (done <=> Acceptable(Sent(r.values)))
  /\ r.kind = "update" => /\ done <=> Acceptable(Sent(r.values)) /\ offers[r.id] # None
                          /\ done => offers' = Put(r.id, Sent(r.values))

(* One that was there, which is not sure any more if it was outdated.      *)
Old(q) ==
  \E p \in flight : /\ Kin(p, q)
                    /\ Knows(q) /\ q.sure => offers' = offers
(* One that was sent.                                                      *)
New(q) == /\ q.status = "sent" /\ q.waits = "page" /\ offers' = offers
          /\ q.kind \in {"create", "update"} => /\ Submit /\ q.id = form.id /\ q.base = form.base
                                                /\ q.sure = form.sure
                                                /\ q.kind = "update" => form.id # None
(* One that was served, or whose answer was taken.                         *)
Served(q) == \E r \in flight : /\ Handled(r, q) /\ r.status = "sent"
                               /\ \/ q.status = "ok" /\ Carried(r, TRUE)
                                  \/ q.status = "refused" /\ Carried(r, FALSE)
                               /\ q.kind = "simulate" =>
                                    q.values = Totals(offers) /\ offers' = offers
Taken(q) == \E r \in flight : /\ Handled(r, q) /\ r.status = "ok" /\ q.status = "refreshing"

LEMMA OldUser ==
  ASSUME TypeInv, User \/ Refetch, NEW q \in flight' PROVE Old(q) \/ New(q)
<1>0. offers' = offers
  BY DEF User, OpenNew, OpenEdit, Submit, CancelForm, DeleteOffer, OpenPublic, ImportOffer,
         ClosePublic, Navigate, AnnualSimulate, Refetch, server
<1>1. q \in flight => Old(q)
  BY <1>0, FlightShaped, KinReflexive DEF Old
<1>2. CASE OpenNew \/ OpenEdit \/ OpenPublic
  BY <1>1, <1>2 DEF OpenNew, OpenEdit, OpenPublic
<1>3. CASE Submit
  <2>1. PICK v : Filled(v) /\ Valid(v) /\ form.open /\ flight' = flight \cup {Submitted(v)}
    BY <1>3, SubmitSends
  <2>2. CASE q = Submitted(v)
    <3>1. /\ q.status = "sent" /\ q.waits = "page"
          /\ q.kind = IF form.id = None THEN "create" ELSE "update"
          /\ q.id = form.id /\ q.base = form.base /\ q.sure = form.sure
      BY <2>1, <2>2, SubmittedIs
    <3> QED
      BY <1>0, <1>3, <3>1 DEF New
  <2> QED
    BY <1>1, <2>1, <2>2
<1>4. ASSUME NEW kind \in {"delete", "import", "simulate", "read"}, NEW id, NEW values,
             flight' = flight \cup {Request(kind, id, values)}
      PROVE  Old(q) \/ New(q)
  <2> DEFINE new == Request(kind, id, values)
  <2>1. new.kind = kind /\ new.status = "sent" /\ new.waits = "page"
    BY RequestIs DEF TypeInv, WriteKinds
  <2> HIDE DEF new
  <2>2. New(new)
    BY <1>0, <2>1 DEF New
  <2> QED
    BY <1>1, <1>4, <2>2 DEF new
<1>5. CASE CancelForm
  <2> DEFINE g == [p \in flight |-> Uncovered(p)]
  <2>1. flight' = {g[p] : p \in flight} /\ \A p \in flight : Kin(p, g[p])
    BY <1>5, CancelMoves
  <2> HIDE DEF g
  <2> QED
    BY <1>0, <2>1 DEF Old
<1>6. ASSUME NEW kinds, flight' = Leave(kinds) PROVE Old(q)
  <2> DEFINE g == [p \in flight |-> Abandoned(p, kinds)]
  <2>1. flight' = {g[p] : p \in flight} /\ \A p \in flight : Kin(p, g[p])
    BY <1>6, LeaveMoves
  <2> HIDE DEF g
  <2> QED
    BY <1>0, <2>1 DEF Old
<1>7. CASE DeleteOffer \/ ImportOffer \/ AnnualSimulate \/ Refetch
  BY <1>4, <1>7 DEF DeleteOffer, ImportOffer, AnnualSimulate, Refetch
<1>8. CASE ClosePublic \/ Navigate
  BY <1>6, <1>8 DEF ClosePublic, Navigate
<1> QED
  BY <1>2, <1>3, <1>5, <1>7, <1>8 DEF User

LEMMA OldElsewhere == ASSUME TypeInv, Elsewhere, NEW q \in flight' PROVE Old(q)
<1>1. PICK p \in flight : q = Missed(Outdated(p))
  BY ElsewhereMoves
<1>2. Kin(p, q) /\ (Knows(p) => ~q.sure)
  BY <1>1, ElsewhereMoves
<1> QED
  BY <1>2 DEF Old, Kin, Same, Knows

LEMMA OldRefuse ==
  ASSUME TypeInv, NEW r \in flight, r.status = "sent", r.kind # "simulate", Refuse(r),
         Carried(r, FALSE), NEW q \in flight'
  PROVE  Old(q) \/ Served(q)
<1> DEFINE me == Answering(r, "refused", None)
<1>1. Handled(r, me) /\ me.status = "refused"
  BY FlightShaped, AnswerFields
<1>2. flight' = (flight \ {r}) \cup {me} /\ offers' = offers
  BY DEF Refuse, Answering, server
<1> HIDE DEF me
<1>3. Served(me)
  BY <1>1 DEF Served, Handled, Same
<1>4. q \in flight => Old(q)
  BY <1>2, FlightShaped, KinReflexive DEF Old
<1> QED
  BY <1>2, <1>3, <1>4

LEMMA OldWritten ==
  ASSUME TypeInv, NEW r \in flight, r.status = "sent", r.kind # "simulate", NEW os,
         Written(r, os), Carried(r, TRUE), NEW q \in flight'
  PROVE  Old(q) \/ Served(q)
<1> DEFINE me == [r EXCEPT !.status = "ok"]
<1>1. Handled(r, me) /\ me.status = "ok"
  BY FlightShaped, StatusFields
<1>2. flight' = {Outdated(p) : p \in flight \ {r}} \cup {me}
  BY DEF Written, Outdate, Outdated
<1> HIDE DEF me
<1>3. Served(me)
  BY <1>1 DEF Served, Handled, Same
<1>4. ASSUME NEW p \in flight PROVE Old(Outdated(p))
  <2>1. /\ Kin(p, Outdated(p))
        /\ Knows(p) => ~Outdated(p).sure
    BY FlightShaped, OutdatedFields
  <2> QED
    BY <2>1 DEF Old, Kin, Same, Knows
<1> QED
  BY <1>2, <1>3, <1>4

LEMMA OldServe ==
  ASSUME TypeInv, NEW r \in flight, Serve(r), NEW q \in flight' PROVE Old(q) \/ Served(q)
<1>1. CASE ServeRead(r)
  <2> DEFINE v == IF r.kind = "read" THEN offers ELSE Totals(offers)
             me == Answering(r, "ok", v)
  <2>1. Handled(r, me) /\ me.status = "ok" /\ me.values = v
    BY FlightShaped, AnswerFields
  <2>2. flight' = (flight \ {r}) \cup {me} /\ offers' = offers
    BY <1>1 DEF ServeRead, Answering, server
  <2>0. me.kind = "simulate" => v = Totals(offers)
    BY <2>1 DEF Handled, Same
  <2> HIDE DEF me, v
  <2>3. Served(me)
    BY <1>1, <2>0, <2>1, <2>2 DEF ServeRead, Served, Carried
  <2>4. q \in flight => Old(q)
    BY <2>2, FlightShaped, KinReflexive DEF Old
  <2> QED
    BY <2>2, <2>3, <2>4
<1>2. CASE ServeCreate(r)
  <2>1. r.status = "sent" /\ r.kind = "create"
    BY <1>2 DEF ServeCreate
  <2>2. CASE Acceptable(Sent(r.values))
    BY <1>2, <2>1, <2>2, OldWritten DEF ServeCreate, Carried
  <2>3. CASE ~Acceptable(Sent(r.values))
    BY <1>2, <2>1, <2>3, OldRefuse DEF ServeCreate, Carried
  <2> QED
    BY <2>2, <2>3
<1>3. CASE ServeUpdate(r)
  <2>1. r.status = "sent" /\ r.kind = "update"
    BY <1>3 DEF ServeUpdate
  <2>2. CASE Acceptable(Sent(r.values)) /\ offers[r.id] # None
    <3>1. Written(r, Put(r.id, Sent(r.values)))
      BY <1>3, <2>2 DEF ServeUpdate
    <3>2. Carried(r, TRUE)
      BY <2>1, <2>2, <3>1 DEF Carried, Written
    <3> QED
      BY <2>1, <3>1, <3>2, OldWritten
  <2>3. CASE ~(Acceptable(Sent(r.values)) /\ offers[r.id] # None)
    BY <1>3, <2>1, <2>3, OldRefuse DEF ServeUpdate, Carried
  <2> QED
    BY <2>2, <2>3
<1>4. CASE ServeDelete(r) \/ ServeImport(r)
  <2>1. r.status = "sent" /\ r.kind # "simulate" /\ Carried(r, TRUE) /\ Carried(r, FALSE)
    BY <1>4 DEF ServeDelete, ServeImport, Carried
  <2>2. Refuse(r) \/ \E os : Written(r, os)
    BY <1>4 DEF ServeDelete, ServeImport
  <2> QED
    BY <2>1, <2>2, OldRefuse, OldWritten
<1> QED
  BY <1>1, <1>2, <1>3, <1>4 DEF Serve

LEMMA OldReceive ==
  ASSUME TypeInv, NEW r \in flight, Receive(r), NEW q \in flight'
  PROVE  Old(q) \/ New(q) \/ Taken(q)
<1>0. offers' = offers
  BY DEF Receive, WriteAnswered, ReadAnswered, SimulationAnswered, ReadFailed, RequestFailed,
         server
<1>1. q \in flight => Old(q)
  BY <1>0, FlightShaped, KinReflexive DEF Old
<1>2. ASSUME NEW p \in flight, q = Missed(p) PROVE Old(q)
  BY <1>0, <1>2, FlightShaped, MissedFields DEF Old
<1>3. CASE WriteAnswered(r)
  <2> DEFINE me == Refreshed(r)
             new == Request("read", None, None)
  <2>1. /\ Handled(r, me) /\ me.status = "refreshing"
        /\ \/ flight' = {Missing(r, me)[p] : p \in flight}
           \/ flight' = (flight \ ({r} \cup Reads(flight) \cup Refreshing(flight))) \cup {me, new}
    BY <1>3, WriteAnsweredMoves
  <2>2. new.kind = "read" /\ new.status = "sent" /\ new.waits = "page"
    <3>1. PICK kind \in WriteKinds \cup {"read", "simulate"} : kind = "read"
      OBVIOUS
    <3>2. Request(kind, None, None).waits = "page"
      BY RequestIs DEF TypeInv
    <3> QED
      BY <3>1, <3>2, NewRead
  <2> HIDE DEF me, new
  <2>3. New(new)
    BY <1>0, <2>2 DEF New
  <2>4. Taken(me)
    BY <1>3, <2>1 DEF Taken, WriteAnswered
  <2>5. \A p \in flight : Missing(r, me)[p] = IF p = r THEN me ELSE Missed(p)
    BY DEF Missing
  <2> QED
    BY <1>1, <1>2, <2>1, <2>3, <2>4, <2>5
<1>4. CASE ReadAnswered(r) \/ SimulationAnswered(r) \/ ReadFailed(r)
  BY <1>1, <1>4 DEF ReadAnswered, SimulationAnswered, ReadFailed
<1>5. CASE RequestFailed(r)
  <2>1. flight' = flight \ {r} \/ flight' = Miss(flight \ {r})
    BY <1>5 DEF RequestFailed
  <2>2. Miss(flight \ {r}) = {Missed(p) : p \in flight \ {r}}
    BY DEF Miss, Missed
  <2> QED
    BY <1>1, <1>2, <2>1, <2>2
<1> QED
  BY <1>3, <1>4, <1>5 DEF Receive

LEMMA Origins ==
  ASSUME TypeInv, [Next]_vars, NEW q \in flight'
  PROVE  Old(q) \/ New(q) \/ Served(q) \/ Taken(q)
<1>1. CASE User \/ Refetch
  BY <1>1, OldUser
<1>2. CASE Elsewhere
  BY <1>2, OldElsewhere
<1>3. ASSUME NEW r \in flight, Serve(r) PROVE Old(q) \/ Served(q)
  BY <1>3, OldServe
<1>4. ASSUME NEW r \in flight, Receive(r) PROVE Old(q) \/ New(q) \/ Taken(q)
  BY <1>4, OldReceive
<1>5. CASE UNCHANGED vars
  BY <1>5, FlightShaped, KinReflexive DEF vars, Old
<1> QED
  BY <1>1, <1>2, <1>3, <1>4, <1>5 DEF Next
-----------------------------------------------------------------------------
(* What becomes of the form *)

(* d, its form's submission or a left one's, has been read back and is done. *)
Done(d) ==
  /\ d \in Refreshing(flight) /\ d.kind \in {"create", "update"} /\ d.waits # "nobody"
  /\ \A q \in flight' : ~Same(d, q)

LEMMA SettleGone ==
  ASSUME TypeInv, NEW r \in flight, r.kind = "read" \/ r.status = "ok",
         flight' \subseteq flight \ ({r} \cup Refreshing(flight)),
         Settle(Refreshing(flight))
  PROVE  form' = form \/ (form' = NoForm /\ \E d \in flight : Done(d))
<1>1. CASE form' = form
  BY <1>1
<1>2. CASE form' # form
  <2>1. PICK d \in Refreshing(flight) :
          form' = NoForm /\ d.kind \in {"create", "update"} /\ d.waits # "nobody"
    BY <1>2 DEF Settle
  <2>2. \A q \in flight' : ~Same(d, q)
    BY <2>1 DEF TypeInv, FlightInv, Keyed, Refreshing
  <2> QED
    BY <2>1, <2>2 DEF Done, Refreshing
<1> QED
  BY <1>1, <1>2

LEMMA SettleAnswered ==
  ASSUME TypeInv, NEW r \in flight, WriteAnswered(r)
  PROVE  form' = form \/ (form' = NoForm /\ \E d \in flight : Done(d))
<1> DEFINE me == Refreshed(r)
           new == Request("read", None, None)
<1>1. /\ Handled(r, me)
      /\ \/ form' = form
         \/ /\ flight' = (flight \ ({r} \cup Reads(flight) \cup Refreshing(flight))) \cup {me, new}
            /\ Settle(Refreshing(flight))
  BY WriteAnsweredMoves
<1>2. new.kind = "read"
  BY NewRead
<1>3. r.status = "ok"
  BY DEF WriteAnswered
<1> HIDE DEF me, new
<1>4. CASE form' # form
  <2>1. PICK d \in Refreshing(flight) :
          form' = NoForm /\ d.kind \in {"create", "update"} /\ d.waits # "nobody"
    BY <1>1, <1>4 DEF Settle
  <2>2. d \in flight /\ d.status = "refreshing"
    BY <2>1 DEF Refreshing
  <2>3. \A p \in flight : Same(d, p) => p = d
    BY <2>2 DEF TypeInv, FlightInv, Keyed
  <2>4. ~Same(d, me)
    BY <1>1, <1>3, <2>2, <2>3 DEF Handled, Same
  <2>5. ~Same(d, new)
    BY <1>2, <2>1 DEF Same
  <2>6. \A q \in flight' : ~Same(d, q)
    BY <1>1, <1>4, <2>1, <2>3, <2>4, <2>5
  <2> QED
    BY <2>1, <2>2, <2>6 DEF Done
<1> QED
  BY <1>4

LEMMA FormMoves ==
  ASSUME TypeInv, [Next]_vars
  PROVE  \/ form' = form /\ offers' = offers
         \/ form' = [form EXCEPT !.sure = FALSE] /\ UNCHANGED <<route, modal>>
         \/ OpenNew \/ OpenEdit \/ CancelForm \/ Navigate
         \/ form' = NoForm /\ \E d \in flight : Done(d)
<1>1. CASE User \/ Refetch
  BY <1>1 DEF User, Submit, DeleteOffer, OpenPublic, ImportOffer, ClosePublic, AnnualSimulate,
     Refetch, server, screen
<1>2. CASE Elsewhere
  BY <1>2 DEF Elsewhere
<1>3. ASSUME NEW r \in flight, Serve(r)
      PROVE  \/ form' = form /\ offers' = offers
             \/ form' = [form EXCEPT !.sure = FALSE] /\ UNCHANGED <<route, modal>>
  BY <1>3 DEF Serve, ServeRead, ServeCreate, ServeUpdate, ServeDelete, ServeImport, Written,
     Refuse, server, screen
<1>4. ASSUME NEW r \in flight, Receive(r)
      PROVE  \/ form' = form /\ offers' = offers
             \/ form' = NoForm /\ \E d \in flight : Done(d)
  <2>1. offers' = offers
    BY <1>4 DEF Receive, WriteAnswered, ReadAnswered, SimulationAnswered, ReadFailed,
       RequestFailed, server
  <2>2. CASE WriteAnswered(r)
    BY <2>1, <2>2, SettleAnswered
  <2>3. CASE ReadAnswered(r) \/ ReadFailed(r)
    <3>1. /\ r.kind = "read" /\ flight' \subseteq flight \ ({r} \cup Refreshing(flight))
          /\ Settle(Refreshing(flight))
      BY <2>3 DEF ReadAnswered, ReadFailed
    <3> QED
      BY <2>1, <3>1, SettleGone
  <2>4. CASE SimulationAnswered(r) \/ RequestFailed(r)
    BY <2>1, <2>4 DEF SimulationAnswered, RequestFailed, screen
  <2> QED
    BY <1>4, <2>2, <2>3, <2>4 DEF Receive
<1>5. CASE UNCHANGED vars
  BY <1>5 DEF vars
<1> QED
  BY <1>1, <1>2, <1>3, <1>4, <1>5 DEF Next
-----------------------------------------------------------------------------
(* An edit is sure of what it began with *)

LEMMA SureForm ==
  ASSUME TypeInv, CoherentInv, SureInv, [Next]_vars,
         form'.open, form'.id # None, form'.sure
  PROVE  \A f \in Fields : form'.base[f] = offers'[form'.id][f]
<1>1. CASE form' = form /\ offers' = offers
  BY <1>1 DEF SureInv
<1>2. CASE form' = [form EXCEPT !.sure = FALSE] /\ UNCHANGED <<route, modal>>
  BY <1>2, FormUnsure
<1>3. CASE OpenNew \/ CancelForm \/ Navigate \/ form' = NoForm
  BY <1>3 DEF OpenNew, CancelForm, Navigate, NoForm
<1>4. CASE OpenEdit
  <2>1. PICK i \in Ids :
          /\ list.data # None /\ list.data[i] # None /\ offers' = offers
          /\ form' = [open |-> TRUE, id |-> i, base |-> FormOf(list.data[i]), sure |-> Told]
    BY <1>4 DEF OpenEdit, server
  <2>2. form'.id = i /\ form'.base = FormOf(list.data[i]) /\ Told
    BY <2>1
  <2>3. list.data = offers
    BY <2>2 DEF CoherentInv, ListCoherent
  <2>4. \A f \in Fields : FormOf(list.data[i])[f] = list.data[i][f]
    BY DEF FormOf
  <2> QED
    BY <2>1, <2>2, <2>3, <2>4
<1> QED
  BY <1>1, <1>2, <1>3, <1>4, FormMoves

LEMMA SureSent ==
  ASSUME TypeInv, SureInv, [Next]_vars, NEW q \in flight',
         q.kind = "update", q.status = "sent", q.sure
  PROVE  \A f \in Fields : q.base[f] = offers'[q.id][f]
<1>1. CASE Old(q)
  BY <1>1 DEF Old, Knows, Kin, Same, SureInv
<1>2. CASE New(q)
  <2>1. /\ Submit /\ q.id = form.id /\ q.base = form.base /\ q.sure = form.sure
        /\ form.id # None /\ offers' = offers
    BY <1>2 DEF New
  <2>2. form.open
    BY <2>1 DEF Submit
  <2> QED
    BY <2>1, <2>2 DEF SureInv
<1>3. CASE Served(q) \/ Taken(q)
  BY <1>3 DEF Served, Taken
<1> QED
  BY <1>1, <1>2, <1>3, Origins

LEMMA SureInvStep == TypeInv /\ CoherentInv /\ SureInv /\ [Next]_vars => SureInv'
<1> SUFFICES ASSUME TypeInv, CoherentInv, SureInv, [Next]_vars PROVE SureInv'
  OBVIOUS
<1> QED
  BY SureForm, SureSent DEF SureInv

LEMMA SureInvInit == Init => SureInv
  BY DEF Init, SureInv, NoForm, FirstRead

LEMMA SureInvariant == Spec => []SureInv
<1> QED
  BY TypeInvariant, CoherentInvInit, CoherentInvStep, SureInvInit, SureInvStep, PTL DEF Spec
-----------------------------------------------------------------------------
(* One submission at a time, for which its form stays open *)

LEMMA SubmissionOrigin ==
  ASSUME TypeInv, [Next]_vars, NEW q \in Submissions'
  PROVE  \/ \E p \in Submissions : /\ Same(p, q) /\ q.id = p.id /\ q.base = p.base
                                   /\ q.waits = "page" => p.waits = "page"
         \/ /\ Submit /\ q.status = "sent" /\ q.id = form.id /\ q.base = form.base
<1>1. q \in flight' /\ q.kind \in {"create", "update"} /\ q.waits # "nobody"
  BY DEF Submissions, Pending
<1>2. CASE Old(q)
  BY <1>1, <1>2 DEF Old, Kin, Same, Submissions, Pending
<1>3. CASE New(q)
  BY <1>1, <1>3 DEF New
<1>4. CASE Served(q) \/ Taken(q)
  BY <1>1, <1>4 DEF Served, Taken, Handled, Same, Submissions, Pending
<1> QED
  BY <1>1, <1>2, <1>3, <1>4, Origins

LEMMA SubmittingOne ==
  ASSUME TypeInv, Submit, NEW r \in Submissions', NEW q \in Submissions' PROVE r = q
<1>1. Submissions = {}
  BY DEF Submit, Submissions
<1>2. PICK v : flight' = flight \cup {Submitted(v)}
  BY SubmitSends
<1>3. \A p \in Submissions' : p = Submitted(v)
  BY <1>1, <1>2 DEF Submissions, Pending
<1> QED
  BY <1>3

LEMMA SubmissionsOne ==
  ASSUME TypeInv, FormOfSubmission, [Next]_vars, NEW r \in Submissions', NEW q \in Submissions'
  PROVE  r = q
<1>1. CASE Submit
  BY <1>1, SubmittingOne
<1>2. CASE ~Submit
  <2>1. PICK p \in Submissions : Same(p, r)
    BY <1>2, SubmissionOrigin
  <2>2. PICK s \in Submissions : Same(s, q)
    BY <1>2, SubmissionOrigin
  <2>3. p = s
    BY DEF FormOfSubmission
  <2>4. r \in flight' /\ q \in flight' /\ Same(r, q)
    BY <2>1, <2>2, <2>3 DEF Same, Submissions, Pending
  <2>5. FlightInv'
    BY TypeInvStep DEF TypeInv
  <2> QED
    BY <2>4, <2>5 DEF FlightInv, Keyed
<1> QED
  BY <1>1, <1>2

LEMMA SubmissionsForm ==
  ASSUME TypeInv, FormOfSubmission, [Next]_vars, NEW q \in Submissions', q.waits = "page"
  PROVE  form'.open /\ q.id = form'.id /\ q.base = form'.base
<1>0. q \in flight' /\ q.kind \in {"create", "update"} /\ Shaped(q)
  BY TypeInvStep DEF Submissions, Pending, TypeInv, FlightInv
<1>1. CASE Submit
  <2>1. form' = form /\ form.open
    BY <1>1 DEF Submit, screen
  <2>2. Submissions = {}
    BY <1>1 DEF Submit, Submissions
  <2> QED
    BY <2>1, <2>2, SubmissionOrigin
<1>2. CASE ~Submit
  <2>1. PICK p \in Submissions : Same(p, q) /\ q.id = p.id /\ q.base = p.base /\ p.waits = "page"
    BY <1>2, SubmissionOrigin
  <2>2. form.open /\ p.id = form.id /\ p.base = form.base
    BY <2>1 DEF FormOfSubmission
  <2>3. CASE form' = form
    BY <2>1, <2>2, <2>3
  <2>4. CASE form' = [form EXCEPT !.sure = FALSE] /\ UNCHANGED <<route, modal>>
    BY <2>1, <2>2, <2>4, FormUnsure
  <2>5. CASE OpenNew \/ OpenEdit
    BY <2>2, <2>5 DEF OpenNew, OpenEdit
  <2>6. CASE CancelForm
    <3> DEFINE g == [r \in flight |-> Uncovered(r)]
    <3>1. flight' = {g[r] : r \in flight}
      BY <2>6, CancelMoves
    <3>2. PICK r \in flight : q = Uncovered(r)
      BY <1>0, <3>1
    <3>3. Kin(r, q) /\ (r.kind \in {"create", "update"} => q.waits # "page")
      BY <3>2, FlightShaped, UncoveredFields
    <3> QED
      BY <1>0, <3>3 DEF Kin, Same
  <2>7. CASE Navigate
    <3>1. flight' = {Abandoned(r, WriteKinds \cup {"simulate"}) : r \in flight}
      BY <2>7 DEF Navigate, Leave, Abandoned
    <3>2. PICK r \in flight : q = Abandoned(r, WriteKinds \cup {"simulate"})
      BY <1>0, <3>1
    <3>3. Kin(r, q) /\ (r.kind \in WriteKinds => q.waits = "nobody")
      BY <3>2, FlightShaped, AbandonedFields
    <3> QED
      BY <1>0, <3>3 DEF Kin, Same, WriteKinds
  <2>8. ASSUME NEW d \in flight, Done(d) PROVE FALSE
    <3>1. d \in Submissions /\ \A r \in flight' : ~Same(d, r)
      BY <2>8 DEF Done, Submissions, Pending
    <3>2. d = p
      BY <3>1 DEF FormOfSubmission
    <3> QED
      BY <1>0, <2>1, <3>1, <3>2
  <2> QED
    BY <2>3, <2>4, <2>5, <2>6, <2>7, <2>8, FormMoves
<1> QED
  BY <1>1, <1>2

LEMMA FormOfSubmissionStep ==
  TypeInv /\ FormOfSubmission /\ [Next]_vars => FormOfSubmission'
<1> SUFFICES ASSUME TypeInv, FormOfSubmission, [Next]_vars PROVE FormOfSubmission'
  OBVIOUS
<1> QED
  BY SubmissionsOne, SubmissionsForm DEF FormOfSubmission

LEMMA FormOfSubmissionInit == Init => FormOfSubmission
  BY DEF Init, FirstRead, FormOfSubmission, Submissions, Pending

LEMMA FormOfSubmissionInvariant == Spec => []FormOfSubmission
<1> QED
  BY TypeInvariant, FormOfSubmissionInit, FormOfSubmissionStep, PTL DEF Spec

(* Closing the form by hand lets every request live on.                    *)
LEMMA CancelKeepsCount ==
  ASSUME TypeInv, CancelForm PROVE ~(Cardinality(flight') < Cardinality(flight))
<1> DEFINE h == [q \in flight' |-> CHOOSE p \in flight : Uncovered(p) = q]
<1>1. flight' = {Uncovered(p) : p \in flight}
  <2> DEFINE g == [p \in flight |-> Uncovered(p)]
  <2>1. flight' = {g[p] : p \in flight}
    BY CancelMoves
  <2> QED
    BY <2>1
<1>2. ASSUME NEW p \in flight PROVE Uncovered(p) \in flight' /\ h[Uncovered(p)] = p
  <2> DEFINE s == CHOOSE s \in flight : Uncovered(s) = Uncovered(p)
  <2>1. s \in flight /\ Uncovered(s) = Uncovered(p)
    OBVIOUS
  <2> HIDE DEF s
  <2>2. Same(s, Uncovered(s)) /\ Same(p, Uncovered(p))
    BY <2>1, FlightShaped, UncoveredFields DEF Kin
  <2>3. s = p
    BY <2>1, <2>2 DEF Same, TypeInv, FlightInv, Keyed
  <2> QED
    BY <1>1, <2>3 DEF s
<1> HIDE DEF h
<1>3. flight \subseteq {h[q] : q \in flight'}
  BY <1>2
<1>4. IsFiniteSet(flight) /\ IsFiniteSet(flight')
  <2>1. IsFiniteSet(flight)
    BY DEF TypeInv, FlightInv
  <2> DEFINE g == [p \in flight |-> Uncovered(p)]
  <2>2. flight' = {g[p] : p \in flight}
    BY <1>1
  <2> HIDE DEF g
  <2> QED
    BY <2>1, <2>2, ImageBound
<1>5. Cardinality(flight) <= Cardinality(flight')
  BY <1>3, <1>4, ImageBound
<1> QED
  BY <1>4, <1>5, FS_CardinalityType

LEMMA FormKeptStep ==
  ASSUME TypeInv, FormOfSubmission, [Next]_vars, form.open, ~form'.open, route' = route,
         Cardinality(flight') < Cardinality(flight)
  PROVE  \E r \in Refreshing(flight) :
           /\ r.kind \in {"create", "update"}
           /\ \/ r.waits = "left"
              \/ r.id = form.id /\ r.base = form.base
<1>1. form' # form
  OBVIOUS
<1>2. ~(form' = [form EXCEPT !.sure = FALSE] /\ UNCHANGED <<route, modal>>)
  BY FormUnsure
<1>3. ~OpenNew /\ ~OpenEdit
  BY DEF OpenNew, OpenEdit
<1>4. ~CancelForm
  BY CancelKeepsCount
<1>5. ~Navigate
  BY DEF Navigate
<1>6. PICK d \in flight : Done(d)
  BY <1>1, <1>2, <1>3, <1>4, <1>5, FormMoves
<1>7. d \in Refreshing(flight) /\ d \in Submissions
  BY <1>6 DEF Done, Submissions, Pending
<1>8. d.waits \in {"page", "left"}
  BY <1>6, FlightShaped DEF Done, Shaped
<1>9. d.waits = "page" => d.id = form.id /\ d.base = form.base
  BY <1>7 DEF FormOfSubmission
<1> QED
  BY <1>6, <1>7, <1>8, <1>9 DEF Done

(* handleSubmit closes the form after the refetch that follows what was    *)
(* submitted from it, and no answer, failure or refetch of another request *)
(* does, save the end of a submission whose form had been closed by hand.  *)
THEOREM FormsAreKept == Spec => FormKept
<1>1. TypeInv /\ FormOfSubmission /\ [Next]_vars =>
        [form.open /\ ~form'.open /\ route' = route
         /\ Cardinality(flight') < Cardinality(flight)
           => \E r \in Refreshing(flight) :
                /\ r.kind \in {"create", "update"}
                /\ \/ r.waits = "left"
                   \/ r.id = form.id /\ r.base = form.base]_vars
  BY FormKeptStep
<1> QED
  BY <1>1, TypeInvariant, FormOfSubmissionInvariant, PTL DEF Spec, FormKept
-----------------------------------------------------------------------------
(* What becomes of a create or an update, field by field *)

(* A request that has become me in a step was sent, and the server did it  *)
(* or refused it; otherwise it was me already.                             *)
LEMMA BecomesServed ==
  ASSUME TypeInv, [Next]_vars, NEW r \in flight, NEW me \in flight' \ flight,
         Handled(r, me), me.status \in {"ok", "refused"}, r.status = me.status => me = r
  PROVE  /\ r.status = "sent"
         /\ me.status = "ok" => Carried(r, TRUE)
         /\ me.status = "refused" => Carried(r, FALSE)
<1>0. \A p \in flight : Same(p, me) => p = r
  BY DEF Handled, Same, TypeInv, FlightInv, Keyed
<1>1. ~Old(me)
  BY <1>0 DEF Old, Kin
<1>2. ~New(me) /\ ~Taken(me)
  BY DEF New, Taken
<1>3. PICK p \in flight : /\ Handled(p, me) /\ p.status = "sent"
                          /\ \/ me.status = "ok" /\ Carried(p, TRUE)
                             \/ me.status = "refused" /\ Carried(p, FALSE)
  BY <1>1, <1>2, Origins DEF Served
<1>4. p = r
  BY <1>0, <1>3 DEF Handled
<1> QED
  BY <1>3, <1>4

LEMMA UntouchedStep ==
  ASSUME TypeInv, SureInv, [Next]_vars, NEW r \in flight, r.kind = "update", r.sure,
         [r EXCEPT !.status = "ok"] \in flight' \ flight,
         NEW f \in Fields, r.values[f] = r.base[f]
  PROVE  offers'[r.id][f] = offers[r.id][f]
<1> DEFINE me == [r EXCEPT !.status = "ok"]
<1>1. Handled(r, me) /\ me.status = "ok"
  BY FlightShaped, StatusFields
<1>2. r.status = "ok" => me = r
  <2> SUFFICES ASSUME r.status = "ok" PROVE me = r
    OBVIOUS
  <2>1. r = [x \in RequestFields |-> r[x]]
    BY FlightShaped DEF Shaped
  <2>2. me = [x \in RequestFields |-> IF x = "status" THEN "ok" ELSE r[x]]
    BY <2>1 DEF RequestFields
  <2> QED
    BY <2>1, <2>2
<1>3. me \in flight' \ flight
  OBVIOUS
<1> HIDE DEF me
<1>4. r.status = "sent" /\ Carried(r, TRUE)
  BY <1>1, <1>2, <1>3, BecomesServed
<1>5. offers' = Put(r.id, Sent(r.values)) /\ offers[r.id] # None
  BY <1>4 DEF Carried
<1>6. r.id \in Ids /\ Filled(r.values)
  BY <1>4, FlightShaped DEF Meant
<1>7. Stored(offers[r.id]) /\ Snapshot(offers)
  BY <1>5, <1>6 DEF TypeInv, ServerInv, Snapshot
<1>8. offers'[r.id] = Sent(r.values)
  BY <1>5, <1>6, <1>7, SentFields, PutSnapshot
<1>9. r.values[f] = offers[r.id][f]
  BY <1>4 DEF SureInv
<1>10. f \in Numbers => r.values[f] # None
  BY <1>7, <1>9, NoneAssumption DEF Stored
<1> QED
  BY <1>6, <1>8, <1>9, <1>10, SentFields

(* Saving a form (reset, handleSubmit and UpdateOffer, that stores every   *)
(* field it is sent) leaves what was not changed in it as the server had   *)
(* it, the fields that are not shown and the numbers that are zero too.    *)
THEOREM UntouchedFieldsStay == Spec => UntouchedStay
<1>1. TypeInv /\ SureInv /\ [Next]_vars =>
        [\A r \in flight :
           (r.kind = "update" /\ r.sure /\ [r EXCEPT !.status = "ok"] \in flight' \ flight)
           => \A f \in Fields : r.values[f] = r.base[f]
                => offers'[r.id][f] = offers[r.id][f]]_vars
  BY UntouchedStep
<1> QED
  BY <1>1, TypeInvariant, SureInvariant, PTL DEF Spec, UntouchedStay

(* What the form lets through and the server does not: a price that is not *)
(* shown, for everything that is shown has been checked.                   *)
LEMMA RejectedIsHidden ==
  ASSUME NEW v, Filled(v), Valid(v), ~Acceptable(Sent(v))
  PROVE  \E f \in Numbers \ Visible(v) : v[f] # None /\ v[f] < 0
<1>1. \A f \in Fields : Sent(v)[f] = IF f \in Numbers /\ v[f] = None THEN 0 ELSE v[f]
  BY SentFields
<1>2. \A f \in Texts : Sent(v)[f] # ""
  <2> TAKE f \in Texts
  <2>1. f \in Visible(v) /\ f \in Fields /\ f \notin Numbers
    BY FieldSorts DEF Visible, Texts, Numbers, Fields
  <2>2. Passes(f, v[f])
    BY <2>1 DEF Valid
  <2>3. Passes(f, v[f]) = (v[f] # "")
    <3>1. f # "surplus" /\ f # "months" /\ f \notin Numbers
      BY FieldSorts
    <3> QED
      BY <3>1 DEF Passes
  <2>4. v[f] # ""
    BY <2>2, <2>3
  <2> QED
    BY <1>1, <2>1, <2>4
<1>3. Sent(v)["permanence"] => Sent(v)["months"] > 0
  <2> SUFFICES ASSUME v["permanence"] PROVE Sent(v)["months"] > 0
    BY <1>1 DEF Fields, Toggles, Numbers
  <2>1. "months" \in Visible(v)
    BY DEF Visible, Fields, Numbers
  <2>2. Passes("months", v["months"])
    BY <2>1 DEF Valid
  <2>3. v["months"] # None /\ v["months"] \in 1..60
    BY <2>2 DEF Passes, Texts
  <2> QED
    BY <1>1, <2>3 DEF Fields, Numbers
<1>4. PICK f \in Numbers \ {"months"} : ~(Sent(v)[f] >= 0)
  BY <1>2, <1>3 DEF Acceptable, Priced
<1>5. v[f] # None /\ v[f] \in Int /\ v[f] < 0
  BY <1>1, <1>4 DEF Filled, Fields
<1>6. f \notin Visible(v)
  <2> SUFFICES ASSUME f \in Visible(v) PROVE FALSE
    OBVIOUS
  <2>1. Passes(f, v[f])
    BY DEF Valid
  <2>2. f \notin Texts /\ f # "months"
    BY FieldSorts
  <2> QED
    BY <1>5, <2>1, <2>2 DEF Passes
<1> QED
  BY <1>5, <1>6

LEMMA RefusedStep ==
  ASSUME TypeInv, [Next]_vars, NEW r \in flight, r.kind \in {"create", "update"},
         r.status = "sent",
         [r EXCEPT !.status = "refused", !.values = None] \in flight' \ flight
  PROVE  \/ r.kind = "update" /\ offers[r.id] = None
         \/ \E f \in Numbers \ Visible(r.values) : r.values[f] # None /\ r.values[f] < 0
<1> DEFINE me == Answering(r, "refused", None)
<1>1. Handled(r, me) /\ me.status = "refused"
  BY FlightShaped, AnswerFields
<1>2. me \in flight' \ flight
  BY DEF Answering
<1> HIDE DEF me
<1>3. Carried(r, FALSE)
  BY <1>1, <1>2, BecomesServed
<1>4. Filled(r.values) /\ Valid(r.values)
  BY FlightShaped DEF Meant
<1>5. CASE Acceptable(Sent(r.values))
  BY <1>3, <1>5 DEF Carried
<1>6. CASE ~Acceptable(Sent(r.values))
  BY <1>4, <1>6, RejectedIsHidden
<1> QED
  BY <1>5, <1>6

(* Whatever passes the form's own checks, validateOfferInput accepts,      *)
(* unless the offer was deleted meanwhile or a price that a toggle took    *)
(* off the screen, and that nobody checks there, is negative.              *)
THEOREM RefusalsHaveCause == Spec => RefusedForCause
<1>1. TypeInv /\ [Next]_vars =>
        [\A r \in flight :
           (/\ r.kind \in {"create", "update"} /\ r.status = "sent"
            /\ [r EXCEPT !.status = "refused", !.values = None] \in flight' \ flight)
           => \/ r.kind = "update" /\ offers[r.id] = None
              \/ \E f \in Numbers \ Visible(r.values) :
                   r.values[f] # None /\ r.values[f] < 0]_vars
  BY RefusedStep
<1> QED
  BY <1>1, TypeInvariant, PTL DEF Spec, RefusedForCause
-----------------------------------------------------------------------------
(* A sure simulation is of what the server has *)

SimInv ==
  /\ sim.sure => sim.totals = Totals(offers)
  /\ \A r \in flight : r.kind = "simulate" /\ r.status = "ok" /\ r.sure => r.values = Totals(offers)
SimShape == sim = [totals |-> sim.totals, sure |-> sim.sure]

LEMMA SimMoves ==
  ASSUME TypeInv, [Next]_vars
  PROVE  \/ sim' = sim /\ offers' = offers
         \/ sim' = [sim EXCEPT !.sure = FALSE]
         \/ \E r \in flight : /\ r.kind = "simulate" /\ r.status = "ok" /\ offers' = offers
                              /\ sim' = [totals |-> r.values, sure |-> r.sure]
<1>1. CASE User \/ Refetch
  BY <1>1 DEF User, OpenNew, OpenEdit, Submit, CancelForm, DeleteOffer, OpenPublic, ImportOffer,
     ClosePublic, Navigate, AnnualSimulate, Refetch, server
<1>2. CASE Elsewhere
  BY <1>2 DEF Elsewhere
<1>3. ASSUME NEW r \in flight, Serve(r)
      PROVE  (sim' = sim /\ offers' = offers) \/ sim' = [sim EXCEPT !.sure = FALSE]
  BY <1>3 DEF Serve, ServeRead, ServeCreate, ServeUpdate, ServeDelete, ServeImport, Written,
     Refuse, server
<1>4. ASSUME NEW r \in flight, Receive(r)
      PROVE  \/ sim' = sim /\ offers' = offers
             \/ /\ r.kind = "simulate" /\ r.status = "ok" /\ offers' = offers
                /\ sim' = [totals |-> r.values, sure |-> r.sure]
  BY <1>4 DEF Receive, WriteAnswered, ReadAnswered, SimulationAnswered, ReadFailed,
     RequestFailed, server
<1>5. CASE UNCHANGED vars
  BY <1>5 DEF vars
<1> QED
  BY <1>1, <1>2, <1>3, <1>4, <1>5 DEF Next

LEMMA SimInvStep == TypeInv /\ SimShape /\ SimInv /\ [Next]_vars => SimShape' /\ SimInv'
<1> SUFFICES ASSUME TypeInv, SimShape, SimInv, [Next]_vars PROVE SimShape' /\ SimInv'
  OBVIOUS
<1>1. ASSUME NEW q \in flight', q.kind = "simulate", q.status = "ok", q.sure
      PROVE  q.values = Totals(offers')
  <2>1. CASE Old(q)
    <3>1. PICK p \in flight : Kin(p, q) /\ offers' = offers
      BY <1>1, <2>1 DEF Old, Knows
    <3>2. p.kind = "simulate" /\ p.status = "ok" /\ p.sure /\ p.values = q.values
      BY <1>1, <3>1 DEF Kin, Same
    <3> QED
      BY <3>1, <3>2 DEF SimInv
  <2>2. CASE Served(q)
    BY <1>1, <2>2 DEF Served
  <2>3. CASE New(q) \/ Taken(q)
    BY <1>1, <2>3 DEF New, Taken
  <2> QED
    BY <2>1, <2>2, <2>3, Origins
<1>2. SimShape' /\ (sim'.sure => sim'.totals = Totals(offers'))
  <2>1. CASE sim' = sim /\ offers' = offers
    BY <2>1 DEF SimInv, SimShape
  <2>2. CASE sim' = [sim EXCEPT !.sure = FALSE]
    BY <2>2 DEF SimShape
  <2>3. CASE \E r \in flight : /\ r.kind = "simulate" /\ r.status = "ok" /\ offers' = offers
                               /\ sim' = [totals |-> r.values, sure |-> r.sure]
    BY <2>3 DEF SimInv, SimShape
  <2> QED
    BY <2>1, <2>2, <2>3, SimMoves
<1>3. Totals(offers)' = Totals(offers')
  BY DEF Totals
<1> QED
  BY <1>1, <1>2, <1>3 DEF SimInv

LEMMA SimInvariant == Spec => []SimInv
<1>1. Init => SimShape /\ SimInv
  BY DEF Init, SimShape, SimInv, FirstRead
<1>2. TypeInv /\ SimShape /\ SimInv /\ [Next]_vars => (SimShape /\ SimInv)'
  BY SimInvStep
<1> QED
  BY TypeInvariant, <1>1, <1>2, PTL DEF Spec
-----------------------------------------------------------------------------
(* One offer is current at most *)

OneCurrent == \A i, j \in Ids :
  offers[i] # None /\ offers[j] # None /\ offers[i]["current"] /\ offers[j]["current"] => i = j

LEMMA OffersMove ==
  ASSUME TypeInv, [Next]_vars
  PROVE  \/ offers' = offers
         \/ \E i \in Ids : offers' = [offers EXCEPT ![i] = None]
         \/ \E i \in Ids : \E o : Stored(o) /\ offers' = Put(i, o)
<1>0. created \in 0..MaxId /\ Snapshot(offers) /\ created + Cardinality(Creating) <= MaxId
  BY DEF TypeInv, ServerInv
<1>1. CASE User \/ Refetch
  BY <1>1 DEF User, OpenNew, OpenEdit, Submit, CancelForm, DeleteOffer, OpenPublic, ImportOffer,
     ClosePublic, Navigate, AnnualSimulate, Refetch, server
<1>2. CASE Elsewhere
  <2>1. PICK i \in Ids :
          /\ offers[i] # None
          /\ \/ offers' = [offers EXCEPT ![i] = None]
             \/ \E f \in Edited : \E x \in Inputs(f, offers[i]) :
                  offers' = Put(i, Sent([offers[i] EXCEPT ![f] = x]))
    BY <1>2 DEF Elsewhere
  <2>2. CASE offers' = [offers EXCEPT ![i] = None]
    BY <2>2
  <2>3. ASSUME NEW f \in Edited, NEW x \in Inputs(f, offers[i]),
               offers' = Put(i, Sent([offers[i] EXCEPT ![f] = x]))
        PROVE  \E o : Stored(o) /\ offers' = Put(i, o)
    <3>1. Stored(offers[i]) /\ f \in Fields
      BY <1>0, <2>1, EditedAssumption DEF Snapshot
    <3>2. Filled([offers[i] EXCEPT ![f] = x])
      BY <3>1, StoredIsFilled, InputsFilled, AlteredFilled
    <3>3. Stored(Sent([offers[i] EXCEPT ![f] = x]))
      BY <3>2, SentFields
    <3> QED
      BY <2>3, <3>3
  <2> QED
    BY <2>1, <2>2, <2>3
<1>3. ASSUME NEW r \in flight, Serve(r)
      PROVE  \/ offers' = offers
             \/ \E i \in Ids : offers' = [offers EXCEPT ![i] = None]
             \/ \E i \in Ids : \E o : Stored(o) /\ offers' = Put(i, o)
  <2>1. CASE ServeRead(r)
    BY <2>1 DEF ServeRead, server
  <2>2. ASSUME r \in Creating PROVE created + 1 \in Ids
    <3>1. Cardinality(Creating) # 0
      BY <2>2, CreatingCount, FS_EmptySet DEF TypeInv
    <3>2. Cardinality(Creating) \in Nat
      BY CreatingCount DEF TypeInv
    <3> QED
      BY <1>0, <3>1, <3>2, BoundsAssumption DEF Ids
  <2>3. CASE ServeCreate(r)
    <3>1. r.status = "sent" /\ r.kind = "create" /\ r \in Creating
      BY <2>3 DEF ServeCreate, Creating
    <3>2. Stored(Sent(r.values))
      BY <3>1, FlightShaped, SentFields DEF Meant
    <3>3. CASE Acceptable(Sent(r.values))
      BY <2>2, <2>3, <3>1, <3>2, <3>3 DEF ServeCreate, Written
    <3>4. CASE ~Acceptable(Sent(r.values))
      BY <2>3, <3>4 DEF ServeCreate, Refuse, server
    <3> QED
      BY <3>3, <3>4
  <2>4. CASE ServeUpdate(r)
    <3>1. r.status = "sent" /\ r.kind = "update"
      BY <2>4 DEF ServeUpdate
    <3>2. Stored(Sent(r.values)) /\ r.id \in Ids
      BY <3>1, FlightShaped, SentFields DEF Meant
    <3>3. CASE Acceptable(Sent(r.values)) /\ offers[r.id] # None
      BY <2>4, <3>2, <3>3 DEF ServeUpdate, Written
    <3>4. CASE ~(Acceptable(Sent(r.values)) /\ offers[r.id] # None)
      BY <2>4, <3>4 DEF ServeUpdate, Refuse, server
    <3> QED
      BY <3>3, <3>4
  <2>5. CASE ServeDelete(r)
    <3>1. r.id \in Ids
      BY <2>5, FlightShaped DEF Meant, ServeDelete
    <3> QED
      BY <2>5, <3>1 DEF ServeDelete, Written, Refuse, server
  <2>6. CASE ServeImport(r)
    <3> DEFINE o == [r.values EXCEPT !["current"] = FALSE, !["public"] = FALSE]
    <3>1. r.status = "sent" /\ r.kind = "import" /\ r \in Creating
      BY <2>6 DEF ServeImport, Creating
    <3>2. r.values \in Shared
      BY <3>1, FlightShaped DEF Meant
    <3>3. Stored(o)
      BY <3>2, ImportStored
    <3> HIDE DEF o
    <3>4. CASE Refuse(r)
      BY <3>4 DEF Refuse, server
    <3>5. CASE created' = created + 1 /\ offers' = Put(created', o)
      BY <2>2, <3>1, <3>3, <3>5
    <3>6. Refuse(r) \/ (created' = created + 1 /\ Written(r, Put(created', o)))
      BY <2>6, Zenon DEF ServeImport, o
    <3>7. Refuse(r) \/ (created' = created + 1 /\ offers' = Put(created', o))
      BY <3>6, Zenon DEF Written
    <3> QED
      BY <3>4, <3>5, <3>7
  <2> QED
    BY <1>3, <2>1, <2>3, <2>4, <2>5, <2>6 DEF Serve
<1>4. ASSUME NEW r \in flight, Receive(r) PROVE offers' = offers
  BY <1>4 DEF Receive, WriteAnswered, ReadAnswered, SimulationAnswered, ReadFailed,
     RequestFailed, server
<1>5. CASE UNCHANGED vars
  BY <1>5 DEF vars
<1> QED
  BY <1>1, <1>2, <1>3, <1>4, <1>5 DEF Next

LEMMA PutKeepsOne ==
  ASSUME Snapshot(offers), OneCurrent, NEW id \in Ids, NEW o, Stored(o)
  PROVE  \A i, j \in Ids :
           Put(id, o)[i] # None /\ Put(id, o)[j] # None
             /\ Put(id, o)[i]["current"] /\ Put(id, o)[j]["current"] => i = j
<1> DEFINE P == Put(id, o)
<1>1. P[id] = o /\ \A i \in Ids : i # id => P[i] = IF o["current"] THEN Without(offers[i]) ELSE offers[i]
  BY DEF Put
<1>2. ASSUME NEW i \in Ids, offers[i] # None PROVE ~Without(offers[i])["current"]
  <2>1. Stored(offers[i]) /\ "current" \in Fields
    BY <1>2 DEF Snapshot, Fields, Toggles
  <2> QED
    BY <1>2, <2>1 DEF Without, Stored
<1>3. Without(None) = None
  BY DEF Without
<1>4. ASSUME NEW i \in Ids, NEW j \in Ids, P[i] # None, P[i]["current"], P[j] # None,
             P[j]["current"]
      PROVE  i = j
  <2> HIDE DEF P
  <2>1. CASE o["current"]
    BY <1>1, <1>2, <1>3, <1>4, <2>1
  <2>2. CASE ~o["current"]
    BY <1>1, <1>4, <2>2 DEF OneCurrent
  <2> QED
    BY <2>1, <2>2
<1>5. \A i, j \in Ids : P[i] # None /\ P[j] # None /\ P[i]["current"] /\ P[j]["current"] => i = j
  <2> HIDE DEF P
  <2> QED
    BY <1>4
<1> QED
  BY <1>5

LEMMA OneCurrentStep == TypeInv /\ OneCurrent /\ [Next]_vars => OneCurrent'
<1> SUFFICES ASSUME TypeInv, OneCurrent, [Next]_vars PROVE OneCurrent'
  OBVIOUS
<1>0. Snapshot(offers)
  BY DEF TypeInv, ServerInv
<1>1. CASE offers' = offers
  BY <1>1 DEF OneCurrent
<1>2. ASSUME NEW i \in Ids, offers' = [offers EXCEPT ![i] = None] PROVE OneCurrent'
  <2>1. \A j \in Ids : offers'[j] # None => offers'[j] = offers[j] /\ offers[j] # None
    BY <1>0, <1>2 DEF Snapshot
  <2> QED
    BY <2>1 DEF OneCurrent
<1>3. ASSUME NEW i \in Ids, NEW o, Stored(o), offers' = Put(i, o) PROVE OneCurrent'
  <2> DEFINE P == Put(i, o)
  <2>1. \A k, j \in Ids :
          P[k] # None /\ P[j] # None /\ P[k]["current"] /\ P[j]["current"] => k = j
    BY <1>0, <1>3, PutKeepsOne
  <2>2. offers' = P
    BY <1>3
  <2> HIDE DEF P
  <2> QED
    BY <2>1, <2>2 DEF OneCurrent
<1> QED
  BY <1>1, <1>2, <1>3, OffersMove

(* What two tabs that switch at once, of which OfferStore tells, would not *)
(* have left.                                                              *)
OneCurrentAtFirst ==
  \A os \in InitialOffers : \A i, j \in Ids :
    os[i] # None /\ os[j] # None /\ os[i]["current"] /\ os[j]["current"] => i = j

LEMMA OneCurrentInvariant ==
  ASSUME OneCurrentAtFirst PROVE Spec => []OneCurrent
<1>1. Init => OneCurrent
  BY DEF Init, OneCurrent, OneCurrentAtFirst
<1>2. TypeInv /\ OneCurrent /\ [Next]_vars => OneCurrent'
  BY OneCurrentStep
<1> QED
  BY TypeInvariant, <1>1, <1>2, PTL DEF Spec

-----------------------------------------------------------------------------
(* Sorting *)

LEMMA Numbered == ASSUME NEW n \in Nat PROVE IsFiniteSet(1..n) /\ Cardinality(1..n) = n
<1>1. IsFiniteSet(1..n) /\ Cardinality(1..n) = IF 1 > n THEN 0 ELSE n - 1 + 1
  BY FS_Interval
<1> QED
  BY <1>1

(* R is a strict total order of S. *)
Orders(R, S) ==
  /\ \A i \in S : <<i, i>> \notin R
  /\ \A i, j \in S : i # j => <<i, j>> \in R \/ <<j, i>> \in R
  /\ \A i, j, k \in S : <<i, j>> \in R /\ <<j, k>> \in R => <<i, k>> \in R

(* s is a list of S in the order of R. *)
InOrder(s, S, R) ==
  /\ s \in [1..Cardinality(S) -> S]
  /\ \A p, q \in 1..Cardinality(S) : p < q => <<s[p], s[q]>> \in R

(* A member stands at the place that the number before it gives.           *)
LEMMA SortExists ==
  ASSUME NEW S, IsFiniteSet(S), NEW R, Orders(R, S) PROVE \E s : InOrder(s, S, R)
<1> DEFINE n == Cardinality(S)
           pre(i) == {j \in S : <<j, i>> \in R}
           rank == [i \in S |-> 1 + Cardinality(pre(i))]
<1>1. n \in Nat /\ IsFiniteSet(1..n) /\ Cardinality(1..n) = n
  BY FS_CardinalityType, Numbered
<1>2. ASSUME NEW i \in S PROVE Cardinality(pre(i)) \in Nat /\ Cardinality(pre(i)) < n
  <2>1. pre(i) \in SUBSET S /\ i \notin pre(i) /\ pre(i) # S
    BY DEF Orders
  <2>2. /\ IsFiniteSet(pre(i)) /\ Cardinality(pre(i)) <= n /\ n # Cardinality(pre(i))
    <3> HIDE DEF pre
    <3> QED
      BY <2>1, FS_Subset
  <2>3. Cardinality(pre(i)) \in Nat
    BY <2>2, FS_CardinalityType
  <2> QED
    BY <1>1, <2>2, <2>3
<1>3. ASSUME NEW i \in S, NEW j \in S, <<i, j>> \in R
      PROVE  Cardinality(pre(i)) < Cardinality(pre(j))
  <2>1. pre(i) \in SUBSET pre(j) /\ i \in pre(j) /\ i \notin pre(i) /\ pre(j) \in SUBSET S
    BY <1>3 DEF Orders
  <2>2. IsFiniteSet(pre(j))
    BY <2>1, FS_Subset
  <2>3. Cardinality(pre(i)) <= Cardinality(pre(j)) /\ Cardinality(pre(j)) # Cardinality(pre(i))
    <3>1. pre(i) # pre(j)
      BY <2>1
    <3> HIDE DEF pre
    <3> QED
      BY <2>1, <2>2, <3>1, FS_Subset
  <2> QED
    BY <1>2, <2>3
<1>4. rank \in Injection(S, 1..n)
  <2>1. \A i \in S : rank[i] \in 1..n
    BY <1>1, <1>2
  <2>2. ASSUME NEW i \in S, NEW j \in S, rank[i] = rank[j] PROVE i = j
    <3>1. Cardinality(pre(i)) = Cardinality(pre(j))
      BY <1>2, <2>2
    <3> HIDE DEF pre, rank
    <3>2. <<i, j>> \notin R /\ <<j, i>> \notin R
      BY <1>2, <1>3, <3>1
    <3> QED
      BY <3>2 DEF Orders
  <2> QED
    BY <2>1, <2>2 DEF Injection, IsInjective
<1>5. \A p \in 1..n : \E i \in S : rank[i] = p
  <2> HIDE DEF rank
  <2>1. rank \in Surjection(S, 1..n)
    BY <1>1, <1>4, FS_Injection
  <2> QED
    BY <2>1 DEF Surjection
<1> DEFINE s == [p \in 1..n |-> CHOOSE i \in S : rank[i] = p]
<1>6. \A p \in 1..n : s[p] \in S /\ rank[s[p]] = p
  <2> HIDE DEF rank
  <2> QED
    BY <1>5
<1>7. ASSUME NEW p \in 1..n, NEW q \in 1..n, p < q PROVE <<s[p], s[q]>> \in R
  <2> HIDE DEF s
  <2>1. s[p] \in S /\ s[q] \in S /\ rank[s[p]] = p /\ rank[s[q]] = q
    BY <1>6
  <2>2. Cardinality(pre(s[p])) < Cardinality(pre(s[q]))
    BY <1>1, <1>2, <1>7, <2>1
  <2>3. s[p] # s[q]
    BY <1>7, <2>1
  <2>4. <<s[q], s[p]>> \notin R
    <3> HIDE DEF pre
    <3> QED
      BY <1>2, <1>3, <2>1, <2>2
  <2> QED
    BY <2>1, <2>3, <2>4 DEF Orders
<1>8. InOrder(s, S, R)
  <2> HIDE DEF rank
  <2> QED
    BY <1>6, <1>7 DEF InOrder
<1> QED
  BY <1>8

(* Every member has one place. *)
LEMMA SortedOnce ==
  ASSUME NEW S, IsFiniteSet(S), NEW R, Orders(R, S), NEW s, InOrder(s, S, R)
  PROVE  /\ \A p, q \in 1..Cardinality(S) : s[p] = s[q] => p = q
         /\ \A i \in S : \E p \in 1..Cardinality(S) : s[p] = i
<1> DEFINE n == Cardinality(S)
<1>1. n \in Nat /\ Cardinality(1..n) = n
  BY FS_CardinalityType, Numbered
<1>2. ASSUME NEW p \in 1..n, NEW q \in 1..n, s[p] = s[q] PROVE p = q
  <2>1. ~(p < q) /\ ~(q < p)
    BY <1>2 DEF Orders, InOrder
  <2> QED
    BY <1>1, <2>1
<1>3. s \in Injection(1..n, S)
  BY <1>2 DEF Injection, IsInjective, InOrder
<1>4. s \in Surjection(1..n, S)
  <2> HIDE DEF n
  <2>1. Cardinality(1..n) = Cardinality(S)
    BY <1>1 DEF n
  <2> QED
    BY <1>3, <2>1, FS_Injection
<1> QED
  BY <1>2, <1>4 DEF Surjection

(* How many come before a member says where it stands. *)
LEMMA PlaceIs ==
  ASSUME NEW S, IsFiniteSet(S), NEW R, Orders(R, S), NEW s, InOrder(s, S, R),
         NEW p \in 1..Cardinality(S)
  PROVE  LET pre == {j \in S : <<j, s[p]>> \in R}
         IN  IsFiniteSet(pre) /\ Cardinality(pre) = p - 1
<1> DEFINE n == Cardinality(S)
           pre == {j \in S : <<j, s[p]>> \in R}
           g == [q \in 1..(p - 1) |-> s[q]]
<1>1. n \in Nat /\ p \in Nat /\ p - 1 \in Nat /\ p <= n
  BY FS_CardinalityType
<1>2. \A q, r \in 1..n : s[q] = s[r] => q = r
  BY SortedOnce
<1>3. \A i \in S : \E q \in 1..n : s[q] = i
  BY SortedOnce
<1>4. \A q \in 1..n : s[q] \in S
  BY DEF InOrder
<1>5. ASSUME NEW q \in 1..n PROVE <<s[q], s[p]>> \in R <=> q < p
  <2>1. CASE q < p
    BY <2>1 DEF InOrder
  <2>2. CASE q = p
    BY <1>4, <2>2 DEF Orders
  <2>3. CASE p < q
    <3>1. <<s[p], s[q]>> \in R
      BY <2>3 DEF InOrder
    <3>2. <<s[p], s[p]>> \notin R /\ s[p] \in S /\ s[q] \in S
      BY <1>4 DEF Orders
    <3> QED
      BY <2>3, <3>1, <3>2, <1>1 DEF Orders
  <2> QED
    BY <1>1, <2>1, <2>2, <2>3
<1> HIDE DEF n
<1>6. g \in Surjection(1..(p - 1), pre)
  <2>1. \A q \in 1..(p - 1) : q \in 1..n /\ q < p
    BY <1>1
  <2>2. \A q \in 1..(p - 1) : s[q] \in pre
    BY <1>4, <1>5, <2>1
  <2>3. ASSUME NEW i \in pre PROVE \E q \in 1..(p - 1) : s[q] = i
    <3>1. PICK q \in 1..n : s[q] = i
      BY <1>3
    <3>2. q < p
      BY <1>5, <3>1
    <3> QED
      BY <1>1, <3>1, <3>2
  <2> QED
    BY <2>2, <2>3 DEF Surjection
<1>7. g \in Injection(1..(p - 1), pre)
  <2>1. \A q \in 1..(p - 1) : q \in 1..n
    BY <1>1
  <2>2. \A q, r \in 1..(p - 1) : g[q] = g[r] => q = r
    BY <1>2, <2>1
  <2> QED
    BY <1>6, <2>2 DEF Injection, IsInjective, Surjection
<1>8. IsFiniteSet(1..(p - 1)) /\ Cardinality(1..(p - 1)) = p - 1
  BY <1>1, Numbered
<1>9. g \in Bijection(1..(p - 1), pre)
  BY <1>6, <1>7 DEF Bijection
<1> HIDE DEF pre, g
<1>10. IsFiniteSet(pre) /\ Cardinality(pre) = p - 1
  <2> DEFINE I == 1..(p - 1)
  <2>1. IsFiniteSet(I) /\ Cardinality(I) = p - 1 /\ g \in Bijection(I, pre)
    BY <1>8, <1>9
  <2> HIDE DEF I
  <2>2. IsFiniteSet(pre) /\ Cardinality(pre) = Cardinality(I)
    BY <2>1, FS_Bijection DEF ExistsBijection
  <2> QED
    BY <2>1, <2>2
<1> QED
  BY <1>10 DEF pre

(* The members that come first, put in order, are the first of all.        *)
LEMMA SegmentIs ==
  ASSUME NEW S, IsFiniteSet(S), NEW R, Orders(R, S), NEW s, InOrder(s, S, R),
         NEW T, T \subseteq S, \A i \in S, j \in T : <<i, j>> \in R => i \in T,
         NEW u, InOrder(u, T, R), NEW p \in 1..Cardinality(T)
  PROVE  p \in 1..Cardinality(S) /\ u[p] = s[p]
<1>1. IsFiniteSet(T) /\ Cardinality(T) <= Cardinality(S)
  BY FS_Subset
<1>2. Orders(R, T)
  BY DEF Orders
<1>3. Cardinality(T) \in Nat /\ Cardinality(S) \in Nat
  BY <1>1, FS_CardinalityType
<1>4. u[p] \in T
  BY DEF InOrder
<1>5. Cardinality({j \in T : <<j, u[p]>> \in R}) = p - 1
  BY <1>1, <1>2, PlaceIs
<1>6. PICK q \in 1..Cardinality(S) : s[q] = u[p]
  BY <1>4, SortedOnce
<1>7. Cardinality({j \in S : <<j, s[q]>> \in R}) = q - 1
  BY PlaceIs
<1>8. {j \in T : <<j, u[p]>> \in R} = {j \in S : <<j, s[q]>> \in R}
  BY <1>4, <1>6
<1>9. p - 1 = q - 1
  BY <1>5, <1>7, <1>8, Zenon
<1>10. p = q
  BY <1>3, <1>9
<1> QED
  BY <1>1, <1>3, <1>6, <1>10

(* The first three of a list. *)
Listed(s, S, n) == s \in [1..n -> S]

LEMMA FirstThree ==
  ASSUME NEW S, NEW n, NEW s, n \in Nat, Listed(s, S, n)
  PROVE  /\ Len(First3(s)) = IF n < 3 THEN n ELSE 3
         /\ DOMAIN First3(s) = 1..Len(First3(s))
         /\ \A p \in DOMAIN First3(s) : p \in 1..n /\ First3(s)[p] = s[p]
<1> DEFINE m == IF n < 3 THEN n ELSE 3
<1>1. s \in Seq(S) /\ Len(s) = n
  BY DEF Listed
<1>2. First3(s) = SubSeq(s, 1, m)
  BY <1>1 DEF First3
<1>3. m \in Nat /\ m <= n
  OBVIOUS
<1> HIDE DEF m
<1>4. Len(SubSeq(s, 1, m)) = m /\ \A p \in 1..m : SubSeq(s, 1, m)[p] = s[p]
  BY <1>1, <1>3
<1>5. DOMAIN SubSeq(s, 1, m) = 1..m
  BY <1>1, <1>3
<1> QED
  BY <1>2, <1>3, <1>4, <1>5 DEF m

-----------------------------------------------------------------------------
(* The podiums *)

(* The parts of PodiumTrue, by name.                                       *)
Kept == {i \in Ids : offers[i] # None}
CurrentIds == {i \in Ids : offers[i] # None /\ offers[i]["current"]}
CheaperThan(i) == {j \in Ids : offers[j] # None /\ Cost(offers[j]) < Cost(offers[i])}
CheapIds == UNION {CheaperThan(c) : c \in CurrentIds}
SavingOf(i) == {Cost(offers[i]) - Cost(offers[c]) : c \in CurrentIds}
Free == \E c \in CurrentIds : Cost(offers[c]) = 0

(* What is simulated is a bill for each offer.                             *)
TotalsOf(t) ==
  /\ t # None
  /\ \A i \in Ids : i \in Kept => t[i] = Cost(offers[i]) /\ t[i] \in Int /\ i \in Simulated(t)
  /\ \A i \in Simulated(t) : i \in Kept

LEMMA CostIs == ASSUME NEW o, Stored(o) PROVE Cost(o) \in Int
<1>1. /\ o["peak"] \in Int /\ o["mid"] \in Int /\ o["valley"] \in Int
      /\ o["powerPeak"] \in Int /\ o["powerValley"] \in Int /\ o["surplus"] \in Int
  BY DEF Stored, Numbers
<1>2. (IF o["flat"] THEN 3 * o["peak"] ELSE o["peak"] + o["mid"] + o["valley"]) \in Int
  BY <1>1
<1>3. (IF o["same"] THEN 2 * o["powerPeak"] ELSE o["powerPeak"] + o["powerValley"]) \in Int
  BY <1>1
<1> QED
  BY <1>1, <1>2, <1>3 DEF Cost

LEMMA TotalsAre ==
  ASSUME Snapshot(offers), NEW t, t = Totals(offers) PROVE TotalsOf(t)
<1>1. \A i \in Ids : offers[i] # None => Cost(offers[i]) \in Int
  BY CostIs DEF Snapshot
<1>2. \A i \in Ids : t[i] = IF offers[i] = None THEN None ELSE Cost(offers[i])
  BY DEF Totals
<1>3. t \in [Ids -> Int \cup {None}]
  BY <1>1 DEF Totals
<1>4. t # None
  BY <1>3, NoneAssumption
<1>5. \A i \in Ids : offers[i] # None => t[i] # None
  BY <1>1, <1>2, NoneAssumption
<1> QED
  BY <1>1, <1>2, <1>4, <1>5 DEF TotalsOf, Kept, Simulated

(* Who comes before whom. *)
Ranks(t) == {e \in Ids \X Ids : Before(t, e[1], e[2])}

LEMMA RanksOrder ==
  ASSUME NEW t, TotalsOf(t) PROVE Orders(Ranks(t), Kept) /\ IsFiniteSet(Kept)
<1>1. Kept \subseteq Ids /\ Ids \subseteq Nat /\ IsFiniteSet(Ids)
  BY Numbered, BoundsAssumption DEF Kept, Ids
<1>2. \A i \in Kept : t[i] \in Int /\ i \in Nat
  BY <1>1 DEF TotalsOf
<1>3. \A i, j \in Kept : <<i, j>> \in Ranks(t) <=> Before(t, i, j)
  BY <1>1 DEF Ranks
<1>4. \A i \in Kept : ~Before(t, i, i)
  BY <1>2 DEF Before
<1>5. \A i, j \in Kept : i # j => Before(t, i, j) \/ Before(t, j, i)
  BY <1>2 DEF Before
<1>6. \A i, j, k \in Kept : Before(t, i, j) /\ Before(t, j, k) => Before(t, i, k)
  BY <1>2 DEF Before
<1>7. IsFiniteSet(Kept)
  BY <1>1, FS_Subset
<1> QED
  BY <1>3, <1>4, <1>5, <1>6, <1>7 DEF Orders

(* What is put in order by the totals is in order.                         *)
Ranked(S, t) ==
  CHOOSE s \in [1..Cardinality(S) -> S] :
    \A p, q \in 1..Cardinality(S) : p < q => Before(t, s[p], s[q])

LEMMA RankedInOrder ==
  ASSUME NEW t, TotalsOf(t), NEW S, S \subseteq Kept
  PROVE  IsFiniteSet(S) /\ InOrder(Ranked(S, t), S, Ranks(t))
<1> DEFINE R == Ranks(t)
<1>1. IsFiniteSet(S) /\ Orders(R, S)
  BY RanksOrder, FS_Subset DEF Orders
<1>2. S \subseteq Ids
  BY DEF Kept
<1>3. \A i, j \in S : <<i, j>> \in R <=> Before(t, i, j)
  BY <1>2 DEF Ranks
<1> HIDE DEF R
<1>4. PICK s : InOrder(s, S, R)
  BY <1>1, SortExists
<1>5. s \in [1..Cardinality(S) -> S]
  BY <1>4 DEF InOrder
<1>6. \A p, q \in 1..Cardinality(S) : p < q => Before(t, s[p], s[q])
  BY <1>3, <1>4 DEF InOrder
<1> DEFINE u == Ranked(S, t)
<1>7. /\ u \in [1..Cardinality(S) -> S]
      /\ \A p, q \in 1..Cardinality(S) : p < q => Before(t, u[p], u[q])
  BY <1>5, <1>6 DEF Ranked
<1> HIDE DEF u
<1>8. InOrder(u, S, R)
  BY <1>3, <1>7 DEF InOrder
<1> QED
  BY <1>1, <1>8 DEF u, R

(* The current offer is the one the screens take it to be.                 *)
LEMMA CurrentIs ==
  ASSUME OneCurrent PROVE CurrentOf(offers) = CurrentIds /\ \A c, d \in CurrentIds : c = d
<1>1. \A c, d \in CurrentIds : c = d
  BY DEF OneCurrent, CurrentIds
<1>2. ASSUME NEW c \in CurrentIds PROVE c \in CurrentOf(offers)
  <2>1. ASSUME NEW j \in Ids, j > c, offers[j] # None PROVE ~offers[j]["current"]
    <3>1. j # c
      BY <2>1, BoundsAssumption DEF Ids
    <3> QED
      BY <2>1, <3>1 DEF OneCurrent, CurrentIds
  <2> QED
    BY <2>1 DEF CurrentOf, CurrentIds
<1> QED
  BY <1>1, <1>2 DEF CurrentOf, CurrentIds

(* Whether the offers page compares, with what, and what the saving is.    *)
LEMMA SavingIs ==
  ASSUME OneCurrent, NEW t, TotalsOf(t)
  PROVE  /\ Reference(offers, t) = IF Free THEN {} ELSE CurrentIds
         /\ Reference(offers, t) # {} =>
              \A c \in CurrentIds : /\ DOMAIN AnnualSaving(offers, t) = Kept \ {c}
                                    /\ \A i \in Kept \ {c} : AnnualSaving(offers, t)[i] = t[i] - t[c]
         /\ Reference(offers, t) = {} => DOMAIN AnnualSaving(offers, t) = {}
<1>1. CurrentOf(offers) = CurrentIds /\ \A c, d \in CurrentIds : c = d
  BY CurrentIs
<1>2. \A c \in CurrentIds : c \in Kept /\ c \in Ids
  BY DEF CurrentIds, Kept
<1>3. \A c \in CurrentIds : c \in Simulated(t) /\ t[c] = Cost(offers[c])
  BY <1>2 DEF TotalsOf
<1>4. \A c : c \in Reference(offers, t) <=> c \in CurrentIds /\ t[c] # 0
  BY <1>1, <1>3 DEF Reference
<1>5. Free <=> \E c \in CurrentIds : t[c] = 0
  BY <1>3 DEF Free
<1>6. Reference(offers, t) = IF Free THEN {} ELSE CurrentIds
  BY <1>1, <1>4, <1>5
<1>8. \A i : i \in Simulated(t) <=> i \in Kept
  BY DEF TotalsOf, Kept
<1>9. ASSUME NEW c \in CurrentIds, Reference(offers, t) # {}
      PROVE  /\ DOMAIN AnnualSaving(offers, t) = Kept \ {c}
             /\ \A i \in Kept \ {c} : AnnualSaving(offers, t)[i] = t[i] - t[c]
  <2> DEFINE K == Reference(offers, t)
             D == UNION {Simulated(t) \ {d} : d \in K}
  <2>1. K # {} /\ \A d : d \in K <=> d = c
    BY <1>1, <1>6, <1>9
  <2>2. D = Kept \ {c}
    BY <1>8, <2>1
  <2>3. (CHOOSE d \in K : TRUE) = c
    BY <2>1
  <2>4. AnnualSaving(offers, t) = [i \in D |-> LET d == CHOOSE d \in K : TRUE IN t[i] - t[d]]
    BY DEF AnnualSaving
  <2> HIDE DEF K, D
  <2> QED
    BY <2>2, <2>3, <2>4
<1>10. Reference(offers, t) = {} => DOMAIN AnnualSaving(offers, t) = {}
  BY DEF AnnualSaving
<1> QED
  BY <1>6, <1>9, <1>10

(* Both podiums are the first three of what is cheaper than the current,   *)
(* but that the offers page has none if that one costs nothing.            *)
LEMMA PodiumIs ==
  ASSUME OneCurrent, NEW t, TotalsOf(t)
  PROVE  /\ CheapIds \subseteq Kept
         /\ Podium(offers, t) = First3(Ranked(IF Free THEN {} ELSE CheapIds, t))
         /\ Top3(offers, t) = First3(Ranked(CheapIds, t))
<1> DEFINE s == AnnualSaving(offers, t)
           A == {i \in DOMAIN s : s[i] < 0}
           B == {i \in Simulated(t) : \E c \in CurrentOf(offers) \cap Simulated(t) :
                                        i # c /\ t[i] < t[c]}
<1>1. CurrentOf(offers) = CurrentIds /\ \A c, d \in CurrentIds : c = d
  BY CurrentIs
<1>2. \A i : i \in Simulated(t) <=> i \in Kept
  BY DEF TotalsOf, Kept
<1>3. \A c \in CurrentIds : c \in Kept
  BY DEF CurrentIds, Kept
<1>4. \A i \in Kept : i \in Ids /\ t[i] = Cost(offers[i]) /\ t[i] \in Int
  BY DEF TotalsOf, Kept
<1>5. \A i : i \in CheapIds <=> i \in Kept /\ \E c \in CurrentIds : t[i] < t[c]
  BY <1>3, <1>4 DEF CheapIds, CheaperThan, Kept
<1>6. B = CheapIds
  <2>1. \A i : i \in B <=> i \in Kept /\ \E c \in CurrentIds : i # c /\ t[i] < t[c]
    BY <1>1, <1>2, <1>3
  <2>2. \A i \in Kept, c \in CurrentIds : t[i] < t[c] => i # c
    BY <1>3, <1>4
  <2> HIDE DEF B
  <2> QED
    BY <1>5, <2>1, <2>2
<1>7. A = IF Free THEN {} ELSE CheapIds
  <2>1. CASE Reference(offers, t) = {}
    <3>1. Free \/ CheapIds = {}
      BY <1>5, <2>1, SavingIs
    <3>2. DOMAIN s = {}
      BY <2>1, SavingIs
    <3> QED
      BY <3>1, <3>2
  <2>2. CASE Reference(offers, t) # {}
    <3>1. ~Free /\ CurrentIds # {}
      BY <2>2, SavingIs
    <3>2. PICK c \in CurrentIds : TRUE
      BY <3>1
    <3>3. DOMAIN s = Kept \ {c} /\ \A i \in Kept \ {c} : s[i] = t[i] - t[c]
      BY <2>2, SavingIs
    <3> HIDE DEF s
    <3>4. \A i : i \in A <=> i \in Kept /\ i # c /\ t[i] - t[c] < 0
      BY <3>3
    <3>5. \A i \in Kept : (i # c /\ t[i] - t[c] < 0) <=> t[i] < t[c]
      BY <1>3, <1>4
    <3>6. \A i : i \in CheapIds <=> i \in Kept /\ t[i] < t[c]
      BY <1>1, <1>5
    <3> HIDE DEF A
    <3> QED
      BY <3>1, <3>4, <3>5, <3>6
  <2> QED
    BY <2>1, <2>2
<1>8. Podium(offers, t) = First3(Ranked(A, t))
  BY DEF Podium, Sorted, Ranked
<1>9. Top3(offers, t) = First3(Ranked(B, t))
  BY DEF Top3, Sorted, Ranked
<1>10. CheapIds \subseteq Kept
  BY <1>5
<1> HIDE DEF A, B
<1> QED
  BY <1>6, <1>7, <1>8, <1>9, <1>10

(* The cards come in the same order, once there is something to compare    *)
(* with.                                                                   *)
LEMMA CardsAre ==
  ASSUME NEW t, TotalsOf(t), Reference(offers, t) # {}
  PROVE  InOrder(SortedOffers(offers, t), Kept, Ranks(t))
<1> DEFINE n == Cardinality(Kept)
           Ahead(i, j) == IF Reference(offers, t) = {} \/ {i, j} \cap Simulated(t) = {}
                            THEN i > j
                          ELSE IF {i, j} \subseteq Simulated(t) THEN Before(t, i, j)
                          ELSE i \in Simulated(t)
           cards == SortedOffers(offers, t)
<1>1. \A i \in Kept : i \in Simulated(t) /\ i \in Ids
  BY DEF TotalsOf, Kept
<1>2. \A i, j \in Kept : Ahead(i, j) <=> Before(t, i, j)
  BY <1>1
<1>3. cards = CHOOSE s \in [1..n -> Kept] : \A p, q \in 1..n : p < q => Ahead(s[p], s[q])
  BY DEF SortedOffers, Sorted, Kept
<1>4. InOrder(Ranked(Kept, t), Kept, Ranks(t))
  BY RankedInOrder
<1>5. \A i, j \in Kept : <<i, j>> \in Ranks(t) <=> Before(t, i, j)
  BY <1>1 DEF Ranks
<1> HIDE DEF Ahead, cards, n
<1>6. PICK u : u \in [1..n -> Kept] /\ \A p, q \in 1..n : p < q => Ahead(u[p], u[q])
  BY <1>2, <1>4, <1>5 DEF InOrder, n
<1>7. cards \in [1..n -> Kept] /\ \A p, q \in 1..n : p < q => Ahead(cards[p], cards[q])
  BY <1>3, <1>6
<1>8. InOrder(cards, Kept, Ranks(t))
  BY <1>2, <1>5, <1>7 DEF InOrder, n
<1> QED
  BY <1>8 DEF cards

(* The three: who they are, before whom, and that the cards begin with     *)
(* them if there is something to compare with.                             *)
LEMMA ThreeAre ==
  ASSUME OneCurrent, NEW t, TotalsOf(t), NEW top3, top3 = Top3(offers, t)
  PROVE  /\ Len(top3) = IF Cardinality(CheapIds) < 3 THEN Cardinality(CheapIds) ELSE 3
         /\ DOMAIN top3 = 1..Len(top3)
         /\ \A p \in DOMAIN top3 : /\ top3[p] \in CheapIds
                                   /\ Cardinality(CheaperThan(top3[p])) < p
                                   /\ ~Free => top3[p] = SortedOffers(offers, t)[p]
         /\ \A i \in CheapIds \ {top3[p] : p \in DOMAIN top3} :
              \A p \in DOMAIN top3 : Cost(offers[top3[p]]) <= Cost(offers[i])
<1> DEFINE T == CheapIds
           n == Cardinality(T)
           R == Ranks(t)
           u == Ranked(T, t)
           cards == SortedOffers(offers, t)
<1>1. T \subseteq Kept /\ top3 = First3(u)
  BY PodiumIs
<1>2. IsFiniteSet(T) /\ InOrder(u, T, R) /\ n \in Nat
  BY <1>1, RankedInOrder, FS_CardinalityType
<1>3. Orders(R, Kept) /\ IsFiniteSet(Kept)
  BY RanksOrder
<1>4. \A i \in Kept : i \in Ids /\ t[i] = Cost(offers[i]) /\ t[i] \in Int
  BY DEF TotalsOf, Kept
<1>5. \A i, j \in Kept : <<i, j>> \in R <=> Before(t, i, j)
  BY <1>4 DEF Ranks
<1>6. \A i : i \in T <=> i \in Kept /\ \E c \in CurrentIds : t[i] < t[c]
  <2>1. \A c \in CurrentIds : c \in Kept
    BY DEF CurrentIds, Kept
  <2> QED
    BY <1>4, <2>1 DEF CheapIds, CheaperThan, Kept
<1>7. \A c \in CurrentIds : c \in Kept
  BY DEF CurrentIds, Kept
<1> HIDE DEF R, u
<1>8. u \in [1..n -> T]
  BY <1>2 DEF InOrder
<1>9. /\ Len(top3) = IF n < 3 THEN n ELSE 3
      /\ DOMAIN top3 = 1..Len(top3)
      /\ \A p \in DOMAIN top3 : p \in 1..n /\ top3[p] = u[p]
  <2> DEFINE f == First3(u)
  <2>1. n \in Nat /\ Listed(u, T, n)
    BY <1>2, <1>8 DEF Listed
  <2> HIDE DEF n, T
  <2>2. /\ Len(f) = IF n < 3 THEN n ELSE 3
        /\ DOMAIN f = 1..Len(f)
        /\ \A p \in DOMAIN f : p \in 1..n /\ f[p] = u[p]
    BY <2>1, FirstThree
  <2>3. top3 = f
    BY <1>1
  <2> HIDE DEF f
  <2> QED
    BY <2>2, <2>3
<1>10. \A i \in Kept, j \in T : <<i, j>> \in R => i \in T
  <2> TAKE i \in Kept, j \in T
  <2> HAVE <<i, j>> \in R
  <2>1. j \in Kept /\ t[i] <= t[j]
    BY <1>4, <1>5, <1>6 DEF Before
  <2>2. PICK c \in CurrentIds : t[j] < t[c]
    BY <1>6
  <2>3. t[i] < t[c]
    BY <1>4, <1>7, <2>1, <2>2
  <2> QED
    BY <1>6, <2>3
<1> HIDE DEF T, n
<1>11. ASSUME NEW p \in 1..n
       PROVE  u[p] \in T /\ Cardinality(CheaperThan(u[p])) < p /\ (~Free => u[p] = cards[p])
  <2>1. u[p] \in T /\ u[p] \in Kept /\ p \in Nat
    BY <1>2, <1>6, <1>8
  <2> DEFINE pre == {j \in T : <<j, u[p]>> \in R}
             C == CheaperThan(u[p])
  <2>2. Orders(R, T)
    BY <1>3, <1>1 DEF Orders
  <2>3. IsFiniteSet(pre) /\ Cardinality(pre) = p - 1
    BY <1>2, <2>2, PlaceIs DEF n
  <2>4. C \subseteq pre
    <3> SUFFICES ASSUME NEW j \in C PROVE j \in pre
      OBVIOUS
    <3>1. j \in Kept /\ Cost(offers[j]) < Cost(offers[u[p]])
      BY DEF CheaperThan, Kept
    <3>2. <<j, u[p]>> \in R
      BY <1>4, <1>5, <2>1, <3>1 DEF Before
    <3> QED
      BY <1>10, <2>1, <3>1, <3>2
  <2> HIDE DEF pre, C
  <2>5. IsFiniteSet(C) /\ Cardinality(C) <= Cardinality(pre)
    BY <2>3, <2>4, FS_Subset
  <2>6. Cardinality(C) \in Nat
    BY <2>5, FS_CardinalityType
  <2>7. Cardinality(C) < p
    BY <2>1, <2>3, <2>5, <2>6
  <2>8. PICK c \in CurrentIds : TRUE
    BY <1>6, <2>1
  <2>9. ~Free => Reference(offers, t) # {}
    BY <2>8, SavingIs
  <2>10. ~Free => InOrder(cards, Kept, R)
    BY <2>9, CardsAre DEF R
  <2> HIDE DEF cards
  <2>11. ~Free => u[p] = cards[p]
    BY <1>1, <1>2, <1>3, <1>10, <2>10, SegmentIs DEF n
  <2> QED
    BY <2>1, <2>7, <2>11 DEF C
<1>12. \A p \in DOMAIN top3 : /\ top3[p] \in T
                              /\ Cardinality(CheaperThan(top3[p])) < p
                              /\ ~Free => top3[p] = cards[p]
  BY <1>9, <1>11
<1>13. ASSUME NEW i \in T \ {top3[p] : p \in DOMAIN top3}, NEW p \in DOMAIN top3
       PROVE  Cost(offers[top3[p]]) <= Cost(offers[i])
  <2>1. Orders(R, T)
    BY <1>3, <1>1 DEF Orders
  <2>2. PICK q \in 1..n : u[q] = i
    BY <1>2, <2>1, SortedOnce DEF n
  <2>3. q \notin DOMAIN top3
    BY <1>9, <2>2
  <2>4. p \in 1..n /\ top3[p] = u[p] /\ p < q
    BY <1>2, <1>9, <2>2, <2>3
  <2>5. <<u[p], u[q]>> \in R
    BY <1>2, <2>4 DEF InOrder, n
  <2>6. u[p] \in Kept /\ u[q] \in Kept
    BY <1>6, <1>8, <2>4
  <2>7. t[u[p]] <= t[u[q]]
    BY <1>4, <1>5, <2>5, <2>6 DEF Before
  <2> QED
    BY <1>4, <2>2, <2>4, <2>6, <2>7
<1> QED
  BY <1>9, <1>12, <1>13 DEF T, n, cards

(* The savings the cards and the Dashboard show.                           *)
LEMMA SavingsAre ==
  ASSUME OneCurrent, NEW t, TotalsOf(t)
  PROVE  /\ \A i \in Kept : Card(offers, t, i).saving =
                              IF Free \/ i \in CurrentIds THEN {} ELSE SavingOf(i)
         /\ \A p \in DOMAIN Top3(offers, t) :
              Top3(offers, t)[p] \in CheapIds =>
                -KpiCard(offers, t, p).savings \in SavingOf(Top3(offers, t)[p])
<1>1. CurrentOf(offers) = CurrentIds /\ \A c, d \in CurrentIds : c = d
  BY CurrentIs
<1>2. \A i \in Kept : i \in Ids /\ t[i] = Cost(offers[i]) /\ t[i] \in Int
  BY DEF TotalsOf, Kept
<1>3. \A c \in CurrentIds : c \in Kept
  BY DEF CurrentIds, Kept
<1>4. ASSUME NEW i \in Kept, NEW c \in CurrentIds PROVE SavingOf(i) = {t[i] - t[c]}
  BY <1>1, <1>2, <1>3, <1>4 DEF SavingOf
<1>5. ASSUME NEW i \in Kept
      PROVE  Card(offers, t, i).saving = IF Free \/ i \in CurrentIds THEN {} ELSE SavingOf(i)
  <2> DEFINE s == AnnualSaving(offers, t)
  <2>1. i \in CurrentIds <=> offers[i]["current"]
    BY DEF CurrentIds, Kept
  <2>2. Card(offers, t, i).saving =
          IF offers[i]["current"] \/ i \notin DOMAIN s THEN {} ELSE {s[i]}
    BY DEF Card
  <2>3. CASE Reference(offers, t) = {}
    <3>1. DOMAIN s = {}
      BY <2>3, SavingIs
    <3>2. Free \/ CurrentIds = {}
      BY <2>3, SavingIs
    <3>3. Free \/ SavingOf(i) = {}
      BY <3>2 DEF SavingOf
    <3> HIDE DEF s
    <3> QED
      BY <2>2, <3>1, <3>3
  <2>4. CASE Reference(offers, t) # {}
    <3>1. ~Free /\ CurrentIds # {}
      BY <2>4, SavingIs
    <3>2. PICK c \in CurrentIds : TRUE
      BY <3>1
    <3>3. DOMAIN s = Kept \ {c} /\ \A k \in Kept \ {c} : s[k] = t[k] - t[c]
      BY <2>4, SavingIs
    <3> HIDE DEF s
    <3>4. i \in CurrentIds <=> i = c
      BY <1>1
    <3> QED
      BY <1>4, <2>1, <2>2, <3>1, <3>3, <3>4
  <2> QED
    BY <2>3, <2>4
<1>6. ASSUME NEW p \in DOMAIN Top3(offers, t), Top3(offers, t)[p] \in CheapIds
      PROVE  -KpiCard(offers, t, p).savings \in SavingOf(Top3(offers, t)[p])
  <2> DEFINE i == Top3(offers, t)[p]
  <2>1. i \in Kept /\ \E c \in CurrentIds : i \in CheaperThan(c)
    BY <1>6, PodiumIs DEF CheapIds
  <2>2. PICK c \in CurrentIds : TRUE
    BY <2>1
  <2>3. (CHOOSE d \in CurrentOf(offers) : TRUE) = c
    BY <1>1
  <2>4. KpiCard(offers, t, p).savings = t[CHOOSE d \in CurrentOf(offers) : TRUE] - t[i]
    BY DEF KpiCard
  <2> HIDE DEF i
  <2>5. -(t[c] - t[i]) = t[i] - t[c]
    BY <1>2, <1>3, <2>1
  <2>6. SavingOf(i) = {t[i] - t[c]}
    BY <1>4, <2>1
  <2>7. -KpiCard(offers, t, p).savings \in SavingOf(i)
    BY <2>3, <2>4, <2>5, <2>6
  <2> QED
    BY <2>7 DEF i
<1> QED
  BY <1>5, <1>6

(* All that PodiumTrue says, of a list, the totals and the Dashboard's     *)
(* three.                                                                  *)
Truthful(data, t, top3) ==
  /\ Len(top3) = IF Cardinality(CheapIds) < 3 THEN Cardinality(CheapIds) ELSE 3
  /\ \A p \in DOMAIN top3 : /\ top3[p] \in CheapIds
                            /\ Cardinality(CheaperThan(top3[p])) < p
                            /\ KpiCard(data, t, p).offer = top3[p]
                            /\ -KpiCard(data, t, p).savings \in SavingOf(top3[p])
  /\ \A i \in CheapIds \ {top3[p] : p \in DOMAIN top3} :
       \A p \in DOMAIN top3 : Cost(offers[top3[p]]) <= Cost(offers[i])
  /\ Hint(data, t) = IF CurrentIds = {} THEN "no current offer" ELSE "none cheaper"
  /\ Podium(data, t) = IF Free THEN <<>> ELSE top3
  /\ \A p \in DOMAIN Podium(data, t) : Podium(data, t)[p] = SortedOffers(data, t)[p]
  /\ \A i \in Ids : offers[i] # None =>
       /\ Card(data, t, i).saving = IF Free \/ i \in CurrentIds THEN {} ELSE SavingOf(i)
       /\ Card(data, t, i).rank = {p \in DOMAIN top3 : ~Free /\ top3[p] = i}

LEMMA PodiumHolds ==
  ASSUME OneCurrent, NEW t, TotalsOf(t) PROVE Truthful(offers, t, Top3(offers, t))
<1> DEFINE top3 == Top3(offers, t)
           podium == Podium(offers, t)
<1>0. top3 = Top3(offers, t)
  OBVIOUS
<1> HIDE DEF top3
<1>1. /\ Len(top3) = IF Cardinality(CheapIds) < 3 THEN Cardinality(CheapIds) ELSE 3
      /\ DOMAIN top3 = 1..Len(top3)
      /\ \A p \in DOMAIN top3 : /\ top3[p] \in CheapIds
                                /\ Cardinality(CheaperThan(top3[p])) < p
                                /\ ~Free => top3[p] = SortedOffers(offers, t)[p]
      /\ \A i \in CheapIds \ {top3[p] : p \in DOMAIN top3} :
           \A p \in DOMAIN top3 : Cost(offers[top3[p]]) <= Cost(offers[i])
  BY <1>0, ThreeAre
<1>2. podium = IF Free THEN <<>> ELSE top3
  <2>1. CASE ~Free
    BY <1>0, <2>1, PodiumIs
  <2>2. CASE Free
    <3> DEFINE u == Ranked({}, t)
    <3>1. podium = First3(u)
      BY <2>2, PodiumIs
    <3>2. InOrder(u, {}, Ranks(t)) /\ Cardinality({}) = 0
      BY RankedInOrder, FS_EmptySet
    <3>3. Listed(u, {}, 0)
      BY <3>2 DEF InOrder, Listed
    <3> HIDE DEF u
    <3>4. u = <<>>
      BY <3>3 DEF Listed
    <3> QED
      BY <2>2, <3>1, <3>4 DEF First3
  <2> QED
    BY <2>1, <2>2
<1>3. \A p \in DOMAIN podium : podium[p] = SortedOffers(offers, t)[p]
  BY <1>1, <1>2
<1>4. ASSUME NEW i \in Ids, offers[i] # None
      PROVE  /\ Card(offers, t, i).saving = IF Free \/ i \in CurrentIds THEN {} ELSE SavingOf(i)
             /\ Card(offers, t, i).rank = {p \in DOMAIN top3 : ~Free /\ top3[p] = i}
  <2>1. Card(offers, t, i).rank = {p \in DOMAIN podium : podium[p] = i}
    BY DEF Card
  <2>2. i \in Kept
    BY <1>4 DEF Kept
  <2> HIDE DEF podium
  <2>3. {p \in DOMAIN podium : podium[p] = i} = {p \in DOMAIN top3 : ~Free /\ top3[p] = i}
    BY <1>2
  <2> QED
    BY <2>1, <2>2, <2>3, SavingsAre
<1>5. ASSUME NEW p \in DOMAIN top3
      PROVE  /\ KpiCard(offers, t, p).offer = top3[p]
             /\ -KpiCard(offers, t, p).savings \in SavingOf(top3[p])
  <2>1. KpiCard(offers, t, p).offer = top3[p]
    BY <1>0 DEF KpiCard
  <2> QED
    BY <1>0, <1>1, <2>1, SavingsAre
<1>6. Hint(offers, t) = IF CurrentIds = {} THEN "no current offer" ELSE "none cheaper"
  BY CurrentIs DEF Hint, TotalsOf
<1>7. Truthful(offers, t, top3)
  BY <1>1, <1>2, <1>3, <1>4, <1>5, <1>6, Zenon DEF Truthful
<1> QED
  BY <1>0, <1>7

(* If nothing was written since the simulation, the Dashboard's three are  *)
(* the cheapest of the offers cheaper than the current one, in order, with *)
(* their true savings; the offers page gives the same three its medals, at *)
(* the head of its cards, and every card its true difference, unless the   *)
(* current offer costs exactly nothing: then it has neither.  For every    *)
(* number of offers and all prices, with credits that exceed the bill too. *)
(* With two offers current both pages compare with the newest of them only. *)
THEOREM PodiumIsTrue ==
  ASSUME OneCurrentAtFirst PROVE Spec => []PodiumTrue
<1>1. ASSUME TypeInv, ListCoherent, SimInv, OneCurrent PROVE PodiumTrue
  <2> SUFFICES ASSUME Told, sim.sure PROVE PodiumTrue
    BY DEF PodiumTrue
  <2>1. list.data = offers /\ sim.totals = Totals(offers)
    BY <1>1 DEF ListCoherent, SimInv
  <2>2. TotalsOf(sim.totals)
    BY <1>1, <2>1, TotalsAre DEF TypeInv, ServerInv
  <2>3. Truthful(offers, sim.totals, Top3(offers, sim.totals))
    BY <1>1, <2>2, PodiumHolds
  <2>4. Truthful(list.data, sim.totals, Top3(list.data, sim.totals))
    BY <2>1, <2>3
  <2> QED
    BY <2>4, Zenon DEF PodiumTrue, Truthful, CheapIds, CheaperThan, CurrentIds, SavingOf, Free
<1>2. Spec => []OneCurrent
  BY OneCurrentInvariant
<1> QED
  BY TypeInvariant, ListStaysCoherent, SimInvariant, <1>1, <1>2, PTL

=============================================================================
