--------------------------- MODULE MonthsProofs ---------------------------
(* Theorems about Months, for every window, calendar, set of invoices,     *)
(* stored history and number of edits and clicks.                          *)
EXTENDS Months, FiniteSetTheorems, TLAPS

-----------------------------------------------------------------------------
(* Types *)

RequestFields == {"kind", "n", "table", "status", "waits"}
Shaped(r) ==
  /\ r = [x \in RequestFields |-> r[x]]
  /\ r.kind \in {"history", "save", "simulate"} /\ r.n \in Nat
  /\ r.status \in {"sent", "ok", "refused"}
  /\ r.kind = "history" => r.status # "refused" /\ (r.status = "ok" => IsTable(r.table))
  /\ r.kind = "save" /\ r.status = "sent" => IsTable(r.table)

OneRead == \A r, q \in Of("history") : r = q

CacheInv ==
  /\ cache = [data |-> cache.data, ok |-> cache.ok, stale |-> cache.stale]
  /\ cache.ok \in BOOLEAN
  /\ cache.data # None => IsTable(cache.data)
  /\ cache.ok => cache.data # None

PageInv ==
  /\ Mounted => IsTable(table) /\ DOMAIN table # {}
  /\ upload # Closed => Mounted /\ upload.status # "closed"
  /\ upload.status = "success" => upload.file \in Files /\ Complaint(upload.file) = "none"
  /\ reading \subseteq Files /\ (reading # {} => upload # Closed)
  /\ mine \in Nat \cup {None} /\ last \in Nat \cup {None}
  /\ picked # NotPicked => Shown # None
  /\ drafts # {} => Mounted

TypeInv ==
  /\ today \in FirstDay..LastMonth /\ IsTable(hist) /\ clicks \in Nat
  /\ CacheInv /\ PageInv
  /\ \A r \in flight : Shaped(r)
  /\ OneRead
  /\ sources \in [Months -> {"none", "pdf", "manual"}]

-----------------------------------------------------------------------------
(* The breakdown *)

PickedInv ==
  picked = NotPicked \/ picked.hurried \/ (picked.of = Shown /\ Of("simulate") = {})

-----------------------------------------------------------------------------
(* What the cache and the table have to do with what is saved, as long as  *)
(* everybody waits for answers and no save fails.                          *)

Small(t) == Cardinality(DOMAIN t) <= Window
Saving == {r \in Of("save") : r.status = "sent"}
Unread == \E r \in Of("save") : r.status = "ok"
Refused == \E r \in Of("save") : r.status = "refused"

(* The row that the server has for m, or is about to have.                 *)
Held(m, row) ==
  \/ \E s \in Saving : m \in DOMAIN s.table /\ s.table[m] = row
  \/ (\A s \in Saving : m \notin DOMAIN s.table) /\ m \in DOMAIN hist /\ hist[m] = row

(* One save at a time, of a table with the months of the history, if there *)
(* is one; what was read is what is saved, unless a save is to be read back*)
OrderlyInv ==
  /\ \A r, q \in Of("save") : r = q
  /\ Of("save") # {} => Mounted /\ cache.data # None
  /\ \A s \in Saving : Small(s.table) /\ (DOMAIN hist = {} \/ DOMAIN s.table = DOMAIN hist)
  /\ \A r \in Of("history") : r.status = "ok" => Small(r.table) /\ (r.table = hist \/ Unread)
  /\ Known => cache.data = hist
  /\ Small(hist) /\ (cache.data # None => Small(cache.data)) /\ (Mounted => Small(table))

(* The table goes back to a history that was read: same months, and a row  *)
(* that differs has been changed here, and shows it.                       *)
Followed == Mounted /\ cache.ok /\ DOMAIN cache.data # {}
FollowInv ==
  Followed => /\ DOMAIN table = DOMAIN cache.data
              /\ \A m \in DOMAIN table : table[m] # cache.data[m] => sources[m] # "none"

MarkedInv ==
  \A s \in Saving : \A m \in DOMAIN hist \cap DOMAIN s.table :
    s.table[m] # hist[m] => sources[m] # "none"

(* A row that is not a draft is as it was read, or as it is being saved.   *)
DraftsInv ==
  Followed => \A m \in DOMAIN table \ drafts : table[m] = cache.data[m] \/ Held(m, table[m])

(* What is badged "PDF" is on the table, to be saved, or with the server.  *)
Invoices(m) == {RowOf(f) : f \in {f \in Files : Complaint(f) = "none" /\ f.period = m}}
BadgeInv ==
  \A m \in Months \ lost : sources[m] = "pdf" =>
    IF m \in drafts THEN m \in DOMAIN table /\ table[m] \in Invoices(m)
    ELSE \E row \in Invoices(m) : Held(m, row)

HabitInv ==
  /\ FollowInv
  /\ ~hasty => OrderlyInv /\ MarkedInv
  /\ ~hasty => Refused \/ (DraftsInv /\ BadgeInv)

MonthsInv == TypeInv /\ PickedInv /\ HabitInv
-----------------------------------------------------------------------------
(* Tables and invoices *)

LEMMA TableIs ==
  ASSUME NEW t, IsTable(t)
  PROVE  /\ t \in [DOMAIN t -> Rows] /\ DOMAIN t \subseteq Months /\ t # None
         /\ t = [m \in DOMAIN t |-> t[m]]
<1>1. PICK D \in SUBSET Months : t \in [D -> Rows]
  BY DEF IsTable
<1>2. DOMAIN t = D
  BY <1>1
<1> QED
  BY <1>1, <1>2, NoneAssumption

LEMMA IsTableIf ==
  ASSUME NEW D \in SUBSET Months, NEW t \in [D -> Rows] PROVE IsTable(t) /\ DOMAIN t = D
  BY DEF IsTable

LEMMA EmptyIs == DOMAIN <<>> = {}
  OBVIOUS

LEMMA EmptyTable == ASSUME NEW t, IsTable(t) PROVE t = <<>> <=> DOMAIN t = {}
<1>1. t = <<>> => DOMAIN t = {}
  BY EmptyIs
<1>2. ASSUME DOMAIN t = {} PROVE t = <<>>
  <2>1. t = [m \in {} |-> t[m]]
    BY <1>2, TableIs
  <2>2. <<>> = [m \in {} |-> t[m]]
    OBVIOUS
  <2> QED
    BY <2>1, <2>2
<1> QED
  BY <1>1, <1>2

LEMMA MonthsFinite ==
  ASSUME NEW D \in SUBSET Months PROVE IsFiniteSet(D) /\ Cardinality(D) \in Nat
<1>1. IsFiniteSet(Months)
  BY CalendarAssumption, FS_Interval DEF Months
<1>2. IsFiniteSet(D)
  BY <1>1, FS_Subset
<1> QED
  BY <1>2, FS_CardinalityType

LEMMA BlankRow == Blank \in Rows
  BY DEF Blank, Rows

LEMMA DefaultTable ==
  ASSUME today \in FirstDay..LastMonth
  PROVE  /\ IsTable(BuildDefaultMonths) /\ DOMAIN BuildDefaultMonths # {}
         /\ Cardinality(DOMAIN BuildDefaultMonths) = Window
<1> DEFINE D == (today - Window + 1)..today
<1>1. D \in SUBSET Months /\ D # {} /\ Cardinality(D) = Window
  <2>1. D \subseteq Months /\ today \in D
    BY CalendarAssumption DEF Months
  <2>2. Cardinality(D) = Window
    BY CalendarAssumption, FS_Interval
  <2> QED
    BY <2>1, <2>2
<1>2. BuildDefaultMonths = [m \in D |-> Blank]
  BY DEF BuildDefaultMonths
<1> HIDE DEF D
<1>3. BuildDefaultMonths \in [D -> Rows]
  BY <1>2, BlankRow
<1> QED
  BY <1>1, <1>3, IsTableIf

LEMMA SpanishNumber == ASSUME NEW x, Amount(x) PROVE ParseSpanishNumber(x) \in Int
  BY DEF Amount, ParseSpanishNumber

(* What an invoice that is not complained of has.                          *)
LEMMA Complete ==
  ASSUME NEW f \in Files, Complaint(f) = "none"
  PROVE  /\ f.rows # None
         /\ \A k \in {"peak", "mid", "valley"} :
              /\ Amount(f.rows[k]) /\ f.rows[k].comma
              /\ ExtractConsumption(f)[k] = ParseSpanishNumber(f.rows[k])
         /\ \A k \in Powers : Amount(ExtractContractedPower(f)[k])
<1>1. ExtractContractedPower(f) # None /\ ExtractConsumption(f) # None
  BY DEF Complaint
<1>2. /\ f.rows # None
      /\ \A k \in {"peak", "mid", "valley"} : f.rows[k] # None /\ f.rows[k].comma
      /\ ExtractConsumption(f) = [k \in {"peak", "mid", "valley"} |-> ParseSpanishNumber(f.rows[k])]
  BY <1>1 DEF ExtractConsumption
<1>3. Invoice(f)
  BY FilesAssumption
<1>4. ExtractContractedPower(f) \in {f.powersA, f.powersB} \ {None}
  BY <1>1 DEF ExtractContractedPower, Coalesce
<1> QED
  BY <1>2, <1>3, <1>4 DEF Invoice

LEMMA RowFields ==
  ASSUME NEW f
  PROVE  /\ \A k \in {"peak", "mid", "valley"} : RowOf(f)[k] = ExtractConsumption(f)[k]
         /\ \A k \in Powers : RowOf(f)[k] = ParseSpanishNumber(ExtractContractedPower(f)[k])
         /\ RowOf(f)["surplus"] = ExtractSurplus(f)
         /\ RowOf(f)["iva"] = Coalesce(ExtractIVARate(f), 0)
         /\ DOMAIN RowOf(f) = Fields
  BY DEF RowOf, CellOf, Fields, Energies, Powers

LEMMA InvoiceRow ==
  ASSUME NEW f \in Files, Complaint(f) = "none" PROVE RowOf(f) \in Rows
<1>1. Invoice(f)
  BY FilesAssumption
<1>2. \A k \in {"peak", "mid", "valley"} \cup Powers : RowOf(f)[k] \in Int
  BY Complete, RowFields, SpanishNumber
<1>3. ExtractSurplus(f) \in Int
  BY <1>1, SpanishNumber DEF Invoice, ExtractSurplus, Coalesce, Number
<1>4. Coalesce(ExtractIVARate(f), 0) \in Int
  BY <1>1, SpanishNumber DEF Invoice, ExtractIVARate, Coalesce
<1>5. \A k \in Fields : RowOf(f)[k] \in Int
  BY <1>2, <1>3, <1>4, RowFields DEF Fields, Energies, Powers
<1>6. RowOf(f) = [k \in Fields |-> RowOf(f)[k]]
  BY DEF RowOf
<1> QED
  BY <1>5, <1>6 DEF Rows

(* What is put into a row, and what an edit makes of it.                   *)
LEMMA RowPut ==
  ASSUME NEW t, IsTable(t), NEW m \in DOMAIN t, NEW row \in Rows
  PROVE  LET u == [t EXCEPT ![m] = row]
         IN  /\ IsTable(u) /\ DOMAIN u = DOMAIN t /\ u[m] = row
             /\ \A i \in DOMAIN t : i # m => u[i] = t[i]
<1> DEFINE u == [t EXCEPT ![m] = row]
<1>1. t \in [DOMAIN t -> Rows] /\ DOMAIN t \in SUBSET Months
  BY TableIs
<1>2. u \in [DOMAIN t -> Rows]
  BY <1>1
<1> QED
  BY <1>1, <1>2, IsTableIf

LEMMA CellPut ==
  ASSUME NEW t, IsTable(t), NEW m \in DOMAIN t, NEW k \in Cells, NEW x \in Typed
  PROVE  \E row \in Rows : [t EXCEPT ![m][k] = Parsed(k, x)] = [t EXCEPT ![m] = row]
<1> DEFINE v == Parsed(k, x)
           row == [t[m] EXCEPT ![k] = v]
<1>1. v \in Int
  BY EditedAssumption DEF Parsed
<1>2. t[m] \in Rows /\ k \in Fields
  BY TableIs, EditedAssumption DEF Cells
<1> HIDE DEF v
<1>3. row \in Rows
  BY <1>1, <1>2 DEF Rows
<1>4. [t EXCEPT ![m][k] = v] = [t EXCEPT ![m] = row]
  OBVIOUS
<1> QED
  BY <1>3, <1>4 DEF v
-----------------------------------------------------------------------------
(* Requests *)

GivenUp(r) == [r EXCEPT !.waits = IF r.kind = "history" THEN r.waits ELSE "nobody"]
Answered(r, s, t) == [r EXCEPT !.status = s, !.table = t]

LEMMA GiveUpIs ==
  ASSUME \A r \in flight : Shaped(r)
  PROVE  /\ GiveUp(flight) = {GivenUp(r) : r \in flight}
         /\ \A r \in flight : /\ Shaped(GivenUp(r)) /\ GivenUp(r).kind = r.kind
                              /\ GivenUp(r).table = r.table /\ GivenUp(r).status = r.status
                              /\ r.kind = "history" => GivenUp(r) = r
<1>1. GiveUp(flight) = {GivenUp(r) : r \in flight}
  BY DEF GiveUp, GivenUp
<1>2. ASSUME NEW r \in flight
      PROVE  /\ Shaped(GivenUp(r)) /\ GivenUp(r).kind = r.kind
             /\ GivenUp(r).table = r.table /\ GivenUp(r).status = r.status
             /\ r.kind = "history" => GivenUp(r) = r
  <2>1. Shaped(r) /\ r = [x \in RequestFields |-> r[x]]
    BY DEF Shaped
  <2>2. GivenUp(r) = [x \in RequestFields |->
                        IF x = "waits" THEN IF r.kind = "history" THEN r.waits ELSE "nobody"
                        ELSE r[x]]
    BY <2>1 DEF GivenUp, RequestFields
  <2>3. /\ GivenUp(r).kind = r.kind /\ GivenUp(r).n = r.n
        /\ GivenUp(r).table = r.table /\ GivenUp(r).status = r.status
    BY <2>2 DEF RequestFields
  <2>4. r.kind = "history" => GivenUp(r) = r
    BY <2>1, <2>2 DEF RequestFields
  <2> QED
    BY <2>1, <2>2, <2>3, <2>4 DEF Shaped
<1> QED
  BY <1>1, <1>2

LEMMA AnsweredIs ==
  ASSUME NEW r, Shaped(r), r.kind \in {"history", "save"}, NEW s \in {"ok", "refused"}, NEW t,
         r.kind = "history" => s = "ok" /\ IsTable(t)
  PROVE  /\ Shaped(Answered(r, s, t)) /\ Answered(r, s, t).kind = r.kind
         /\ Answered(r, s, t).status = s /\ Answered(r, s, t).table = t
<1>1. r = [x \in RequestFields |-> r[x]]
  BY DEF Shaped
<1>2. Answered(r, s, t) = [x \in RequestFields |-> IF x = "status" THEN s
                                                   ELSE IF x = "table" THEN t ELSE r[x]]
  BY <1>1 DEF Answered, RequestFields
<1>3. /\ Answered(r, s, t).kind = r.kind /\ Answered(r, s, t).n = r.n
      /\ Answered(r, s, t).status = s /\ Answered(r, s, t).table = t
  BY <1>2 DEF RequestFields
<1> QED
  BY <1>2, <1>3 DEF Shaped

LEMMA SendIs ==
  ASSUME NEW kind \in {"history", "save", "simulate"}, NEW n \in Nat, NEW t,
         kind = "save" => IsTable(t)
  PROVE  /\ Shaped(Send(kind, n, t)) /\ Send(kind, n, t).kind = kind
         /\ Send(kind, n, t).status = "sent" /\ Send(kind, n, t).table = t
  BY DEF Send, Shaped, RequestFields

LEMMA ReadIs == Shaped(Read) /\ Read.kind = "history" /\ Read.status = "sent"
  BY SendIs DEF Read

(* What happens to the requests in flight.                                 *)
Sent2 == flight' = flight \cup {Send("save", clicks', table), Send("simulate", clicks', table)}
MoreRead == flight' = flight \cup {Read} /\ Of("history") = {}
Refusing(r) == r.kind = "save" /\ ~Valid(r.table)
Reply(r) == Answered(r, IF Refusing(r) THEN "refused" ELSE "ok",
                        IF r.kind = "history" THEN hist ELSE None)
Merged(r) == [m \in DOMAIN hist \cup DOMAIN r.table |->
                IF m \in DOMAIN r.table THEN r.table[m] ELSE hist[m]]
ReadAnew(r) == flight' = (flight \ ({r} \cup Of("history"))) \cup {Read}

LEMMA ServeIs ==
  ASSUME NEW r, Serve(r)
  PROVE  /\ flight' = (flight \ {r}) \cup {Reply(r)}
         /\ hist' = IF r.kind = "save" /\ ~Refusing(r) THEN Merged(r) ELSE hist
         /\ r.status = "sent" /\ r.kind \in {"history", "save"}
         /\ UNCHANGED <<today, cache, page, sources, last, counters, ghosts>>
  BY DEF Serve, Reply, Answered, Merged, Refusing

LEMMA SaveAnsweredIs ==
  ASSUME NEW r, SaveAnswered(r)
  PROVE  /\ ReadAnew(r) \/ (flight' = flight \ {r} /\ (~Mounted \/ cache.data = None))
         /\ r.kind = "save" /\ r.status = "ok"
  BY DEF SaveAnswered, ReadAnew

LEMMA MergedIs ==
  ASSUME IsTable(hist), NEW r, IsTable(r.table)
  PROVE  /\ IsTable(Merged(r)) /\ DOMAIN Merged(r) = DOMAIN hist \cup DOMAIN r.table
         /\ \A m \in DOMAIN r.table : Merged(r)[m] = r.table[m]
         /\ \A m \in DOMAIN hist \ DOMAIN r.table : Merged(r)[m] = hist[m]
<1> DEFINE t == r.table
           D == DOMAIN hist \cup DOMAIN t
<1>1. D \in SUBSET Months /\ hist \in [DOMAIN hist -> Rows] /\ t \in [DOMAIN t -> Rows]
  BY TableIs
<1>2. Merged(r) \in [D -> Rows]
  BY <1>1 DEF Merged
<1> QED
  BY <1>1, <1>2, IsTableIf DEF Merged

(* Reads and requests of the right shape, after each of these.             *)
LEMMA FlightStep ==
  ASSUME TypeInv, [Next]_vars
  PROVE  \/ flight' = flight
         \/ HandleAnnualSimulate /\ Sent2
         \/ Leave /\ flight' = GiveUp(flight)
         \/ (Mount \/ Refetch) /\ MoreRead
         \/ \E r \in flight : /\ Serve(r) \/ Receive(r)
                              /\ \/ Serve(r) /\ flight' = (flight \ {r}) \cup {Reply(r)}
                                 \/ SaveAnswered(r) /\ ReadAnew(r)
                                 \/ Receive(r) /\ flight' = flight \ {r}
<1>1. CASE User
  BY <1>1 DEF User, InvoiceUploadModal, EditCell, OpenUpload, HandleFile, AnotherFile, CloseUpload,
     HandleConfirm, HandleAnnualSimulate, HandleSelectOffer, Sent2
<1>2. CASE FileParsed \/ MonthPasses
  BY <1>2 DEF FileParsed, MonthPasses
<1>3. CASE Leave \/ Refetch
  BY <1>3 DEF Leave, Refetch, MoreRead
<1>4. CASE Mount
  BY <1>4 DEF Mount, MoreRead
<1>5. ASSUME NEW r \in flight, Serve(r) PROVE flight' = (flight \ {r}) \cup {Reply(r)}
  BY <1>5, ServeIs
<1>6. ASSUME NEW r \in flight, SaveAnswered(r) PROVE ReadAnew(r) \/ flight' = flight \ {r}
  BY <1>6, SaveAnsweredIs
<1>7. ASSUME NEW r \in flight, HistoryAnswered(r) \/ SimulationAnswered(r) \/ RequestFailed(r)
      PROVE  flight' = flight \ {r}
  BY <1>7 DEF HistoryAnswered, SimulationAnswered, RequestFailed
<1>8. CASE UNCHANGED vars
  BY <1>8 DEF vars
<1>9. CASE \E r \in flight : Serve(r) \/ Receive(r)
  BY <1>5, <1>6, <1>7, <1>9 DEF Receive
<1> QED
  BY <1>1, <1>2, <1>3, <1>4, <1>8, <1>9 DEF Next

LEMMA FlightInvStep ==
  ASSUME TypeInv, [Next]_vars PROVE (\A r \in flight' : Shaped(r)) /\ OneRead'
<1>0. IsTable(hist) /\ (\A r \in flight : Shaped(r)) /\ OneRead
  BY DEF TypeInv
<1>1. CASE flight' = flight
  BY <1>0, <1>1 DEF OneRead, Of
<1>2. CASE HandleAnnualSimulate /\ Sent2
  <2>1. clicks' \in Nat /\ IsTable(table)
    BY <1>2 DEF HandleAnnualSimulate, TypeInv, PageInv
  <2> DEFINE a == Send("save", clicks', table)
             b == Send("simulate", clicks', table)
  <2>2. Shaped(a) /\ Shaped(b) /\ a.kind = "save" /\ b.kind = "simulate"
    BY <2>1, SendIs
  <2>3. flight' = flight \cup {a, b}
    BY <1>2 DEF Sent2
  <2> HIDE DEF a, b
  <2> QED
    BY <1>0, <2>2, <2>3 DEF OneRead, Of
<1>3. CASE flight' = GiveUp(flight)
  BY <1>0, <1>3, GiveUpIs DEF OneRead, Of
<1>4. CASE MoreRead
  BY <1>0, <1>4, ReadIs DEF OneRead, Of, MoreRead
<1>5. ASSUME NEW r \in flight, Serve(r), flight' = (flight \ {r}) \cup {Reply(r)}
      PROVE  (\A q \in flight' : Shaped(q)) /\ OneRead'
  <2>1. r.kind \in {"history", "save"}
    BY <1>5, ServeIs
  <2>2. Shaped(Reply(r)) /\ Reply(r).kind = r.kind
    BY <1>0, <2>1, AnsweredIs DEF Reply, Refusing
  <2> QED
    BY <1>0, <1>5, <2>2 DEF OneRead, Of
<1>6. ASSUME NEW r \in flight, ReadAnew(r) PROVE (\A q \in flight' : Shaped(q)) /\ OneRead'
  BY <1>0, <1>6, ReadIs DEF ReadAnew, OneRead, Of
<1>7. ASSUME NEW r \in flight, flight' = flight \ {r}
      PROVE  (\A q \in flight' : Shaped(q)) /\ OneRead'
  BY <1>0, <1>7 DEF OneRead, Of
<1> QED
  BY <1>1, <1>2, <1>3, <1>4, <1>5, <1>6, <1>7, FlightStep
-----------------------------------------------------------------------------
(* Type correctness *)

LEMMA CacheInvStep == ASSUME TypeInv, [Next]_vars PROVE CacheInv'
<1>0. CacheInv
  BY DEF TypeInv
<1>1. CASE cache' = cache
  BY <1>0, <1>1 DEF CacheInv
<1>2. ASSUME NEW r \in flight, HistoryAnswered(r) PROVE CacheInv'
  <2>1. IsTable(r.table) /\ cache' = [data |-> r.table, ok |-> TRUE, stale |-> FALSE]
    BY <1>2 DEF HistoryAnswered, TypeInv, Shaped
  <2> QED
    BY <2>1, TableIs DEF CacheInv
<1>3. ASSUME NEW r \in flight, SaveAnswered(r) PROVE CacheInv'
  <2>1. cache' = [data |-> cache.data, ok |-> cache.ok, stale |-> TRUE]
    BY <1>0, <1>3 DEF SaveAnswered, CacheInv
  <2>2. cache'.data = cache.data /\ cache'.ok = cache.ok /\ cache'.stale = TRUE
    BY <2>1
  <2> QED
    BY <1>0, <2>1, <2>2 DEF CacheInv
<1>4. ASSUME NEW r \in flight, RequestFailed(r) PROVE CacheInv'
  <2>1. cache' = cache \/ cache' = [data |-> cache.data, ok |-> FALSE, stale |-> cache.stale]
    BY <1>0, <1>4 DEF RequestFailed, CacheInv
  <2>2. \/ cache' = cache
        \/ cache'.data = cache.data /\ cache'.ok = FALSE /\ cache'.stale = cache.stale
    BY <2>1
  <2>3. CASE cache' # cache
    BY <1>0, <2>1, <2>2, <2>3 DEF CacheInv
  <2> QED
    BY <1>1, <2>3
<1>5. CASE UNCHANGED vars
  BY <1>1, <1>5 DEF vars
<1>6. CASE User \/ FileParsed \/ Leave \/ Mount \/ Refetch \/ MonthPasses
  BY <1>1, <1>6 DEF User, InvoiceUploadModal, EditCell, OpenUpload, HandleFile, AnotherFile,
     CloseUpload, HandleConfirm, HandleAnnualSimulate, HandleSelectOffer, FileParsed, Leave,
     Mount, Refetch, MonthPasses
<1>7. ASSUME NEW r \in flight, Serve(r) \/ SimulationAnswered(r) PROVE CacheInv'
  BY <1>1, <1>7 DEF Serve, SimulationAnswered
<1> QED
  BY <1>2, <1>3, <1>4, <1>5, <1>6, <1>7 DEF Next, Receive

(* The table stays one, and stays there if it was.                         *)
TableInv == Mounted => IsTable(table) /\ DOMAIN table # {}

LEMMA ImportIs ==
  ASSUME TypeInv, HandleConfirm
  PROVE  LET f == upload.file
         IN  /\ Mounted /\ f \in Files /\ Complaint(f) = "none" /\ RowOf(f) \in Rows
             /\ upload' = Closed /\ reading' = {}
             /\ UNCHANGED <<today, hist, cache, flight, mine, picked, last, counters, hasty>>
             /\ \/ /\ f.period \in DOMAIN table /\ table' = [table EXCEPT ![f.period] = RowOf(f)]
                   /\ Change(f.period, "pdf") /\ warning' = FALSE
                \/ /\ f.period \notin DOMAIN table /\ warning'
                   /\ UNCHANGED <<table, sources, drafts, lost>>
<1>1. upload.file \in Files /\ Complaint(upload.file) = "none" /\ upload # Closed
  BY DEF HandleConfirm, TypeInv, PageInv, Closed
<1>2. Mounted /\ RowOf(upload.file) \in Rows
  BY <1>1, InvoiceRow DEF TypeInv, PageInv
<1> QED
  BY <1>1, <1>2 DEF HandleConfirm, HandleInvoiceImport

LEMMA EditIs ==
  ASSUME TypeInv, EditCell
  PROVE  \E m \in DOMAIN table, row \in Rows :
           /\ Mounted /\ table' = [table EXCEPT ![m] = row] /\ Change(m, "manual")
           /\ UNCHANGED <<today, hist, cache, flight, upload, reading, warning, mine, picked,
                          last, clicks, hasty>>
<1>1. PICK m \in DOMAIN table, k \in Cells, x \in Typed :
        table' = [table EXCEPT ![m][k] = Parsed(k, x)] /\ Change(m, "manual")
  BY DEF EditCell
<1>2. Mounted /\ IsTable(table)
  BY DEF EditCell, TypeInv, PageInv
<1>3. PICK row \in Rows : [table EXCEPT ![m][k] = Parsed(k, x)] = [table EXCEPT ![m] = row]
  BY <1>2, CellPut
<1>4. table' = [table EXCEPT ![m] = row]
  BY <1>1, <1>3
<1> QED
  BY <1>1, <1>2, <1>4 DEF EditCell

LEMMA MountIs ==
  ASSUME TypeInv, Mount
  PROVE  /\ ~Mounted /\ IsTable(table') /\ DOMAIN table' # {}
         /\ IF cache.ok /\ DOMAIN cache.data # {} THEN table' = cache.data
            ELSE table' = BuildDefaultMonths
         /\ UNCHANGED <<today, hist, cache, upload, reading, warning, mine, picked, sources,
                        last, counters, ghosts>>
<1>1. cache.ok => IsTable(cache.data)
  BY DEF TypeInv, CacheInv
<1>2. cache.ok => (cache.data # <<>> <=> DOMAIN cache.data # {})
  BY <1>1, EmptyTable
<1>3. table' = IF cache.ok /\ cache.data # <<>> THEN cache.data ELSE BuildDefaultMonths
  BY DEF Mount
<1>4. IsTable(BuildDefaultMonths) /\ DOMAIN BuildDefaultMonths # {}
  BY DefaultTable DEF TypeInv
<1> QED
  BY <1>1, <1>2, <1>3, <1>4 DEF Mount

(* new: the history that has come is taken over.                           *)
Takes(t) == Mounted /\ DOMAIN t # {} /\ (~cache.ok \/ cache.data # t)
LEMMA HistoryAnsweredIs ==
  ASSUME TypeInv, NEW r \in flight, HistoryAnswered(r)
  PROVE  /\ r.kind = "history" /\ r.status = "ok" /\ IsTable(r.table) /\ flight' = flight \ {r}
         /\ cache' = [data |-> r.table, ok |-> TRUE, stale |-> FALSE]
         /\ table' = IF Takes(r.table) THEN r.table ELSE table
         /\ lost' = IF Takes(r.table) THEN lost \cup drafts ELSE lost
         /\ drafts' = IF Takes(r.table) THEN {} ELSE drafts
         /\ UNCHANGED <<today, hist, upload, reading, warning, mine, picked, sources, last,
                        counters, hasty>>
<1>1. r.kind = "history" /\ r.status = "ok" /\ IsTable(r.table)
  BY DEF HistoryAnswered, TypeInv, Shaped
<1>2. r.table # <<>> <=> DOMAIN r.table # {}
  BY <1>1, EmptyTable
<1> QED
  BY <1>1, <1>2 DEF HistoryAnswered, Takes

LEMMA TableInvStep == ASSUME TypeInv, [Next]_vars PROVE TableInv'
<1>0. TableInv
  BY DEF TypeInv, PageInv, TableInv
<1>1. CASE table' = table
  BY <1>0, <1>1 DEF TableInv, Mounted
<1>2. ASSUME NEW m \in DOMAIN table, NEW row \in Rows, Mounted,
             table' = [table EXCEPT ![m] = row]
      PROVE  TableInv'
  BY <1>0, <1>2, RowPut DEF TableInv, Mounted
<1>3. CASE EditCell
  BY <1>2, <1>3, EditIs
<1>4. CASE HandleConfirm
  BY <1>1, <1>2, <1>4, ImportIs
<1>5. CASE Leave
  BY <1>5 DEF Leave, TableInv, Mounted
<1>6. CASE Mount
  BY <1>6, MountIs DEF TableInv
<1>7. ASSUME NEW r \in flight, HistoryAnswered(r) PROVE TableInv'
  BY <1>1, <1>7, HistoryAnsweredIs DEF TableInv, Takes
<1>8. CASE \/ OpenUpload \/ HandleFile \/ AnotherFile \/ CloseUpload \/ HandleAnnualSimulate
           \/ HandleSelectOffer \/ FileParsed \/ Refetch \/ MonthPasses \/ UNCHANGED vars
  BY <1>1, <1>8 DEF OpenUpload, HandleFile, AnotherFile, CloseUpload, HandleAnnualSimulate,
     HandleSelectOffer, FileParsed, Refetch, MonthPasses, vars, page
<1>9. ASSUME NEW r \in flight,
             Serve(r) \/ SaveAnswered(r) \/ SimulationAnswered(r) \/ RequestFailed(r)
      PROVE  TableInv'
  BY <1>1, <1>9 DEF Serve, SaveAnswered, SimulationAnswered, RequestFailed, page
<1> QED
  BY <1>3, <1>4, <1>5, <1>6, <1>7, <1>8, <1>9 DEF Next, User, InvoiceUploadModal, Receive
-----------------------------------------------------------------------------
(* The rest of the page *)

ModalInv ==
  /\ upload # Closed => Mounted /\ upload.status # "closed"
  /\ upload.status = "success" => upload.file \in Files /\ Complaint(upload.file) = "none"
  /\ reading \subseteq Files /\ (reading # {} => upload # Closed)

LEMMA ModalInvStep == ASSUME TypeInv, [Next]_vars PROVE ModalInv'
<1>0. ModalInv
  BY DEF TypeInv, PageInv, ModalInv
<1>1. CASE UNCHANGED <<upload, reading>> /\ (Mounted => Mounted')
  BY <1>0, <1>1 DEF ModalInv
<1>2. CASE UNCHANGED <<upload, reading, table>>
  BY <1>1, <1>2 DEF Mounted
<1>3. CASE EditCell
  <2>1. UNCHANGED <<upload, reading>> /\ upload = Closed
    BY <1>0, <1>3 DEF EditCell, ModalInv
  <2> QED
    BY <1>0, <2>1 DEF ModalInv, Closed
<1>4. CASE HandleConfirm \/ CloseUpload \/ Leave
  BY <1>4 DEF HandleConfirm, CloseUpload, Leave, ModalInv, Closed
<1>5. CASE OpenUpload
  BY <1>0, <1>5 DEF OpenUpload, ModalInv, Mounted, Closed
<1>6. CASE HandleFile
  <2>1. /\ upload # Closed /\ UNCHANGED table
        /\ upload' = [status |-> "parsing", file |-> None] \/ upload' = [status |-> "error", file |-> None]
        /\ reading' \subseteq Files
    BY <1>0, <1>6 DEF HandleFile, DropZone, Closed, ModalInv
  <2> QED
    BY <1>0, <2>1 DEF ModalInv, Mounted, Closed
<1>7. CASE FileParsed
  <2>1. PICK f \in reading :
          /\ reading' = reading \ {f} /\ UNCHANGED table
          /\ upload' = IF Complaint(f) = "none" THEN [status |-> "success", file |-> f]
                       ELSE [status |-> "error", file |-> None]
    BY <1>7 DEF FileParsed
  <2>2. \/ Complaint(f) = "none" /\ upload'.status = "success" /\ upload'.file = f
        \/ upload'.status = "error"
    BY <2>1
  <2> QED
    BY <1>0, <2>1, <2>2 DEF ModalInv, Mounted, Closed
<1>8. CASE AnotherFile
  <2>1. upload # Closed /\ upload' = [status |-> "idle", file |-> None] /\ UNCHANGED <<reading, table>>
    BY <1>8 DEF AnotherFile, Closed
  <2> QED
    BY <1>0, <2>1 DEF ModalInv, Mounted, Closed
<1>9. CASE Mount
  BY <1>1, <1>9 DEF Mount
<1>10. ASSUME NEW r \in flight, HistoryAnswered(r) PROVE ModalInv'
  <2>1. UNCHANGED <<upload, reading>>
    BY <1>10 DEF HistoryAnswered
  <2>2. Mounted => Mounted'
    BY <1>10, HistoryAnsweredIs, TableIs DEF Mounted
  <2> QED
    BY <1>1, <2>1, <2>2
<1>11. CASE \/ HandleAnnualSimulate \/ HandleSelectOffer \/ Refetch \/ MonthPasses \/ UNCHANGED vars
  BY <1>2, <1>11 DEF HandleAnnualSimulate, HandleSelectOffer, Refetch, MonthPasses, vars, page
<1>12. ASSUME NEW r \in flight,
              Serve(r) \/ SaveAnswered(r) \/ SimulationAnswered(r) \/ RequestFailed(r)
       PROVE  ModalInv'
  BY <1>2, <1>12 DEF Serve, SaveAnswered, SimulationAnswered, RequestFailed, page
<1> QED
  BY <1>3, <1>4, <1>5, <1>6, <1>7, <1>8, <1>9, <1>10, <1>11, <1>12
     DEF Next, User, InvoiceUploadModal, Receive

ShownInv ==
  /\ mine \in Nat \cup {None} /\ last \in Nat \cup {None}
  /\ picked # NotPicked => Shown # None

LEMMA ShownInvStep == ASSUME TypeInv, [Next]_vars PROVE ShownInv'
<1>0. ShownInv
  BY DEF TypeInv, PageInv, ShownInv
<1>1. CASE UNCHANGED <<mine, last, picked>>
  BY <1>0, <1>1 DEF ShownInv, Shown
<1>2. CASE HandleAnnualSimulate \/ Leave
  BY <1>0, <1>2 DEF HandleAnnualSimulate, Leave, ShownInv
<1>3. CASE HandleSelectOffer
  BY <1>0, <1>3 DEF HandleSelectOffer, ShownInv, Shown
<1>4. ASSUME NEW r \in flight, SimulationAnswered(r) PROVE ShownInv'
  <2>1. r.n \in Nat /\ r.n # None
    BY NoneAssumption DEF TypeInv, Shaped
  <2>2. last' = r.n /\ mine' \in {r.n, mine} /\ picked' = picked
    BY <1>4 DEF SimulationAnswered
  <2> QED
    BY <1>0, <2>1, <2>2 DEF ShownInv, Shown
<1>5. CASE \/ EditCell \/ OpenUpload \/ InvoiceUploadModal \/ FileParsed \/ Mount \/ Refetch
           \/ MonthPasses \/ UNCHANGED vars
  BY <1>1, <1>5 DEF EditCell, OpenUpload, InvoiceUploadModal, HandleFile, AnotherFile, CloseUpload,
     HandleConfirm, FileParsed, Mount, Refetch, MonthPasses, vars, page
<1>6. ASSUME NEW r \in flight,
             Serve(r) \/ HistoryAnswered(r) \/ SaveAnswered(r) \/ RequestFailed(r)
      PROVE  ShownInv'
  BY <1>1, <1>6 DEF Serve, HistoryAnswered, SaveAnswered, RequestFailed, page
<1> QED
  BY <1>2, <1>3, <1>4, <1>5, <1>6 DEF Next, User, Receive

LEMMA SourcesStep ==
  ASSUME TypeInv, [Next]_vars PROVE sources' \in [Months -> {"none", "pdf", "manual"}]
<1>0. sources \in [Months -> {"none", "pdf", "manual"}]
  BY DEF TypeInv
<1>1. CASE EditCell \/ HandleConfirm
  BY <1>0, <1>1, EditIs, ImportIs DEF Change
<1>2. CASE UNCHANGED sources
  BY <1>0, <1>2
<1>3. CASE \/ OpenUpload \/ HandleFile \/ AnotherFile \/ CloseUpload \/ HandleAnnualSimulate
           \/ HandleSelectOffer \/ FileParsed \/ Leave \/ Mount \/ Refetch \/ MonthPasses
           \/ UNCHANGED vars
  BY <1>2, <1>3 DEF OpenUpload, HandleFile, AnotherFile, CloseUpload, HandleAnnualSimulate,
     HandleSelectOffer, FileParsed, Leave, Mount, Refetch, MonthPasses, vars
<1>4. CASE \E r \in flight : Serve(r) \/ Receive(r)
  BY <1>2, <1>4 DEF Serve, Receive, HistoryAnswered, SaveAnswered, SimulationAnswered, RequestFailed
<1> QED
  BY <1>1, <1>3, <1>4 DEF Next, User, InvoiceUploadModal

LEMMA DraftsStep == ASSUME TypeInv, [Next]_vars PROVE (drafts # {} => Mounted)'
<1>0. drafts # {} => Mounted
  BY DEF TypeInv, PageInv
<1>1. CASE drafts' = {}
  BY <1>1
<1>2. CASE EditCell
  BY <1>2, EditIs, RowPut, TableIs DEF Mounted, TypeInv, PageInv
<1>3. CASE HandleConfirm
  <2>1. table' # None
    <3>1. IsTable(table) /\ Mounted
      BY <1>3, ImportIs DEF TypeInv, PageInv
    <3>2. \/ table' = table
          \/ \E m \in DOMAIN table, row \in Rows : table' = [table EXCEPT ![m] = row]
      BY <1>3, ImportIs
    <3>3. IsTable(table')
      BY <3>1, <3>2, RowPut
    <3> QED
      BY <3>3, TableIs
  <2> QED
    BY <2>1 DEF Mounted
<1>4. CASE HandleAnnualSimulate \/ Leave
  BY <1>1, <1>4 DEF HandleAnnualSimulate, Leave
<1>5. CASE Mount
  BY <1>0, <1>5, MountIs DEF ghosts
<1>6. ASSUME NEW r \in flight, HistoryAnswered(r) PROVE (drafts # {} => Mounted)'
  BY <1>0, <1>6, HistoryAnsweredIs, TableIs DEF Mounted
<1>7. CASE UNCHANGED <<drafts, table>>
  BY <1>0, <1>7 DEF Mounted
<1>8. CASE \/ OpenUpload \/ HandleFile \/ AnotherFile \/ CloseUpload \/ HandleSelectOffer
           \/ FileParsed \/ Refetch \/ MonthPasses \/ UNCHANGED vars
  BY <1>7, <1>8 DEF OpenUpload, HandleFile, AnotherFile, CloseUpload, HandleSelectOffer,
     FileParsed, Refetch, MonthPasses, vars, ghosts, page
<1>9. ASSUME NEW r \in flight, Serve(r) \/ SaveAnswered(r) \/ SimulationAnswered(r) \/ RequestFailed(r)
      PROVE  (drafts # {} => Mounted)'
  BY <1>7, <1>9 DEF Serve, SaveAnswered, SimulationAnswered, RequestFailed, ghosts, page
<1> QED
  BY <1>2, <1>3, <1>4, <1>5, <1>6, <1>8, <1>9 DEF Next, User, InvoiceUploadModal, Receive

LEMMA TypeInvStep == TypeInv /\ [Next]_vars => TypeInv'
<1> SUFFICES ASSUME TypeInv, [Next]_vars PROVE TypeInv'
  OBVIOUS
<1>1. today' \in FirstDay..LastMonth
  <2>1. today' = today \/ (today < LastMonth /\ today' = today + 1)
    BY DEF Next, User, InvoiceUploadModal, EditCell, OpenUpload, HandleFile, AnotherFile,
       CloseUpload, HandleConfirm, HandleAnnualSimulate, HandleSelectOffer, FileParsed, Leave,
       Mount, Refetch, MonthPasses, Serve, Receive, HistoryAnswered, SaveAnswered,
       SimulationAnswered, RequestFailed, vars
  <2> QED
    BY <2>1, CalendarAssumption DEF TypeInv
<1>2. clicks' \in Nat
  <2>1. clicks' = clicks \/ clicks' = clicks + 1
    BY DEF Next, User, InvoiceUploadModal, EditCell, OpenUpload, HandleFile, AnotherFile,
       CloseUpload, HandleConfirm, HandleAnnualSimulate, HandleSelectOffer, FileParsed, Leave,
       Mount, Refetch, MonthPasses, Serve, Receive, HistoryAnswered, SaveAnswered,
       SimulationAnswered, RequestFailed, vars, counters
  <2> QED
    BY <2>1 DEF TypeInv
<1>3. IsTable(hist')
  <2>1. CASE hist' = hist
    BY <2>1 DEF TypeInv
  <2>2. ASSUME NEW r \in flight, Serve(r) PROVE IsTable(hist')
    <3>1. CASE r.kind = "save"
      <4>1. IsTable(r.table)
        BY <2>2, <3>1, ServeIs DEF TypeInv, Shaped
      <4>2. IsTable(Merged(r)) /\ IsTable(hist)
        BY <4>1, MergedIs DEF TypeInv
      <4> QED
        BY <2>2, <4>2, ServeIs
    <3>2. CASE r.kind # "save"
      BY <2>1, <2>2, <3>2, ServeIs
    <3> QED
      BY <3>1, <3>2
  <2>3. hist' = hist \/ \E r \in flight : Serve(r)
    BY DEF Next, User, InvoiceUploadModal, EditCell, OpenUpload, HandleFile, AnotherFile,
       CloseUpload, HandleConfirm, HandleAnnualSimulate, HandleSelectOffer, FileParsed, Leave,
       Mount, Refetch, MonthPasses, Receive, HistoryAnswered, SaveAnswered,
       SimulationAnswered, RequestFailed, vars
  <2> QED
    BY <2>1, <2>2, <2>3
<1>4. PageInv'
  BY TableInvStep, ModalInvStep, ShownInvStep, DraftsStep DEF PageInv, TableInv, ModalInv, ShownInv
<1> QED
  BY <1>1, <1>2, <1>3, <1>4, CacheInvStep, FlightInvStep, SourcesStep DEF TypeInv

LEMMA TypeInvInit == Init => TypeInv
<1> SUFFICES ASSUME Init PROVE TypeInv
  OBVIOUS
<1>1. today \in FirstDay..LastMonth /\ IsTable(hist) /\ clicks \in Nat
  BY CalendarAssumption, SavedAssumption DEF Init
<1>2. CacheInv
  BY DEF Init, CacheInv
<1>3. TableInv
  BY <1>1, DefaultTable DEF Init, TableInv
<1>4. ModalInv
  BY DEF Init, ModalInv, Closed
<1>5. ShownInv /\ drafts = {}
  BY DEF Init, ShownInv
<1>6. (\A r \in flight : Shaped(r)) /\ OneRead
  BY ReadIs DEF Init, OneRead, Of
<1>7. sources \in [Months -> {"none", "pdf", "manual"}]
  BY DEF Init
<1>8. PageInv
  BY <1>3, <1>4, <1>5 DEF PageInv, TableInv, ModalInv, ShownInv
<1> QED
  BY <1>1, <1>2, <1>6, <1>7, <1>8 DEF TypeInv

LEMMA TypeInvariant == Spec => []TypeInv
<1> QED
  BY TypeInvInit, TypeInvStep, PTL DEF Spec

(* Every variable stays in its type: the table of Dashboard has months and *)
(* numbers only, one history is read at a time, and the modal offers to    *)
(* import only what parsePdfInvoice could read.                            *)
THEOREM TypeCorrect == Spec => []TypeOK
<1>1. TypeInv => TypeOK
  <2> SUFFICES ASSUME TypeInv PROVE TypeOK
    OBVIOUS
  <2>1. Cardinality(Of("history")) <= 1
    <3>1. CASE Of("history") = {}
      BY <3>1, FS_EmptySet
    <3>2. CASE Of("history") # {}
      <4>1. PICK r \in Of("history") : Of("history") = {r}
        BY <3>2 DEF TypeInv, OneRead
      <4> QED
        BY <4>1, FS_Singleton
    <3> QED
      BY <3>1, <3>2
  <2>2. reading # {} => upload.status # "closed"
    BY DEF TypeInv, PageInv
  <2> QED
    BY <2>1, <2>2 DEF TypeInv, CacheInv, PageInv, TypeOK
<1> QED
  BY <1>1, TypeInvariant, PTL
-----------------------------------------------------------------------------
(* What an invoice says, and what the table makes of it *)

LEMMA LegibleRow ==
  ASSUME NEW f \in Files, Complaint(f) = "none", Legible(f) PROVE RowOf(f) = Says(f)
<1>0. Invoice(f)
  BY FilesAssumption
<1>1. ASSUME NEW x, Amount(x), x.comma \/ ~x.grouped PROVE ParseSpanishNumber(x) = x.is
  BY <1>1 DEF ParseSpanishNumber
<1>2. ASSUME NEW k \in {"peak", "mid", "valley"} PROVE RowOf(f)[k] = Printed(f, k)
  <2>1. Printed(f, k) = f.rows[k].is
    BY DEF Printed, Powers
  <2> QED
    BY <1>1, <2>1, Complete, RowFields
<1>3. ASSUME NEW k \in Powers PROVE RowOf(f)[k] = Printed(f, k)
  <2> DEFINE x == ExtractContractedPower(f)[k]
  <2>1. Printed(f, k) = Is(x)
    BY DEF Printed, Powers
  <2>2. Amount(x)
    BY Complete
  <2>3. x # None
    <3>1. ExtractContractedPower(f) \in {f.powersA, f.powersB} \ {None}
      BY DEF Complaint, ExtractContractedPower, Coalesce
    <3> QED
      BY <1>0, <3>1 DEF Invoice
  <2>4. x.comma \/ ~x.grouped
    BY <2>3 DEF Legible, Powers
  <2> QED
    BY <1>1, <2>1, <2>2, <2>3, <2>4, RowFields DEF Is
<1>4. RowOf(f)["surplus"] = Printed(f, "surplus")
  <2> DEFINE x == Coalesce(f.poured, f.compensated)
  <2>1. Printed(f, "surplus") = Is(x) /\ RowOf(f)["surplus"] = Number(x)
    BY RowFields DEF Printed, Powers, ExtractSurplus
  <2>2. x # None => Amount(x) /\ (x.comma \/ ~x.grouped)
    BY <1>0 DEF Invoice, Legible, Coalesce
  <2> QED
    BY <1>1, <2>1, <2>2 DEF Is, Number
<1>5. RowOf(f)["iva"] = Printed(f, "iva")
  <2>1. Printed(f, "iva") = Is(f.iva) \div 100
    BY DEF Printed, Powers
  <2>2. RowOf(f)["iva"] = IF ExtractIVARate(f) = None THEN 0 ELSE ExtractIVARate(f)
    BY RowFields DEF Coalesce
  <2>3. CASE f.iva = None
    BY <2>1, <2>2, <2>3 DEF ExtractIVARate, Is
  <2>4. CASE f.iva # None
    <3>1. Amount(f.iva) /\ ~f.iva.grouped
      BY <1>0, <2>4 DEF Invoice
    <3>2. ExtractIVARate(f) = f.iva.is \div 100
      BY <1>1, <2>4, <3>1 DEF ExtractIVARate
    <3>3. f.iva.is \div 100 \in Int
      BY <3>1 DEF Amount
    <3>4. ExtractIVARate(f) # None
      BY <3>2, <3>3, NoneAssumption
    <3> QED
      BY <2>1, <2>2, <2>4, <3>2, <3>4 DEF Is
  <2> QED
    BY <2>3, <2>4
<1>6. \A k \in Fields : RowOf(f)[k] = Printed(f, k)
  BY <1>2, <1>3, <1>4, <1>5 DEF Fields, Energies, Powers
<1>7. \A k \in Fields : CellOf(f, k) = Printed(f, k)
  BY <1>6 DEF RowOf
<1> QED
  BY <1>7 DEF RowOf, Says

(* Only a confirmation closes the modal over a changed table.              *)
LEMMA OnlyConfirms ==
  ASSUME TypeInv, [Next]_vars, upload.status = "success", upload'.status = "closed",
         table' # None, table' # table \/ warning' # warning
  PROVE  HandleConfirm
<1>1. upload' # upload
  OBVIOUS
<1>2. ~(FileParsed \/ HandleFile \/ AnotherFile \/ OpenUpload)
  <2>1. ASSUME FileParsed PROVE upload'.status \in {"success", "error"}
    <3>1. PICK f \in reading :
            upload' = IF Complaint(f) = "none" THEN [status |-> "success", file |-> f]
                      ELSE [status |-> "error", file |-> None]
      BY <2>1 DEF FileParsed
    <3> QED
      BY <3>1
  <2>2. HandleFile => upload'.status \in {"parsing", "error"}
    BY DEF HandleFile
  <2>3. AnotherFile => upload'.status = "idle"
    BY DEF AnotherFile
  <2>4. OpenUpload => upload'.status = "idle"
    BY DEF OpenUpload
  <2> QED
    BY <2>1, <2>2, <2>3, <2>4
<1>3. ~CloseUpload /\ ~Leave
  BY DEF CloseUpload, Leave
<1>4. ~(EditCell \/ HandleAnnualSimulate \/ HandleSelectOffer \/ Mount \/ Refetch \/ MonthPasses)
  BY <1>1 DEF EditCell, HandleAnnualSimulate, HandleSelectOffer, Mount, Refetch, MonthPasses, page
<1>5. ~\E r \in flight : Serve(r) \/ Receive(r)
  BY <1>1 DEF Serve, Receive, HistoryAnswered, SaveAnswered, SimulationAnswered, RequestFailed,
     page
<1>6. vars' # vars
  BY <1>1 DEF vars, page
<1> QED
  BY <1>2, <1>3, <1>4, <1>5, <1>6 DEF Next, User, InvoiceUploadModal

LEMMA ImportStep ==
  ASSUME TypeInv, HandleConfirm, table' # table \/ warning' # warning, NEW f, f = upload.file
  PROVE  IF f.period \in DOMAIN table
           THEN /\ DOMAIN table' = DOMAIN table /\ sources'[f.period] = "pdf"
                /\ \A m \in DOMAIN table : m # f.period => table'[m] = table[m]
                /\ Legible(f) => table'[f.period] = Says(f)
           ELSE table' = table /\ sources' = sources /\ warning'
<1>1. /\ f \in Files /\ Complaint(f) = "none" /\ RowOf(f) \in Rows /\ IsTable(table)
      /\ \/ /\ f.period \in DOMAIN table /\ table' = [table EXCEPT ![f.period] = RowOf(f)]
            /\ Change(f.period, "pdf")
         \/ /\ f.period \notin DOMAIN table /\ warning'
            /\ UNCHANGED <<table, sources>>
  BY ImportIs DEF TypeInv, PageInv
<1>2. CASE f.period \in DOMAIN table
  <2>1. table' = [table EXCEPT ![f.period] = RowOf(f)] /\ Change(f.period, "pdf")
    BY <1>1, <1>2
  <2>2. /\ DOMAIN table' = DOMAIN table /\ table'[f.period] = RowOf(f)
        /\ \A m \in DOMAIN table : m # f.period => table'[m] = table[m]
    BY <1>1, <1>2, <2>1, RowPut
  <2>3. f.period \in Months
    BY <1>1, <1>2, TableIs
  <2>4. sources'[f.period] = "pdf"
    BY <2>1, <2>3 DEF Change, TypeInv
  <2>5. Legible(f) => table'[f.period] = Says(f)
    BY <1>1, <2>2, LegibleRow
  <2> QED
    BY <1>2, <2>2, <2>4, <2>5
<1>3. CASE f.period \notin DOMAIN table
  BY <1>1, <1>3
<1> QED
  BY <1>2, <1>3

(* A confirmed import (handleInvoiceImport) writes the row of the month of *)
(* the invoice, all of it and nothing else, with the amounts that          *)
(* parsePdfInvoice read, which are the printed ones if no amount with      *)
(* thousands is printed without decimals.                                  *)
THEOREM ImportsAreFaithful == Spec => ImportFaithful
<1>1. ASSUME TypeInv, [Next]_vars, upload.status = "success", upload'.status = "closed",
             table' # None, table' # table \/ warning' # warning
      PROVE  LET f == upload.file IN
             IF f.period \in DOMAIN table
               THEN /\ DOMAIN table' = DOMAIN table /\ sources'[f.period] = "pdf"
                    /\ \A m \in DOMAIN table : m # f.period => table'[m] = table[m]
                    /\ Legible(f) => table'[f.period] = Says(f)
               ELSE table' = table /\ sources' = sources /\ warning'
  BY <1>1, OnlyConfirms, ImportStep
<1>2. TypeInv /\ [Next]_vars =>
        [(/\ upload.status = "success" /\ upload'.status = "closed" /\ table' # None
          /\ (table' # table \/ warning' # warning))
         => LET f == upload.file IN
            IF f.period \in DOMAIN table
              THEN /\ DOMAIN table' = DOMAIN table /\ sources'[f.period] = "pdf"
                   /\ \A m \in DOMAIN table : m # f.period => table'[m] = table[m]
                   /\ Legible(f) => table'[f.period] = Says(f)
              ELSE table' = table /\ sources' = sources /\ warning']_vars
  BY <1>1
<1> QED
  BY <1>2, TypeInvariant, PTL DEF Spec, ImportFaithful
-----------------------------------------------------------------------------
(* The breakdown *)

LEMMA PickedInvStep == TypeInv /\ PickedInv /\ [Next]_vars => PickedInv'
<1> SUFFICES ASSUME TypeInv, PickedInv, [Next]_vars PROVE PickedInv'
  OBVIOUS
<1>1. CASE picked' = NotPicked
  BY <1>1 DEF PickedInv
<1>2. CASE HandleSelectOffer
  <2>1. /\ picked' = NotPicked \/ picked' = [of |-> Shown, hurried |-> Of("simulate") # {}]
        /\ UNCHANGED <<mine, last, flight>>
    BY <1>2 DEF HandleSelectOffer
  <2>2. CASE picked' = [of |-> Shown, hurried |-> Of("simulate") # {}]
    <3>1. picked'.of = Shown /\ (picked'.hurried <=> Of("simulate") # {})
      BY <2>2
    <3>2. Shown' = Shown /\ Of("simulate")' = Of("simulate")
      BY <2>1 DEF Shown, Of
    <3> QED
      BY <3>1, <3>2 DEF PickedInv
  <2> QED
    BY <1>1, <2>1, <2>2
<1>3. CASE HandleAnnualSimulate \/ Leave
  BY <1>1, <1>3 DEF HandleAnnualSimulate, Leave
<1>4. CASE /\ UNCHANGED <<picked, mine, last>> /\ \A q \in flight' : q.kind = "simulate" => q \in flight
  <2>1. Shown' = Shown /\ Of("simulate")' \subseteq Of("simulate")
    BY <1>4 DEF Shown, Of
  <2> QED
    BY <1>4, <2>1 DEF PickedInv
<1>5. CASE flight' = flight /\ UNCHANGED <<picked, mine, last>>
  BY <1>4, <1>5
<1>6. CASE Mount \/ Refetch
  <2>1. UNCHANGED <<picked, mine, last>> /\ (flight' = flight \/ flight' = flight \cup {Read})
    BY <1>6 DEF Mount, Refetch, page
  <2> QED
    BY <1>4, <2>1, ReadIs
<1>7. ASSUME NEW r \in flight, SimulationAnswered(r) PROVE PickedInv'
  <2>1. r \in Of("simulate") /\ picked' = picked
    BY <1>7 DEF SimulationAnswered, Of
  <2> QED
    BY <2>1 DEF PickedInv
<1>8. ASSUME NEW r \in flight, Serve(r) PROVE PickedInv'
  <2>1. /\ flight' = (flight \ {r}) \cup {Reply(r)} /\ UNCHANGED <<picked, mine, last>>
        /\ r.kind \in {"history", "save"}
    BY <1>8, ServeIs DEF page
  <2>2. Reply(r).kind = r.kind
    BY <2>1, AnsweredIs DEF Reply, Refusing, TypeInv
  <2> QED
    BY <1>4, <2>1, <2>2
<1>9. ASSUME NEW r \in flight, HistoryAnswered(r) \/ SaveAnswered(r) \/ RequestFailed(r)
      PROVE  PickedInv'
  <2>1. UNCHANGED <<picked, mine, last>>
    BY <1>9 DEF HistoryAnswered, SaveAnswered, RequestFailed, page
  <2>2. flight' = flight \ {r} \/ ReadAnew(r)
    BY <1>9, SaveAnsweredIs DEF HistoryAnswered, RequestFailed
  <2> QED
    BY <1>4, <2>1, <2>2, ReadIs DEF ReadAnew
<1>10. CASE \/ EditCell \/ OpenUpload \/ InvoiceUploadModal \/ FileParsed \/ MonthPasses
            \/ UNCHANGED vars
  BY <1>5, <1>10 DEF EditCell, OpenUpload, InvoiceUploadModal, HandleFile, AnotherFile, CloseUpload,
     HandleConfirm, FileParsed, MonthPasses, vars, page
<1> QED
  BY <1>2, <1>3, <1>6, <1>7, <1>8, <1>9, <1>10 DEF Next, User, Receive

(* The breakdown that stays open is one of the simulation on screen: a new *)
(* one (handleAnnualSimulate) closes it, and so does leaving the page,     *)
(* save a line clicked while a simulation is under way.                    *)
THEOREM BreakdownIsCurrent == Spec => []BreakdownCurrent
<1>1. Init => PickedInv
  BY DEF Init, PickedInv
<1>2. PickedInv => BreakdownCurrent
  BY DEF PickedInv, BreakdownCurrent
<1> QED
  BY <1>1, <1>2, TypeInvariant, PickedInvStep, PTL DEF Spec
-----------------------------------------------------------------------------
(* The table follows what was read *)

LEMMA BadgesGrow ==
  ASSUME TypeInv, [Next]_vars, NEW m \in Months, sources[m] # "none" PROVE sources'[m] # "none"
<1>1. CASE UNCHANGED sources
  BY <1>1
<1>2. CASE EditCell \/ HandleConfirm
  BY <1>2, EditIs, ImportIs DEF Change, TypeInv
<1>3. CASE \/ OpenUpload \/ HandleFile \/ AnotherFile \/ CloseUpload \/ HandleAnnualSimulate
           \/ HandleSelectOffer \/ FileParsed \/ Leave \/ Mount \/ Refetch \/ MonthPasses
           \/ UNCHANGED vars
  BY <1>1, <1>3 DEF OpenUpload, HandleFile, AnotherFile, CloseUpload, HandleAnnualSimulate,
     HandleSelectOffer, FileParsed, Leave, Mount, Refetch, MonthPasses, vars
<1>4. CASE \E r \in flight : Serve(r) \/ Receive(r)
  BY <1>1, <1>4 DEF Serve, Receive, HistoryAnswered, SaveAnswered, SimulationAnswered, RequestFailed
<1> QED
  BY <1>2, <1>3, <1>4 DEF Next, User, InvoiceUploadModal

(* An edit or a confirmed import, if it changes the table.                 *)
Puts(m, row, source) ==
  /\ Mounted /\ m \in DOMAIN table /\ row \in Rows /\ table' = [table EXCEPT ![m] = row]
  /\ source \in {"pdf", "manual"} /\ Change(m, source)
  /\ source = "pdf" => row \in Invoices(m)
  /\ UNCHANGED <<today, hist, cache, flight, mine, picked, last, clicks, hasty>>

LEMMA PutsIs ==
  ASSUME TypeInv, EditCell \/ HandleConfirm
  PROVE  \/ \E m \in DOMAIN table, row \in Rows, source \in {"pdf", "manual"} : Puts(m, row, source)
         \/ UNCHANGED <<today, hist, cache, flight, table, mine, picked, last, clicks, ghosts,
                        sources>>
<1>1. CASE EditCell
  BY <1>1, EditIs DEF Puts
<1>2. CASE HandleConfirm
  <2> DEFINE f == upload.file
  <2>1. /\ Mounted /\ f \in Files /\ Complaint(f) = "none" /\ RowOf(f) \in Rows
        /\ UNCHANGED <<today, hist, cache, flight, mine, picked, last, counters, hasty>>
        /\ \/ /\ f.period \in DOMAIN table /\ table' = [table EXCEPT ![f.period] = RowOf(f)]
              /\ Change(f.period, "pdf")
           \/ UNCHANGED <<table, sources, drafts, lost>>
    BY <1>2, ImportIs
  <2>2. RowOf(f) \in Invoices(f.period)
    BY <2>1 DEF Invoices
  <2>3. CASE f.period \in DOMAIN table /\ Change(f.period, "pdf")
                /\ table' = [table EXCEPT ![f.period] = RowOf(f)]
    BY <2>1, <2>2, <2>3 DEF Puts, counters
  <2>4. CASE UNCHANGED <<table, sources, drafts, lost>>
    BY <2>1, <2>4 DEF ghosts, counters
  <2> QED
    BY <2>1, <2>3, <2>4
<1> QED
  BY <1>1, <1>2

LEMMA PutsFields ==
  ASSUME TypeInv, NEW m, NEW row, NEW source, Puts(m, row, source)
  PROVE  /\ Mounted' /\ m \in Months /\ DOMAIN table' = DOMAIN table /\ table'[m] = row
         /\ \A i \in DOMAIN table : i # m => table'[i] = table[i]
         /\ sources'[m] = source /\ \A i \in Months : i # m => sources'[i] = sources[i]
         /\ drafts' = drafts \cup {m} /\ lost' = lost \ {m}
<1>1. IsTable(table) /\ m \in DOMAIN table /\ row \in Rows /\ table' = [table EXCEPT ![m] = row]
  BY DEF Puts, TypeInv, PageInv
<1>2. IsTable(table') /\ DOMAIN table' = DOMAIN table /\ table'[m] = row
      /\ \A i \in DOMAIN table : i # m => table'[i] = table[i]
  BY <1>1, RowPut
<1>3. m \in Months
  BY <1>1, TableIs
<1>4. table' # None
  BY <1>2, TableIs
<1> QED
  BY <1>2, <1>3, <1>4 DEF Puts, Change, TypeInv, Mounted

(* Steps that leave table, drafts, badges and what was read as they are.   *)
Still == /\ UNCHANGED <<table, drafts, lost, sources>>
         /\ cache'.data = cache.data /\ (cache'.ok => cache.ok)

LEMMA StillSteps ==
  ASSUME TypeInv, [Next]_vars
  PROVE  \/ Still
         \/ \E m \in DOMAIN table, row \in Rows, source \in {"pdf", "manual"} : Puts(m, row, source)
         \/ HandleAnnualSimulate \/ Leave \/ Mount
         \/ \E r \in flight : HistoryAnswered(r)
<1>1. ASSUME UNCHANGED <<table, drafts, lost, sources, cache>> PROVE Still
  BY <1>1 DEF Still
<1>2. CASE EditCell \/ HandleConfirm
  BY <1>1, <1>2, PutsIs DEF ghosts
<1>3. CASE \/ OpenUpload \/ HandleFile \/ AnotherFile \/ CloseUpload \/ HandleSelectOffer
           \/ FileParsed \/ Refetch \/ MonthPasses \/ UNCHANGED vars
  BY <1>1, <1>3 DEF OpenUpload, HandleFile, AnotherFile, CloseUpload, HandleSelectOffer,
     FileParsed, Refetch, MonthPasses, vars, page, ghosts
<1>4. ASSUME NEW r \in flight, Serve(r) \/ SimulationAnswered(r) PROVE Still
  <2>1. CASE Serve(r)
    BY <1>1, <2>1, ServeIs DEF page, ghosts
  <2>2. CASE SimulationAnswered(r)
    BY <1>1, <2>2 DEF SimulationAnswered, ghosts
  <2> QED
    BY <1>4, <2>1, <2>2
<1>5. ASSUME NEW r \in flight, SaveAnswered(r) PROVE Still
  <2>1. UNCHANGED <<table, drafts, lost, sources>> /\ cache' = [cache EXCEPT !.stale = TRUE]
    BY <1>5 DEF SaveAnswered, page, ghosts
  <2>2. cache = [data |-> cache.data, ok |-> cache.ok, stale |-> cache.stale]
    BY DEF TypeInv, CacheInv
  <2>3. cache'.data = cache.data /\ cache'.ok = cache.ok
    BY <2>1, <2>2
  <2> QED
    BY <2>1, <2>3 DEF Still
<1>6. ASSUME NEW r \in flight, RequestFailed(r) PROVE Still
  <2>1. /\ UNCHANGED <<table, drafts, lost, sources>>
        /\ cache' = cache \/ cache' = [cache EXCEPT !.ok = FALSE]
    BY <1>6 DEF RequestFailed, page, ghosts
  <2>2. cache = [data |-> cache.data, ok |-> cache.ok, stale |-> cache.stale]
    BY DEF TypeInv, CacheInv
  <2>3. CASE cache' = [cache EXCEPT !.ok = FALSE]
    <3>1. cache'.data = cache.data /\ cache'.ok = FALSE
      BY <2>2, <2>3
    <3> QED
      BY <2>1, <3>1 DEF Still
  <2>4. CASE cache' = cache
    BY <1>1, <2>1, <2>4
  <2> QED
    BY <2>1, <2>3, <2>4
<1> QED
  BY <1>2, <1>3, <1>4, <1>5, <1>6 DEF Next, User, InvoiceUploadModal, Receive

LEMMA FollowInvStep == TypeInv /\ FollowInv /\ [Next]_vars => FollowInv'
<1> SUFFICES ASSUME TypeInv, FollowInv, [Next]_vars, Followed'
             PROVE  /\ DOMAIN table' = DOMAIN cache'.data
                    /\ \A m \in DOMAIN table' : table'[m] # cache'.data[m] => sources'[m] # "none"
  BY DEF FollowInv
<1>1. CASE Still
  <2>1. Followed
    BY <1>1 DEF Still, Followed, Mounted
  <2> QED
    BY <1>1, <2>1 DEF FollowInv, Still
<1>2. ASSUME NEW m \in DOMAIN table, NEW row \in Rows, NEW source \in {"pdf", "manual"},
             Puts(m, row, source)
      PROVE  /\ DOMAIN table' = DOMAIN cache'.data
             /\ \A i \in DOMAIN table' : table'[i] # cache'.data[i] => sources'[i] # "none"
  <2>1. Followed /\ cache' = cache
    BY <1>2 DEF Puts, Followed
  <2>2. \A i \in DOMAIN table : i \in Months
    BY <1>2, TableIs DEF Puts, TypeInv, PageInv
  <2> QED
    BY <1>2, <2>1, <2>2, PutsFields DEF FollowInv
<1>3. CASE HandleAnnualSimulate
  BY <1>3 DEF HandleAnnualSimulate, FollowInv, Followed, Mounted
<1>4. CASE Leave
  BY <1>4 DEF Leave, Followed, Mounted
<1>5. CASE Mount
  BY <1>5, MountIs DEF Followed
<1>6. ASSUME NEW r \in flight, HistoryAnswered(r)
      PROVE  /\ DOMAIN table' = DOMAIN cache'.data
             /\ \A m \in DOMAIN table' : table'[m] # cache'.data[m] => sources'[m] # "none"
  <2>1. CASE Takes(r.table)
    BY <1>6, <2>1, HistoryAnsweredIs
  <2>2. CASE ~Takes(r.table)
    <3>1. table' = table /\ cache'.data = r.table /\ sources' = sources
      BY <1>6, <2>2, HistoryAnsweredIs
    <3>2. Mounted /\ cache.ok /\ cache.data = r.table /\ DOMAIN r.table # {}
      BY <2>2, <3>1 DEF Takes, Followed, Mounted
    <3> QED
      BY <3>1, <3>2 DEF FollowInv, Followed
  <2> QED
    BY <2>1, <2>2
<1> QED
  BY <1>1, <1>2, <1>3, <1>4, <1>5, <1>6, StillSteps
-----------------------------------------------------------------------------
(* Reads and saves among the requests, step by step *)

LEMMA HastyStays ==
  ASSUME [Next]_vars, hasty PROVE hasty'
  BY DEF Next, User, InvoiceUploadModal, EditCell, OpenUpload, HandleFile, AnotherFile,
     CloseUpload, HandleConfirm, HandleAnnualSimulate, HandleSelectOffer, FileParsed, Leave,
     Mount, Refetch, MonthPasses, Serve, Receive, HistoryAnswered, SaveAnswered,
     SimulationAnswered, RequestFailed, vars, ghosts

LEMMA ClickIs ==
  ASSUME TypeInv, HandleAnnualSimulate, ~hasty'
  PROVE  /\ Mounted /\ cache.ok /\ Of("history") = {} /\ Of("save") = {} /\ Saving = {}
         /\ Of("history")' = {} /\ Saving' = Of("save")' /\ Of("save")' # {}
         /\ \A s, t \in Of("save")' : s = t
         /\ \A s \in Of("save")' : s.table = table
         /\ UNCHANGED <<hist, cache, table, sources, lost>> /\ drafts' = {}
<1> DEFINE a == Send("save", clicks', table)
           b == Send("simulate", clicks', table)
<1>0. Known
  BY Zenon DEF HandleAnnualSimulate
<1>1. /\ Mounted /\ flight' = flight \cup {a, b} /\ clicks' \in Nat /\ IsTable(table)
      /\ UNCHANGED <<hist, cache, table, sources, lost>> /\ drafts' = {} /\ Known
  BY <1>0 DEF HandleAnnualSimulate, TypeInv, PageInv
<1>2. a.kind = "save" /\ a.table = table /\ a.status = "sent" /\ b.kind = "simulate"
  BY <1>1, SendIs
<1> HIDE DEF a, b
<1>3. Of("history") = {} /\ Of("save") = {} /\ cache.ok
  BY <1>1 DEF Known
<1>4. Of("history")' = {} /\ Of("save")' = {a}
  BY <1>1, <1>2, <1>3 DEF Of
<1>5. Saving' = {a} /\ Saving = {}
  BY <1>2, <1>3, <1>4 DEF Saving
<1> QED
  BY <1>1, <1>2, <1>3, <1>4, <1>5

LEMMA LeaveIs ==
  ASSUME TypeInv, Leave, ~hasty'
  PROVE  /\ Of("save") = {} /\ Of("save")' = {} /\ Of("history")' = Of("history")
         /\ ~Mounted' /\ UNCHANGED <<hist, cache, sources>>
         /\ lost' = lost \cup drafts /\ drafts' = {}
<1>1. /\ Of("save") = {} /\ flight' = GiveUp(flight) /\ ~Mounted'
      /\ UNCHANGED <<hist, cache, sources>> /\ lost' = lost \cup drafts /\ drafts' = {}
  BY DEF Leave, Mounted
<1>2. Of("history")' = Of("history") /\ Of("save")' = {}
  BY <1>1, GiveUpIs DEF TypeInv, Of
<1> QED
  BY <1>1, <1>2

(* The page is mounted, or the window gets the focus.                      *)
LEMMA ReadSent ==
  ASSUME MoreRead
  PROVE  Of("save")' = Of("save") /\ Of("history")' = {Read}
  BY ReadIs DEF MoreRead, Of

LEMMA MountSends ==
  ASSUME Mount PROVE MoreRead \/ flight' = flight
  BY DEF Mount, MoreRead

LEMMA ServeReadIs ==
  ASSUME TypeInv, NEW r \in flight, Serve(r), r.kind = "history"
  PROVE  /\ Of("save")' = Of("save") /\ Of("history")' # {}
         /\ \A q \in Of("history")' : q.status = "ok" /\ q.table = hist
         /\ UNCHANGED <<hist, cache, page, sources, ghosts>>
<1>1. /\ flight' = (flight \ {r}) \cup {Reply(r)} /\ hist' = hist
      /\ UNCHANGED <<hist, cache, page, sources, ghosts>>
  BY ServeIs
<1>2. Reply(r).kind = "history" /\ Reply(r).status = "ok" /\ Reply(r).table = hist
  BY AnsweredIs DEF Reply, Refusing, TypeInv
<1>3. Of("history") = {r}
  BY DEF TypeInv, OneRead, Of
<1>4. Of("history")' = {Reply(r)} /\ Of("save")' = Of("save")
  BY <1>1, <1>2, <1>3 DEF Of
<1> QED
  BY <1>1, <1>2, <1>4

LEMMA ServeSaveIs ==
  ASSUME TypeInv, NEW r \in flight, Serve(r), r.kind = "save", \A q, s \in Of("save") : q = s
  PROVE  /\ Saving = {r} /\ Of("save") = {r} /\ ~Refused /\ ~Unread
         /\ Saving' = {} /\ Of("save")' # {} /\ \A q, s \in Of("save")' : q = s
         /\ Of("history")' = Of("history") /\ IsTable(r.table)
         /\ \/ hist' = hist /\ Refused'
            \/ hist' = Merged(r) /\ Unread'
         /\ UNCHANGED <<cache, page, sources, ghosts>>
<1>1. /\ flight' = (flight \ {r}) \cup {Reply(r)} /\ r.status = "sent"
      /\ hist' = IF ~Refusing(r) THEN Merged(r) ELSE hist
      /\ UNCHANGED <<cache, page, sources, ghosts>>
  BY ServeIs
<1>2. Reply(r).kind = "save" /\ Reply(r).status = IF Refusing(r) THEN "refused" ELSE "ok"
  BY AnsweredIs DEF Reply, TypeInv
<1>3. Of("save") = {r} /\ Saving = {r} /\ IsTable(r.table)
  BY <1>1 DEF TypeInv, Shaped, Of, Saving
<1>4. Of("save")' = {Reply(r)} /\ Of("history")' = Of("history")
  BY <1>1, <1>2, <1>3 DEF Of
<1>5. ~Refused /\ ~Unread
  BY <1>1, <1>3 DEF Refused, Unread
<1>6. Saving' = {}
  BY <1>2, <1>4 DEF Saving
<1>7. Refusing(r) => Refused'
  BY <1>2, <1>4 DEF Refused
<1>8. ~Refusing(r) => Unread'
  BY <1>2, <1>4 DEF Unread
<1> QED
  BY <1>1, <1>3, <1>4, <1>5, <1>6, <1>7, <1>8

LEMMA ReadComes ==
  ASSUME TypeInv, NEW r \in flight, HistoryAnswered(r)
  PROVE  Of("save")' = Of("save") /\ Of("history")' = {} /\ r \in Of("history")
<1>1. r.kind = "history" /\ flight' = flight \ {r}
  BY HistoryAnsweredIs
<1> QED
  BY <1>1 DEF TypeInv, OneRead, Of

LEMMA SaveComes ==
  ASSUME TypeInv, NEW r \in flight, SaveAnswered(r), \A q, s \in Of("save") : q = s,
         Of("save") # {} => Mounted /\ cache.data # None
  PROVE  /\ Of("save") = {r} /\ r.status = "ok" /\ Of("save")' = {} /\ Of("history")' = {Read}
         /\ UNCHANGED <<hist, page, sources, ghosts>> /\ cache' = [cache EXCEPT !.stale = TRUE]
<1>1. r.kind = "save" /\ r.status = "ok" /\ Of("save") = {r}
  BY SaveAnsweredIs DEF Of
<1>2. ReadAnew(r)
  BY <1>1, SaveAnsweredIs
<1>3. Of("save")' = {} /\ Of("history")' = {Read}
  BY <1>1, <1>2, ReadIs DEF ReadAnew, Of
<1> QED
  BY <1>1, <1>3 DEF SaveAnswered

LEMMA FailureIs ==
  ASSUME TypeInv, NEW r \in flight, RequestFailed(r), ~hasty'
  PROVE  /\ Of("save")' = Of("save")
         /\ UNCHANGED <<hist, page, sources, drafts, lost>>
         /\ \/ Of("history")' = Of("history") /\ cache' = cache
            \/ cache' = [cache EXCEPT !.ok = FALSE] /\ Of("history")' = {}
<1>1. /\ flight' = flight \ {r} /\ r.kind # "save"
      /\ UNCHANGED <<hist, page, sources, drafts, lost>>
      /\ cache' = IF r.kind = "history" THEN [cache EXCEPT !.ok = FALSE] ELSE cache
  BY DEF RequestFailed
<1>2. Of("save")' = Of("save")
  BY <1>1 DEF Of
<1>3. r.kind = "history" => Of("history")' = {}
  BY <1>1 DEF TypeInv, OneRead, Of
<1>4. r.kind # "history" => Of("history")' = Of("history")
  BY <1>1 DEF Of
<1> QED
  BY <1>1, <1>2, <1>3, <1>4
-----------------------------------------------------------------------------
(* One save at a time, of a table with the months of the history *)

LEMMA TableSmall ==
  ASSUME TypeInv, OrderlyInv, [Next]_vars, Mounted' PROVE Small(table')
<1>1. CASE table' = table
  BY <1>1 DEF OrderlyInv, Mounted
<1>2. ASSUME NEW m, NEW row, NEW source, Puts(m, row, source) PROVE Small(table')
  BY <1>2, PutsFields DEF OrderlyInv, Small, Puts
<1>3. CASE Leave
  BY <1>3 DEF Leave, Mounted
<1>4. CASE Mount
  <2>1. cache.ok => cache.data # None
    BY DEF TypeInv, CacheInv
  <2>2. Small(BuildDefaultMonths)
    <3>1. Window \in Int
      BY CalendarAssumption
    <3> QED
      BY <3>1, DefaultTable DEF TypeInv, Small
  <2> QED
    BY <1>4, <2>1, <2>2, MountIs DEF OrderlyInv
<1>5. ASSUME NEW r \in flight, HistoryAnswered(r) PROVE Small(table')
  <2>1. r \in Of("history") /\ r.status = "ok" /\ (table' = table \/ table' = r.table)
    BY <1>5, HistoryAnsweredIs DEF Of
  <2> QED
    BY <1>1, <2>1 DEF OrderlyInv
<1>6. CASE HandleAnnualSimulate
  BY <1>1, <1>6 DEF HandleAnnualSimulate
<1>7. CASE Still
  BY <1>1, <1>7 DEF Still
<1> QED
  BY <1>2, <1>3, <1>4, <1>5, <1>6, <1>7, StillSteps

(* Steps that leave the saves and what is saved as they are.               *)
LEMMA OrderlyStill ==
  ASSUME OrderlyInv, Of("save")' = Of("save"), hist' = hist, cache'.data = cache.data,
         cache'.ok => cache.ok,
         \/ Of("history")' = Of("history")
         \/ /\ Of("history")' # {}
            /\ \A r \in Of("history")' : r.status = "ok" => r.table = hist
         \/ Of("history")' = {} /\ ~cache'.ok,
         Of("save") # {} => Mounted', Mounted' => Small(table')
  PROVE  OrderlyInv'
<1>1. Saving' = Saving /\ Unread' = Unread
  BY DEF Saving, Unread
<1>2. \A r \in Of("history")' : r.status = "ok" => Small(r.table) /\ (r.table = hist \/ Unread)
  BY DEF OrderlyInv
<1>3. Known' => cache.data = hist
  BY DEF OrderlyInv, Known
<1>4. /\ \A r, q \in Of("save")' : r = q
      /\ Of("save")' # {} => Mounted' /\ cache'.data # None
      /\ Small(hist') /\ (cache'.data # None => Small(cache'.data))
      /\ \A s \in Saving : Small(s.table) /\ (DOMAIN hist = {} \/ DOMAIN s.table = DOMAIN hist)
  BY DEF OrderlyInv
<1> HIDE DEF Small
<1> QED
  BY <1>1, <1>2, <1>3, <1>4 DEF OrderlyInv

LEMMA OrderlyClick ==
  ASSUME TypeInv, FollowInv, OrderlyInv, HandleAnnualSimulate, ~hasty' PROVE OrderlyInv'
<1>1. /\ Mounted /\ cache.ok /\ Of("history") = {} /\ Of("save") = {}
      /\ Of("history")' = {} /\ Saving' = Of("save")' /\ Of("save")' # {}
      /\ \A s, t \in Of("save")' : s = t
      /\ \A s \in Of("save")' : s.table = table
      /\ UNCHANGED <<hist, cache, table>>
  BY ClickIs
<1>2. cache.data = hist /\ Small(table)
  BY <1>1 DEF OrderlyInv, Known
<1>3. DOMAIN hist = {} \/ DOMAIN table = DOMAIN hist
  BY <1>1, <1>2 DEF FollowInv, Followed
<1>4. cache.data # None
  BY <1>1 DEF TypeInv, CacheInv
<1>5. Mounted' /\ ~Known'
  BY <1>1 DEF Mounted, Known
<1> QED
  BY <1>1, <1>2, <1>3, <1>4, <1>5 DEF OrderlyInv

LEMMA OrderlyServe ==
  ASSUME TypeInv, OrderlyInv, NEW r \in flight, Serve(r) PROVE OrderlyInv'
<1>0. (Mounted' <=> Mounted) /\ table' = table
  BY ServeIs DEF page, Mounted
<1>1. CASE r.kind = "history"
  <2>1. /\ Of("save")' = Of("save") /\ Of("history")' # {}
        /\ \A q \in Of("history")' : q.status = "ok" /\ q.table = hist
        /\ hist' = hist /\ cache' = cache
    BY <1>1, ServeReadIs
  <2>2. (Of("save") # {} => Mounted') /\ (Mounted' => Small(table'))
    BY <1>0 DEF OrderlyInv
  <2> QED
    BY <2>1, <2>2, OrderlyStill
<1>2. CASE r.kind = "save"
  <2>1. /\ Saving = {r} /\ Of("save") = {r} /\ ~Unread
        /\ Saving' = {} /\ Of("save")' # {} /\ \A q, s \in Of("save")' : q = s
        /\ Of("history")' = Of("history") /\ IsTable(r.table)
        /\ hist' = hist \/ (hist' = Merged(r) /\ Unread')
        /\ cache' = cache
    BY <1>2, ServeSaveIs DEF OrderlyInv
  <2>2. Small(hist')
    <3>1. Small(r.table) /\ (DOMAIN hist = {} \/ DOMAIN r.table = DOMAIN hist) /\ Small(hist)
      BY <2>1 DEF OrderlyInv
    <3>2. DOMAIN Merged(r) = DOMAIN hist \cup DOMAIN r.table
      BY <2>1, MergedIs DEF TypeInv
    <3>3. DOMAIN Merged(r) = DOMAIN r.table
      BY <3>1, <3>2
    <3> QED
      BY <2>1, <3>1, <3>3 DEF Small
  <2>3. \A q \in Of("history") : q.status = "ok" => Small(q.table) /\ q.table = hist
    BY <2>1 DEF OrderlyInv
  <2>4. ~Known'
    BY <2>1 DEF Known
  <2>5. /\ Mounted /\ cache.data # None /\ (cache.data # None => Small(cache.data))
        /\ (Mounted => Small(table))
    BY <2>1 DEF OrderlyInv
  <2> QED
    BY <1>0, <2>1, <2>2, <2>3, <2>4, <2>5 DEF OrderlyInv
<1> QED
  BY <1>1, <1>2, ServeIs

LEMMA OrderlyReceive ==
  ASSUME TypeInv, OrderlyInv, NEW r \in flight, Receive(r), [Next]_vars, ~hasty' PROVE OrderlyInv'
<1>0. Mounted' => Small(table')
  BY TableSmall
<1>1. CASE HistoryAnswered(r)
  <2>1. /\ Of("save")' = Of("save") /\ Of("history")' = {} /\ r \in Of("history")
        /\ r.status = "ok" /\ IsTable(r.table) /\ cache'.data = r.table /\ hist' = hist
        /\ table' = r.table \/ table' = table
    BY <1>1, ReadComes, HistoryAnsweredIs
  <2>2. Saving' = Saving /\ Unread' = Unread
    BY <2>1 DEF Saving, Unread
  <2>3. Small(r.table) /\ (r.table = hist \/ Unread) /\ r.table # None
    BY <2>1, TableIs DEF OrderlyInv
  <2>4. Mounted => Mounted'
    BY <2>1, <2>3 DEF Mounted
  <2>5. Known' => r.table = hist
    BY <2>1, <2>3 DEF Known, Unread
  <2> QED
    BY <1>0, <2>1, <2>2, <2>3, <2>4, <2>5 DEF OrderlyInv
<1>2. CASE SaveAnswered(r)
  <2>1. /\ Of("save")' = {} /\ Of("history")' = {Read}
        /\ hist' = hist /\ cache' = [cache EXCEPT !.stale = TRUE]
    BY <1>2, SaveComes DEF OrderlyInv
  <2>2. cache'.data = cache.data
    <3>1. cache = [data |-> cache.data, ok |-> cache.ok, stale |-> cache.stale]
      BY DEF TypeInv, CacheInv
    <3> QED
      BY <2>1, <3>1
  <2>3. Saving' = {} /\ ~Known' /\ Read.status = "sent"
    BY <2>1, ReadIs DEF Saving, Known
  <2> QED
    BY <1>0, <2>1, <2>2, <2>3 DEF OrderlyInv
<1>3. CASE SimulationAnswered(r)
  <2>1. /\ r.kind = "simulate" /\ flight' = flight \ {r} /\ UNCHANGED <<hist, cache, table>>
    BY <1>3 DEF SimulationAnswered
  <2>2. Of("save")' = Of("save") /\ Of("history")' = Of("history")
    BY <2>1 DEF Of
  <2>3. Of("save") # {} => Mounted'
    BY <2>1 DEF OrderlyInv, Mounted
  <2> QED
    BY <1>0, <2>1, <2>2, <2>3, OrderlyStill
<1>4. CASE RequestFailed(r)
  <2>1. /\ Of("save")' = Of("save") /\ hist' = hist /\ table' = table
        /\ \/ Of("history")' = Of("history") /\ cache' = cache
           \/ cache' = [cache EXCEPT !.ok = FALSE] /\ Of("history")' = {}
    BY <1>4, FailureIs DEF page
  <2>2. Of("save") # {} => Mounted'
    BY <2>1 DEF OrderlyInv, Mounted
  <2>3. CASE cache' = [cache EXCEPT !.ok = FALSE] /\ Of("history")' = {}
    <3>1. cache = [data |-> cache.data, ok |-> cache.ok, stale |-> cache.stale]
      BY DEF TypeInv, CacheInv
    <3>2. cache'.data = cache.data /\ cache'.ok = FALSE
      BY <2>3, <3>1
    <3> QED
      BY <1>0, <2>1, <2>2, <2>3, <3>2, OrderlyStill
  <2>4. CASE Of("history")' = Of("history") /\ cache' = cache
    BY <1>0, <2>1, <2>2, <2>4, OrderlyStill
  <2> QED
    BY <2>1, <2>3, <2>4
<1> QED
  BY <1>1, <1>2, <1>3, <1>4 DEF Receive

LEMMA OrderlyInvStep ==
  ASSUME TypeInv, FollowInv, OrderlyInv, [Next]_vars, ~hasty' PROVE OrderlyInv'
<1>0. Mounted' => Small(table')
  BY TableSmall
<1>1. ASSUME UNCHANGED <<flight, hist, cache>>, Mounted => Mounted' PROVE OrderlyInv'
  <2>1. Of("save")' = Of("save") /\ Of("history")' = Of("history")
    BY <1>1 DEF Of
  <2>2. Of("save") # {} => Mounted'
    BY <1>1 DEF OrderlyInv
  <2> QED
    BY <1>0, <1>1, <2>1, <2>2, OrderlyStill
<1>2. CASE EditCell \/ HandleConfirm
  <2>1. ASSUME NEW m, NEW row, NEW source, Puts(m, row, source) PROVE OrderlyInv'
    BY <1>1, <2>1, PutsFields DEF Puts
  <2>2. CASE UNCHANGED <<flight, hist, cache, table>>
    BY <1>1, <2>2 DEF Mounted
  <2> QED
    BY <1>2, <2>1, <2>2, PutsIs
<1>3. CASE \/ OpenUpload \/ HandleFile \/ AnotherFile \/ CloseUpload \/ HandleSelectOffer
           \/ FileParsed \/ MonthPasses \/ UNCHANGED vars
  <2>1. UNCHANGED <<flight, hist, cache, table>>
    BY <1>3 DEF OpenUpload, HandleFile, AnotherFile, CloseUpload, HandleSelectOffer,
       FileParsed, MonthPasses, vars, page
  <2> QED
    BY <1>1, <2>1 DEF Mounted
<1>4. CASE HandleAnnualSimulate
  BY <1>4, OrderlyClick
<1>5. CASE Leave
  <2>1. /\ Of("save") = {} /\ Of("save")' = {} /\ Of("history")' = Of("history")
        /\ ~Mounted' /\ UNCHANGED <<hist, cache>>
    BY <1>5, LeaveIs
  <2> QED
    BY <2>1, OrderlyStill
<1>6. CASE Mount \/ Refetch
  <2>1. UNCHANGED <<hist, cache>> /\ (MoreRead \/ flight' = flight)
    BY <1>6, MountSends DEF Mount, Refetch, MoreRead
  <2>2. Mounted => Mounted'
    BY <1>6 DEF Mount, Refetch, page, Mounted
  <2>3. CASE flight' = flight
    BY <1>1, <2>1, <2>2, <2>3
  <2>4. CASE MoreRead
    <3>1. Of("save")' = Of("save") /\ Of("history")' = {Read} /\ Read.status = "sent"
      BY <2>4, ReadSent, ReadIs
    <3>2. Of("save") # {} => Mounted'
      BY <2>2 DEF OrderlyInv
    <3> QED
      BY <1>0, <2>1, <3>1, <3>2, OrderlyStill
  <2> QED
    BY <2>1, <2>3, <2>4
<1>7. ASSUME NEW r \in flight, Serve(r) \/ Receive(r) PROVE OrderlyInv'
  BY <1>7, OrderlyServe, OrderlyReceive
<1> QED
  BY <1>2, <1>3, <1>4, <1>5, <1>6, <1>7 DEF Next, User, InvoiceUploadModal
-----------------------------------------------------------------------------
(* What is saved, and about to be *)

(* Saves and history stay, or the user saves, or the server gets the save. *)
SavesStay == Saving' = Saving /\ hist' = hist /\ (Refused => Refused')
Saves(r) ==
  /\ Saving = {r} /\ Saving' = {} /\ ~Refused /\ IsTable(r.table)
  /\ Refused' \/ hist' = Merged(r)
  /\ UNCHANGED <<cache, page, sources, ghosts>>

LEMMA SavesStep ==
  ASSUME TypeInv, OrderlyInv, [Next]_vars, ~hasty'
  PROVE  \/ SavesStay \/ (\E r \in flight : Saves(r)) \/ HandleAnnualSimulate
<1>1. ASSUME Of("save")' = Of("save"), hist' = hist PROVE SavesStay
  BY <1>1 DEF SavesStay, Saving, Refused
<1>2. ASSUME UNCHANGED <<flight, hist>> PROVE SavesStay
  BY <1>1, <1>2 DEF Of
<1>3. CASE Leave
  BY <1>1, <1>3, LeaveIs
<1>4. CASE Mount \/ Refetch
  <2>1. hist' = hist /\ (MoreRead \/ flight' = flight)
    BY <1>4, MountSends DEF Mount, Refetch, MoreRead
  <2> QED
    BY <1>1, <1>2, <2>1, ReadSent
<1>5. CASE \/ EditCell \/ OpenUpload \/ InvoiceUploadModal \/ HandleSelectOffer \/ FileParsed
           \/ MonthPasses \/ UNCHANGED vars
  BY <1>2, <1>5 DEF EditCell, OpenUpload, InvoiceUploadModal, HandleFile, AnotherFile, CloseUpload,
     HandleConfirm, HandleSelectOffer, FileParsed, MonthPasses, vars
<1>6. ASSUME NEW r \in flight, Serve(r) PROVE SavesStay \/ Saves(r)
  <2>1. CASE r.kind = "history"
    BY <1>1, <1>6, <2>1, ServeReadIs
  <2>2. CASE r.kind = "save"
    BY <1>6, <2>2, ServeSaveIs DEF OrderlyInv, Saves
  <2> QED
    BY <1>6, <2>1, <2>2, ServeIs
<1>7. ASSUME NEW r \in flight, HistoryAnswered(r) PROVE SavesStay
  BY <1>1, <1>7, ReadComes, HistoryAnsweredIs
<1>8. ASSUME NEW r \in flight, SaveAnswered(r) PROVE SavesStay
  <2>1. Of("save") = {r} /\ r.status = "ok" /\ Of("save")' = {} /\ hist' = hist
    BY <1>8, SaveComes DEF OrderlyInv
  <2> QED
    BY <2>1 DEF SavesStay, Saving, Refused
<1>9. ASSUME NEW r \in flight, SimulationAnswered(r) PROVE SavesStay
  <2>1. r.kind = "simulate" /\ flight' = flight \ {r} /\ hist' = hist
    BY <1>9 DEF SimulationAnswered
  <2>2. Of("save")' = Of("save")
    BY <2>1 DEF Of
  <2> QED
    BY <1>1, <2>1, <2>2
<1>10. ASSUME NEW r \in flight, RequestFailed(r) PROVE SavesStay
  BY <1>1, <1>10, FailureIs
<1> QED
  BY <1>3, <1>4, <1>5, <1>6, <1>7, <1>8, <1>9, <1>10 DEF Next, User, Receive

(* What the server has or is about to have it keeps, until more is saved.  *)
LEMMA HeldStays ==
  ASSUME TypeInv, OrderlyInv, [Next]_vars, ~hasty', ~Refused', ~HandleAnnualSimulate,
         NEW m, NEW row, Held(m, row)
  PROVE  Held(m, row)'
<1>1. CASE SavesStay
  BY <1>1 DEF SavesStay, Held
<1>2. ASSUME NEW r \in flight, Saves(r) PROVE Held(m, row)'
  <2>1. Saving = {r} /\ Saving' = {} /\ hist' = Merged(r) /\ IsTable(r.table)
    BY <1>2 DEF Saves
  <2>2. /\ DOMAIN Merged(r) = DOMAIN hist \cup DOMAIN r.table
        /\ \A i \in DOMAIN r.table : Merged(r)[i] = r.table[i]
        /\ \A i \in DOMAIN hist \ DOMAIN r.table : Merged(r)[i] = hist[i]
    BY <2>1, MergedIs DEF TypeInv
  <2>3. m \in DOMAIN hist' /\ hist'[m] = row
    BY <2>1, <2>2 DEF Held
  <2> QED
    BY <2>1, <2>3 DEF Held
<1> QED
  BY <1>1, <1>2, SavesStep

LEMMA MarkedInvStep ==
  ASSUME TypeInv, FollowInv, OrderlyInv, MarkedInv, [Next]_vars, ~hasty' PROVE MarkedInv'
<1>1. CASE SavesStay
  <2>1. DOMAIN hist \subseteq Months
    BY TableIs DEF TypeInv
  <2> QED
    BY <1>1, <2>1, BadgesGrow DEF SavesStay, MarkedInv
<1>2. CASE HandleAnnualSimulate
  <2>1. /\ Mounted /\ cache.ok /\ Of("history") = {} /\ Of("save") = {}
        /\ Saving' = Of("save")' /\ \A s \in Of("save")' : s.table = table
        /\ UNCHANGED <<hist, cache, table, sources>>
    BY <1>2, ClickIs
  <2>2. cache.data = hist
    BY <2>1 DEF OrderlyInv, Known
  <2>3. ASSUME NEW m \in DOMAIN hist \cap DOMAIN table, table[m] # hist[m]
        PROVE  sources[m] # "none"
    BY <2>1, <2>2, <2>3 DEF FollowInv, Followed
  <2> QED
    BY <2>1, <2>3 DEF MarkedInv
<1>3. ASSUME NEW r \in flight, Saves(r) PROVE MarkedInv'
  BY <1>3 DEF Saves, MarkedInv
<1> QED
  BY <1>1, <1>2, <1>3, SavesStep

LEMMA DraftsInvStep ==
  ASSUME TypeInv, OrderlyInv, DraftsInv, [Next]_vars, ~hasty', ~Refused' PROVE DraftsInv'
<1> SUFFICES ASSUME Followed', NEW i \in DOMAIN table', i \notin drafts'
             PROVE  table'[i] = cache'.data[i] \/ Held(i, table[i])'
  BY DEF DraftsInv
<1>0. ASSUME ~HandleAnnualSimulate, Followed, i \in DOMAIN table, i \notin drafts,
             table'[i] = table[i], cache'.data = cache.data
      PROVE  table'[i] = cache'.data[i] \/ Held(i, table[i])'
  <2>1. table[i] = cache.data[i] \/ Held(i, table[i])
    BY <1>0 DEF DraftsInv
  <2> QED
    BY <1>0, <2>1, HeldStays DEF Held
<1>1. CASE HandleAnnualSimulate
  <2>1. /\ Saving' = Of("save")' /\ Of("save")' # {} /\ table' = table
        /\ \A s \in Of("save")' : s.table = table
    BY <1>1, ClickIs
  <2> QED
    BY <2>1 DEF Held
<1>2. CASE Still /\ ~HandleAnnualSimulate
  BY <1>0, <1>2 DEF Still, Followed, Mounted
<1>3. ASSUME NEW m, NEW row, NEW source, Puts(m, row, source), ~HandleAnnualSimulate
      PROVE  table'[i] = cache'.data[i] \/ Held(i, table[i])'
  <2>1. Followed /\ cache' = cache
    BY <1>3 DEF Puts, Followed
  <2>2. i \in DOMAIN table /\ i \notin drafts /\ table'[i] = table[i]
    BY <1>3, PutsFields
  <2> QED
    BY <1>0, <1>3, <2>1, <2>2
<1>4. CASE Leave
  BY <1>4 DEF Leave, Followed, Mounted
<1>5. CASE Mount
  BY <1>5, MountIs DEF Followed
<1>6. ASSUME NEW r \in flight, HistoryAnswered(r), ~HandleAnnualSimulate
      PROVE  table'[i] = cache'.data[i] \/ Held(i, table[i])'
  <2>1. cache'.data = r.table
    BY <1>6, HistoryAnsweredIs
  <2>2. CASE Takes(r.table)
    BY <1>6, <2>1, <2>2, HistoryAnsweredIs
  <2>3. CASE ~Takes(r.table)
    <3>1. table' = table /\ drafts' = drafts
      BY <1>6, <2>3, HistoryAnsweredIs
    <3>2. Followed /\ cache'.data = cache.data
      BY <2>1, <2>3, <3>1 DEF Takes, Followed, Mounted
    <3> QED
      BY <1>0, <1>6, <3>1, <3>2
  <2> QED
    BY <2>2, <2>3
<1> QED
  BY <1>1, <1>2, <1>3, <1>4, <1>5, <1>6, StillSteps

LEMMA BadgeInvStep ==
  ASSUME TypeInv, FollowInv, OrderlyInv, DraftsInv, BadgeInv, [Next]_vars, ~hasty', ~Refused'
  PROVE  BadgeInv'
<1> SUFFICES ASSUME NEW i \in Months, i \notin lost', sources'[i] = "pdf"
             PROVE  IF i \in drafts' THEN i \in DOMAIN table' /\ table'[i] \in Invoices(i)
                    ELSE \E row \in Invoices(i) : Held(i, row)'
  BY DEF BadgeInv
<1>0. ASSUME ~HandleAnnualSimulate, i \notin lost, i \notin drafts, i \notin drafts', sources[i] = "pdf"
      PROVE  \E row \in Invoices(i) : Held(i, row)'
  <2>1. PICK row \in Invoices(i) : Held(i, row)
    BY <1>0 DEF BadgeInv
  <2>2. Held(i, row)'
    BY <1>0, <2>1, HeldStays
  <2> QED
    BY <2>2
<1>1. CASE HandleAnnualSimulate
  <2>1. /\ Mounted /\ cache.ok /\ Of("history") = {} /\ Of("save") = {} /\ Saving = {}
        /\ Saving' = Of("save")' /\ Of("save")' # {} /\ \A s \in Of("save")' : s.table = table
        /\ UNCHANGED <<hist, cache, table, sources, lost>> /\ drafts' = {}
    BY <1>1, ClickIs
  <2>2. i \in DOMAIN table /\ table[i] \in Invoices(i)
    <3>1. CASE i \in drafts
      BY <2>1, <3>1 DEF BadgeInv
    <3>2. CASE i \notin drafts
      <4>1. PICK row \in Invoices(i) : Held(i, row)
        BY <2>1, <3>2 DEF BadgeInv
      <4>2. i \in DOMAIN hist /\ hist[i] = row /\ cache.data = hist
        BY <2>1, <4>1 DEF Held, OrderlyInv, Known
      <4>3. Followed /\ DOMAIN table = DOMAIN hist
        BY <2>1, <4>2 DEF Followed, FollowInv
      <4>4. table[i] = hist[i]
        BY <2>1, <3>2, <4>2, <4>3 DEF DraftsInv, Held
      <4> QED
        BY <4>1, <4>2, <4>3, <4>4
    <3> QED
      BY <3>1, <3>2
  <2>3. Held(i, table[i])'
    BY <2>1, <2>2 DEF Held
  <2> QED
    BY <2>1, <2>2, <2>3
<1>2. ASSUME ~HandleAnnualSimulate, UNCHANGED <<table, drafts, lost, sources>>
      PROVE  IF i \in drafts' THEN i \in DOMAIN table' /\ table'[i] \in Invoices(i)
             ELSE \E row \in Invoices(i) : Held(i, row)'
  BY <1>0, <1>2 DEF BadgeInv
<1>3. CASE Still /\ ~HandleAnnualSimulate
  BY <1>2, <1>3 DEF Still
<1>4. ASSUME NEW m, NEW row, NEW source, Puts(m, row, source), ~HandleAnnualSimulate
      PROVE  IF i \in drafts' THEN i \in DOMAIN table' /\ table'[i] \in Invoices(i)
             ELSE \E w \in Invoices(i) : Held(i, w)'
  <2>1. /\ DOMAIN table' = DOMAIN table /\ table'[m] = row /\ m \in DOMAIN table
        /\ \A j \in DOMAIN table : j # m => table'[j] = table[j]
        /\ sources'[m] = source /\ \A j \in Months : j # m => sources'[j] = sources[j]
        /\ drafts' = drafts \cup {m} /\ lost' = lost \ {m}
        /\ source = "pdf" => row \in Invoices(m)
    BY <1>4, PutsFields DEF Puts
  <2>2. CASE i = m
    BY <2>1, <2>2
  <2>3. CASE i # m /\ i \in drafts
    BY <2>1, <2>3 DEF BadgeInv
  <2>4. CASE i # m /\ i \notin drafts
    BY <1>0, <1>4, <2>1, <2>4
  <2> QED
    BY <2>2, <2>3, <2>4
<1>5. CASE Leave /\ ~HandleAnnualSimulate
  <2>1. lost' = lost \cup drafts /\ drafts' = {} /\ sources' = sources
    BY <1>5, LeaveIs
  <2> QED
    BY <1>0, <1>5, <2>1
<1>6. CASE Mount /\ ~HandleAnnualSimulate
  <2>1. drafts = {} /\ UNCHANGED <<drafts, lost, sources>>
    BY <1>6, MountIs DEF ghosts, TypeInv, PageInv
  <2> QED
    BY <1>0, <1>6, <2>1
<1>7. ASSUME NEW r \in flight, HistoryAnswered(r), ~HandleAnnualSimulate
      PROVE  IF i \in drafts' THEN i \in DOMAIN table' /\ table'[i] \in Invoices(i)
             ELSE \E row \in Invoices(i) : Held(i, row)'
  <2>1. CASE Takes(r.table)
    <3>1. lost' = lost \cup drafts /\ drafts' = {} /\ sources' = sources
      BY <1>7, <2>1, HistoryAnsweredIs
    <3> QED
      BY <1>0, <1>7, <3>1
  <2>2. CASE ~Takes(r.table)
    BY <1>2, <1>7, <2>2, HistoryAnsweredIs
  <2> QED
    BY <2>1, <2>2
<1> QED
  BY <1>1, <1>3, <1>4, <1>5, <1>6, <1>7, StillSteps

-----------------------------------------------------------------------------
(* The promises kept to whoever waits for answers *)

LEMMA HabitInvInit == Init => HabitInv
<1> SUFFICES ASSUME Init PROVE HabitInv
  OBVIOUS
<1>1. ~cache.ok /\ Of("save") = {} /\ cache.data = None
  BY ReadIs DEF Init, Of
<1>2. FollowInv /\ DraftsInv
  BY <1>1 DEF FollowInv, DraftsInv, Followed
<1>3. BadgeInv
  BY DEF Init, BadgeInv
<1>4. Saving = {} /\ MarkedInv
  BY <1>1 DEF Saving, MarkedInv
<1>5. OrderlyInv
  <2>1. Small(hist)
    BY SavedAssumption DEF Init, Small
  <2>2. Small(table)
    <3>1. Window \in Int /\ today \in FirstDay..LastMonth /\ table = BuildDefaultMonths
      BY CalendarAssumption DEF Init
    <3> QED
      BY <3>1, DefaultTable DEF Small
  <2>3. \A r \in Of("history") : r.status = "sent"
    BY ReadIs DEF Init, Of
  <2>4. ~Known
    BY <1>1 DEF Known
  <2> QED
    BY <1>1, <1>4, <2>1, <2>2, <2>3, <2>4 DEF OrderlyInv
<1> QED
  BY <1>2, <1>3, <1>4, <1>5 DEF HabitInv

LEMMA HabitInvStep == TypeInv /\ HabitInv /\ [Next]_vars => HabitInv'
<1> SUFFICES ASSUME TypeInv, HabitInv, [Next]_vars PROVE HabitInv'
  OBVIOUS
<1>1. FollowInv /\ FollowInv'
  BY FollowInvStep DEF HabitInv
<1>2. ASSUME ~hasty' PROVE OrderlyInv' /\ MarkedInv' /\ (Refused' \/ (DraftsInv' /\ BadgeInv'))
  <2>1. ~hasty
    BY <1>2, HastyStays, Zenon
  <2>2. OrderlyInv /\ MarkedInv
    BY <2>1 DEF HabitInv
  <2>3. OrderlyInv' /\ MarkedInv'
    BY <1>1, <1>2, <2>2, OrderlyInvStep, MarkedInvStep
  <2>4. ASSUME ~Refused' PROVE DraftsInv' /\ BadgeInv'
    <3>1. ~Refused
      <4>1. HandleAnnualSimulate => Of("save") = {}
        BY <1>2, ClickIs
      <4> QED
        BY <1>2, <2>2, <2>4, <4>1, SavesStep DEF SavesStay, Saves, Refused
    <3>2. DraftsInv /\ BadgeInv
      BY <2>1, <3>1 DEF HabitInv
    <3> QED
      BY <1>1, <1>2, <2>2, <2>4, <3>2, DraftsInvStep, BadgeInvStep
  <2> QED
    BY <2>3, <2>4
<1> QED
  BY <1>1, <1>2 DEF HabitInv

LEMMA HabitInvariant == Spec => []HabitInv
<1> QED
  BY HabitInvInit, HabitInvStep, TypeInvariant, PTL DEF Spec

(* Nobody who waits for the history before "Calcular" and for the answer   *)
(* to a save before the next or before leaving, whose saves do not fail,   *)
(* ever has more months saved than validateHistory and an annual           *)
(* simulation admit, however many months go by.                            *)
THEOREM HistoriesFit == Spec => []HistoryFits
<1>1. HabitInv => HistoryFits
  BY DEF HabitInv, OrderlyInv, Small, HistoryFits
<1> QED
  BY <1>1, HabitInvariant, PTL

LEMMA OverwriteStep ==
  ASSUME TypeInv, HabitInv, [Next]_vars, NEW m \in DOMAIN hist, hist'[m] # hist[m], ~hasty
  PROVE  sources[m] # "none"
<1>1. PICK r \in flight : Serve(r)
  BY DEF Next, User, InvoiceUploadModal, EditCell, OpenUpload, HandleFile, AnotherFile,
     CloseUpload, HandleConfirm, HandleAnnualSimulate, HandleSelectOffer, FileParsed, Leave,
     Mount, Refetch, MonthPasses, Receive, HistoryAnswered, SaveAnswered,
     SimulationAnswered, RequestFailed, vars
<1>2. r.kind = "save" /\ hist' = Merged(r)
  BY <1>1, ServeIs
<1>3. OrderlyInv /\ MarkedInv
  BY DEF HabitInv
<1>4. Saving = {r} /\ IsTable(r.table)
  BY <1>1, <1>2, <1>3, ServeSaveIs DEF OrderlyInv
<1>5. /\ \A i \in DOMAIN r.table : Merged(r)[i] = r.table[i]
      /\ \A i \in DOMAIN hist \ DOMAIN r.table : Merged(r)[i] = hist[i]
  BY <1>4, MergedIs DEF TypeInv
<1>6. m \in DOMAIN r.table /\ r.table[m] # hist[m]
  BY <1>2, <1>5
<1> QED
  BY <1>3, <1>4, <1>6 DEF MarkedInv

(* The upsert of saveHistory overwrites a month with other numbers only if *)
(* the browser that saves shows a badge on it, under the same habits.      *)
THEOREM OverwritesAreMarked == Spec => OverwriteMarked
<1>1. TypeInv /\ HabitInv /\ [Next]_vars =>
        [\A m \in DOMAIN hist : hist'[m] # hist[m] => sources[m] # "none" \/ hasty]_vars
  BY OverwriteStep
<1> QED
  BY <1>1, TypeInvariant, HabitInvariant, PTL DEF Spec, OverwriteMarked

(* Once the page has read what is saved, the badge "PDF" of monthSources   *)
(* is on a row that an invoice of that month gave, unless a read history   *)
(* replaced the row before it was saved, under the same habits.            *)
THEOREM BadgesTellTrue == Spec => []BadgeTrue
<1>1. ASSUME TypeInv, HabitInv, Mounted, Known, ~hasty,
             NEW m \in DOMAIN table \ lost, Badge(m) = "pdf"
      PROVE  \E f \in Files : Complaint(f) = "none" /\ f.period = m /\ table[m] = RowOf(f)
  <2>1. Of("save") = {} /\ Saving = {} /\ ~Refused /\ cache.ok
    BY <1>1 DEF Known, Saving, Refused
  <2>2. OrderlyInv /\ FollowInv /\ DraftsInv /\ BadgeInv
    BY <1>1, <2>1 DEF HabitInv
  <2>3. m \in Months /\ sources[m] = "pdf"
    BY <1>1, TableIs DEF Badge, TypeInv, PageInv
  <2>4. table[m] \in Invoices(m)
    <3>1. CASE m \in drafts
      BY <1>1, <2>2, <2>3, <3>1 DEF BadgeInv
    <3>2. CASE m \notin drafts
      <4>1. PICK row \in Invoices(m) : Held(m, row)
        BY <1>1, <2>2, <2>3, <3>2 DEF BadgeInv
      <4>2. m \in DOMAIN hist /\ hist[m] = row /\ cache.data = hist
        BY <1>1, <2>1, <2>2, <4>1 DEF Held, OrderlyInv
      <4>3. Followed
        BY <1>1, <2>1, <4>2 DEF Followed
      <4>4. table[m] = hist[m]
        BY <1>1, <2>1, <2>2, <3>2, <4>2, <4>3 DEF DraftsInv, Held
      <4> QED
        BY <4>1, <4>2, <4>4
    <3> QED
      BY <3>1, <3>2
  <2> QED
    BY <2>4 DEF Invoices
<1>2. TypeInv /\ HabitInv => BadgeTrue
  BY <1>1 DEF BadgeTrue
<1> QED
  BY <1>2, TypeInvariant, HabitInvariant, PTL

=============================================================================
