------------------------------- MODULE Months -------------------------------
(***************************************************************************)
(* The Dashboard page in one browser tab: its table of months with the     *)
(* badges kept in localStorage, the modal that reads an invoice, the       *)
(* history it saves and reads back, the simulations it asks for and what   *)
(* is selected of them, while months go by.  Parsing an invoice takes      *)
(* time; requests are served and answered in any order, or fail.           *)
(*                                                                         *)
(* The session is that of module Dashboard, where the table is one value.  *)
(* Here it has rows.  A month is a number; a table is a function from the  *)
(* months it shows, in their order, to rows; kWh, kW and the VAT rate are  *)
(* in thousandths.                                                         *)
(*                                                                         *)
(* A Bug_X is X as a slip would leave it; nothing uses it, but the         *)
(* properties are checked to tell it from X.                               *)
(***************************************************************************)
EXTENDS Integers, FiniteSets

CONSTANTS
  Window,     \* months of a default table, and the most a simulation takes: 12
  FirstDay,   \* the month it is at the beginning
  LastMonth,  \* bound: the last month there is
  Files,      \* what a user may choose as an invoice
  Saved,      \* histories there may be at the beginning
  Edited,     \* bound: the cells ever edited
  Typed,      \* bound: the numbers typed
  MaxDone,    \* bound: edits, chosen files and clicks on "Calcular"
  Solar,      \* profile.has_solar_panels
  None

Months == 1..LastMonth
Energies == {"peak", "mid", "valley", "surplus"}
Powers == {"powerPeak", "powerValley"}
Fields == Energies \cup Powers \cup {"iva"}
Rows == [Fields -> Int]
IsTable(t) == \E D \in SUBSET Months : t \in [D -> Rows]

(* What an invoice prints is an amount; a VAT rate has no thousands.       *)
Amount(x) == x.is \in Int /\ x.comma \in BOOLEAN /\ x.grouped \in BOOLEAN
Invoice(f) ==
  /\ f.rows # None => \A k \in {"peak", "mid", "valley"} : f.rows[k] # None => Amount(f.rows[k])
  /\ \A p \in {f.powersA, f.powersB} \ {None} : \A k \in Powers : p[k] # None /\ Amount(p[k])
  /\ \A x \in {f.poured, f.compensated, f.iva} \ {None} : Amount(x)
  /\ f.iva # None => ~f.iva.grouped

ASSUME CalendarAssumption == /\ LastMonth \in Nat /\ FirstDay \in 1..LastMonth
                             /\ Window \in 1..FirstDay
ASSUME SavedAssumption == \A h \in Saved : IsTable(h) /\ Cardinality(DOMAIN h) <= Window
ASSUME FilesAssumption == \A f \in Files : Invoice(f)
ASSUME EditedAssumption == Edited \subseteq Fields /\ Typed \ {None} \subseteq Int
ASSUME NoneAssumption == None \notin Int /\ ~IsTable(None)

VARIABLES
  today,   \* the month it is
  hist,    \* server: every month ever saved
  cache,   \* the consumptionHistory query
  flight,  \* requests sent and not answered
  table,   \* annualReq, None while the page is not on screen
  sources, \* monthSources, which localStorage keeps
  upload,  \* the modal: its state, and the file of a result
  reading, \* files being parsed for it
  warning, \* importWarning is shown
  mine,    \* the page's mutation: the simulation it has got
  last,    \* the annualSimulation query: the last simulation that came
  picked,  \* selectedOffer: of which simulation; under way: picked in a hurry
  changes, clicks,
  drafts,  \* months changed since the last click
  lost,    \* months whose changes were thrown away
  hasty    \* somebody did not wait for an answer, or a save failed: see HistoryFits

page == <<table, upload, reading, warning, mine, picked>>
ghosts == <<drafts, lost, hasty>>
counters == <<changes, clicks>>
vars == <<today, hist, cache, flight, page, sources, last, counters, ghosts>>

-----------------------------------------------------------------------------
(* An invoice.  A file is what its text says once pdf.js has extracted it: *)
(* pdf, readable, period (the month of the end date or None), powersA and  *)
(* powersB (the two layouts), rows (the consumption table), poured and     *)
(* compensated (the two mentions of the surplus) and iva, each None if it  *)
(* is not found.  A number is what it amounts to and how it is printed.    *)

(* Without a comma a dot is taken for one.                                 *)
ParseSpanishNumber(x) ==
  IF x.comma \/ ~x.grouped THEN x.is ELSE x.is \div 1000

Coalesce(a, b) == IF a = None THEN b ELSE a
Number(x) == IF x = None THEN 0 ELSE ParseSpanishNumber(x)

ExtractContractedPower(f) == Coalesce(f.powersA, f.powersB)
ExtractSurplus(f) == Number(Coalesce(f.poured, f.compensated))
ExtractIVARate(f) == IF f.iva = None THEN None ELSE ParseSpanishNumber(f.iva) \div 100

(* All three rows, each with a comma in its last number.                   *)
ExtractConsumption(f) ==
  IF f.rows = None \/ \E k \in {"peak", "mid", "valley"} : f.rows[k] = None \/ ~f.rows[k].comma
    THEN None
    ELSE [k \in {"peak", "mid", "valley"} |-> ParseSpanishNumber(f.rows[k])]

(* What handleFile and parsePdfInvoice complain of, in this order.         *)
Complaint(f) == IF ~f.pdf THEN "not a PDF"
                ELSE IF ~f.readable THEN "damaged"
                ELSE IF f.period = None THEN "no period"
                ELSE IF ExtractContractedPower(f) = None THEN "no power"
                ELSE IF ExtractConsumption(f) = None THEN "no consumption"
                ELSE "none"

(* The row of an imported invoice; the VAT rate 0 stands for the default.  *)
CellOf(f, k) == CASE k \in {"peak", "mid", "valley"} -> ExtractConsumption(f)[k]
                  [] k \in Powers -> ParseSpanishNumber(ExtractContractedPower(f)[k])
                  [] k = "surplus" -> ExtractSurplus(f)
                  [] k = "iva" -> Coalesce(ExtractIVARate(f), 0)
RowOf(f) == [k \in Fields |-> CellOf(f, k)]

-----------------------------------------------------------------------------
(* The table *)

Blank == [k \in Fields |-> IF k \in Powers THEN 3450 ELSE 0]
BuildDefaultMonths == [m \in (today - Window + 1)..today |-> Blank]

(* A cell: an emptied one is 0, the VAT is typed in percent.               *)
Parsed(k, x) == IF x = None THEN 0 ELSE IF k = "iva" THEN x \div 100 ELSE x
Cells == Edited \ (IF Solar THEN {} ELSE {"surplus"})

(* validateMonthlyConsumption                                              *)
Acceptable(row) == /\ \A k \in Energies : row[k] >= 0
                   /\ \A k \in Powers : row[k] > 0
                   /\ row["iva"] \in 0..1000
Valid(t) == \A m \in DOMAIN t : Acceptable(t[m])

-----------------------------------------------------------------------------
Of(kind) == {r \in flight : r.kind = kind}
Waiting(kind) == {r \in Of(kind) : r.waits = "page"}
Send(kind, n, t) == [kind |-> kind, n |-> n, table |-> t, status |-> "sent", waits |-> "page"]
Read == Send("history", 0, None)

Mounted == table # None
Closed == [status |-> "closed", file |-> None]
Shown == IF mine # None THEN mine ELSE last
NotPicked == [of |-> None, hurried |-> FALSE]

(* What the table shows is known to be what is saved, but for the drafts.  *)
Known == cache.ok /\ Of("history") = {} /\ Of("save") = {}

Change(m, source) ==
  /\ sources' = [sources EXCEPT ![m] = source]
  /\ drafts' = drafts \cup {m} /\ lost' = lost \ {m}

(* The badge on the row of m. *)
Badge(m) == IF Mounted /\ m \in DOMAIN table THEN sources[m] ELSE "none"

-----------------------------------------------------------------------------
(* What the user does *)

(* The badge stays as it was. *)
Bug_EditCell ==
  /\ Mounted /\ upload.status = "closed" /\ changes + clicks < MaxDone
  /\ changes' = changes + 1
  /\ \E m \in DOMAIN table, k \in Cells, x \in Typed :
       /\ table' = [table EXCEPT ![m][k] = Parsed(k, x)]
       /\ drafts' = drafts \cup {m} /\ lost' = lost \ {m}
  /\ UNCHANGED <<today, hist, cache, flight, upload, reading, warning, mine, picked,
                 last, sources, clicks, hasty>>

EditCell ==
  /\ Mounted /\ upload.status = "closed" /\ changes + clicks < MaxDone
  /\ changes' = changes + 1
  /\ \E m \in DOMAIN table, k \in Cells, x \in Typed :
       /\ table' = [table EXCEPT ![m][k] = Parsed(k, x)]
       /\ Change(m, "manual")
  /\ UNCHANGED <<today, hist, cache, flight, upload, reading, warning, mine, picked,
                 last, clicks, hasty>>

OpenUpload ==
  /\ Mounted /\ upload = Closed
  /\ upload' = [status |-> "idle", file |-> None] /\ warning' = FALSE
  /\ UNCHANGED <<today, hist, cache, flight, table, reading, mine, picked, sources,
                 last, counters, ghosts>>

(* The drop zone is there unless a result is shown: also while another     *)
(* file is being parsed, which goes on.                                    *)
DropZone == upload.status \in {"idle", "parsing", "error"}
HandleFile ==
  /\ DropZone /\ changes + clicks < MaxDone
  /\ changes' = changes + 1
  /\ \E f \in Files :
       IF f.pdf THEN /\ upload' = [status |-> "parsing", file |-> None]
                     /\ reading' = reading \cup {f}
                ELSE /\ upload' = [status |-> "error", file |-> None]
                     /\ UNCHANGED reading
  /\ UNCHANGED <<today, hist, cache, flight, table, warning, mine, picked, sources,
                 last, clicks, ghosts>>

(* Whatever the modal has come to show meanwhile.                          *)
FileParsed ==
  /\ \E f \in reading :
       /\ reading' = reading \ {f}
       /\ upload' = IF Complaint(f) = "none" THEN [status |-> "success", file |-> f]
                    ELSE [status |-> "error", file |-> None]
  /\ UNCHANGED <<today, hist, cache, flight, table, warning, mine, picked, sources,
                 last, counters, ghosts>>

(* "Cargar otra factura", "Intentar con otro archivo"                      *)
AnotherFile ==
  /\ upload.status \in {"success", "error"}
  /\ upload' = [status |-> "idle", file |-> None]
  /\ UNCHANGED <<today, hist, cache, flight, table, reading, warning, mine, picked,
                 sources, last, counters, ghosts>>

(* A file being parsed opens the modal again. *)
Bug_CloseUpload ==
  /\ upload # Closed
  /\ upload' = Closed
  /\ UNCHANGED <<today, hist, cache, flight, table, reading, warning, mine, picked,
                 sources, last, counters, ghosts>>

CloseUpload ==
  /\ upload # Closed
  /\ upload' = Closed /\ reading' = {}
  /\ UNCHANGED <<today, hist, cache, flight, table, warning, mine, picked, sources,
                 last, counters, ghosts>>

(* The row keeps its rate if the invoice has none. *)
Bug_HandleInvoiceImport(f) ==
  IF f.period \in DOMAIN table
    THEN /\ table' = [table EXCEPT ![f.period] = [RowOf(f) EXCEPT !["iva"] =
                                                    Coalesce(ExtractIVARate(f), table[f.period]["iva"])]]
         /\ Change(f.period, "pdf")
         /\ warning' = FALSE
    ELSE warning' = TRUE /\ UNCHANGED <<table, sources, drafts, lost>>

HandleInvoiceImport(f) ==
  IF f.period \in DOMAIN table
    THEN /\ table' = [table EXCEPT ![f.period] = RowOf(f)]
         /\ Change(f.period, "pdf")
         /\ warning' = FALSE
    ELSE warning' = TRUE /\ UNCHANGED <<table, sources, drafts, lost>>

HandleConfirm ==
  /\ upload.status = "success"
  /\ HandleInvoiceImport(upload.file)
  /\ upload' = Closed /\ reading' = {}
  /\ UNCHANGED <<today, hist, cache, flight, mine, picked, last, counters, hasty>>

(* The breakdown of the simulation before stays open. *)
Bug_HandleAnnualSimulate ==
  /\ Mounted /\ upload = Closed /\ Waiting("simulate") = {} /\ changes + clicks < MaxDone
  /\ clicks' = clicks + 1
  /\ mine' = None
  /\ flight' = flight \cup {Send("save", clicks', table), Send("simulate", clicks', table)}
  /\ drafts' = {} /\ hasty' = (hasty \/ ~Known)
  /\ UNCHANGED <<today, hist, cache, table, upload, reading, warning, picked, sources, last,
                 changes, lost>>

(* The button is disabled while a simulation of this mount is pending, or  *)
(* if there are no offers.                                                 *)
HandleAnnualSimulate ==
  /\ Mounted /\ upload = Closed /\ Waiting("simulate") = {} /\ changes + clicks < MaxDone
  /\ clicks' = clicks + 1
  /\ picked' = NotPicked /\ mine' = None
  /\ flight' = flight \cup {Send("save", clicks', table), Send("simulate", clicks', table)}
  /\ drafts' = {} /\ hasty' = (hasty \/ ~Known)
  /\ UNCHANGED <<today, hist, cache, table, upload, reading, warning, sources, last,
                 changes, lost>>

(* A line of the chart, or the cross of the breakdown.                     *)
HandleSelectOffer ==
  /\ Mounted /\ upload = Closed /\ Shown # None
  /\ picked' \in {NotPicked, [of |-> Shown, hurried |-> Of("simulate") # {}]}
  /\ UNCHANGED <<today, hist, cache, flight, table, upload, reading, warning, mine,
                 sources, last, counters, ghosts>>

-----------------------------------------------------------------------------
(* The page comes and goes *)

GiveUp(requests) == {[r EXCEPT !.waits = IF r.kind = "history" THEN @ ELSE "nobody"] : r \in requests}

Leave ==
  /\ Mounted
  /\ table' = None /\ upload' = Closed /\ reading' = {} /\ warning' = FALSE
  /\ mine' = None /\ picked' = NotPicked
  /\ flight' = GiveUp(flight)
  /\ lost' = lost \cup drafts /\ drafts' = {} /\ hasty' = (hasty \/ Of("save") # {})
  /\ UNCHANGED <<today, hist, cache, sources, last, counters>>

(* A history in the cache is not taken over. *)
Bug_Mount ==
  /\ ~Mounted
  /\ table' = BuildDefaultMonths
  /\ \/ flight' = flight \cup IF Of("history") = {} THEN {Read} ELSE {}
     \/ cache.ok /\ ~cache.stale /\ UNCHANGED flight
  /\ UNCHANGED <<today, hist, cache, upload, reading, warning, mine, picked, sources,
                 last, counters, ghosts>>

(* The default table, and at once the effect that takes over a history in  *)
(* the cache; the query reads unless it is fresh or is being read already. *)
Mount ==
  /\ ~Mounted
  /\ table' = IF cache.ok /\ cache.data # <<>> THEN cache.data ELSE BuildDefaultMonths
  /\ \/ flight' = flight \cup IF Of("history") = {} THEN {Read} ELSE {}
     \/ cache.ok /\ ~cache.stale /\ UNCHANGED flight
  /\ UNCHANGED <<today, hist, cache, upload, reading, warning, mine, picked, sources,
                 last, counters, ghosts>>

(* The window gets the focus.                                              *)
Refetch ==
  /\ Mounted /\ Of("history") = {}
  /\ flight' = flight \cup {Read}
  /\ UNCHANGED <<today, hist, cache, page, sources, last, counters, ghosts>>

MonthPasses ==
  /\ today < LastMonth
  /\ today' = today + 1
  /\ UNCHANGED <<hist, cache, flight, page, sources, last, counters, ghosts>>

-----------------------------------------------------------------------------
(* The server *)

Serve(r) ==
  /\ r.status = "sent" /\ r.kind \in {"history", "save"}
  /\ LET refused == r.kind = "save" /\ ~Valid(r.table)
     IN  /\ hist' = IF r.kind = "save" /\ ~refused
                      THEN [m \in DOMAIN hist \cup DOMAIN r.table |->
                              IF m \in DOMAIN r.table THEN r.table[m] ELSE hist[m]]
                      ELSE hist
         /\ flight' = (flight \ {r}) \cup
              {[r EXCEPT !.status = IF refused THEN "refused" ELSE "ok",
                         !.table = IF r.kind = "history" THEN hist ELSE None]}
  /\ UNCHANGED <<today, cache, page, sources, last, counters, ghosts>>

(* The months of today's table that are not saved are shown as well. *)
Bug_HistoryAnswered(r) ==
  /\ r.kind = "history" /\ r.status = "ok"
  /\ flight' = flight \ {r}
  /\ cache' = [data |-> r.table, ok |-> TRUE, stale |-> FALSE]
  /\ LET new == Mounted /\ r.table # <<>> /\ (~cache.ok \/ cache.data # r.table)
     IN  /\ table' = IF new THEN [m \in DOMAIN r.table \cup DOMAIN BuildDefaultMonths |->
                                    IF m \in DOMAIN r.table THEN r.table[m] ELSE Blank]
                     ELSE table
         /\ lost' = IF new THEN lost \cup drafts ELSE lost
         /\ drafts' = IF new THEN {} ELSE drafts
  /\ UNCHANGED <<today, hist, upload, reading, warning, mine, picked, sources, last,
                 counters, hasty>>

(* The effect runs if the data differs or is a success again, and only if  *)
(* there is any.  The badges stay.                                         *)
HistoryAnswered(r) ==
  /\ r.kind = "history" /\ r.status = "ok"
  /\ flight' = flight \ {r}
  /\ cache' = [data |-> r.table, ok |-> TRUE, stale |-> FALSE]
  /\ LET new == Mounted /\ r.table # <<>> /\ (~cache.ok \/ cache.data # r.table)
     IN  /\ table' = IF new THEN r.table ELSE table
         /\ lost' = IF new THEN lost \cup drafts ELSE lost
         /\ drafts' = IF new THEN {} ELSE drafts
  /\ UNCHANGED <<today, hist, upload, reading, warning, mine, picked, sources, last,
                 counters, hasty>>

(* The history is read anew, now or when the page is mounted again; a read *)
(* under way is given up for it unless it is the first.                    *)
SaveAnswered(r) ==
  /\ r.kind = "save" /\ r.status = "ok"
  /\ cache' = [cache EXCEPT !.stale = TRUE]
  /\ flight' = IF ~Mounted \/ (cache.data = None /\ Of("history") # {}) THEN flight \ {r}
               ELSE (flight \ ({r} \cup Of("history"))) \cup {Read}
  /\ UNCHANGED <<today, hist, page, sources, last, counters, ghosts>>

(* When a simulation is served does not matter here, if it is accepted:    *)
(* onSuccess of the hook, whoever waits; and the mutation if the page does *)
SimulationAnswered(r) ==
  /\ r.kind = "simulate" /\ Valid(r.table) /\ Cardinality(DOMAIN r.table) <= Window
  /\ last' = r.n
  /\ mine' = IF r.waits = "page" THEN r.n ELSE mine
  /\ flight' = flight \ {r}
  /\ UNCHANGED <<today, hist, cache, table, upload, reading, warning, picked, sources,
                 counters, ghosts>>

RequestFailed(r) ==
  /\ cache' = IF r.kind = "history" THEN [cache EXCEPT !.ok = FALSE] ELSE cache
  /\ hasty' = (hasty \/ r.kind = "save")
  /\ flight' = flight \ {r}
  /\ UNCHANGED <<today, hist, page, sources, last, counters, drafts, lost>>

-----------------------------------------------------------------------------
Init ==
  /\ today = FirstDay /\ hist \in Saved
  /\ cache = [data |-> None, ok |-> FALSE, stale |-> FALSE]
  /\ flight = {Read} /\ table = BuildDefaultMonths
  /\ sources = [m \in Months |-> "none"]
  /\ upload = Closed /\ reading = {} /\ warning = FALSE
  /\ mine = None /\ last = None /\ picked = NotPicked
  /\ changes = 0 /\ clicks = 0
  /\ drafts = {} /\ lost = {} /\ hasty = FALSE

InvoiceUploadModal == HandleFile \/ AnotherFile \/ CloseUpload \/ HandleConfirm
User == EditCell \/ OpenUpload \/ InvoiceUploadModal \/ HandleAnnualSimulate \/ HandleSelectOffer
Receive(r) == HistoryAnswered(r) \/ SaveAnswered(r) \/ SimulationAnswered(r) \/ RequestFailed(r)
Next == User \/ FileParsed \/ Leave \/ Mount \/ Refetch \/ MonthPasses
        \/ \E r \in flight : Serve(r) \/ Receive(r)
Spec == Init /\ [][Next]_vars

-----------------------------------------------------------------------------
(* Properties *)

(* Every variable stays in its type; what is shown of a simulation is      *)
(* shown only if there is one, and a result only of a file that was read.  *)
TypeOK ==
  /\ today \in FirstDay..LastMonth /\ IsTable(hist)
  /\ Mounted => IsTable(table) /\ DOMAIN table # {}
  /\ cache.data # None => IsTable(cache.data)
  /\ sources \in [Months -> {"none", "pdf", "manual"}]
  /\ picked # NotPicked => Shown # None
  /\ upload.status = "success" => Complaint(upload.file) = "none"
  /\ reading # {} => upload.status # "closed"
  /\ Cardinality(Of("history")) <= 1

(* What an invoice says, in thousandths, however it is printed.            *)
Is(x) == IF x = None THEN 0 ELSE x.is
Printed(f, k) == CASE k \in {"peak", "mid", "valley"} -> f.rows[k].is
                   [] k \in Powers -> Is(ExtractContractedPower(f)[k])
                   [] k = "surplus" -> Is(Coalesce(f.poured, f.compensated))
                   [] k = "iva" -> Is(f.iva) \div 100
Says(f) == [k \in Fields |-> Printed(f, k)]
(* No amount with thousands is printed without its decimals.               *)
Legible(f) == \A x \in {ExtractContractedPower(f)["powerPeak"],
                        ExtractContractedPower(f)["powerValley"],
                        Coalesce(f.poured, f.compensated)} \ {None} : x.comma \/ ~x.grouped

(* An import changes the row of the invoice's month and no other, the row  *)
(* becomes what the invoice says, and it is badged; if the month is not on *)
(* the table nothing changes and the user is told.                         *)
ImportFaithful ==
  [][(/\ upload.status = "success" /\ upload'.status = "closed" /\ table' # None
      /\ (table' # table \/ warning' # warning))
     => LET f == upload.file IN
        IF f.period \in DOMAIN table
          THEN /\ DOMAIN table' = DOMAIN table /\ sources'[f.period] = "pdf"
               /\ \A m \in DOMAIN table : m # f.period => table'[m] = table[m]
               /\ Legible(f) => table'[f.period] = Says(f)
          ELSE table' = table /\ sources' = sources /\ warning']_vars

(* No history is ever too long to be simulated, as the months go by, if    *)
(* nobody calculates before the history is there, nobody calculates or     *)
(* leaves the page before the last save is answered, and no save fails:    *)
(* what is saved anew is then the table that was saved first.              *)
HistoryFits == hasty \/ Cardinality(DOMAIN hist) <= Window

(* Under the same habits a save changes a month that was saved before only *)
(* if this browser shows a badge on it.                                    *)
OverwriteMarked ==
  [][\A m \in DOMAIN hist : hist'[m] # hist[m] => sources[m] # "none" \/ hasty]_vars

(* Once the page has read what is saved, a month badged "PDF" holds what   *)
(* an invoice of that month says, unless changes to it were thrown away:   *)
(* left on the table or made before a save was read back.                  *)
BadgeTrue ==
  Mounted /\ Known /\ ~hasty =>
    \A m \in DOMAIN table \ lost :
      Badge(m) = "pdf" =>
        \E f \in Files : Complaint(f) = "none" /\ f.period = m /\ table[m] = RowOf(f)

(* The breakdown shown is one of the simulation shown, unless the line was *)
(* clicked while another simulation was under way.                         *)
BreakdownCurrent == picked = NotPicked \/ picked.hurried \/ picked.of = Shown

=============================================================================
