# Energy Savings: a verification project

Energy Savings is a small web application. A user records the electricity offers he has been
made (prices per tariff period, power terms, surplus compensation), records what he consumes
each month, and the application computes what each offer would have cost him. A Go backend
(`pkg/`, started by `cmd/server` or as the serverless function `api/index.go`) keeps accounts,
offers, consumption and revoked tokens in PostgreSQL; a React single-page application
(`frontend/`) talks to it over JSON.

This directory models the parts in which several things happen at once, or in which a long
computation has to come out right, as TLA+ modules, checks them with TLC on small instances, and
proves the most important properties for every value of the constants with TLAPS.

    tlc -workers 2 -config OfferStoreOneEach.cfg MCOfferStore.tla
    tlapm OfferStoreProofs.tla

## 1. Inventory

| Component | Code | State | Operations | Hard because | Correct if |
|---|---|---|---|---|---|
| Offers API | `pkg/api/offer_handler.go`, `pkg/service/offer_service.go`, `pkg/repository/offer_repository.go` | table `offers`, its id sequence | list, get, create, update, delete, list public, import | statements of concurrent requests interleave; two operations are transactions with row locks; an update's answer and an import take two statements | accounts are isolated; one current offer per user; imports copy public content only; a switch of the current offer is all or nothing; 404 means nothing changed |
| Accounts and tokens | `pkg/api/auth_handler.go`, `middleware.go`, `pkg/auth/auth.go`, `pkg/repository/user_repository.go` | tables `users`, `revoked_tokens`; the clock | register, login, logout, password change, profile, RequireAuth, cleanup of expired revocations | expiry is checked before revocation; cleanups come from other instances and use another clock; errors of a logout are discarded | a revoked token is not admitted; tokens go to who proved a password |
| Consumption history | `pkg/api/consumption_handler.go`, `pkg/repository/consumption_repository.go`, `helpers.go` | table `consumption_history` | read, save | one transaction of many upserts, in the client's order; deadlocks; a lost commit acknowledgement | a save is atomic, the last value of a month wins |
| Billing | `pkg/api/simulation_handler.go`, `pkg/service/calculator_service.go` | none | simulate a period, simulate a year | rounding of lines, totals and shares; calendars; two storage forms of the same prices | bills add up, year complete, ranking honest |
| Start-up and migrations | `pkg/database/db.go`, `cmd/server/main.go`, `api/index.go` | the schema, `schema_migrations`, a `sync.Once` per serverless instance | open, migrate, serve | several instances start at once; crashes; a panic spends the Once | no migration skipped or applied twice; who serves has the schema |
| Routing, CORS, rate limits | `pkg/api/router.go` | request counters in a library | - | - | wiring |
| Browser session | `frontend/src/context/AuthContext.tsx`, `api/client.ts`, `App.tsx` | token and user in localStorage and in React, the query cache | login, logout, session expiry | answers to old requests arrive late; the cache outlives the session; tabs share the storage | a session ends for a cause of its own; nobody sees another user's data |
| Dashboard | `frontend/src/pages/Dashboard.tsx`, `MonthlyInputTable.tsx`, hooks | the table of months being edited and where each came from (localStorage), the last simulation, the offer selected of it, the notice on the last save | edit, import an invoice, simulate (and save), select, load, leave | loads, refetches and saves race with each other and with edits; months go by; badges outlive the rows they speak of | saves are one's own, the notice is true, defaults do not overwrite history; badges are true; the history stays one the simulation takes |
| Offers page, podium and form | `frontend/src/pages/Offers.tsx`, `OfferForm.tsx`, `OfferCard.tsx`, `PublicOffersModal.tsx`, `useOffers.ts` | cached list, cached simulation, the form and what it was opened on | create, edit, delete, import, cancel, navigate; two podiums | the list is read anew after each write while others are under way; the ranking mixes data of different ages; hidden fields are sent unchecked | the list settles on what the server has; medals are right; a form changes what was changed in it, and closes for its own submission |
| Invoice import | `frontend/src/utils/parsePdfInvoice.ts`, `InvoiceUploadModal.tsx` | the modal's state | choose, parse, confirm | parsing takes time and goes on when another file is chosen; Spanish numbers | an import changes its month only, to what the invoice says |
| Charts and drawers | `AnnualCostChart.tsx`, `MonthlyBreakdownChart.tsx`, `MonthlyDetailDrawer.tsx` | what is hidden, what is open | draw a simulation | each recomputes from its own keys and guesses: names, months, prices of zero | they say the same, and what was billed |
| Layout, theme, unused components | `Layout.tsx`, `ThemeContext.tsx`, `SimulationForm.tsx`, `SimulationResult.tsx` | the theme | - | - | - |

Interactions. The browser sends a JWT with each request. `RequireAuth` (a statement on
`revoked_tokens`) turns it into a user id, and every repository statement carries that id in its
WHERE clause or its row. The simulation handlers read the user's offers and hand them to the
calculator. Handlers share nothing in memory: all interaction between requests is through
PostgreSQL at READ COMMITTED (the level of autocommitted statements and of `BeginTx(ctx, nil)`).
Instances share only the database. Foreign keys play no role since users are never deleted.

## 2. The modules

| Module | What it models |
|---|---|
| `OfferBook` | abstract: putting or removing an offer is one atomic step; a current offer takes the flag from the user's others |
| `OfferStore` | the offers handlers, service and repository, one step per SQL statement |
| `MCOfferStore` | who owns which session, for TLC |
| `OfferStoreProofs` | theorems about `OfferStore` |
| `Auth`, `MCAuth`, `AuthProofs` | accounts, tokens, RequireAuth, cleanup |
| `ConsumptionLog` | abstract: a save takes effect whole, in one step, or not at all |
| `ConsumptionStore`, `MCConsumptionStore`, `ConsumptionProofs` | the save transaction, month by month |
| `ColdStart`, `ColdStartProofs` | instances starting and migrating against one database |
| `Billing` | the simulation handlers and the calculator |
| `AnnualView`, `MCBilling` | what the charts, the drawer and the receipts show of `Billing`'s answer, which it extends |
| `BillingProofs` | theorems about both |
| `Sorting` | external: what `Array.prototype.sort` makes of a set, for the drawer and the podiums |
| `Dashboard`, `MCDashboard`, `DashboardProofs` | a browser tab: the session, the history query and the Dashboard, with the server they need |
| `Months`, `MCMonths`, `MonthsProofs` | the Dashboard's table row by row: months, badges, invoices, simulations, the history |
| `OffersPage`, `MCOffersPage`, `OffersPageProofs` | the offers list and its mutations, the form, imports, the podiums |

Operators called `Bug_X` are `X` with a plausible programming mistake. No specification uses
them; replacing `X` by `Bug_X` shows which property notices.

**OfferStore.** `rows` is the committed table, `draft[s]` what the transaction of session `s` has
written, which is also what it has locked; `nextId` the sequence. `pc[s]` names the statement the
request is at. `CreateOffer`, `UpdateOffer`, `DeleteOffer` and `ImportOffer` are the handlers up
to their first statement (a request that fails validation is `Refuse`). `Insert`, `Update`,
`ReadBack`, `Delete` and `ReadSource` are autocommitted statements. `UnsetStart`, `UnsetRow`,
`InsertCurrent`, `UpdateTarget` and `Commit` are the statements of `CreateAsCurrent` and
`UpdateAsCurrent`: the unset statement takes its rows from a snapshot, then locks and re-reads
them one by one, which is what READ COMMITTED does. `Abort` is a cancelled request context or a
lost connection anywhere; `DeadlockAbort` is PostgreSQL ending a cycle of waiting transactions.
A committed write may be answered with an error (`Report`), as its acknowledgement may be lost.
Offers' fields are one abstract value, tagged with the user who typed it. `wrote` and `published`
are history variables.

**Auth.** One step per statement or clock reading of a request. bcrypt is equality of passwords;
a JWT is its claims, and a client presents only signed ones. `RequireAuth` is `ValidateToken`
then `IsTokenRevoked`. `CleanupExpiredTokens` may run at any time, since any instance may start
at any time; `DbLead` is by how much the database's clock leads the servers'. The flag
`has_solar_panels` is not represented: nothing in the backend depends on it.

**ConsumptionStore.** `SaveHistory` accepts a body all of whose entries are valid; `UpsertMonth`
is one `INSERT ... ON CONFLICT DO UPDATE`, waiting for the row (or the place in the unique index)
if another transaction of the same user holds it; `Commit` installs all.

**ColdStart.** `Touches` lists the tables the statements of each of the eight migrations lock.
`CheckLedger` and `CreateLedger` are the two halves of `CREATE TABLE IF NOT EXISTS`, which is not
atomic between sessions. `ReadVersion` reads `MAX(version)` once, outside any transaction, as the
code does; `LockTable`, `RecordVersion` and `CommitMigration` are `applyMigration`. A failing
start panics inside `sync.Once` (`broken`: the Once is spent and the handler nil) or exits the
server, which a supervisor restarts. A migration that would conflict with one in progress is
modelled as waiting for its tables and then failing on the duplicate version.

**Billing.** Amounts are integers over a known denominator, so the arithmetic is exact, and
`Round2` is `round2` on them. `SimulateAnnual` is followed step by step: validation of each month,
`ListOffers`, then month after month of each offer. `Simulate` is one step: it shares nothing.
`DaysOf` is the calendar arithmetic of `time.Date(year, month+1, 0, ...)`.

**Dashboard.** One action per handler, as JavaScript runs each to its end. `tokens`, `valid` and
`history` are the server; `stored` is what localStorage keeps and `shown` what React shows;
`route`, `table` (`annualReq`, `Nothing` when the page is not mounted) and `notice` (the `saveHistory`
mutation) the screen; `cache` and `sim` the two queries; `flight` the requests that are under way, each
with the token it was sent with. A request is served (`ServeLogin`, `ServeLogout`, `ServeRefusal`,
`ServeRequest`) and its answer taken (`LoginAnswered`, ..., `RequestFailed`) in any order, or it
fails at any point, the server having done its part or not. Its field `waits` says who is left to
hear the answer: the mutation or query that sent it, only the callbacks the hook registered, or
nobody, the page having been loaded again. `Mount` and `Unmount` are what mounting the page does,
the effect that fills the table (`Dashboard.tsx:85`) included. TanStack Query (staleness,
refetching, garbage collection, cancelling, invalidation) is a library, modelled from the options
and callbacks with which the hooks use it; its retries are a slow answer. The table is one value:
the default, or what a user has typed.

`Habits` is a set of things the users, not the code, take care of, so that each claim can be made
with what it needs. *reload*: a page somebody has worked on is loaded again before the next login.
*wait*: nobody calculates before the saved table is there, and nobody calculates, follows a link or
reloads before the last save is answered, or after one has failed. On the instance of
`dashboard_careful`, `NobodysElse` (`OneIdentity`, `ShownIsOwn` and `HistoryIsOwn` together) and
`EndsForCause` hold with *reload* and are violated without it; `SavedIsTrue` and `SavedStaySaved` are violated without *wait* (section 4).

**AnnualView.** The charts keep no state that matters, so they are operators on the answer of
`Billing`, on which offers are current, on names, on today and on what the legend hides: `Entries`,
`CurrentTotal` and `Difference` are the drawer, `EnergyRows`, `PowerRows`, `SurplusRows` a receipt, which
guesses from prices of zero what the flags of the offer say (`MonthlyDetailDrawer.tsx:145`);
`RollingMonths`, `ChartLine`, `Clicked` and `Drawn` the line chart, whose points are keyed by name and
by month; `Bars` and `BarTotal` the stacked bars.

**Months.** `today` is the month it is; `hist` what the server has saved; `cache` the history query;
`table` the rows on screen, `None` while the page is not; `sources` the badges in localStorage;
`upload` and `reading` the modal and the files being parsed for it; `mine` and `last` the page's
simulation and the cached one; `picked` the simulation a selected line is of. An invoice is what its
text says: each number with how it is printed, as `ParseSpanishNumber` depends on that. `HandleFile`,
`FileParsed`, `AnotherFile`, `CloseUpload` and `HandleConfirm` are the modal; a file dropped while another
is parsed does not stop the other. `HandleAnnualSimulate` sends the save and the simulation together, as
the code does; `Serve` and `HistoryAnswered`, `SaveAnswered`, `SimulationAnswered`, `RequestFailed` come in
any order. `Mount` includes the effect that takes over a history in the cache. `hasty` records that
somebody did not wait (he calculated before the history was there or before the last save was read
back, or left the page while a save was under way) or that a save failed; `drafts` and `lost`, which
changes are not saved and which were thrown away.

**OffersPage.** `offers` is the server, a request at a time, which is what `OfferBook` promises of it;
`list` and `sim` the two queries; `form` what `showForm` and `editingOffer` say, with the values the form
was reset to; `flight` the requests whose promise has not been settled. A mutation that succeeds
invalidates the list, gives up a read under way for a new one, and is pending until it has ended,
since `onSuccess` returns the promise; `Settle` is `handleSubmit` after its `await`, that closes the form
open by then. Typing is not step by step: `Fillings` is what the form may hold when it is
submitted. `Elsewhere` is a write of another tab. `Podium`, `SortedOffers` and `Card` are the offers
page's ranking, `Top3`, `KpiCard` and `Hint` the Dashboard's. `sure` and `missed` say what this tab can
know, so that properties do not ask for the impossible.

## 3. What the runs show

| Run | Instance | Result |
|---|---|---|
| `offers_one_each` | two users with a session each, 2 ids | at most one current offer; no private content leaks into imports; a 404 changed nothing; isolation; implements `OfferBook` |
| `offers_two_tabs` | two sessions of one user, 2 ids | switching never leaves a user without a current offer; every request is answered |
| `offers_two_current` | the same | **refuted**: two overlapping switches leave two current offers |
| `auth` | 2 requests at a time, 2 names, e-mails and passwords, 1 token, clock up to 2 | no unexpired revoked token is admitted; tokens are earned; password changes are proven |
| `consumption_tabs` | two sessions of one user, 2 months, bodies of up to 2 entries | saves are atomic (implements `ConsumptionLog`); chronological saves never deadlock; every save is answered |
| `coldstart` | a serverless instance and a server, 2 faults | the ledger has no gaps and nothing is applied twice; serving means migrated; starts end, and somebody serves if nothing fails |
| `coldstart_broken` | two serverless instances, no faults | **refuted**: the loser of the race answers all later requests from a nil handler |
| `billing_exact` | 31 lists of up to 2 offers, 79 requests, three days to look on | bills add up; whole years; same prices, same bills; monotonicity; honest ranking; receipts are the bill; the views agree; the drawer ranks |
| `dashboard_careful` | two users, one value, 2 logins, 3 requests in flight, both habits | who is shown is whose token is sent, screen, cache and simulation are his, no one's consumption is saved as another's; "Datos guardados" is true; sessions end for a cause; what was saved is not replaced by defaults |
| `dashboard_cached` | the same, without reloading between sessions | **refuted**: the simulation on screen is of an earlier session's user |
| `offers_page` | one offer and room for two more, 2 writes, 2 requests in flight and a refetch, 4 fields edited | the list settles on what the server has; medals, cards and KPIs are right, the offers page showing none for a current offer that costs nothing; saving a form changes what was changed; forms close for their own submission; what the form lets through is accepted |
| `months` | a window of 2 months, 3 months in all, 4 files, 2 edits, imports or clicks | imports are faithful; the history fits the simulation; badges and the breakdown tell the truth; what is overwritten was badged |

A run checks what it takes a reader time to see. Type invariants and the lemmas' strengthenings that
TLAPS proves are stated in the modules and not run again: `TypeOK` of five modules
(`Months` and `OffersPage` check theirs as well), `LocksStayHome`, `RevocationOutlastsToken`. Each was checked by TLC before it was proved.

Bounds, and why they are enough. Two sessions are the least number that interleaves; the
properties speak of at most two requests of one user, or of one request against another
account's. Two ids give each user, or each session, a row to fight over, and the sequence running
out makes the failing statement happen. One token lets a request be under way with it while another
revokes it, and two instants let it expire and be cleaned up meanwhile. Two
months are enough for a cycle of waiting. Two instances meet in every step of the eight
migrations; two faults let a crash follow a lost connection. The prices of `MCBilling` are tenths
of a cent and the consumptions small, which makes every kind of rounding, halves included, occur; its
offers include flat ones stored with and without the prices they had as tiered ones, its days to look
on one on which the year billed is the year shown and two on which it is not.
Two logins let one user follow another in a tab; three requests in flight let a save and a
simulation meet the read, the logout or the earlier save they race with. In `offers_page` two
writes, of this tab or the other, meet each other, a read and a simulation; a third offer is what
separates the medals. Years cost 3 (the current offer), -1 (what is imported, for the surplus it credits) and 0 (what is
created in a blank form): two offers may cost the same, and the one made current less than nothing, or
exactly nothing while another costs less. The fields
edited are one text, a toggle, the price that a flat offer hides
and `is_current`, of which a negative, emptied or untouched value is all that validation
distinguishes (others behave like one of them). In `months` a window of two months stands for twelve
and the third month is the one a saved table has no row for; the four files are an invoice of the
window, one of the new month, one with a damaged table and one that is not a PDF; two user actions
let a save follow an edit or an import, and answers and refetches follow in any order. The bounds
`MaxId`, `MaxTokens`, `MaxClock`, `MaxEntries`, `MaxFaults` and `MaxFlight` of the proved modules are
constants, and the theorems hold for all their values. Symmetry is used in the `auth` run (requests,
names, e-mails, passwords) and the `Dashboard` runs (users), which check no liveness.

Fairness. `OfferStore` and `ConsumptionStore`: `SF(Work(s))`, since Go and PostgreSQL run a
request that can go on, and PostgreSQL grants a row lock in the order of arrival, so that a
waiting statement is not overtaken for ever; `WF(DeadlockAbort(s))`, since the deadlock detector
runs after `deadlock_timeout`. Arrivals and failures are not fair. `ColdStart`: `SF(Boot(i))` for
the same reasons, requests being what starts a serverless instance. `StartsEnd` asks that
every start ends, and that somebody serves unless there are faults. The modules of the browser state no
fairness and no liveness: a server need not answer, a user need not act.


## 4. Disagreements found

1. *Two current offers* (`offers_two_current`). `domain/offer.go:33` says only one offer can be
   current and that the service layer enforces it. `CreateAsCurrent` and `UpdateAsCurrent` each
   first unset what they see committed; two that overlap do not see each other. A partial unique
   index on `(user_id) WHERE is_current` would make the second fail.
2. *Nil handler* (`coldstart_broken`). A panic inside `once.Do` spends the `sync.Once`
   (`api/index.go:26-58`): a serverless instance that lost a migration race never recovers.
3. *Another user's simulation* (`dashboard_cached`). `useLastAnnualSimulation.ts:7` says its data is
   there only after the user has simulated "in the current session". The cache that holds it
   (`useAnnualSimulation.ts:13`) is created once for the page (`App.tsx:10`), and neither login nor
   logout (`AuthContext.tsx:41-59`) clears it: who signs in next in the same tab sees, on the offers
   page, the offers and costs of who was there before.

What else users must take care of, seen when a habit is taken away and documented nowhere to the
contrary. Without *reload*: the next user's Dashboard is filled from the previous one's cached
history and may be saved as his; a 401 or an answered logout of the old session ends the new one.
Without *wait*: "Calcular" saves whatever the table holds (`Dashboard.tsx:91`), the defaults if the
history has not come, over what was saved; two saves under way may be served in the other order, and
"Datos guardados" then speaks of the one that lost.

Without a run of their own:

- *Acknowledged logout.* `auth_handler.go:145` discards the error of `RevokeToken` and answers 204,
  although line 131 says that the endpoint "revokes the current JWT so it cannot be reused".
  `Auth` states it as `LogoutIsFinal`: checked in place of the properties of `Auth.cfg`, TLC refutes it
  in a few steps.
- *The window freezes.* `AnnualCostChart.tsx:21` says the chart's twelve months match "the same window
  used by MonthlyInputTable". They do until the first save: from then on the table is exactly the
  saved months (`Dashboard.tsx:85`), a month that has passed since never appears on it, and its invoice
  is "fuera del rango". The table that `HistoryFits` keeps short enough to be simulated is kept so by
  this. A user who calculates before the history is there adds the new months to it; once it is longer
  than a year the validation of the simulation refuses it with 422 and the page has no way to shorten it.
- *Badges.* They are kept apart from the rows (`Dashboard.tsx:82`): "Datos importados desde factura PDF"
  (`MonthlyInputTable.tsx:131`) stays on a row whose import was thrown away, by leaving the page unsaved
  or by a history that arrives later. `BadgeTrue` says so by its exception for `lost`.
- *Prices of zero.* "When the offer is flat-priced, mid and valley prices are stored as 0 in the DB"
  (`MonthlyDetailDrawer.tsx:143`) is not true of an offer that was tiered before: `OfferForm` hides the
  two prices and sends them all the same. Its receipt then shows tiers that were not billed.
  `ReceiptIsTheBill` holds for the offers that are as commented (`AsCommented`).
- *The wrong form closes.* `handleSubmit` closes whatever form is open when its `await` ends
  (`Offers.tsx:74`): one opened after a form was cancelled while it was being saved is closed, with
  what was typed. `FormKept` allows exactly this case.
- *The podium may be old.* The offers are ranked "cuando hay simulación disponible" (`README.md:19` of the
  repository), with whatever simulation the cache has: a later edit of a price changes the card and not
  the medal. `PodiumTrue` holds if nothing was written since the simulation.
- *A current offer that costs nothing.* The same line promises the order from cheapest to dearest and
  medals "para las tres más económicas". The medals go only to offers cheaper than the current one
  (`Offers.tsx:51`), so there may be fewer than three, the cheapest of all may have none, and without a
  current offer there are neither medals nor order. If the year of the current offer comes to exactly
  0.00, with the surplus sold in it, `Offers.tsx:37` treats it as not simulated: no order, no medal, no
  difference. `Dashboard.tsx:48-53` has no such guard and goes on recommending what costs less than
  nothing, at a percentage of "−Infinity%"; if the current total is below zero its percentage has the
  wrong sign (`Dashboard.tsx:60`). `PodiumTrue` says what each page does; without the case `free`, which asks
  that the two agree, TLC refutes it on the same instance.
- *Numbers without a comma.* `parseSpanishNumber` reads "1.234" as 1.234. `ImportFaithful` compares
  invoices whose thousands are printed with decimals (`Legible`).

Smaller ones seen while reading: `GenerateToken` says 24 hours
(`auth.go:63`), `tokenTTL` is one; "expired tokens can no longer be used regardless"
(`user_repository.go:104`) is not true of a request whose expiry was checked before a cleanup; the
remainder rule of a flat offer (`calculator_service.go:158`) is not "valley kWh x valley price"
(`domain/simulation.go:62`), and a flat month can show -0.01 for a valley without consumption; every
unique violation of `users` is reported as a taken username (`user_repository.go:39`); the comment on
`Calculate` speaks of the peak price, the code takes an average; `README.md:171` of the repository gives the power
term in €/kW·year times days/365, code and receipt multiply a price per kW and day by the days
(`calculator_service.go:107`); the KPI cards are keyed by the offer's name (`Dashboard.tsx:166`), which two
offers may share, like the lines of the chart.

## 5. What is proved

TLAPS checks, for every value of the constants:

- `OfferStoreProofs`
  - `TypeCorrect`: `Spec => []TypeOK`.
  - `LocksAreHome`: `Spec => []LocksStayHome`. The induction needs `LockInv`: also the rows a
    running unset has still to visit, and the committed versions of locked rows, are of the
    session's account, and no row is locked twice.
  - `AccountsAreIsolated`: `Spec => Isolation`, by a frame lemma: a step changes at most rows that
    the lock invariant gives to the session that takes it.
  - `StatementsImplementBook`: with one session per user, `Spec => ImplementsBook`. The refinement
    mapping is the committed table. `SwitchInv` says in which phase a transaction is: every current
    row of the user is either still in `todo` or locked with the flag lowered, so that at `Commit`
    the installed rows are exactly what `Put` writes.
  - `OnlyOneCurrent`: with one session per user, `Spec => []AtMostOneCurrent`, as a consequence of
    the refinement: `OfferBook` keeps the property and the mapping carries it over.
  - `NothingPrivateLeaks`: `Spec => []NoPrivateLeak`, any sessions. `SourceInv` says of every content,
    in a row, a draft or a request, that it is its owner's or was published, and of a row now public
    that its content is among the published: it is what `ReadSource` finds, whatever happens to the
    source between the two statements of an import.
  - `SwitchingKeepsOne`: `Spec => SwitchKeepsCurrent`, any number of tabs of one user. `SwitchesInv`: a
    transaction that reaches its commit has drafted the offer that it makes current.
  - `NotFoundIsTrue`: with one session per user, `Spec => []NotFoundWroteNothing`. `TruthInv`: a request
    that has written is at its read-back, and the row it reads back is there; another tab could
    delete it.
- `AuthProofs`
  - `TypeCorrect`; `RevocationsLast`: if `DbLead <= 0`, `[]RevocationOutlastsToken`;
    `RevokedTokensAreRefused`: if `DbLead <= 0`, `NoLiveReuse`. The strengthening says which labels a
    request of each kind can be at and that each such request has a signed token.
  - `TokensAreForWhoKnows` (`TokensAreEarned`) and `PasswordsChangeForWhoKnows` (`PasswordChangeProven`),
    whatever the clocks. `ProofInv` follows a request from statement to statement: the hash it has
    read was the account's, and once it is past the comparison its password was; what an account
    has had never shrinks, so a change that overtakes the request does not matter.
- `ConsumptionProofs`
  - `TypeCorrect`; `SavesImplementLog`: `Spec => ImplementsLog`; the invariant says that a
    transaction's draft is what the first `at - 1` entries of its body say, month by month.
  - `ChronologicalSavesNeverDeadlock`: any set of sessions whose bodies are chronological has one
    that waits for none of the others: the one waiting for the greatest month.
- `ColdStartProofs`
  - `TypeCorrect`, `LedgerHasNoGaps`, `MigrationsApplyOnce`, the two together as `LedgerStaysTrue`
    (`[]LedgerTrue`), and `ServedOnFullSchema`, from one invariant:
    the recorded versions are an initial segment, an instance is never more than one ahead of it,
    and an instance about to commit holds its tables, with the version after the last recorded
    being nobody else's.
- `BillingProofs`, for every tariff, tax, price, usage and length of a list
  - `LinesAddUp` (`[]BillsAddUp`), `BranchesAgree` (`[]SamePricesSameBills`), `TotalsGrow`
    (`[]UsingMoreCostsMore`). About `Round2`: `RoundNear` and `RoundScaled`, a rounded amount is within half
    a cent of the exact one over any common denominator; `RoundMonotone`, rounding reverses no order.
    `BillAdds` puts seven roundings over one denominator: their errors are three and a half cents at
    most, so the lines, whole cents, are three off at most; `TermsAdd` is the same for the periods.
    `DaysAre`: the calendar gives every month 28 to 31 days, so no term is negative for its length.
    `MoreCostsMore` and `SamePrices` are about `CalculateMonthly`.
  - `YearsAreWhole` (`[]WholeYear`), `RankingKeepsOrder` (`[]RankingHonest`). Both are about sums over the
    months of a bill, which `Billing` writes with `SumFunction`. `SumStep` and `SumSplit` say what the fold
    of the community modules does with one member more; by induction on the set follow `SumsNear` (two sums
    whose terms are near), `SumTelescopes` (the days of a year, from its calendar) and, for the charts,
    `SumAlong` (a sum in another order, without what is zero). The year totals are sums of rounded
    months, each within half a cent of the exact one.
  - `ReceiptsAreTrue` (`[]ReceiptIsTheBill`): line by line. A share of a rounded term, as a flat offer's
    periods are, is within two cents of quantity times price (`ShareNear`, `RestNear`: the last share is
    what the others leave, and carries both their errors).
  - `DrawerInOrder` (`[]DrawerRanks`) and `ScreensAgree` (`[]ViewsAgree`). `SortExists`: a strict total order of a
    finite set has a list in that order, a member standing where the number before it says, which makes
    of the `CHOOSE` in `Sorted` a list; `SortedOnce`: each member has one place in it. `OncePlaced`,
    `PointsAre` and `WindowOnce`: a request has a month once, and a window too, so what the chart keys by
    month and the drawer finds by month is one bill.
  - `BillingInv` carries these from one bill to all that are shown: the days filled in are those of
    validated months; the bills so far are those of the offer whose turn it is, month by month; the
    results those of the offers before it, each with the sum of its months as its year total; each
    single-period answer is some offer's.
- `DashboardProofs`
  - `TypeCorrect` and `IdentityIsOne` (`[]OneIdentity`), whatever the users' habits. The types need
    `TypeInv`: answers carry signed tokens, a login's its user's, and at most one login is under way.
  - `ShownStaysOwn`, `HistoryStaysOwn`: with *reload*, `[]ShownIsOwn` and `[]HistoryIsOwn`, from
    `SessionInv`: every request carries its user's token and that user's table; while somebody is
    shown, every request the page still waits for is of the session shown; a login under way is
    alone in flight, with empty caches. These are what a reload establishes and every step keeps.
  - `UsersStayApart`: with *reload*, `[]NobodysElse`, the three above together.
  - `SessionsEndForCause`: with *reload*, `EndsForCause`; the invariant adds that a request turned away
    had a token that is no longer valid, as tokens never become valid again.
  - `SavedNoticeIsTrue`, `TypedStaysTyped`: with *reload* and *wait*, `[]SavedIsTrue` and `SavedStaySaved`, from
    `CareInv`: one save at a time, which the page still attends to; the notice speaks of what the server
    has; a table that is there once the history has been read is it or typed since; and if what is
    saved was typed, so is what a read brings and what the cache keeps, or a read is on its way. The
    last two are what keep "Calcular" from saving the defaults.
- `OffersPageProofs`
  - `TypeCorrect` (`[]TypeOK`). `TypeInv`: a request has the shape `Request` gives it, kind and number tell
    requests apart, at most one read is under way, and what was submitted had passed the form.
  - `ListStaysCoherent` (`[]ListCoherent`), from `CoherentInv`: an answered read is what the server has, or
    a write was carried out since whose answer has still to come and will have the list read anew.
  - `FormsAreKept` (`FormKept`): a step that closes a form while a request ends is `Settle`, and
    `FormOfSubmission` says that a submission the form still waits for is of the form that is open.
  - `UntouchedFieldsStay` (`UntouchedStay`), from `SureInv`: a form opened on a coherent list was reset to
    what the server has for its offer, and so was the request sent from it, until somebody writes.
  - `RefusalsHaveCause` (`RefusedForCause`): `Valid` of the form, with the fields it shows, implies
    `Acceptable` of what is sent but for the hidden prices; `TypeInv` carries `Valid` to the server.
  - `PodiumIsTrue` (`[]PodiumTrue`), if what is stored at the beginning has one current offer at most
    (`OneCurrentAtFirst`). `SimInv`: the totals of a simulation that is sure are those of what the server
    has, in the cache and on their way. `OneCurrent`: `Put` leaves one current. Nothing is
    assumed of the prices: totals are any integers. `PodiumIs`: both podiums sort the same offers, those
    cheaper than the current one, but that the offers page has none when that one costs exactly nothing.
    `PlaceIs`: a sorted member has as many before it as its place says. `SegmentIs`: the
    cheaper offers, put in order, are the first of all of them, so medals and cards agree.
- `MonthsProofs`
  - `TypeCorrect` (`[]TypeOK`), from `TypeInv`: tables are functions from months to rows in every request,
    the cache and the page; the modal has something to confirm only if it was read.
  - `ImportsAreFaithful` (`ImportFaithful`): `LegibleRow` is the lemma on the conversions, that `RowOf` is what
    a legible invoice `Says`; the rest is that nothing but a confirmation closes the modal over a
    changed table.
  - `BreakdownIsCurrent` (`[]BreakdownCurrent`), from `PickedInv`: a line that was not picked in a hurry is of
    the simulation shown, and no simulation is under way that could replace it.
  - `HistoriesFit` (`[]HistoryFits`), `OverwritesAreMarked` (`OverwriteMarked`), `BadgesTellTrue` (`[]BadgeTrue`),
    from `HabitInv`. `FollowInv`, always: the table has the months of the history in the cache, and a
    row that differs from it is badged. As long as nobody is `hasty`: `OrderlyInv`, one save at a time,
    whose months are those of the history unless that is empty, and what was read is what is saved
    but for a save to be read back (so the months are the same for ever, and as few as at the
    beginning); `MarkedInv`, that a save differs from the history only in badged months. As long as no
    save was refused either: `DraftsInv` and `BadgeInv`, that a row that is no draft is the one read or
    being saved, and that an invoice badged is in the table, in a save or in the history.

Each of these invariants was first checked by TLC on the run of its module.

Assumptions, besides those named in the modules: `OneSessionPerUser` (`OfferStoreProofs`) where the code
needs it, as `offers_two_current` shows, and `DbLead <= 0`, the database's clock does not lead, where the
cleanup needs it; `"reload" \in Habits` or `{"reload", "wait"} \subseteq Habits` in the theorems about
`Dashboard` that say so, as without them TLC finds their properties violated; `OneCurrentAtFirst` in
`PodiumIsTrue`, for the reason of `offers_two_current`: with two current offers stored TLC finds `PodiumTrue`
violated, as both pages compare with the newest of them. The assumptions of the
modules are types and finiteness of the constants, and what is there at the beginning: in `OffersPage`
the offers stored are offers with the first ids, and `None` is no list of totals; in `AnnualView` a
request of no more than twelve months has none twice, as the table it is made from has not; in `Months` a history saved before is no longer than
a window, an amount an invoice prints is a number, and its VAT rate has no thousands.

Only model-checked. Liveness (`EveryRequestAnswered`, `StartsEnd`) is beyond the proof system; every
other property of a passing run is a theorem. The sums and sorts of `Billing`, `AnnualView` and
`OffersPage` are written so that the provers can reason about them: the theorems about folds and
induction that take an operator cannot be cited, so the sums are handled by an induction on finite
sets stated for the case, and a sorted list is chosen by its order and not computed.

## 6. Not modelled

- Rate limits, CORS and routing: static wiring of a library.
- Several tabs that share localStorage: no storage event is heard, so they would disagree on who is
  signed in and overwrite each other's badges. `OffersPage` has another tab, as somebody who writes to
  the server.
- Reloading in `Months` (it is in `Dashboard`): nothing but the badges would survive it, as on leaving the page and
  coming back after the cache has gone.
- Of the Dashboard, on which month the drawer is open, and the solar switch of the profile, a constant of
  `Months` and `OffersPage`. Of the offers, notes (a text that nothing depends on) and the loading of
  the public list. Of the KPI cards, the percentage and React's key.
- Layout, theme and routes: they keep nothing the rest depends on. `SimulationForm` and
  `SimulationResult` are imported by tests only.
- How pdf.js extracts a text and how regular expressions find numbers in it: `Months` begins with
  what they found.
- The connection pool: no handler holds a connection while it asks for a second one.
- float64: amounts are exact here; the error of a float64 sum of a dozen euro amounts is far below
  the half cent that `round2` looks at, unless an amount is within it of a half cent.
- Locks that the traffic of an already running version holds against a migration.

## 7. Plan

1. *(done)* `OfferBook`, `OfferStore`: the core. `Auth`. `ConsumptionLog`, `ConsumptionStore`.
   `ColdStart`. `Billing`. `Dashboard` for one tab. Their proofs but for `Billing`.
2. *(done)* `Months`: the rows, invoices and badges. `OffersPage`: the list, the form, the podiums.
   `AnnualView`: the charts and receipts.
3. `Tabs`: two tabs that share localStorage. Worth stating: what is saved under a token was typed
   under it; where that fails, the shortest way there.
4. *(done)* The proofs about `OfferStore`, `Auth` and `Dashboard` that were left, about `OffersPage` and
   `Months`, and about `Billing` and `AnnualView`, sums and sorts included.
5. Proofs: of `Auth`, `OfferStore` and `Dashboard`, further action properties as the runs come to check
   them.
