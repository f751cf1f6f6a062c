------------------------------- MODULE Dashboard -------------------------------
(***************************************************************************)
(* A browser tab and the server it talks to: the session (AuthContext,     *)
(* api/client.ts, LoginPage), the query cache (the hooks, on TanStack      *)
(* Query), the Dashboard page with its table of consumptions, and the      *)
(* server as far as the page can tell: tokens and one saved history per    *)
(* user.  Handlers run to their end (JavaScript); requests are served and  *)
(* answered in any order, or fail.                                         *)
(*                                                                         *)
(* The table is one value: the default one, or what a user has typed.      *)
(* The other queries (offers, profile) behave like that of the history     *)
(* but for the table they do not feed.                                     *)
(*                                                                         *)
(* An operator named Bug_X is the definition X with a plausible mistake in *)
(* the code it models; nothing uses it but the experiments that show which *)
(* property would notice that mistake.                                     *)
(***************************************************************************)
EXTENDS Naturals, Sequences, FiniteSets

CONSTANTS Users, Values,
          Default,      \* buildDefaultMonths: twelve months of zeros
          Nothing,      \* no value: no token, no table, no data
          Habits,       \* what users take care of, see below
          MaxTokens,    \* bound: logins in a behaviour
          MaxFlight     \* bound: requests in flight

Tables == {Default} \cup (Users \X Values)
Request == [kind: {"login", "logout", "history", "save", "simulate"},
            user: Users,                        \* for whom the page sent it
            token: 1..MaxTokens \cup {Nothing},
            table: Tables \cup {Nothing},
            status: {"sent", "ok", "refused"},
            \* who takes the answer: the query or the component's mutation that
            \* sent it, only the page (for a 401, and onSuccess), or nobody
            waits: {"caller", "page", "nobody"}]

(* "reload": a page on which somebody has worked is loaded again before    *)
(* the next login.  "wait": nobody calculates before the saved table is    *)
(* there; nobody calculates, follows a link or reloads before the last     *)
(* save is answered, and who reads "Error al guardar" reloads.             *)
ASSUME HabitsAssumption == Habits \subseteq {"reload", "wait"}
ASSUME BoundsAssumption == MaxTokens \in Nat \ {0} /\ MaxFlight \in Nat \ {0}
ASSUME ValuesAssumption ==
  /\ Nothing \notin Tables \cup Users \cup Nat
  /\ Default \notin Users \X Values

VARIABLES tokens,   \* server: whose token each is
          valid,    \* server: tokens neither expired nor revoked
          history,  \* server: the saved table of each user
          stored,   \* localStorage: auth_token (auth_user goes with it)
          shown,    \* the user React shows as signed in
          route,    \* "/" or "/offers"
          flight,   \* requests sent and not answered
          cache,    \* the consumptionHistory query
          sim,      \* the annualSimulation query: whose offers it compares
          table,    \* the Dashboard's annualReq, Nothing when unmounted
          notice    \* its saveHistory: "", "saving", "saved" or "failed", of what

vars == <<tokens, valid, history, stored, shown, route, flight, cache, sim,
          table, notice>>

server == <<tokens, valid, history>>
session == <<stored, shown>>
page == <<route, cache, sim, table, notice>>

-----------------------------------------------------------------------------
Unfetched == [data |-> Nothing, loaded |-> FALSE, ok |-> FALSE, fresh |-> FALSE]
NoNotice == [text |-> "", of |-> Nothing]

Send(kind, u, token, t) ==
  [kind |-> kind, user |-> u, token |-> token, table |-> t,
   status |-> "sent", waits |-> "caller"]

Of(kind) == {r \in flight : r.kind = kind}
Reads(requests) == {r \in requests : r.kind = "history" /\ r.waits = "caller"}
GiveUp(requests, kinds) ==
  {IF r.kind \in kinds /\ r.waits = "caller" THEN [r EXCEPT !.waits = "page"] ELSE r
     : r \in requests}
Mounted == table # Nothing
Settled == Of("save") = {} /\ notice.text # "failed"

(* The Dashboard leaves the screen, and with it its mutations' state: only *)
(* what the hooks do with an answer will still be done.                    *)
Unmount(rest) ==
  /\ table' = Nothing
  /\ notice' = NoNotice
  /\ flight' = GiveUp(rest, {"save", "simulate"})

(* The cached history not taken over. *)
Bug_Mount(u, token, rest, query) ==
  /\ table' = Default
  /\ notice' = NoNotice
  /\ flight' = IF query.fresh \/ Reads(rest) # {} THEN rest
               ELSE rest \cup {Send("history", u, token, Nothing)}

(* It appears for user u: the default table, then at once the effect that  *)
(* takes a cached history over; the query reads unless it is fresh or is   *)
(* being read already.                                                     *)
Mount(u, token, rest, query) ==
  /\ table' = IF query.ok /\ query.data # Nothing THEN query.data ELSE Default
  /\ notice' = NoNotice
  /\ flight' = IF query.fresh \/ Reads(rest) # {} THEN rest
               ELSE rest \cup {Send("history", u, token, Nothing)}

(* clearStoredToken, setUser(null): the login page replaces everything.    *)
LeaveSession(rest) ==
  /\ stored' = Nothing /\ shown' = Nothing
  /\ Unmount(rest)

-----------------------------------------------------------------------------
(* What users do *)

SubmitLogin(u) ==
  /\ shown = Nothing /\ Of("login") = {}
  /\ Len(tokens) < MaxTokens /\ Cardinality(flight) < MaxFlight
  /\ "reload" \in Habits => cache = Unfetched /\ sim = Nothing /\ flight = {}
  /\ flight' = flight \cup {Send("login", u, Nothing, Nothing)}
  /\ UNCHANGED <<server, session, page>>

Logout ==
  /\ shown # Nothing
  /\ IF stored = Nothing
       THEN LeaveSession(flight) /\ UNCHANGED <<route, cache, sim>>
       ELSE /\ Cardinality(flight) < MaxFlight
            /\ flight' = flight \cup {Send("logout", shown, stored, Nothing)}
            /\ UNCHANGED <<session, page>>
  /\ UNCHANGED server

(* A link of the Layout.                                                   *)
Navigate ==
  /\ shown # Nothing
  /\ "wait" \in Habits => Settled
  /\ IF route = "/"
       THEN route' = "/offers" /\ Unmount(flight)
       ELSE route' = "/" /\ Mount(shown, stored, flight, cache)
  /\ UNCHANGED <<server, session, cache, sim>>

(* A cell of the table, or an invoice: the others stay whose they were.    *)
Edit ==
  /\ Mounted
  /\ \E v \in Values : table' = <<IF table = Default THEN shown ELSE table[1], v>>
  /\ UNCHANGED <<server, session, route, flight, cache, sim, notice>>

(* The button is disabled while a simulation of this mount is pending.     *)
AnnualSimulate ==
  /\ Mounted
  /\ \A r \in Of("simulate") : r.waits # "caller"
  /\ "wait" \in Habits => Settled /\ cache.ok /\ Of("history") = {}
  /\ Cardinality(flight) + 2 <= MaxFlight
  /\ flight' = GiveUp(flight, {"save"})
               \cup {Send("save", shown, stored, table),
                     Send("simulate", shown, stored, Nothing)}
  /\ notice' = [text |-> "saving", of |-> table]
  /\ UNCHANGED <<server, session, route, cache, sim, table>>

(* The page is loaded again: what was in storage and a new cache.  A save  *)
(* or a logout under way may still reach the server.                       *)
Reload ==
  /\ "wait" \in Habits => Of("save") = {}
  /\ \E rest \in SUBSET {r \in Of("save") \cup Of("logout") : r.status = "sent"} :
       LET gone == {[r EXCEPT !.waits = "nobody"] : r \in rest}
           user == IF stored = Nothing THEN Nothing ELSE tokens[stored]
       IN  /\ shown' = user
           /\ IF user # Nothing /\ route = "/"
                THEN Mount(user, stored, gone, Unfetched)
                ELSE Unmount(gone)
  /\ cache' = Unfetched /\ sim' = Nothing
  /\ UNCHANGED <<server, stored, route>>

-----------------------------------------------------------------------------
(* The query cache by itself *)

(* staleTime has passed; the window gets the focus; gcTime has passed.     *)
GrowStale ==
  /\ cache.fresh
  /\ cache' = [cache EXCEPT !.fresh = FALSE]
  /\ UNCHANGED <<server, session, route, flight, sim, table, notice>>

Refetch ==
  /\ Mounted /\ ~cache.fresh /\ Reads(flight) = {}
  /\ Cardinality(flight) < MaxFlight
  /\ flight' = flight \cup {Send("history", shown, stored, Nothing)}
  /\ UNCHANGED <<server, session, page>>

Collect ==
  /\ ~Mounted /\ Reads(flight) = {}
  /\ cache' \in {cache, Unfetched}
  /\ sim' \in IF shown = Nothing THEN {sim, Nothing} ELSE {sim}
  /\ UNCHANGED <<server, session, route, flight, table, notice>>

-----------------------------------------------------------------------------
(* The server *)

Served(r, with) == flight' = (flight \ {r}) \cup {with}

ServeLogin(r) ==
  /\ r.kind = "login" /\ r.status = "sent"
  /\ tokens' = Append(tokens, r.user)
  /\ valid' = valid \cup {Len(tokens')}
  /\ Served(r, [r EXCEPT !.status = "ok", !.token = Len(tokens')])
  /\ UNCHANGED <<history, session, page>>

(* 204 whether or not the revocation is recorded.                          *)
ServeLogout(r) ==
  /\ r.kind = "logout" /\ r.status = "sent"
  /\ valid' \in {valid, valid \ {r.token}}
  /\ Served(r, [r EXCEPT !.status = "ok"])
  /\ UNCHANGED <<tokens, history, session, page>>

(* RequireAuth turns it away.                                              *)
ServeRefusal(r) ==
  /\ r.kind \in {"history", "save", "simulate"} /\ r.status = "sent"
  /\ r.token \notin valid
  /\ Served(r, [r EXCEPT !.status = "refused"])
  /\ UNCHANGED <<server, session, page>>

(* The history of all users alike. *)
Bug_ServeRequest(r) ==
  /\ r.kind \in {"history", "save", "simulate"} /\ r.status = "sent"
  /\ r.token \in valid
  /\ LET u == tokens[r.token] IN
       /\ history' = IF r.kind = "save" THEN [v \in Users |-> r.table] ELSE history
       /\ Served(r, [r EXCEPT !.status = "ok",
                              !.table = IF r.kind = "history" THEN history[u] ELSE @])
  /\ UNCHANGED <<tokens, valid, session, page>>

(* A simulation's months are those of the save sent with it; its answer is *)
(* told apart by whose offers it compares.                                 *)
ServeRequest(r) ==
  /\ r.kind \in {"history", "save", "simulate"} /\ r.status = "sent"
  /\ r.token \in valid
  /\ LET u == tokens[r.token] IN
       /\ history' = IF r.kind = "save" THEN [history EXCEPT ![u] = r.table]
                     ELSE history
       /\ Served(r, [r EXCEPT !.status = "ok",
                              !.table = IF r.kind = "history" THEN history[u] ELSE @])
  /\ UNCHANGED <<tokens, valid, session, page>>

(* tokenTTL has passed, or another device logged out.                      *)
Expire ==
  /\ \E k \in valid : valid' = valid \ {k}
  /\ UNCHANGED <<tokens, history, session, page, flight>>

-----------------------------------------------------------------------------
(* Answers reach the page *)

Taken(r, kind) ==
  r \in flight /\ r.kind = kind /\ r.status = "ok" /\ r.waits # "nobody"

(* handleSubmit and login: the new session's Dashboard finds the cache as  *)
(* the one before left it.                                                 *)
LoginAnswered(r) ==
  /\ Taken(r, "login")
  /\ stored' = r.token /\ shown' = r.user
  /\ IF route = "/"
       THEN Mount(r.user, r.token, flight \ {r}, cache)
       ELSE flight' = flight \ {r} /\ UNCHANGED <<table, notice>>
  /\ UNCHANGED <<server, route, cache, sim>>

(* After its await, answered or failed, logout clears whatever session     *)
(* there is by now.                                                        *)
LogoutAnswered(r) ==
  /\ r.kind = "logout" /\ r.waits # "nobody"
  /\ LeaveSession(flight \ {r})
  /\ UNCHANGED <<server, route, cache, sim>>

(* A query that has failed keeps its data.                                 *)
QueryFailed(r) ==
  cache' = IF r \in Reads(flight) THEN [cache EXCEPT !.ok = FALSE, !.fresh = FALSE]
           ELSE cache

(* 401: the auth:expired event, whichever token the request was sent with. *)
Expired(r) ==
  /\ r.status = "refused" /\ r.waits # "nobody"
  /\ LeaveSession(flight \ {r})
  /\ QueryFailed(r)
  /\ UNCHANGED <<server, route, sim>>

(* The effect that fills the table runs if the data differs, or is a       *)
(* success again, and only if there is any.                                *)
HistoryAnswered(r) ==
  /\ Taken(r, "history")
  /\ flight' = flight \ {r}
  /\ IF r.waits = "caller"
       THEN /\ cache' = [data |-> r.table, loaded |-> TRUE, ok |-> TRUE, fresh |-> TRUE]
            /\ table' = IF /\ Mounted /\ (~cache.ok \/ cache.data # r.table)
                           /\ r.table # Nothing
                          THEN r.table ELSE table
       ELSE UNCHANGED <<cache, table>>
  /\ UNCHANGED <<server, session, route, sim, notice>>

(* onSuccess: the query is invalid; if it is on screen it is read anew,    *)
(* and a read under way is given up unless it is the first.                *)
Invalidate(rest) ==
  /\ cache' = [cache EXCEPT !.fresh = FALSE]
  /\ flight' = IF ~Mounted \/ (~cache.loaded /\ Reads(rest) # {}) THEN rest
               ELSE GiveUp(rest, {"history"})
                    \cup {Send("history", shown, stored, Nothing)}

(* "Datos guardados" if it is the last save of this mount.                 *)
SaveAnswered(r) ==
  /\ Taken(r, "save")
  /\ notice' = IF r.waits = "caller" THEN [notice EXCEPT !.text = "saved"] ELSE notice
  /\ Invalidate(flight \ {r})
  /\ UNCHANGED <<server, session, route, sim, table>>

SimulationAnswered(r) ==
  /\ Taken(r, "simulate")
  /\ sim' = tokens[r.token]
  /\ flight' = flight \ {r}
  /\ UNCHANGED <<server, session, route, cache, table, notice>>

(* "Datos guardados" when the save has settled. *)
Bug_RequestFailed(r) ==
  /\ r.kind # "logout" /\ r.waits # "nobody"
  /\ QueryFailed(r)
  /\ notice' = IF r.kind = "save" /\ r.waits = "caller"
                 THEN [notice EXCEPT !.text = "saved"] ELSE notice
  /\ flight' = flight \ {r}
  /\ UNCHANGED <<server, session, route, sim, table>>

(* Any error taken for the end of the session. *)
Bug2_RequestFailed(r) ==
  /\ r.kind # "logout" /\ r.waits # "nobody"
  /\ QueryFailed(r)
  /\ LeaveSession(flight \ {r})
  /\ UNCHANGED <<server, route, sim>>

(* The request is lost, or its answer, or the answer is an error; a read   *)
(* that is tried again is a slow one.                                      *)
RequestFailed(r) ==
  /\ r.kind # "logout" /\ r.waits # "nobody"
  /\ QueryFailed(r)
  /\ notice' = IF r.kind = "save" /\ r.waits = "caller"
                 THEN [text |-> "failed", of |-> Nothing] ELSE notice
  /\ flight' = flight \ {r}
  /\ UNCHANGED <<server, session, route, sim, table>>

(* The page that sent it is gone.                                          *)
Unheard(r) ==
  /\ r.waits = "nobody"
  /\ flight' = flight \ {r}
  /\ UNCHANGED <<server, session, page>>

-----------------------------------------------------------------------------
Init ==
  /\ tokens = <<>> /\ valid = {} /\ history = [u \in Users |-> Nothing]
  /\ stored = Nothing /\ shown = Nothing /\ route \in {"/", "/offers"}
  /\ flight = {} /\ cache = Unfetched /\ sim = Nothing
  /\ table = Nothing /\ notice = NoNotice

User == \/ \E u \in Users : SubmitLogin(u)
        \/ Logout \/ Navigate \/ Edit \/ AnnualSimulate \/ Reload
Query == GrowStale \/ Refetch \/ Collect
Serve(r) == ServeLogin(r) \/ ServeLogout(r) \/ ServeRefusal(r) \/ ServeRequest(r)
Receive(r) ==
  \/ LoginAnswered(r) \/ LogoutAnswered(r) \/ Expired(r) \/ HistoryAnswered(r)
  \/ SaveAnswered(r) \/ SimulationAnswered(r) \/ RequestFailed(r) \/ Unheard(r)

Next == User \/ Query \/ Expire \/ \E r \in flight : Serve(r) \/ Receive(r)

Spec == Init /\ [][Next]_vars

-----------------------------------------------------------------------------
(* Properties *)

(* Every variable stays in its type, and the Dashboard is on screen when   *)
(* somebody is signed in and the route is its own.                         *)
TypeOK ==
  /\ tokens \in Seq(Users) /\ valid \subseteq 1..Len(tokens)
  /\ history \in [Users -> Tables \cup {Nothing}]
  /\ stored \in 1..Len(tokens) \cup {Nothing} /\ shown \in Users \cup {Nothing}
  /\ route \in {"/", "/offers"}
  /\ flight \subseteq Request
  /\ cache \in [data: Tables \cup {Nothing}, loaded: BOOLEAN, ok: BOOLEAN, fresh: BOOLEAN]
  /\ sim \in Users \cup {Nothing}
  /\ table \in Tables \cup {Nothing} /\ Mounted = (shown # Nothing /\ route = "/")
  /\ notice \in [text: {"", "saving", "saved", "failed"}, of: Tables \cup {Nothing}]

(* The user shown is the one whose token the requests carry: nobody acts   *)
(* on another's account by what the page says, through logouts, 401s and   *)
(* reloads in any order.                                                   *)
OneIdentity == shown = IF stored = Nothing THEN Nothing ELSE tokens[stored]

Own(t, u) == t \in {Nothing, Default} \/ t[1] = u

(* Who is signed in sees no other user's consumption: not in the table,    *)
(* nor waiting in the cache, nor in the simulation the charts show.        *)
ShownIsOwn ==
  shown # Nothing => /\ Own(table, shown) /\ Own(cache.data, shown)
                     /\ sim \in {Nothing, shown}

(* Nobody's consumption is ever saved as another user's.                   *)
HistoryIsOwn == \A u \in Users : Own(history[u], u)

(* All three: nobody acts as another user, sees what is another's or has   *)
(* it saved as her own.                                                    *)
NobodysElse == OneIdentity /\ ShownIsOwn /\ HistoryIsOwn

(* "Datos guardados" is shown only while the server holds what was saved.  *)
SavedIsTrue == notice.text = "saved" => history[shown] = notice.of

(* A session ends only if its token is no longer good or its own logout    *)
(* has been asked for.                                                     *)
EndsForCause ==
  [][shown # Nothing /\ shown' = Nothing
       => stored \notin valid \/ \E r \in Of("logout") : r.token = stored]_vars

(* What a user has typed and saved is not lost by saving a table nobody    *)
(* has typed: the default one, before or instead of the one to restore.    *)
Typed(t) == t \notin {Nothing, Default}
SavedStaySaved ==
  [][\A u \in Users : Typed(history[u]) => Typed(history'[u])]_vars

(* "data is only available after the user has run "Calcular ano completo"  *)
(* at least once in the current session" (useLastAnnualSimulation.ts): the *)
(* simulation on screen is not another user's.                             *)
LastSimulationIsOwn == shown # Nothing => sim \in {Nothing, shown}

=============================================================================
