--------------------------- MODULE DashboardProofs ---------------------------
(* Theorems about Dashboard, for every number of users, values, logins and *)
(* requests in flight.                                                     *)
EXTENDS Dashboard, TLAPS

-----------------------------------------------------------------------------
(* TypeOK is not inductive: answers must carry tokens that have been       *)
(* signed, and a login that has been sent must still fit.                  *)

Signed == 1..Len(tokens)

Sound(r) ==
  /\ r \in Request
  /\ r.token \in Signed \cup {Nothing}
  /\ r.status = "ok" => r.token \in Signed \/ r.kind = "logout"
  /\ r.kind = "login" /\ r.status = "ok" => tokens[r.token] = r.user

Room ==
  /\ Len(tokens) <= MaxTokens
  /\ \A r \in flight : r.kind = "login" /\ r.status = "sent" => Len(tokens) < MaxTokens
  /\ \A r, q \in flight : r.kind = "login" /\ q.kind = "login" => r = q

ServerType ==
  /\ tokens \in Seq(Users) /\ valid \subseteq Signed
  /\ history \in [Users -> Tables \cup {Nothing}]

SessionType == stored \in Signed \cup {Nothing} /\ shown \in Users \cup {Nothing}

CacheType ==
  /\ cache \in [data: Tables \cup {Nothing}, loaded: BOOLEAN, ok: BOOLEAN, fresh: BOOLEAN]
  /\ sim \in Users \cup {Nothing}

ScreenType ==
  /\ route \in {"/", "/offers"}
  /\ table \in Tables \cup {Nothing}
  /\ notice \in [text: {"", "saving", "saved", "failed"}, of: Tables \cup {Nothing}]
  /\ table # Nothing <=> shown # Nothing /\ route = "/"

FlightType == \A r \in flight : Sound(r)

TypeInv == ServerType /\ SessionType /\ CacheType /\ ScreenType /\ Room /\ FlightType

USE DEF Signed

LEMMA TypeInvGivesTypeOK == TypeInv => TypeOK
<1> SUFFICES ASSUME TypeInv PROVE TypeOK
  OBVIOUS
<1>1. flight \subseteq Request
  BY DEF TypeInv, FlightType, Sound
<1>2. Mounted = (shown # Nothing /\ route = "/")
  BY Zenon DEF TypeInv, ScreenType, Mounted
<1> QED
  BY <1>1, <1>2
  DEF TypeInv, TypeOK, ServerType, SessionType, CacheType, ScreenType

LEMMA ScreenStays ==
  ASSUME TypeInv, UNCHANGED <<shown, route, cache, sim, table, notice>>
  PROVE  CacheType' /\ ScreenType'
<1>1. CacheType'
  BY DEF TypeInv, CacheType
<1>2. ScreenType'
  BY DEF TypeInv, ScreenType
<1> QED
  BY <1>1, <1>2

LEMMA Distinct ==
  /\ Default # Nothing
  /\ Nothing \notin Users /\ Nothing \notin Nat /\ Nothing \notin Users \X Values
  BY ValuesAssumption DEF Tables

LEMMA LenTokens ==
  TypeInv => /\ Len(tokens) \in Nat /\ Len(tokens) <= MaxTokens
             /\ \A k \in Signed : tokens[k] \in Users
<1> SUFFICES ASSUME TypeInv PROVE tokens \in Seq(Users) /\ Len(tokens) <= MaxTokens
  OBVIOUS
<1> QED
  BY DEF TypeInv, ServerType, Room

(* What the page sends for a user with a token it has. *)
LEMMA SendSound ==
  ASSUME TypeInv, NEW u \in Users, NEW token \in Signed \cup {Nothing},
         NEW t \in Tables \cup {Nothing},
         NEW kind \in {"logout", "history", "save", "simulate"}
  PROVE  Sound(Send(kind, u, token, t)) /\ Send(kind, u, token, t).kind = kind
<1>1. token \in 1..MaxTokens \cup {Nothing}
  BY BoundsAssumption, LenTokens
<1>2. Send(kind, u, token, t) \in Request
  BY <1>1 DEF Send, Request
<1> QED
  BY <1>2 DEF Send, Sound

LEMMA GiveUpSound ==
  ASSUME NEW requests, \A r \in requests : Sound(r), NEW kinds,
         NEW q \in GiveUp(requests, kinds)
  PROVE  /\ Sound(q)
         /\ \E r \in requests : /\ q.kind = r.kind /\ q.user = r.user
                                /\ q.token = r.token /\ q.table = r.table
                                /\ q.status = r.status
                                /\ q.kind = "login" /\ kinds \cap {"login"} = {} => q = r
  BY DEF GiveUp, Sound, Request

LEMMA TypeInvInit == Init => TypeInv
<1> SUFFICES ASSUME Init PROVE TypeInv
  OBVIOUS
<1>1. tokens = <<>> /\ flight = {} /\ Len(tokens) = 0
  BY DEF Init
<1>2. Room
  BY <1>1, BoundsAssumption DEF Room
<1>3. cache \in [data: Tables \cup {Nothing}, loaded: BOOLEAN, ok: BOOLEAN, fresh: BOOLEAN]
  BY DEF Init, Unfetched
<1>4. notice \in [text: {"", "saving", "saved", "failed"}, of: Tables \cup {Nothing}]
  BY DEF Init, NoNotice
<1>5. ServerType /\ SessionType /\ CacheType
  BY <1>1, <1>3 DEF Init, ServerType, SessionType, CacheType
<1>6. ScreenType
  BY <1>4 DEF Init, ScreenType
<1> QED
  BY <1>1, <1>2, <1>5, <1>6 DEF TypeInv, FlightType

(* Every step but a login's leaves the logins as they are. *)
LEMMA FlightStep ==
  ASSUME TypeInv, UNCHANGED tokens,
         \A q \in flight' : Sound(q) /\ (q.kind = "login" => q \in flight)
  PROVE  Room' /\ FlightType'
<1>1. Room'
  BY DEF TypeInv, Room
<1>2. FlightType'
  BY DEF FlightType, Sound
<1> QED
  BY <1>1, <1>2

LEMMA KeepsLogins ==
  ASSUME NEW requests, NEW kinds, "login" \notin kinds, NEW q \in GiveUp(requests, kinds),
         \A r \in requests : Sound(r)
  PROVE  Sound(q) /\ (q.kind = "login" => q \in requests)
<1>1. PICK r \in requests :
        q = IF r.kind \in kinds /\ r.waits = "caller" THEN [r EXCEPT !.waits = "page"] ELSE r
  BY DEF GiveUp
<1>2. CASE q = r
  BY <1>2
<1>3. CASE q = [r EXCEPT !.waits = "page"] /\ r.kind \in kinds
  BY <1>3 DEF Sound, Request
<1> QED
  BY <1>1, <1>2, <1>3

(* The screen once the Dashboard has gone or has appeared. *)
ScreenParts ==
  /\ table \in Tables \cup {Nothing}
  /\ notice \in [text: {"", "saving", "saved", "failed"}, of: Tables \cup {Nothing}]

LEMMA UnmountType ==
  ASSUME NEW rest, \A r \in rest : Sound(r), Unmount(rest)
  PROVE  /\ ScreenParts' /\ table' = Nothing
         /\ \A q \in flight' : Sound(q) /\ (q.kind = "login" => q \in rest)
<1>1. ScreenParts' /\ table' = Nothing
  BY DEF Unmount, ScreenParts, NoNotice
<1>2. \A q \in flight' : Sound(q) /\ (q.kind = "login" => q \in rest)
  BY KeepsLogins DEF Unmount
<1> QED
  BY <1>1, <1>2

LEMMA MountType ==
  ASSUME TypeInv, NEW u \in Users, NEW token \in Signed \cup {Nothing},
         NEW rest, \A r \in rest : Sound(r),
         NEW query, query.data \in Tables \cup {Nothing}, Mount(u, token, rest, query)
  PROVE  /\ ScreenParts' /\ table' # Nothing
         /\ \A q \in flight' : Sound(q) /\ (q.kind = "login" => q \in rest)
<1>1. Default \in Tables
  BY DEF Tables
<1>2. ScreenParts' /\ table' # Nothing
  BY <1>1, Distinct DEF Mount, ScreenParts, NoNotice
<1>3. Sound(Send("history", u, token, Nothing))
      /\ Send("history", u, token, Nothing).kind = "history"
  BY SendSound
<1>4. \A q \in flight' : Sound(q) /\ (q.kind = "login" => q \in rest)
  BY <1>3 DEF Mount
<1> QED
  BY <1>2, <1>4

LEMMA CacheData == TypeInv => cache.data \in Tables \cup {Nothing}
  BY DEF TypeInv, CacheType

-----------------------------------------------------------------------------
(* What users do keeps the types. *)

LEMMA LeaveType ==
  ASSUME TypeInv, NEW rest \in SUBSET flight, LeaveSession(rest), UNCHANGED <<tokens, route>>
  PROVE  SessionType' /\ ScreenType' /\ Room' /\ FlightType'
<1>1. Unmount(rest) /\ \A r \in rest : Sound(r)
  BY DEF LeaveSession, TypeInv, FlightType
<1>2. ScreenParts' /\ table' = Nothing
      /\ \A q \in flight' : Sound(q) /\ (q.kind = "login" => q \in rest)
  BY <1>1, UnmountType
<1>3. Room' /\ FlightType'
  BY <1>2, FlightStep
<1>4. SessionType' /\ ScreenType'
  BY <1>2 DEF LeaveSession, SessionType, ScreenType, ScreenParts, TypeInv
<1> QED
  BY <1>3, <1>4

LEMMA SubmitLoginType ==
  ASSUME TypeInv, NEW u \in Users, SubmitLogin(u)
  PROVE  TypeInv'
<1> DEFINE login == Send("login", u, Nothing, Nothing)
<1>1. login \in Request /\ login.kind = "login" /\ login.status = "sent"
      /\ login.token = Nothing
  BY DEF Send, Request
<1>2. Sound(login)
  BY <1>1 DEF Sound
<1>3. flight' = flight \cup {login} /\ Len(tokens) < MaxTokens
      /\ \A r \in flight : r.kind # "login"
  BY DEF SubmitLogin, Of
<1>4. UNCHANGED <<tokens, valid, history, stored, shown, route, cache, sim, table, notice>>
  BY DEF SubmitLogin, server, session, page
<1>5. Room'
  BY <1>1, <1>3, <1>4, LenTokens DEF TypeInv, Room
<1>6. FlightType'
  BY <1>2, <1>3, <1>4 DEF TypeInv, FlightType, Sound
<1>7. ServerType' /\ SessionType'
  BY <1>4 DEF TypeInv, ServerType, SessionType
<1> QED
  BY <1>4, <1>5, <1>6, <1>7, ScreenStays DEF TypeInv

LEMMA LogoutType == ASSUME TypeInv, Logout PROVE TypeInv'
<1>1. ServerType' /\ CacheType' /\ UNCHANGED <<tokens, route>>
  BY DEF Logout, server, page, TypeInv, ServerType, CacheType
<1>2. CASE stored = Nothing
  BY <1>1, <1>2, LeaveType DEF Logout, TypeInv
<1>3. CASE stored # Nothing
  <2>1. shown \in Users /\ stored \in Signed
    BY <1>3 DEF Logout, TypeInv, SessionType
  <2>2. Sound(Send("logout", shown, stored, Nothing))
        /\ Send("logout", shown, stored, Nothing).kind = "logout"
    BY <2>1, SendSound
  <2>3. flight' = flight \cup {Send("logout", shown, stored, Nothing)}
        /\ UNCHANGED <<stored, shown, route, table, notice>>
    BY <1>3 DEF Logout, session, page
  <2>4. Room' /\ FlightType'
    BY <1>1, <2>2, <2>3, FlightStep DEF TypeInv, FlightType
  <2>5. SessionType' /\ ScreenType'
    BY <1>1, <2>3 DEF TypeInv, SessionType, ScreenType
  <2> QED
    BY <1>1, <2>4, <2>5 DEF TypeInv
<1> QED
  BY <1>2, <1>3

LEMMA NavigateType == ASSUME TypeInv, Navigate PROVE TypeInv'
<1>1. UNCHANGED <<tokens, valid, history, stored, shown, cache, sim>>
  BY DEF Navigate, server, session
<1>2. ServerType' /\ SessionType' /\ CacheType'
  BY <1>1 DEF TypeInv, ServerType, SessionType, CacheType
<1>3. shown \in Users /\ shown # Nothing /\ stored \in Signed \cup {Nothing}
      /\ \A r \in flight : Sound(r)
  BY DEF Navigate, TypeInv, SessionType, FlightType
<1>4. CASE route = "/"
  <2>1. route' = "/offers" /\ Unmount(flight)
    BY <1>4 DEF Navigate
  <2>2. ScreenParts' /\ table' = Nothing
        /\ \A q \in flight' : Sound(q) /\ (q.kind = "login" => q \in flight)
    BY <1>3, <2>1, UnmountType
  <2>3. Room' /\ FlightType'
    BY <1>1, <2>2, FlightStep
  <2>4. ScreenType'
    BY <2>1, <2>2 DEF ScreenType, ScreenParts
  <2> QED
    BY <1>2, <2>3, <2>4 DEF TypeInv
<1>5. CASE route # "/"
  <2>1. route' = "/" /\ Mount(shown, stored, flight, cache)
    BY <1>5 DEF Navigate
  <2>2. ScreenParts' /\ table' # Nothing
        /\ \A q \in flight' : Sound(q) /\ (q.kind = "login" => q \in flight)
    BY <1>3, <2>1, MountType, CacheData
  <2>3. Room' /\ FlightType'
    BY <1>1, <2>2, FlightStep
  <2>4. ScreenType'
    BY <1>1, <1>3, <2>1, <2>2 DEF ScreenType, ScreenParts
  <2> QED
    BY <1>2, <2>3, <2>4 DEF TypeInv
<1> QED
  BY <1>4, <1>5

LEMMA EditType == ASSUME TypeInv, Edit PROVE TypeInv'
<1>1. UNCHANGED <<tokens, valid, history, stored, shown, route, flight, cache, sim, notice>>
  BY DEF Edit, server, session
<1>2. shown \in Users /\ table \in Tables /\ table # Nothing
  BY DEF Edit, Mounted, TypeInv, SessionType, ScreenType
<1>3. PICK v \in Values : table' = <<IF table = Default THEN shown ELSE table[1], v>>
  BY DEF Edit
<1>4. table' \in Users \X Values
  BY <1>2, <1>3 DEF Tables
<1>5. table' \in Tables /\ table' # Nothing
  BY <1>4, Distinct DEF Tables
<1>6. Room' /\ FlightType'
  BY <1>1, FlightStep DEF TypeInv, FlightType
<1>7. ServerType' /\ SessionType' /\ CacheType'
  BY <1>1 DEF TypeInv, ServerType, SessionType, CacheType
<1>8. ScreenType'
  BY <1>1, <1>2, <1>5 DEF TypeInv, ScreenType
<1> QED
  BY <1>6, <1>7, <1>8 DEF TypeInv

LEMMA AnnualSimulateType == ASSUME TypeInv, AnnualSimulate PROVE TypeInv'
<1>1. UNCHANGED <<tokens, valid, history, stored, shown, route, cache, sim, table>>
  BY DEF AnnualSimulate, server, session
<1>2. shown \in Users /\ table \in Tables /\ stored \in Signed \cup {Nothing}
      /\ \A r \in flight : Sound(r)
  BY DEF AnnualSimulate, Mounted, TypeInv, SessionType, ScreenType, FlightType
<1> DEFINE save == Send("save", shown, stored, table)
           simulate == Send("simulate", shown, stored, Nothing)
<1>3. Sound(save) /\ save.kind = "save" /\ Sound(simulate) /\ simulate.kind = "simulate"
  BY <1>2, SendSound
<1>4. flight' = GiveUp(flight, {"save"}) \cup {save, simulate}
  BY DEF AnnualSimulate
<1>5. \A q \in GiveUp(flight, {"save"}) : Sound(q) /\ (q.kind = "login" => q \in flight)
  BY <1>2, KeepsLogins
<1> HIDE DEF save, simulate
<1>6. Room' /\ FlightType'
  BY <1>1, <1>3, <1>4, <1>5, FlightStep
<1>7. ServerType' /\ SessionType' /\ CacheType'
  BY <1>1 DEF TypeInv, ServerType, SessionType, CacheType
<1>8. notice' \in [text: {"", "saving", "saved", "failed"}, of: Tables \cup {Nothing}]
  BY <1>2 DEF AnnualSimulate
<1>9. ScreenType'
  BY <1>1, <1>8 DEF TypeInv, ScreenType
<1> QED
  BY <1>6, <1>7, <1>9 DEF TypeInv

LEMMA ReloadType == ASSUME TypeInv, Reload PROVE TypeInv'
<1>1. UNCHANGED <<tokens, valid, history, stored, route>>
      /\ cache' = Unfetched /\ sim' = Nothing
  BY DEF Reload, server
<1> DEFINE user == IF stored = Nothing THEN Nothing ELSE tokens[stored]
           Gone(rest) == {[r EXCEPT !.waits = "nobody"] : r \in rest}
<1>2. PICK rest \in SUBSET {r \in Of("save") \cup Of("logout") : r.status = "sent"} :
        /\ shown' = user
        /\ IF user # Nothing /\ route = "/"
             THEN Mount(user, stored, Gone(rest), Unfetched)
             ELSE Unmount(Gone(rest))
  BY DEF Reload
<1>3. user \in Users \cup {Nothing} /\ stored \in Signed \cup {Nothing}
  BY LenTokens DEF TypeInv, SessionType
<1>4. \A q \in Gone(rest) : Sound(q) /\ q.kind # "login"
  <2>1. SUFFICES ASSUME NEW r \in rest
                 PROVE  Sound([r EXCEPT !.waits = "nobody"])
                        /\ [r EXCEPT !.waits = "nobody"].kind # "login"
    OBVIOUS
  <2>2. Sound(r) /\ r.kind # "login"
    BY DEF Of, TypeInv, FlightType
  <2> QED
    BY <2>2 DEF Sound, Request
<1>5. Unfetched.data \in Tables \cup {Nothing}
      /\ Unfetched \in [data: Tables \cup {Nothing}, loaded: BOOLEAN, ok: BOOLEAN,
                        fresh: BOOLEAN]
  BY DEF Unfetched
<1>6. ScreenParts' /\ (table' # Nothing <=> user # Nothing /\ route = "/")
      /\ \A q \in flight' : Sound(q) /\ (q.kind = "login" => q \in Gone(rest))
  <2> HIDE DEF Gone
  <2>1. CASE user # Nothing /\ route = "/"
    <3>1. user \in Users /\ Mount(user, stored, Gone(rest), Unfetched)
      BY <1>2, <1>3, <2>1
    <3> HIDE DEF user
    <3> QED
      BY <1>3, <1>4, <1>5, <2>1, <3>1, MountType
  <2>2. CASE ~(user # Nothing /\ route = "/")
    <3>1. Unmount(Gone(rest))
      BY <1>2, <2>2
    <3> QED
      BY <1>4, <2>2, <3>1, UnmountType
  <2> QED
    BY <2>1, <2>2
<1>7. Room' /\ FlightType'
  BY <1>1, <1>4, <1>6, FlightStep
<1>8. ScreenType'
  BY <1>1, <1>2, <1>6 DEF ScreenType, ScreenParts, TypeInv
<1>9. ServerType' /\ SessionType' /\ CacheType'
  BY <1>1, <1>2, <1>3, <1>5 DEF TypeInv, ServerType, SessionType, CacheType
<1> QED
  BY <1>7, <1>8, <1>9 DEF TypeInv

LEMMA QueryType == ASSUME TypeInv, Query PROVE TypeInv'
<1>1. UNCHANGED <<tokens, valid, history, stored, shown, route, table, notice>>
  BY DEF Query, GrowStale, Refetch, Collect, server, session, page
<1>2. ServerType' /\ SessionType' /\ ScreenType'
  BY <1>1 DEF TypeInv, ServerType, SessionType, ScreenType
<1>3. Unfetched \in [data: Tables \cup {Nothing}, loaded: BOOLEAN, ok: BOOLEAN, fresh: BOOLEAN]
  BY DEF Unfetched
<1>4. CacheType'
  BY <1>3 DEF Query, GrowStale, Refetch, Collect, CacheType, TypeInv, page
<1>5. Room' /\ FlightType'
  <2>1. CASE Refetch
    <3>1. shown \in Users /\ stored \in Signed \cup {Nothing}
      BY <2>1 DEF Refetch, Mounted, TypeInv, SessionType, ScreenType
    <3>2. Sound(Send("history", shown, stored, Nothing))
          /\ Send("history", shown, stored, Nothing).kind = "history"
      BY <3>1, SendSound
    <3> QED
      BY <1>1, <2>1, <3>2, FlightStep DEF Refetch, TypeInv, FlightType
  <2>2. CASE GrowStale \/ Collect
    BY <1>1, <2>2, FlightStep DEF GrowStale, Collect, TypeInv, FlightType
  <2> QED
    BY <2>1, <2>2 DEF Query
<1> QED
  BY <1>2, <1>4, <1>5 DEF TypeInv

-----------------------------------------------------------------------------
(* So does the server. *)

(* A request served with the tokens there are. *)
LEMMA ServedType ==
  ASSUME TypeInv, NEW r \in flight, NEW q, Sound(q), q.kind # "login",
         Served(r, q), UNCHANGED tokens
  PROVE  Room' /\ FlightType'
  BY FlightStep DEF Served, TypeInv, FlightType

LEMMA ServeLoginType ==
  ASSUME TypeInv, NEW r \in flight, ServeLogin(r) PROVE TypeInv'
<1>1. PICK id : id = Len(tokens')
  OBVIOUS
<1> DEFINE q == [r EXCEPT !.status = "ok", !.token = id]
<1>2. /\ Sound(r) /\ r.kind = "login" /\ r.status = "sent" /\ r.user \in Users
      /\ UNCHANGED <<history, stored, shown, route, cache, sim, table, notice>>
      /\ tokens' = Append(tokens, r.user) /\ flight' = (flight \ {r}) \cup {q}
      /\ valid' = valid \cup {id}
  BY <1>1 DEF ServeLogin, Served, TypeInv, FlightType, Sound, Request, session, page
<1>3. /\ tokens' \in Seq(Users) /\ Len(tokens') = Len(tokens) + 1
      /\ Len(tokens) \in Nat /\ Len(tokens') <= MaxTokens
      /\ \A k \in Signed : k \in Signed' /\ tokens'[k] = tokens[k]
      /\ id \in Signed' /\ tokens'[id] = r.user
  BY <1>1, <1>2, LenTokens, BoundsAssumption DEF TypeInv, ServerType, Room
<1>4. id \in 1..MaxTokens
  BY <1>3, BoundsAssumption
<1>5. /\ q \in Request /\ q.kind = "login" /\ q.status = "ok" /\ q.user = r.user
      /\ q.token = id
  BY <1>2, <1>4 DEF Sound, Request
<1> HIDE DEF q
<1>6. Sound(q)'
  BY <1>3, <1>5 DEF Sound
<1>7. \A p \in flight : Sound(p)'
  BY <1>3 DEF TypeInv, FlightType, Sound
<1>8. FlightType'
  BY <1>2, <1>6, <1>7 DEF FlightType
<1>9. Room'
  BY <1>2, <1>3, <1>5 DEF TypeInv, Room
<1>10. ServerType' /\ SessionType'
  BY <1>2, <1>3 DEF TypeInv, ServerType, SessionType
<1>11. CacheType' /\ ScreenType'
  BY <1>2 DEF TypeInv, CacheType, ScreenType
<1> QED
  BY <1>8, <1>9, <1>10, <1>11 DEF TypeInv

LEMMA ServeType ==
  ASSUME TypeInv, NEW r \in flight, ServeLogout(r) \/ ServeRefusal(r) \/ ServeRequest(r)
  PROVE  TypeInv'
<1>1. UNCHANGED <<tokens, stored, shown, route, cache, sim, table, notice>>
  BY DEF ServeLogout, ServeRefusal, ServeRequest, server, session, page
<1>2. SessionType' /\ CacheType' /\ ScreenType'
  BY <1>1, ScreenStays DEF TypeInv, SessionType
<1>3. Sound(r)
  BY DEF TypeInv, FlightType
<1>4. CASE ServeLogout(r)
  <2>1. Sound([r EXCEPT !.status = "ok"]) /\ [r EXCEPT !.status = "ok"].kind # "login"
    BY <1>3, <1>4 DEF ServeLogout, Sound, Request
  <2>2. Room' /\ FlightType'
    BY <1>1, <1>4, <2>1, ServedType DEF ServeLogout
  <2>3. ServerType'
    BY <1>1, <1>4 DEF ServeLogout, TypeInv, ServerType
  <2> QED
    BY <1>2, <2>2, <2>3 DEF TypeInv
<1>5. CASE ServeRefusal(r)
  <2>1. /\ Sound([r EXCEPT !.status = "refused"])
        /\ [r EXCEPT !.status = "refused"].kind # "login"
    BY <1>3, <1>5 DEF ServeRefusal, Sound, Request
  <2>2. Room' /\ FlightType'
    BY <1>1, <1>5, <2>1, ServedType DEF ServeRefusal
  <2>3. ServerType'
    BY <1>1, <1>5 DEF ServeRefusal, TypeInv, ServerType, server
  <2> QED
    BY <1>2, <2>2, <2>3 DEF TypeInv
<1>6. CASE ServeRequest(r)
  <2> DEFINE u == tokens[r.token]
             q == [r EXCEPT !.status = "ok",
                            !.table = IF r.kind = "history" THEN history[u] ELSE @]
  <2>1. /\ r.token \in Signed /\ u \in Users /\ history[u] \in Tables \cup {Nothing}
        /\ r.table \in Tables \cup {Nothing} /\ r.kind # "login"
    BY <1>3, <1>6, LenTokens
    DEF ServeRequest, TypeInv, ServerType, Sound, Request
  <2>2. Sound(q) /\ q.kind # "login"
    <3> DEFINE t == IF r.kind = "history" THEN history[u] ELSE r.table
    <3>1. t \in Tables \cup {Nothing} /\ q = [r EXCEPT !.status = "ok", !.table = t]
      BY <2>1
    <3> HIDE DEF t, q
    <3>2. r \in Request /\ r.token \in Signed /\ r.kind # "login"
      BY <1>3, <2>1 DEF Sound
    <3>3. /\ q \in Request /\ q.token = r.token /\ q.kind = r.kind
      BY <3>1, <3>2 DEF Request
    <3> QED
      BY <3>2, <3>3 DEF Sound
  <2>3. Served(r, q)
    BY <1>6 DEF ServeRequest
  <2>4. Room' /\ FlightType'
    <3> HIDE DEF q
    <3> QED BY <1>1, <2>2, <2>3, ServedType
  <2>5. /\ valid' = valid
        /\ history' = IF r.kind = "save" THEN [history EXCEPT ![u] = r.table] ELSE history
    BY <1>6 DEF ServeRequest
  <2>6. ServerType'
    BY <1>1, <2>1, <2>5 DEF TypeInv, ServerType
  <2> QED
    BY <1>2, <2>4, <2>6 DEF TypeInv
<1> QED
  BY <1>4, <1>5, <1>6

LEMMA ExpireType == ASSUME TypeInv, Expire PROVE TypeInv'
<1>1. UNCHANGED <<tokens, history, stored, shown, route, flight, cache, sim, table, notice>>
      /\ valid' \subseteq valid
  BY DEF Expire, session, page
<1>2. Room' /\ FlightType'
  BY <1>1, FlightStep DEF TypeInv, FlightType
<1>3. ServerType' /\ SessionType'
  BY <1>1 DEF TypeInv, ServerType, SessionType
<1> QED
  BY <1>1, <1>2, <1>3, ScreenStays DEF TypeInv

-----------------------------------------------------------------------------
(* And so do answers. *)

LEMMA LoginAnsweredType ==
  ASSUME TypeInv, NEW r \in flight, LoginAnswered(r) PROVE TypeInv'
<1>1. /\ UNCHANGED <<tokens, valid, history, route, cache, sim>>
      /\ stored' = r.token /\ shown' = r.user
  BY DEF LoginAnswered, server
<1>2. /\ r.user \in Users /\ r.token \in Signed
      /\ \A q \in flight \ {r} : Sound(q)
  BY DEF LoginAnswered, Taken, TypeInv, FlightType, Sound, Request
<1>3. ServerType' /\ SessionType' /\ CacheType'
  BY <1>1, <1>2 DEF TypeInv, ServerType, SessionType, CacheType
<1>4. CASE route = "/"
  <2>1. Mount(r.user, r.token, flight \ {r}, cache)
    BY <1>4 DEF LoginAnswered
  <2>2. ScreenParts' /\ table' # Nothing
        /\ \A q \in flight' : Sound(q) /\ (q.kind = "login" => q \in flight \ {r})
    BY <1>2, <2>1, MountType, CacheData
  <2>3. Room' /\ FlightType'
    BY <1>1, <2>2, FlightStep
  <2>4. ScreenType'
    BY <1>1, <1>2, <1>4, <2>2, Distinct DEF ScreenType, ScreenParts
  <2> QED
    BY <1>3, <2>3, <2>4 DEF TypeInv
<1>5. CASE route # "/"
  <2>1. UNCHANGED <<table, notice>> /\ flight' = flight \ {r}
    BY <1>5 DEF LoginAnswered
  <2>2. Room' /\ FlightType'
    BY <1>1, <1>2, <2>1, FlightStep
  <2>3. ScreenType'
    BY <1>1, <1>5, <2>1 DEF TypeInv, ScreenType
  <2> QED
    BY <1>3, <2>2, <2>3 DEF TypeInv
<1> QED
  BY <1>4, <1>5

LEMMA QueryFailedType ==
  ASSUME TypeInv, NEW r, QueryFailed(r), UNCHANGED sim PROVE CacheType'
  BY DEF QueryFailed, TypeInv, CacheType

LEMMA SessionEndsType ==
  ASSUME TypeInv, NEW r \in flight, LogoutAnswered(r) \/ Expired(r) PROVE TypeInv'
<1>1. UNCHANGED <<tokens, valid, history, route, sim>> /\ LeaveSession(flight \ {r})
  BY DEF LogoutAnswered, Expired, server
<1>2. SessionType' /\ ScreenType' /\ Room' /\ FlightType'
  BY <1>1, LeaveType
<1>3. CacheType'
  BY <1>1, QueryFailedType DEF LogoutAnswered, Expired, TypeInv, CacheType
<1>4. ServerType'
  BY <1>1 DEF TypeInv, ServerType
<1> QED
  BY <1>2, <1>3, <1>4 DEF TypeInv

(* An answer that is only taken note of. *)
LEMMA NotedType ==
  ASSUME TypeInv, NEW r \in flight, flight' = flight \ {r},
         UNCHANGED <<tokens, valid, history, stored, shown, route>>,
         CacheType', ScreenType'
  PROVE  TypeInv'
<1>1. Room' /\ FlightType'
  BY FlightStep DEF TypeInv, FlightType
<1>2. ServerType' /\ SessionType'
  BY DEF TypeInv, ServerType, SessionType
<1> QED
  BY <1>1, <1>2 DEF TypeInv

LEMMA HistoryAnsweredType ==
  ASSUME TypeInv, NEW r \in flight, HistoryAnswered(r) PROVE TypeInv'
<1>1. /\ UNCHANGED <<tokens, valid, history, stored, shown, route, sim, notice>>
      /\ flight' = flight \ {r}
  BY DEF HistoryAnswered, server, session
<1>2. r.table \in Tables \cup {Nothing}
  BY DEF TypeInv, FlightType, Sound, Request
<1>3. CacheType'
  <2>1. CASE r.waits = "caller"
    <3>1. cache' = [data |-> r.table, loaded |-> TRUE, ok |-> TRUE, fresh |-> TRUE]
      BY <2>1 DEF HistoryAnswered
    <3> QED
      BY <1>1, <1>2, <3>1 DEF TypeInv, CacheType
  <2>2. CASE r.waits # "caller"
    BY <1>1, <2>2 DEF HistoryAnswered, TypeInv, CacheType
  <2> QED
    BY <2>1, <2>2
<1>4. table' \in Tables \cup {Nothing} /\ (table' # Nothing <=> table # Nothing)
  BY <1>2 DEF HistoryAnswered, Mounted, TypeInv, ScreenType
<1>5. ScreenType'
  BY <1>1, <1>4 DEF TypeInv, ScreenType
<1> QED
  BY <1>1, <1>3, <1>5, NotedType

LEMMA SaveAnsweredType ==
  ASSUME TypeInv, NEW r \in flight, SaveAnswered(r) PROVE TypeInv'
<1>1. UNCHANGED <<tokens, valid, history, stored, shown, route, sim, table>>
      /\ Invalidate(flight \ {r})
  BY DEF SaveAnswered, server, session
<1>2. notice' \in [text: {"", "saving", "saved", "failed"}, of: Tables \cup {Nothing}]
  BY DEF SaveAnswered, TypeInv, ScreenType
<1>3. ServerType' /\ SessionType' /\ ScreenType'
  BY <1>1, <1>2 DEF TypeInv, ServerType, SessionType, ScreenType
<1>4. CacheType'
  BY <1>1 DEF Invalidate, TypeInv, CacheType
<1>5. \A q \in flight \ {r} : Sound(q)
  BY DEF TypeInv, FlightType
<1>6. CASE flight' = flight \ {r}
  BY <1>1, <1>3, <1>4, <1>6, NotedType
<1>7. CASE /\ Mounted
           /\ flight' = GiveUp(flight \ {r}, {"history"})
                        \cup {Send("history", shown, stored, Nothing)}
  <2>1. shown \in Users /\ stored \in Signed \cup {Nothing}
    BY <1>7 DEF Mounted, TypeInv, SessionType, ScreenType
  <2>2. Sound(Send("history", shown, stored, Nothing))
        /\ Send("history", shown, stored, Nothing).kind = "history"
    BY <2>1, SendSound
  <2>3. \A q \in GiveUp(flight \ {r}, {"history"}) :
          Sound(q) /\ (q.kind = "login" => q \in flight \ {r})
    BY <1>5, KeepsLogins
  <2>4. Room' /\ FlightType'
    BY <1>1, <1>7, <2>2, <2>3, FlightStep
  <2> QED
    BY <1>3, <1>4, <2>4 DEF TypeInv
<1> QED
  BY <1>1, <1>6, <1>7 DEF Invalidate

LEMMA NotedAnswersType ==
  ASSUME TypeInv, NEW r \in flight,
         SimulationAnswered(r) \/ RequestFailed(r) \/ Unheard(r)
  PROVE  TypeInv'
<1>1. /\ UNCHANGED <<tokens, valid, history, stored, shown, route, table>>
      /\ flight' = flight \ {r}
  BY DEF SimulationAnswered, RequestFailed, Unheard, server, session, page
<1>2. Sound(r)
  BY DEF TypeInv, FlightType
<1>3. CacheType'
  <2>1. CASE SimulationAnswered(r)
    <3>1. tokens[r.token] \in Users
      BY <1>2, <2>1, LenTokens DEF SimulationAnswered, Taken, Sound
    <3> QED
      BY <2>1, <3>1 DEF SimulationAnswered, TypeInv, CacheType
  <2>2. CASE RequestFailed(r)
    BY <2>2, QueryFailedType DEF RequestFailed
  <2>3. CASE Unheard(r)
    BY <2>3 DEF Unheard, page, TypeInv, CacheType
  <2> QED
    BY <2>1, <2>2, <2>3
<1>4. notice' \in [text: {"", "saving", "saved", "failed"}, of: Tables \cup {Nothing}]
  <2>1. notice' = notice \/ notice' = [text |-> "failed", of |-> Nothing]
    <3>1. CASE RequestFailed(r)
      BY <3>1 DEF RequestFailed
    <3>2. CASE SimulationAnswered(r) \/ Unheard(r)
      BY <3>2 DEF SimulationAnswered, Unheard, page
    <3> QED
      BY <3>1, <3>2
  <2>2. notice \in [text: {"", "saving", "saved", "failed"}, of: Tables \cup {Nothing}]
    BY DEF TypeInv, ScreenType
  <2>3. CASE notice' = notice
    BY <2>2, <2>3
  <2>4. CASE notice' = [text |-> "failed", of |-> Nothing]
    BY <2>4
  <2> QED
    BY <2>1, <2>3, <2>4
<1>5. ScreenType'
  BY <1>1, <1>4 DEF TypeInv, ScreenType
<1> QED
  BY <1>1, <1>3, <1>5, NotedType

LEMMA TypeInvStep == TypeInv /\ [Next]_vars => TypeInv'
<1> SUFFICES ASSUME TypeInv, [Next]_vars PROVE TypeInv'
  OBVIOUS
<1>1. CASE User
  BY <1>1, SubmitLoginType, LogoutType, NavigateType, EditType, AnnualSimulateType,
     ReloadType DEF User
<1>2. CASE Query
  BY <1>2, QueryType
<1>3. CASE Expire
  BY <1>3, ExpireType
<1>4. ASSUME NEW r \in flight, Serve(r) PROVE TypeInv'
  BY <1>4, ServeLoginType, ServeType DEF Serve
<1>5. ASSUME NEW r \in flight, Receive(r) PROVE TypeInv'
  BY <1>5, LoginAnsweredType, SessionEndsType, HistoryAnsweredType, SaveAnsweredType,
     NotedAnswersType DEF Receive
<1>6. CASE UNCHANGED vars
  <2>1. Room' /\ FlightType'
    BY <1>6, FlightStep DEF vars, TypeInv, FlightType
  <2>2. ServerType' /\ SessionType'
    BY <1>6 DEF vars, TypeInv, ServerType, SessionType
  <2> QED
    BY <1>6, <2>1, <2>2, ScreenStays DEF vars, TypeInv
<1> QED
  BY <1>1, <1>2, <1>3, <1>4, <1>5, <1>6 DEF Next

(* The inductive form: the types, with what the answers in flight carry.   *)
THEOREM TypeInvariant == Spec => []TypeInv
  BY TypeInvInit, TypeInvStep, PTL DEF Spec

(* The variables keep their types, and the Dashboard is on screen when a   *)
(* user is signed in and the route is its own.                             *)
THEOREM TypeCorrect == Spec => []TypeOK
  BY TypeInvariant, TypeInvGivesTypeOK, PTL

-----------------------------------------------------------------------------
(* Who is shown and whose token is stored. *)

LEMMA SessionEndsIdentity ==
  ASSUME NEW rest, LeaveSession(rest) PROVE OneIdentity'
  BY DEF LeaveSession, OneIdentity

LEMMA IdentityStep == TypeInv /\ OneIdentity /\ [Next]_vars => OneIdentity'
<1> SUFFICES ASSUME TypeInv, OneIdentity, [Next]_vars PROVE OneIdentity'
  OBVIOUS
<1>1. CASE UNCHANGED <<tokens, stored, shown>>
  BY <1>1 DEF OneIdentity
<1>2. CASE Logout
  BY <1>2, <1>1, SessionEndsIdentity DEF Logout, server, session
<1>3. CASE Reload
  BY <1>3 DEF Reload, server, OneIdentity
<1>4. CASE User
  BY <1>1, <1>2, <1>3, <1>4
  DEF User, SubmitLogin, Navigate, Edit, AnnualSimulate, server, session
<1>5. CASE Query \/ Expire \/ UNCHANGED vars
  BY <1>1, <1>5 DEF Query, GrowStale, Refetch, Collect, Expire, vars, server, session
<1>6. ASSUME NEW r \in flight, Serve(r) PROVE OneIdentity'
  <2>1. CASE ServeLogin(r)
    <3>1. tokens' = Append(tokens, r.user) /\ UNCHANGED <<stored, shown>>
      BY <2>1 DEF ServeLogin, session
    <3>2. \A k \in Signed : tokens'[k] = tokens[k]
      BY <3>1 DEF TypeInv, ServerType
    <3> QED
      BY <3>1, <3>2 DEF OneIdentity, TypeInv, SessionType
  <2> QED
    BY <1>1, <1>6, <2>1 DEF Serve, ServeLogout, ServeRefusal, ServeRequest, server, session
<1>7. ASSUME NEW r \in flight, Receive(r) PROVE OneIdentity'
  <2>1. CASE LoginAnswered(r)
    <3>1. r.token \in Signed /\ tokens[r.token] = r.user
      BY <2>1 DEF LoginAnswered, Taken, TypeInv, FlightType, Sound
    <3> QED
      BY <2>1, <3>1, Distinct DEF LoginAnswered, server, OneIdentity
  <2>2. CASE LogoutAnswered(r) \/ Expired(r)
    BY <2>2, SessionEndsIdentity DEF LogoutAnswered, Expired
  <2> QED
    BY <1>1, <1>7, <2>1, <2>2
    DEF Receive, HistoryAnswered, SaveAnswered, SimulationAnswered, RequestFailed,
        Unheard, server, session
<1> QED
  BY <1>4, <1>5, <1>6, <1>7 DEF Next

(* The page shows the user whose token its requests carry, in every order  *)
(* of answers, whatever users take care of.                                *)
THEOREM IdentityIsOne == Spec => []OneIdentity
<1>1. Init => OneIdentity
  BY DEF Init, OneIdentity
<1> QED
  BY <1>1, IdentityStep, TypeInvariant, PTL DEF Spec

-----------------------------------------------------------------------------
(* If pages are loaded again between sessions, everything on the page is   *)
(* of the session it shows, and so is every request it still waits for.    *)

(* A request carries its user's token and what that user may have.         *)
Mine(r) ==
  r.kind # "login" => r.token \in Signed /\ tokens[r.token] = r.user /\ Own(r.table, r.user)

Current(r) ==
  r.kind # "login" /\ (r.waits # "nobody" => r.user = shown /\ r.token = stored)

LoginAlone ==
  \A r \in flight : r.kind = "login" =>
    r.waits # "nobody" /\ flight = {r} /\ cache = Unfetched /\ sim = Nothing

ScreenOwn == shown # Nothing => Own(table, shown)
CacheOwn == shown # Nothing => Own(cache.data, shown) /\ sim \in {Nothing, shown}
FlightOwn ==
  /\ \A r \in flight : Mine(r)
  /\ shown # Nothing => \A r \in flight : Current(r)

OwnInv == HistoryIsOwn /\ ScreenOwn /\ CacheOwn /\ FlightOwn /\ LoginAlone

LEMMA OwnInvInit == Init => OwnInv
  BY DEF Init, OwnInv, HistoryIsOwn, ScreenOwn, CacheOwn, FlightOwn, LoginAlone, Own

LEMMA StoredIsShown ==
  TypeInv /\ OneIdentity /\ shown # Nothing
    => shown \in Users /\ stored \in Signed /\ tokens[stored] = shown
  BY DEF TypeInv, SessionType, OneIdentity

(* What the page sends is its session's. *)
LEMMA SendOwn ==
  ASSUME NEW u, NEW token \in Signed, tokens[token] = u, NEW kind, NEW t, Own(t, u)
  PROVE  /\ Mine(Send(kind, u, token, t))
         /\ u = shown /\ token = stored /\ kind # "login" => Current(Send(kind, u, token, t))
         /\ Send(kind, u, token, t).kind = kind
         /\ Send(kind, u, token, t).user = u
         /\ Send(kind, u, token, t).token = token
  BY DEF Send, Mine, Current

LEMMA GiveUpOwn ==
  ASSUME NEW requests, \A r \in requests : Sound(r) /\ Mine(r),
         NEW kinds, NEW q \in GiveUp(requests, kinds)
  PROVE  /\ Mine(q)
         /\ \E r \in requests : /\ q.kind = r.kind /\ q.token = r.token
                                /\ q.user = r.user /\ q.status = r.status
                                /\ q.waits = "nobody" <=> r.waits = "nobody"
<1>1. PICK r \in requests :
        q = IF r.kind \in kinds /\ r.waits = "caller" THEN [r EXCEPT !.waits = "page"] ELSE r
  BY DEF GiveUp
<1>2. CASE q = r
  BY <1>2
<1>3. CASE q = [r EXCEPT !.waits = "page"] /\ r.waits = "caller"
  <2>1. /\ q.kind = r.kind /\ q.token = r.token /\ q.user = r.user /\ q.status = r.status
        /\ q.table = r.table /\ q.waits = "page"
    BY <1>3 DEF Sound, Request
  <2> QED
    BY <1>3, <2>1 DEF Mine
<1> QED
  BY <1>1, <1>2, <1>3

LEMMA GiveUpCurrent ==
  ASSUME NEW requests, \A r \in requests : Sound(r) /\ Mine(r) /\ Current(r),
         NEW kinds, NEW q \in GiveUp(requests, kinds)
  PROVE  Mine(q) /\ Current(q)
  BY GiveUpOwn DEF Current

SessionInv == TypeInv /\ OneIdentity /\ OwnInv

(* Steps that leave tokens, session and histories alone: what they put on  *)
(* the screen, in the cache or in flight must be the shown user's.         *)
LEMMA OwnStep ==
  ASSUME SessionInv, shown # Nothing,
         UNCHANGED <<tokens, history, stored, shown>>, ScreenOwn', CacheOwn',
         \A q \in flight' : Mine(q) /\ Current(q)
  PROVE  OwnInv'
<1>1. HistoryIsOwn'
  BY DEF SessionInv, OwnInv, HistoryIsOwn
<1>2. FlightOwn'
  BY DEF FlightOwn, Mine, Current
<1>3. LoginAlone'
  BY DEF LoginAlone, Current
<1> QED
  BY <1>1, <1>2, <1>3 DEF OwnInv

(* Sessions end, and nobody is shown. *)
LEMMA OwnLeave ==
  ASSUME SessionInv, shown # Nothing \/ \A r \in flight : r.kind # "login",
         NEW rest \in SUBSET flight, LeaveSession(rest), UNCHANGED <<tokens, history>>
  PROVE  OwnInv'
<1>1. \A r \in flight : Sound(r) /\ Mine(r) /\ r.kind # "login"
  BY DEF SessionInv, TypeInv, FlightType, OwnInv, FlightOwn, Current
<1>2. \A q \in flight' : Mine(q) /\ q.kind # "login"
  BY <1>1, GiveUpOwn DEF LeaveSession, Unmount
<1>3. shown' = Nothing /\ HistoryIsOwn'
  BY DEF LeaveSession, SessionInv, OwnInv, HistoryIsOwn
<1>4. FlightOwn' /\ LoginAlone'
  BY <1>2, <1>3 DEF FlightOwn, LoginAlone, Mine
<1>5. ScreenOwn' /\ CacheOwn'
  BY <1>3 DEF ScreenOwn, CacheOwn
<1> QED
  BY <1>3, <1>4, <1>5 DEF OwnInv

LEMMA SessionFlight ==
  SessionInv /\ shown # Nothing => \A r \in flight : Sound(r) /\ Mine(r) /\ Current(r)
  BY DEF SessionInv, TypeInv, FlightType, OwnInv, FlightOwn

LEMMA NothingOwn == \A u : Own(Nothing, u) /\ Own(Default, u)
  BY DEF Own

(* The Dashboard appears within a session. *)
LEMMA OwnMount ==
  ASSUME SessionInv, shown # Nothing,
         NEW rest, \A r \in rest : Mine(r) /\ Current(r),
         NEW query, Own(query.data, shown), query.data = cache'.data,
         Mount(shown, stored, rest, query),
         UNCHANGED <<tokens, history, stored, shown>>, CacheOwn'
  PROVE  OwnInv'
<1>1. Mine(Send("history", shown, stored, Nothing))
      /\ Current(Send("history", shown, stored, Nothing))
  BY SendOwn, StoredIsShown, NothingOwn DEF SessionInv
<1>2. \A q \in flight' : Mine(q) /\ Current(q)
  BY <1>1 DEF Mount
<1>3. ScreenOwn'
  BY NothingOwn DEF ScreenOwn, Mount
<1> QED
  BY <1>2, <1>3, OwnStep

LEMMA ReloadOwn == ASSUME SessionInv, Reload PROVE OwnInv'
<1> DEFINE user == IF stored = Nothing THEN Nothing ELSE tokens[stored]
           Gone(rest) == {[r EXCEPT !.waits = "nobody"] : r \in rest}
<1>1. /\ UNCHANGED <<tokens, history, stored>>
      /\ cache' = Unfetched /\ sim' = Nothing /\ user = shown
  BY DEF Reload, server, SessionInv, OneIdentity
<1>2. PICK rest \in SUBSET {r \in Of("save") \cup Of("logout") : r.status = "sent"} :
        /\ shown' = user
        /\ IF user # Nothing /\ route = "/"
             THEN Mount(user, stored, Gone(rest), Unfetched)
             ELSE Unmount(Gone(rest))
  BY DEF Reload
<1>3. \A q \in Gone(rest) : Sound(q) /\ Mine(q) /\ Current(q)
  <2>1. SUFFICES ASSUME NEW r \in rest
                 PROVE  /\ Sound([r EXCEPT !.waits = "nobody"])
                        /\ Mine([r EXCEPT !.waits = "nobody"])
                        /\ Current([r EXCEPT !.waits = "nobody"])
    OBVIOUS
  <2>2. Sound(r) /\ Mine(r) /\ r.kind # "login"
    BY DEF Of, SessionInv, TypeInv, FlightType, OwnInv, FlightOwn
  <2> QED
    BY <2>2 DEF Sound, Request, Mine, Current
<1>4. shown' = shown /\ Own(Unfetched.data, shown) /\ CacheOwn'
  BY <1>1, <1>2, NothingOwn DEF Unfetched, CacheOwn
<1> HIDE DEF user, Gone
<1>5. CASE Mount(user, stored, Gone(rest), Unfetched) /\ user # Nothing
  BY <1>1, <1>3, <1>4, <1>5, OwnMount
<1>6. CASE Unmount(Gone(rest))
  <2>1. \A q \in flight' : Mine(q) /\ Current(q)
    BY <1>3, <1>6, GiveUpCurrent DEF Unmount
  <2>2. ScreenOwn'
    BY <1>6, NothingOwn DEF Unmount, ScreenOwn
  <2>3. HistoryIsOwn'
    BY <1>1 DEF SessionInv, OwnInv, HistoryIsOwn
  <2>4. FlightOwn' /\ LoginAlone'
    BY <1>1, <1>4, <2>1 DEF FlightOwn, LoginAlone, Mine, Current
  <2> QED
    BY <1>4, <2>2, <2>3, <2>4 DEF OwnInv
<1> QED
  BY <1>2, <1>5, <1>6

LEMMA UserOwn ==
  ASSUME "reload" \in Habits, SessionInv, User PROVE OwnInv'
<1>1. ASSUME NEW u \in Users, SubmitLogin(u) PROVE OwnInv'
  <2> DEFINE login == Send("login", u, Nothing, Nothing)
  <2>1. login.kind = "login" /\ login.waits = "caller"
    BY DEF Send
  <2>2. /\ shown' = Nothing /\ flight' = {login} /\ cache' = Unfetched /\ sim' = Nothing
        /\ UNCHANGED history
    BY <1>1 DEF SubmitLogin, server, session, page
  <2> HIDE DEF login
  <2>3. FlightOwn' /\ LoginAlone'
    BY <2>1, <2>2 DEF FlightOwn, Mine, LoginAlone
  <2> QED
    BY <2>2, <2>3 DEF OwnInv, SessionInv, HistoryIsOwn, ScreenOwn, CacheOwn
<1>2. CASE Logout
  <2>1. shown # Nothing /\ stored # Nothing
    BY <1>2, StoredIsShown, Distinct DEF Logout, SessionInv
  <2>2. /\ UNCHANGED <<tokens, history, stored, shown, cache, sim, table>>
        /\ flight' = flight \cup {Send("logout", shown, stored, Nothing)}
    BY <1>2, <2>1 DEF Logout, server, session, page
  <2>3. Mine(Send("logout", shown, stored, Nothing))
        /\ Current(Send("logout", shown, stored, Nothing))
    BY <2>1, SendOwn, StoredIsShown, NothingOwn DEF SessionInv
  <2>4. ScreenOwn' /\ CacheOwn'
    BY <2>2 DEF SessionInv, OwnInv, ScreenOwn, CacheOwn
  <2> QED
    BY <2>1, <2>2, <2>3, <2>4, SessionFlight, OwnStep
<1>3. CASE Navigate
  <2>1. shown # Nothing /\ UNCHANGED <<tokens, history, stored, shown, cache, sim>>
    BY <1>3 DEF Navigate, server, session
  <2>2. CASE Unmount(flight)
    <3>1. \A q \in flight' : Mine(q) /\ Current(q)
      BY <2>1, <2>2, SessionFlight, GiveUpCurrent DEF Unmount
    <3>2. ScreenOwn' /\ CacheOwn'
      BY <2>1, <2>2, NothingOwn DEF Unmount, SessionInv, OwnInv, ScreenOwn, CacheOwn
    <3> QED
      BY <2>1, <3>1, <3>2, OwnStep
  <2> QED
    <3>1. CASE Mount(shown, stored, flight, cache)
      BY <2>1, <3>1, SessionFlight, OwnMount DEF SessionInv, OwnInv, CacheOwn
    <3> QED
      BY <1>3, <2>2, <3>1 DEF Navigate
<1>4. CASE Edit
  <2>1. shown # Nothing /\ table # Nothing
        /\ UNCHANGED <<tokens, history, stored, shown, flight, cache, sim>>
    BY <1>4 DEF Edit, Mounted, server, session, SessionInv, TypeInv, ScreenType
  <2>2. PICK v \in Values : table' = <<IF table = Default THEN shown ELSE table[1], v>>
    BY <1>4 DEF Edit
  <2>3. table'[1] = shown
    BY <2>1, <2>2 DEF SessionInv, OwnInv, ScreenOwn, Own
  <2>4. ScreenOwn' /\ CacheOwn'
    BY <2>1, <2>3 DEF SessionInv, OwnInv, ScreenOwn, CacheOwn, Own
  <2> QED
    BY <2>1, <2>4, SessionFlight, OwnStep
<1>5. CASE AnnualSimulate
  <2>1. shown # Nothing /\ UNCHANGED <<tokens, history, stored, shown, cache, sim, table>>
    BY <1>5 DEF AnnualSimulate, Mounted, server, session, SessionInv, TypeInv, ScreenType
  <2> DEFINE save == Send("save", shown, stored, table)
             simulate == Send("simulate", shown, stored, Nothing)
  <2>2. flight' = GiveUp(flight, {"save"}) \cup {save, simulate}
    BY <1>5 DEF AnnualSimulate
  <2>3. Own(table, shown) /\ stored \in Signed /\ tokens[stored] = shown
    BY <2>1, StoredIsShown DEF SessionInv, OwnInv, ScreenOwn
  <2>4. Mine(save) /\ Current(save) /\ Mine(simulate) /\ Current(simulate)
    BY <2>3, SendOwn, NothingOwn
  <2> HIDE DEF save, simulate
  <2>5. \A q \in flight' : Mine(q) /\ Current(q)
    BY <2>1, <2>2, <2>4, SessionFlight, GiveUpCurrent
  <2>6. ScreenOwn' /\ CacheOwn'
    BY <2>1 DEF SessionInv, OwnInv, ScreenOwn, CacheOwn
  <2> QED
    BY <2>1, <2>5, <2>6, OwnStep
<1> QED
  BY <1>1, <1>2, <1>3, <1>4, <1>5, ReloadOwn DEF User

LEMMA QueryOwn == ASSUME SessionInv, Query PROVE OwnInv'
<1>1. UNCHANGED <<tokens, history, stored, shown, table>>
  BY DEF Query, GrowStale, Refetch, Collect, server, session, page
<1>2. ScreenOwn' /\ HistoryIsOwn'
  BY <1>1 DEF SessionInv, OwnInv, ScreenOwn, HistoryIsOwn
<1>3. CacheOwn'
  BY <1>1, NothingOwn
  DEF Query, GrowStale, Refetch, Collect, page, Unfetched, SessionInv, TypeInv, CacheType,
      OwnInv, CacheOwn
<1>4. CASE Refetch
  <2>1. shown # Nothing
    BY <1>4 DEF Refetch, Mounted, SessionInv, TypeInv, ScreenType
  <2>2. Mine(Send("history", shown, stored, Nothing))
        /\ Current(Send("history", shown, stored, Nothing))
    BY <2>1, SendOwn, StoredIsShown, NothingOwn DEF SessionInv
  <2> QED
    BY <1>1, <1>2, <1>3, <1>4, <2>1, <2>2, SessionFlight, OwnStep DEF Refetch
<1>5. CASE GrowStale \/ Collect
  <2>1. flight' = flight
    BY <1>5 DEF GrowStale, Collect
  <2>2. FlightOwn'
    BY <1>1, <2>1 DEF SessionInv, OwnInv, FlightOwn, Mine, Current
  <2>3. LoginAlone'
    BY <1>5, <2>1
    DEF GrowStale, Collect, Unfetched, SessionInv, OwnInv, LoginAlone, CacheOwn
  <2> QED
    BY <1>2, <1>3, <2>2, <2>3 DEF OwnInv
<1> QED
  BY <1>4, <1>5 DEF Query

(* A request answered by the server stays whose it was. *)
LEMMA ServedOwn ==
  ASSUME SessionInv, NEW r \in flight, NEW q, r.kind # "login",
         q.kind = r.kind, q.waits = r.waits, q.user = r.user, q.token = r.token,
         Own(q.table, r.user), Served(r, q),
         UNCHANGED <<tokens, stored, shown, cache, sim, table>>, HistoryIsOwn'
  PROVE  OwnInv'
<1>1. Mine(q) /\ (shown # Nothing => Current(q))
  BY DEF SessionInv, OwnInv, FlightOwn, Mine, Current
<1>2. FlightOwn'
  BY <1>1 DEF Served, SessionInv, OwnInv, FlightOwn, Mine, Current
<1>3. LoginAlone'
  BY DEF Served, SessionInv, OwnInv, LoginAlone
<1>4. ScreenOwn' /\ CacheOwn'
  BY DEF SessionInv, OwnInv, ScreenOwn, CacheOwn
<1> QED
  BY <1>2, <1>3, <1>4 DEF OwnInv

LEMMA ServeOwn == ASSUME SessionInv, NEW r \in flight, Serve(r) PROVE OwnInv'
<1>1. UNCHANGED <<stored, shown, cache, sim, table>>
  BY DEF Serve, ServeLogin, ServeLogout, ServeRefusal, ServeRequest, server, session, page
<1>2. Sound(r) /\ Mine(r)
  BY DEF SessionInv, TypeInv, FlightType, OwnInv, FlightOwn
<1>3. CASE ServeLogin(r)
  <2>1. PICK id : id = Len(tokens')
    OBVIOUS
  <2> DEFINE q == [r EXCEPT !.status = "ok", !.token = id]
  <2>2. /\ r.kind = "login" /\ flight = {r} /\ flight' = (flight \ {r}) \cup {q}
        /\ cache = Unfetched /\ sim = Nothing /\ UNCHANGED history /\ r.waits # "nobody"
    BY <1>3, <2>1 DEF ServeLogin, Served, SessionInv, OwnInv, LoginAlone
  <2>3. q.kind = "login" /\ q.waits # "nobody"
    BY <1>2, <2>2 DEF Sound, Request
  <2> HIDE DEF q
  <2>4. flight' = {q} /\ shown = Nothing
    BY <2>2 DEF SessionInv, OwnInv, FlightOwn, Current
  <2>5. FlightOwn' /\ LoginAlone'
    BY <1>1, <2>2, <2>3, <2>4 DEF FlightOwn, LoginAlone, Mine
  <2> QED
    BY <1>1, <2>2, <2>4, <2>5
    DEF OwnInv, SessionInv, HistoryIsOwn, ScreenOwn, CacheOwn
<1>4. CASE ServeLogout(r) \/ ServeRefusal(r)
  <2>1. HistoryIsOwn' /\ r.kind # "login" /\ UNCHANGED tokens
    BY <1>4 DEF ServeLogout, ServeRefusal, server, SessionInv, OwnInv, HistoryIsOwn
  <2>2. PICK how \in {"ok", "refused"} : Served(r, [r EXCEPT !.status = how])
    BY <1>4 DEF ServeLogout, ServeRefusal
  <2> DEFINE q == [r EXCEPT !.status = how]
  <2>3. q.kind = r.kind /\ q.waits = r.waits /\ q.user = r.user /\ q.token = r.token
        /\ Own(q.table, r.user)
    BY <1>2, <2>1 DEF Sound, Request, Mine
  <2> HIDE DEF q
  <2> QED
    BY <1>1, <2>1, <2>2, <2>3, ServedOwn DEF q
<1>5. CASE ServeRequest(r)
  <2> DEFINE u == tokens[r.token]
             t == IF r.kind = "history" THEN history[u] ELSE r.table
             q == [r EXCEPT !.status = "ok", !.table = t]
  <2>1. r.kind # "login" /\ UNCHANGED tokens
    BY <1>5 DEF ServeRequest
  <2>2. u = r.user /\ u \in Users /\ Own(r.table, u)
    BY <1>2, <2>1 DEF Mine, Sound, Request
  <2>3. Own(t, u)
    BY <2>2 DEF SessionInv, OwnInv, HistoryIsOwn
  <2>4. Served(r, q)
    BY <1>5 DEF ServeRequest
  <2>5. HistoryIsOwn'
    BY <1>5, <2>2 DEF ServeRequest, SessionInv, TypeInv, ServerType, OwnInv, HistoryIsOwn
  <2> HIDE DEF t
  <2>6. q.kind = r.kind /\ q.waits = r.waits /\ q.user = r.user /\ q.token = r.token
        /\ q.table = t
    BY <1>2 DEF Sound, Request
  <2> HIDE DEF q, u
  <2> QED
    BY <1>1, <2>1, <2>2, <2>3, <2>4, <2>5, <2>6, ServedOwn
<1> QED
  BY <1>3, <1>4, <1>5 DEF Serve

(* An answer taken: the request is gone, the others stay. *)
LEMMA TakenOwn ==
  ASSUME SessionInv, NEW r \in flight, flight' = flight \ {r},
         UNCHANGED <<tokens, history, stored, shown>>, ScreenOwn', CacheOwn'
  PROVE  OwnInv'
<1>1. HistoryIsOwn' /\ FlightOwn'
  BY DEF SessionInv, OwnInv, HistoryIsOwn, FlightOwn, Mine, Current
<1>2. LoginAlone'
  BY DEF SessionInv, OwnInv, LoginAlone
<1> QED
  BY <1>1, <1>2 DEF OwnInv

LEMMA LoginOwn == ASSUME SessionInv, NEW r \in flight, LoginAnswered(r) PROVE OwnInv'
<1>1. /\ r.kind = "login" /\ flight = {r} /\ flight \ {r} = {}
      /\ cache = Unfetched /\ sim = Nothing /\ shown = Nothing
  BY DEF LoginAnswered, Taken, SessionInv, OwnInv, LoginAlone, FlightOwn, Current
<1>2. r.token \in Signed /\ tokens[r.token] = r.user
  BY DEF LoginAnswered, Taken, SessionInv, TypeInv, FlightType, Sound
<1>3. UNCHANGED <<tokens, history, cache, sim>> /\ stored' = r.token /\ shown' = r.user
  BY DEF LoginAnswered, server
<1>4. HistoryIsOwn' /\ CacheOwn'
  BY <1>1, <1>3, NothingOwn DEF SessionInv, OwnInv, HistoryIsOwn, CacheOwn, Unfetched
<1>5. CASE Mount(r.user, r.token, {}, cache)
  <2> DEFINE read == Send("history", r.user, r.token, Nothing)
  <2>1. Mine(read) /\ read.kind = "history" /\ read.user = r.user /\ read.token = r.token
    BY <1>2, NothingOwn DEF Send, Mine
  <2>2. flight' \subseteq {read} /\ Own(table', shown')
    BY <1>1, <1>5, NothingOwn DEF Mount, Unfetched
  <2> HIDE DEF read
  <2>3. FlightOwn' /\ LoginAlone'
    BY <1>3, <2>1, <2>2 DEF FlightOwn, Mine, Current, LoginAlone
  <2> QED
    BY <1>4, <2>2, <2>3 DEF OwnInv, ScreenOwn
<1>6. CASE flight' = {} /\ table' = table /\ route # "/"
  <2>1. table' = Nothing
    BY <1>1, <1>6 DEF SessionInv, TypeInv, ScreenType
  <2> QED
    BY <1>4, <1>6, <2>1, NothingOwn DEF OwnInv, ScreenOwn, FlightOwn, LoginAlone
<1> QED
  BY <1>1, <1>5, <1>6 DEF LoginAnswered

LEMMA QueryFailedOwn ==
  ASSUME SessionInv, NEW r, QueryFailed(r) PROVE cache'.data = cache.data
  BY DEF QueryFailed, SessionInv, TypeInv, CacheType

LEMMA ReceiveOwn == ASSUME SessionInv, NEW r \in flight, Receive(r) PROVE OwnInv'
<1>1. Sound(r) /\ Mine(r) /\ (shown # Nothing => Current(r))
  BY DEF SessionInv, TypeInv, FlightType, OwnInv, FlightOwn
<1>2. CASE LogoutAnswered(r) \/ Expired(r)
  <2>1. LeaveSession(flight \ {r}) /\ UNCHANGED <<tokens, history>>
    BY <1>2 DEF LogoutAnswered, Expired, server
  <2>2. CASE r.kind # "login"
    <3>1. \A q \in flight : q.kind # "login"
      BY <2>2 DEF SessionInv, OwnInv, LoginAlone
    <3> QED
      BY <2>1, <3>1, OwnLeave
  <2>3. CASE r.kind = "login"
    <3>1. flight \ {r} = {} /\ flight' = {} /\ shown' = Nothing
      BY <2>1, <2>3
      DEF SessionInv, OwnInv, LoginAlone, LeaveSession, Unmount, GiveUp
    <3> QED
      BY <2>1, <3>1
      DEF SessionInv, OwnInv, HistoryIsOwn, ScreenOwn, CacheOwn, FlightOwn, LoginAlone
  <2> QED
    BY <2>2, <2>3
<1>3. CASE HistoryAnswered(r)
  <2>1. /\ UNCHANGED <<tokens, history, stored, shown, sim>> /\ flight' = flight \ {r}
        /\ r.kind # "login" /\ r.waits # "nobody"
    BY <1>3 DEF HistoryAnswered, Taken, server, session
  <2>2. shown # Nothing => Own(r.table, shown)
    BY <1>1, <2>1 DEF Mine, Current
  <2>3. ScreenOwn'
    BY <1>3, <2>1, <2>2 DEF HistoryAnswered, SessionInv, OwnInv, ScreenOwn
  <2>4. cache'.data \in {r.table, cache.data}
    BY <1>3 DEF HistoryAnswered
  <2>5. CacheOwn'
    BY <2>1, <2>2, <2>4 DEF SessionInv, OwnInv, CacheOwn
  <2> QED
    BY <2>1, <2>3, <2>5, TakenOwn
<1>4. CASE SimulationAnswered(r)
  <2>1. /\ UNCHANGED <<tokens, history, stored, shown, cache, table>>
        /\ flight' = flight \ {r} /\ sim' = tokens[r.token]
        /\ r.kind # "login" /\ r.waits # "nobody"
    BY <1>4 DEF SimulationAnswered, Taken, server, session
  <2>2. shown # Nothing => sim' = shown
    BY <1>1, <2>1 DEF Mine, Current
  <2>3. ScreenOwn' /\ CacheOwn'
    BY <2>1, <2>2 DEF SessionInv, OwnInv, ScreenOwn, CacheOwn
  <2> QED
    BY <2>1, <2>3, TakenOwn
<1>5. CASE RequestFailed(r) \/ Unheard(r)
  <2>1. /\ UNCHANGED <<tokens, history, stored, shown, sim, table>>
        /\ flight' = flight \ {r} /\ cache'.data = cache.data
    BY <1>5, QueryFailedOwn DEF RequestFailed, Unheard, server, session, page
  <2>2. ScreenOwn' /\ CacheOwn'
    BY <2>1 DEF SessionInv, OwnInv, ScreenOwn, CacheOwn
  <2> QED
    BY <2>1, <2>2, TakenOwn
<1>6. CASE SaveAnswered(r)
  <2>1. UNCHANGED <<tokens, history, stored, shown, sim, table>>
        /\ Invalidate(flight \ {r})
    BY <1>6 DEF SaveAnswered, server, session
  <2>2. cache'.data = cache.data
    BY <2>1 DEF Invalidate, SessionInv, TypeInv, CacheType
  <2>3. ScreenOwn' /\ CacheOwn'
    BY <2>1, <2>2 DEF SessionInv, OwnInv, ScreenOwn, CacheOwn
  <2>4. CASE flight' = flight \ {r}
    BY <2>1, <2>3, <2>4, TakenOwn
  <2>5. CASE /\ Mounted
             /\ flight' = GiveUp(flight \ {r}, {"history"})
                          \cup {Send("history", shown, stored, Nothing)}
    <3>1. shown # Nothing
      BY <2>5 DEF Mounted, SessionInv, TypeInv, ScreenType
    <3>2. Mine(Send("history", shown, stored, Nothing))
          /\ Current(Send("history", shown, stored, Nothing))
      BY <3>1, SendOwn, StoredIsShown, NothingOwn DEF SessionInv
    <3>3. \A q \in GiveUp(flight \ {r}, {"history"}) : Mine(q) /\ Current(q)
      BY <3>1, SessionFlight, GiveUpCurrent
    <3> QED
      BY <2>1, <2>3, <2>5, <3>1, <3>2, <3>3, OwnStep
  <2> QED
    BY <2>1, <2>4, <2>5 DEF Invalidate
<1> QED
  BY <1>2, <1>3, <1>4, <1>5, <1>6, LoginOwn DEF Receive

LEMMA OwnInvStep ==
  ASSUME "reload" \in Habits, SessionInv, [Next]_vars PROVE OwnInv'
<1>1. CASE Expire \/ UNCHANGED vars
  BY <1>1
  DEF Expire, vars, server, session, page, SessionInv, OwnInv, HistoryIsOwn, ScreenOwn,
      CacheOwn, FlightOwn, LoginAlone, Mine, Current
<1> QED
  BY <1>1, UserOwn, QueryOwn, ServeOwn, ReceiveOwn DEF Next

(* Everything on the page and in flight is of the session shown, and a     *)
(* login under way is alone in flight with an empty cache.                 *)
THEOREM SessionInvariant == "reload" \in Habits => (Spec => []SessionInv)
<1> SUFFICES ASSUME "reload" \in Habits PROVE Spec => []SessionInv
  OBVIOUS
<1>1. Init => OwnInv
  BY OwnInvInit
<1>2. TypeInv /\ OneIdentity /\ OwnInv /\ [Next]_vars => OwnInv'
  BY OwnInvStep DEF SessionInv
<1>3. SessionInv <=> TypeInv /\ OneIdentity /\ OwnInv
  BY DEF SessionInv
<1> QED
  BY <1>1, <1>2, <1>3, TypeInvariant, IdentityIsOne, PTL DEF Spec

(* If a page on which somebody has worked is loaded again before the next  *)
(* login, its user is shown nobody else's consumption or simulation: the   *)
(* cache that outlives a logout (App.tsx, AuthContext) is then empty.      *)
THEOREM ShownStaysOwn == "reload" \in Habits => (Spec => []ShownIsOwn)
<1>1. SessionInv => ShownIsOwn
  BY DEF SessionInv, OwnInv, ScreenOwn, CacheOwn, ShownIsOwn
<1> QED
  BY <1>1, SessionInvariant, PTL

(* Under the same condition no user's consumption is ever saved as         *)
(* another's, whatever requests are late, lost or refused.                 *)
THEOREM HistoryStaysOwn == "reload" \in Habits => (Spec => []HistoryIsOwn)
<1>1. SessionInv => HistoryIsOwn
  BY DEF SessionInv, OwnInv
<1> QED
  BY <1>1, SessionInvariant, PTL

(* Under that condition, then, users who take turns in one browser stay    *)
(* apart, whatever is late, lost, refused or reloaded.                     *)
THEOREM UsersStayApart == "reload" \in Habits => (Spec => []NobodysElse)
<1>1. OneIdentity /\ ShownIsOwn /\ HistoryIsOwn => NobodysElse
  BY DEF NobodysElse
<1> QED
  BY <1>1, IdentityIsOne, ShownStaysOwn, HistoryStaysOwn, PTL

-----------------------------------------------------------------------------
(* Why sessions end: a request turned away had a token that is no longer   *)
(* good, and tokens do not become good again.                              *)

Refusals == \A r \in flight : r.status = "refused" => r.token \in Signed \ valid

CauseInv == SessionInv /\ Refusals

LEMMA RefusalsServe ==
  ASSUME CauseInv, NEW r \in flight, Serve(r) PROVE Refusals'
<1>1. Sound(r) /\ Mine(r) /\ valid \subseteq Signed
  BY DEF CauseInv, SessionInv, TypeInv, FlightType, ServerType, OwnInv, FlightOwn
<1>2. CASE ServeLogin(r)
  <2>1. PICK id : id = Len(tokens')
    OBVIOUS
  <2>2. /\ tokens' = Append(tokens, r.user) /\ valid' = valid \cup {id}
        /\ r.user \in Users
        /\ flight' = (flight \ {r}) \cup {[r EXCEPT !.status = "ok", !.token = id]}
    BY <1>1, <1>2, <2>1 DEF ServeLogin, Served, Sound, Request
  <2>3. Signed \subseteq Signed' /\ id \notin Signed
    BY <2>1, <2>2 DEF CauseInv, SessionInv, TypeInv, ServerType
  <2>4. [r EXCEPT !.status = "ok", !.token = id].status = "ok"
    BY <1>1 DEF Sound, Request
  <2> QED
    BY <2>2, <2>3, <2>4 DEF CauseInv, Refusals
<1>3. CASE ServeRefusal(r)
  <2> DEFINE q == [r EXCEPT !.status = "refused"]
  <2>1. q.token = r.token /\ r.token \in Signed \ valid
    BY <1>1, <1>3 DEF ServeRefusal, Mine, Sound, Request
  <2>2. flight' = (flight \ {r}) \cup {q} /\ UNCHANGED <<tokens, valid>>
    BY <1>3 DEF ServeRefusal, Served, server
  <2> HIDE DEF q
  <2> QED
    BY <2>1, <2>2 DEF CauseInv, Refusals
<1>4. CASE ServeLogout(r) \/ ServeRequest(r)
  <2>1. PICK t : Served(r, [r EXCEPT !.status = "ok", !.table = t])
    <3>1. CASE ServeLogout(r)
      <4>1. [r EXCEPT !.status = "ok", !.table = r.table] = [r EXCEPT !.status = "ok"]
        BY <1>1 DEF Sound, Request
      <4> QED
        BY <3>1, <4>1 DEF ServeLogout
    <3> QED
      BY <1>4, <3>1 DEF ServeRequest
  <2> DEFINE q == [r EXCEPT !.status = "ok", !.table = t]
  <2>2. q.status = "ok"
    BY <1>1 DEF Sound, Request
  <2>3. flight' = (flight \ {r}) \cup {q} /\ UNCHANGED tokens /\ valid' \subseteq valid
    BY <1>4, <2>1 DEF ServeLogout, ServeRequest, Served
  <2> HIDE DEF q
  <2> QED
    BY <2>2, <2>3 DEF CauseInv, Refusals
<1> QED
  BY <1>2, <1>3, <1>4 DEF Serve

(* The page takes answers, asks, or gives requests up: it refuses none.    *)
LEMMA RefusalsKept ==
  ASSUME CauseInv, UNCHANGED tokens, valid' \subseteq valid,
         \A q \in flight' : q.status = "refused" =>
           \E r \in flight : r.status = "refused" /\ r.token = q.token
  PROVE  Refusals'
  BY DEF CauseInv, Refusals

Answered(requests) ==
  \A q \in requests : q.status = "refused" =>
    \E r \in flight : r.status = "refused" /\ r.token = q.token

LEMMA SendAnswered ==
  ASSUME NEW u, NEW token, NEW t, NEW kind
  PROVE  Send(kind, u, token, t).status = "sent"
  BY DEF Send

LEMMA GiveUpAnswered ==
  ASSUME CauseInv, NEW rest \in SUBSET flight, NEW kinds
  PROVE  Answered(GiveUp(rest, kinds))
<1>1. \A r \in rest : Sound(r) /\ Mine(r)
  BY DEF CauseInv, SessionInv, TypeInv, FlightType, OwnInv, FlightOwn
<1> QED
  BY <1>1, GiveUpOwn DEF Answered

LEMMA LeaveAnswered ==
  ASSUME CauseInv, NEW rest \in SUBSET flight, Unmount(rest) PROVE Answered(flight')
  BY GiveUpAnswered DEF Unmount

LEMMA MountAnswered ==
  ASSUME CauseInv, NEW u, NEW token, NEW rest, Answered(rest), NEW query,
         Mount(u, token, rest, query)
  PROVE  Answered(flight')
  BY SendAnswered DEF Mount, Answered

LEMMA UserAnswered == ASSUME CauseInv, User PROVE Answered(flight')
<1>1. Answered(flight)
  BY DEF Answered
<1>2. CASE (\E u \in Users : SubmitLogin(u)) \/ Edit
  BY <1>1, <1>2, SendAnswered DEF SubmitLogin, Edit, Answered
<1>3. CASE Logout \/ Navigate
  BY <1>1, <1>3, SendAnswered, LeaveAnswered, MountAnswered
  DEF Logout, Navigate, LeaveSession, Answered
<1>4. CASE AnnualSimulate
  <2>1. \A q \in flight' :
          q \in GiveUp(flight, {"save"}) \/ q.status = "sent"
    BY <1>4, SendAnswered DEF AnnualSimulate
  <2>2. Answered(GiveUp(flight, {"save"}))
    BY GiveUpAnswered
  <2> QED
    BY <2>1, <2>2 DEF Answered
<1>5. CASE Reload
  <2> DEFINE Gone(rest) == {[r EXCEPT !.waits = "nobody"] : r \in rest}
  <2>1. PICK rest \in SUBSET {r \in Of("save") \cup Of("logout") : r.status = "sent"},
             u \in {Nothing, tokens[stored]} :
          Mount(u, stored, Gone(rest), Unfetched) \/ Unmount(Gone(rest))
    BY <1>5 DEF Reload
  <2>2. \A q \in Gone(rest) : q.status = "sent" /\ q \in Request
    <3>1. \A r \in rest : r.status = "sent" /\ r \in Request
      BY DEF Of, CauseInv, SessionInv, TypeInv, FlightType, Sound
    <3> QED
      BY <3>1 DEF Request
  <2> HIDE DEF Gone
  <2>3. CASE Mount(u, stored, Gone(rest), Unfetched)
    BY <2>2, <2>3, MountAnswered DEF Answered
  <2>4. CASE Unmount(Gone(rest))
    <3>1. \A r \in Gone(rest) : [r EXCEPT !.waits = "page"].status = "sent"
      BY <2>2 DEF Request
    <3>2. \A q \in flight' : q.status = "sent"
      BY <2>2, <2>4, <3>1 DEF Unmount, GiveUp
    <3> QED
      BY <3>2 DEF Answered
  <2> QED
    BY <2>1, <2>3, <2>4
<1> QED
  BY <1>2, <1>3, <1>4, <1>5 DEF User

LEMMA RefusalsStep ==
  ASSUME "reload" \in Habits, CauseInv, [Next]_vars PROVE Refusals'
<1>1. Answered(flight)
  BY DEF Answered
<1>2. CASE User
  <2>1. UNCHANGED <<tokens, valid>>
    BY <1>2
    DEF User, SubmitLogin, Logout, Navigate, Edit, AnnualSimulate, Reload, server
  <2> QED
    BY <1>2, <2>1, UserAnswered, RefusalsKept DEF Answered
<1>3. CASE Query \/ Expire \/ UNCHANGED vars
  <2>1. UNCHANGED tokens /\ valid' \subseteq valid
    BY <1>3 DEF Query, GrowStale, Refetch, Collect, Expire, server, vars
  <2>2. Answered(flight')
    BY <1>1, <1>3, SendAnswered
    DEF Query, GrowStale, Refetch, Collect, Expire, vars, Answered
  <2> QED
    BY <2>1, <2>2, RefusalsKept DEF Answered
<1>4. ASSUME NEW r \in flight, Receive(r) PROVE Refusals'
  <2>1. UNCHANGED <<tokens, valid>>
    BY <1>4
    DEF Receive, LoginAnswered, LogoutAnswered, Expired, HistoryAnswered, SaveAnswered,
        SimulationAnswered, RequestFailed, Unheard, server
  <2>2. Answered(flight \ {r})
    BY DEF Answered
  <2>3. Answered(flight')
    <3>1. CASE LoginAnswered(r)
      BY <2>2, <3>1, MountAnswered DEF LoginAnswered, Answered
    <3>2. CASE LogoutAnswered(r) \/ Expired(r)
      BY <3>2, LeaveAnswered DEF LogoutAnswered, Expired, LeaveSession
    <3>3. CASE SaveAnswered(r)
      <4>1. Answered(GiveUp(flight \ {r}, {"history"}))
        BY GiveUpAnswered
      <4> QED
        BY <2>2, <3>3, <4>1, SendAnswered DEF SaveAnswered, Invalidate, Answered
    <3>4. CASE \/ HistoryAnswered(r) \/ SimulationAnswered(r) \/ RequestFailed(r)
               \/ Unheard(r)
      BY <2>2, <3>4
      DEF HistoryAnswered, SimulationAnswered, RequestFailed, Unheard, Answered
    <3> QED
      BY <1>4, <3>1, <3>2, <3>3, <3>4 DEF Receive
  <2> QED
    BY <2>1, <2>3, RefusalsKept DEF Answered
<1> QED
  BY <1>2, <1>3, <1>4, RefusalsServe DEF Next

(* Who takes the shown user from the screen.                               *)
LEMMA EndStep ==
  ASSUME "reload" \in Habits, CauseInv, [Next]_vars,
         shown # Nothing, shown' = Nothing
  PROVE  stored \notin valid \/ \E r \in Of("logout") : r.token = stored
<1>1. stored # Nothing /\ stored \in Signed /\ tokens[stored] = shown
  BY StoredIsShown, Distinct DEF CauseInv, SessionInv
<1>2. \A r \in flight : Mine(r) /\ Current(r)
  BY SessionFlight DEF CauseInv
<1>3. CASE User
  BY <1>1, <1>3
  DEF User, SubmitLogin, Logout, Navigate, Edit, AnnualSimulate, Reload, session
<1>4. CASE Query \/ Expire \/ UNCHANGED vars
  BY <1>4 DEF Query, GrowStale, Refetch, Collect, Expire, vars, session
<1>5. ASSUME NEW r \in flight, Serve(r) PROVE FALSE
  BY <1>5 DEF Serve, ServeLogin, ServeLogout, ServeRefusal, ServeRequest, session
<1>6. ASSUME NEW r \in flight, Receive(r)
      PROVE  stored \notin valid \/ \E q \in Of("logout") : q.token = stored
  <2>1. CASE LogoutAnswered(r)
    BY <1>2, <2>1 DEF LogoutAnswered, Current, Of
  <2>2. CASE Expired(r)
    BY <1>2, <2>2 DEF Expired, Current, CauseInv, Refusals
  <2>3. CASE LoginAnswered(r)
    BY <1>2, <2>3 DEF LoginAnswered, Taken, Current
  <2> QED
    BY <1>6, <2>1, <2>2, <2>3
    DEF Receive, HistoryAnswered, SaveAnswered, SimulationAnswered, RequestFailed,
        Unheard, session
<1> QED
  BY <1>3, <1>4, <1>5, <1>6 DEF Next

(* With pages loaded again between sessions, a session ends only because   *)
(* its own token is no longer good or its own logout was asked for: no     *)
(* late 401 and no late answer to a logout (client.ts, AuthContext) ends   *)
(* a session that came after.                                              *)
THEOREM SessionsEndForCause == "reload" \in Habits => (Spec => EndsForCause)
<1> SUFFICES ASSUME "reload" \in Habits PROVE Spec => EndsForCause
  OBVIOUS
<1>1. Init => Refusals
  BY DEF Init, Refusals
<1>2. SessionInv /\ Refusals /\ [Next]_vars => Refusals'
  BY RefusalsStep DEF CauseInv
<1>3. SessionInv /\ Refusals /\ [Next]_vars =>
        [shown # Nothing /\ shown' = Nothing
           => stored \notin valid \/ \E r \in Of("logout") : r.token = stored]_vars
  BY EndStep DEF CauseInv
<1> QED
  BY <1>1, <1>2, <1>3, SessionInvariant, PTL DEF Spec, EndsForCause

-----------------------------------------------------------------------------
(* What is saved.  With careful users a session has one save at a time and *)
(* stays on its page until it is answered; the invariant says what the     *)
(* notice, the cache and the table know of it meanwhile.                   *)

OneSave == \A r, q \in Of("save") : r = q

(* The notice is of the save the page waits for, and then of what the      *)
(* server holds.                                                           *)
NoticeTrue ==
  /\ notice.text # "" => Mounted
  /\ notice.text = "saved" => Of("save") = {} /\ history[shown] = notice.of
  /\ \A r \in Of("save") : r.waits = "caller" =>
       /\ notice.text = "saving" /\ notice.of = r.table
       /\ r.status = "ok" => history[shown] = r.table

(* A save in a session is waited for, after the history was first read; it *)
(* carries something typed if it replaces something typed.                 *)
SavesAttended ==
  \A r \in Of("save") :
    /\ shown # Nothing => Mounted /\ cache.loaded /\ r.waits = "caller"
    /\ r.status = "sent" /\ Typed(history[r.user]) => Typed(r.table)

(* The table has taken over what the query holds. *)
CacheTaken ==
  /\ cache.ok => cache.loaded
  /\ Mounted /\ cache.ok /\ Typed(cache.data) => Typed(table)

(* When no save is open, what the server holds typed has reached the cache *)
(* or is on its way to it.                                                 *)
ReadsTyped ==
  shown # Nothing /\ Settled /\ Typed(history[shown]) =>
    /\ \A r \in Reads(flight) : r.status = "ok" => Typed(r.table)
    /\ cache.ok => Typed(cache.data) \/ Reads(flight) # {}

CareInv == OneSave /\ NoticeTrue /\ SavesAttended /\ CacheTaken /\ ReadsTyped

CarefulInv == SessionInv /\ CareInv

LEMMA CareInvInit == Init => CareInv
<1> SUFFICES ASSUME Init PROVE CareInv
  OBVIOUS
<1>1. /\ shown = Nothing /\ Of("save") = {} /\ notice.text = "" /\ ~cache.ok
  BY DEF Init, Of, NoNotice, Unfetched
<1>2. OneSave /\ NoticeTrue /\ SavesAttended
  BY <1>1 DEF OneSave, NoticeTrue, SavesAttended
<1>3. CacheTaken /\ ReadsTyped
  BY <1>1 DEF CacheTaken, ReadsTyped
<1> QED
  BY <1>2, <1>3 DEF CareInv

LEMMA SendFields ==
  ASSUME NEW kind, NEW u, NEW token, NEW t
  PROVE  /\ Send(kind, u, token, t).kind = kind
         /\ Send(kind, u, token, t).user = u
         /\ Send(kind, u, token, t).table = t
         /\ Send(kind, u, token, t).status = "sent"
         /\ Send(kind, u, token, t).waits = "caller"
  BY DEF Send

(* Giving requests up changes only who waits for them. *)
LEMMA GiveUpFields ==
  ASSUME NEW requests, \A r \in requests : r \in Request,
         NEW kinds, NEW q \in GiveUp(requests, kinds)
  PROVE  \E r \in requests :
           /\ q = IF r.kind \in kinds /\ r.waits = "caller"
                    THEN [r EXCEPT !.waits = "page"] ELSE r
           /\ q.kind = r.kind /\ q.user = r.user /\ q.table = r.table /\ q.status = r.status
           /\ r.kind \notin kinds => q = r
           /\ r.kind \in kinds => q.waits # "caller"
<1>1. PICK r \in requests :
        q = IF r.kind \in kinds /\ r.waits = "caller" THEN [r EXCEPT !.waits = "page"] ELSE r
  BY DEF GiveUp
<1>2. r \in Request
  OBVIOUS
<1>3. /\ q.kind = r.kind /\ q.user = r.user /\ q.table = r.table /\ q.status = r.status
      /\ r.kind \in kinds => q.waits # "caller"
  BY <1>1, <1>2 DEF Request
<1> QED
  BY <1>1, <1>3

LEMMA GiveUpKinds ==
  ASSUME NEW requests, \A r \in requests : r \in Request, NEW kinds
  PROVE  \A q \in GiveUp(requests, kinds) : \E r \in requests : q.kind = r.kind
  BY DEF GiveUp, Request

LEMMA GiveUpReads ==
  ASSUME NEW requests, \A r \in requests : r \in Request, NEW kinds, "history" \notin kinds
  PROVE  Reads(GiveUp(requests, kinds)) = Reads(requests)
<1>1. ASSUME NEW q \in Reads(GiveUp(requests, kinds)) PROVE q \in Reads(requests)
  BY GiveUpFields DEF Reads
<1>2. ASSUME NEW q \in Reads(requests) PROVE q \in Reads(GiveUp(requests, kinds))
  BY DEF Reads, GiveUp
<1> QED
  BY <1>1, <1>2

LEMMA FlightRequests == SessionInv => \A r \in flight : r \in Request
  BY DEF SessionInv, TypeInv, FlightType, Sound

(* A step that leaves the saves and their notice alone. *)
LEMMA SavesQuiet ==
  ASSUME CarefulInv, UNCHANGED <<history, shown, notice>>, Of("save")' = Of("save"),
         Mounted' = Mounted, cache.loaded => cache'.loaded
  PROVE  OneSave' /\ NoticeTrue' /\ SavesAttended'
<1> USE DEF CarefulInv, CareInv
<1>1. OneSave'
  BY DEF OneSave
<1>2. NoticeTrue'
  BY Zenon DEF NoticeTrue
<1>3. SavesAttended'
  BY DEF SavesAttended
<1> QED
  BY <1>1, <1>2, <1>3

(* A step after which no save is open and the notice, if any, is as before.*)
LEMMA SavesGone ==
  ASSUME CarefulInv, Of("save")' = {},
         \/ notice'.text \in {"", "failed"}
         \/ UNCHANGED <<notice, history, shown>> /\ Of("save") = {},
         notice'.text # "" => Mounted'
  PROVE  OneSave' /\ NoticeTrue' /\ SavesAttended'
  BY DEF CarefulInv, CareInv, OneSave, NoticeTrue, SavesAttended

(* A step that brings no answered read, gives up none, and leaves what the *)
(* query holds.                                                            *)
LEMMA ReadsQuiet ==
  ASSUME CarefulInv, UNCHANGED <<history, shown>>, Settled' => Settled,
         \A r \in Reads(flight') : r.status = "ok" => r \in Reads(flight),
         Reads(flight) # {} => Reads(flight') # {},
         cache'.ok => cache.ok /\ cache'.data = cache.data
  PROVE  ReadsTyped'
  BY DEF CarefulInv, CareInv, ReadsTyped, Reads

(* A session that ends leaves its save to itself. *)
LEMMA CareLeave ==
  ASSUME CarefulInv, NEW rest \in SUBSET flight, LeaveSession(rest), UNCHANGED history,
         cache'.ok => cache'.loaded
  PROVE  CareInv'
<1>1. /\ shown' = Nothing /\ table' = Nothing /\ notice'.text = ""
      /\ flight' = GiveUp(rest, {"save", "simulate"})
  BY DEF LeaveSession, Unmount, NoNotice
<1>2. \A r \in rest : r \in Request
  BY FlightRequests DEF CarefulInv
<1>3. ASSUME NEW q \in Of("save")'
      PROVE  \E r \in Of("save") :
               /\ q = IF r.waits = "caller" THEN [r EXCEPT !.waits = "page"] ELSE r
               /\ q.user = r.user /\ q.table = r.table /\ q.status = r.status
               /\ q.waits # "caller"
  <2>1. q \in GiveUp(rest, {"save", "simulate"}) /\ q.kind = "save"
    BY <1>1 DEF Of
  <2>2. PICK r \in rest :
           /\ q = IF r.kind \in {"save", "simulate"} /\ r.waits = "caller"
                    THEN [r EXCEPT !.waits = "page"] ELSE r
           /\ q.kind = r.kind /\ q.user = r.user /\ q.table = r.table /\ q.status = r.status
           /\ r.kind \in {"save", "simulate"} => q.waits # "caller"
    BY <1>2, <2>1, GiveUpFields
  <2> QED
    BY <2>1, <2>2 DEF Of
<1>4. OneSave'
  BY <1>3 DEF CarefulInv, CareInv, OneSave
<1>5. NoticeTrue'
  BY <1>1, <1>3 DEF CarefulInv, CareInv, NoticeTrue
<1>6. SavesAttended'
  BY <1>1, <1>3 DEF CarefulInv, CareInv, SavesAttended
<1>7. CacheTaken' /\ ReadsTyped'
  BY <1>1 DEF CacheTaken, ReadsTyped, Mounted
<1> QED
  BY <1>4, <1>5, <1>6, <1>7 DEF CareInv

(* The Dashboard appears when no save is open. *)
LEMMA CareMount ==
  ASSUME CarefulInv, NEW u, NEW token, NEW rest, NEW query, Mount(u, token, rest, query),
         table' # Nothing, \A r \in rest : r.kind # "save",
         cache'.ok => cache'.loaded /\ query.ok /\ query.data = cache'.data
  PROVE  /\ OneSave' /\ NoticeTrue' /\ SavesAttended' /\ CacheTaken'
         /\ rest \subseteq flight'
         /\ \A r \in Reads(flight') : r.status = "ok" => r \in Reads(rest)
<1>1. /\ notice'.text = "" /\ flight' \subseteq rest \cup {Send("history", u, token, Nothing)}
      /\ rest \subseteq flight'
  BY DEF Mount, NoNotice
<1>2. Of("save")' = {}
  <2>1. Send("history", u, token, Nothing).kind = "history"
    BY SendFields
  <2> QED
    BY <1>1, <2>1 DEF Of
<1>3. OneSave' /\ NoticeTrue' /\ SavesAttended'
  BY <1>1, <1>2, SavesGone
<1>4. CacheTaken'
  BY DEF CacheTaken, Mount, Typed
<1>5. \A r \in Reads(flight') : r.status = "ok" => r \in Reads(rest)
  <2>1. Send("history", u, token, Nothing).status = "sent"
    BY SendFields
  <2> QED
    BY <1>1, <2>1 DEF Reads
<1> QED
  BY <1>1, <1>3, <1>4, <1>5

LEMMA CareUser ==
  ASSUME {"reload", "wait"} \subseteq Habits, CarefulInv, User
  PROVE  CareInv'
<1> USE DEF CarefulInv
<1>0. \A r \in flight : r \in Request
  BY FlightRequests
<1>1. ASSUME NEW u \in Users, SubmitLogin(u) PROVE CareInv'
  <2>1. /\ shown' = Nothing /\ flight = {} /\ UNCHANGED <<history, shown, notice, table, cache>>
        /\ flight' = {Send("login", u, Nothing, Nothing)}
    BY <1>1 DEF SubmitLogin, server, session, page
  <2>2. Of("save") = {} /\ Of("save")' = {}
    <3>1. Send("login", u, Nothing, Nothing).kind = "login"
      BY SendFields
    <3> QED
      BY <2>1, <3>1 DEF Of
  <2>3. notice.text # "" => Mounted'
    BY <2>1, Zenon DEF CareInv, NoticeTrue, Mounted
  <2>4. OneSave' /\ NoticeTrue' /\ SavesAttended'
    BY <2>1, <2>2, <2>3, SavesGone
  <2>5. CacheTaken' /\ ReadsTyped'
    BY <2>1 DEF CareInv, CacheTaken, ReadsTyped, Mounted
  <2> QED
    BY <2>4, <2>5 DEF CareInv
<1>2. CASE Logout
  <2>1. shown # Nothing /\ stored # Nothing
    BY <1>2, StoredIsShown, Distinct DEF Logout, SessionInv
  <2> DEFINE q == Send("logout", shown, stored, Nothing)
  <2>2. /\ UNCHANGED <<history, shown, notice, table, cache>>
        /\ flight' = flight \cup {q}
    BY <1>2, <2>1 DEF Logout, server, session, page
  <2>3. q.kind = "logout"
    BY SendFields
  <2> HIDE DEF q
  <2>4. Of("save")' = Of("save") /\ Reads(flight') = Reads(flight)
    BY <2>2, <2>3 DEF Of, Reads
  <2>5. OneSave' /\ NoticeTrue' /\ SavesAttended'
    BY <2>2, <2>4, SavesQuiet DEF Mounted
  <2>6. CacheTaken'
    BY <2>2 DEF CareInv, CacheTaken, Mounted
  <2>7. ReadsTyped'
    BY <2>2, <2>4, ReadsQuiet DEF Settled
  <2> QED
    BY <2>5, <2>6, <2>7 DEF CareInv
<1>3. CASE Navigate
  <2>1. /\ UNCHANGED <<history, stored, shown, cache>> /\ Settled /\ shown # Nothing
    BY <1>3 DEF Navigate, server, session
  <2>2. \A r \in flight : r.kind # "save"
    BY <2>1 DEF Settled, Of
  <2>3. CASE Unmount(flight)
    <3>1. /\ table' = Nothing /\ notice'.text = ""
          /\ flight' = GiveUp(flight, {"save", "simulate"})
      BY <2>3 DEF Unmount, NoNotice
    <3>2. Of("save")' = {}
      <4>1. \A q \in flight' : \E r \in flight : q.kind = r.kind
        BY <1>0, <3>1, GiveUpKinds
      <4> QED
        BY <2>2, <4>1 DEF Of
    <3>3. Reads(flight') = Reads(flight)
      BY <1>0, <3>1, GiveUpReads
    <3>4. OneSave' /\ NoticeTrue' /\ SavesAttended'
      BY <3>1, <3>2, SavesGone
    <3>5. CacheTaken'
      BY <2>1, <3>1 DEF CareInv, CacheTaken, Mounted
    <3>6. ReadsTyped'
      BY <2>1, <3>3, ReadsQuiet
    <3> QED
      BY <3>4, <3>5, <3>6 DEF CareInv
  <2>4. CASE Mount(shown, stored, flight, cache)
    <3>1. table' # Nothing
      BY <2>1, <2>4, MountType, StoredIsShown, CacheData DEF SessionInv, TypeInv, FlightType
    <3>2. cache'.ok => cache'.loaded /\ cache.ok /\ cache.data = cache'.data
      BY <2>1 DEF CareInv, CacheTaken
    <3>3. /\ OneSave' /\ NoticeTrue' /\ SavesAttended' /\ CacheTaken'
          /\ flight \subseteq flight'
          /\ \A r \in Reads(flight') : r.status = "ok" => r \in Reads(flight)
      BY <2>2, <2>4, <3>1, <3>2, CareMount
    <3>4. Reads(flight) # {} => Reads(flight') # {}
      BY <3>3 DEF Reads
    <3>5. ReadsTyped'
      BY <2>1, <3>3, <3>4, ReadsQuiet
    <3> QED
      BY <3>3, <3>5 DEF CareInv
  <2> QED
    BY <1>3, <2>3, <2>4 DEF Navigate
<1>4. CASE Edit
  <2>1. /\ UNCHANGED <<history, shown, notice, flight, cache>> /\ table # Nothing
        /\ shown # Nothing
    BY <1>4 DEF Edit, Mounted, server, session, SessionInv, TypeInv, ScreenType
  <2>2. PICK v \in Values : table' = <<IF table = Default THEN shown ELSE table[1], v>>
    BY <1>4 DEF Edit
  <2>3. table' \in Users \X Values
    BY <2>1, <2>2 DEF Tables, SessionInv, TypeInv, SessionType, ScreenType
  <2>4. Typed(table') /\ Mounted /\ Mounted'
    BY <2>1, <2>3, Distinct, ValuesAssumption DEF Typed, Mounted
  <2>5. OneSave' /\ NoticeTrue' /\ SavesAttended'
    BY <2>1, <2>4, SavesQuiet DEF Of
  <2>6. CacheTaken'
    BY <2>1, <2>4 DEF CareInv, CacheTaken
  <2>7. ReadsTyped'
    BY <2>1, ReadsQuiet DEF Settled, Of
  <2> QED
    BY <2>5, <2>6, <2>7 DEF CareInv
<1>5. CASE AnnualSimulate
  <2> DEFINE save == Send("save", shown, stored, table)
             simulate == Send("simulate", shown, stored, Nothing)
  <2>1. /\ Mounted /\ Settled /\ cache.ok /\ Of("history") = {}
        /\ flight' = GiveUp(flight, {"save"}) \cup {save, simulate}
        /\ notice' = [text |-> "saving", of |-> table]
        /\ UNCHANGED <<history, stored, shown, cache, table>>
    BY <1>5 DEF AnnualSimulate, server, session
  <2>2. shown # Nothing
    BY <2>1 DEF Mounted, SessionInv, TypeInv, ScreenType
  <2>3. /\ save.kind = "save" /\ save.user = shown /\ save.table = table
        /\ save.status = "sent" /\ save.waits = "caller" /\ simulate.kind = "simulate"
    BY SendFields
  <2> HIDE DEF save, simulate
  <2>4. Of("save")' = {save}
    <3>1. \A r \in flight : r.kind # "save"
      BY <2>1 DEF Settled, Of
    <3>2. \A q \in GiveUp(flight, {"save"}) : \E r \in flight : q.kind = r.kind
      BY <1>0, GiveUpKinds
    <3> QED
      BY <2>1, <2>3, <3>1, <3>2 DEF Of
  <2>5. Typed(history[shown]) => Typed(table)
    <3>1. Reads(flight) = {}
      BY <2>1 DEF Of, Reads
    <3> QED
      BY <2>1, <2>2, <3>1 DEF CareInv, ReadsTyped, CacheTaken
  <2>6. cache.loaded /\ Mounted'
    BY <2>1 DEF CareInv, CacheTaken, Mounted
  <2>7. OneSave' /\ SavesAttended'
    BY <2>1, <2>3, <2>4, <2>5, <2>6 DEF OneSave, SavesAttended
  <2>8. NoticeTrue'
    BY <2>1, <2>3, <2>4, <2>6 DEF NoticeTrue
  <2>9. CacheTaken'
    BY <2>1 DEF CareInv, CacheTaken, Mounted
  <2>10. ReadsTyped'
    BY <2>4 DEF ReadsTyped, Settled
  <2> QED
    BY <2>7, <2>8, <2>9, <2>10 DEF CareInv
<1>6. CASE Reload
  <2> DEFINE user == IF stored = Nothing THEN Nothing ELSE tokens[stored]
             Gone(rest) == {[r EXCEPT !.waits = "nobody"] : r \in rest}
  <2>1. /\ Of("save") = {} /\ cache' = Unfetched /\ UNCHANGED history
    BY <1>6 DEF Reload, server
  <2>2. PICK rest \in SUBSET {r \in Of("save") \cup Of("logout") : r.status = "sent"} :
          \/ Mount(user, stored, Gone(rest), Unfetched) /\ user # Nothing
          \/ Unmount(Gone(rest))
    BY <1>6 DEF Reload
  <2>3. \A q \in Gone(rest) : q \in Request /\ q.kind = "logout"
    <3>1. \A r \in rest : r \in Request /\ r.kind = "logout"
      BY <1>0, <2>1 DEF Of
    <3> QED
      BY <3>1 DEF Request
  <2>4. Unfetched.ok = FALSE /\ Unfetched.data = Nothing
    BY DEF Unfetched
  <2> HIDE DEF Gone
  <2>5. CASE Mount(user, stored, Gone(rest), Unfetched) /\ user # Nothing
    <3>1. table' # Nothing
      BY <2>4, <2>5, Distinct DEF Mount
    <3> HIDE DEF user
    <3>2. /\ OneSave' /\ NoticeTrue' /\ SavesAttended' /\ CacheTaken'
          /\ \A r \in Reads(flight') : r.status = "ok" => r \in Reads(Gone(rest))
      BY <2>1, <2>3, <2>4, <2>5, <3>1, CareMount
    <3>3. ReadsTyped'
      BY <2>1, <2>3, <2>4, <3>2 DEF ReadsTyped, Reads
    <3> QED
      BY <3>2, <3>3 DEF CareInv
  <2>6. CASE Unmount(Gone(rest))
    <3>1. /\ table' = Nothing /\ notice'.text = ""
          /\ flight' = GiveUp(Gone(rest), {"save", "simulate"})
      BY <2>6 DEF Unmount, NoNotice
    <3>2. \A q \in flight' : q.kind = "logout"
      <4>1. \A q \in flight' : \E r \in Gone(rest) : q.kind = r.kind
        BY <2>3, <3>1, GiveUpKinds
      <4> QED
        BY <2>3, <4>1
    <3>3. Of("save")' = {} /\ Reads(flight') = {}
      BY <3>2 DEF Of, Reads
    <3>4. OneSave' /\ NoticeTrue' /\ SavesAttended'
      BY <3>1, <3>3, SavesGone
    <3>5. CacheTaken' /\ ReadsTyped'
      BY <2>1, <2>4, <3>3 DEF CacheTaken, ReadsTyped
    <3> QED
      BY <3>4, <3>5 DEF CareInv
  <2> QED
    BY <2>2, <2>5, <2>6
<1> QED
  BY <1>1, <1>2, <1>3, <1>4, <1>5, <1>6 DEF User

LEMMA CareQuery == ASSUME CarefulInv, Query PROVE CareInv'
<1>1. /\ UNCHANGED <<history, stored, shown, table, notice>>
  BY DEF Query, GrowStale, Refetch, Collect, server, session, page
<1>2. CASE Refetch
  <2> DEFINE q == Send("history", shown, stored, Nothing)
  <2>1. flight' = flight \cup {q} /\ UNCHANGED cache
    BY <1>2 DEF Refetch, page
  <2>2. q.kind = "history" /\ q.status = "sent"
    BY SendFields
  <2> HIDE DEF q
  <2>3. Of("save")' = Of("save")
    BY <2>1, <2>2 DEF Of
  <2>4. OneSave' /\ NoticeTrue' /\ SavesAttended'
    BY <1>1, <2>1, <2>3, SavesQuiet DEF Mounted
  <2>5. CacheTaken'
    BY <1>1, <2>1 DEF CarefulInv, CareInv, CacheTaken, Mounted
  <2>6. ReadsTyped'
    BY <1>1, <2>1, <2>2, <2>3, ReadsQuiet DEF Settled, Reads
  <2> QED
    BY <2>4, <2>5, <2>6 DEF CareInv
<1>3. CASE GrowStale
  <2>1. UNCHANGED flight /\ cache'.ok = cache.ok /\ cache'.data = cache.data
        /\ cache'.loaded = cache.loaded
    BY <1>3 DEF GrowStale, CarefulInv, SessionInv, TypeInv, CacheType
  <2>2. OneSave' /\ NoticeTrue' /\ SavesAttended'
    BY <1>1, <2>1, SavesQuiet DEF Mounted, Of
  <2>3. CacheTaken'
    BY <1>1, <2>1 DEF CarefulInv, CareInv, CacheTaken, Mounted
  <2>4. ReadsTyped'
    BY <1>1, <2>1, ReadsQuiet DEF Settled, Of
  <2> QED
    BY <2>2, <2>3, <2>4 DEF CareInv
<1>4. CASE Collect
  <2>1. UNCHANGED flight /\ cache' \in {cache, Unfetched} /\ ~Mounted /\ ~Mounted'
    BY <1>1, <1>4 DEF Collect, Mounted
  <2>2. OneSave' /\ NoticeTrue'
    BY <1>1, <2>1, Zenon DEF CarefulInv, CareInv, OneSave, NoticeTrue, Of
  <2>3. SavesAttended'
    BY <1>1, <2>1 DEF CarefulInv, CareInv, SavesAttended, Of
  <2>4. CacheTaken'
    BY <1>1, <2>1 DEF CarefulInv, CareInv, CacheTaken, Unfetched
  <2>5. ReadsTyped'
    BY <1>1, <2>1, ReadsQuiet DEF Settled, Of, Unfetched
  <2> QED
    BY <2>2, <2>3, <2>4, <2>5 DEF CareInv
<1> QED
  BY <1>2, <1>3, <1>4 DEF Query

(* q is the answered r: a save accepted holds on the server, and a read    *)
(* carries what the server holds.                                          *)
SavedAs(r, q) ==
  q.status = "ok" /\ r.waits = "caller" /\ shown # Nothing => history'[shown] = r.table

ReadAs(r, q) ==
  r.kind = "history" /\ r.waits = "caller" /\ q.status = "ok" =>
    (shown # Nothing /\ Typed(history[shown]) => Typed(q.table))

(* The server answers a save, the only one. *)
LEMMA SaveServed ==
  ASSUME CarefulInv, NEW r \in flight, r.kind = "save",
         NEW q, q.kind = "save", q.table = r.table, q.waits = r.waits, q.status # "sent",
         Served(r, q), UNCHANGED <<shown, table, notice, cache>>,
         SavedAs(r, q)
  PROVE  CareInv'
<1> USE DEF CarefulInv, CareInv
<1>1. Of("save") = {r} /\ Of("save")' = {q}
  BY DEF OneSave, Of, Served
<1>2. Mounted' = Mounted /\ (Mounted => shown # Nothing)
  BY DEF Mounted, SessionInv, TypeInv, ScreenType
<1>3. OneSave' /\ ReadsTyped'
  BY <1>1 DEF OneSave, ReadsTyped, Settled
<1>4. NoticeTrue'
  <2>1. /\ notice.text # "" => Mounted
        /\ notice.text # "saved"
        /\ r.waits = "caller" => notice.text = "saving" /\ notice.of = r.table
    BY <1>1 DEF NoticeTrue
  <2> QED
    BY <1>1, <1>2, <2>1 DEF NoticeTrue, SavedAs
<1>5. SavesAttended'
  BY <1>1, <1>2 DEF SavesAttended
<1>6. CacheTaken'
  BY <1>2 DEF CacheTaken
<1> QED
  BY <1>3, <1>4, <1>5, <1>6

(* It answers something else, and a read with what it holds. *)
LEMMA OtherServed ==
  ASSUME CarefulInv, NEW r \in flight, r.kind # "save",
         NEW q, q.kind = r.kind, q.waits = r.waits,
         Served(r, q), UNCHANGED <<history, shown, table, notice, cache>>,
         ReadAs(r, q)
  PROVE  CareInv'
<1>1. Of("save")' = Of("save") /\ Mounted' = Mounted
  BY DEF Of, Served, Mounted
<1>2. OneSave' /\ NoticeTrue' /\ SavesAttended'
  BY <1>1, SavesQuiet
<1>3. CacheTaken'
  BY <1>1 DEF CarefulInv, CareInv, CacheTaken
<1>4. ReadsTyped'
  BY <1>1 DEF CarefulInv, CareInv, ReadsTyped, Reads, Served, Settled, ReadAs
<1> QED
  BY <1>2, <1>3, <1>4 DEF CareInv

LEMMA CareServe == ASSUME CarefulInv, NEW r \in flight, Serve(r) PROVE CareInv'
<1>1. UNCHANGED <<stored, shown, table, notice, cache>>
  BY DEF Serve, ServeLogin, ServeLogout, ServeRefusal, ServeRequest, server, session, page
<1>2. r \in Request /\ Mine(r) /\ (shown # Nothing => Current(r))
  BY DEF CarefulInv, SessionInv, TypeInv, FlightType, Sound, OwnInv, FlightOwn
<1>3. CASE ServeLogin(r)
  <2>1. PICK id : id = Len(tokens')
    OBVIOUS
  <2> DEFINE q == [r EXCEPT !.status = "ok", !.token = id]
  <2>2. r.kind = "login" /\ Served(r, q) /\ UNCHANGED history
    BY <1>3, <2>1 DEF ServeLogin
  <2>3. q.kind = r.kind /\ q.waits = r.waits
    BY <1>2 DEF Request
  <2> HIDE DEF q
  <2>4. UNCHANGED <<history, shown, table, notice, cache>> /\ r.kind # "save" /\ ReadAs(r, q)
    BY <1>1, <2>2 DEF ReadAs
  <2> QED
    BY <2>2, <2>3, <2>4, OtherServed
<1>4. CASE ServeLogout(r) \/ ServeRefusal(r)
  <2>1. PICK how \in {"ok", "refused"} :
          /\ Served(r, [r EXCEPT !.status = how])
          /\ how = "refused" \/ r.kind = "logout"
    BY <1>4 DEF ServeLogout, ServeRefusal
  <2> DEFINE q == [r EXCEPT !.status = how]
  <2>2. /\ q.kind = r.kind /\ q.waits = r.waits /\ q.table = r.table /\ q.status = how
        /\ UNCHANGED history
    BY <1>2, <1>4 DEF Request, ServeLogout, ServeRefusal, server
  <2>3. Served(r, q)
    BY <2>1
  <2> HIDE DEF q
  <2>4. UNCHANGED <<history, shown, table, notice, cache>>
    BY <1>1, <2>2
  <2>5. CASE r.kind = "save"
    <3>1. q.status = "refused" /\ SavedAs(r, q)
      BY <2>1, <2>2, <2>5 DEF SavedAs
    <3> QED
      BY <2>2, <2>3, <2>4, <2>5, <3>1, SaveServed
  <2>6. CASE r.kind # "save"
    <3>1. ReadAs(r, q)
      BY <2>1, <2>2 DEF ReadAs
    <3> QED
      BY <2>2, <2>3, <2>4, <2>6, <3>1, OtherServed
  <2> QED
    BY <2>5, <2>6
<1>5. CASE ServeRequest(r)
  <2> DEFINE u == tokens[r.token]
             t == IF r.kind = "history" THEN history[u] ELSE r.table
             q == [r EXCEPT !.status = "ok", !.table = t]
  <2>1. /\ r.kind # "login" /\ Served(r, q)
        /\ history' = IF r.kind = "save" THEN [history EXCEPT ![u] = r.table] ELSE history
    BY <1>5 DEF ServeRequest
  <2>2. u = r.user /\ u \in Users
    BY <1>2, <2>1 DEF Mine, Request
  <2>3. q.kind = r.kind /\ q.waits = r.waits /\ q.table = t /\ q.status = "ok"
    BY <1>2 DEF Request
  <2>4. shown # Nothing /\ r.waits = "caller" => u = shown
    BY <1>2, <2>2 DEF Current
  <2> HIDE DEF q, u
  <2>5. CASE r.kind = "save"
    <3>1. t = r.table
      BY <2>5
    <3>2. shown # Nothing /\ r.waits = "caller" => history'[shown] = r.table
      BY <2>1, <2>2, <2>4, <2>5
      DEF CarefulInv, SessionInv, TypeInv, ServerType
    <3>3. SavedAs(r, q)
      BY <3>2 DEF SavedAs
    <3> QED
      BY <1>1, <2>1, <2>3, <2>5, <3>1, <3>3, SaveServed
  <2>6. CASE r.kind # "save"
    <3>1. r.kind = "history" => t = history[u]
      OBVIOUS
    <3>2. ReadAs(r, q)
      BY <2>3, <2>4, <3>1 DEF ReadAs
    <3>3. UNCHANGED <<history, shown, table, notice, cache>>
      BY <1>1, <2>1, <2>6
    <3> QED
      BY <2>1, <2>3, <2>6, <3>2, <3>3, OtherServed
  <2> QED
    BY <2>5, <2>6
<1> QED
  BY <1>3, <1>4, <1>5 DEF Serve

(* An answer reaches the page. *)
LEMMA SaveFailedCare ==
  ASSUME CarefulInv, NEW r \in flight, r.kind = "save",
         RequestFailed(r) \/ Unheard(r)
  PROVE  CareInv'
<1> USE DEF CarefulInv, CareInv
<1>1. Of("save") = {r} /\ r \notin Reads(flight)
  BY DEF OneSave, Of, Reads
<1>2. /\ flight' = flight \ {r} /\ UNCHANGED <<history, shown, table, cache>>
      /\ r.waits # "caller" => notice' = notice
      /\ r.waits = "caller" => notice'.text = "failed"
  <2>1. CASE RequestFailed(r)
    BY <1>1, <2>1 DEF RequestFailed, QueryFailed, server, session
  <2>2. CASE Unheard(r)
    BY <2>2 DEF Unheard, server, session, page
  <2> QED
    BY <2>1, <2>2
<1>3. Of("save")' = {}
  BY <1>1, <1>2 DEF Of
<1>4. Mounted' = Mounted /\ (Mounted => shown # Nothing)
  BY <1>2 DEF Mounted, SessionInv, TypeInv, ScreenType
<1>5. notice.text # "" => Mounted
  BY DEF NoticeTrue
<1>6. r.waits = "caller" => Mounted
  BY <1>1, <1>5 DEF NoticeTrue
<1>7. r.waits # "caller" => shown = Nothing /\ notice.text = ""
  BY <1>1, <1>4, <1>5 DEF SavesAttended
<1>8. OneSave' /\ NoticeTrue' /\ SavesAttended'
  BY <1>2, <1>3, <1>4, <1>6, <1>7, SavesGone
<1>9. CacheTaken'
  BY <1>2, <1>4 DEF CacheTaken
<1>10. ReadsTyped'
  BY <1>2, <1>7 DEF ReadsTyped, Settled
<1> QED
  BY <1>8, <1>9, <1>10

LEMMA SaveAnsweredCare ==
  ASSUME CarefulInv, NEW r \in flight, SaveAnswered(r) PROVE CareInv'
<1> USE DEF CarefulInv, CareInv
<1> DEFINE rest == flight \ {r}
           q == Send("history", shown, stored, Nothing)
<1>1. /\ r.kind = "save" /\ r.status = "ok"
      /\ notice' = IF r.waits = "caller" THEN [notice EXCEPT !.text = "saved"] ELSE notice
      /\ UNCHANGED <<history, shown, table>>
      /\ cache' = [cache EXCEPT !.fresh = FALSE]
      /\ flight' = IF ~Mounted \/ (~cache.loaded /\ Reads(rest) # {}) THEN rest
                   ELSE GiveUp(rest, {"history"}) \cup {q}
  BY DEF SaveAnswered, Taken, Invalidate, server, session
<1>2. Of("save") = {r} /\ \A p \in rest : p.kind # "save" /\ p \in Request
  BY <1>1, FlightRequests DEF OneSave, Of
<1>3. q.kind = "history" /\ q.status = "sent" /\ q.waits = "caller"
  BY SendFields
<1> HIDE DEF rest, q
<1>4. Of("save")' = {}
  <2>1. \A p \in GiveUp(rest, {"history"}) : \E o \in rest : p.kind = o.kind
    BY <1>2, GiveUpKinds
  <2> QED
    BY <1>1, <1>2, <1>3, <2>1 DEF Of
<1>5. /\ Mounted' = Mounted
      /\ cache'.ok = cache.ok /\ cache'.loaded = cache.loaded /\ cache'.data = cache.data
  BY <1>1 DEF Mounted, SessionInv, TypeInv, CacheType
<1>6. OneSave' /\ SavesAttended'
  BY <1>4 DEF OneSave, SavesAttended
<1>7. NoticeTrue'
  <2>1. notice.text # "saved" /\ (notice.text # "" => Mounted)
    BY <1>2 DEF NoticeTrue
  <2>2. r.waits = "caller" => /\ notice.text = "saving" /\ notice.of = r.table
                              /\ history[shown] = r.table
    BY <1>1, <1>2 DEF NoticeTrue
  <2>3. r.waits = "caller" => notice'.text = "saved" /\ notice'.of = notice.of
    BY <1>1 DEF SessionInv, TypeInv, ScreenType
  <2> QED
    BY <1>1, <1>4, <1>5, <2>1, <2>2, <2>3 DEF NoticeTrue
<1>8. CacheTaken'
  BY <1>1, <1>5 DEF CacheTaken
<1>9. ReadsTyped'
  <2>1. CASE shown = Nothing
    BY <1>1, <2>1 DEF ReadsTyped
  <2>2. CASE shown # Nothing
    <3>1. Mounted /\ cache.loaded
      BY <1>2, <2>2 DEF SavesAttended
    <3>2. flight' = GiveUp(rest, {"history"}) \cup {q}
      BY <1>1, <3>1
    <3>3. \A p \in GiveUp(rest, {"history"}) : p.kind = "history" => p.waits # "caller"
      BY <1>2 DEF GiveUp, Request
    <3>4. Reads(flight') = {q}
      BY <1>3, <3>2, <3>3 DEF Reads
    <3> QED
      BY <1>3, <3>4 DEF ReadsTyped
  <2> QED
    BY <2>1, <2>2
<1> QED
  BY <1>6, <1>7, <1>8, <1>9

LEMMA HistoryAnsweredCare ==
  ASSUME CarefulInv, NEW r \in flight, HistoryAnswered(r) PROVE CareInv'
<1> USE DEF CarefulInv, CareInv
<1>1. /\ r.kind = "history" /\ r.status = "ok" /\ flight' = flight \ {r}
      /\ UNCHANGED <<history, shown, notice>>
  BY DEF HistoryAnswered, Taken, server, session
<1>2. Of("save")' = Of("save")
  BY <1>1 DEF Of
<1>3. Mounted' = Mounted
  BY DEF HistoryAnswered, Mounted
<1>4. CASE r.waits = "caller"
  <2>1. /\ cache' = [data |-> r.table, loaded |-> TRUE, ok |-> TRUE, fresh |-> TRUE]
        /\ table' = IF /\ Mounted /\ (~cache.ok \/ cache.data # r.table)
                       /\ r.table # Nothing
                      THEN r.table ELSE table
    BY <1>4 DEF HistoryAnswered
  <2>2. OneSave' /\ NoticeTrue' /\ SavesAttended'
    BY <1>1, <1>2, <1>3, <2>1, SavesQuiet
  <2>3. CacheTaken'
    BY <1>3, <2>1 DEF CacheTaken, Typed
  <2>4. r \in Reads(flight) /\ Reads(flight') \subseteq Reads(flight)
    BY <1>1, <1>4 DEF Reads
  <2>5. ReadsTyped'
    BY <1>1, <1>2, <2>1, <2>4 DEF ReadsTyped, Settled
  <2> QED
    BY <2>2, <2>3, <2>5
<1>5. CASE r.waits # "caller"
  <2>1. UNCHANGED <<cache, table>>
    BY <1>5 DEF HistoryAnswered
  <2>2. Reads(flight') = Reads(flight)
    BY <1>1, <1>5 DEF Reads
  <2>3. OneSave' /\ NoticeTrue' /\ SavesAttended'
    BY <1>1, <1>2, <1>3, <2>1, SavesQuiet
  <2>4. CacheTaken' /\ ReadsTyped'
    BY <1>1, <1>2, <1>3, <2>1, <2>2 DEF CacheTaken, ReadsTyped, Settled
  <2> QED
    BY <2>3, <2>4
<1> QED
  BY <1>4, <1>5

LEMMA LoginAnsweredCare ==
  ASSUME CarefulInv, NEW r \in flight, LoginAnswered(r) PROVE CareInv'
<1> USE DEF CarefulInv, CareInv
<1>1. /\ r.kind = "login" /\ flight = {r} /\ flight \ {r} = {}
      /\ cache = Unfetched /\ shown = Nothing /\ UNCHANGED <<history, cache, route>>
  BY DEF LoginAnswered, Taken, SessionInv, OwnInv, LoginAlone, FlightOwn, Current, server
<1>2. ~cache.ok /\ ~cache'.ok
  BY <1>1 DEF Unfetched
<1>3. CASE Mount(r.user, r.token, {}, cache)
  <2>1. table' # Nothing
    BY <1>1, <1>3, Distinct DEF Mount, Unfetched
  <2>2. /\ OneSave' /\ NoticeTrue' /\ SavesAttended' /\ CacheTaken'
        /\ \A q \in Reads(flight') : q.status = "ok" => q \in Reads({})
    BY <1>2, <1>3, <2>1, CareMount
  <2>3. ReadsTyped'
    BY <1>2, <2>2 DEF ReadsTyped, Reads
  <2> QED
    BY <2>2, <2>3
<1>4. CASE flight' = {} /\ UNCHANGED <<table, notice>>
  <2>1. ~Mounted
    BY <1>1 DEF Mounted, SessionInv, TypeInv, ScreenType
  <2>2. notice'.text = "" /\ Of("save")' = {}
    BY <1>4, <2>1 DEF NoticeTrue, Of
  <2>3. OneSave' /\ NoticeTrue' /\ SavesAttended'
    BY <2>2, SavesGone
  <2>4. CacheTaken' /\ ReadsTyped'
    BY <1>2, <1>4 DEF CacheTaken, ReadsTyped, Reads
  <2> QED
    BY <2>3, <2>4
<1> QED
  BY <1>1, <1>3, <1>4 DEF LoginAnswered

LEMMA CareReceive == ASSUME CarefulInv, NEW r \in flight, Receive(r) PROVE CareInv'
<1> USE DEF CarefulInv, CareInv
<1>1. CASE LogoutAnswered(r) \/ Expired(r)
  <2>1. LeaveSession(flight \ {r}) /\ UNCHANGED history
    BY <1>1 DEF LogoutAnswered, Expired, server
  <2>2. cache'.ok => cache'.loaded
    BY <1>1 DEF LogoutAnswered, Expired, QueryFailed, CacheTaken, SessionInv, TypeInv,
                CacheType
  <2> QED
    BY <2>1, <2>2, CareLeave
<1>2. CASE (RequestFailed(r) \/ Unheard(r) \/ SimulationAnswered(r)) /\ r.kind # "save"
  <2>1. /\ UNCHANGED <<history, shown, table, notice>> /\ flight' = flight \ {r}
        /\ \/ cache' = cache /\ r \notin Reads(flight)
           \/ r \in Reads(flight) /\ cache' = [cache EXCEPT !.ok = FALSE, !.fresh = FALSE]
    BY <1>2 DEF RequestFailed, Unheard, SimulationAnswered, Taken, QueryFailed, Reads,
                server, session, page
  <2>2. /\ Of("save")' = Of("save") /\ Mounted' = Mounted
        /\ Reads(flight') \subseteq Reads(flight)
        /\ r \notin Reads(flight) => Reads(flight') = Reads(flight)
    BY <1>2, <2>1 DEF Of, Mounted, Reads
  <2>3. /\ cache'.loaded = cache.loaded
        /\ cache'.ok => cache' = cache /\ r \notin Reads(flight)
    BY <2>1 DEF SessionInv, TypeInv, CacheType
  <2>4. OneSave' /\ NoticeTrue' /\ SavesAttended'
    BY <2>1, <2>2, <2>3, SavesQuiet
  <2>5. CacheTaken'
    BY <2>1, <2>2, <2>3 DEF CacheTaken
  <2>6. ReadsTyped'
    BY <2>1, <2>2, <2>3 DEF ReadsTyped, Settled
  <2> QED
    BY <2>4, <2>5, <2>6
<1> QED
  BY <1>1, <1>2, LoginAnsweredCare, HistoryAnsweredCare, SaveAnsweredCare, SaveFailedCare
  DEF Receive, SimulationAnswered, Taken

LEMMA CareInvStep ==
  ASSUME {"reload", "wait"} \subseteq Habits, CarefulInv, [Next]_vars PROVE CareInv'
<1>1. CASE Expire \/ UNCHANGED vars
  <2>1. UNCHANGED <<history, shown, table, notice, flight, cache>>
    BY <1>1 DEF Expire, vars, session, page
  <2>2. Of("save")' = Of("save") /\ Mounted' = Mounted
    BY <2>1 DEF Of, Mounted
  <2>3. OneSave' /\ NoticeTrue' /\ SavesAttended'
    BY <2>1, <2>2, SavesQuiet
  <2>4. CacheTaken' /\ ReadsTyped'
    BY <2>1, <2>2 DEF CarefulInv, CareInv, CacheTaken, ReadsTyped, Settled
  <2> QED
    BY <2>3, <2>4 DEF CareInv
<1> QED
  BY <1>1, CareUser, CareQuery, CareServe, CareReceive DEF Next

LEMMA CarefulInvariant ==
  {"reload", "wait"} \subseteq Habits => (Spec => []CarefulInv)
<1> SUFFICES ASSUME {"reload", "wait"} \subseteq Habits PROVE Spec => []CarefulInv
  OBVIOUS
<1>1. SessionInv /\ CareInv /\ [Next]_vars => CareInv'
  BY CareInvStep DEF CarefulInv
<1>2. CarefulInv <=> SessionInv /\ CareInv
  BY DEF CarefulInv
<1>3. Spec => []SessionInv
  BY SessionInvariant
<1> QED
  BY <1>1, <1>2, <1>3, CareInvInit, PTL DEF Spec

(* With careful users "Datos guardados" (Dashboard) is true for as long as *)
(* it is shown: the server holds what the user saved, whatever reads,      *)
(* failures and reloads there have been since.                             *)
THEOREM SavedNoticeIsTrue ==
  {"reload", "wait"} \subseteq Habits => (Spec => []SavedIsTrue)
<1>1. CarefulInv => SavedIsTrue
  BY DEF CarefulInv, CareInv, NoticeTrue, SavedIsTrue
<1> QED
  BY <1>1, CarefulInvariant, PTL

(* With careful users what somebody typed and saved is never replaced by   *)
(* the default table or nothing: the table that "Calcular ano completo"    *)
(* saves has taken over what the server held.                              *)
THEOREM TypedStaysTyped ==
  {"reload", "wait"} \subseteq Habits => (Spec => SavedStaySaved)
<1>1. CarefulInv /\ [Next]_vars =>
        [\A u \in Users : Typed(history[u]) => Typed(history'[u])]_vars
  <2> SUFFICES ASSUME CarefulInv, Next, NEW u \in Users, Typed(history[u])
               PROVE  Typed(history'[u])
    OBVIOUS
  <2>1. CASE UNCHANGED history
    BY <2>1
  <2>2. ASSUME NEW r \in flight, ServeRequest(r), r.kind = "save" PROVE Typed(history'[u])
    <3>1. r.status = "sent" /\ history' = [history EXCEPT ![tokens[r.token]] = r.table]
      BY <2>2 DEF ServeRequest
    <3>2. tokens[r.token] = r.user
      BY <2>2 DEF CarefulInv, SessionInv, OwnInv, FlightOwn, Mine
    <3>3. Typed(history[r.user]) => Typed(r.table)
      BY <2>2, <3>1 DEF CarefulInv, CareInv, SavesAttended, Of
    <3> QED
      BY <3>1, <3>2, <3>3 DEF CarefulInv, SessionInv, TypeInv, ServerType
  <2> QED
    BY <2>1, <2>2
    DEF Next, User, SubmitLogin, Logout, Navigate, Edit, AnnualSimulate, Reload, Query,
        GrowStale, Refetch, Collect, Expire, Serve, ServeLogin, ServeLogout, ServeRefusal,
        ServeRequest, Receive, LoginAnswered, LogoutAnswered, Expired, HistoryAnswered,
        SaveAnswered, SimulationAnswered, RequestFailed, Unheard, server
<1> QED
  BY <1>1, CarefulInvariant, PTL DEF Spec, SavedStaySaved

=============================================================================
