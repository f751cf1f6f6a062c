----------------------------- MODULE AuthProofs -----------------------------
(* Theorems about Auth, for every number of slots, accounts and tokens and *)
(* every token lifetime.                                                   *)
EXTENDS Auth, TLAPS

-----------------------------------------------------------------------------
(* TypeOK alone is not inductive: a handler writes what its request holds, *)
(* so the fields it will use must already be filled in.                    *)

(* What a request in flight holds, by the statement it is at.              *)
InFlight(p) ==
  /\ pc[p] \in {"insert", "conflict", "lookup", "compare", "sign"}
       => req[p].name \in Names /\ req[p].password \in Passwords
  /\ pc[p] = "insert" => req[p].email \in Emails
  /\ pc[p] \in {"validate", "isRevoked", "handler", "verify", "store",
                "logout", "revoke"} => tokens[req[p].jti] # None
  /\ pc[p] \in {"validate", "isRevoked", "handler", "verify", "store"}
     /\ req[p].op = "password"
       => req[p].password \in Passwords /\ req[p].fresh \in Passwords
  /\ pc[p] \in {"verify", "store"} => req[p].op = "password"

(* Signed tokens are numbered without gaps and none is signed for nobody.  *)
TokenTable ==
  /\ \A j \in Jtis : tokens[j] # None <=> j <= issued
  /\ everRevoked \subseteq Signed
  /\ revoked \subseteq everRevoked

TypeInv == TypeOK /\ TokenTable /\ \A p \in Slots : InFlight(p)

LEMMA OneIsJti == 1 \in Jtis
  BY MaxTokensAssumption DEF Jtis

LEMMA BlankType == Blank \in Request
  BY OneIsJti DEF Blank, Request, Op

LEMMA TypeInvInit == Init => TypeInv
  BY BlankType, ClockAssumption, MaxTokensAssumption
  DEF Init, TypeInv, TypeOK, TokenTable, InFlight, Label, Time, Jtis, Signed

(* The end of a request. *)
LEMMA AnswerType ==
  ASSUME TypeInv, NEW p \in Slots, Answer(p), UNCHANGED tokens
  PROVE  /\ pc' \in [Slots -> Label] /\ req' \in [Slots -> Request]
         /\ \A q \in Slots : InFlight(q)'
  BY BlankType DEF TypeInv, TypeOK, Answer, InFlight, Label

(* A step within a request that keeps its input. *)
LEMMA ProceedType ==
  ASSUME TypeInv, NEW p \in Slots, NEW label \in Label, Proceed(p, label)
  PROVE  pc' \in [Slots -> Label]
  BY DEF TypeInv, TypeOK, Proceed

LEMMA AcceptType ==
  ASSUME TypeInv, NEW p \in Slots, NEW r \in Request, NEW label \in Label,
         Accept(p, r, label),
         label \in {"insert", "lookup"} =>
            r.name \in Names /\ r.password \in Passwords,
         label = "insert" => r.email \in Emails,
         label \in {"validate", "logout"} => tokens[r.jti] # None,
         label = "validate" /\ r.op = "password" =>
            r.password \in Passwords /\ r.fresh \in Passwords,
         label \in {"insert", "lookup", "validate", "logout"}
  PROVE  TypeInv'
  <1>1. TypeOK'
    BY DEF TypeInv, TypeOK, Accept, Proceed, Tables
  <1>2. TokenTable'
    BY DEF TypeInv, TokenTable, Accept, Tables, Signed
  <1>3. \A q \in Slots : InFlight(q)'
    BY DEF TypeInv, TypeOK, InFlight, Accept, Proceed, Tables
  <1> QED
    BY <1>1, <1>2, <1>3 DEF TypeInv

LEMMA TypeInvStep == TypeInv /\ [Next]_vars => TypeInv'
  <1> SUFFICES ASSUME TypeInv, [Next]_vars PROVE TypeInv'
    OBVIOUS
  <1> USE DEF TypeInv
  <1>1. CASE UNCHANGED vars
    BY <1>1 DEF vars, TypeOK, TokenTable, InFlight, Signed
  <1>2. ASSUME NEW p \in Slots, Arrive(p) PROVE TypeInv'
    <2>1. CASE Register(p)
      <3>1. PICK n \in Names, e \in Emails, w \in Passwords :
              Accept(p, [Blank EXCEPT !.op = "register", !.name = n, !.email = e,
                                      !.password = w], "insert")
        BY <2>1 DEF Register
      <3> DEFINE r == [Blank EXCEPT !.op = "register", !.name = n, !.email = e,
                                    !.password = w]
      <3>2. r \in Request /\ r.name = n /\ r.email = e /\ r.password = w
        BY OneIsJti DEF Blank, Request, Op
      <3> QED
        BY <3>1, <3>2, AcceptType DEF Label
    <2>2. CASE Login(p)
      <3>1. PICK n \in Names, w \in Passwords :
              Accept(p, [Blank EXCEPT !.op = "login", !.name = n, !.password = w],
                     "lookup")
        BY <2>2 DEF Login
      <3> DEFINE r == [Blank EXCEPT !.op = "login", !.name = n, !.password = w]
      <3>2. r \in Request /\ r.name = n /\ r.password = w
        BY OneIsJti DEF Blank, Request, Op
      <3> QED
        BY <3>1, <3>2, AcceptType DEF Label
    <2>3. CASE ChangePassword(p)
      <3>1. PICK j \in Signed, w \in Passwords, v \in Passwords :
              Accept(p, [Blank EXCEPT !.op = "password", !.jti = j, !.password = w,
                                      !.fresh = v], "validate")
        BY <2>3 DEF ChangePassword
      <3> DEFINE r == [Blank EXCEPT !.op = "password", !.jti = j, !.password = w,
                                    !.fresh = v]
      <3>2. r \in Request /\ r.jti = j /\ r.password = w /\ r.fresh = v
        BY DEF Blank, Request, Op, Signed
      <3> QED
        BY <3>1, <3>2, AcceptType DEF Label, Signed
    <2>4. CASE Protected(p)
      <3>1. PICK j \in Signed :
              Accept(p, [Blank EXCEPT !.op = "profile", !.jti = j], "validate")
        BY <2>4 DEF Protected
      <3> DEFINE r == [Blank EXCEPT !.op = "profile", !.jti = j]
      <3>2. r \in Request /\ r.jti = j /\ r.op = "profile"
        BY DEF Blank, Request, Op, Signed
      <3> QED
        BY <3>1, <3>2, AcceptType DEF Label, Signed
    <2>5. CASE Logout(p)
      <3>1. PICK j \in Signed : Accept(p, [Blank EXCEPT !.jti = j], "logout")
        BY <2>5 DEF Logout
      <3> DEFINE r == [Blank EXCEPT !.jti = j]
      <3>2. r \in Request /\ r.jti = j
        BY DEF Blank, Request, Op, Signed
      <3> QED
        BY <3>1, <3>2, AcceptType DEF Label, Signed
    <2> QED
      BY <1>2, <2>1, <2>2, <2>3, <2>4, <2>5 DEF Arrive
  <1>3. ASSUME NEW p \in Slots, Work(p) PROVE TypeInv'
    <2>1. CASE CreateUser(p)
      <3>1. CASE Taken(req[p].name, req[p].email)
        BY <2>1, <3>1 DEF CreateUser, TypeOK, TokenTable, InFlight, Proceed,
                          Label, Signed
      <3>2. CASE ~Taken(req[p].name, req[p].email)
        <4>1. [email |-> req[p].email, password |-> req[p].password] \in Account
          BY <2>1 DEF CreateUser, InFlight, Account
        <4>2. /\ accounts' = [accounts EXCEPT ![req[p].name] =
                   [email |-> req[p].email, password |-> req[p].password]]
              /\ had' = [had EXCEPT ![req[p].name] = @ \cup {req[p].password}]
              /\ pc[p] = "insert" /\ Proceed(p, "sign")
              /\ UNCHANGED <<req, tokens, issued, revoked, everRevoked, clock,
                             loggedOut>>
          BY <2>1, <3>2 DEF CreateUser
        <4>3. TypeOK'
          BY <4>1, <4>2 DEF TypeOK, InFlight, Proceed, Label
        <4>4. TokenTable' /\ \A q \in Slots : InFlight(q)'
          BY <4>2 DEF TypeOK, TokenTable, InFlight, Proceed, Signed
        <4> QED
          BY <4>3, <4>4
      <3> QED
        BY <3>1, <3>2
    <2>2. CASE Conflict(p)
      BY <2>2, AnswerType DEF Conflict, TypeOK, TokenTable, Tables, Signed
    <2>3. CASE GetByUsername(p)
      <3>1. /\ pc[p] = "lookup" /\ Proceed(p, "compare")
            /\ req' = [req EXCEPT ![p] = [@ EXCEPT !.seen = Stored(req[p].name)]]
            /\ UNCHANGED <<Tables, clock, loggedOut>>
        BY <2>3 DEF GetByUsername
      <3>2. Stored(req[p].name) \in Passwords \cup {None}
        BY <3>1 DEF Stored, TypeOK, InFlight, Account
      <3>3. [req[p] EXCEPT !.seen = Stored(req[p].name)] \in Request
        BY <3>2 DEF TypeOK, Request
      <3>4. /\ req'[p].name = req[p].name /\ req'[p].password = req[p].password
            /\ \A q \in Slots \ {p} : req'[q] = req[q]
        BY <3>1 DEF TypeOK, Request
      <3>5. TypeOK' /\ TokenTable'
        BY <3>1, <3>3 DEF TypeOK, TokenTable, Tables, Proceed, Label, Signed
      <3>6. \A q \in Slots : InFlight(q)'
        BY <3>1, <3>4 DEF TypeOK, InFlight, Proceed, Tables
      <3> QED
        BY <3>5, <3>6
    <2>4. CASE CheckPassword(p)
      <3>1. CASE req[p].seen = req[p].password
        BY <2>4, <3>1 DEF CheckPassword, TypeOK, TokenTable, InFlight, Proceed,
                          Tables, Label, Signed
      <3>2. CASE req[p].seen # req[p].password
        BY <2>4, <3>2, AnswerType DEF CheckPassword, TypeOK, TokenTable, Tables,
                                      Signed
      <3> QED
        BY <3>1, <3>2
    <2>5. CASE GenerateToken(p)
      <3>1. /\ pc[p] = "sign" /\ issued < MaxTokens /\ issued' = issued + 1
            /\ tokens' = [tokens EXCEPT ![issued + 1] =
                            [user |-> req[p].name, exp |-> clock + TTL]]
            /\ Answer(p)
            /\ UNCHANGED <<accounts, revoked, had, everRevoked, clock, loggedOut>>
        BY <2>5 DEF GenerateToken
      <3>2. issued + 1 \in Jtis /\ issued' \in 0..MaxTokens
        BY <3>1, MaxTokensAssumption DEF TypeOK, Jtis
      <3>3. [user |-> req[p].name, exp |-> clock + TTL] \in Token
        BY <3>1, ClockAssumption DEF TypeOK, InFlight, Token, Time
      <3>4. TypeOK'
        BY <3>1, <3>2, <3>3, BlankType DEF TypeOK, Answer, Label
      <3>5. TokenTable'
        BY <3>1, <3>2, <3>3, NoneAssumption, MaxTokensAssumption
        DEF TypeOK, TokenTable, Signed, Jtis
      <3>6. \A q \in Slots : InFlight(q)'
        BY <3>1, <3>2, <3>3, NoneAssumption DEF TypeOK, InFlight, Answer
      <3> QED
        BY <3>4, <3>5, <3>6
    <2>6. CASE ValidateToken(p)
      <3>1. CASE Valid(req[p].jti)
        BY <2>6, <3>1 DEF ValidateToken, TypeOK, TokenTable, InFlight, Proceed,
                          Tables, Label, Signed
      <3>2. CASE ~Valid(req[p].jti)
        BY <2>6, <3>2, AnswerType DEF ValidateToken, TypeOK, TokenTable, Tables,
                                      Signed
      <3> QED
        BY <3>1, <3>2
    <2>7. CASE IsTokenRevoked(p)
      <3>1. CASE req[p].jti \notin revoked
        BY <2>7, <3>1 DEF IsTokenRevoked, TypeOK, TokenTable, InFlight, Proceed,
                          Tables, Label, Signed
      <3>2. CASE req[p].jti \in revoked
        BY <2>7, <3>2, AnswerType DEF IsTokenRevoked, TypeOK, TokenTable, Tables,
                                      Signed
      <3> QED
        BY <3>1, <3>2
    <2>8. CASE ReadUser(p)
      <3>1. /\ pc[p] = "handler" /\ req[p].op = "password" /\ Proceed(p, "verify")
            /\ req' = [req EXCEPT ![p] = [@ EXCEPT !.seen = Stored(User(p))]]
            /\ UNCHANGED <<Tables, clock, loggedOut>>
        BY <2>8 DEF ReadUser
      <3>2. User(p) \in Names
        BY <3>1 DEF User, TypeOK, InFlight, Token, Request
      <3>3. Stored(User(p)) \in Passwords \cup {None}
        BY <3>2 DEF Stored, TypeOK, Account
      <3>4. [req[p] EXCEPT !.seen = Stored(User(p))] \in Request
        BY <3>3 DEF TypeOK, Request
      <3>5. /\ req'[p].jti = req[p].jti /\ req'[p].op = req[p].op
            /\ req'[p].password = req[p].password /\ req'[p].fresh = req[p].fresh
            /\ \A q \in Slots \ {p} : req'[q] = req[q]
        BY <3>1 DEF TypeOK, Request
      <3>6. TypeOK' /\ TokenTable'
        BY <3>1, <3>4 DEF TypeOK, TokenTable, Tables, Proceed, Label, Signed
      <3>7. \A q \in Slots : InFlight(q)'
        BY <3>1, <3>5 DEF TypeOK, InFlight, Proceed, Tables
      <3> QED
        BY <3>6, <3>7
    <2>9. CASE VerifyCurrent(p)
      <3>1. CASE req[p].seen = req[p].password
        BY <2>9, <3>1 DEF VerifyCurrent, TypeOK, TokenTable, InFlight, Proceed,
                          Tables, Label, Signed
      <3>2. CASE req[p].seen # req[p].password
        BY <2>9, <3>2, AnswerType DEF VerifyCurrent, TypeOK, TokenTable, Tables,
                                      Signed
      <3> QED
        BY <3>1, <3>2
    <2>10. CASE UpdatePassword(p)
      <3>1. /\ pc[p] = "store" /\ accounts[User(p)] # None
            /\ accounts' = [accounts EXCEPT ![User(p)] =
                              [@ EXCEPT !.password = req[p].fresh]]
            /\ had' = [had EXCEPT ![User(p)] = @ \cup {req[p].fresh}]
            /\ Answer(p)
            /\ UNCHANGED <<tokens, issued, revoked, everRevoked, clock, loggedOut>>
        BY <2>10 DEF UpdatePassword
      <3>2. User(p) \in Names /\ req[p].fresh \in Passwords
        BY <3>1 DEF User, TypeOK, InFlight, Token, Request
      <3>3. [accounts[User(p)] EXCEPT !.password = req[p].fresh] \in Account
        BY <3>1, <3>2 DEF TypeOK, Account
      <3>4. TypeOK'
        BY <3>1, <3>2, <3>3, AnswerType DEF TypeOK
      <3> QED
        BY <3>1, <3>4, AnswerType DEF TokenTable, Signed
    <2>11. CASE Serve(p)
      BY <2>11, AnswerType DEF Serve, TypeOK, TokenTable, Tables, Signed
    <2>12. CASE LogoutValidate(p)
      <3>1. CASE Valid(req[p].jti)
        BY <2>12, <3>1 DEF LogoutValidate, TypeOK, TokenTable, InFlight, Proceed,
                           Tables, Label, Signed
      <3>2. CASE ~Valid(req[p].jti)
        BY <2>12, <3>2, AnswerType DEF LogoutValidate, TypeOK, TokenTable, Tables,
                                       Signed
      <3> QED
        BY <3>1, <3>2
    <2>13. CASE RevokeToken(p)
      <3>1. req[p].jti \in Signed
        BY <2>13 DEF RevokeToken, InFlight, TypeOK, Request, Signed
      <3> QED
        BY <2>13, <3>1, AnswerType
        DEF RevokeToken, Acknowledge, TypeOK, TokenTable, Signed
    <2>14. CASE RevokeTokenFails(p)
      <3>1. req[p].jti \in Jtis
        BY DEF TypeOK, Request
      <3> QED
        BY <2>14, <3>1, AnswerType
        DEF RevokeTokenFails, Acknowledge, TypeOK, TokenTable, Tables, Signed
    <2> QED
      BY <1>3, <2>1, <2>2, <2>3, <2>4, <2>5, <2>6, <2>7, <2>8, <2>9, <2>10, <2>11,
         <2>12, <2>13, <2>14 DEF Work
  <1>4. ASSUME NEW p \in Slots, Abort(p) PROVE TypeInv'
    BY <1>4, AnswerType DEF Abort, TypeOK, TokenTable, Tables, Signed
  <1>5. CASE CleanupExpiredTokens
    BY <1>5 DEF CleanupExpiredTokens, TypeOK, TokenTable, InFlight, Signed
  <1>6. CASE Tick
    BY <1>6, ClockAssumption
    DEF Tick, TypeOK, TokenTable, InFlight, Tables, Signed, Time
  <1> QED
    BY <1>1, <1>2, <1>3, <1>4, <1>5, <1>6 DEF Next

(* Every reachable state is well typed. *)
THEOREM TypeCorrect == Spec => []TypeOK
  <1>1. TypeInv => TypeOK
    BY DEF TypeInv
  <1> QED
    BY <1>1, TypeInvInit, TypeInvStep, PTL DEF Spec

-----------------------------------------------------------------------------
(* Revocation.  The database clock must not be ahead of the servers': the  *)
(* cleanup then deletes a row only when the token has expired for every    *)
(* server.                                                                 *)

LEMMA RevocationStep ==
  ASSUME DbLead <= 0
  PROVE  TypeInv /\ RevocationOutlastsToken /\ [Next]_vars
           => RevocationOutlastsToken'
  <1> SUFFICES ASSUME TypeInv, RevocationOutlastsToken, [Next]_vars
               PROVE  RevocationOutlastsToken'
    OBVIOUS
  <1> USE DEF RevocationOutlastsToken, Valid
  <1>0. \A j \in everRevoked : tokens[j].exp \in Int
    BY ClockAssumption DEF TypeInv, TypeOK, TokenTable, Signed, Token
  <1>1. CASE UNCHANGED vars
    BY <1>1 DEF vars
  <1>2. ASSUME NEW p \in Slots, Arrive(p) PROVE RevocationOutlastsToken'
    BY <1>2 DEF Arrive, Register, Login, ChangePassword, Protected, Logout,
                Accept, Tables
  <1>3. ASSUME NEW p \in Slots, GenerateToken(p) PROVE RevocationOutlastsToken'
    <2>1. tokens' = [tokens EXCEPT ![issued + 1] =
                       [user |-> req[p].name, exp |-> clock + TTL]]
          /\ UNCHANGED <<revoked, everRevoked, clock>> /\ issued < MaxTokens
      BY <1>3 DEF GenerateToken
    <2>2. \A j \in everRevoked : j \in Jtis /\ j <= issued
      BY DEF TypeInv, TokenTable, Signed
    <2>3. \A j \in everRevoked : j # issued + 1
      BY <2>2 DEF TypeInv, TypeOK, Jtis
    <2>4. \A j \in everRevoked : tokens'[j] = tokens[j]
      BY <2>1, <2>2, <2>3 DEF TypeInv, TypeOK
    <2> QED
      BY <2>1, <2>4
  <1>4. ASSUME NEW p \in Slots, RevokeToken(p) PROVE RevocationOutlastsToken'
    BY <1>4 DEF RevokeToken
  <1>5. ASSUME NEW p \in Slots,
               \/ CreateUser(p) \/ Conflict(p) \/ GetByUsername(p)
               \/ CheckPassword(p) \/ ValidateToken(p) \/ IsTokenRevoked(p)
               \/ ReadUser(p) \/ VerifyCurrent(p) \/ UpdatePassword(p) \/ Serve(p)
               \/ LogoutValidate(p) \/ RevokeTokenFails(p) \/ Abort(p)
        PROVE  RevocationOutlastsToken'
    BY <1>5 DEF CreateUser, Conflict, GetByUsername, CheckPassword, ValidateToken,
       IsTokenRevoked, ReadUser, VerifyCurrent, UpdatePassword, Serve,
       LogoutValidate, RevokeTokenFails, Abort, Tables
  <1>6. CASE CleanupExpiredTokens
    <2>1. /\ revoked' = {j \in revoked : ~(tokens[j].exp < clock + DbLead)}
          /\ UNCHANGED <<tokens, everRevoked, clock>>
      BY <1>6 DEF CleanupExpiredTokens
    <2>2. clock \in Int
      BY DEF TypeInv, TypeOK, Time
    <2>3. \A j \in everRevoked : clock < tokens[j].exp => ~(tokens[j].exp < clock + DbLead)
      BY <1>0, <2>2, ClockAssumption
    <2> QED
      BY <2>1, <2>3
  <1>7. CASE Tick
    <2>1. clock' = clock + 1 /\ UNCHANGED <<tokens, revoked, everRevoked>>
      BY <1>7 DEF Tick, Tables
    <2>2. clock \in Int
      BY DEF TypeInv, TypeOK, Time
    <2>3. \A j \in everRevoked : clock + 1 < tokens[j].exp => clock < tokens[j].exp
      BY <1>0, <2>2
    <2> QED
      BY <2>1, <2>3
  <1> QED
    BY <1>1, <1>2, <1>3, <1>4, <1>5, <1>6, <1>7 DEF Next, Work

(* While a token is unexpired its revocation is not forgotten, whenever    *)
(* instances start and clean up.                                           *)
THEOREM RevocationsLast ==
  ASSUME DbLead <= 0 PROVE Spec => []RevocationOutlastsToken
  <1>1. Init => RevocationOutlastsToken
    BY DEF Init, RevocationOutlastsToken
  <1> QED
    BY <1>1, RevocationStep, TypeInvInit, TypeInvStep, PTL DEF Spec

(* A step of one request moves only that request. *)
LEMMA OthersStay ==
  ASSUME TypeInv, NEW p \in Slots, NEW q \in Slots,
         (\E label \in Label : Proceed(q, label)) \/ Answer(q), p # q
  PROVE  pc'[p] = pc[p]
  BY DEF TypeInv, TypeOK, Proceed, Answer

LEMMA Proceeds ==
  ASSUME TypeInv, NEW p \in Slots, NEW label \in Label, Proceed(p, label)
  PROVE  pc'[p] = label
  BY DEF TypeInv, TypeOK, Proceed

LEMMA Answers ==
  ASSUME TypeInv, NEW p \in Slots, Answer(p) PROVE pc'[p] = "idle"
  BY DEF TypeInv, TypeOK, Answer

(* IsTokenRevoked is the only way past RequireAuth. *)
LEMMA AdmittedByCheck ==
  ASSUME TypeInv, Next, NEW p \in Slots, Admitted(p)
  PROVE  req[p].jti \notin revoked
  <1>1. pc[p] = "isRevoked" /\ pc'[p] = "handler"
    BY DEF Admitted
  <1>2. PICK q \in Slots : Arrive(q) \/ Work(q) \/ Abort(q)
    BY <1>1 DEF Next, CleanupExpiredTokens, Tick
  <1>3. (\E label \in Label : Proceed(q, label)) \/ Answer(q)
    <2>1. CASE Arrive(q)
      BY <2>1 DEF Arrive, Register, Login, ChangePassword, Protected, Logout,
                  Accept, Label
    <2>2. CASE Work(q)
      BY <2>2 DEF Work, CreateUser, Conflict, GetByUsername, CheckPassword,
         GenerateToken, ValidateToken, IsTokenRevoked, ReadUser, VerifyCurrent,
         UpdatePassword, Serve, LogoutValidate, RevokeToken, RevokeTokenFails,
         Acknowledge, Label
    <2>3. CASE Abort(q)
      BY <2>3 DEF Abort
    <2> QED
      BY <1>2, <2>1, <2>2, <2>3
  <1>4. q = p
    BY <1>1, <1>3, OthersStay
  <1>5. ~Arrive(p)
    BY <1>1 DEF Arrive, Register, Login, ChangePassword, Protected, Logout, Accept
  <1>6. ~Abort(p)
    BY <1>1, Answers DEF Abort
  <1>7. Work(p) => IsTokenRevoked(p)
    BY <1>1 DEF Work, CreateUser, Conflict, GetByUsername, CheckPassword,
       GenerateToken, ValidateToken, ReadUser, VerifyCurrent, UpdatePassword,
       Serve, LogoutValidate, RevokeToken, RevokeTokenFails
  <1> QED
    BY <1>1, <1>2, <1>4, <1>5, <1>6, <1>7, Answers DEF IsTokenRevoked

(* RequireAuth admits no unexpired token whose revocation was committed.   *)
THEOREM RevokedTokensAreRefused ==
  ASSUME DbLead <= 0 PROVE Spec => NoLiveReuse
  <1>1. TypeInv /\ RevocationOutlastsToken /\ [Next]_vars =>
          [RevokedStayOut]_vars
    <2> SUFFICES ASSUME TypeInv, RevocationOutlastsToken, Next, NEW p \in Slots,
                        Admitted(p), Valid(req[p].jti)
                 PROVE  req[p].jti \notin everRevoked
      BY DEF RevokedStayOut
    <2> QED
      BY AdmittedByCheck DEF RevocationOutlastsToken
  <1>2. Init => RevocationOutlastsToken
    BY DEF Init, RevocationOutlastsToken
  <1> QED
    BY <1>1, <1>2, RevocationStep, TypeInvInit, TypeInvStep, PTL
    DEF Spec, NoLiveReuse

-----------------------------------------------------------------------------
(* What a password proves.  A request reads a stored password, compares    *)
(* slowly and acts later, when the account may have another one: what it   *)
(* has shown is that it knew a password the account has had.               *)

(* What the request has read or compared, by the statement it is at.       *)
Knows(p) ==
  /\ pc[p] = "compare" => req[p].seen \in had[req[p].name] \cup {None}
  /\ pc[p] = "sign" => req[p].password \in had[req[p].name]
  /\ pc[p] = "verify" => req[p].seen \in had[User(p)] \cup {None}
  /\ pc[p] = "store" => req[p].password \in had[User(p)]

ProofInv ==
  /\ \A n \in Names : accounts[n] # None => accounts[n].password \in had[n]
  /\ \A p \in Slots : Knows(p)

(* What an account has had it has had for ever. *)
LEMMA HadGrows ==
  ASSUME TypeInv, [Next]_vars
  PROVE  \A n \in Names : had[n] \subseteq had'[n]
  <1> USE DEF TypeInv, TypeOK
  <1>1. CASE UNCHANGED vars
    BY <1>1 DEF vars
  <1>2. ASSUME NEW p \in Slots, Arrive(p) PROVE had' = had
    BY <1>2 DEF Arrive, Register, Login, ChangePassword, Protected, Logout, Accept, Tables
  <1>3. ASSUME NEW p \in Slots, CreateUser(p) \/ UpdatePassword(p)
        PROVE  \A n \in Names : had[n] \subseteq had'[n]
    BY <1>3 DEF CreateUser, UpdatePassword
  <1>4. ASSUME NEW p \in Slots,
               \/ Conflict(p) \/ GetByUsername(p) \/ CheckPassword(p) \/ GenerateToken(p)
               \/ ValidateToken(p) \/ IsTokenRevoked(p) \/ ReadUser(p) \/ VerifyCurrent(p)
               \/ Serve(p) \/ LogoutValidate(p) \/ RevokeToken(p) \/ RevokeTokenFails(p)
               \/ Abort(p)
        PROVE  had' = had
    BY <1>4 DEF Conflict, GetByUsername, CheckPassword, GenerateToken, ValidateToken,
       IsTokenRevoked, ReadUser, VerifyCurrent, Serve, LogoutValidate, RevokeToken,
       RevokeTokenFails, Abort, Tables
  <1>5. CleanupExpiredTokens \/ Tick => had' = had
    BY DEF CleanupExpiredTokens, Tick, Tables
  <1> QED
    BY <1>1, <1>2, <1>3, <1>4, <1>5 DEF Next, Work

(* Only GenerateToken writes a token, under the next number. *)
LEMMA OneSigner ==
  ASSUME TypeInv, [Next]_vars, tokens' # tokens
  PROVE  \E p \in Slots : GenerateToken(p)
  <1>1. ASSUME NEW p \in Slots, Arrive(p) \/ Abort(p) PROVE tokens' = tokens
    BY <1>1 DEF Arrive, Register, Login, ChangePassword, Protected, Logout, Accept, Abort,
                Tables
  <1>2. ASSUME NEW p \in Slots, Work(p), ~GenerateToken(p) PROVE tokens' = tokens
    BY <1>2 DEF Work, CreateUser, UpdatePassword, Conflict, GetByUsername, CheckPassword,
       ValidateToken, IsTokenRevoked, ReadUser, VerifyCurrent, Serve, LogoutValidate,
       RevokeToken, RevokeTokenFails, Tables
  <1>3. UNCHANGED vars \/ CleanupExpiredTokens \/ Tick => tokens' = tokens
    BY DEF vars, CleanupExpiredTokens, Tick, Tables
  <1> QED
    BY <1>1, <1>2, <1>3 DEF Next

(* Accounts are made and changed by two statements. *)
LEMMA OneWriter ==
  ASSUME TypeInv, [Next]_vars, accounts' # accounts
  PROVE  \E p \in Slots : CreateUser(p) \/ UpdatePassword(p)
  <1>1. ASSUME NEW p \in Slots, Arrive(p) \/ Abort(p) PROVE accounts' = accounts
    BY <1>1 DEF Arrive, Register, Login, ChangePassword, Protected, Logout, Accept, Abort,
                Tables
  <1>2. ASSUME NEW p \in Slots, Work(p), ~CreateUser(p), ~UpdatePassword(p)
        PROVE  accounts' = accounts
    BY <1>2 DEF Work, Conflict, GetByUsername, CheckPassword, GenerateToken, ValidateToken,
       IsTokenRevoked, ReadUser, VerifyCurrent, Serve, LogoutValidate, RevokeToken,
       RevokeTokenFails, Tables
  <1>3. UNCHANGED vars \/ CleanupExpiredTokens \/ Tick => accounts' = accounts
    BY DEF vars, CleanupExpiredTokens, Tick, Tables
  <1> QED
    BY <1>1, <1>2, <1>3 DEF Next

(* A signed token is never changed. *)
LEMMA SignedStay ==
  ASSUME TypeInv, [Next]_vars
  PROVE  \A j \in Signed : tokens'[j] = tokens[j]
  <1>1. CASE tokens' = tokens
    BY <1>1
  <1>2. ASSUME NEW p \in Slots, GenerateToken(p)
        PROVE  \A j \in Signed : tokens'[j] = tokens[j]
    <2>1. tokens' = [tokens EXCEPT ![issued + 1] = [user |-> req[p].name, exp |-> clock + TTL]]
      BY <1>2 DEF GenerateToken
    <2>2. issued + 1 \notin Signed
      BY MaxTokensAssumption DEF TypeInv, TypeOK, TokenTable, Signed, Jtis
    <2> QED
      BY <2>1, <2>2 DEF TypeInv, TypeOK, Signed
  <1> QED
    BY <1>1, <1>2, OneSigner

(* A request that does not move goes on knowing what it knew. *)
LEMMA StillKnows ==
  ASSUME TypeInv, [Next]_vars, NEW q \in Slots, Knows(q), pc'[q] = pc[q], req'[q] = req[q]
  PROVE  Knows(q)'
  <1>1. \A n \in Names : had[n] \subseteq had'[n]
    BY HadGrows
  <1>2. pc[q] \in {"compare", "sign"} => req[q].name \in Names
    BY DEF TypeInv, InFlight
  <1>3. pc[q] \in {"verify", "store"} => User(q) \in Names /\ User(q)' = User(q)
    <2> SUFFICES ASSUME pc[q] \in {"verify", "store"}
                 PROVE  User(q) \in Names /\ User(q)' = User(q)
      OBVIOUS
    <2>1. req[q].jti \in Signed
      BY DEF TypeInv, TypeOK, InFlight, Request, Signed
    <2>2. tokens'[req[q].jti] = tokens[req[q].jti]
      BY <2>1, SignedStay
    <2> QED
      BY <2>1, <2>2 DEF User, TypeInv, TypeOK, Signed, Token
  <1>4. pc[q] = "compare" => Knows(q)'
    BY <1>1, <1>2 DEF Knows
  <1>5. pc[q] = "sign" => Knows(q)'
    BY <1>1, <1>2 DEF Knows
  <1>6. pc[q] = "verify" => Knows(q)'
    BY <1>1, <1>3 DEF Knows
  <1>7. pc[q] = "store" => Knows(q)'
    BY <1>1, <1>3 DEF Knows
  <1> QED
    BY <1>4, <1>5, <1>6, <1>7 DEF Knows

(* Only one request moves in a step. *)
LEMMA OneMoves ==
  ASSUME TypeInv, [Next]_vars, NEW q \in Slots
  PROVE  \/ pc'[q] = pc[q] /\ req'[q] = req[q]
         \/ Arrive(q) \/ Work(q) \/ Abort(q)
  <1>1. UNCHANGED vars \/ CleanupExpiredTokens \/ Tick => UNCHANGED <<pc, req>>
    BY DEF vars, CleanupExpiredTokens, Tick
  <1>2. ASSUME NEW p \in Slots, p # q, Arrive(p) \/ Work(p) \/ Abort(p)
        PROVE  pc'[q] = pc[q] /\ req'[q] = req[q]
    <2>1. CASE Arrive(p)
      BY <1>2, <2>1 DEF Arrive, Register, Login, ChangePassword, Protected, Logout, Accept,
                        Proceed, TypeInv, TypeOK
    <2>2. CASE Work(p) \/ Abort(p)
      BY <1>2, <2>2 DEF Work, CreateUser, UpdatePassword, Conflict, GetByUsername,
         CheckPassword, GenerateToken, ValidateToken, IsTokenRevoked, ReadUser,
         VerifyCurrent, Serve, LogoutValidate, RevokeToken, RevokeTokenFails, Abort,
         Acknowledge, Answer, Proceed, TypeInv, TypeOK
    <2> QED
      BY <1>2, <2>1, <2>2
  <1> QED
    BY <1>1, <1>2 DEF Next

(* Requests that are at none of the four statements know nothing yet. *)
LEMMA NothingKnown ==
  ASSUME NEW p \in Slots, pc'[p] \notin {"compare", "sign", "verify", "store"}
  PROVE  Knows(p)'
  BY DEF Knows

(* Stored passwords are among those the account has had. *)
LEMMA StoredIsHad ==
  ASSUME TypeInv, ProofInv, NEW n \in Names
  PROVE  Stored(n) \in had[n] \cup {None}
  BY DEF ProofInv, Stored

LEMMA ProofInvStep == TypeInv /\ ProofInv /\ [Next]_vars => ProofInv'
  <1> SUFFICES ASSUME TypeInv, ProofInv, [Next]_vars PROVE ProofInv'
    OBVIOUS
  <1>1. \A n \in Names : accounts'[n] # None => accounts'[n].password \in had'[n]
    <2>1. CASE accounts' = accounts
      BY <2>1, HadGrows DEF ProofInv
    <2>2. ASSUME NEW p \in Slots, CreateUser(p), accounts' # accounts
          PROVE  \A n \in Names : accounts'[n] # None => accounts'[n].password \in had'[n]
      BY <2>2 DEF CreateUser, ProofInv, TypeInv, TypeOK
    <2>3. ASSUME NEW p \in Slots, UpdatePassword(p)
          PROVE  \A n \in Names : accounts'[n] # None => accounts'[n].password \in had'[n]
      <3>1. accounts[User(p)] # None => accounts[User(p)] \in [email: Emails, password: Passwords]
        BY <2>3, NoneAssumption DEF UpdatePassword, TypeInv, TypeOK, InFlight, User, Token,
                                    Request, Account
      <3> QED
        BY <2>3, <3>1 DEF UpdatePassword, ProofInv, TypeInv, TypeOK
    <2> QED
      BY <2>1, <2>2, <2>3, OneWriter
  <1>2. ASSUME NEW p \in Slots PROVE Knows(p)'
    <2>1. CASE pc'[p] = pc[p] /\ req'[p] = req[p]
      BY <2>1, StillKnows DEF ProofInv
    <2>2. CASE Arrive(p)
      <3>1. pc'[p] \in {"insert", "lookup", "validate", "logout"}
        BY <2>2 DEF Arrive, Register, Login, ChangePassword, Protected, Logout, Accept,
                    Proceed, TypeInv, TypeOK
      <3> QED
        BY <3>1, NothingKnown
    <2>3. CASE Abort(p)
      BY <2>3, Answers, NothingKnown DEF Abort
    <2>4. CASE CreateUser(p)
      <3>1. pc[p] = "insert" /\ req' = req /\ req[p].name \in Names
        BY <2>4 DEF CreateUser, TypeInv, InFlight
      <3>2. CASE Taken(req[p].name, req[p].email)
        BY <2>4, <3>2, Proceeds, NothingKnown DEF CreateUser, Label
      <3>3. CASE ~Taken(req[p].name, req[p].email)
        <4>1. pc'[p] = "sign" /\ req[p].password \in had'[req[p].name]
          BY <2>4, <3>1, <3>3, Proceeds DEF CreateUser, Label, TypeInv, TypeOK
        <4> QED
          BY <3>1, <4>1 DEF Knows
      <3> QED
        BY <3>2, <3>3
    <2>5. CASE GetByUsername(p)
      <3>1. /\ pc'[p] = "compare" /\ had' = had /\ req[p].name \in Names
            /\ req'[p] = [req[p] EXCEPT !.seen = Stored(req[p].name)]
        BY <2>5, Proceeds DEF GetByUsername, Label, Tables, TypeInv, TypeOK, InFlight
      <3>2. req'[p].seen = Stored(req[p].name) /\ req'[p].name = req[p].name
        BY <3>1 DEF TypeInv, TypeOK, Request
      <3> QED
        BY <3>1, <3>2, StoredIsHad DEF Knows
    <2>6. CASE CheckPassword(p)
      <3>1. CASE req[p].seen = req[p].password
        <4>1. /\ pc[p] = "compare" /\ pc'[p] = "sign" /\ UNCHANGED <<req, had>>
              /\ req[p].password \in Passwords
          BY <2>6, <3>1, Proceeds DEF CheckPassword, Label, Tables, TypeInv, InFlight
        <4>2. req[p].seen \in had[req[p].name]
          BY <3>1, <4>1, NoneAssumption DEF ProofInv, Knows
        <4> QED
          BY <3>1, <4>1, <4>2 DEF Knows
      <3>2. CASE req[p].seen # req[p].password
        BY <2>6, <3>2, Answers, NothingKnown DEF CheckPassword
      <3> QED
        BY <3>1, <3>2
    <2>7. CASE ReadUser(p)
      <3>1. /\ pc'[p] = "verify" /\ UNCHANGED <<had, tokens>>
            /\ req'[p] = [req[p] EXCEPT !.seen = Stored(User(p))]
        BY <2>7, Proceeds DEF ReadUser, Label, Tables, TypeInv, TypeOK
      <3>2. req'[p].seen = Stored(User(p)) /\ User(p)' = User(p)
        BY <3>1 DEF TypeInv, TypeOK, Request, User
      <3>3. User(p) \in Names
        BY <2>7 DEF ReadUser, User, TypeInv, TypeOK, InFlight, Token, Request
      <3> QED
        BY <3>1, <3>2, <3>3, StoredIsHad DEF Knows
    <2>8. CASE VerifyCurrent(p)
      <3>1. CASE req[p].seen = req[p].password
        <4>1. /\ pc[p] = "verify" /\ pc'[p] = "store" /\ UNCHANGED <<req, had, tokens>>
              /\ req[p].password \in Passwords
          BY <2>8, <3>1, Proceeds DEF VerifyCurrent, Label, Tables, TypeInv, InFlight
        <4>2. req[p].seen \in had[User(p)]
          BY <3>1, <4>1, NoneAssumption DEF ProofInv, Knows
        <4> QED
          BY <3>1, <4>1, <4>2 DEF Knows, User
      <3>2. CASE req[p].seen # req[p].password
        BY <2>8, <3>2, Answers, NothingKnown DEF VerifyCurrent
      <3> QED
        BY <3>1, <3>2
    <2>9. CASE ValidateToken(p) \/ IsTokenRevoked(p) \/ LogoutValidate(p)
      <3>1. pc'[p] \in {"idle", "isRevoked", "handler", "revoke"}
        BY <2>9, Answers, Proceeds
        DEF ValidateToken, IsTokenRevoked, LogoutValidate, Label
      <3> QED
        BY <3>1, NothingKnown
    <2>10. CASE \/ Conflict(p) \/ GenerateToken(p) \/ UpdatePassword(p) \/ Serve(p)
                \/ RevokeToken(p) \/ RevokeTokenFails(p)
      BY <2>10, Answers, NothingKnown
      DEF Conflict, GenerateToken, UpdatePassword, Serve, RevokeToken, RevokeTokenFails,
          Acknowledge
    <2> QED
      BY <2>1, <2>2, <2>3, <2>4, <2>5, <2>6, <2>7, <2>8, <2>9, <2>10, OneMoves DEF Work
  <1> QED
    BY <1>1, <1>2 DEF ProofInv

LEMMA ProofInvInit == Init => ProofInv
  BY DEF Init, ProofInv, Knows

(* Whoever gets a token has given a password that the account has had: the *)
(* loser of a race of registrations gets none.                             *)
THEOREM TokensAreForWhoKnows == Spec => TokensAreEarned
  <1> DEFINE Earned(j) ==
        tokens'[j] # tokens[j] =>
          \E p \in Slots : /\ pc[p] = "sign" /\ pc'[p] # pc[p]
                           /\ tokens'[j].user = req[p].name
                           /\ req[p].password \in had[req[p].name]
  <1>1. TypeInv /\ ProofInv /\ [Next]_vars => [\A j \in Jtis : Earned(j)]_vars
    <2> SUFFICES ASSUME TypeInv, ProofInv, [Next]_vars, NEW j \in Jtis,
                        tokens'[j] # tokens[j]
                 PROVE  \E p \in Slots : /\ pc[p] = "sign" /\ pc'[p] # pc[p]
                                         /\ tokens'[j].user = req[p].name
                                         /\ req[p].password \in had[req[p].name]
      OBVIOUS
    <2>1. PICK p \in Slots : GenerateToken(p)
      BY OneSigner
    <2>2. /\ pc[p] = "sign" /\ pc'[p] = "idle"
          /\ tokens' = [tokens EXCEPT ![issued + 1] =
                           [user |-> req[p].name, exp |-> clock + TTL]]
      BY <2>1, Answers DEF GenerateToken
    <2>3. tokens'[j].user = req[p].name
      BY <2>2 DEF TypeInv, TypeOK
    <2> QED
      BY <2>2, <2>3 DEF ProofInv, Knows
  <1> QED
    BY <1>1, ProofInvInit, ProofInvStep, TypeInvInit, TypeInvStep, PTL
    DEF Spec, TokensAreEarned

(* Nobody's password is changed but with a token of his account and by who *)
(* knew a password of it, whatever is changed while bcrypt compares.       *)
THEOREM PasswordsChangeForWhoKnows == Spec => PasswordChangeProven
  <1> DEFINE Proven(n) ==
        accounts[n] # None /\ accounts'[n].password # accounts[n].password =>
          \E p \in Slots : /\ pc[p] = "store" /\ pc'[p] # pc[p]
                           /\ User(p) = n
                           /\ req[p].password \in had[n]
  <1>1. TypeInv /\ ProofInv /\ [Next]_vars => [\A n \in Names : Proven(n)]_vars
    <2> SUFFICES ASSUME TypeInv, ProofInv, [Next]_vars, NEW n \in Names,
                        accounts[n] # None, accounts'[n].password # accounts[n].password
                 PROVE  \E p \in Slots : /\ pc[p] = "store" /\ pc'[p] # pc[p]
                                         /\ User(p) = n
                                         /\ req[p].password \in had[n]
      OBVIOUS
    <2>1. PICK p \in Slots : CreateUser(p) \/ UpdatePassword(p)
      BY OneWriter
    <2>2. CASE CreateUser(p)
      <3>1. req[p].name # n => accounts'[n] = accounts[n]
        BY <2>2 DEF CreateUser, TypeInv, TypeOK
      <3>2. req[p].name = n => accounts'[n] = accounts[n]
        BY <2>2 DEF CreateUser, Taken
      <3> QED
        BY <3>1, <3>2
    <2>3. CASE UpdatePassword(p)
      <3>1. pc[p] = "store" /\ pc'[p] = "idle"
        BY <2>3, Answers DEF UpdatePassword
      <3>2. User(p) = n
        BY <2>3 DEF UpdatePassword, TypeInv, TypeOK
      <3> QED
        BY <3>1, <3>2 DEF ProofInv, Knows
    <2> QED
      BY <2>1, <2>2, <2>3
  <1> QED
    BY <1>1, ProofInvInit, ProofInvStep, TypeInvInit, TypeInvStep, PTL
    DEF Spec, PasswordChangeProven

=============================================================================
