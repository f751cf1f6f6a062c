-------------------------------- MODULE Auth --------------------------------
(***************************************************************************)
(* Accounts, JWTs and their revocation: the handlers of pkg/api/auth_      *)
(* handler.go, the RequireAuth middleware every protected route goes       *)
(* through, the users and revoked_tokens tables, and the cleanup of        *)
(* revoked_tokens that each starting server instance runs.                 *)
(*                                                                         *)
(* A slot is a request being served; it takes one step per database        *)
(* statement or clock reading, so that other requests, cleanups and time   *)
(* come in between.  bcrypt is "knows the password", a JWT is its claims:  *)
(* a client can present only what the server has signed.                   *)
(*                                                                         *)
(* An operator named Bug_X is the definition X with a plausible mistake in *)
(* the code it models; nothing uses it but the experiments that show which *)
(* property would notice that mistake.                                     *)
(***************************************************************************)
EXTENDS Integers

CONSTANTS Slots,        \* requests the servers handle at a time
          Names,        \* usernames; one account each, so also account ids
          Emails, Passwords,
          MaxTokens,    \* bound: tokens signed in a behaviour
          MaxClock,     \* bound: the last instant of a behaviour
          TTL,          \* tokenTTL
          DbLead,       \* how far the database's NOW() is ahead of the servers
          None          \* "no such row"

Jtis == 1..MaxTokens
Time == 0..MaxClock
Account == [email: Emails, password: Passwords]
Token == [user: Names, exp: 0..(MaxClock + TTL)]
Op == {"register", "login", "password", "profile", "logout"}
Request == [op: Op, name: Names \cup {None}, email: Emails \cup {None},
            password: Passwords \cup {None}, fresh: Passwords \cup {None},
            jti: Jtis, seen: Passwords \cup {None}]

ASSUME MaxTokensAssumption == MaxTokens \in Nat \ {0}
ASSUME ClockAssumption == MaxClock \in Nat /\ TTL \in Nat /\ DbLead \in Int
ASSUME NoneAssumption ==
  None \notin Account \cup Token \cup Names \cup Emails \cup Passwords

VARIABLES accounts,     \* users table: name -> account or None
          tokens,       \* every token ever signed: jti -> token or None
          issued,       \* how many
          revoked,      \* revoked_tokens table (jtis)
          clock,
          pc, req,
          had,          \* history: passwords each account has had
          everRevoked,  \* history: jtis whose revocation was committed
          loggedOut     \* history: jtis valid when their logout was answered 204

vars == <<accounts, tokens, issued, revoked, clock, pc, req,
          had, everRevoked, loggedOut>>

-----------------------------------------------------------------------------
Blank == [op |-> "logout", name |-> None, email |-> None, password |-> None,
          fresh |-> None, jti |-> 1, seen |-> None]

Valid(j) == clock < tokens[j].exp                         \* ValidateToken
Signed == {j \in Jtis : tokens[j] # None}

Proceed(p, label) == pc' = [pc EXCEPT ![p] = label]

(* Answered, whatever the status: what was wrong with a refused request    *)
(* matters only for a registration's conflict, which has its own label.    *)
Answer(p) ==
  /\ pc' = [pc EXCEPT ![p] = "idle"]
  /\ req' = [req EXCEPT ![p] = Blank]

Tables == <<accounts, tokens, issued, revoked, had, everRevoked>>

-----------------------------------------------------------------------------
(* Requests arrive *)

Accept(p, r, label) ==
  /\ pc[p] = "idle"
  /\ req' = [req EXCEPT ![p] = r]
  /\ Proceed(p, label)
  /\ UNCHANGED <<Tables, clock, loggedOut>>

Register(p) ==
  \E n \in Names, e \in Emails, w \in Passwords :
    Accept(p, [Blank EXCEPT !.op = "register", !.name = n, !.email = e,
                            !.password = w], "insert")

Login(p) ==
  \E n \in Names, w \in Passwords :
    Accept(p, [Blank EXCEPT !.op = "login", !.name = n, !.password = w], "lookup")

ChangePassword(p) ==
  \E j \in Signed, w, v \in Passwords :
    Accept(p, [Blank EXCEPT !.op = "password", !.jti = j, !.password = w,
                            !.fresh = v], "validate")

Protected(p) ==
  \E j \in Signed : Accept(p, [Blank EXCEPT !.op = "profile", !.jti = j], "validate")

Logout(p) ==
  \E j \in Signed : Accept(p, [Blank EXCEPT !.jti = j], "logout")

-----------------------------------------------------------------------------
(* Register and Login *)

Taken(n, e) == accounts[n] # None
               \/ \E m \in Names : accounts[m] # None /\ accounts[m].email = e

(* The handler goes on to sign a token after the conflict. *)
Bug_CreateUser(p) ==
  /\ pc[p] = "insert"
  /\ Proceed(p, "sign")
  /\ IF Taken(req[p].name, req[p].email)
       THEN UNCHANGED <<accounts, had>>
       ELSE /\ accounts' = [accounts EXCEPT ![req[p].name] =
                  [email |-> req[p].email, password |-> req[p].password]]
            /\ had' = [had EXCEPT ![req[p].name] = @ \cup {req[p].password}]
  /\ UNCHANGED <<req, tokens, issued, revoked, everRevoked, clock, loggedOut>>

(* One INSERT; either UNIQUE constraint makes it the same error.           *)
CreateUser(p) ==
  /\ pc[p] = "insert"
  /\ IF Taken(req[p].name, req[p].email)
       THEN Proceed(p, "conflict") /\ UNCHANGED <<req, accounts, had>>
       ELSE /\ accounts' = [accounts EXCEPT ![req[p].name] =
                  [email |-> req[p].email, password |-> req[p].password]]
            /\ had' = [had EXCEPT ![req[p].name] = @ \cup {req[p].password}]
            /\ Proceed(p, "sign")
            /\ UNCHANGED req
  /\ UNCHANGED <<tokens, issued, revoked, everRevoked, clock, loggedOut>>

(* ErrUsernameTaken becomes 409 "username already registered".             *)
Conflict(p) ==
  /\ pc[p] = "conflict"
  /\ Answer(p)
  /\ UNCHANGED <<Tables, clock, loggedOut>>

Stored(n) == IF accounts[n] = None THEN None ELSE accounts[n].password

(* Login's read of the user row ...                                        *)
GetByUsername(p) ==
  /\ pc[p] = "lookup"
  /\ req' = [req EXCEPT ![p] = [@ EXCEPT !.seen = Stored(req[p].name)]]
  /\ Proceed(p, "compare")
  /\ UNCHANGED <<Tables, clock, loggedOut>>

(* ... and the slow comparison with what was read.                         *)
CheckPassword(p) ==
  /\ pc[p] = "compare"
  /\ IF req[p].seen = req[p].password
       THEN Proceed(p, "sign") /\ UNCHANGED req
       ELSE Answer(p)
  /\ UNCHANGED <<Tables, clock, loggedOut>>

GenerateToken(p) ==
  /\ pc[p] = "sign"
  /\ issued < MaxTokens
  /\ issued' = issued + 1
  /\ tokens' = [tokens EXCEPT ![issued + 1] =
                  [user |-> req[p].name, exp |-> clock + TTL]]
  /\ Answer(p)
  /\ UNCHANGED <<accounts, revoked, had, everRevoked, clock, loggedOut>>

-----------------------------------------------------------------------------
(* RequireAuth, then the protected handlers *)

ValidateToken(p) ==
  /\ pc[p] = "validate"
  /\ IF Valid(req[p].jti)
       THEN Proceed(p, "isRevoked") /\ UNCHANGED req
       ELSE Answer(p)
  /\ UNCHANGED <<Tables, clock, loggedOut>>

IsTokenRevoked(p) ==
  /\ pc[p] = "isRevoked"
  /\ IF req[p].jti \in revoked
       THEN Answer(p)
       ELSE Proceed(p, "handler") /\ UNCHANGED req
  /\ UNCHANGED <<Tables, clock, loggedOut>>

(* UserIDFromContext: the account the token was issued to.                 *)
User(p) == tokens[req[p].jti].user

ReadUser(p) ==
  /\ pc[p] = "handler" /\ req[p].op = "password"
  /\ req' = [req EXCEPT ![p] = [@ EXCEPT !.seen = Stored(User(p))]]
  /\ Proceed(p, "verify")
  /\ UNCHANGED <<Tables, clock, loggedOut>>

(* The outcome of the comparison ignored. *)
Bug_VerifyCurrent(p) ==
  /\ pc[p] = "verify"
  /\ Proceed(p, "store")
  /\ UNCHANGED <<req, Tables, clock, loggedOut>>

VerifyCurrent(p) ==
  /\ pc[p] = "verify"
  /\ IF req[p].seen = req[p].password
       THEN Proceed(p, "store") /\ UNCHANGED req
       ELSE Answer(p)
  /\ UNCHANGED <<Tables, clock, loggedOut>>

UpdatePassword(p) ==
  /\ pc[p] = "store"
  /\ accounts[User(p)] # None
  /\ accounts' = [accounts EXCEPT ![User(p)] =
                    [@ EXCEPT !.password = req[p].fresh]]
  /\ had' = [had EXCEPT ![User(p)] = @ \cup {req[p].fresh}]
  /\ Answer(p)
  /\ UNCHANGED <<tokens, issued, revoked, everRevoked, clock, loggedOut>>

(* GetProfile, UpdateProfile (of a flag that nothing here reads), and      *)
(* every other protected handler as far as accounts and tokens go.         *)
Serve(p) ==
  /\ pc[p] = "handler" /\ req[p].op = "profile"
  /\ Answer(p)
  /\ UNCHANGED <<Tables, clock, loggedOut>>

-----------------------------------------------------------------------------
(* Logout, outside RequireAuth: the answer is 204 whatever happens.        *)

Acknowledge(p) ==
  /\ Answer(p)
  /\ loggedOut' = loggedOut \cup {req[p].jti}

LogoutValidate(p) ==
  /\ pc[p] = "logout"
  /\ IF Valid(req[p].jti)
       THEN Proceed(p, "revoke") /\ UNCHANGED req
       ELSE Answer(p)
  /\ UNCHANGED <<Tables, clock, loggedOut>>

RevokeToken(p) ==
  /\ pc[p] = "revoke"
  /\ revoked' = revoked \cup {req[p].jti}
  /\ everRevoked' = everRevoked \cup {req[p].jti}
  /\ Acknowledge(p)
  /\ UNCHANGED <<accounts, tokens, issued, had, clock>>

(* The INSERT fails; its error is discarded.                               *)
RevokeTokenFails(p) ==
  /\ pc[p] = "revoke"
  /\ Acknowledge(p)
  /\ UNCHANGED <<Tables, clock>>

-----------------------------------------------------------------------------
(* The rest of the world *)

(* A database error, or a client that is gone.                             *)
Abort(p) ==
  /\ pc[p] # "idle"
  /\ Answer(p)
  /\ UNCHANGED <<Tables, clock, loggedOut>>

(* The comparison the wrong way round. *)
Bug_CleanupExpiredTokens ==
  /\ \E j \in revoked : tokens[j].exp > clock + DbLead
  /\ revoked' = {j \in revoked : ~(tokens[j].exp > clock + DbLead)}
  /\ UNCHANGED <<accounts, tokens, issued, clock, pc, req, had, everRevoked,
                 loggedOut>>

(* Run by an instance as it starts, any time; it uses the database clock.  *)
CleanupExpiredTokens ==
  /\ \E j \in revoked : tokens[j].exp < clock + DbLead
  /\ revoked' = {j \in revoked : ~(tokens[j].exp < clock + DbLead)}
  /\ UNCHANGED <<accounts, tokens, issued, clock, pc, req, had, everRevoked,
                 loggedOut>>

Tick ==
  /\ clock < MaxClock
  /\ clock' = clock + 1
  /\ UNCHANGED <<Tables, pc, req, loggedOut>>

-----------------------------------------------------------------------------
Init ==
  /\ accounts = [n \in Names |-> None]
  /\ tokens = [j \in Jtis |-> None]
  /\ issued = 0
  /\ revoked = {}
  /\ clock = 0
  /\ pc = [p \in Slots |-> "idle"]
  /\ req = [p \in Slots |-> Blank]
  /\ had = [n \in Names |-> {}]
  /\ everRevoked = {}
  /\ loggedOut = {}

Arrive(p) ==
  \/ Register(p) \/ Login(p) \/ ChangePassword(p) \/ Protected(p)
  \/ Logout(p)

Work(p) ==
  \/ CreateUser(p) \/ Conflict(p) \/ GetByUsername(p) \/ CheckPassword(p) \/ GenerateToken(p)
  \/ ValidateToken(p) \/ IsTokenRevoked(p) \/ ReadUser(p) \/ VerifyCurrent(p)
  \/ UpdatePassword(p) \/ Serve(p)
  \/ LogoutValidate(p) \/ RevokeToken(p) \/ RevokeTokenFails(p)

Next ==
  \/ \E p \in Slots : Arrive(p) \/ Work(p) \/ Abort(p)
  \/ CleanupExpiredTokens
  \/ Tick

Spec == Init /\ [][Next]_vars

-----------------------------------------------------------------------------
(* Properties *)

Label == {"idle", "insert", "conflict", "lookup", "compare", "sign", "validate",
          "isRevoked", "handler", "verify", "store", "logout", "revoke"}

(* Every variable stays in its type.                                       *)
TypeOK ==
  /\ accounts \in [Names -> Account \cup {None}]
  /\ tokens \in [Jtis -> Token \cup {None}]
  /\ issued \in 0..MaxTokens
  /\ revoked \subseteq Jtis
  /\ clock \in Time
  /\ pc \in [Slots -> Label]
  /\ req \in [Slots -> Request]
  /\ had \in [Names -> SUBSET Passwords]
  /\ everRevoked \subseteq Jtis
  /\ loggedOut \subseteq Jtis

(* The cleanup never forgets a revocation while the token would still pass *)
(* ValidateToken ("expired tokens can no longer be used regardless").      *)
RevocationOutlastsToken ==
  \A j \in everRevoked : Valid(j) => j \in revoked

Admitted(p) == pc[p] = "isRevoked" /\ pc'[p] = "handler"

(* No request gets past RequireAuth with an unexpired token whose          *)
(* revocation had been committed, cleanups and other requests in between   *)
(* notwithstanding.                                                        *)
RevokedStayOut ==
  \A p \in Slots :
    Admitted(p) /\ Valid(req[p].jti) => req[p].jti \notin everRevoked
NoLiveReuse == [][RevokedStayOut]_vars

(* A token is signed for an account only in answer to a request that gave  *)
(* a password the account has had: a registration that lost the race for   *)
(* the name, or a login with a wrong password, gets none.                  *)
TokensAreEarned ==
  [][\A j \in Jtis : tokens'[j] # tokens[j] =>
       \E p \in Slots : /\ pc[p] = "sign" /\ pc'[p] # pc[p]
                        /\ tokens'[j].user = req[p].name
                        /\ req[p].password \in had[req[p].name]]_vars

(* An account's password changes only by a request that carries a token of *)
(* that very account and knew a password it has had.                       *)
PasswordChangeProven ==
  [][\A n \in Names :
       accounts[n] # None /\ accounts'[n].password # accounts[n].password =>
         \E p \in Slots : /\ pc[p] = "store" /\ pc'[p] # pc[p]
                          /\ User(p) = n
                          /\ req[p].password \in had[n]]_vars

(* "Revokes the current JWT so it cannot be reused" (auth_handler.go): no  *)
(* request is admitted with a token after its logout was answered.         *)
LogoutIsFinal ==
  [][\A p \in Slots : Admitted(p) => req[p].jti \notin loggedOut]_vars

=============================================================================
