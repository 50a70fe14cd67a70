-------------------------------- MODULE Auth --------------------------------
(***************************************************************************)
(* internal/auth over store.Users and store.Sessions: sign-in through an   *)
(* OIDC provider or with a password, sessions, logout, the collector, and  *)
(* the seed command.  Every request runs in a goroutine of its own, one    *)
(* SQL statement at a time; only Users.Create opens a transaction.         *)
(*                                                                         *)
(* The identity providers and the browsers are the environment.  A session *)
(* token, and the state and PKCE verifier of a sign-in, are named for the  *)
(* request that drew them: randomToken never repeats, and neither does r.  *)
(* Emails are compared without case (citext, ToLower) and stand for their  *)
(* lower-case form.  Names and pictures are left out.                      *)
(***************************************************************************)
EXTENDS Integers, FiniteSets

CONSTANTS Request, Browser, Email, Subject, Password,
          Founder,       \* ids of the users there are at the start
          InitialUsers,  \* their rows
          Allowed,       \* GETBUD_ALLOWED_EMAILS
          Claims,        \* what the identity providers may assert
          Scripts,       \* what the requests may ask, request by request
          TTL,           \* SessionTTL
          MaxTime,       \* bound on the clock
          Declined, NULL

Provider == {"google", "oidc"}

Id == Request \cup Founder

Row == [id: Id, email: Email, sub: [Provider -> Subject \cup {NULL}],
        password: Password \cup {NULL}, admin: BOOLEAN]

Claim == [provider: Provider, sub: Subject, email: Email \cup {NULL},
          verified: {"true", "false", "absent"}]

Op == {"ssoStart", "callback", "login", "logout", "api", "seed"}

(* A callback's flow is the ssoStart whose state its URL carries. *)
Input == [op: Op, browser: Browser, provider: Provider, flow: Request,
          email: Email, password: Password, admin: BOOLEAN]

Session == [token: Request, user: Id, expires: Nat]

(* A browser's cookies: the session, and per provider the pending state. *)
Cookies == [session: Request \cup {NULL}, flow: [Provider -> Request \cup {NULL}]]

(* A provider vouches that a subject has an email, by its own rules: Google *)
(* must say verified, the other one must not say unverified.                *)
Vouched(provider, sub, email) ==
  \E c \in Claims :
    /\ c.provider = provider /\ c.sub = sub /\ c.email = email
    /\ c.verified # "false"
    /\ provider = "google" => c.verified = "true"

Ids(table) == {x.id : x \in table}

ASSUME AuthAssumption ==
  /\ Request \cap Founder = {}
  /\ NULL \notin Request \cup Subject \cup Email \cup Password \cup Id \cup Row
  /\ NULL \notin Claim /\ Declined \notin Claim /\ NULL # Declined
  /\ Claims \subseteq Claim
  /\ Scripts \subseteq [Request -> Input]
  /\ TTL \in Nat \ {0} /\ MaxTime \in Nat

ASSUME InitialUsersAssumption ==
  /\ InitialUsers \subseteq Row /\ IsFiniteSet(InitialUsers)
  /\ \A u \in InitialUsers :
       /\ u.id \in Founder
       /\ \A p \in Provider : u.sub[p] # NULL => Vouched(p, u.sub[p], u.email)
       /\ \A v \in InitialUsers : u.id = v.id => u = v

VARIABLES users, sessions,
          seeded,   \* users whose default categories are there
          now,      \* the clock
          jar,      \* jar[b]: the cookies browser b holds
          granted,  \* granted[f]: what the provider answered to flow f
          spent,    \* flows whose authorization code was exchanged
          in, pc, resp,
          sent,     \* sent[r]: the cookies r carries
          who,      \* who[r]: the user r's handler has found or created
          draft,    \* draft[r]: the row r's handler inserts
          opened    \* requests whose database transaction is open

tables == <<users, sessions, seeded, opened>>
idp == <<granted, spent>>
local == <<who, draft>>
vars == <<tables, now, jar, idp, in, pc, resp, sent, local>>

Label == {"idle", "start", "sub", "email", "link", "count", "insert", "defaults",
          "commit", "password", "session", "done"}

Answer == {"none", "redirect", "signed_in", "ok", "no_content", "cookie_cleared",
           "bad_request", "invalid_credentials", "unauthenticated", "unverified",
           "not_allowed", "bad_gateway", "error"}

NoCookies == [session |-> NULL, flow |-> [p \in Provider |-> NULL]]

TypeOK ==
  /\ users \subseteq Row
  /\ sessions \subseteq Session
  /\ seeded \subseteq Id
  /\ now \in 0..MaxTime
  /\ jar \in [Browser -> Cookies]
  /\ granted \in [Request -> Claims \cup {NULL, Declined}]
  /\ spent \subseteq Request
  /\ in \in [Request -> Input]
  /\ pc \in [Request -> Label]
  /\ resp \in [Request -> Answer]
  /\ sent \in [Request -> Cookies]
  /\ who \in [Request -> Id \cup {NULL}]
  /\ draft \in [Request -> Row \cup {NULL}]
  /\ opened \subseteq Request

Init ==
  /\ users = InitialUsers /\ sessions = {} /\ seeded = Ids(InitialUsers)
  /\ now = 0
  /\ jar = [b \in Browser |-> NoCookies]
  /\ granted = [f \in Request |-> NULL] /\ spent = {}
  /\ in \in Scripts
  /\ pc = [r \in Request |-> "idle"] /\ resp = [r \in Request |-> "none"]
  /\ sent = [r \in Request |-> NoCookies]
  /\ who = [r \in Request |-> NULL] /\ draft = [r \in Request |-> NULL]
  /\ opened = {}

-----------------------------------------------------------------------------
(* The environment: clocks, browsers and identity providers. *)

Tick ==
  /\ now < MaxTime
  /\ now' = now + 1
  /\ UNCHANGED <<tables, jar, idp, in, pc, resp, sent, local>>

(* A request leaves with the cookies its browser holds at that moment; a    *)
(* callback leaves once the provider has redirected the browser back.       *)
Send(r) ==
  /\ pc[r] = "idle"
  /\ in[r].op = "callback" => granted[in[r].flow] # NULL
  /\ pc' = [pc EXCEPT ![r] = "start"]
  /\ sent' = [sent EXCEPT ![r] = jar[in[r].browser]]
  /\ UNCHANGED <<tables, now, jar, idp, in, resp, local>>

(* The user signs in at the provider, or declines. *)
Authorize(f) ==
  /\ in[f].op = "ssoStart" /\ resp[f] = "redirect" /\ granted[f] = NULL
  /\ \E c \in {x \in Claims : x.provider = in[f].provider} \cup {Declined} :
       granted' = [granted EXCEPT ![f] = c]
  /\ UNCHANGED <<tables, now, jar, spent, in, pc, resp, sent, local>>

-----------------------------------------------------------------------------
(* Moving a handler along. *)

At(r, op, label) == in[r].op = op /\ pc[r] = label

Goto(r, label) ==
  pc' = [pc EXCEPT ![r] = label] /\ UNCHANGED <<now, jar, granted, in, resp, sent>>

(* The answer's cookies replace the browser's, unless the answer is lost.   *)
Answers(r, answer, cookies) ==
  /\ pc' = [pc EXCEPT ![r] = "done"]
  /\ resp' = [resp EXCEPT ![r] = answer]
  /\ \/ jar' = [jar EXCEPT ![in[r].browser] = cookies]
     \/ jar' = jar
  /\ UNCHANGED <<now, granted, in, sent>>

Held(r) == jar[in[r].browser]

(* clearSSOCookies: whatever a callback answers, it drops the state cookie. *)
Cleared(r) ==
  IF in[r].op = "callback"
    THEN [Held(r) EXCEPT !.flow[in[r].provider] = NULL]
    ELSE Held(r)

Refuse(r, answer) ==
  Answers(r, answer, Cleared(r)) /\ UNCHANGED <<tables, spent, local>>

ClaimOf(r) == granted[in[r].flow]

-----------------------------------------------------------------------------
(* Single sign-on. *)

SSOStart(r) ==
  /\ At(r, "ssoStart", "start")
  /\ Answers(r, "redirect", [Held(r) EXCEPT !.flow[in[r].provider] = r])
  /\ UNCHANGED <<tables, spent, local>>

(* A slip: any state will do once there is a cookie. *)
StateMatches_AnyCookie(r) == sent[r].flow[in[r].provider] # NULL

StateMatches(r) == sent[r].flow[in[r].provider] = in[r].flow

(* A slip: the claim is only looked at when the provider is Google. *)
Verified_Lenient(c) == c.provider = "google" => c.verified = "true"

Verified(c) == c.verified = "true" \/ (c.provider = "oidc" /\ c.verified = "absent")

(* Checks the state, exchanges the code, which the provider takes once, and *)
(* checks the claims: all before the first statement.                       *)
Exchange(r) ==
  /\ At(r, "callback", "start")
  /\ \/ /\ ~StateMatches(r) \/ ClaimOf(r) = Declined
        /\ Refuse(r, "bad_request")
     \/ /\ StateMatches(r) /\ ClaimOf(r) # Declined
        /\ in[r].flow \in spent
        /\ Refuse(r, "bad_gateway")
     \/ /\ StateMatches(r) /\ ClaimOf(r) # Declined
        /\ in[r].flow \notin spent
        /\ spent' = spent \cup {in[r].flow}
        /\ UNCHANGED <<tables, local>>
        /\ CASE ClaimOf(r).email = NULL -> Answers(r, "bad_gateway", Cleared(r))
             [] ClaimOf(r).email # NULL /\ ~Verified(ClaimOf(r)) ->
                  Answers(r, "unverified", Cleared(r))
             [] OTHER -> Goto(r, "sub")

(* A slip: subjects of both providers are looked up in both columns. *)
BySubject_EitherColumn(provider, sub) == {u \in users : \E p \in Provider : u.sub[p] = sub}

BySubject(provider, sub) == {u \in users : u.sub[provider] = sub}

ByEmail(email) == {u \in users : u.email = email}

(* A slip: users are looked up by email only. *)
FindSubject_Never(r) ==
  /\ At(r, "callback", "sub")
  /\ Goto(r, "email") /\ UNCHANGED <<tables, spent, local>>

(* ByGoogleSub or ByOIDCSub, then UpdateProfile, which touches no column of *)
(* interest here.                                                           *)
FindSubject(r) ==
  /\ At(r, "callback", "sub")
  /\ LET found == BySubject(in[r].provider, ClaimOf(r).sub)
     IN \/ /\ found = {}
           /\ Goto(r, "email") /\ UNCHANGED <<tables, spent, local>>
        \/ \E u \in found :
             /\ who' = [who EXCEPT ![r] = u.id]
             /\ Goto(r, "session") /\ UNCHANGED <<tables, spent, draft>>

FindEmail(r) ==
  /\ At(r, "callback", "email")
  /\ LET found == ByEmail(ClaimOf(r).email)
     IN \/ /\ found = {}
           /\ Goto(r, "count") /\ UNCHANGED <<tables, spent, local>>
        \/ \E u \in found :
             /\ who' = [who EXCEPT ![r] = u.id]
             /\ Goto(r, "link") /\ UNCHANGED <<tables, spent, draft>>

(* Rows that open transactions of Users.Create have inserted: an equal key  *)
(* makes others wait for their end.                                         *)
Staged == {draft[r] : r \in opened}

SharesKey(u, v) ==
  u.email = v.email \/ \E p \in Provider : u.sub[p] # NULL /\ u.sub[p] = v.sub[p]

(* LinkGoogle, LinkOIDC: the subject replaces the one the account had. *)
Link(r) ==
  LET p == in[r].provider  s == ClaimOf(r).sub
  IN /\ At(r, "callback", "link")
     /\ \A v \in Staged : v.sub[p] # s
     /\ \/ /\ \E u \in BySubject(p, s) : u.id # who[r]
           /\ Refuse(r, "error")
        \/ /\ \A u \in BySubject(p, s) : u.id = who[r]
           /\ users' = {IF u.id = who[r] THEN [u EXCEPT !.sub[p] = s] ELSE u : u \in users}
           /\ Goto(r, "session") /\ UNCHANGED <<sessions, seeded, opened, spent, local>>

(* A slip: whoever has no account signs up. *)
MaySignUp_Anyone(count, email) == TRUE

MaySignUp(count, email) == count = 0 \/ email \in Allowed

NewRow(r) ==
  [id |-> r, email |-> ClaimOf(r).email,
   sub |-> [p \in Provider |-> IF p = in[r].provider THEN ClaimOf(r).sub ELSE NULL],
   password |-> NULL, admin |-> users = {}]

Count(r) ==
  /\ At(r, "callback", "count")
  /\ \/ /\ MaySignUp(Cardinality(users), ClaimOf(r).email)
        /\ draft' = [draft EXCEPT ![r] = NewRow(r)]
        /\ Goto(r, "insert") /\ UNCHANGED <<tables, spent, who>>
     \/ /\ ~MaySignUp(Cardinality(users), ClaimOf(r).email)
        /\ Refuse(r, "not_allowed")

-----------------------------------------------------------------------------
(* Users.Create: the row and its default categories, in one transaction.    *)

(* The seed command reports to a terminal, a sign-up goes on to a session. *)
InsertUser(r) ==
  /\ pc[r] = "insert"
  /\ \A v \in Staged : ~SharesKey(draft[r], v)
  /\ \/ /\ \E v \in users : SharesKey(draft[r], v)
        /\ Refuse(r, "error")
     \/ /\ \A v \in users : ~SharesKey(draft[r], v)
        /\ opened' = opened \cup {r}
        /\ Goto(r, "defaults") /\ UNCHANGED <<users, sessions, seeded, spent, local>>

(* A slip: the user is committed before the categories are inserted. *)
SeedDefaultCategories_After(r) ==
  /\ pc[r] = "defaults"
  /\ users' = users \cup {draft[r]}
  /\ Goto(r, "commit") /\ UNCHANGED <<sessions, seeded, opened, spent, local>>

SeedDefaultCategories(r) ==
  /\ pc[r] = "defaults"
  /\ Goto(r, "commit") /\ UNCHANGED <<tables, spent, local>>

(* A slip: Create returns no user. *)
CommitUser_ReturnsNone(r) ==
  /\ pc[r] = "commit"
  /\ users' = users \cup {draft[r]}
  /\ seeded' = seeded \cup {r}
  /\ opened' = opened \ {r}
  /\ UNCHANGED <<sessions, spent, local>>
  /\ IF in[r].op = "seed" THEN Answers(r, "ok", Held(r)) ELSE Goto(r, "session")

CommitUser(r) ==
  /\ pc[r] = "commit"
  /\ users' = users \cup {draft[r]}
  /\ seeded' = seeded \cup {r}
  /\ opened' = opened \ {r}
  /\ who' = [who EXCEPT ![r] = r]
  /\ UNCHANGED <<sessions, spent, draft>>
  /\ IF in[r].op = "seed" THEN Answers(r, "ok", Held(r)) ELSE Goto(r, "session")

-----------------------------------------------------------------------------
(* Sessions. *)

SignIn(r) ==
  /\ pc[r] = "session"
  /\ sessions' = sessions \cup {[token |-> r, user |-> who[r], expires |-> now + TTL]}
  /\ Answers(r, "signed_in", [Cleared(r) EXCEPT !.session = r])
  /\ UNCHANGED <<users, seeded, opened, spent, local>>

(* handleLogin: the user, then bcrypt. *)
Login(r) ==
  /\ At(r, "login", "start")
  /\ LET found == {u \in ByEmail(in[r].email) : u.password = in[r].password}
     IN \/ /\ found = {}
           /\ Refuse(r, "invalid_credentials")
        \/ \E u \in found :
             /\ who' = [who EXCEPT ![r] = u.id]
             /\ Goto(r, "session") /\ UNCHANGED <<tables, spent, draft>>

(* A slip: only the cookie goes. *)
Logout_CookieOnly(r) ==
  /\ At(r, "logout", "start")
  /\ Answers(r, "no_content", [Held(r) EXCEPT !.session = NULL])
  /\ UNCHANGED <<tables, spent, local>>

(* handleLogout: an error of the delete is logged, and the answer is the    *)
(* same 204; "cookie_cleared" tells it apart here.                          *)
Logout(r) ==
  /\ At(r, "logout", "start")
  /\ \/ /\ sessions' = {s \in sessions : s.token # sent[r].session}
        /\ Answers(r, "no_content", [Held(r) EXCEPT !.session = NULL])
     \/ /\ sent[r].session # NULL
        /\ sessions' = sessions
        /\ Answers(r, "cookie_cleared", [Held(r) EXCEPT !.session = NULL])
  /\ UNCHANGED <<users, seeded, opened, spent, local>>

(* SessionUserByToken: the sessions r's cookie opens now. *)
Live(r) == {s \in sessions : s.token = sent[r].session /\ s.expires > now}

(* WithUser and RequireUser in front of an API handler. *)
Resolve(r) ==
  /\ At(r, "api", "start")
  /\ \/ /\ Live(r) = {}
        /\ Refuse(r, "unauthenticated")
     \/ \E s \in Live(r) :
          /\ who' = [who EXCEPT ![r] = s.user]
          /\ Answers(r, "ok", Held(r))
          /\ UNCHANGED <<tables, spent, draft>>

(* A slip: the session that is just running out is left. *)
Expired_Strictly == {s \in sessions : s.expires < now}

Expired == {s \in sessions : s.expires <= now}

(* GCLoop's hourly DeleteExpired; an error leaves it to the next hour. *)
Collect ==
  /\ Expired # {}
  /\ sessions' = sessions \ Expired
  /\ UNCHANGED <<users, seeded, opened, now, jar, idp, in, pc, resp, sent, local>>

-----------------------------------------------------------------------------
(* The seed command. *)

SeedLookup(r) ==
  /\ At(r, "seed", "start")
  /\ LET found == ByEmail(in[r].email)
     IN \/ /\ found = {}
           /\ draft' = [draft EXCEPT ![r] =
                [id |-> r, email |-> in[r].email, sub |-> [p \in Provider |-> NULL],
                 password |-> in[r].password, admin |-> in[r].admin]]
           /\ Goto(r, "insert") /\ UNCHANGED <<tables, spent, who>>
        \/ \E u \in found :
             /\ who' = [who EXCEPT ![r] = u.id]
             /\ Goto(r, "password") /\ UNCHANGED <<tables, spent, draft>>

SetPassword(r) ==
  /\ At(r, "seed", "password")
  /\ users' = {IF u.id = who[r] THEN [u EXCEPT !.password = in[r].password] ELSE u :
                 u \in users}
  /\ Answers(r, "ok", Held(r))
  /\ UNCHANGED <<sessions, seeded, opened, spent, local>>

-----------------------------------------------------------------------------
(* A slip: no deferred Rollback, the connection keeps its open transaction. *)
Abort_KeepsOpen(r) ==
  /\ pc[r] \notin {"idle", "done"}
  /\ Refuse(r, IF in[r].op = "api" THEN "unauthenticated" ELSE "error")

(* A statement fails, the client goes away or the process dies: the open    *)
(* transaction is rolled back.  WithUser takes a failed lookup for no       *)
(* session.                                                                 *)
Abort(r) ==
  /\ pc[r] \notin {"idle", "done"}
  /\ Answers(r, IF in[r].op = "api" THEN "unauthenticated" ELSE "error", Cleared(r))
  /\ opened' = opened \ {r}
  /\ UNCHANGED <<users, sessions, seeded, spent, local>>

Handle(r) ==
  \/ SSOStart(r) \/ Exchange(r) \/ FindSubject(r) \/ FindEmail(r) \/ Link(r)
  \/ Count(r) \/ InsertUser(r) \/ SeedDefaultCategories(r) \/ CommitUser(r)
  \/ SignIn(r) \/ Login(r) \/ Logout(r) \/ Resolve(r)
  \/ SeedLookup(r) \/ SetPassword(r)

(* No request is under way: the server waits for the next one. *)
Idle == (\A r \in Request : pc[r] \in {"idle", "done"}) /\ UNCHANGED vars

Next ==
  \/ \E r \in Request : Send(r) \/ Authorize(r) \/ Handle(r) \/ Abort(r)
  \/ Tick \/ Collect \/ Idle

Spec == Init /\ [][Next]_vars

(* A handler that has begun is scheduled, and so is the collector; nobody   *)
(* has to send a request or to sign in at the provider.                     *)
FairSpec == Spec /\ WF_vars(Collect) /\ \A r \in Request : WF_vars(Handle(r))

-----------------------------------------------------------------------------
(***************************************************************************)
(* What holds at every moment.                                             *)
(***************************************************************************)

(* An account answers to a subject only if that subject's provider vouched  *)
(* for the account's own email: linking matches by email alone, statements  *)
(* after the lookup and while other sign-ins link and create.               *)
AccountsVouched ==
  \A u \in users : \A p \in Provider :
    u.sub[p] # NULL => Vouched(p, u.sub[p], u.email)

(* A session is for the account its sign-in proved: the provider vouched    *)
(* for its email, today or when the subject was linked, or the password was *)
(* given for it.  The row was chosen statements before the session starts.  *)
SessionsEarned ==
  \A s \in sessions :
    \E u \in users :
      /\ u.id = s.user
      /\ IF in[s.token].op = "callback"
           THEN Vouched(in[s.token].provider, ClaimOf(s.token).sub, u.email)
           ELSE in[s.token].op = "login" /\ u.email = in[s.token].email

(* A browser is signed in by a flow it began itself, whichever browser the  *)
(* callback's URL is opened in.                                             *)
FlowStaysHome ==
  \A s \in sessions :
    in[s.token].op = "callback" => in[in[s.token].flow].browser = in[s.token].browser

(* Once somebody is registered, signing in registers allowed emails only,   *)
(* and makes nobody an admin, whatever sign-ups and seeds run at once.      *)
ClosedInstance ==
  InitialUsers # {} =>
    \A u \in users :
      (u.id \in Request /\ in[u.id].op = "callback") => (u.email \in Allowed /\ ~u.admin)

(* A user has the default categories from the moment there is a user, and   *)
(* a failed sign-up leaves none behind.                                     *)
DefaultsWithUser == seeded = Ids(users)

(* An account that answered to r's subject: a founder's, or that of the     *)
(* sign-in whose session r's browser holds.                                 *)
Had(r, id) ==
  \/ \E u \in InitialUsers : u.id = id /\ u.sub[in[r].provider] = ClaimOf(r).sub
  \/ LET q == sent[r].session
     IN /\ q # NULL /\ in[q].op = "callback" /\ in[q].provider = in[r].provider
        /\ ClaimOf(q).sub = ClaimOf(r).sub /\ who[q] = id

(* Another subject of the provider was led to the account, by its email. *)
Rivalled(p, sub, id) ==
  \E x \in Request :
    in[x].op = "callback" /\ in[x].provider = p /\ who[x] = id /\ ClaimOf(x).sub # sub

(* Whose subject had an account is told to sign up in one case only: when   *)
(* another subject of the same provider was led to that account, whose link *)
(* then replaces the first one's (sso.go:203, google.go:43).  A new email,  *)
(* seeds and other sign-ups do not matter: the subject is looked for first. *)
ReturningSignsIn ==
  \A r \in Request :
    resp[r] = "not_allowed" =>
      \A id \in Id : Had(r, id) => Rivalled(in[r].provider, ClaimOf(r).sub, id)

(* The two ends of a logout that answer 204. *)
LoggedOut(q) == in[q].op = "logout" /\ resp[q] \in {"no_content", "cookie_cleared"}

LetThrough(r) == in[r].op = "api" /\ resp[r] # "ok" /\ resp'[r] = "ok"

(* A request under way with a token whose logout was answered 204 is let    *)
(* through in one case only: when that logout's delete failed, which the    *)
(* 204 does not tell (auth.go:157-170).  What was deleted stays deleted,    *)
(* whichever sign-ins finish later: auth.go:155 handleLogout against        *)
(* middleware.go:25, the lookup of WithUser.                                *)
EndedServesNobody ==
  [][\A r, q \in Request :
       LetThrough(r) /\ LoggedOut(q) /\ sent[r].session = sent[q].session
         => resp[q] = "cookie_cleared"]_vars

(* A request that began is answered, although sign-ups wait for each other  *)
(* and some fail: store/users.go:34 "defer tx.Rollback".                    *)
EveryoneAnswered == \A r \in Request : pc[r] # "idle" ~> pc[r] = "done"

(* A session that has expired does not stay: auth.go:173 GCLoop. *)
ExpiredGo ==
  \A r \in Request :
    (\E s \in sessions : s.token = r /\ s.expires <= now)
      ~> (\A s \in sessions : s.token # r)

-----------------------------------------------------------------------------
(* docs/CONFIGURATION.md:51: "the first account becomes admin and bypasses  *)
(* the allowlist.  After that, only GETBUD_ALLOWED_EMAILS addresses can     *)
(* register".  Two first sign-ups may both count no users.                  *)
OnlyFirstBypasses ==
  Cardinality({u \in users : u.id \in Request /\ in[u.id].op = "callback"
                             /\ u.email \notin Allowed}) <= 1

(* google.go:28: "existing users always sign in".  The subject of an        *)
(* existing user may have lost its account to another subject with the      *)
(* account's email: LinkGoogle replaces it.                                 *)
ExistingSignsIn ==
  \A r \in Request :
    resp[r] = "not_allowed" =>
      \A u \in InitialUsers : u.sub[in[r].provider] # ClaimOf(r).sub
=============================================================================
