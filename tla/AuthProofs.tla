----------------------------- MODULE AuthProofs -----------------------------
(***************************************************************************)
(* Proofs about Auth: type correctness; accounts, sessions and browsers    *)
(* stay with whom a provider vouched for or who gave the password; the     *)
(* allowlist of an instance that has users; whole sign-ups.                *)
(*                                                                         *)
(* None of these is inductive as it stands: IInv adds what the handler at  *)
(* each label has found out, as a fact that no other request undoes.       *)
(***************************************************************************)
EXTENDS Auth, TLAPS, FiniteSetTheorems

-----------------------------------------------------------------------------
(* The inductive invariant. *)

(* Cookies that browser b may hold: its pending flows are its own. *)
Home(b, cookies) ==
  \A p \in Provider : cookies.flow[p] # NULL =>
    in[cookies.flow[p]].browser = b /\ in[cookies.flow[p]].provider = p

JarHome == \A b \in Browser : Home(b, jar[b])

SentHome == \A r \in Request : Home(in[r].browser, sent[r])

GrantedOwn == \A f \in Request : granted[f] \in Claims => granted[f].provider = in[f].provider

UniqueIds == \A u, v \in users : u.id = v.id => u = v

(* A request's id is drawn when its transaction commits. *)
Fresh == \A u \in users : u.id \in Request => pc[u.id] \in {"session", "done"}

TokensSpent == \A s \in sessions : pc[s.token] = "done"

StaysClosed == InitialUsers # {} => users # {}

(* What a callback knows once Exchange has let it through. *)
Proved(r) ==
  /\ ClaimOf(r) \in Claims /\ ClaimOf(r).provider = in[r].provider
  /\ ClaimOf(r).email # NULL /\ Verified(ClaimOf(r))
  /\ in[in[r].flow].browser = in[r].browser

(* That request r proved to be u. *)
Earned(r, u) ==
  IF in[r].op = "callback"
    THEN Vouched(in[r].provider, ClaimOf(r).sub, u.email)
    ELSE in[r].op = "login" /\ u.email = in[r].email

(* The row r is about to insert. *)
DraftFit(r) ==
  /\ draft[r] \in Row /\ draft[r].id = r
  /\ \A p \in Provider : draft[r].sub[p] # NULL => Vouched(p, draft[r].sub[p], draft[r].email)
  /\ in[r].op \in {"callback", "seed"}
  /\ in[r].op = "callback" =>
       /\ Earned(r, draft[r])
       /\ InitialUsers # {} => draft[r].email \in Allowed /\ ~draft[r].admin

Facts(r) ==
  /\ (in[r].op = "callback" /\ pc[r] # "idle") => granted[in[r].flow] # NULL
  /\ pc[r] \in {"sub", "email", "link", "count"} => in[r].op = "callback"
  /\ (in[r].op = "callback" /\ pc[r] \notin {"idle", "start", "done"}) => Proved(r)
  /\ pc[r] = "link" => \E u \in users : u.id = who[r] /\ u.email = ClaimOf(r).email
  /\ pc[r] \in {"insert", "defaults", "commit"} => DraftFit(r)
  /\ pc[r] = "session" => \E u \in users : u.id = who[r] /\ Earned(r, u)

People ==
  /\ AccountsVouched /\ UniqueIds /\ Fresh
  /\ DefaultsWithUser /\ ClosedInstance /\ StaysClosed
  /\ IsFiniteSet(users)

Tokens == SessionsEarned /\ FlowStaysHome /\ TokensSpent

CookiesHome == JarHome /\ SentHome /\ GrantedOwn

IInv == TypeOK /\ People /\ Tokens /\ CookiesHome /\ \A r \in Request : Facts(r)

-----------------------------------------------------------------------------
(* Cookies and answers. *)

LEMMA ConstantsTyped ==
  /\ \A r \in Request : r # NULL /\ r \in Id /\ r \notin Founder
  /\ \A x \in Subject \cup Email \cup Password \cup Id \cup Row \cup Claim : x # NULL
  /\ Declined \notin Claim /\ Declined # NULL /\ Claims \subseteq Claim
BY AuthAssumption DEF Id

(* The cookies of a browser keep their type and owner when a callback's     *)
(* state is dropped, a session cookie is set or dropped, a flow begins.     *)
LEMMA CookieEdits ==
  ASSUME NEW c \in Cookies, NEW b, Home(b, c)
  PROVE  /\ \A p \in Provider : [c EXCEPT !.flow[p] = NULL] \in Cookies
                               /\ Home(b, [c EXCEPT !.flow[p] = NULL])
         /\ \A t \in Request \cup {NULL} : [c EXCEPT !.session = t] \in Cookies
                                        /\ Home(b, [c EXCEPT !.session = t])
         /\ \A p \in Provider, f \in Request :
              (in[f].browser = b /\ in[f].provider = p) =>
                /\ [c EXCEPT !.flow[p] = f] \in Cookies
                /\ Home(b, [c EXCEPT !.flow[p] = f])
<1>1. ASSUME NEW p \in Provider, NEW x \in Request \cup {NULL}
      PROVE  /\ [c EXCEPT !.flow[p] = x] \in Cookies
             /\ [c EXCEPT !.flow[p] = x].flow = [c.flow EXCEPT ![p] = x]
  BY DEF Cookies
<1>2. ASSUME NEW t \in Request \cup {NULL}
      PROVE  [c EXCEPT !.session = t] \in Cookies /\ [c EXCEPT !.session = t].flow = c.flow
  BY DEF Cookies
<1>3. c.flow \in [Provider -> Request \cup {NULL}]
  BY DEF Cookies
<1>4. ASSUME NEW p \in Provider, NEW x \in Request \cup {NULL},
             x # NULL => in[x].browser = b /\ in[x].provider = p
      PROVE  Home(b, [c EXCEPT !.flow[p] = x])
  <2>1. SUFFICES ASSUME NEW q \in Provider, [c.flow EXCEPT ![p] = x][q] # NULL
                 PROVE  /\ in[[c.flow EXCEPT ![p] = x][q]].browser = b
                        /\ in[[c.flow EXCEPT ![p] = x][q]].provider = q
    BY <1>1 DEF Home
  <2>2. CASE q = p
    BY <1>3, <1>4, <2>1, <2>2
  <2>3. CASE q # p
    BY <1>3, <2>1, <2>3 DEF Home
  <2> QED BY <2>2, <2>3
<1>5. ASSUME NEW t \in Request \cup {NULL} PROVE Home(b, [c EXCEPT !.session = t])
  BY <1>2 DEF Home
<1>6. QED
  BY <1>1, <1>2, <1>4, <1>5

(* Request r's handler goes to a label, or answers. *)
Turn(r, label) ==
  /\ pc' = [pc EXCEPT ![r] = label]
  /\ in' = in /\ sent' = sent /\ granted' = granted /\ now' = now
  /\ jar' \in [Browser -> Cookies] /\ JarHome'
  /\ resp' \in [Request -> Answer]

LEMMA GotoTurns ==
  ASSUME TypeOK, JarHome, NEW r \in Request, NEW l, Goto(r, l)
  PROVE  Turn(r, l)
BY DEF TypeOK, JarHome, Home, Goto, Turn

LEMMA AnswersTurns ==
  ASSUME TypeOK, JarHome, NEW r \in Request, NEW a \in Answer, NEW c \in Cookies,
         Home(in[r].browser, c), Answers(r, a, c)
  PROVE  Turn(r, "done")
<1>1. in[r].browser \in Browser
  BY DEF TypeOK, Input
<1>2. /\ pc' = [pc EXCEPT ![r] = "done"] /\ resp' \in [Request -> Answer]
      /\ in' = in /\ sent' = sent /\ granted' = granted /\ now' = now
  BY DEF TypeOK, Answers
<1>3. CASE jar' = jar
  BY <1>2, <1>3 DEF TypeOK, JarHome, Home, Turn
<1>4. CASE jar' = [jar EXCEPT ![in[r].browser] = c]
  <2>1. jar' \in [Browser -> Cookies]
    BY <1>4 DEF TypeOK
  <2>2. ASSUME NEW b \in Browser PROVE Home(b, jar[b])'
    <3>1. CASE b = in[r].browser
      BY <1>1, <1>2, <1>4, <3>1 DEF TypeOK, Home
    <3>2. CASE b # in[r].browser
      BY <1>1, <1>2, <1>4, <3>2 DEF TypeOK, JarHome, Home
    <3> QED BY <3>1, <3>2
  <2> QED BY <1>2, <2>1, <2>2 DEF Turn, JarHome
<1>5. QED
  BY <1>3, <1>4 DEF Answers

LEMMA OwnCookies ==
  ASSUME TypeOK, JarHome, NEW r \in Request
  PROVE  /\ Held(r) \in Cookies /\ Home(in[r].browser, Held(r))
         /\ Cleared(r) \in Cookies /\ Home(in[r].browser, Cleared(r))
<1>1. in[r].browser \in Browser /\ in[r].provider \in Provider
  BY DEF TypeOK, Input
<1>2. Held(r) \in Cookies /\ Home(in[r].browser, Held(r))
  BY <1>1 DEF TypeOK, JarHome, Held
<1>3. QED
  BY <1>1, <1>2, CookieEdits DEF Cleared

LEMMA RefuseTurns ==
  ASSUME TypeOK, JarHome, NEW r \in Request, NEW a \in Answer, Refuse(r, a)
  PROVE  /\ Turn(r, "done")
         /\ UNCHANGED <<users, sessions, seeded, opened, spent, who, draft>>
BY AnswersTurns, OwnCookies DEF Refuse, tables, local

-----------------------------------------------------------------------------
(* What a request has found out stays so. *)

(* Users are only added, and keep their emails; a provider answers once. *)
Grows ==
  /\ in' = in
  /\ \A u \in users : \E v \in users' : v.id = u.id /\ v.email = u.email
  /\ \A f \in Request : granted[f] # NULL => granted'[f] = granted[f]

LEMMA EarnedStays ==
  ASSUME TypeOK, Grows, NEW q \in Request, NEW u, NEW v, v.email = u.email,
         in[q].op = "callback" => granted[in[q].flow] # NULL,
         Earned(q, u)
  PROVE  Earned(q, v)'
<1>1. in[q].flow \in Request
  BY DEF TypeOK, Input
<1>2. in[q].op = "callback" => ClaimOf(q)' = ClaimOf(q)
  BY <1>1 DEF Grows, ClaimOf
<1>3. in[q]' = in[q]
  BY DEF Grows
<1>4. CASE in[q].op = "callback"
  <2>1. Vouched(in[q].provider, ClaimOf(q).sub, u.email)
    BY <1>4 DEF Earned
  <2>2. Vouched(in[q]'.provider, ClaimOf(q)'.sub, v.email)
    BY <1>2, <1>3, <1>4, <2>1
  <2> QED BY <1>3, <1>4, <2>2 DEF Earned
<1>5. CASE in[q].op # "callback"
  BY <1>3, <1>5 DEF Earned
<1>6. QED
  BY <1>4, <1>5

(* The facts of a request that does not move. *)
LEMMA FactsStay ==
  ASSUME TypeOK, Grows, NEW q \in Request, Facts(q),
         pc'[q] = pc[q], who'[q] = who[q], draft'[q] = draft[q]
  PROVE  Facts(q)'
<1>1. in[q].flow \in Request
  BY DEF TypeOK, Input
<1>2. in' = in
  BY DEF Grows
<1>3. in[q].op = "callback" /\ pc[q] # "idle" =>
        granted[in[q].flow] # NULL /\ ClaimOf(q)' = ClaimOf(q)
  BY <1>1 DEF Facts, Grows, ClaimOf
<1>4. (in[q].op = "callback" /\ pc[q] \notin {"idle", "start", "done"}) => Proved(q)'
  <2>1. SUFFICES ASSUME in[q].op = "callback", pc[q] \notin {"idle", "start", "done"}
                 PROVE  Proved(q)'
    OBVIOUS
  <2>2. ClaimOf(q)' = ClaimOf(q) /\ Proved(q)
    BY <1>3, <2>1 DEF Facts
  <2>3. QED
    BY <1>2, <2>2 DEF Proved, Verified
<1>5. pc[q] = "link" => \E u \in users' : u.id = who'[q] /\ u.email = ClaimOf(q)'.email
  <2>1. SUFFICES ASSUME pc[q] = "link"
                 PROVE  \E u \in users' : u.id = who'[q] /\ u.email = ClaimOf(q)'.email
    OBVIOUS
  <2>2. PICK u \in users : u.id = who[q] /\ u.email = ClaimOf(q).email
    BY <2>1 DEF Facts
  <2>3. PICK v \in users' : v.id = u.id /\ v.email = u.email
    BY DEF Grows
  <2>4. in[q].op = "callback"
    BY <2>1 DEF Facts
  <2>5. ClaimOf(q)' = ClaimOf(q)
    BY <1>3, <2>1, <2>4
  <2>6. QED
    BY <2>2, <2>3, <2>5
<1>6. pc[q] \in {"insert", "defaults", "commit"} => DraftFit(q)'
  <2>1. SUFFICES ASSUME pc[q] \in {"insert", "defaults", "commit"}
                 PROVE  DraftFit(q)'
    OBVIOUS
  <2>2. DraftFit(q)
    BY <2>1 DEF Facts
  <2>3. in[q].op = "callback" => Earned(q, draft[q])'
    <3>1. SUFFICES ASSUME in[q].op = "callback" PROVE Earned(q, draft[q])'
      OBVIOUS
    <3>2. Earned(q, draft[q]) /\ granted[in[q].flow] # NULL
      BY <1>3, <2>1, <2>2, <3>1 DEF DraftFit
    <3>3. QED
      BY <1>2, <1>3, <2>1, <3>1, <3>2 DEF Earned
  <2>4. QED
    BY <1>2, <2>2, <2>3 DEF DraftFit
<1>7. pc[q] = "session" => \E u \in users' : u.id = who'[q] /\ Earned(q, u)'
  <2>1. SUFFICES ASSUME pc[q] = "session"
                 PROVE  \E u \in users' : u.id = who'[q] /\ Earned(q, u)'
    OBVIOUS
  <2>2. PICK u \in users : u.id = who[q] /\ Earned(q, u)
    BY <2>1 DEF Facts
  <2>3. PICK v \in users' : v.id = u.id /\ v.email = u.email
    BY DEF Grows
  <2>4. CASE in[q].op = "callback"
    BY <1>2, <1>3, <2>1, <2>2, <2>3, <2>4 DEF Earned
  <2>5. CASE in[q].op # "callback"
    BY <1>2, <2>2, <2>3, <2>5 DEF Earned
  <2>6. QED
    BY <2>4, <2>5
<1>8. /\ (in[q].op = "callback" /\ pc[q] # "idle") => granted'[in[q].flow] # NULL
      /\ pc[q] \in {"sub", "email", "link", "count"} => in[q].op = "callback"
  BY <1>1 DEF Facts, Grows
<1>9. QED
  BY ONLY <1>2, <1>4, <1>5, <1>6, <1>7, <1>8, pc'[q] = pc[q] DEF Facts

(* A request that has answered needs nothing more. *)
LEMMA DoneFacts ==
  ASSUME NEW r \in Request, TypeOK, Facts(r), pc[r] # "idle", Turn(r, "done")
  PROVE  Facts(r)'
<1>1. pc'[r] = "done" /\ in' = in /\ granted' = granted
  BY DEF TypeOK, Turn
<1>2. in[r].op = "callback" => granted[in[r].flow] # NULL
  BY DEF Facts
<1>3. QED
  BY ONLY <1>1, <1>2 DEF Facts

LEMMA OthersFacts ==
  ASSUME IInv, Grows, NEW r \in Request, NEW l, pc' = [pc EXCEPT ![r] = l],
         \A q \in Request : q # r => who'[q] = who[q] /\ draft'[q] = draft[q],
         Facts(r)'
  PROVE  \A q \in Request : Facts(q)'
<1>1. SUFFICES ASSUME NEW q \in Request, q # r PROVE Facts(q)'
  OBVIOUS
<1>2. pc'[q] = pc[q]
  BY <1>1 DEF IInv, TypeOK
<1>3. TypeOK /\ Facts(q)
  BY DEF IInv
<1>4. QED
  BY <1>1, <1>2, <1>3, FactsStay

LEMMA CookiesStay ==
  ASSUME IInv, NEW r \in Request, NEW l, Turn(r, l)
  PROVE  CookiesHome'
BY DEF IInv, CookiesHome, Turn, SentHome, GrantedOwn, Home

(* A step of request r that leaves the tables of users and sessions alone. *)
LEMMA Quiet ==
  ASSUME IInv, NEW r \in Request, NEW l \in Label, Turn(r, l),
         pc[r] # "done", pc[r] = "session" => l = "done",
         UNCHANGED <<users, sessions, seeded>>,
         spent' \subseteq Request, opened' \subseteq Request,
         who' \in [Request -> Id \cup {NULL}], draft' \in [Request -> Row \cup {NULL}],
         \A q \in Request : q # r => who'[q] = who[q] /\ draft'[q] = draft[q],
         Facts(r)'
  PROVE  IInv'
<1> USE DEF IInv
<1>1. pc' = [pc EXCEPT ![r] = l] /\ in' = in /\ granted' = granted /\ now' = now /\ sent' = sent
  BY DEF Turn
<1>2. TypeOK'
  BY <1>1 DEF TypeOK, Turn
<1>3. People'
  <2>1. Fresh'
    BY <1>1 DEF TypeOK, People, Fresh
  <2>2. QED
    BY <1>1, <2>1 DEF People, AccountsVouched, UniqueIds, DefaultsWithUser, ClosedInstance,
                      StaysClosed
<1>4. Tokens'
  <2>1. TokensSpent'
    BY <1>1 DEF TypeOK, Session, Tokens, TokensSpent
  <2>2. SessionsEarned' /\ FlowStaysHome'
    BY <1>1 DEF Tokens, SessionsEarned, FlowStaysHome, ClaimOf
  <2>3. QED
    BY <2>1, <2>2 DEF Tokens
<1>5. CookiesHome'
  BY CookiesStay
<1>6. \A q \in Request : Facts(q)'
  BY <1>1, OthersFacts DEF Grows
<1>7. QED
  BY <1>2, <1>3, <1>4, <1>5, <1>6

LEMMA RefuseKeeps ==
  ASSUME IInv, NEW r \in Request, NEW a \in Answer, pc[r] \notin {"idle", "done"}, Refuse(r, a)
  PROVE  IInv'
<1>1. TypeOK /\ JarHome /\ Facts(r)
  BY DEF IInv, CookiesHome
<1>2. Turn(r, "done") /\ UNCHANGED <<users, sessions, seeded, opened, spent, who, draft>>
  BY <1>1, RefuseTurns
<1>3. Facts(r)'
  BY <1>1, <1>2, DoneFacts
<1>4. /\ spent' \subseteq Request /\ opened' \subseteq Request
      /\ who' \in [Request -> Id \cup {NULL}] /\ draft' \in [Request -> Row \cup {NULL}]
  BY <1>1, <1>2 DEF TypeOK
<1>5. QED
  BY <1>2, <1>3, <1>4, Quiet DEF Label

-----------------------------------------------------------------------------
(* One lemma per action: first those that leave users and sessions alone. *)

LEMMA SSOStartKeeps ==
  ASSUME IInv, NEW r \in Request, SSOStart(r)
  PROVE  IInv'
<1> DEFINE p == in[r].provider
<1>1. TypeOK /\ JarHome /\ Facts(r) /\ pc[r] = "start"
  BY DEF IInv, CookiesHome, SSOStart, At
<1>2. p \in Provider
  BY <1>1 DEF TypeOK, Input
<1>3. Held(r) \in Cookies /\ Home(in[r].browser, Held(r))
  BY <1>1, OwnCookies
<1>4. /\ [Held(r) EXCEPT !.flow[p] = r] \in Cookies
      /\ Home(in[r].browser, [Held(r) EXCEPT !.flow[p] = r])
  BY <1>2, <1>3, CookieEdits
<1>5. Turn(r, "done")
  BY <1>1, <1>4, AnswersTurns DEF SSOStart, Answer
<1>6. Facts(r)'
  BY <1>1, <1>5, DoneFacts
<1>7. UNCHANGED <<users, sessions, seeded, opened, spent, who, draft>>
  BY DEF SSOStart, tables, local
<1>8. QED
  BY <1>1, <1>5, <1>6, <1>7, Quiet DEF TypeOK, Label

LEMMA ExchangeKeeps ==
  ASSUME IInv, NEW r \in Request, Exchange(r)
  PROVE  IInv'
<1>1. /\ TypeOK /\ JarHome /\ Facts(r)
      /\ pc[r] = "start" /\ in[r].op = "callback"
  BY DEF IInv, CookiesHome, Exchange, At
<1>2. in[r].flow \in Request /\ in[r].provider \in Provider
  BY <1>1 DEF TypeOK, Input
<1>3. CASE \/ Refuse(r, "bad_request") \/ Refuse(r, "bad_gateway")
  BY <1>1, <1>3, RefuseKeeps DEF Answer
<1>4. CASE /\ StateMatches(r) /\ ClaimOf(r) # Declined
           /\ spent' = spent \cup {in[r].flow}
           /\ UNCHANGED <<tables, local>>
           /\ CASE ClaimOf(r).email = NULL -> Answers(r, "bad_gateway", Cleared(r))
                [] ClaimOf(r).email # NULL /\ ~Verified(ClaimOf(r)) ->
                     Answers(r, "unverified", Cleared(r))
                [] OTHER -> Goto(r, "sub")
  <2>1. /\ UNCHANGED <<users, sessions, seeded, opened, who, draft>>
        /\ spent' \subseteq Request
    BY <1>1, <1>2, <1>4 DEF tables, local, TypeOK
  <2>2. CASE Answers(r, "bad_gateway", Cleared(r)) \/ Answers(r, "unverified", Cleared(r))
    <3>1. Turn(r, "done")
      BY <1>1, <2>2, OwnCookies, AnswersTurns DEF Answer
    <3>2. Facts(r)'
      BY <1>1, <3>1, DoneFacts
    <3>3. QED
      BY <1>1, <2>1, <3>1, <3>2, Quiet DEF TypeOK, Label
  <2>3. CASE Goto(r, "sub") /\ ClaimOf(r).email # NULL /\ Verified(ClaimOf(r))
    <3>1. Turn(r, "sub")
      BY <1>1, <2>3, GotoTurns
    <3>2. pc'[r] = "sub" /\ in' = in /\ granted' = granted
      BY <1>1, <3>1 DEF TypeOK, Turn
    <3>3. ClaimOf(r) \in Claims
      BY <1>1, <1>2, <1>4 DEF ClaimOf, Facts, TypeOK
    <3>4. in[in[r].flow].browser = in[r].browser /\ in[in[r].flow].provider = in[r].provider
      BY <1>2, <1>4, ConstantsTyped DEF IInv, CookiesHome, SentHome, Home, StateMatches
    <3>5. ClaimOf(r).provider = in[r].provider
      BY <1>2, <3>3, <3>4 DEF IInv, CookiesHome, GrantedOwn, ClaimOf
    <3>6. Proved(r)'
      BY <2>3, <3>2, <3>3, <3>4, <3>5 DEF Proved, ClaimOf, Verified
    <3>7. granted[in[r].flow] # NULL
      BY <1>1 DEF Facts
    <3>8. Facts(r)'
      BY ONLY <1>1, <3>2, <3>6, <3>7 DEF Facts
    <3>9. QED
      BY <1>1, <2>1, <3>1, <3>8, Quiet DEF TypeOK, Label
  <2>4. QED
    BY <1>4, <2>2, <2>3
<1>5. QED
  BY <1>3, <1>4 DEF Exchange

(* Handlers that find a user, or the next thing to look for. *)

LEMMA FindSubjectKeeps ==
  ASSUME IInv, NEW r \in Request, FindSubject(r)
  PROVE  IInv'
<1>1. /\ TypeOK /\ JarHome /\ Facts(r)
      /\ pc[r] = "sub" /\ in[r].op = "callback" /\ Proved(r)
      /\ granted[in[r].flow] # NULL
  BY DEF IInv, CookiesHome, FindSubject, At, Facts
<1>2. in[r].provider \in Provider
  BY <1>1 DEF TypeOK, Input
<1>3. CASE Goto(r, "email") /\ UNCHANGED <<tables, spent, local>>
  <2>1. Turn(r, "email") /\ UNCHANGED <<users, sessions, seeded, opened, spent, who, draft>>
    BY <1>1, <1>3, GotoTurns DEF tables, local
  <2>2. pc'[r] = "email" /\ in' = in /\ granted' = granted
    BY <1>1, <2>1 DEF TypeOK, Turn
  <2>3. Proved(r)'
    BY <1>1, <2>2 DEF Proved, ClaimOf, Verified
  <2>4. Facts(r)'
    BY ONLY <1>1, <2>2, <2>3 DEF Facts
  <2>5. QED
    BY <1>1, <2>1, <2>4, Quiet DEF TypeOK, Label
<1>4. ASSUME NEW u \in BySubject(in[r].provider, ClaimOf(r).sub),
             who' = [who EXCEPT ![r] = u.id],
             Goto(r, "session"), UNCHANGED <<tables, spent, draft>>
      PROVE  IInv'
  <2>1. Turn(r, "session") /\ UNCHANGED <<users, sessions, seeded, opened, spent, draft>>
    BY <1>1, <1>4, GotoTurns DEF tables
  <2>2. u \in users /\ u.sub[in[r].provider] = ClaimOf(r).sub /\ u.id \in Id
    BY <1>1 DEF BySubject, TypeOK, Row
  <2>3. pc'[r] = "session" /\ in' = in /\ granted' = granted /\ who'[r] = u.id /\ users' = users
    BY <1>1, <1>4, <2>1 DEF TypeOK, Turn
  <2>4. Proved(r)'
    BY <1>1, <2>3 DEF Proved, ClaimOf, Verified
  <2>5. ClaimOf(r).sub # NULL
    BY <1>1, ConstantsTyped DEF Proved, Claim
  <2>6. Vouched(in[r].provider, ClaimOf(r).sub, u.email)
    BY <1>2, <2>2, <2>5 DEF IInv, People, AccountsVouched
  <2>7. Earned(r, u)'
    BY <1>1, <2>3, <2>6 DEF Earned, ClaimOf
  <2>8. Facts(r)'
    BY ONLY <1>1, <2>2, <2>3, <2>4, <2>7 DEF Facts
  <2>9. who' \in [Request -> Id \cup {NULL}]
    BY <1>1, <1>4, <2>2 DEF TypeOK
  <2>10. QED
    BY <1>1, <1>4, <2>1, <2>8, <2>9, Quiet DEF TypeOK, Label
<1>5. QED
  BY <1>3, <1>4 DEF FindSubject

LEMMA FindEmailKeeps ==
  ASSUME IInv, NEW r \in Request, FindEmail(r)
  PROVE  IInv'
<1>1. /\ TypeOK /\ JarHome /\ Facts(r)
      /\ pc[r] = "email" /\ in[r].op = "callback" /\ Proved(r)
      /\ granted[in[r].flow] # NULL
  BY DEF IInv, CookiesHome, FindEmail, At, Facts
<1>2. CASE Goto(r, "count") /\ UNCHANGED <<tables, spent, local>>
  <2>1. Turn(r, "count") /\ UNCHANGED <<users, sessions, seeded, opened, spent, who, draft>>
    BY <1>1, <1>2, GotoTurns DEF tables, local
  <2>2. pc'[r] = "count" /\ in' = in /\ granted' = granted
    BY <1>1, <2>1 DEF TypeOK, Turn
  <2>3. Proved(r)'
    BY <1>1, <2>2 DEF Proved, ClaimOf, Verified
  <2>4. Facts(r)'
    BY ONLY <1>1, <2>2, <2>3 DEF Facts
  <2>5. QED
    BY <1>1, <2>1, <2>4, Quiet DEF TypeOK, Label
<1>3. ASSUME NEW u \in ByEmail(ClaimOf(r).email),
             who' = [who EXCEPT ![r] = u.id],
             Goto(r, "link"), UNCHANGED <<tables, spent, draft>>
      PROVE  IInv'
  <2>1. Turn(r, "link") /\ UNCHANGED <<users, sessions, seeded, opened, spent, draft>>
    BY <1>1, <1>3, GotoTurns DEF tables
  <2>2. u \in users /\ u.email = ClaimOf(r).email /\ u.id \in Id
    BY <1>1 DEF ByEmail, TypeOK, Row
  <2>3. pc'[r] = "link" /\ in' = in /\ granted' = granted /\ who'[r] = u.id /\ users' = users
    BY <1>1, <1>3, <2>1 DEF TypeOK, Turn
  <2>4. Proved(r)' /\ ClaimOf(r)' = ClaimOf(r)
    BY <1>1, <2>3 DEF Proved, ClaimOf, Verified
  <2>5. Facts(r)'
    BY ONLY <1>1, <2>2, <2>3, <2>4 DEF Facts
  <2>6. who' \in [Request -> Id \cup {NULL}]
    BY <1>1, <1>3, <2>2 DEF TypeOK
  <2>7. QED
    BY <1>1, <1>3, <2>1, <2>5, <2>6, Quiet DEF TypeOK, Label
<1>4. QED
  BY <1>2, <1>3 DEF FindEmail

(* What Exchange lets through, the provider has vouched for. *)
LEMMA ProvedVouched ==
  ASSUME NEW r \in Request, Proved(r)
  PROVE  Vouched(in[r].provider, ClaimOf(r).sub, ClaimOf(r).email)
BY DEF Proved, Verified, Vouched

LEMMA NewRowFit ==
  ASSUME IInv, NEW r \in Request, in[r].op = "callback", Proved(r)
  PROVE  /\ NewRow(r) \in Row /\ NewRow(r).id = r /\ NewRow(r).email = ClaimOf(r).email
         /\ NewRow(r).admin = (users = {})
         /\ \A p \in Provider :
              NewRow(r).sub[p] # NULL => Vouched(p, NewRow(r).sub[p], NewRow(r).email)
<1>1. in[r].provider \in Provider /\ r \in Id
  BY DEF IInv, TypeOK, Input, Id
<1>2. ClaimOf(r).sub \in Subject /\ ClaimOf(r).email \in Email
  BY ConstantsTyped DEF Proved, Claim
<1>3. NewRow(r).sub =
        [p \in Provider |-> IF p = in[r].provider THEN ClaimOf(r).sub ELSE NULL]
  BY DEF NewRow
<1>4. NewRow(r) \in Row
  <2>1. NewRow(r).sub \in [Provider -> Subject \cup {NULL}]
    BY <1>2, <1>3
  <2>2. (users = {}) \in BOOLEAN
    OBVIOUS
  <2>3. QED
    BY <1>1, <1>2, <2>1, <2>2 DEF NewRow, Row
<1>5. NewRow(r).id = r /\ NewRow(r).email = ClaimOf(r).email /\ NewRow(r).admin = (users = {})
  BY DEF NewRow
<1>6. ASSUME NEW p \in Provider, NewRow(r).sub[p] # NULL
      PROVE  Vouched(p, NewRow(r).sub[p], NewRow(r).email)
  <2>1. p = in[r].provider /\ NewRow(r).sub[p] = ClaimOf(r).sub
    BY <1>3, <1>6
  <2>2. QED
    BY <1>5, <2>1, ProvedVouched
<1>7. QED
  BY <1>4, <1>5, <1>6

LEMMA CountKeeps ==
  ASSUME IInv, NEW r \in Request, Count(r)
  PROVE  IInv'
<1>1. /\ TypeOK /\ JarHome /\ Facts(r)
      /\ pc[r] = "count" /\ in[r].op = "callback" /\ Proved(r)
      /\ granted[in[r].flow] # NULL
  BY DEF IInv, CookiesHome, Count, At, Facts
<1>2. CASE Refuse(r, "not_allowed")
  BY <1>1, <1>2, RefuseKeeps DEF Answer
<1>3. CASE /\ MaySignUp(Cardinality(users), ClaimOf(r).email)
           /\ draft' = [draft EXCEPT ![r] = NewRow(r)]
           /\ Goto(r, "insert") /\ UNCHANGED <<tables, spent, who>>
  <2>1. Turn(r, "insert") /\ UNCHANGED <<users, sessions, seeded, opened, spent, who>>
    BY <1>1, <1>3, GotoTurns DEF tables
  <2>2. /\ pc'[r] = "insert" /\ in' = in /\ granted' = granted /\ draft'[r] = NewRow(r)
    BY <1>1, <1>3, <2>1 DEF TypeOK, Turn
  <2>3. Proved(r)'
    BY <1>1, <2>2 DEF Proved, ClaimOf, Verified
  <2>4. /\ NewRow(r) \in Row /\ NewRow(r).id = r /\ NewRow(r).email = ClaimOf(r).email
        /\ NewRow(r).admin = (users = {})
        /\ \A p \in Provider :
             NewRow(r).sub[p] # NULL => Vouched(p, NewRow(r).sub[p], NewRow(r).email)
    BY <1>1, NewRowFit
  <2>5. InitialUsers # {} => NewRow(r).email \in Allowed /\ ~NewRow(r).admin
    <3>1. SUFFICES ASSUME InitialUsers # {} PROVE ClaimOf(r).email \in Allowed /\ users # {}
      BY <2>4
    <3>2. users # {} /\ IsFiniteSet(users)
      BY <3>1 DEF IInv, People, StaysClosed
    <3>3. Cardinality(users) # 0
      BY <3>2, FS_EmptySet
    <3>4. QED
      BY <1>3, <3>2, <3>3 DEF MaySignUp
  <2>6. Earned(r, draft[r])'
    BY <1>1, <2>2, <2>4, ProvedVouched DEF Earned, ClaimOf
  <2>7. DraftFit(r)'
    BY ONLY <1>1, <2>2, <2>4, <2>5, <2>6 DEF DraftFit
  <2>8. Facts(r)'
    BY ONLY <1>1, <2>2, <2>3, <2>7 DEF Facts
  <2>9. draft' \in [Request -> Row \cup {NULL}]
    BY <1>1, <1>3, <2>4 DEF TypeOK
  <2>10. QED
    BY <1>1, <1>3, <2>1, <2>8, <2>9, Quiet DEF TypeOK, Label
<1>4. QED
  BY <1>2, <1>3 DEF Count

(* The insert of a user and of its categories: the draft is as it was. *)
LEMMA CreatingFacts ==
  ASSUME TypeOK, NEW r \in Request, Facts(r), pc[r] \in {"insert", "defaults"},
         NEW l \in {"defaults", "commit"}, Turn(r, l), draft' = draft
  PROVE  Facts(r)'
<1>1. pc'[r] = l /\ in' = in /\ granted' = granted
  BY DEF TypeOK, Turn
<1>2. /\ DraftFit(r)
      /\ in[r].op = "callback" => granted[in[r].flow] # NULL /\ Proved(r)
  BY DEF Facts
<1>3. ClaimOf(r)' = ClaimOf(r)
  BY <1>1 DEF ClaimOf
<1>4. Proved(r) => Proved(r)'
  BY <1>1, <1>3 DEF Proved, Verified
<1>5. Earned(r, draft[r]) => Earned(r, draft[r])'
  BY <1>1, <1>3 DEF Earned
<1>6. DraftFit(r)'
  BY ONLY <1>1, <1>2, <1>5, draft' = draft DEF DraftFit
<1>7. l \in {"defaults", "commit"}
  OBVIOUS
<1>8. QED
  BY ONLY <1>1, <1>2, <1>4, <1>6, <1>7 DEF Facts

LEMMA InsertUserKeeps ==
  ASSUME IInv, NEW r \in Request, InsertUser(r)
  PROVE  IInv'
<1>1. TypeOK /\ JarHome /\ Facts(r) /\ pc[r] = "insert"
  BY DEF IInv, CookiesHome, InsertUser
<1>2. CASE Refuse(r, "error")
  BY <1>1, <1>2, RefuseKeeps DEF Answer
<1>3. CASE /\ opened' = opened \cup {r}
           /\ Goto(r, "defaults") /\ UNCHANGED <<users, sessions, seeded, spent, local>>
  <2>1. Turn(r, "defaults") /\ UNCHANGED <<who, draft>>
    BY <1>1, <1>3, GotoTurns DEF local
  <2>2. Facts(r)'
    BY <1>1, <2>1, CreatingFacts
  <2>3. QED
    BY <1>1, <1>3, <2>1, <2>2, Quiet DEF TypeOK, Label
<1>4. QED
  BY <1>2, <1>3 DEF InsertUser

LEMMA SeedDefaultCategoriesKeeps ==
  ASSUME IInv, NEW r \in Request, SeedDefaultCategories(r)
  PROVE  IInv'
<1>1. TypeOK /\ JarHome /\ Facts(r) /\ pc[r] = "defaults"
  BY DEF IInv, CookiesHome, SeedDefaultCategories
<1>2. /\ Turn(r, "commit")
      /\ UNCHANGED <<users, sessions, seeded, opened, spent, who, draft>>
  BY <1>1, GotoTurns DEF SeedDefaultCategories, tables, local
<1>3. Facts(r)'
  BY <1>1, <1>2, CreatingFacts
<1>4. QED
  BY <1>1, <1>2, <1>3, Quiet DEF TypeOK, Label

LEMMA AbortKeeps ==
  ASSUME IInv, NEW r \in Request, Abort(r)
  PROVE  IInv'
<1>1. TypeOK /\ JarHome /\ Facts(r) /\ pc[r] \notin {"idle", "done"}
  BY DEF IInv, CookiesHome, Abort
<1>2. Turn(r, "done")
  BY <1>1, OwnCookies, AnswersTurns DEF Abort, Answer
<1>3. /\ UNCHANGED <<users, sessions, seeded, spent, who, draft>>
      /\ opened' \subseteq Request
  BY <1>1 DEF Abort, local, TypeOK
<1>4. Facts(r)'
  BY <1>1, <1>2, DoneFacts
<1>5. QED
  BY <1>1, <1>2, <1>3, <1>4, Quiet DEF TypeOK, Label

LEMMA LoginKeeps ==
  ASSUME IInv, NEW r \in Request, Login(r)
  PROVE  IInv'
<1>1. TypeOK /\ JarHome /\ Facts(r) /\ pc[r] = "start" /\ in[r].op = "login"
  BY DEF IInv, CookiesHome, Login, At
<1>2. CASE Refuse(r, "invalid_credentials")
  BY <1>1, <1>2, RefuseKeeps DEF Answer
<1>3. ASSUME NEW u \in ByEmail(in[r].email),
             who' = [who EXCEPT ![r] = u.id],
             Goto(r, "session"), UNCHANGED <<tables, spent, draft>>
      PROVE  IInv'
  <2>1. Turn(r, "session") /\ UNCHANGED <<users, sessions, seeded, opened, spent, draft>>
    BY <1>1, <1>3, GotoTurns DEF tables
  <2>2. u \in users /\ u.email = in[r].email /\ u.id \in Id
    BY <1>1 DEF ByEmail, TypeOK, Row
  <2>3. pc'[r] = "session" /\ in' = in /\ who'[r] = u.id /\ users' = users
    BY <1>1, <1>3, <2>1 DEF TypeOK, Turn
  <2>4. Earned(r, u)'
    BY <1>1, <2>2, <2>3 DEF Earned
  <2>5. Facts(r)'
    BY ONLY <1>1, <2>2, <2>3, <2>4 DEF Facts
  <2>6. who' \in [Request -> Id \cup {NULL}]
    BY <1>1, <1>3, <2>2 DEF TypeOK
  <2>7. QED
    BY <1>1, <1>3, <2>1, <2>5, <2>6, Quiet DEF TypeOK, Label
<1>4. QED
  BY <1>2, <1>3 DEF Login

LEMMA ResolveKeeps ==
  ASSUME IInv, NEW r \in Request, Resolve(r)
  PROVE  IInv'
<1>1. TypeOK /\ JarHome /\ Facts(r) /\ pc[r] = "start"
  BY DEF IInv, CookiesHome, Resolve, At
<1>2. CASE Refuse(r, "unauthenticated")
  BY <1>1, <1>2, RefuseKeeps DEF Answer
<1>3. ASSUME NEW s \in Live(r),
             who' = [who EXCEPT ![r] = s.user],
             Answers(r, "ok", Held(r)), UNCHANGED <<tables, spent, draft>>
      PROVE  IInv'
  <2>1. Turn(r, "done")
    BY <1>1, <1>3, OwnCookies, AnswersTurns DEF Answer
  <2>2. UNCHANGED <<users, sessions, seeded, opened, spent, draft>>
    BY <1>3 DEF tables
  <2>3. who' \in [Request -> Id \cup {NULL}]
    BY <1>1, <1>3 DEF TypeOK, Live, Session
  <2>4. Facts(r)'
    BY <1>1, <2>1, DoneFacts
  <2>5. QED
    BY <1>1, <1>3, <2>1, <2>2, <2>3, <2>4, Quiet DEF TypeOK, Label
<1>4. QED
  BY <1>2, <1>3 DEF Resolve

LEMMA SeedLookupKeeps ==
  ASSUME IInv, NEW r \in Request, SeedLookup(r)
  PROVE  IInv'
<1> DEFINE row == [id |-> r, email |-> in[r].email, sub |-> [p \in Provider |-> NULL],
                   password |-> in[r].password, admin |-> in[r].admin]
<1>1. TypeOK /\ JarHome /\ Facts(r) /\ pc[r] = "start" /\ in[r].op = "seed"
  BY DEF IInv, CookiesHome, SeedLookup, At
<1>2. CASE /\ draft' = [draft EXCEPT ![r] = row]
           /\ Goto(r, "insert") /\ UNCHANGED <<tables, spent, who>>
  <2>1. Turn(r, "insert") /\ UNCHANGED <<users, sessions, seeded, opened, spent, who>>
    BY <1>1, <1>2, GotoTurns DEF tables
  <2>2. row \in Row /\ row.id = r /\ \A p \in Provider : row.sub[p] = NULL
    BY <1>1 DEF TypeOK, Input, Row, Id
  <2>3. pc'[r] = "insert" /\ in' = in /\ draft'[r] = row
    BY <1>1, <1>2, <2>1 DEF TypeOK, Turn
  <2>4. DraftFit(r)'
    <3> HIDE DEF row
    <3> QED BY ONLY <1>1, <2>2, <2>3 DEF DraftFit
  <2>5. Facts(r)'
    BY ONLY <1>1, <2>3, <2>4 DEF Facts
  <2>6. draft' \in [Request -> Row \cup {NULL}]
    BY <1>1, <1>2, <2>2 DEF TypeOK
  <2>7. QED
    BY <1>1, <1>2, <2>1, <2>5, <2>6, Quiet DEF TypeOK, Label
<1>3. ASSUME NEW u \in ByEmail(in[r].email),
             who' = [who EXCEPT ![r] = u.id],
             Goto(r, "password"), UNCHANGED <<tables, spent, draft>>
      PROVE  IInv'
  <2>1. Turn(r, "password") /\ UNCHANGED <<users, sessions, seeded, opened, spent, draft>>
    BY <1>1, <1>3, GotoTurns DEF tables
  <2>2. u.id \in Id
    BY <1>1 DEF ByEmail, TypeOK, Row
  <2>3. pc'[r] = "password" /\ in' = in
    BY <1>1, <1>3, <2>1 DEF TypeOK, Turn
  <2>4. Facts(r)'
    BY ONLY <1>1, <2>3 DEF Facts
  <2>5. who' \in [Request -> Id \cup {NULL}]
    BY <1>1, <1>3, <2>2 DEF TypeOK
  <2>6. QED
    BY <1>1, <1>3, <2>1, <2>4, <2>5, Quiet DEF TypeOK, Label
<1>4. QED
  BY <1>2, <1>3 DEF SeedLookup

-----------------------------------------------------------------------------
(* Actions that rewrite users: ids, emails and admin flags stay. *)

LEMMA RenewKeeps ==
  ASSUME IInv, NEW r \in Request, NEW l \in Label, Turn(r, l),
         pc[r] \notin {"session", "done"},
         NEW f \in [users -> Row], users' = {f[u] : u \in users},
         \A u \in users : f[u].id = u.id /\ f[u].email = u.email /\ f[u].admin = u.admin,
         \A u \in users : \A p \in Provider :
           f[u].sub[p] # NULL => Vouched(p, f[u].sub[p], u.email),
         UNCHANGED <<sessions, seeded, opened, spent, who, draft>>,
         Facts(r)'
  PROVE  IInv'
<1> USE DEF IInv
<1>1. pc' = [pc EXCEPT ![r] = l] /\ in' = in /\ granted' = granted /\ now' = now /\ sent' = sent
  BY DEF Turn
<1>2. TypeOK'
  BY <1>1 DEF TypeOK, Turn
<1>3. \A v \in users' : \E u \in users : v = f[u]
  OBVIOUS
<1>4. Grows
  BY <1>1 DEF Grows
<1>5. People'
  <2>1. AccountsVouched'
    BY <1>3 DEF AccountsVouched
  <2>2. UniqueIds'
    BY <1>3 DEF People, UniqueIds
  <2>3. Fresh'
    BY <1>1, <1>3 DEF TypeOK, People, Fresh
  <2>4. DefaultsWithUser'
    <3>1. Ids(users') = Ids(users)
      BY DEF Ids
    <3>2. QED
      BY <3>1 DEF People, DefaultsWithUser
  <2>5. ClosedInstance'
    BY <1>1, <1>3 DEF People, ClosedInstance
  <2>6. StaysClosed'
    BY DEF People, StaysClosed
  <2>7. IsFiniteSet(users')
    <3>1. f \in Surjection(users, users')
      BY DEF Surjection
    <3>2. QED
      BY <3>1, FS_Surjection DEF People
  <2>8. QED
    BY <2>1, <2>2, <2>3, <2>4, <2>5, <2>6, <2>7 DEF People
<1>6. Tokens'
  <2>1. TokensSpent'
    BY <1>1 DEF TypeOK, Session, Tokens, TokensSpent
  <2>2. FlowStaysHome'
    BY <1>1 DEF Tokens, FlowStaysHome
  <2>3. SessionsEarned'
    BY <1>1, <1>4 DEF Tokens, SessionsEarned, Grows, ClaimOf
  <2>4. QED
    BY <2>1, <2>2, <2>3 DEF Tokens
<1>7. CookiesHome'
  BY CookiesStay
<1>8. \A q \in Request : Facts(q)'
  BY <1>1, <1>4, OthersFacts
<1>9. QED
  BY <1>2, <1>5, <1>6, <1>7, <1>8

LEMMA LinkKeeps ==
  ASSUME IInv, NEW r \in Request, Link(r)
  PROVE  IInv'
<1> DEFINE p == in[r].provider
           s == ClaimOf(r).sub
           f == [u \in users |-> IF u.id = who[r] THEN [u EXCEPT !.sub[p] = s] ELSE u]
<1>1. /\ TypeOK /\ JarHome /\ Facts(r)
      /\ pc[r] = "link" /\ in[r].op = "callback" /\ Proved(r)
      /\ granted[in[r].flow] # NULL
  BY DEF IInv, CookiesHome, Link, At, Facts
<1>2. p \in Provider /\ s \in Subject
  BY <1>1, ConstantsTyped DEF TypeOK, Input, Proved, Claim
<1>3. CASE Refuse(r, "error")
  BY <1>1, <1>3, RefuseKeeps DEF Answer
<1>4. CASE /\ users' = {IF u.id = who[r] THEN [u EXCEPT !.sub[p] = s] ELSE u : u \in users}
           /\ Goto(r, "session") /\ UNCHANGED <<sessions, seeded, opened, spent, local>>
  <2>1. Turn(r, "session") /\ UNCHANGED <<who, draft>>
    BY <1>1, <1>4, GotoTurns DEF local
  <2>2. ASSUME NEW u \in users
        PROVE  /\ f[u] \in Row
               /\ f[u].id = u.id /\ f[u].email = u.email /\ f[u].admin = u.admin
               /\ f[u].sub = IF u.id = who[r] THEN [u.sub EXCEPT ![p] = s] ELSE u.sub
    <3>1. u \in Row /\ u.sub \in [Provider -> Subject \cup {NULL}]
      BY <1>1 DEF TypeOK, Row
    <3>2. [u.sub EXCEPT ![p] = s] \in [Provider -> Subject \cup {NULL}]
      BY <1>2, <3>1
    <3>3. QED
      BY <3>1, <3>2 DEF Row
  <2>3. users' = {f[u] : u \in users}
    BY <1>4
  <2>4. f \in [users -> Row]
    BY <2>2
  <2>5. PICK w \in users : w.id = who[r] /\ w.email = ClaimOf(r).email
    BY <1>1 DEF Facts
  <2>6. Vouched(p, s, w.email)
    BY <1>1, <2>5, ProvedVouched
  <2>7. ASSUME NEW u \in users, NEW q \in Provider, f[u].sub[q] # NULL
        PROVE  Vouched(q, f[u].sub[q], u.email)
    <3>1. CASE u.id = who[r] /\ q = p
      <4>1. u = w
        BY <2>5, <3>1 DEF IInv, People, UniqueIds
      <4>2. f[u].sub[q] = s
        BY <1>1, <2>2, <3>1 DEF TypeOK, Row
      <4>3. QED
        BY <2>6, <3>1, <4>1, <4>2
    <3>2. CASE ~(u.id = who[r] /\ q = p)
      <4>1. f[u].sub[q] = u.sub[q]
        BY <1>1, <2>2, <3>2 DEF TypeOK, Row
      <4>2. QED
        BY <2>7, <4>1 DEF IInv, People, AccountsVouched
    <3> QED BY <3>1, <3>2
  <2>8. PICK v \in users' : v.id = who[r] /\ v.email = w.email
    BY ZenonT(60), <2>2, <2>3, <2>5
  <2>9. pc'[r] = "session" /\ in' = in /\ granted' = granted /\ who'[r] = who[r]
    BY <1>1, <2>1 DEF TypeOK, Turn
  <2>10. Earned(r, v)'
    BY <1>1, <2>6, <2>8, <2>9 DEF Earned, ClaimOf
  <2>11. Proved(r)'
    BY <1>1, <2>9 DEF Proved, ClaimOf, Verified
  <2>12. Facts(r)'
    <3> HIDE DEF f
    <3> QED BY ONLY <1>1, <2>8, <2>9, <2>10, <2>11 DEF Facts
  <2>13. QED
    <3> HIDE DEF f
    <3> QED BY <1>1, <1>4, <2>1, <2>2, <2>3, <2>4, <2>7, <2>12, RenewKeeps DEF Label
<1>5. QED
  BY <1>3, <1>4 DEF Link

LEMMA SetPasswordKeeps ==
  ASSUME IInv, NEW r \in Request, SetPassword(r)
  PROVE  IInv'
<1> DEFINE f == [u \in users |->
                   IF u.id = who[r] THEN [u EXCEPT !.password = in[r].password] ELSE u]
<1>1. TypeOK /\ JarHome /\ Facts(r) /\ pc[r] = "password"
  BY DEF IInv, CookiesHome, SetPassword, At
<1>2. Turn(r, "done")
  BY <1>1, OwnCookies, AnswersTurns DEF SetPassword, Answer
<1>3. UNCHANGED <<sessions, seeded, opened, spent, who, draft>>
  BY DEF SetPassword, local
<1>4. in[r].password \in Password
  BY <1>1 DEF TypeOK, Input
<1>5. ASSUME NEW u \in users
      PROVE  /\ f[u] \in Row
             /\ f[u].id = u.id /\ f[u].email = u.email /\ f[u].admin = u.admin
             /\ f[u].sub = u.sub
  <2>1. u \in Row
    BY <1>1 DEF TypeOK
  <2>2. QED
    BY <1>4, <2>1 DEF Row
<1>6. f \in [users -> Row] /\ users' = {f[u] : u \in users}
  BY <1>5 DEF SetPassword
<1>7. ASSUME NEW u \in users, NEW p \in Provider, f[u].sub[p] # NULL
      PROVE  Vouched(p, f[u].sub[p], u.email)
  BY <1>5, <1>7 DEF IInv, People, AccountsVouched
<1>8. Facts(r)'
  BY <1>1, <1>2, DoneFacts
<1>9. QED
  <2> HIDE DEF f
  <2> QED BY <1>1, <1>2, <1>3, <1>5, <1>6, <1>7, <1>8, RenewKeeps DEF Label

-----------------------------------------------------------------------------
(* The commit of a new user. *)

LEMMA CommitUserKeeps ==
  ASSUME IInv, NEW r \in Request, CommitUser(r)
  PROVE  IInv'
<1> DEFINE l == IF in[r].op = "seed" THEN "done" ELSE "session"
<1>1. /\ TypeOK /\ JarHome /\ Facts(r) /\ pc[r] = "commit" /\ DraftFit(r)
      /\ in[r].op = "callback" => granted[in[r].flow] # NULL /\ Proved(r)
  BY DEF IInv, CookiesHome, CommitUser, Facts
<1>2. /\ users' = users \cup {draft[r]} /\ seeded' = seeded \cup {r}
      /\ opened' = opened \ {r} /\ who' = [who EXCEPT ![r] = r]
      /\ UNCHANGED <<sessions, spent, draft>>
  BY DEF CommitUser
<1>3. Turn(r, l)
  <2>1. CASE in[r].op = "seed"
    BY <1>1, <2>1, OwnCookies, AnswersTurns DEF CommitUser, Answer
  <2>2. CASE in[r].op # "seed"
    BY <1>1, <2>2, GotoTurns DEF CommitUser
  <2>3. QED
    BY <2>1, <2>2
<1>4. /\ pc' = [pc EXCEPT ![r] = l] /\ in' = in /\ granted' = granted /\ now' = now
      /\ sent' = sent /\ l \in {"session", "done"}
  BY <1>3 DEF Turn
<1>5. draft[r] \in Row /\ draft[r].id = r /\ r \in Id
  BY <1>1 DEF DraftFit, Id
<1>6. TypeOK'
  BY <1>1, <1>2, <1>3, <1>4, <1>5 DEF TypeOK, Turn, Label
<1>7. Grows
  BY <1>2, <1>4 DEF Grows
<1>8. \A u \in users : u.id # r
  BY <1>1 DEF IInv, People, Fresh
<1>9. People'
  <2>1. AccountsVouched'
    BY <1>1, <1>2 DEF IInv, People, AccountsVouched, DraftFit
  <2>2. UniqueIds'
    BY <1>2, <1>5, <1>8 DEF IInv, People, UniqueIds
  <2>3. Fresh'
    BY <1>1, <1>2, <1>4, <1>5 DEF IInv, People, Fresh, TypeOK
  <2>4. DefaultsWithUser'
    BY <1>2, <1>5 DEF IInv, People, DefaultsWithUser, Ids
  <2>5. ClosedInstance'
    BY <1>1, <1>2, <1>4, <1>5 DEF IInv, People, ClosedInstance, DraftFit
  <2>6. StaysClosed'
    BY <1>2 DEF IInv, People, StaysClosed
  <2>7. IsFiniteSet(users')
    BY <1>2, FS_AddElement DEF IInv, People
  <2>8. QED
    BY <2>1, <2>2, <2>3, <2>4, <2>5, <2>6, <2>7 DEF People
<1>10. Tokens'
  <2>1. TokensSpent'
    BY <1>1, <1>2, <1>4 DEF IInv, TypeOK, Session, Tokens, TokensSpent
  <2>2. FlowStaysHome'
    BY <1>2, <1>4 DEF IInv, Tokens, FlowStaysHome
  <2>3. SessionsEarned'
    BY <1>2, <1>4 DEF IInv, Tokens, SessionsEarned, ClaimOf
  <2>4. QED
    BY <2>1, <2>2, <2>3 DEF Tokens
<1>11. CookiesHome'
  BY <1>3, CookiesStay
<1>12. Facts(r)'
  <2>1. who'[r] = r /\ pc'[r] = l
    BY <1>1, <1>2, <1>4 DEF TypeOK
  <2>2. ASSUME in[r].op = "callback" PROVE Proved(r)'
    BY <1>1, <1>4, <2>2 DEF Proved, ClaimOf, Verified
  <2>3. ASSUME in[r].op # "seed"
        PROVE  \E u \in users' : u.id = who'[r] /\ Earned(r, u)'
    <3>1. in[r].op = "callback" /\ Earned(r, draft[r])
      BY <1>1, <2>3 DEF DraftFit
    <3>2. PICK v \in users' : v = draft[r]
      BY <1>2
    <3>3. Earned(r, v)'
      BY <1>4, <3>1, <3>2 DEF Earned, ClaimOf
    <3>4. QED
      BY <1>5, <2>1, <3>2, <3>3
  <2>4. CASE in[r].op = "seed"
    BY ONLY <1>1, <1>4, <2>1, <2>4 DEF Facts
  <2>5. CASE in[r].op # "seed"
    <3>1. pc'[r] = "session" /\ in[r].op = "callback"
      BY <1>1, <2>1, <2>5 DEF DraftFit
    <3>2. QED
      BY ONLY <1>1, <1>4, <2>2, <2>3, <2>5, <3>1 DEF Facts
  <2>6. QED
    BY <2>4, <2>5
<1>13. \A q \in Request : Facts(q)'
  <2>1. \A q \in Request : q # r => who'[q] = who[q] /\ draft'[q] = draft[q]
    BY <1>1, <1>2 DEF TypeOK
  <2>2. QED
    BY <1>4, <1>7, <1>12, <2>1, OthersFacts
<1>14. QED
  BY <1>6, <1>9, <1>10, <1>11, <1>13 DEF IInv

-----------------------------------------------------------------------------
(* Sessions come and go. *)

LEMMA SignInKeeps ==
  ASSUME IInv, NEW r \in Request, SignIn(r)
  PROVE  IInv'
<1> DEFINE t == [token |-> r, user |-> who[r], expires |-> now + TTL]
<1>1. TypeOK /\ JarHome /\ Facts(r) /\ pc[r] = "session"
  BY DEF IInv, CookiesHome, SignIn
<1>2. /\ sessions' = sessions \cup {t}
      /\ UNCHANGED <<users, seeded, opened, spent, who, draft>>
  BY DEF SignIn, local
<1>3. Turn(r, "done")
  <2>1. Cleared(r) \in Cookies /\ Home(in[r].browser, Cleared(r))
    BY <1>1, OwnCookies
  <2>2. /\ [Cleared(r) EXCEPT !.session = r] \in Cookies
        /\ Home(in[r].browser, [Cleared(r) EXCEPT !.session = r])
    BY <2>1, CookieEdits
  <2>3. QED
    BY <1>1, <2>2, AnswersTurns DEF SignIn, Answer
<1>4. /\ pc' = [pc EXCEPT ![r] = "done"] /\ in' = in /\ granted' = granted /\ now' = now
      /\ sent' = sent
  BY <1>3 DEF Turn
<1>5. PICK u \in users : u.id = who[r] /\ Earned(r, u)
  BY <1>1 DEF Facts
<1>6. t \in Session
  <2>1. who[r] \in Id
    BY <1>1, <1>5 DEF TypeOK, Row
  <2>2. now + TTL \in Nat
    BY <1>1, AuthAssumption DEF TypeOK
  <2>3. QED
    BY <2>1, <2>2 DEF Session
<1>7. TypeOK'
  BY <1>1, <1>2, <1>3, <1>4, <1>6 DEF TypeOK, Turn, Label
<1>8. People'
  <2>1. Fresh'
    BY <1>1, <1>2, <1>4 DEF IInv, TypeOK, People, Fresh
  <2>2. QED
    BY <1>2, <1>4, <2>1 DEF IInv, People, AccountsVouched, UniqueIds, DefaultsWithUser,
                            ClosedInstance, StaysClosed
<1>9. Tokens'
  <2>1. TokensSpent'
    BY <1>1, <1>2, <1>4 DEF IInv, TypeOK, Session, Tokens, TokensSpent
  <2>2. FlowStaysHome'
    <3>1. in[r].op = "callback" => in[in[r].flow].browser = in[r].browser
      BY <1>1 DEF Facts, Proved
    <3>2. QED
      BY <1>2, <1>4, <3>1 DEF IInv, Tokens, FlowStaysHome
  <2>3. SessionsEarned'
    <3>1. \A s \in sessions' : s \in sessions \/ (s.token = r /\ s.user = who[r])
      BY <1>2
    <3>2. QED
      BY <1>2, <1>4, <1>5, <3>1 DEF IInv, Tokens, SessionsEarned, Earned, ClaimOf
  <2>4. QED
    BY <2>1, <2>2, <2>3 DEF Tokens
<1>10. CookiesHome'
  BY <1>3, CookiesStay
<1>11. \A q \in Request : Facts(q)'
  <2>1. Facts(r)'
    BY <1>1, <1>3, DoneFacts
  <2>2. QED
    BY <1>2, <1>4, <2>1, OthersFacts DEF Grows
<1>12. QED
  BY <1>7, <1>8, <1>9, <1>10, <1>11 DEF IInv

LEMMA LogoutKeeps ==
  ASSUME IInv, NEW r \in Request, Logout(r)
  PROVE  IInv'
<1>1. TypeOK /\ JarHome /\ Facts(r) /\ pc[r] = "start"
  BY DEF IInv, CookiesHome, Logout, At
<1>2. /\ sessions' \subseteq sessions
      /\ UNCHANGED <<users, seeded, opened, spent, who, draft>>
  BY DEF Logout, local
<1>3. Turn(r, "done")
  <2>1. Held(r) \in Cookies /\ Home(in[r].browser, Held(r))
    BY <1>1, OwnCookies
  <2>2. /\ [Held(r) EXCEPT !.session = NULL] \in Cookies
        /\ Home(in[r].browser, [Held(r) EXCEPT !.session = NULL])
    BY <2>1, CookieEdits
  <2>3. QED
    BY <1>1, <2>2, AnswersTurns DEF Logout, Answer
<1>4. /\ pc' = [pc EXCEPT ![r] = "done"] /\ in' = in /\ granted' = granted /\ now' = now
      /\ sent' = sent
  BY <1>3 DEF Turn
<1>5. TypeOK'
  BY <1>1, <1>2, <1>3, <1>4 DEF TypeOK, Turn, Label
<1>6. People'
  <2>1. Fresh'
    BY <1>1, <1>2, <1>4 DEF IInv, TypeOK, People, Fresh
  <2>2. QED
    BY <1>2, <1>4, <2>1 DEF IInv, People, AccountsVouched, UniqueIds, DefaultsWithUser,
                            ClosedInstance, StaysClosed
<1>7. Tokens'
  <2>1. TokensSpent'
    BY <1>1, <1>2, <1>4 DEF IInv, TypeOK, Session, Tokens, TokensSpent
  <2>2. FlowStaysHome' /\ SessionsEarned'
    BY <1>2, <1>4 DEF IInv, Tokens, FlowStaysHome, SessionsEarned, ClaimOf
  <2>3. QED
    BY <2>1, <2>2 DEF Tokens
<1>8. CookiesHome'
  BY <1>3, CookiesStay
<1>9. \A q \in Request : Facts(q)'
  <2>1. Facts(r)'
    BY <1>1, <1>3, DoneFacts
  <2>2. QED
    BY <1>2, <1>4, <2>1, OthersFacts DEF Grows
<1>10. QED
  BY <1>5, <1>6, <1>7, <1>8, <1>9 DEF IInv

-----------------------------------------------------------------------------
(* The environment, the collector, and the specification. *)

(* Steps in which no handler moves and no user changes. *)
LEMMA ElsewhereKeeps ==
  ASSUME IInv, TypeOK', UNCHANGED <<users, seeded, in, pc, who, draft, granted>>,
         sessions' \subseteq sessions, UNCHANGED <<jar, sent>>
  PROVE  IInv'
<1> USE DEF IInv
<1>1. People'
  BY DEF People, AccountsVouched, UniqueIds, Fresh, DefaultsWithUser, ClosedInstance, StaysClosed
<1>2. Tokens'
  BY DEF Tokens, SessionsEarned, FlowStaysHome, TokensSpent, ClaimOf
<1>3. CookiesHome'
  BY DEF CookiesHome, JarHome, SentHome, GrantedOwn, Home
<1>4. \A q \in Request : Facts(q)'
  BY FactsStay DEF Grows
<1>5. QED
  BY <1>1, <1>2, <1>3, <1>4

LEMMA TickCollectKeep ==
  ASSUME IInv, Tick \/ Collect \/ UNCHANGED vars
  PROVE  IInv'
<1>1. TypeOK
  BY DEF IInv
<1>2. CASE Tick
  <2>1. TypeOK'
    BY <1>1, <1>2, AuthAssumption DEF TypeOK, Tick, tables, idp, local
  <2>2. QED
    BY <1>2, <2>1, ElsewhereKeeps DEF Tick, tables, idp, local
<1>3. CASE Collect
  <2>1. TypeOK'
    BY <1>1, <1>3 DEF TypeOK, Collect, idp, local
  <2>2. QED
    BY <1>3, <2>1, ElsewhereKeeps DEF Collect, idp, local
<1>4. CASE UNCHANGED vars
  <2>1. TypeOK'
    BY <1>1, <1>4 DEF TypeOK, vars, tables, idp, local
  <2>2. QED
    BY <1>4, <2>1, ElsewhereKeeps DEF vars, tables, idp, local
<1>5. QED
  BY <1>2, <1>3, <1>4

LEMMA SendKeeps ==
  ASSUME IInv, NEW r \in Request, Send(r)
  PROVE  IInv'
<1>1. TypeOK /\ Facts(r) /\ pc[r] = "idle" /\ in[r].browser \in Browser
  BY DEF IInv, Send, TypeOK, Input
<1>2. /\ pc' = [pc EXCEPT ![r] = "start"] /\ sent' = [sent EXCEPT ![r] = jar[in[r].browser]]
      /\ UNCHANGED <<users, sessions, seeded, opened, now, jar, granted, spent, in, resp,
                     who, draft>>
      /\ in[r].op = "callback" => granted[in[r].flow] # NULL
  BY DEF Send, tables, idp, local
<1>3. TypeOK'
  BY <1>1, <1>2 DEF TypeOK, Label
<1>4. People'
  <2>1. Fresh'
    BY <1>1, <1>2 DEF IInv, TypeOK, People, Fresh
  <2>2. QED
    BY <1>2, <2>1 DEF IInv, People, AccountsVouched, UniqueIds, DefaultsWithUser,
                      ClosedInstance, StaysClosed
<1>5. Tokens'
  <2>1. TokensSpent'
    BY <1>1, <1>2 DEF IInv, TypeOK, Session, Tokens, TokensSpent
  <2>2. FlowStaysHome' /\ SessionsEarned'
    BY <1>2 DEF IInv, Tokens, FlowStaysHome, SessionsEarned, ClaimOf
  <2>3. QED
    BY <2>1, <2>2 DEF Tokens
<1>6. CookiesHome'
  <2>1. ASSUME NEW q \in Request PROVE Home(in[q].browser, sent[q])'
    <3>1. CASE q = r
      BY <1>1, <1>2, <3>1 DEF IInv, CookiesHome, JarHome, Home, TypeOK
    <3>2. CASE q # r
      BY <1>1, <1>2, <3>2 DEF IInv, CookiesHome, SentHome, Home, TypeOK
    <3>3. QED
      BY <3>1, <3>2
  <2>2. SentHome'
    BY <2>1 DEF SentHome
  <2>3. QED
    BY <1>2, <2>2 DEF IInv, CookiesHome, JarHome, GrantedOwn, Home
<1>7. \A q \in Request : Facts(q)'
  <2>1. pc'[r] = "start" /\ in' = in /\ granted' = granted
    BY <1>1, <1>2 DEF TypeOK
  <2>2. Facts(r)'
    BY ONLY <1>2, <2>1 DEF Facts
  <2>3. QED
    BY <1>2, <2>2, OthersFacts DEF Grows
<1>8. QED
  BY <1>3, <1>4, <1>5, <1>6, <1>7 DEF IInv

LEMMA AuthorizeKeeps ==
  ASSUME IInv, NEW f \in Request, Authorize(f)
  PROVE  IInv'
<1>1. TypeOK
  BY DEF IInv
<1>2. PICK c \in {x \in Claims : x.provider = in[f].provider} \cup {Declined} :
        granted' = [granted EXCEPT ![f] = c]
  BY DEF Authorize
<1>3. /\ UNCHANGED <<users, sessions, seeded, opened, now, jar, spent, in, pc, resp, sent,
                     who, draft>>
      /\ granted[f] = NULL
  BY DEF Authorize, tables, local
<1>4. TypeOK'
  BY <1>1, <1>2, <1>3 DEF TypeOK
<1>5. Grows
  BY <1>1, <1>2, <1>3 DEF Grows, TypeOK
<1>6. People'
  BY <1>3 DEF IInv, People, AccountsVouched, UniqueIds, Fresh, DefaultsWithUser,
              ClosedInstance, StaysClosed
<1>7. Tokens'
  <2>1. FlowStaysHome' /\ TokensSpent'
    BY <1>3 DEF IInv, Tokens, FlowStaysHome, TokensSpent
  <2>2. SessionsEarned'
    <3>1. SUFFICES ASSUME NEW s \in sessions
                   PROVE  \E u \in users : u.id = s.user /\ Earned(s.token, u)'
      BY <1>3 DEF SessionsEarned, Earned
    <3>2. PICK u \in users : u.id = s.user /\ Earned(s.token, u)
      BY DEF IInv, Tokens, SessionsEarned, Earned
    <3>3. s.token \in Request /\ pc[s.token] = "done"
      BY <1>1 DEF TypeOK, Session, IInv, Tokens, TokensSpent
    <3>4. in[s.token].op = "callback" => granted[in[s.token].flow] # NULL
      BY <3>3 DEF IInv, Facts
    <3>5. Earned(s.token, u)'
      BY <1>1, <1>5, <3>2, <3>3, <3>4, EarnedStays
    <3>6. QED
      BY <3>2, <3>5
  <2>3. QED
    BY <2>1, <2>2 DEF Tokens
<1>8. CookiesHome'
  <2>1. GrantedOwn'
    BY <1>1, <1>2, <1>3, AuthAssumption DEF IInv, CookiesHome, GrantedOwn, TypeOK
  <2>2. QED
    BY <1>3, <2>1 DEF IInv, CookiesHome, JarHome, SentHome, Home
<1>9. \A q \in Request : Facts(q)'
  BY <1>1, <1>3, <1>5, FactsStay DEF IInv
<1>10. QED
  BY <1>4, <1>6, <1>7, <1>8, <1>9 DEF IInv

LEMMA InitIInv == Init => IInv
<1> SUFFICES ASSUME Init PROVE IInv
  OBVIOUS
<1>1. InitialUsers \subseteq Row /\ IsFiniteSet(InitialUsers)
  BY InitialUsersAssumption
<1>2. TypeOK
  <2>1. Ids(InitialUsers) \subseteq Id
    BY <1>1 DEF Ids, Row
  <2>2. NoCookies \in Cookies
    BY DEF NoCookies, Cookies
  <2>3. in \in [Request -> Input] /\ now \in 0..MaxTime
    BY AuthAssumption DEF Init
  <2>4. QED
    BY <1>1, <2>1, <2>2, <2>3 DEF Init, TypeOK, Label, Answer
<1>3. People
  <2>1. \A u \in users : u.id \notin Request
    BY InitialUsersAssumption, AuthAssumption DEF Init
  <2>2. AccountsVouched /\ UniqueIds
    BY InitialUsersAssumption DEF Init, AccountsVouched, UniqueIds
  <2>3. QED
    BY <1>1, <2>1, <2>2 DEF Init, People, Fresh, DefaultsWithUser, ClosedInstance, StaysClosed
<1>4. Tokens
  BY DEF Init, Tokens, SessionsEarned, FlowStaysHome, TokensSpent
<1>5. CookiesHome
  <2>1. \A b : Home(b, NoCookies)
    BY DEF Home, NoCookies
  <2>2. GrantedOwn
    BY AuthAssumption DEF Init, GrantedOwn
  <2>3. QED
    BY <1>2, <2>1, <2>2 DEF Init, CookiesHome, JarHome, SentHome
<1>6. \A r \in Request : Facts(r)
  <2>1. \A r \in Request : pc[r] = "idle"
    BY DEF Init
  <2>2. QED
    BY ONLY <2>1 DEF Facts
<1>7. QED
  BY <1>2, <1>3, <1>4, <1>5, <1>6 DEF IInv

LEMMA NextIInv == IInv /\ [Next]_vars => IInv'
<1> SUFFICES ASSUME IInv, [Next]_vars PROVE IInv'
  OBVIOUS
<1>1. ASSUME NEW r \in Request, Handle(r) PROVE IInv'
  <2>1. CASE SSOStart(r) \/ Exchange(r) \/ FindSubject(r) \/ FindEmail(r) \/ Link(r)
    BY <2>1, SSOStartKeeps, ExchangeKeeps, FindSubjectKeeps, FindEmailKeeps, LinkKeeps
  <2>2. CASE Count(r) \/ InsertUser(r) \/ SeedDefaultCategories(r) \/ CommitUser(r)
    BY <2>2, CountKeeps, InsertUserKeeps, SeedDefaultCategoriesKeeps, CommitUserKeeps
  <2>3. CASE SignIn(r) \/ Login(r) \/ Logout(r) \/ Resolve(r)
    BY <2>3, SignInKeeps, LoginKeeps, LogoutKeeps, ResolveKeeps
  <2>4. CASE SeedLookup(r) \/ SetPassword(r)
    BY <2>4, SeedLookupKeeps, SetPasswordKeeps
  <2>5. QED
    BY <1>1, <2>1, <2>2, <2>3, <2>4 DEF Handle
<1>2. ASSUME NEW r \in Request, Send(r) \/ Authorize(r) \/ Abort(r) PROVE IInv'
  BY <1>2, SendKeeps, AuthorizeKeeps, AbortKeeps
<1>3. CASE Tick \/ Collect \/ UNCHANGED vars
  BY <1>3, TickCollectKeep
<1>4. QED
  BY <1>1, <1>2, <1>3 DEF Next, Idle

LEMMA Invariance == Spec => []IInv
BY InitIInv, NextIInv, PTL DEF Spec

(* Every variable of the authentication keeps its type, for any requests,   *)
(* claims, scripts and users there are at the start.                        *)
THEOREM TypeCorrect == Spec => []TypeOK
<1>1. IInv => TypeOK
  BY DEF IInv
<1>2. QED
  BY <1>1, Invariance, PTL

(* An account answers only to subjects its provider vouched for: the links  *)
(* and sign-ups of upsertGoogleUser and upsertOIDCUser, however many at     *)
(* once.                                                                    *)
THEOREM AccountsStayVouched == Spec => []AccountsVouched
<1>1. IInv => AccountsVouched
  BY DEF IInv, People
<1>2. QED
  BY <1>1, Invariance, PTL

(* Every session is for an account that its sign-in proved, whatever other  *)
(* sign-ins did between the lookup and signIn.                              *)
THEOREM SessionsStayEarned == Spec => []SessionsEarned
<1>1. IInv => SessionsEarned
  BY DEF IInv, Tokens
<1>2. QED
  BY <1>1, Invariance, PTL

(* handleSSOCallback signs a browser in through a flow of its own only.     *)
THEOREM FlowsStayHome == Spec => []FlowStaysHome
<1>1. IInv => FlowStaysHome
  BY DEF IInv, Tokens
<1>2. QED
  BY <1>1, Invariance, PTL

(* An instance that has users registers allowed emails only, and nobody as  *)
(* an admin, through sign-in.                                               *)
THEOREM InstanceStaysClosed == Spec => []ClosedInstance
<1>1. IInv => ClosedInstance
  BY DEF IInv, People
<1>2. QED
  BY <1>1, Invariance, PTL

(* Users.Create leaves a user and the default categories, or neither.       *)
THEOREM DefaultsComeWithUser == Spec => []DefaultsWithUser
<1>1. IInv => DefaultsWithUser
  BY DEF IInv, People
<1>2. QED
  BY <1>1, Invariance, PTL

-----------------------------------------------------------------------------
(***************************************************************************)
(* Sessions over time: one that was deleted lets nobody through any more,  *)
(* and whose subject has an account loses it to rivals only.  Both rest    *)
(* on what a cookie tells: the request that drew the token in it is done,  *)
(* so that no session with it is still to begin.                           *)
(***************************************************************************)

(* What any step does to cookies, sessions and answers. *)

(* The token is one of a request that is done. *)
Drawn(token) == token # NULL => pc[token] = "done"

TokensDrawn ==
  /\ \A b \in Browser : Drawn(jar[b].session)
  /\ \A r \in Request : Drawn(sent[r].session)

(* The session cookies after a step are those before, or none, or the new  *)
(* session's.                                                              *)
JarMoves(r) ==
  \A b \in Browser :
    \/ jar'[b].session \in {jar[b].session, NULL}
    \/ jar'[b].session = r /\ pc[r] = "session" /\ pc'[r] = "done"

(* A request moves on and answers; nobody else does. *)
Moves(r) ==
  /\ in' = in /\ sent' = sent /\ granted' = granted
  /\ pc[r] \notin {"idle", "done"} /\ pc'[r] # "idle"
  /\ \A q \in Request \ {r} : pc'[q] = pc[q] /\ resp'[q] = resp[q]
  /\ JarMoves(r)
  /\ \A s \in sessions' \ sessions : s.token = r /\ pc[r] = "session"

(* What r's cookies become, whichever action answers. *)
LEMMA KeptCookies ==
  ASSUME TypeOK, NEW r \in Request
  PROVE  /\ in[r].browser \in Browser
         /\ Held(r).session = jar[in[r].browser].session
         /\ Cleared(r).session = jar[in[r].browser].session
         /\ \A p \in Provider : \A f : [Held(r) EXCEPT !.flow[p] = f].session = Held(r).session
         /\ \A t : [Held(r) EXCEPT !.session = t].session = t
         /\ \A t : [Cleared(r) EXCEPT !.session = t].session = t
<1>1. in[r].browser \in Browser
  BY DEF TypeOK, Input
<1>2. Held(r) \in Cookies
  BY <1>1 DEF TypeOK, Held
<1>3. Cleared(r) \in Cookies /\ Cleared(r).session = Held(r).session
  BY <1>2 DEF Cleared, Cookies, TypeOK, Input
<1>4. QED
  BY <1>1, <1>2, <1>3 DEF Cookies, Held

LEMMA AnswersMove ==
  ASSUME TypeOK, NEW r \in Request, pc[r] \notin {"idle", "done"}, NEW a, NEW c,
         Answers(r, a, c),
         \/ c.session \in {jar[in[r].browser].session, NULL}
         \/ c.session = r /\ pc[r] = "session",
         \A s \in sessions' \ sessions : s.token = r /\ pc[r] = "session"
  PROVE  Moves(r) /\ pc'[r] = "done" /\ resp'[r] = a
<1>1. /\ pc' = [pc EXCEPT ![r] = "done"] /\ resp' = [resp EXCEPT ![r] = a]
      /\ in' = in /\ sent' = sent /\ granted' = granted
  BY DEF Answers
<1>2. pc'[r] = "done" /\ resp'[r] = a
      /\ \A q \in Request \ {r} : pc'[q] = pc[q] /\ resp'[q] = resp[q]
  BY <1>1 DEF TypeOK
<1>3. JarMoves(r)
  BY <1>2 DEF Answers, JarMoves, TypeOK
<1>4. QED
  BY <1>1, <1>2, <1>3 DEF Moves

LEMMA GotoMoves ==
  ASSUME TypeOK, NEW r \in Request, pc[r] \notin {"idle", "done"}, NEW l, l # "idle", Goto(r, l),
         sessions' = sessions
  PROVE  Moves(r) /\ pc'[r] = l /\ resp'[r] = resp[r]
BY DEF Goto, TypeOK, Moves, JarMoves

LEMMA RefuseMoves ==
  ASSUME TypeOK, NEW r \in Request, pc[r] \notin {"idle", "done"}, NEW a, Refuse(r, a)
  PROVE  Moves(r) /\ pc'[r] = "done" /\ resp'[r] = a /\ users' = users
BY AnswersMove, KeptCookies DEF Refuse, tables

-----------------------------------------------------------------------------
(* Each handler, action by action: how it moves, and which answers it has   *)
(* that the two properties are about.                                       *)

Quietly(r) ==
  /\ Moves(r)
  /\ resp'[r] = "no_content" => resp[r] = "no_content"
  /\ resp'[r] = "ok" => resp[r] = "ok" \/ in[r].op # "api"

LEMMA FlowsMove ==
  ASSUME IInv, NEW r \in Request, SSOStart(r) \/ Exchange(r) \/ FindSubject(r) \/ FindEmail(r)
  PROVE  Quietly(r)
<1> USE DEF Quietly, At, tables
<1>0. TypeOK
  BY DEF IInv
<1>1. CASE SSOStart(r)
  <2>1. in[r].provider \in Provider /\ pc[r] = "start" /\ sessions' = sessions
    BY <1>0, <1>1 DEF SSOStart, TypeOK, Input
  <2> DEFINE c == [Held(r) EXCEPT !.flow[in[r].provider] = r]
  <2>2. c.session = jar[in[r].browser].session
    BY <1>0, <2>1, KeptCookies
  <2>3. Answers(r, "redirect", c)
    BY <1>1 DEF SSOStart
  <2> HIDE DEF c
  <2>4. QED
    BY <1>0, <2>1, <2>2, <2>3, AnswersMove
<1>2. CASE Exchange(r)
  BY <1>0, <1>2, AnswersMove, GotoMoves, RefuseMoves, KeptCookies DEF Exchange
<1>3. CASE FindSubject(r)
  BY <1>0, <1>3, GotoMoves DEF FindSubject
<1>4. CASE FindEmail(r)
  BY <1>0, <1>4, GotoMoves DEF FindEmail
<1>5. QED
  BY <1>1, <1>2, <1>3, <1>4

LEMMA SignUpsMove ==
  ASSUME IInv, NEW r \in Request,
         Link(r) \/ Count(r) \/ InsertUser(r) \/ SeedDefaultCategories(r) \/ CommitUser(r)
  PROVE  Quietly(r)
<1> USE DEF Quietly, At, tables
<1>0. TypeOK
  BY DEF IInv
<1>1. CASE Link(r)
  BY <1>0, <1>1, GotoMoves, RefuseMoves DEF Link
<1>2. CASE Count(r)
  BY <1>0, <1>2, GotoMoves, RefuseMoves DEF Count
<1>3. CASE InsertUser(r)
  BY <1>0, <1>3, GotoMoves, RefuseMoves DEF InsertUser
<1>4. CASE SeedDefaultCategories(r)
  BY <1>0, <1>4, GotoMoves DEF SeedDefaultCategories
<1>5. CASE CommitUser(r)
  BY <1>0, <1>5, GotoMoves, AnswersMove, KeptCookies DEF CommitUser
<1>6. QED
  BY <1>1, <1>2, <1>3, <1>4, <1>5

LEMMA OthersMove ==
  ASSUME IInv, NEW r \in Request,
         SignIn(r) \/ Login(r) \/ SeedLookup(r) \/ SetPassword(r) \/ Abort(r)
  PROVE  Quietly(r)
<1> USE DEF Quietly, At, tables
<1>0. TypeOK
  BY DEF IInv
<1>1. CASE SignIn(r)
  <2>1. \A s \in sessions' \ sessions : s.token = r
    BY <1>1 DEF SignIn
  <2> DEFINE c == [Cleared(r) EXCEPT !.session = r]
  <2>2. c.session = r /\ Answers(r, "signed_in", c) /\ pc[r] = "session"
    BY <1>0, <1>1, KeptCookies DEF SignIn
  <2> HIDE DEF c
  <2>3. QED
    BY <1>0, <2>1, <2>2, AnswersMove
<1>2. CASE Login(r)
  BY <1>0, <1>2, GotoMoves, RefuseMoves DEF Login
<1>3. CASE SeedLookup(r)
  BY <1>0, <1>3, GotoMoves DEF SeedLookup
<1>4. CASE SetPassword(r)
  BY <1>0, <1>4, AnswersMove, KeptCookies DEF SetPassword
<1>5. CASE Abort(r)
  BY <1>0, <1>5, AnswersMove, KeptCookies DEF Abort
<1>6. QED
  BY <1>1, <1>2, <1>3, <1>4, <1>5

LEMMA LogoutMoves ==
  ASSUME IInv, NEW r \in Request, Logout(r)
  PROVE  /\ Moves(r) /\ pc'[r] = "done" /\ resp'[r] \in {"no_content", "cookie_cleared"}
         /\ sessions' \subseteq sessions
         /\ resp'[r] = "no_content" => \A s \in sessions' : s.token # sent[r].session
<1>1. TypeOK /\ pc[r] = "start" /\ sessions' \subseteq sessions
  BY DEF IInv, Logout, At
<1> DEFINE c == [Held(r) EXCEPT !.session = NULL]
<1>2. c.session = NULL
  BY <1>1, KeptCookies
<1>3. PICK a \in {"no_content", "cookie_cleared"} :
        /\ Answers(r, a, c)
        /\ a = "no_content" => \A s \in sessions' : s.token # sent[r].session
  BY DEF Logout
<1> HIDE DEF c
<1>4. QED
  BY <1>1, <1>2, <1>3, AnswersMove

LEMMA ResolveMoves ==
  ASSUME IInv, NEW r \in Request, Resolve(r)
  PROVE  /\ Moves(r) /\ sessions' = sessions
         /\ resp'[r] \in {"unauthenticated", "ok"}
         /\ resp'[r] = "ok" => Live(r) # {}
<1>1. TypeOK /\ pc[r] = "start" /\ in[r].op = "api" /\ sessions' = sessions
  BY DEF IInv, Resolve, At, Refuse, tables
<1>2. QED
  BY <1>1, AnswersMove, RefuseMoves, KeptCookies DEF Resolve

(* What moves a handler, in short. *)
LEMMA HandlersMove ==
  ASSUME IInv, NEW r \in Request, Handle(r) \/ Abort(r)
  PROVE  /\ Moves(r)
         /\ Quietly(r) \/ Logout(r) \/ Resolve(r)
BY FlowsMove, SignUpsMove, OthersMove, LogoutMoves, ResolveMoves DEF Handle, Quietly

(* The environment: a request is sent, or nothing that matters here moves. *)
Stays == UNCHANGED <<in, pc, resp, sent, jar>> /\ sessions' \subseteq sessions

LEMMA EnvironmentMoves ==
  ASSUME NEW r \in Request, Send(r) \/ Authorize(r) \/ Tick \/ Collect \/ UNCHANGED vars
  PROVE  \/ Stays
         \/ Send(r) /\ UNCHANGED <<sessions, jar, in, resp>>
BY DEF Send, Authorize, Tick, Collect, vars, tables, idp, local, Stays

-----------------------------------------------------------------------------
(* Sessions that were ended. *)

(* Once a logout has deleted its session, the token opens nothing. *)
Ended(q) ==
  in[q].op = "logout" /\ resp[q] = "no_content" =>
    pc[q] = "done" /\ \A s \in sessions : s.token # sent[q].session

Unsent(q) == pc[q] = "idle" => resp[q] = "none"

EInv == IInv /\ TokensDrawn /\ \A q \in Request : Ended(q) /\ Unsent(q)

LEMMA DrawnStays ==
  ASSUME IInv, NEW r \in Request, Moves(r), NEW t \in Request \cup {NULL}, Drawn(t)
  PROVE  t # NULL => pc'[t] = "done"
BY DEF Moves, Drawn

LEMMA MovesKeepTokens ==
  ASSUME IInv, IInv', TokensDrawn, NEW r \in Request, Moves(r)
  PROVE  TokensDrawn'
<1>1. ASSUME NEW b \in Browser PROVE Drawn(jar[b].session)'
  <2>1. CASE jar'[b].session = NULL
    BY <2>1 DEF Drawn
  <2>2. CASE jar'[b].session = jar[b].session
    <3>1. Drawn(jar[b].session) /\ jar[b].session \in Request \cup {NULL}
      BY DEF TokensDrawn, IInv, TypeOK, Cookies
    <3>2. QED
      BY <2>2, <3>1, DrawnStays DEF Drawn
  <2>3. CASE jar'[b].session = r /\ pc'[r] = "done"
    BY <2>3 DEF Drawn
  <2>4. QED
    BY <2>1, <2>2, <2>3 DEF Moves, JarMoves
<1>2. ASSUME NEW q \in Request PROVE Drawn(sent[q].session)'
  <2>1. Drawn(sent[q].session) /\ sent' = sent /\ sent[q].session \in Request \cup {NULL}
    BY DEF TokensDrawn, Moves, IInv, TypeOK, Cookies
  <2>2. QED
    BY <2>1, DrawnStays DEF Drawn
<1>3. QED
  BY <1>1, <1>2 DEF TokensDrawn

LEMMA SendKeepsTokens ==
  ASSUME IInv, TokensDrawn, NEW r \in Request, Send(r), jar' = jar
  PROVE  TokensDrawn'
<1>1. /\ pc[r] = "idle" /\ \A q \in Request : pc[q] = "done" => pc'[q] = "done"
      /\ sent' = [sent EXCEPT ![r] = jar[in[r].browser]]
      /\ in[r].browser \in Browser
  BY DEF Send, IInv, TypeOK, Input
<1>2. ASSUME NEW t \in Request \cup {NULL}, Drawn(t) PROVE Drawn(t)'
  BY <1>1, <1>2 DEF Drawn
<1>3. /\ \A b \in Browser : jar[b].session \in Request \cup {NULL}
      /\ \A q \in Request : sent[q].session \in Request \cup {NULL}
  BY DEF IInv, TypeOK, Cookies
<1>4. ASSUME NEW b \in Browser PROVE Drawn(jar[b].session)'
  BY <1>2, <1>3 DEF TokensDrawn, Drawn
<1>5. ASSUME NEW q \in Request PROVE Drawn(sent[q].session)'
  <2>1. sent'[q].session \in {sent[q].session, jar[in[r].browser].session}
    BY <1>1 DEF IInv, TypeOK
  <2>2. QED
    BY <1>1, <1>2, <1>3, <2>1 DEF TokensDrawn, Drawn
<1>6. QED
  BY <1>4, <1>5 DEF TokensDrawn

LEMMA MovesKeepEnded ==
  ASSUME EInv, NEW r \in Request, Handle(r) \/ Abort(r), NEW q \in Request
  PROVE  Ended(q)' /\ Unsent(q)'
<1>1. Moves(r) /\ (Quietly(r) \/ Logout(r) \/ Resolve(r))
  BY HandlersMove DEF EInv
<1>2. Unsent(q)'
  BY <1>1 DEF Moves, EInv, Unsent
<1>3. SUFFICES ASSUME in[q].op = "logout", resp'[q] = "no_content" PROVE Ended(q)'
  BY <1>1, <1>2 DEF Ended, Moves
<1>4. CASE resp[q] = "no_content"
  <2>1. pc[q] = "done" /\ \A s \in sessions : s.token # sent[q].session
    BY <1>3, <1>4 DEF EInv, Ended
  <2>2. \A s \in sessions' \ sessions : s.token # sent[q].session
    BY <1>1, ConstantsTyped DEF Moves, EInv, TokensDrawn, Drawn
  <2>3. QED
    BY <1>1, <2>1, <2>2 DEF Moves, Ended
<1>5. CASE resp[q] # "no_content"
  <2>1. q = r /\ Logout(r)
    BY <1>1, <1>3, <1>5, ResolveMoves DEF Moves, Quietly, EInv
  <2>2. QED
    BY <1>1, <1>3, <2>1, LogoutMoves DEF Moves, Ended, EInv
<1>6. QED
  BY <1>4, <1>5

LEMMA EInvariance == Spec => []EInv
<1>1. Init => EInv
  <2> SUFFICES ASSUME Init PROVE EInv
    OBVIOUS
  <2>2. TokensDrawn
    BY DEF Init, TokensDrawn, Drawn, NoCookies
  <2>3. QED
    BY <2>2, InitIInv DEF Init, EInv, Ended, Unsent
<1>2. EInv /\ [Next]_vars => EInv'
  <2> SUFFICES ASSUME EInv, [Next]_vars PROVE EInv'
    OBVIOUS
  <2>1. IInv'
    BY NextIInv DEF EInv
  <2>2. ASSUME NEW r \in Request, Handle(r) \/ Abort(r) PROVE EInv'
    <3>1. TokensDrawn'
      BY <2>1, <2>2, HandlersMove, MovesKeepTokens DEF EInv
    <3>2. QED
      BY <2>1, <2>2, <3>1, MovesKeepEnded DEF EInv
  <2>3. CASE Stays
    <3>1. TokensDrawn'
      BY <2>3 DEF Stays, EInv, TokensDrawn, Drawn
    <3>2. QED
      BY <2>1, <2>3, <3>1 DEF Stays, EInv, Ended, Unsent
  <2>4. ASSUME NEW r \in Request, Send(r), UNCHANGED <<sessions, jar, in, resp>> PROVE EInv'
    <3>1. TokensDrawn'
      BY <2>4, SendKeepsTokens DEF EInv
    <3>2. \A q \in Request \ {r} : pc'[q] = pc[q] /\ sent'[q] = sent[q]
      BY <2>4 DEF Send, EInv, IInv, TypeOK
    <3>3. resp[r] = "none" /\ pc'[r] = "start"
      BY <2>4 DEF Send, EInv, Unsent, IInv, TypeOK
    <3>4. QED
      BY <2>1, <2>4, <3>1, <3>2, <3>3 DEF EInv, Ended, Unsent
  <2>5. CASE Tick \/ Collect \/ UNCHANGED vars
    <3>1. Stays
      BY <2>5 DEF Tick, Collect, vars, tables, idp, local, Stays
    <3>2. QED
      BY <2>3, <3>1
  <2>6. QED
    BY <2>2, <2>3, <2>4, <2>5, EnvironmentMoves DEF Next, Idle
<1>3. QED
  BY <1>1, <1>2, PTL DEF Spec

(* A token whose logout was answered 204 lets a request through only if     *)
(* that logout's delete failed: whatever was under way in other tabs,       *)
(* whichever sign-ins finish later (auth.go, handleLogout; middleware.go,   *)
(* WithUser).                                                               *)
THEOREM LogoutEndsSessions == Spec => EndedServesNobody
<1>1. EInv /\ [Next]_vars =>
        (\A r, q \in Request :
           LetThrough(r) /\ LoggedOut(q) /\ sent[r].session = sent[q].session
             => resp[q] = "cookie_cleared")
  <2> SUFFICES ASSUME EInv, [Next]_vars, NEW r \in Request, NEW q \in Request,
                      in[r].op = "api", resp[r] # "ok", resp'[r] = "ok",
                      in[q].op = "logout", resp[q] = "no_content"
               PROVE  sent[r].session # sent[q].session
    BY DEF LetThrough, LoggedOut
  <2>2. PICK x \in Request : Handle(x) \/ Abort(x)
    BY EnvironmentMoves DEF Next, Idle, Stays
  <2>3. Moves(x) /\ (Quietly(x) \/ Logout(x) \/ Resolve(x)) /\ IInv
    BY <2>2, HandlersMove DEF EInv
  <2>4. x = r /\ Resolve(r)
    BY <2>3, LogoutMoves DEF Moves, Quietly
  <2>5. PICK s \in sessions : s.token = sent[r].session
    BY <2>3, <2>4, ResolveMoves DEF Live
  <2>6. s.token # sent[q].session
    BY DEF EInv, Ended
  <2>7. QED
    BY <2>5, <2>6
<1>2. QED
  BY <1>1, EInvariance, PTL DEF Spec, EndedServesNobody

-----------------------------------------------------------------------------
(* Who comes back.                                                         *)

(* The account answers to the subject, or a rival was led to it. *)
Kept(p, sub, id) ==
  \/ \E u \in users : u.id = id /\ u.sub[p] = sub
  \/ Rivalled(p, sub, id)

(* A callback about to begin a session, or that has begun one. *)
KnownIfCallback(q) ==
  q # NULL /\ in[q].op = "callback" =>
    /\ ClaimOf(q) \in Claims /\ who[q] \in Id
    /\ Kept(in[q].provider, ClaimOf(q).sub, who[q])

(* A callback that was led to an account has a claim, and is led once. *)
Led ==
  \A r \in Request :
    in[r].op = "callback" /\ who[r] # NULL =>
      pc[r] \in {"link", "session", "done"} /\ granted[in[r].flow] # NULL

FoundersKept ==
  \A u \in InitialUsers : \A p \in Provider : u.sub[p] # NULL => Kept(p, u.sub[p], u.id)

SubjectsKnown ==
  /\ Led /\ FoundersKept
  /\ \A b \in Browser : KnownIfCallback(jar[b].session)
  /\ \A r \in Request : KnownIfCallback(sent[r].session)
  /\ \A r \in Request : pc[r] = "session" => KnownIfCallback(r)
  /\ \A r \in Request : pc[r] \in {"insert", "defaults", "commit"} /\ in[r].op = "callback" =>
       draft[r].sub[in[r].provider] = ClaimOf(r).sub

(* Every account that r's subject had was a rival led to. *)
Stranger(r) ==
  \A id \in Id : Had(r, id) => Rivalled(in[r].provider, ClaimOf(r).sub, id)

Strangers ==
  \A r \in Request :
    /\ pc[r] = "count" \/ pc[r] = "email" => Stranger(r)
    /\ resp[r] = "not_allowed" =>
         Stranger(r) /\ pc[r] = "done" /\ granted[in[r].flow] # NULL

SInv == EInv /\ SubjectsKnown /\ Strangers

(* Accounts keep their subjects, but for rivals. *)
SubjectsKept ==
  \A u \in users : \A p \in Provider :
    \E v \in users' :
      /\ v.id = u.id
      /\ v.sub[p] = u.sub[p] \/ Rivalled(p, u.sub[p], u.id)'

(* Claims that were looked at, and accounts a callback was led to, stay. *)
TracksKept ==
  /\ in' = in
  /\ \A f \in Request : granted[f] # NULL => granted'[f] = granted[f]
  /\ \A r \in Request : in[r].op = "callback" /\ who[r] # NULL => who'[r] = who[r]

LEMMA LinkKeepsSubjects ==
  ASSUME IInv, NEW r \in Request, Link(r)
  PROVE  SubjectsKept
<1>1. /\ in[r].op = "callback" /\ TypeOK /\ in[r].provider \in Provider
      /\ in' = in /\ granted' = granted
  BY DEF IInv, Link, At, TypeOK, Input, Goto, Refuse, Answers
<1>2. SUFFICES ASSUME NEW u \in users, NEW p \in Provider
               PROVE  \E v \in users' :
                        /\ v.id = u.id
                        /\ v.sub[p] = u.sub[p] \/ Rivalled(p, u.sub[p], u.id)'
  BY DEF SubjectsKept
<1>3. CASE users' = users
  BY <1>3
<1>4. CASE /\ users' = {IF x.id = who[r] THEN [x EXCEPT !.sub[in[r].provider] = ClaimOf(r).sub]
                                         ELSE x : x \in users}
           /\ who' = who
  <2>1. CASE u.id # who[r]
    BY <1>4, <2>1
  <2>2. CASE u.id = who[r]
    <3> DEFINE v == [u EXCEPT !.sub[in[r].provider] = ClaimOf(r).sub]
    <3>1. v \in users'
      BY <1>4, <2>2
    <3>2. u \in Row
      BY <1>1 DEF TypeOK
    <3>3. v.id = u.id /\ (p # in[r].provider => v.sub[p] = u.sub[p])
      BY <1>1, <3>2 DEF Row
    <3>4. v.sub[in[r].provider] = ClaimOf(r).sub
      BY <1>1, <3>2 DEF Row
    <3> HIDE DEF v
    <3>5. CASE p = in[r].provider /\ u.sub[p] # ClaimOf(r).sub
      <4>1. Rivalled(p, u.sub[p], u.id)'
        BY <1>1, <1>4, <2>2, <3>5 DEF Rivalled, ClaimOf
      <4>2. QED
        BY <3>1, <3>3, <4>1
    <3>6. QED
      BY <3>1, <3>3, <3>4, <3>5
  <2>3. QED
    BY <2>1, <2>2
<1>5. QED
  BY <1>3, <1>4 DEF Link, Refuse, tables, local

LEMMA StepKeepsSubjects ==
  ASSUME IInv, [Next]_vars
  PROVE  SubjectsKept
<1>1. users \subseteq users' => SubjectsKept
  BY DEF SubjectsKept
<1>2. ASSUME NEW r \in Request, SetPassword(r) PROVE SubjectsKept
  <2>1. SUFFICES ASSUME NEW u \in users, NEW p \in Provider
                 PROVE  \E v \in users' : v.id = u.id /\ v.sub[p] = u.sub[p]
    BY DEF SubjectsKept
  <2>2. u \in Row
    BY DEF IInv, TypeOK
  <2>3. /\ [u EXCEPT !.password = in[r].password].sub = u.sub
        /\ [u EXCEPT !.password = in[r].password].id = u.id
    BY <2>2 DEF Row
  <2>4. QED
    BY <1>2, <2>3 DEF SetPassword
<1>3. ASSUME NEW r \in Request, Handle(r), ~SetPassword(r), ~Link(r) PROVE users \subseteq users'
  <2> USE DEF tables, Refuse
  <2>1. CASE SSOStart(r) \/ Exchange(r) \/ FindSubject(r) \/ FindEmail(r) \/ Count(r)
    BY <2>1 DEF SSOStart, Exchange, FindSubject, FindEmail, Count
  <2>2. CASE InsertUser(r) \/ SeedDefaultCategories(r) \/ CommitUser(r) \/ SignIn(r)
    BY <2>2 DEF InsertUser, SeedDefaultCategories, CommitUser, SignIn
  <2>3. CASE Login(r) \/ Logout(r) \/ Resolve(r) \/ SeedLookup(r)
    BY <2>3 DEF Login, Logout, Resolve, SeedLookup
  <2>4. QED
    BY <1>3, <2>1, <2>2, <2>3 DEF Handle
<1>4. ASSUME NEW r \in Request, Send(r) \/ Authorize(r) \/ Abort(r) PROVE users' = users
  BY <1>4 DEF Send, Authorize, Abort, tables
<1>5. CASE Tick \/ Collect \/ UNCHANGED vars
  BY <1>1, <1>5 DEF Tick, Collect, vars, tables
<1>6. QED
  BY <1>1, <1>2, <1>3, <1>4, <1>5, LinkKeepsSubjects DEF Next, Idle

(* Before it is led anywhere, a callback's who is not set. *)
LEMMA StepKeepsTracks ==
  ASSUME IInv, Led, [Next]_vars
  PROVE  TracksKept
<1>1. TypeOK
  BY DEF IInv
<1>2. ASSUME NEW r \in Request, Handle(r) \/ Abort(r) PROVE TracksKept
  <2>1. in' = in /\ granted' = granted
    BY <1>2, HandlersMove DEF Moves
  <2>2. \/ who' = who
        \/ \E u \in Id : who' = [who EXCEPT ![r] = u] /\ pc[r] \in {"start", "sub", "email", "commit"}
    <3> USE DEF local, Refuse, At
    <3>1. CASE SSOStart(r) \/ Exchange(r) \/ Link(r) \/ Count(r) \/ InsertUser(r)
               \/ SeedDefaultCategories(r) \/ SignIn(r) \/ Logout(r) \/ SetPassword(r) \/ Abort(r)
      BY <3>1 DEF SSOStart, Exchange, Link, Count, InsertUser, SeedDefaultCategories, SignIn,
                  Logout, SetPassword, Abort
    <3>2. CASE CommitUser(r)
      BY <3>2, ConstantsTyped DEF CommitUser
    <3>3. CASE FindSubject(r) \/ FindEmail(r) \/ Login(r) \/ SeedLookup(r)
      BY <1>1, <3>3 DEF FindSubject, FindEmail, Login, SeedLookup, BySubject, ByEmail, TypeOK, Row
    <3>4. CASE Resolve(r)
      BY <1>1, <3>4 DEF Resolve, Live, TypeOK, Session
    <3>5. QED
      BY <1>2, <3>1, <3>2, <3>3, <3>4 DEF Handle
  <2>3. ASSUME NEW x \in Request, in[x].op = "callback", who[x] # NULL PROVE who'[x] = who[x]
    BY <1>1, <2>2, <2>3 DEF Led, TypeOK
  <2>4. QED
    BY <2>1, <2>3 DEF TracksKept
<1>3. ASSUME NEW r \in Request, Send(r) \/ Authorize(r) PROVE TracksKept
  BY <1>1, <1>3 DEF Send, Authorize, idp, local, TracksKept, TypeOK
<1>4. CASE Tick \/ Collect \/ UNCHANGED vars
  BY <1>4 DEF Tick, Collect, vars, idp, local, TracksKept
<1>5. QED
  BY <1>2, <1>3, <1>4 DEF Next, Idle

LEMMA RivalStays ==
  ASSUME TypeOK, Led, TracksKept, NEW p, NEW sub, NEW id \in Id, Rivalled(p, sub, id)
  PROVE  Rivalled(p, sub, id)'
<1>1. PICK x \in Request : in[x].op = "callback" /\ in[x].provider = p /\ who[x] = id
                           /\ ClaimOf(x).sub # sub
  BY DEF Rivalled
<1>2. who[x] # NULL /\ in[x].flow \in Request
  BY <1>1, ConstantsTyped DEF TypeOK, Input
<1>3. who'[x] = id /\ granted'[in[x].flow] = granted[in[x].flow] /\ in' = in
  BY <1>1, <1>2 DEF Led, TracksKept
<1>4. QED
  BY <1>1, <1>3 DEF Rivalled, ClaimOf

LEMMA KeptStays ==
  ASSUME TypeOK, Led, TracksKept, SubjectsKept,
         NEW p \in Provider, NEW sub, NEW id \in Id, Kept(p, sub, id)
  PROVE  Kept(p, sub, id)'
<1>1. CASE Rivalled(p, sub, id)
  BY <1>1, RivalStays DEF Kept
<1>2. ASSUME NEW u \in users, u.id = id, u.sub[p] = sub PROVE Kept(p, sub, id)'
  <2>1. PICK v \in users' : v.id = u.id /\ (v.sub[p] = u.sub[p] \/ Rivalled(p, u.sub[p], u.id)')
    BY DEF SubjectsKept
  <2>2. CASE v.sub[p] = u.sub[p]
    BY <1>2, <2>1, <2>2 DEF Kept
  <2>3. CASE Rivalled(p, u.sub[p], u.id)'
    <3>1. Rivalled(p, sub, id)'
      BY <1>2, <2>3 DEF Rivalled
    <3>2. QED
      BY <3>1 DEF Kept
  <2>4. QED
    BY <2>1, <2>2, <2>3
<1>3. QED
  BY <1>1, <1>2 DEF Kept

LEMMA KnownStays ==
  ASSUME TypeOK, Led, TracksKept, SubjectsKept,
         NEW q \in Request \cup {NULL}, KnownIfCallback(q)
  PROVE  /\ KnownIfCallback(q)'
         /\ q # NULL /\ in[q].op = "callback" => ClaimOf(q)' = ClaimOf(q) /\ who'[q] = who[q]
<1>0. in' = in
  BY DEF TracksKept
<1>1. SUFFICES ASSUME q \in Request, in[q].op = "callback"
               PROVE  /\ ClaimOf(q)' = ClaimOf(q) /\ who'[q] = who[q]
                      /\ ClaimOf(q) \in Claims /\ who[q] \in Id
                      /\ Kept(in[q].provider, ClaimOf(q).sub, who[q])'
  BY <1>0 DEF KnownIfCallback
<1>2. in[q].flow \in Request /\ in[q].provider \in Provider
  BY <1>1 DEF TypeOK, Input
<1>3. ClaimOf(q) \in Claims /\ who[q] \in Id /\ Kept(in[q].provider, ClaimOf(q).sub, who[q])
  BY <1>1, ConstantsTyped DEF KnownIfCallback
<1>4. ClaimOf(q)' = ClaimOf(q) /\ who'[q] = who[q]
  BY <1>1, <1>2, <1>3, ConstantsTyped DEF ClaimOf, TracksKept
<1>5. Kept(in[q].provider, ClaimOf(q).sub, who[q])'
  <2>1. ASSUME NEW pp \in Provider, NEW ss, NEW ii \in Id, Kept(pp, ss, ii) PROVE Kept(pp, ss, ii)'
    BY <2>1, KeptStays
  <2>2. PICK pp \in Provider, ss \in {ClaimOf(q).sub}, ii \in Id :
          pp = in[q].provider /\ ss = ClaimOf(q).sub /\ ii = who[q] /\ Kept(pp, ss, ii)
    BY <1>2, <1>3
  <2>3. Kept(pp, ss, ii)'
    BY <2>1, <2>2
  <2>4. pp = in'[q].provider /\ ss = ClaimOf(q)'.sub /\ ii = who'[q]
    BY <1>0, <1>4, <2>2
  <2>5. QED
    BY <2>3, <2>4 DEF Kept, Rivalled
<1>6. QED
  BY <1>3, <1>4, <1>5

(* What r's step leads to: a session only for a subject that is known, and  *)
(* a sign-up only of a stranger.                                            *)
Arrives(r) ==
  /\ \A x \in Request \ {r} : draft'[x] = draft[x]
  /\ in[r].op = "callback" /\ pc'[r] = "session" =>
       /\ ClaimOf(r) \in Claims
       /\ \E u \in users' : u.id = who'[r] /\ u.sub[in[r].provider] = ClaimOf(r).sub
  /\ in[r].op = "callback" /\ who'[r] # NULL => pc'[r] \in {"link", "session", "done"}
  /\ \A x \in Request \ {r} : who'[x] = who[x]
  /\ in[r].op = "callback" /\ pc'[r] \in {"insert", "defaults", "commit"} =>
       ClaimOf(r) \in Claims /\ draft'[r].sub[in[r].provider] = ClaimOf(r).sub
  /\ pc'[r] = "email" \/ pc'[r] = "count" \/ resp'[r] = "not_allowed" =>
       Stranger(r) /\ in[r].op = "callback"
  /\ resp'[r] = "not_allowed" => pc'[r] = "done"

(* A step to another label, or to an answer but "not_allowed". *)
LEMMA ElsewhereArrives ==
  ASSUME SInv, NEW r \in Request, Moves(r), resp'[r] # "not_allowed",
         pc'[r] \notin {"session", "insert", "defaults", "commit", "email", "count"},
         \A x \in Request \ {r} : draft'[x] = draft[x], who' = who,
         pc'[r] = "done"
  PROVE  Arrives(r)
BY DEF Arrives

LEMMA Waiting ==
  ASSUME SInv, NEW r \in Request, pc[r] # "done"
  PROVE  /\ IInv /\ TypeOK /\ resp[r] # "not_allowed" /\ Facts(r) /\ Led
         /\ in[r].op = "callback" /\ pc[r] \notin {"link", "session"} => who[r] = NULL
         /\ \A l \in {"email", "count"} : pc[r] = l => Stranger(r) /\ in[r].op = "callback"
         /\ \A l \in {"sub", "email", "link", "count", "insert", "defaults", "commit", "session"} :
              in[r].op = "callback" /\ pc[r] = l => Proved(r)
BY DEF SInv, EInv, IInv, Strangers, Facts, SubjectsKnown, Led

(* Who has an account, and is not found by subject, has a rival. *)
LEMMA UnfoundIsStranger ==
  ASSUME SInv, NEW r \in Request, ClaimOf(r) \in Claims,
         BySubject(in[r].provider, ClaimOf(r).sub) = {}
  PROVE  Stranger(r)
<1>1. SUFFICES ASSUME NEW id \in Id, Had(r, id)
               PROVE  Rivalled(in[r].provider, ClaimOf(r).sub, id)
  BY DEF Stranger
<1>2. in[r].provider \in Provider /\ ClaimOf(r).sub # NULL
  BY ConstantsTyped DEF SInv, EInv, IInv, TypeOK, Input, Claim
<1>3. Kept(in[r].provider, ClaimOf(r).sub, id)
  <2>1. CASE \E u \in InitialUsers : u.id = id /\ u.sub[in[r].provider] = ClaimOf(r).sub
    <3>1. FoundersKept
      BY DEF SInv, SubjectsKnown
    <3>2. QED
      BY <1>2, <2>1, <3>1 DEF FoundersKept
  <2>2. CASE LET q == sent[r].session
             IN /\ q # NULL /\ in[q].op = "callback" /\ in[q].provider = in[r].provider
                /\ ClaimOf(q).sub = ClaimOf(r).sub /\ who[q] = id
    <3>1. KnownIfCallback(sent[r].session)
      BY DEF SInv, SubjectsKnown
    <3>2. QED
      BY <2>2, <3>1 DEF KnownIfCallback
  <2>3. QED
    BY <1>1, <2>1, <2>2 DEF Had
<1>4. QED
  BY <1>3 DEF Kept, BySubject

LEMMA EarlyArrives ==
  ASSUME SInv, NEW r \in Request,
         SSOStart(r) \/ Exchange(r) \/ FindSubject(r) \/ FindEmail(r) \/ Link(r)
  PROVE  Arrives(r)
<1> USE DEF At, tables, local
<1>0. pc[r] \notin {"idle", "done"} /\ IInv /\ TypeOK /\ Moves(r) /\ resp[r] # "not_allowed"
  BY Waiting, FlowsMove, SignUpsMove
     DEF SInv, EInv, Quietly, Moves, SSOStart, Exchange, FindSubject, FindEmail, Link
<1>1. CASE SSOStart(r)
  BY <1>0, <1>1, ElsewhereArrives DEF SSOStart, Answers, TypeOK
<1>2. CASE Exchange(r)
  <2>1. /\ draft' = draft /\ who' = who /\ pc[r] = "start" /\ resp'[r] # "not_allowed"
        /\ in[r].op = "callback" /\ pc'[r] \in {"sub", "done"}
    BY <1>0, <1>2 DEF Exchange, Refuse, Answers, Goto, TypeOK
  <2>2. who[r] = NULL
    BY <2>1, Waiting
  <2>3. QED
    BY <1>0, <2>1, <2>2 DEF Arrives
<1>3. CASE FindSubject(r)
  <2>1. pc[r] = "sub" /\ in[r].op = "callback" /\ Proved(r) /\ who[r] = NULL
    BY <1>3, Waiting DEF FindSubject
  <2>2. ASSUME BySubject(in[r].provider, ClaimOf(r).sub) = {}, pc'[r] = "email",
               draft' = draft, resp' = resp, who' = who
        PROVE  Arrives(r)
    <3>1. Stranger(r)
      BY <2>1, <2>2, UnfoundIsStranger DEF Proved
    <3>2. QED
      BY <1>0, <2>1, <2>2, <3>1 DEF Arrives
  <2>3. ASSUME NEW u \in BySubject(in[r].provider, ClaimOf(r).sub), pc'[r] = "session",
               users' = users, draft' = draft, resp' = resp, who' = [who EXCEPT ![r] = u.id]
        PROVE  Arrives(r)
    <3>1. who'[r] = u.id /\ \A x \in Request \ {r} : who'[x] = who[x]
      BY <1>0, <2>3 DEF TypeOK
    <3>2. QED
      BY <1>0, <2>1, <2>3, <3>1 DEF Arrives, BySubject, Proved
  <2>4. QED
    BY <1>0, <1>3, <2>2, <2>3 DEF FindSubject, Goto, TypeOK
<1>4. CASE FindEmail(r)
  <2>1. pc[r] = "email" /\ Stranger(r) /\ in[r].op = "callback"
    BY <1>4, Waiting DEF FindEmail
  <2>2. /\ pc'[r] \in {"count", "link"} /\ draft' = draft /\ resp' = resp
        /\ \A x \in Request \ {r} : who'[x] = who[x]
        /\ pc'[r] = "count" => who'[r] = who[r]
    BY <1>0, <1>4 DEF FindEmail, Goto, TypeOK
  <2>3. who[r] = NULL
    BY <2>1, <1>4, Waiting DEF FindEmail
  <2>4. QED
    BY <1>0, <2>1, <2>2, <2>3 DEF Arrives
<1>5. CASE Link(r)
  <2>1. pc[r] = "link" /\ in[r].op = "callback" /\ Proved(r) /\ in[r].provider \in Provider
    BY <1>0, <1>5, Waiting DEF Link, TypeOK, Input
  <2>2. CASE Refuse(r, "error")
    BY <1>0, <2>2, ElsewhereArrives DEF Refuse, Answers, TypeOK
  <2>3. CASE /\ users' = {IF x.id = who[r] THEN [x EXCEPT !.sub[in[r].provider] = ClaimOf(r).sub]
                                           ELSE x : x \in users}
             /\ Goto(r, "session") /\ draft' = draft /\ who' = who
    <3>1. PICK u \in users : u.id = who[r]
      BY <2>1, <1>0 DEF IInv, Facts
    <3> DEFINE v == [u EXCEPT !.sub[in[r].provider] = ClaimOf(r).sub]
    <3>2. v \in users'
      BY <2>3, <3>1
    <3>3. v.sub[in[r].provider] = ClaimOf(r).sub /\ v.id = who[r]
      BY <1>0, <2>1, <3>1 DEF TypeOK, Row
    <3> HIDE DEF v
    <3>4. pc'[r] = "session" /\ resp' = resp
      BY <1>0, <2>3 DEF Goto, TypeOK
    <3>5. QED
      BY <1>0, <2>1, <2>3, <3>2, <3>3, <3>4 DEF Arrives, Proved
  <2>4. QED
    BY <1>5, <2>2, <2>3 DEF Link
<1>6. QED
  BY <1>1, <1>2, <1>3, <1>4, <1>5

LEMMA LaterArrives ==
  ASSUME SInv, NEW r \in Request,
         \/ Count(r) \/ InsertUser(r) \/ SeedDefaultCategories(r) \/ CommitUser(r)
         \/ SignIn(r) \/ Abort(r)
  PROVE  Arrives(r)
<1> USE DEF At, tables, local
<1>0. pc[r] \notin {"idle", "done"} /\ IInv /\ TypeOK /\ Moves(r) /\ resp[r] # "not_allowed"
      /\ in[r].provider \in Provider
  BY Waiting, SignUpsMove, OthersMove
     DEF SInv, EInv, Quietly, Moves, Count, InsertUser, SeedDefaultCategories, CommitUser, SignIn,
         Abort, TypeOK, Input
<1>1. CASE Count(r)
  <2>1. pc[r] = "count" /\ in[r].op = "callback" /\ Stranger(r) /\ Proved(r) /\ who[r] = NULL
    BY <1>1, Waiting DEF Count
  <2>2. CASE draft' = [draft EXCEPT ![r] = NewRow(r)] /\ Goto(r, "insert") /\ who' = who
    <3>1. draft'[r] = NewRow(r) /\ pc'[r] = "insert" /\ resp' = resp /\ who' = who
          /\ \A x \in Request \ {r} : draft'[x] = draft[x]
      BY <1>0, <2>2 DEF Goto, TypeOK
    <3>2. NewRow(r).sub[in[r].provider] = ClaimOf(r).sub
      BY <1>0 DEF NewRow
    <3>3. QED
      BY <1>0, <2>1, <3>1, <3>2 DEF Arrives, Proved
  <2>3. CASE Refuse(r, "not_allowed")
    BY <1>0, <2>1, <2>3 DEF Refuse, Answers, TypeOK, Arrives
  <2>4. QED
    BY <1>1, <2>2, <2>3 DEF Count
<1>2. CASE InsertUser(r) \/ SeedDefaultCategories(r)
  <2>1. \/ Refuse(r, "error")
        \/ draft' = draft /\ resp' = resp /\ pc'[r] \in {"defaults", "commit"} /\ who' = who
           /\ pc[r] \in {"insert", "defaults"}
    BY <1>0, <1>2 DEF InsertUser, SeedDefaultCategories, Goto, TypeOK
  <2>2. CASE Refuse(r, "error")
    BY <1>0, <2>2, ElsewhereArrives DEF Refuse, Answers, TypeOK
  <2>3. in[r].op = "callback" /\ pc[r] \in {"insert", "defaults"} =>
          /\ ClaimOf(r) \in Claims /\ draft[r].sub[in[r].provider] = ClaimOf(r).sub
          /\ who[r] = NULL
    BY <1>0, Waiting DEF SInv, SubjectsKnown, Proved
  <2>4. QED
    BY <1>0, <2>1, <2>2, <2>3 DEF Arrives
<1>3. CASE CommitUser(r)
  <2>1. /\ draft[r] \in users' /\ draft' = draft /\ pc[r] = "commit"
        /\ who'[r] = r /\ draft[r].id = r /\ \A x \in Request \ {r} : who'[x] = who[x]
    BY <1>0, <1>3 DEF CommitUser, TypeOK, IInv, Facts, DraftFit
  <2>2. \/ pc'[r] = "done" /\ resp'[r] = "ok"
        \/ pc'[r] = "session" /\ resp' = resp
    BY <1>0, <1>3 DEF CommitUser, Answers, Goto, TypeOK
  <2>3. in[r].op = "callback" =>
          ClaimOf(r) \in Claims /\ draft[r].sub[in[r].provider] = ClaimOf(r).sub
    BY <2>1, Waiting DEF SInv, SubjectsKnown, Proved
  <2>4. QED
    BY <1>0, <2>1, <2>2, <2>3 DEF Arrives
<1>4. CASE SignIn(r) \/ Abort(r)
  BY <1>0, <1>4, ElsewhereArrives DEF SignIn, Abort, Answers, TypeOK
<1>5. QED
  BY <1>1, <1>2, <1>3, <1>4

LEMMA PasswordArrives ==
  ASSUME SInv, NEW r \in Request,
         Login(r) \/ Logout(r) \/ Resolve(r) \/ SeedLookup(r) \/ SetPassword(r)
  PROVE  Arrives(r)
<1> USE DEF At, tables, local
<1>0. /\ pc[r] \notin {"idle", "done"} /\ IInv /\ TypeOK /\ resp[r] # "not_allowed"
      /\ in[r].op # "callback"
  BY Waiting DEF Login, Logout, Resolve, SeedLookup, SetPassword
<1>1. CASE Login(r)
  BY <1>0, <1>1 DEF Login, Refuse, Answers, Goto, TypeOK, Arrives
<1>2. CASE Logout(r)
  BY <1>0, <1>2 DEF Logout, Answers, TypeOK, Arrives
<1>3. CASE Resolve(r)
  BY <1>0, <1>3 DEF Resolve, Refuse, Answers, TypeOK, Arrives
<1>4. CASE SeedLookup(r)
  BY <1>0, <1>4 DEF SeedLookup, Goto, TypeOK, Arrives
<1>5. CASE SetPassword(r)
  BY <1>0, <1>5 DEF SetPassword, Answers, TypeOK, Arrives
<1>6. QED
  BY <1>1, <1>2, <1>3, <1>4, <1>5

LEMMA HandlersArrive ==
  ASSUME SInv, NEW r \in Request, Handle(r) \/ Abort(r)
  PROVE  Arrives(r)
BY EarlyArrives, LaterArrives, PasswordArrives DEF Handle

(* A claim that was looked at stays as it is, and so do its rivals. *)
LEMMA StrangerStays ==
  ASSUME SInv, SubjectsKept, TracksKept, NEW r \in Request, sent'[r] = sent[r],
         granted[in[r].flow] # NULL, Stranger(r)
  PROVE  Stranger(r)' /\ granted'[in[r].flow] # NULL
<1> DEFINE q == sent[r].session
<1>1. in[r].flow \in Request /\ TypeOK /\ Led /\ q \in Request \cup {NULL}
  BY DEF SInv, EInv, IInv, TypeOK, Input, Cookies, SubjectsKnown
<1>2. ClaimOf(r)' = ClaimOf(r) /\ granted'[in[r].flow] # NULL /\ in' = in
  BY <1>1 DEF ClaimOf, TracksKept
<1>3. q # NULL /\ in[q].op = "callback" => ClaimOf(q)' = ClaimOf(q) /\ who'[q] = who[q]
  <2>1. KnownIfCallback(q)
    BY DEF SInv, SubjectsKnown
  <2>2. ASSUME NEW x \in Request \cup {NULL}, KnownIfCallback(x), x # NULL, in[x].op = "callback"
        PROVE  ClaimOf(x)' = ClaimOf(x) /\ who'[x] = who[x]
    BY <1>1, <2>2, KnownStays
  <2>3. PICK x \in Request \cup {NULL} : x = q /\ KnownIfCallback(x)
    BY <1>1, <2>1
  <2>4. q # NULL /\ in[q].op = "callback" =>
          granted'[in'[q].flow] = granted[in[q].flow] /\ who'[q] = who[q]
    BY <1>2, <2>2, <2>3 DEF ClaimOf
  <2>5. QED
    BY <2>4 DEF ClaimOf
<1>4. ASSUME NEW id \in Id, Had(r, id)' PROVE Had(r, id)
  BY <1>2, <1>3, <1>4 DEF Had, ClaimOf
<1>5. ASSUME NEW id \in Id, Had(r, id)'
      PROVE  Rivalled(in[r].provider, ClaimOf(r).sub, id)'
  <2>1. Rivalled(in[r].provider, ClaimOf(r).sub, id)
    BY <1>4, <1>5 DEF Stranger
  <2>2. PICK p \in {in[r].provider}, sub \in {ClaimOf(r).sub} : Rivalled(p, sub, id)
    BY <2>1
  <2>3. Rivalled(p, sub, id)'
    BY <1>1, <2>2, RivalStays
  <2>4. p = in'[r].provider /\ sub = ClaimOf(r)'.sub
    BY <1>2, <2>2
  <2>5. QED
    BY <2>3, <2>4 DEF Rivalled
<1>6. QED
  BY <1>2, <1>5 DEF Stranger

LEMMA FoundersStay ==
  ASSUME TypeOK, Led, TracksKept, SubjectsKept, FoundersKept
  PROVE  FoundersKept'
<1>1. ASSUME NEW u \in InitialUsers, NEW p \in Provider, u.sub[p] # NULL
      PROVE  Kept(p, u.sub[p], u.id)'
  <2>1. u.id \in Id /\ Kept(p, u.sub[p], u.id)
    BY <1>1, InitialUsersAssumption DEF FoundersKept, Row
  <2>2. QED
    BY <2>1, KeptStays
<1>2. QED
  BY <1>1 DEF FoundersKept

LEMMA HandlersKeepSubjects ==
  ASSUME SInv, SubjectsKept, TracksKept, IInv', NEW r \in Request, Moves(r), Arrives(r)
  PROVE  SubjectsKnown' /\ Strangers'
<1>1. /\ TypeOK /\ in' = in /\ sent' = sent /\ granted' = granted
      /\ pc[r] \notin {"idle", "done"} /\ IInv /\ Led
  BY DEF Moves, SInv, EInv, IInv, SubjectsKnown
<1>2. ASSUME NEW q \in Request \cup {NULL}, KnownIfCallback(q) PROVE KnownIfCallback(q)'
  BY <1>1, <1>2, KnownStays
<1>3. \A q \in Request : in[q].op = "callback" /\ pc[q] # "idle" => granted[in[q].flow] # NULL
  BY <1>1 DEF IInv, Facts
<1>4. ASSUME NEW b \in Browser PROVE KnownIfCallback(jar[b].session)'
  <2>1. CASE jar'[b].session = NULL
    BY <2>1 DEF KnownIfCallback
  <2>2. CASE jar'[b].session = jar[b].session
    <3> DEFINE q == jar[b].session
    <3>1. q \in Request \cup {NULL} /\ KnownIfCallback(q)
      BY <1>1 DEF TypeOK, Cookies, SInv, SubjectsKnown
    <3>2. \A x \in Request \cup {NULL} : KnownIfCallback(x) => KnownIfCallback(x)'
      BY <1>2
    <3>3. KnownIfCallback(jar[b].session) /\ jar'[b].session = q
      BY <2>2, <3>1
    <3>4. QED
      BY <1>1, <1>2, <2>2, <3>1, <3>2 DEF KnownIfCallback, Kept, Rivalled, ClaimOf
  <2>3. CASE jar'[b].session = r /\ pc[r] = "session"
    <3>1. KnownIfCallback(r)
      BY <2>3 DEF SInv, SubjectsKnown
    <3>2. KnownIfCallback(r)'
      BY <1>2, <3>1
    <3>3. QED
      BY <2>3, <3>2 DEF KnownIfCallback, Kept, Rivalled, ClaimOf
  <2>4. QED
    BY <2>1, <2>2, <2>3 DEF Moves, JarMoves
<1>5. ASSUME NEW x \in Request PROVE KnownIfCallback(sent[x].session)'
  <2>1. sent[x].session \in Request \cup {NULL} /\ KnownIfCallback(sent[x].session)
    BY <1>1 DEF TypeOK, Cookies, SInv, SubjectsKnown
  <2>2. \A q \in Request \cup {NULL} : KnownIfCallback(q) => KnownIfCallback(q)'
    BY <1>2
  <2>3. QED
    BY <1>1, <2>1, <2>2 DEF KnownIfCallback, Kept, Rivalled, ClaimOf
<1>6. ASSUME NEW x \in Request, pc'[x] = "session" PROVE KnownIfCallback(x)'
  <2>1. CASE x = r
    <3>1. SUFFICES ASSUME in[x].op = "callback"
                   PROVE  /\ ClaimOf(r) \in Claims /\ who'[r] \in Id
                          /\ \E u \in users' : u.id = who'[r] /\ u.sub[in[r].provider] = ClaimOf(r).sub
      BY <1>1, <2>1 DEF KnownIfCallback, Kept, ClaimOf
    <3>2. users' \subseteq Row
      BY DEF IInv, TypeOK
    <3>3. QED
      BY <1>6, <2>1, <3>1, <3>2 DEF Arrives, Row
  <2>2. CASE x # r
    <3>1. KnownIfCallback(x)
      BY <1>6, <2>2 DEF Moves, SInv, SubjectsKnown
    <3>2. QED
      BY <1>2, <3>1
  <2>3. QED
    BY <2>1, <2>2
<1>7. ASSUME NEW x \in Request, pc'[x] \in {"insert", "defaults", "commit"}, in[x].op = "callback"
      PROVE  draft'[x].sub[in[x].provider] = ClaimOf(x)'.sub
  <2>1. CASE x = r
    BY <1>1, <1>7, <2>1 DEF Arrives, ClaimOf
  <2>2. CASE x # r
    <3>1. pc'[x] = pc[x] /\ draft'[x] = draft[x]
      BY <2>2 DEF Moves, Arrives
    <3>2. QED
      BY <1>1, <1>7, <3>1 DEF SInv, SubjectsKnown, ClaimOf
  <2>3. QED
    BY <2>1, <2>2
<1>8. Led' /\ FoundersKept'
  <2>1. ASSUME NEW x \in Request, in[x].op = "callback", who'[x] # NULL
        PROVE  pc'[x] \in {"link", "session", "done"}
    <3>1. x # r => pc'[x] = pc[x] /\ who'[x] = who[x]
      BY DEF Moves, Arrives
    <3>2. QED
      BY <1>1, <2>1, <3>1 DEF Led, Arrives
  <2>2. ASSUME NEW x \in Request, pc'[x] # "idle" PROVE pc[x] # "idle"
    BY <2>2 DEF Moves
  <2>3. Led'
    BY <1>1, <1>3, <2>1, <2>2 DEF Led
  <2>4. QED
    BY <1>1, <2>3, FoundersStay DEF SInv, SubjectsKnown
<1>88. SubjectsKnown'
  BY <1>1, <1>4, <1>5, <1>6, <1>7, <1>8 DEF SubjectsKnown
<1>9. ASSUME NEW x \in Request,
             pc'[x] = "count" \/ pc'[x] = "email" \/ resp'[x] = "not_allowed"
      PROVE  /\ Stranger(x)' /\ granted'[in[x].flow] # NULL
             /\ resp'[x] = "not_allowed" => pc'[x] = "done"
  <2>1. /\ Stranger(x) /\ granted[in[x].flow] # NULL
        /\ resp'[x] = "not_allowed" => pc'[x] = "done"
    <3>1. CASE x = r
      BY <1>1, <1>3, <1>9, <3>1 DEF Arrives
    <3>2. CASE x # r
      <4>1. pc'[x] = pc[x] /\ resp'[x] = resp[x]
        BY <3>2 DEF Moves
      <4>2. pc[x] = "count" \/ pc[x] = "email" => in[x].op = "callback"
        BY <1>1 DEF IInv, Facts
      <4>3. QED
        BY <1>3, <1>9, <4>1, <4>2 DEF SInv, Strangers
    <3>3. QED
      BY <3>1, <3>2
  <2>2. QED
    BY <1>1, <2>1, StrangerStays
<1>10. QED
  BY <1>1, <1>88, <1>9 DEF Strangers

(* Nothing that is answered or claimed changes while requests are sent. *)
LEMMA EnvironmentKeepsSubjects ==
  ASSUME SInv, SubjectsKept, TracksKept, IInv', users' = users, NEW f \in Request,
         \/ Send(f) \/ Authorize(f) \/ Tick \/ Collect \/ UNCHANGED vars
  PROVE  SubjectsKnown' /\ Strangers'
<1>1. /\ TypeOK /\ IInv /\ in' = in /\ jar' = jar /\ resp' = resp /\ draft' = draft
      /\ who' = who /\ Led
      /\ \A x \in Request : granted[x] # NULL => granted'[x] = granted[x]
      /\ \A r \in Request \ {f} : pc'[r] = pc[r] /\ sent'[r] = sent[r]
      /\ \/ pc'[f] = pc[f] /\ sent'[f] = sent[f]
         \/ pc'[f] = "start" /\ sent'[f] = jar[in[f].browser] /\ resp[f] = "none"
  BY DEF Send, Authorize, Tick, Collect, vars, tables, idp, local, SInv, EInv, IInv, TypeOK, Unsent,
         SubjectsKnown
<1>2. ASSUME NEW q \in Request \cup {NULL}, KnownIfCallback(q) PROVE KnownIfCallback(q)'
  BY <1>1, <1>2, KnownStays
<1>3. /\ \A b \in Browser : jar[b].session \in Request \cup {NULL}
      /\ \A r \in Request : sent[r].session \in Request \cup {NULL} /\ in[r].browser \in Browser
  BY <1>1 DEF TypeOK, Cookies, Input
<1>4. ASSUME NEW b \in Browser PROVE KnownIfCallback(jar[b].session)'
  <2>1. KnownIfCallback(jar[b].session)
    BY DEF SInv, SubjectsKnown
  <2>2. \A q \in Request \cup {NULL} : KnownIfCallback(q) => KnownIfCallback(q)'
    BY <1>2
  <2>3. QED
    BY SMTT(60), <1>1, <1>3, <2>1, <2>2 DEF KnownIfCallback, Kept, Rivalled, ClaimOf
<1>5. ASSUME NEW r \in Request PROVE KnownIfCallback(sent[r].session)'
  <2>1. \/ sent'[r].session = sent[r].session
        \/ sent'[r].session = jar[in[r].browser].session
    BY <1>1
  <2>2. KnownIfCallback(sent[r].session) /\ KnownIfCallback(jar[in[r].browser].session)
    BY <1>3 DEF SInv, SubjectsKnown
  <2>3. \A q \in Request \cup {NULL} : KnownIfCallback(q) => KnownIfCallback(q)'
    BY <1>2
  <2>4. PICK t \in Request \cup {NULL} : sent'[r].session = t /\ KnownIfCallback(t)'
    BY <1>3, <2>1, <2>2, <2>3
  <2>5. QED
    BY <2>4 DEF KnownIfCallback, Kept, Rivalled, ClaimOf
<1>6. ASSUME NEW r \in Request, pc'[r] = "session" PROVE KnownIfCallback(r)'
  BY <1>1, <1>2, <1>6 DEF SInv, SubjectsKnown
<1>7. ASSUME NEW r \in Request, pc'[r] \in {"insert", "defaults", "commit"}, in[r].op = "callback"
      PROVE  draft'[r].sub[in[r].provider] = ClaimOf(r)'.sub
  <2>1. pc[r] = pc'[r]
    BY <1>1, <1>7
  <2>2. granted[in[r].flow] # NULL /\ in[r].flow \in Request
    BY <1>1, <1>7, <2>1 DEF IInv, Facts, TypeOK, Input
  <2>3. QED
    BY <1>1, <1>7, <2>1, <2>2 DEF SInv, SubjectsKnown, ClaimOf
<1>8. Led' /\ FoundersKept'
  <2>1. ASSUME NEW x \in Request, in[x].op = "callback", who[x] # NULL
        PROVE  /\ pc'[x] \in {"link", "session", "done"}
               /\ granted'[in[x].flow] # NULL
    <3>1. pc[x] \in {"link", "session", "done"} /\ granted[in[x].flow] # NULL
          /\ in[x].flow \in Request
      BY <1>1, <2>1 DEF Led, TypeOK, Input
    <3>2. pc'[x] = pc[x]
      <4>1. pc'[f] = pc[f] \/ pc[f] = "idle"
        BY DEF Send, Authorize, Tick, Collect, vars
      <4>2. QED
        BY <1>1, <3>1, <4>1
    <3>3. QED
      BY <1>1, <3>1, <3>2
  <2>2. Led'
    BY <1>1, <2>1 DEF Led
  <2>3. QED
    BY <1>1, <2>2, FoundersStay DEF SInv, SubjectsKnown
<1>88. SubjectsKnown'
  BY <1>1, <1>4, <1>5, <1>6, <1>7, <1>8 DEF SubjectsKnown
<1>9. ASSUME NEW r \in Request,
             pc'[r] = "count" \/ pc'[r] = "email" \/ resp'[r] = "not_allowed"
      PROVE  /\ Stranger(r)' /\ granted'[in[r].flow] # NULL
             /\ resp'[r] = "not_allowed" => pc'[r] = "done"
  <2>1. pc'[r] = pc[r] /\ sent'[r] = sent[r]
    BY <1>1, <1>9
  <2>2. Stranger(r) /\ granted[in[r].flow] # NULL /\ (resp[r] = "not_allowed" => pc[r] = "done")
    BY <1>1, <1>9, <2>1 DEF SInv, Strangers, IInv, Facts
  <2>3. QED
    BY <1>1, <2>1, <2>2, StrangerStays
<1>10. QED
  BY <1>1, <1>88, <1>9 DEF Strangers

(* Whose subject had an account is told to sign up only if a rival, another *)
(* subject of the provider, was led to that account: upsertGoogleUser and   *)
(* upsertOIDCUser look for the subject first (google.go, sso.go), whatever  *)
(* links, sign-ups and seeds run at once, and Link alone replaces subjects. *)
THEOREM OnlyRivalsShutOut == Spec => []ReturningSignsIn
<1>1. Init => SInv
  <2> SUFFICES ASSUME Init PROVE SInv
    OBVIOUS
  <2>1. EInv
    BY InitIInv DEF Init, EInv, TokensDrawn, Drawn, NoCookies, Ended, Unsent
  <2>2. QED
    BY <2>1 DEF Init, SInv, SubjectsKnown, Led, FoundersKept, Kept, KnownIfCallback, NoCookies,
                Strangers
<1>2. EInv /\ SInv /\ EInv' /\ [Next]_vars => SInv'
  <2> SUFFICES ASSUME SInv, EInv', [Next]_vars PROVE SInv'
    OBVIOUS
  <2>1. IInv /\ IInv' /\ SubjectsKept /\ TracksKept
    BY StepKeepsSubjects, StepKeepsTracks DEF SInv, EInv, SubjectsKnown
  <2>2. ASSUME NEW r \in Request, Handle(r) \/ Abort(r) PROVE SInv'
    BY <2>1, <2>2, HandlersMove, HandlersArrive, HandlersKeepSubjects DEF SInv
  <2>3. ASSUME NEW r \in Request, Send(r) \/ Authorize(r) PROVE SInv'
    BY <2>1, <2>3, EnvironmentKeepsSubjects DEF Send, Authorize, tables, SInv
  <2>4. CASE Tick \/ Collect \/ UNCHANGED vars
    <3>1. users' = users
      BY <2>4 DEF Tick, Collect, vars, tables
    <3>2. CASE Request = {}
      <4>1. \A b \in Browser : jar'[b].session = NULL
        BY <2>1, <3>2 DEF IInv, TypeOK, Cookies
      <4>2. FoundersKept'
        BY <2>1, FoundersStay DEF SInv, SubjectsKnown, IInv
      <4>3. QED
        BY <3>2, <4>1, <4>2 DEF SInv, SubjectsKnown, Led, Strangers, KnownIfCallback
    <3>3. CASE Request # {}
      BY <2>1, <2>4, <3>1, <3>3, EnvironmentKeepsSubjects DEF SInv
    <3>4. QED
      BY <3>2, <3>3
  <2>5. QED
    BY <2>2, <2>3, <2>4 DEF Next, Idle
<1>3. SInv => ReturningSignsIn
  BY DEF SInv, Strangers, Stranger, ReturningSignsIn
<1>4. QED
  BY <1>1, <1>2, <1>3, EInvariance, PTL DEF Spec
=============================================================================
