------------------------------- MODULE MCAuth -------------------------------
(***************************************************************************)
(* Small instances of Auth: two browsers, two sign-in flows, a password    *)
(* session, and two sign-ins at once.                                      *)
(***************************************************************************)
EXTENDS Auth

CONSTANTS r1, r2, r3, r4, r5, b1, b2, ada, bea

Blank == [op |-> "api", browser |-> b1, provider |-> "google", flow |-> r1,
          email |-> "ann", password |-> "pw", admin |-> TRUE]

Ask(op, browser) == [Blank EXCEPT !.op = op, !.browser = browser]

Start(browser, provider) == [Ask("ssoStart", browser) EXCEPT !.provider = provider]

Back(browser, provider, flow) ==
  [Ask("callback", browser) EXCEPT !.provider = provider, !.flow = flow]

Asserts(provider, sub, email, verified) ==
  [provider |-> provider, sub |-> sub, email |-> email, verified |-> verified]

Script(a, b, c, d, e) == [r \in Request |->
  CASE r = r1 -> a [] r = r2 -> b [] r = r3 -> c [] r = r4 -> d [] OTHER -> e]

Seed(email) == [Ask("seed", b2) EXCEPT !.email = email, !.password = "pw2"]

(* Two flows: of one browser, while the seed command runs; of two browsers, *)
(* one of which is handed the callback of the other; with both providers;   *)
(* of two browsers, for one new user whom the seed command creates, too.    *)
TwoFlows ==
  {Script(Start(b1, "google"), Start(b1, "google"), Back(b1, "google", r1),
          Back(b1, "google", r2), Seed("cyd")),
   Script(Start(b1, "google"), Start(b2, "google"), Back(b1, "google", r1),
          Back(b2, "google", r1), Back(b2, "google", r2)),
   Script(Start(b1, "google"), Start(b2, "oidc"), Back(b1, "google", r1),
          Back(b2, "oidc", r2), Ask("logout", b1)),
   Script(Start(b1, "google"), Start(b2, "google"), Back(b1, "google", r1),
          Back(b2, "google", r2), Seed("bob"))}

(* A user who signs in with a password, logs out and goes on elsewhere,     *)
(* while the seed command runs twice.                                       *)
OneSession ==
  {Script(Ask("login", b1), Ask("logout", b1), Ask("api", b1), Seed("bob"), Seed(e)) :
     e \in {"ann", "bob"}}

(* Two sign-ins at once, in two browsers. *)
TwoSignIns ==
  {Script(Start(b1, "google"), Start(b2, "google"), Back(b1, "google", r1),
          Back(b2, "google", r2), Ask("api", b1))}

Nobody == {}

Ada == {[id |-> ada, email |-> "ann", sub |-> [p \in Provider |-> NULL],
         password |-> "pw", admin |-> TRUE]}

(* Beside ada, a user whom Google knows as s3. *)
AdaAndBea ==
  Ada \cup {[id |-> bea, email |-> "dot", sub |-> [p \in Provider |->
                IF p = "google" THEN "s3" ELSE NULL], password |-> NULL, admin |-> FALSE]}

(* Google: s1 is ann's and later cyd's, s2 is bob's.  The other provider    *)
(* uses the same subjects for others, and says so of one unverified email.  *)
MCClaims ==
  {Asserts("google", "s1", "ann", "true"), Asserts("google", "s1", "cyd", "true"),
   Asserts("google", "s2", "bob", "true"), Asserts("google", "s2", "bob", "absent"),
   Asserts("oidc", "s2", "ann", "absent"), Asserts("oidc", "s1", "bob", "false"),
   Asserts("oidc", "s1", NULL, "true")}

(* Google moves bea's email from s3, who gets another one, to s4. *)
Renamed == {Asserts("google", "s3", "dot", "true"), Asserts("google", "s3", "eve", "true"),
            Asserts("google", "s4", "dot", "true")}

ClaimsAndRenamed == MCClaims \cup Renamed

Strangers == {Asserts("google", "s1", "ann", "true"), Asserts("google", "s2", "cyd", "true")}
=============================================================================
