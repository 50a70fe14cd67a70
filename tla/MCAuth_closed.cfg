CONSTANTS
  r1 = r1
  r2 = r2
  r3 = r3
  r4 = r4
  r5 = r5
  b1 = b1
  b2 = b2
  ada = ada
  bea = bea
  Request = {r1, r2, r3, r4, r5}
  Browser = {b1, b2}
  Email = {"ann", "bob", "cyd", "dot", "eve"}
  Subject = {"s1", "s2", "s3", "s4"}
  Password = {"pw", "pw2"}
  Founder = {ada, bea}
  Allowed = {"bob"}
  TTL = 1
  MaxTime = 0
  Declined = Declined
  NULL = NULL
  InitialUsers <- AdaAndBea
  Claims <- ClaimsAndRenamed
  Scripts <- TwoFlows
SPECIFICATION Spec
INVARIANTS
  TypeOK
  AccountsVouched
  SessionsEarned
  FlowStaysHome
  ClosedInstance
  DefaultsWithUser
  ReturningSignsIn
