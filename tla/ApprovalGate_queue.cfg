SPECIFICATION FairSpec
CONSTANTS
  Calls = {k1, k2}
  Threads = {p1, p2}
  Ids = {a1, a2}
  Users = {u1, u2}
  Owners = {u1}
  Tools = {t0, t2, t3}
  Risk <- MCRisk
  Whitelist = {}
  MaxHistory = 1
  Window = 1
  NoId = NoId
  NoUser = NoUser
  u1 = u1
  u2 = u2
  t0 = t0
  t2 = t2
  t3 = t3
INVARIANTS
  TypeOK
  ExecutedMeansApproved
  AnsweredOnce
  PendingHasCaller
PROPERTIES
  EntryAnswered
  ImplementsService
