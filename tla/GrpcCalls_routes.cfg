\* One call of every stub to every server program.
CONSTANTS
  Nil = Nil
  Calls = {c1}
  StubsUsed <- MCStubs
  Requests = {r1}
  Items = {x1, x2}
  Codes = {"Unimplemented"}
  MaxItems = 2
  Builds <- MCBuilds
SPECIFICATION FairSpec
INVARIANTS TypeOK EnteredWithRequest
PROPERTIES ReachesMethod IsFeed NobodyLeftWaiting
