\* Two concurrent calls, of plugins that are stopped and replaced.
CONSTANTS
  Nil = Nil
  EmptyStr = ""
  Str = {"", "a", "b", "c", "ns"}
  Calls = {c1, c2}
  Paths <- MCOrderPaths
  Requests <- MCOneRequest
  Answers <- MCFewAnswers
  Codes <- MCFewCodes
  Plugins <- MCOrderPlugins
SPECIFICATION FairSpec
INVARIANTS
  RunsOnce
  ResultIsAnswer
  ResponseXorError
PROPERTIES
  DirectServiceDoesNotPanic
  EveryCallReturns
