\* What registration promises of unimplemented methods.
CONSTANTS
  Nil = Nil
  EmptyStr = ""
  Str = {"", "a", "b", "c", "ns"}
  Calls = {c1}
  Paths <- MCPaths
  Requests <- MCOneRequest
  Answers <- MCFewAnswers
  Codes <- MCCodes
  Plugins <- MCFewPlugins
SPECIFICATION Spec
INVARIANT NoUnimplementedPanic
