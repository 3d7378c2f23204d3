\* One call with all messages, paths and plugins.
CONSTANTS
  Nil = Nil
  EmptyStr = ""
  Str = {"", "a", "b", "c", "ns"}
  Calls = {c1}
  Paths <- MCPaths
  Requests <- MCRequests
  Answers <- MCAnswers
  Codes <- MCCodes
  Plugins <- MCFewPlugins
SPECIFICATION Spec
INVARIANTS
  TypeOK
  ResultIsAnswer
  RequestArrives
  ErrorIsAnswer
