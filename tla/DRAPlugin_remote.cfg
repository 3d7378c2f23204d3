\* One call with all messages and paths: the refinement of RemoteCall.
CONSTANTS
  Nil = Nil
  EmptyStr = ""
  Str = {"", "a", "b", "c", "ns"}
  Calls = {c1}
  Paths <- MCPaths
  Requests <- MCRequests
  Answers <- MCAnswers
  Codes <- MCCodes
  Plugins <- MCSoundPlugins
SPECIFICATION Spec
PROPERTY IsRemoteCall
