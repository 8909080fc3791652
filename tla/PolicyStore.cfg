SPECIFICATION Spec
CONSTANTS
  Threads <- MCThreads
  Here = "here"
  Policies <- MCPolicies
  Content <- MCContent
  Permits <- MCPermits
  Statements <- MCStatements
  Scenes <- MCScenes
CHECK_DEADLOCK FALSE
INVARIANTS DecidedInForce PollsAgree
PROPERTIES PoliciesSettle
