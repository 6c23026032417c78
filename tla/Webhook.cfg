SPECIFICATION Spec
CONSTANTS
  Glob <- MCGlob
  NoNamespace = "none"
  None = None
  MaxRequests = 4
  Namespaces = {"n1", "n2"}
  NamespaceLabels <- MCLabels
  Configs <- MCConfigs
  Inputs <- MCInputs
  exemptNamespaces = {"n2"}
  Scenarios <- MCScenarios
INVARIANT Enforced
INVARIANT Exempt
INVARIANT MatchersAgree
INVARIANT PathsAgree
INVARIANT ThreadsCounted
PROPERTY Answered
CHECK_DEADLOCK FALSE
