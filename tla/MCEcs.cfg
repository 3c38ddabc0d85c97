CONSTANTS
  Projects <- MCProjects
  Accounts <- MCAccounts
  Normalized <- MCNormalized
  Formats = {"yaml", "json", "toml"}
  Scenarios <- MCScenarios
  Questions <- MCQuestions
  MaxFetches = 4
  ChunkSize = 2
  LogPage = 2
  MaxLines = 3
  MaxTime = 3
  Profiles = {"default", "dev", "test"}
  Regions = {"r1", "r2"}
  Environments <- MCEnvironments
  Options <- MCOptions
  LocalProjects <- MCLocalProjects
  SecretInputs <- MCSecretInputs
  NoFileNames = {"x/y"}
  LastAddress = 5
SPECIFICATION EcsSpec
CHECK_DEADLOCK FALSE
INVARIANTS
  TemplateRight
  StackResult
  AnswersRight
  ContextUsable
  SimulationRight
PROPERTIES
  StackSettles
  LinesFollowed
