SPECIFICATION AciKubeSpec
CONSTANTS
    Clients <- MCClients
    Plans <- MCPlans
    PageSize = 1
    Lengths = {2, 3, 4}
    MaxLines = 3
    MaxRows = 8
    Width = 2
    TailModulus = 4
    Requests <- MCRequests
    MaxOutput = 2
    LoginCases <- MCLoginCases
    Users <- MCUsers
    MaxRequests = 2
    ContextCases <- MCContextCases
    AciCases <- MCAciCases
    AcrRegistries = {"my.azurecr.io"}
    Dotted = {"my.azurecr.io", "priv.io"}
    KubeProjects <- MCKubeProjects
    KubeClients <- MCKubeClients
    KubeCases <- MCKubeCases
    ReleaseNames <- MCReleaseNames
INVARIANTS
  GroupsTold
  
  LogoutHolds
  GroupChosen
  GroupRight
  ChartRight
  ReleasesKept
PROPERTIES
  AzureKept
  LoginEnds
