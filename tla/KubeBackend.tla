---------------------------- MODULE KubeBackend ----------------------------
(***************************************************************************)
(* The Kubernetes backend: the creation of a context, and the up, down and *)
(* ls of clients, each a process of its own, through Helm. A client works  *)
(* under a context that names a cluster; the SDK is made from the settings *)
(* of the environment, which name one too. Helm and the cluster are        *)
(* external: a release has a name and a status, and the calls of Helm may  *)
(* fail where they read and where they write.                              *)
(***************************************************************************)
EXTENDS Naturals, FiniteSets, Sequences

CONSTANTS KubeClients,
          KubeCases,        \* a context to create, or the clients' commands and the releases before them
          ReleaseNames

VARIABLES kubeCase,
          releases,         \* cluster -> name -> the status of the release, or NoRelease
          client,           \* client -> its step
          answer,           \* client -> what ls answered
          kubeFaults,       \* the calls that may still fail
          params,           \* the ContextParams
          contextPc

backendVars == <<kubeCase, releases, client, answer, kubeFaults, params, contextPc>>

NoRelease == "none"
Statuses == {NoRelease, "pending", "deployed", "failed", "uninstalling"}

(* The clients of a case have commands on releases of the cluster, or it is a context to create. *)
ASSUME KubeCasesAssumption ==
    /\ IsFiniteSet(KubeClients)
    /\ \A k \in KubeCases :
        /\ k.releases \in [DOMAIN k.releases -> [ReleaseNames -> Statuses]]
        /\ k.faults \in Nat
        /\ k.commands # <<>> => \A c \in KubeClients : /\ k.commands[c].environment \in DOMAIN k.releases
                                                      /\ k.commands[c].project \in ReleaseNames
                                                      /\ k.commands[c].chart \in {"ok", "error", "panic"}

NoParams == [name |-> "", path |-> "", env |-> FALSE]

KubeBackendInit ==
    /\ kubeCase \in KubeCases
    /\ releases = kubeCase.releases
    /\ client = [c \in KubeClients |-> IF kubeCase.commands = <<>> THEN "idle" ELSE "service"]
    /\ answer = [c \in KubeClients |-> {}]
    /\ kubeFaults = kubeCase.faults
    /\ params = kubeCase.params
    /\ contextPc = IF kubeCase.commands = <<>> THEN "start" ELSE "idle"

KubeBackendIdle ==
    /\ kubeCase = [commands |-> <<>>] /\ releases = {} /\ client = [c \in KubeClients |-> "idle"]
    /\ answer = [c \in KubeClients |-> {}] /\ kubeFaults = 0 /\ params = NoParams /\ contextPc = "idle"

-----------------------------------------------------------------------------
(* The commands. *)

Operation(c) == kubeCase.commands[c].op
Release(c) == kubeCase.commands[c].project
Ends(c, how) == client' = [client EXCEPT ![c] = how]
Goes(c, from, to) == client[c] = from /\ client' = [client EXCEPT ![c] = to]

(* NewSDK is given the context, and takes the settings of the environment. *)
ClusterOf(c) == kubeCase.commands[c].environment
Installed(c) == releases[ClusterOf(c)][Release(c)] # NoRelease

ReleaseIs(c, status) == releases' = [releases EXCEPT ![ClusterOf(c)][Release(c)] = status]
Fault == kubeFaults > 0 /\ kubeFaults' = kubeFaults - 1
Fine == UNCHANGED kubeFaults

service(c) ==
    /\ \/ Goes(c, "service", "convert") /\ Operation(c) = "up"
       \/ Goes(c, "service", "init") /\ Operation(c) \in {"down", "ls"}
       \/ Goes(c, "service", "not implemented") /\ Operation(c) \notin {"up", "down", "ls"}
    /\ UNCHANGED <<kubeCase, releases, answer, kubeFaults, params, contextPc>>

(* The chart comes first: a project that has none never reaches the cluster. *)
Install(c) ==
    /\ client[c] = "convert"
    /\ Ends(c, IF kubeCase.commands[c].chart = "ok" THEN "init" ELSE kubeCase.commands[c].chart)
    /\ UNCHANGED <<kubeCase, releases, answer, kubeFaults, params, contextPc>>

(* A configuration Helm does not take ends the process. *)
initKubeClient(c) ==
    /\ \/ Goes(c, "init", Operation(c)) /\ Fine
       \/ \E how \in {"error", "exit"} : Goes(c, "init", how) /\ Fault
    /\ UNCHANGED <<kubeCase, releases, answer, params, contextPc>>

(* A name in use is refused, whatever its status; a new one is recorded before anything is applied. *)
InstallChart(c) ==
    /\ client[c] = "up"
    /\ \/ Installed(c) /\ Ends(c, "error") /\ UNCHANGED <<releases, kubeFaults>>
       \/ ~Installed(c) /\ Ends(c, "installing") /\ ReleaseIs(c, "pending") /\ Fine
       \/ Ends(c, "error") /\ UNCHANGED releases /\ Fault
    /\ UNCHANGED <<kubeCase, answer, params, contextPc>>

(* What cannot be applied leaves a failed release; a record that has gone meanwhile is not missed. *)
Applied(c) ==
    /\ client[c] = "installing"
    /\ \E end \in {<<"ok", "deployed">>, <<"error", "failed">>} :
         /\ Ends(c, end[1])
         /\ IF end[1] = "ok" THEN Fine ELSE Fault
         /\ IF Installed(c) THEN ReleaseIs(c, end[2]) ELSE UNCHANGED releases
    /\ UNCHANGED <<kubeCase, answer, params, contextPc>>

(* Uninstall looks for the release first. *)
Get(c) ==
    /\ \/ Goes(c, "down", "uninstall") /\ Installed(c) /\ Fine
       \/ Goes(c, "down", "error") /\ ~Installed(c) /\ Fine
       \/ Goes(c, "down", "error") /\ Fault
    /\ UNCHANGED <<kubeCase, releases, answer, params, contextPc>>

(* Mutant: the error of a release that has gone meanwhile is ignored. *)
Uninstall_Ignore(c) ==
    /\ Goes(c, "uninstall", "ok") /\ ReleaseIs(c, NoRelease) /\ Fine
    /\ UNCHANGED <<kubeCase, answer, params, contextPc>>

(* A removal that fails may have removed nothing, a part, or all but an object or two. *)
Uninstall(c) ==
    /\ client[c] = "uninstall"
    /\ \/ Installed(c) /\ Ends(c, "ok") /\ ReleaseIs(c, NoRelease) /\ Fine
       \/ ~Installed(c) /\ Ends(c, "error") /\ UNCHANGED releases /\ Fine
       \/ /\ Installed(c) /\ Ends(c, "error") /\ Fault
          /\ UNCHANGED releases \/ \E left \in {"uninstalling", NoRelease} : ReleaseIs(c, left)
    /\ UNCHANGED <<kubeCase, answer, params, contextPc>>

(* The listing is of releases that are deployed or failed. *)
ListedReleases(c) == { n \in ReleaseNames : releases[ClusterOf(c)][n] \in {"deployed", "failed"} }

ListReleases(c) ==
    /\ \/ Goes(c, "ls", "ok") /\ answer' = [answer EXCEPT ![c] = ListedReleases(c)] /\ Fine
       \/ Goes(c, "ls", "error") /\ UNCHANGED answer /\ Fault
    /\ UNCHANGED <<kubeCase, releases, params, contextPc>>

-----------------------------------------------------------------------------
(* docker context create kubernetes. *)

Contexts(path) == kubeCase.files[path].contexts
ContextGoes(from, to) == contextPc = from /\ contextPc' = to /\ UNCHANGED <<kubeCase, releases, client, answer, kubeFaults>>

CreateContextData ==
    \/ params.env /\ ContextGoes("start", "created") /\ params' = [NoParams EXCEPT !.env = TRUE]
    \/ ~params.env /\ params.path # "" /\ ContextGoes("start", "list") /\ UNCHANGED params
    \/ ~params.env /\ params.path = "" /\ ContextGoes("start", "ask") /\ UNCHANGED params

(* The user picks one of the two ways, or interrupts. *)
SelectKubeContext ==
    \/ ContextGoes("ask", "list") /\ UNCHANGED params
    \/ ContextGoes("ask", "created") /\ params' = [params EXCEPT !.env = TRUE]
    \/ ContextGoes("ask", "canceled") /\ UNCHANGED params

(* The default configuration is loaded even where another one is given. *)
ListAvailableKubeConfigContexts ==
    /\ contextPc = "list"
    /\ UNCHANGED params
    /\ LET default == kubeCase.files[""].state
           given   == IF params.path = "" THEN "ok" ELSE kubeCase.files[params.path].state
       IN  \/ default = "bad" /\ ContextGoes("list", "error")
           \/ default # "bad" /\ given = "ok" /\ ContextGoes("list", "select")
           \/ default # "bad" /\ given \in {"missing", "directory"} /\ ContextGoes("list", "error")
           \/ default # "bad" /\ given = "denied" /\ ContextGoes("list", "panic")
           \/ default # "bad" /\ given = "bad" /\ ContextGoes("list", "exit")

(* Nothing to select from is an error. *)
selectContext ==
    /\ contextPc = "select"
    /\ \/ \E n \in Contexts(params.path) : ContextGoes("select", "created") /\ params' = [params EXCEPT !.name = n]
       \/ ContextGoes("select", "canceled") /\ UNCHANGED params
       \/ Contexts(params.path) = {} /\ ContextGoes("select", "error") /\ UNCHANGED params

-----------------------------------------------------------------------------
BackendEnded == {"idle", "ok", "error", "panic", "exit", "not implemented"}
ClientStep(c) == service(c) \/ Install(c) \/ initKubeClient(c) \/ InstallChart(c) \/ Applied(c) \/ Get(c) \/ Uninstall(c) \/ ListReleases(c)
ContextStep == CreateContextData \/ SelectKubeContext \/ ListAvailableKubeConfigContexts \/ selectContext

KubeBackendDone ==
    /\ \A c \in KubeClients : client[c] \in BackendEnded
    /\ contextPc \notin {"start", "ask", "list", "select"}
    /\ kubeCase # [commands |-> <<>>]
    /\ UNCHANGED backendVars

KubeBackendNext == (\E c \in KubeClients : ClientStep(c)) \/ ContextStep \/ KubeBackendDone

KubeBackendSpec == KubeBackendInit /\ [][KubeBackendNext]_backendVars

-----------------------------------------------------------------------------
ClientsOf(op, states, k, n) == { c \in KubeClients : Operation(c) = op /\ client[c] \in states /\ ClusterOf(c) = k /\ Release(c) = n }
There(status) == IF status = NoRelease THEN 0 ELSE 1

(***************************************************************************)
(* No release is given away twice: the downs that were told they removed   *)
(* it, and what is there now, are no more than what was there and the ups  *)
(* that may have installed it. Of two downs that both found one release    *)
(* only one succeeds, also when a call that removed it was said to fail    *)
(* (Uninstall gets the release first, and removes it later).               *)
(***************************************************************************)
RemovedOnce ==
    kubeCase.commands # <<>> => \A k \in DOMAIN releases, n \in ReleaseNames :
        Cardinality(ClientsOf("down", {"ok"}, k, n)) + There(releases[k][n])
          <= There(kubeCase.releases[k][n]) + Cardinality(ClientsOf("up", {"installing", "ok", "error"}, k, n))

(***************************************************************************)
(* No up takes over the release of another one, a failed or unfinished one *)
(* included, however they are timed: what was there, and the ups that      *)
(* succeeded, are all there still or there was a down for each that is     *)
(* not (InstallChart installs, it never upgrades).                         *)
(***************************************************************************)
InstalledApart ==
    kubeCase.commands # <<>> => \A k \in DOMAIN releases, n \in ReleaseNames :
        There(kubeCase.releases[k][n]) + Cardinality(ClientsOf("up", {"installing", "ok"}, k, n))
          <= There(releases[k][n]) + Cardinality(ClientsOf("down", {"ok", "error"}, k, n))

(***************************************************************************)
(* ls misses no project that was deployed, or failed, before it and that   *)
(* nobody took down, and shows none that nobody brought up (ListReleases). *)
(***************************************************************************)
ListedRight ==
    kubeCase.commands # <<>> => \A c \in KubeClients : Operation(c) = "ls" /\ client[c] = "ok" => \A n \in ReleaseNames :
        LET k == ClusterOf(c) IN
        /\ kubeCase.releases[k][n] \in {"deployed", "failed"} /\ ClientsOf("down", {"ok", "error"}, k, n) = {} => n \in answer[c]
        /\ n \in answer[c] => There(kubeCase.releases[k][n]) = 1 \/ ClientsOf("up", {"installing", "ok", "error"}, k, n) # {}

(***************************************************************************)
(* What the clients that meet at the name of a release are told adds up to *)
(* what is in the cluster, whatever calls of theirs fail (InstallChart,    *)
(* Uninstall, ListReleases).                                               *)
(***************************************************************************)
ReleasesKept == RemovedOnce /\ InstalledApart /\ ListedRight
=============================================================================
