---------------------------- MODULE ComposeStart ----------------------------
(***************************************************************************)
(* composeService.Start (local/compose/start.go, convergence.go): the      *)
(* dependency walk starts the containers of each service, after a wait for *)
(* the dependencies that the compose file wants healthy.                   *)
(*                                                                         *)
(* waitDependencies ranges over depends_on, a map, and starts a poller for *)
(* each condition service_healthy.  A poller asks, at every tick, for the  *)
(* health of the service that the loop variable `dep' holds at that time.  *)
(* isServiceHealthy lists the running containers of that service only.     *)
(***************************************************************************)
EXTENDS DependencyTraversal

CONSTANTS
  ContainersOf,    \* the containers of each service, all created
  WantHealthy,     \* WantHealthy[s]: depends_on of s with service_healthy
  HasCheck,        \* services with a healthcheck
  MayExit,         \* services whose containers may exit
  EngineFaults     \* calls to the engine may fail

ASSUME StartAssumption ==
  /\ DOMAIN ContainersOf = Services
  /\ \A s, t \in Services : s # t => ContainersOf[s] \cap ContainersOf[t] = {}
  /\ WantHealthy \in [Services -> SUBSET Services]
  /\ HasCheck \subseteq Services /\ MayExit \subseteq Services
  /\ EngineFaults \in BOOLEAN

VARIABLES
  state,           \* "created", "running" or "exited", for each container
  health,          \* "none", "starting", "unhealthy" or "healthy"
  local            \* the locals of each startService

startVars == <<state, health, local>>
allVars == <<vars, startVars>>

Containers == UNION {ContainersOf[s] : s \in Services}
ServiceOf(c) == CHOOSE s \in Services : c \in ContainersOf[s]
None == "none"

-----------------------------------------------------------------------------
StartInit ==
  /\ Init /\ direction = "up"
  /\ state = [c \in Containers |-> "created"]
  /\ health = [c \in Containers |-> "none"]
  /\ local = [g \in {} |-> {}]

Walk ==
  /\ WalkOn
  /\ UNCHANGED startVars

(* startService calls waitDependencies.                                    *)
StartService(g) ==
  /\ pc[g] = "fn" /\ g \notin DOMAIN local
  /\ local' = Extended(local, g,
       [at |-> "range", left |-> dependsOn[Service(g)], dep |-> None,
        pollers |-> 0, failed |-> FALSE, toStart |-> {}])
  /\ UNCHANGED <<vars, state, health>>

(* One turn of the loop over depends_on, in the order of a map.            *)
RangeOverDependsOn(g, d) ==
  /\ local[g].at = "range" /\ d \in local[g].left
  /\ local' = [local EXCEPT
       ![g].left = @ \ {d},
       ![g].dep = d,
       ![g].pollers = @ + IF d \in WantHealthy[Service(g)] THEN 1 ELSE 0]
  /\ UNCHANGED <<vars, state, health>>

(* Mutant: a healthcheck that has not failed yet is good enough.           *)
IsServiceHealthy_Starting(s) ==
  LET running == {c \in (IF s \in Services THEN ContainersOf[s] ELSE {}) :
                    state[c] = "running"}
  IN  IF \A c \in running : health[c] # "unhealthy" THEN "yes" ELSE "no"

(* isServiceHealthy.  All the containers of a service have its healthcheck *)
(* or none has one.                                                        *)
IsServiceHealthy(s) ==
  LET running == {c \in (IF s \in Services THEN ContainersOf[s] ELSE {}) :
                    state[c] = "running"}
  IN  CASE running = {} -> "yes"
        [] running # {} /\ s \notin HasCheck -> "error"
        [] OTHER -> IF \A c \in running : health[c] = "healthy" THEN "yes" ELSE "no"

(* A tick of one of the pollers of a visit; they all read the same `dep'.  *)
Poll(g) ==
  /\ local[g].at = "range" /\ local[g].pollers > 0
  /\ \/ /\ IsServiceHealthy(local[g].dep) = "yes"
        /\ local' = [local EXCEPT ![g].pollers = @ - 1]
     \/ /\ IsServiceHealthy(local[g].dep) = "error" \/ EngineFaults
        /\ local' = [local EXCEPT ![g].pollers = @ - 1, ![g].failed = TRUE]
  /\ UNCHANGED <<vars, state, health>>

(* eg.Wait of waitDependencies, then the listing of the containers to      *)
(* start: those that are not running.                                      *)
DependenciesReady(g) ==
  /\ local[g].at = "range" /\ local[g].left = {} /\ local[g].pollers = 0
  /\ ~local[g].failed
  /\ local' = [local EXCEPT ![g].at = "start",
       ![g].toStart = {c \in ContainersOf[Service(g)] : state[c] # "running"}]
  /\ UNCHANGED <<vars, state, health>>

(* The wait, or that listing, fails.                                       *)
WaitFails(g) ==
  /\ local[g].at = "range" /\ local[g].left = {} /\ local[g].pollers = 0
  /\ local[g].failed \/ EngineFaults
  /\ local' = [local EXCEPT ![g].at = "end"]
  /\ FnFails(g)
  /\ UNCHANGED <<state, health>>

(* ContainerStart, in a goroutine per container.  The context of the       *)
(* errgroup is used here: after an error the others may be cancelled.      *)
ContainerStart(g, c) ==
  /\ local[g].at = "start" /\ c \in local[g].toStart
  /\ state' = [state EXCEPT ![c] = "running"]
  /\ health' = [health EXCEPT
       ![c] = IF state[c] = "running" THEN @
              ELSE IF ServiceOf(c) \in HasCheck THEN "starting" ELSE "none"]
  /\ local' = [local EXCEPT ![g].toStart = @ \ {c}]
  /\ UNCHANGED vars

ContainerStartFails(g, c) ==
  /\ local[g].at = "start" /\ c \in local[g].toStart
  /\ EngineFaults \/ local[g].failed
  /\ local' = [local EXCEPT ![g].toStart = @ \ {c}, ![g].failed = TRUE]
  /\ UNCHANGED <<vars, state, health>>

(* Mutant: startService starts its containers again as long as one is not  *)
(* running.                                                                *)
ServiceStarted_Again(g) ==
  /\ local[g].at = "start" /\ local[g].toStart = {}
  /\ LET down == {c \in ContainersOf[Service(g)] : state[c] # "running"}
     IN  IF down # {} /\ ~local[g].failed
           THEN local' = [local EXCEPT ![g].toStart = down] /\ UNCHANGED vars
           ELSE /\ local' = [local EXCEPT ![g].at = "end"]
                /\ IF local[g].failed THEN FnFails(g) ELSE FnReturns(g)
  /\ UNCHANGED <<state, health>>

ServiceStarted(g) ==
  /\ local[g].at = "start" /\ local[g].toStart = {}
  /\ local' = [local EXCEPT ![g].at = "end"]
  /\ IF local[g].failed THEN FnFails(g) ELSE FnReturns(g)
  /\ UNCHANGED <<state, health>>

(* What happens in the containers meanwhile.                               *)
BecomesHealthy(c) ==
  /\ state[c] = "running" /\ health[c] \in {"starting", "unhealthy"}
  /\ health' = [health EXCEPT ![c] = "healthy"]
  /\ UNCHANGED <<vars, state, local>>

BecomesUnhealthy(c) ==
  /\ state[c] = "running" /\ health[c] = "starting"
  /\ health' = [health EXCEPT ![c] = "unhealthy"]
  /\ UNCHANGED <<vars, state, local>>

Exits(c) ==
  /\ ServiceOf(c) \in MayExit /\ state[c] = "running"
  /\ state' = [state EXCEPT ![c] = "exited"]
  /\ UNCHANGED <<vars, health, local>>

StartProgress ==
  \/ Walk
  \/ \E g \in goroutines : StartService(g)
  \/ \E g \in DOMAIN local :
       \/ Poll(g) \/ DependenciesReady(g) \/ WaitFails(g) \/ ServiceStarted(g)
       \/ \E d \in Names : RangeOverDependsOn(g, d)
       \/ \E c \in Containers : ContainerStart(g, c) \/ ContainerStartFails(g, c)

Environment ==
  \E c \in Containers : BecomesHealthy(c) \/ BecomesUnhealthy(c) \/ Exits(c)

StartTerminated == returned /\ UNCHANGED allVars

StartNext == StartProgress \/ Environment \/ StartTerminated

(* Goroutines are scheduled, engine calls return, and a healthcheck passes *)
(* in the end: Start has no timeout of its own.                            *)
StartSpec ==
  /\ StartInit /\ [][StartNext]_allVars
  /\ WF_allVars(StartProgress)
  /\ \A c \in Containers : WF_allVars(BecomesHealthy(c))

-----------------------------------------------------------------------------
Begun(s) == \E c \in ContainersOf[s] : state[c] # "created"
Up(s)    == \A c \in ContainersOf[s] : state[c] # "created"

(* No container is started before all the containers of the services it    *)
(* depends on have been.                                                   *)
StartedAfterDependencies ==
  \A s \in Services : Begun(s) => \A d \in Children(s) : Up(d)

(* The containers of d are healthy, or have exited: isServiceHealthy looks *)
(* at the running ones only, so that a service whose containers have all   *)
(* exited counts as healthy.  A service that the walk visits twice may be  *)
(* started again after it was found so, and one that the project does not  *)
(* have counts as healthy.                                                 *)
AllHealthy(d) == \A c \in ContainersOf[d] : health[c] = "healthy" \/ state[c] = "exited"
VisitedTwice(d) == \E g, h \in Workers : g # h /\ Service(g) = d /\ Service(h) = d
Found(d) == d \notin Services \/ AllHealthy(d) \/ VisitedTwice(d)

(* No container is started before a dependency was found healthy, if the   *)
(* compose file wants any to be: the only one, if there is one.  Of        *)
(* several it may be one alone, since all pollers ask for the dependency   *)
(* that the loop has come to; it is the one the loop ended at, if that one *)
(* is to be healthy.                                                       *)
Wanted(s) == WantHealthy[s] \cap dependsOn[s]
HealthyFirst ==
  /\ \A s \in Services :
       Begun(s) /\ Wanted(s) # {} => \E d \in dependsOn[s] : Found(d)
  /\ \A g \in DOMAIN local :
       local[g].at = "start" /\ local[g].dep \in Wanted(Service(g)) => Found(local[g].dep)

(* Start returns.                                                          *)
StartEnds == <>returned

(***************************************************************************)
(* No container is started before its dependencies: all their containers   *)
(* have been started and, where the compose file asks for healthy ones,    *)
(* one of them was found healthy, the one that the loop over depends_on    *)
(* ended at if it must be: the code promises no more of the others         *)
(* (waitDependencies, startService).                                       *)
(***************************************************************************)
StartedWhenReady == StartedAfterDependencies /\ HealthyFirst
=============================================================================
