------------------------ MODULE ComposeStart_proofs ------------------------
(***************************************************************************)
(* Proofs about Start, for any services, containers, healthchecks and      *)
(* faults of the engine, about what up, run and logs show of the           *)
(* containers, and about the containers of the local backend.              *)
(***************************************************************************)
EXTENDS ComposeStart, ComposeAttach, LocalContainers, DependencyTraversal_proofs

Locals == [at : {"range", "start", "end"}, left : SUBSET Names, dep : Names \cup {None},
           pollers : Nat, failed : BOOLEAN, toStart : SUBSET Containers]

(* The locals of the calls of startService, and how they follow the walk.  *)
StartShape ==
  /\ direction = "up" /\ dependsOn \in Projects
  /\ state \in [Containers -> {"created", "running", "exited"}]
  /\ health \in [Containers -> {"none", "starting", "unhealthy", "healthy"}]
  /\ local \in [DOMAIN local -> Locals]
  /\ \A g \in DOMAIN local :
       /\ g \in Workers
       /\ local[g].at = "end" <=> pc[g] # "fn"
       /\ local[g].toStart \subseteq ContainersOf[Service(g)]
       /\ local[g].at # "start" => local[g].toStart = {}
  /\ \A g \in Workers : pc[g] # "fn" =>
       g \in DOMAIN local /\ (pc[g] # "failed" => ~local[g].failed)

(* A container is started by a call on its service; a call that has got to *)
(* its containers and met no error has started those it no longer has.     *)
StartedByCall ==
  /\ \A s \in Services : Begun(s) => \E g \in Workers : Service(g) = s
  /\ \A g \in DOMAIN local : local[g].at = "start" /\ ~local[g].failed =>
       \A c \in ContainersOf[Service(g)] : state[c] # "created" \/ c \in local[g].toStart

(* Where fn has succeeded every container has been started.                *)
AppliedUp == \A s \in Applied : Up(s)

StartInv == IndInv /\ StartShape /\ StartedByCall /\ AppliedUp

-----------------------------------------------------------------------------
(* A service has its containers to itself.                                 *)
LEMMA ContainersFacts ==
  ASSUME NEW s \in Services
  PROVE  /\ ContainersOf[s] \subseteq Containers
         /\ \A t \in Services : \A c \in ContainersOf[s] : c \in ContainersOf[t] => s = t
BY StartAssumption DEF Containers

(* A step that leaves the walk alone keeps what is defined from it.        *)
LEMMA StartIdle ==
  ASSUME StartInv, UNCHANGED vars
  PROVE  /\ IndInv' /\ Workers' = Workers /\ goroutines' = goroutines
         /\ Applied' = Applied /\ pc' = pc /\ returned' = returned
         /\ direction' = direction /\ dependsOn' = dependsOn
BY WalkIdle DEF StartInv, vars

(* At first no container is started and no call under way.                 *)
LEMMA StartInitInv == StartInit => StartInv
<1> SUFFICES ASSUME StartInit PROVE StartInv
  OBVIOUS
<1>1. IndInv /\ goroutines = {} /\ Workers = {} /\ Applied = {}
  BY InitInv DEF StartInit, Init, goroutines, Workers, Applied
<1>2. StartShape
  BY <1>1 DEF StartInit, StartShape, Init
<1>3. StartedByCall /\ AppliedUp
  BY <1>1, ContainersFacts DEF StartInit, StartedByCall, AppliedUp, Begun
<1> QED BY <1>1, <1>2, <1>3 DEF StartInv

(* The walk between calls touches no container.                            *)
LEMMA StartWalkInv ==
  ASSUME StartInv, Walk
  PROVE  StartInv'
<1>1. UNCHANGED <<state, health, local>> /\ WalkOn
  BY DEF Walk, startVars
<1>2. /\ IndInv' /\ direction' = direction /\ dependsOn' = dependsOn
      /\ Workers \subseteq Workers'
      /\ \A g \in Workers : pc'[g] = pc[g] \/ (pc[g] = "update" /\ pc'[g] = "scan")
      /\ \A g \in Workers' \ Workers : pc'[g] = "fn"
      /\ Applied' = Applied
  BY <1>1, WalkOnFacts, GraphFixed DEF StartInv
<1>3. StartShape'
  <2>1. \A g \in Workers : pc[g] = "fn" <=> pc'[g] = "fn"
    BY <1>2
  <2>2. \A g \in Workers' : pc'[g] # "fn" => g \in Workers /\ pc[g] # "fn"
                             /\ (pc'[g] # "failed" => pc[g] # "failed")
    BY <1>2
  <2> QED BY <2>1, <2>2, <1>1, <1>2 DEF StartInv, StartShape, Service
<1>4. StartedByCall' /\ AppliedUp'
  BY <1>1, <1>2 DEF StartInv, StartedByCall, AppliedUp, Begun, Up, Service
<1> QED BY <1>2, <1>3, <1>4 DEF StartInv

(* What happens in the containers starts none.                             *)
LEMMA EnvironmentInv ==
  ASSUME StartInv, Environment
  PROVE  StartInv'
<1>1. /\ UNCHANGED vars /\ UNCHANGED local
      /\ state' \in [Containers -> {"created", "running", "exited"}]
      /\ health' \in [Containers -> {"none", "starting", "unhealthy", "healthy"}]
      /\ \A c \in Containers : state'[c] = "created" <=> state[c] = "created"
  BY DEF Environment, BecomesHealthy, BecomesUnhealthy, Exits, StartInv, StartShape
<1>2. /\ IndInv' /\ Workers' = Workers /\ Applied' = Applied /\ pc' = pc
      /\ direction' = direction /\ dependsOn' = dependsOn
  BY <1>1, StartIdle
<1>3. StartShape'
  BY <1>1, <1>2 DEF StartInv, StartShape, Service
<1>4. \A g \in Workers : Service(g) \in Services
  BY WorkerService DEF StartInv, IndInv
<1>5. Applied \subseteq Services
  BY <1>4 DEF Applied
<1>6. StartedByCall'
  <2>1. \A s \in Services : Begun(s)' = Begun(s)
    BY <1>1, ContainersFacts DEF Begun
  <2>2. \A g \in DOMAIN local : \A c \in ContainersOf[Service(g)] :
          state'[c] = "created" <=> state[c] = "created"
    BY <1>1, <1>4, ContainersFacts DEF StartInv, StartShape
  <2> QED BY <2>1, <2>2, <1>1, <1>2 DEF StartInv, StartedByCall, Service
<1>7. AppliedUp'
  BY <1>1, <1>2, <1>5, ContainersFacts DEF StartInv, AppliedUp, Up
<1> QED BY <1>2, <1>3, <1>6, <1>7 DEF StartInv

(* waitDependencies, and the listing after it.                             *)
LEMMA WaitingStepsInv ==
  ASSUME StartInv, NEW g \in goroutines,
         \/ StartService(g)
         \/ /\ g \in DOMAIN local
            /\ \/ Poll(g) \/ DependenciesReady(g)
               \/ \E d \in Names : RangeOverDependsOn(g, d)
  PROVE  StartInv'
<1>1. UNCHANGED vars /\ UNCHANGED <<state, health>>
  BY DEF StartService, Poll, DependenciesReady, RangeOverDependsOn
<1>2. /\ IndInv' /\ Workers' = Workers /\ Applied' = Applied /\ pc' = pc
      /\ direction' = direction /\ dependsOn' = dependsOn
  BY <1>1, StartIdle
<1>3. g \in Workers /\ Service(g) \in Services /\ pc[g] = "fn"
  <2>1. pc[g] = "fn"
    BY DEF StartService, Poll, DependenciesReady, RangeOverDependsOn, StartInv, StartShape
  <2>2. g \in Workers
    BY <2>1 DEF StartInv, IndInv, Shape, Workers
  <2> QED BY <2>1, <2>2, WorkerService DEF StartInv, IndInv
<1>4. /\ DOMAIN local' = DOMAIN local \cup {g} /\ local' \in [DOMAIN local' -> Locals]
      /\ \A h \in DOMAIN local : h # g => local'[h] = local[h]
      /\ local'[g].at \in {"range", "start"}
      /\ local'[g].at # "start" => local'[g].toStart = {}
      /\ local'[g].at = "start" =>
           local'[g].toStart = {c \in ContainersOf[Service(g)] : state[c] # "running"}
  <2>1. CASE StartService(g)
    <3>1. dependsOn[Service(g)] \in SUBSET Names
      BY <1>3 DEF StartInv, IndInv, TypeOK
    <3> DEFINE call == [at |-> "range", left |-> dependsOn[Service(g)], dep |-> None,
                        pollers |-> 0, failed |-> FALSE, toStart |-> {}]
    <3>2. call \in Locals /\ local' = Extended(local, g, call)
      BY <2>1, <3>1 DEF StartService, Locals
    <3>3. call.at = "range" /\ call.toStart = {}
      OBVIOUS
    <3> QED BY <3>2, <3>3 DEF Extended, StartInv, StartShape
  <2>2. CASE g \in DOMAIN local /\ \E d \in Names : RangeOverDependsOn(g, d)
    <3>1. PICK d \in Names : RangeOverDependsOn(g, d)
      BY <2>2
    <3>2. local[g] \in Locals /\ local[g].toStart = {} /\ local[g].at = "range"
      BY <2>2, <3>1 DEF RangeOverDependsOn, StartInv, StartShape
    <3> DEFINE n == local[g].pollers + IF d \in WantHealthy[Service(g)] THEN 1 ELSE 0
               r == [local[g] EXCEPT !.left = @ \ {d}, !.dep = d, !.pollers = n]
    <3>3. n \in Nat
      BY <3>2 DEF Locals
    <3>4. r \in Locals /\ r.at = "range" /\ r.toStart = {}
      BY <3>2, <3>3 DEF Locals
    <3>5. local' = [local EXCEPT ![g] = r]
      BY <3>1 DEF RangeOverDependsOn
    <3> QED BY <2>2, <3>4, <3>5 DEF StartInv, StartShape
  <2>3. CASE g \in DOMAIN local /\ Poll(g)
    <3>1. local[g] \in Locals /\ local[g].toStart = {} /\ local[g].at = "range"
      BY <2>3 DEF Poll, StartInv, StartShape
    <3>2. PICK r \in Locals : local' = [local EXCEPT ![g] = r] /\ r.at = "range" /\ r.toStart = {}
      <4> DEFINE n == local[g].pollers - 1
                 r1 == [local[g] EXCEPT !.pollers = n]
                 r2 == [local[g] EXCEPT !.pollers = n, !.failed = TRUE]
      <4>1. n \in Nat
        BY <2>3, <3>1 DEF Locals, Poll
      <4>2. r1 \in Locals /\ r2 \in Locals
        BY <4>1, <3>1 DEF Locals
      <4>3. r1.at = "range" /\ r1.toStart = {} /\ r2.at = "range" /\ r2.toStart = {}
        BY <3>1 DEF Locals
      <4>4. local' = [local EXCEPT ![g] = r1] \/ local' = [local EXCEPT ![g] = r2]
        BY <2>3 DEF Poll
      <4> QED BY <4>2, <4>3, <4>4
    <3> QED BY <2>3, <3>2 DEF StartInv, StartShape
  <2>4. CASE g \in DOMAIN local /\ DependenciesReady(g)
    <3> DEFINE S == {c \in ContainersOf[Service(g)] : state[c] # "running"}
               r == [local[g] EXCEPT !.at = "start", !.toStart = S]
    <3>1. S \in SUBSET Containers /\ local[g] \in Locals
      BY <1>3, <2>4, ContainersFacts DEF StartInv, StartShape
    <3>2. r \in Locals /\ r.at = "start" /\ r.toStart = S
      BY <3>1 DEF Locals
    <3>3. local' = [local EXCEPT ![g] = r]
      BY <2>4 DEF DependenciesReady
    <3> QED BY <2>4, <3>2, <3>3 DEF StartInv, StartShape
  <2> QED BY <2>1, <2>2, <2>3, <2>4
<1>5. StartShape'
  <2>1. ASSUME NEW h \in DOMAIN local'
        PROVE  /\ h \in Workers
               /\ local'[h].at = "end" <=> pc[h] # "fn"
               /\ local'[h].toStart \subseteq ContainersOf[Service(h)]
               /\ local'[h].at # "start" => local'[h].toStart = {}
    <3>1. CASE h = g
      BY <3>1, <1>3, <1>4
    <3>2. CASE h # g
      BY <3>2, <1>4 DEF StartInv, StartShape
    <3> QED BY <3>1, <3>2
  <2>2. ASSUME NEW h \in Workers, pc[h] # "fn"
        PROVE  h \in DOMAIN local' /\ (pc[h] # "failed" => ~local'[h].failed)
    BY <2>2, <1>3, <1>4 DEF StartInv, StartShape
  <2> QED BY <2>1, <2>2, <1>1, <1>2, <1>4 DEF StartInv, StartShape, Service
<1>6. StartedByCall'
  <2>1. \A s \in Services : Begun(s)' = Begun(s)
    BY <1>1 DEF Begun
  <2>2. ASSUME NEW h \in DOMAIN local', local'[h].at = "start", ~local'[h].failed,
               NEW c \in ContainersOf[Service(h)]
        PROVE  state[c] # "created" \/ c \in local'[h].toStart
    <3>1. CASE h = g
      BY <2>2, <3>1, <1>4
    <3>2. CASE h # g
      BY <2>2, <3>2, <1>4 DEF StartInv, StartedByCall
    <3> QED BY <3>1, <3>2
  <2> QED BY <2>1, <2>2, <1>1, <1>2 DEF StartInv, StartedByCall, Service
<1>7. AppliedUp'
  BY <1>1, <1>2 DEF StartInv, AppliedUp, Up
<1> QED BY <1>2, <1>5, <1>6, <1>7 DEF StartInv

(* The goroutines that start the containers.                               *)
LEMMA StartingInv ==
  ASSUME StartInv, NEW g \in DOMAIN local, NEW c \in Containers,
         ContainerStart(g, c) \/ ContainerStartFails(g, c)
  PROVE  StartInv'
<1>1. /\ UNCHANGED vars /\ local[g].at = "start" /\ c \in local[g].toStart
  BY DEF ContainerStart, ContainerStartFails
<1>2. /\ IndInv' /\ Workers' = Workers /\ Applied' = Applied /\ pc' = pc
      /\ direction' = direction /\ dependsOn' = dependsOn
  BY <1>1, StartIdle
<1>3. /\ g \in Workers /\ \A h \in Workers : Service(h) \in Services
      /\ c \in ContainersOf[Service(g)]
  BY <1>1, WorkerService DEF StartInv, IndInv, StartShape
<1>4. /\ DOMAIN local' = DOMAIN local /\ local' \in [DOMAIN local' -> Locals]
      /\ \A h \in DOMAIN local : h # g => local'[h] = local[h]
      /\ local'[g].at = "start" /\ local'[g].toStart = local[g].toStart \ {c}
      /\ local[g].failed => local'[g].failed
      /\ ContainerStartFails(g, c) => local'[g].failed
  <2> DEFINE S  == local[g].toStart \ {c}
             r1 == [local[g] EXCEPT !.toStart = S]
             r2 == [local[g] EXCEPT !.toStart = S, !.failed = TRUE]
  <2>1. local[g] \in Locals /\ local \in [DOMAIN local -> Locals]
    BY DEF StartInv, StartShape
  <2>2. r1 \in Locals /\ r1.at = "start" /\ r1.toStart = S /\ r1.failed = local[g].failed
    BY <2>1, <1>1 DEF Locals
  <2>3. r2 \in Locals /\ r2.at = "start" /\ r2.toStart = S /\ r2.failed
    BY <2>1, <1>1 DEF Locals
  <2>4. CASE ContainerStartFails(g, c)
    <3>1. local' = [local EXCEPT ![g] = r2]
      BY <2>4 DEF ContainerStartFails
    <3> QED BY <3>1, <2>1, <2>3
  <2>5. CASE ContainerStart(g, c) /\ ~ContainerStartFails(g, c)
    <3>1. local' = [local EXCEPT ![g] = r1]
      BY <2>5 DEF ContainerStart
    <3> QED BY <3>1, <2>1, <2>2, <2>5
  <2> QED BY <2>4, <2>5
<1>5. /\ state' \in [Containers -> {"created", "running", "exited"}]
      /\ health' \in [Containers -> {"none", "starting", "unhealthy", "healthy"}]
      /\ \A d \in Containers : state[d] # "created" => state'[d] # "created"
      /\ \A d \in Containers : d # c => state'[d] = state[d]
      /\ local'[g].failed \/ state'[c] # "created"
  BY <1>4 DEF ContainerStart, ContainerStartFails, StartInv, StartShape
<1>6. StartShape'
  <2>1. ASSUME NEW h \in DOMAIN local'
        PROVE  /\ h \in Workers
               /\ local'[h].at = "end" <=> pc[h] # "fn"
               /\ local'[h].toStart \subseteq ContainersOf[Service(h)]
               /\ local'[h].at # "start" => local'[h].toStart = {}
    <3>1. CASE h = g
      BY <3>1, <1>1, <1>3, <1>4 DEF StartInv, StartShape
    <3>2. CASE h # g
      BY <3>2, <1>4 DEF StartInv, StartShape
    <3> QED BY <3>1, <3>2
  <2>2. ASSUME NEW h \in Workers, pc[h] # "fn"
        PROVE  h \in DOMAIN local' /\ (pc[h] # "failed" => ~local'[h].failed)
    BY <2>2, <1>1, <1>4 DEF StartInv, StartShape
  <2> QED BY <2>1, <2>2, <1>2, <1>4, <1>5 DEF StartInv, StartShape, Service
<1>7. StartedByCall'
  <2>1. ASSUME NEW s \in Services, Begun(s)'
        PROVE  \E h \in Workers : Service(h) = s
    <3>1. PICK d \in ContainersOf[s] : state'[d] # "created"
      BY <2>1 DEF Begun
    <3>2. CASE d = c
      BY <3>1, <3>2, <1>3, ContainersFacts
    <3>3. CASE d # c
      BY <3>1, <3>3, <1>5, ContainersFacts DEF StartInv, StartedByCall, Begun
    <3> QED BY <3>2, <3>3
  <2>2. ASSUME NEW h \in DOMAIN local', local'[h].at = "start", ~local'[h].failed,
               NEW d \in ContainersOf[Service(h)]
        PROVE  state'[d] # "created" \/ d \in local'[h].toStart
    <3>0. d \in Containers
      BY <1>3, <1>4, ContainersFacts DEF StartInv, StartShape
    <3>1. CASE h = g
      BY <2>2, <3>0, <3>1, <1>1, <1>4, <1>5 DEF StartInv, StartedByCall
    <3>2. CASE h # g
      BY <2>2, <3>0, <3>2, <1>4, <1>5 DEF StartInv, StartedByCall
    <3> QED BY <3>1, <3>2
  <2> QED BY <2>1, <2>2, <1>2 DEF StartedByCall, Service
<1>8. AppliedUp'
  <2>1. Applied \subseteq Services
    BY <1>3 DEF Applied
  <2> QED BY <2>1, <1>2, <1>5, ContainersFacts DEF StartInv, AppliedUp, Up
<1> QED BY <1>2, <1>6, <1>7, <1>8 DEF StartInv

(* startService returns nil only when it has started every container.      *)
LEMMA CallEndsInv ==
  ASSUME StartInv, NEW g \in DOMAIN local, WaitFails(g) \/ ServiceStarted(g)
  PROVE  StartInv'
<1>1. /\ UNCHANGED <<state, health>>
      /\ local' = [local EXCEPT ![g].at = "end"]
      /\ FnReturns(g) \/ FnFails(g)
      /\ local[g].toStart = {} /\ local[g].at \in {"range", "start"}
  BY DEF WaitFails, ServiceStarted, StartInv, StartShape
<1>2. g \in Workers /\ local \in [DOMAIN local -> Locals]
  BY DEF StartInv, StartShape
<1>3. /\ IndInv' /\ direction' = direction /\ dependsOn' = dependsOn
      /\ Workers' = Workers /\ pc[g] = "fn"
      /\ \A q \in Workers :
           pc'[q] = IF q # g THEN pc[q] ELSE IF FnReturns(g) THEN "update" ELSE "failed"
      /\ Applied' = Applied \cup IF FnReturns(g) THEN {Service(g)} ELSE {}
  BY <1>1, <1>2, FnFacts, GraphFixed DEF StartInv
<1>4. FnReturns(g) => ~local[g].failed /\ local[g].at = "start"
  <2>1. FnFails(g) => ~FnReturns(g)
    BY <1>2 DEF FnReturns, FnFails, StartInv, IndInv, TypeOK, Workers
  <2> QED BY <2>1 DEF WaitFails, ServiceStarted
<1>5. /\ DOMAIN local' = DOMAIN local
      /\ local' \in [DOMAIN local' -> Locals]
      /\ \A h \in DOMAIN local :
           /\ local'[h].at = IF h = g THEN "end" ELSE local[h].at
           /\ local'[h].toStart = local[h].toStart /\ local'[h].failed = local[h].failed
  BY <1>1, <1>2 DEF Locals
<1>6. StartShape'
  <2>1. ASSUME NEW h \in DOMAIN local'
        PROVE  /\ h \in Workers
               /\ local'[h].at = "end" <=> pc'[h] # "fn"
               /\ local'[h].toStart \subseteq ContainersOf[Service(h)]
               /\ local'[h].at # "start" => local'[h].toStart = {}
    BY <1>1, <1>2, <1>3, <1>5 DEF StartInv, StartShape
  <2>2. ASSUME NEW h \in Workers, pc'[h] # "fn"
        PROVE  h \in DOMAIN local' /\ (pc'[h] # "failed" => ~local'[h].failed)
    BY <2>2, <1>2, <1>3, <1>4, <1>5 DEF StartInv, StartShape
  <2> QED BY <2>1, <2>2, <1>1, <1>3, <1>5 DEF StartInv, StartShape, Service
<1>7. StartedByCall'
  BY <1>1, <1>3, <1>5 DEF StartInv, StartedByCall, Begun, Service
<1>8. AppliedUp'
  <2>1. FnReturns(g) => Up(Service(g))
    BY <1>1, <1>4 DEF StartInv, StartedByCall, Up
  <2> QED BY <2>1, <1>1, <1>3 DEF StartInv, AppliedUp, Up
<1> QED BY <1>3, <1>6, <1>7, <1>8 DEF StartInv

(* The invariant is inductive.                                             *)
LEMMA StartNextInv ==
  ASSUME StartInv, [StartNext]_allVars
  PROVE  StartInv'
<1>1. CASE UNCHANGED allVars
  <2>1. UNCHANGED vars /\ UNCHANGED <<state, health, local>>
    BY <1>1 DEF allVars, startVars
  <2>2. /\ IndInv' /\ Workers' = Workers /\ Applied' = Applied /\ pc' = pc
        /\ direction' = direction /\ dependsOn' = dependsOn
    BY <2>1, StartIdle
  <2> QED BY <2>1, <2>2 DEF StartInv, StartShape, StartedByCall, AppliedUp, Begun, Up, Service
<1>2. DOMAIN local \subseteq goroutines
  BY DEF StartInv, StartShape, Workers
<1> QED BY <1>1, <1>2, StartWalkInv, EnvironmentInv, WaitingStepsInv, StartingInv, CallEndsInv
        DEF StartNext, StartProgress, StartTerminated

(* The invariant holds in every state of every call of Start.              *)
LEMMA StartInvariance == StartSpec => []StartInv
<1>1. StartInv /\ [StartNext]_allVars => StartInv'
  BY StartNextInv
<1> QED BY <1>1, StartInitInv, PTL DEF StartSpec

(* A container started means a call on its service, which the walk makes   *)
(* only after the calls on the dependencies succeeded.                     *)
LEMMA OrderFromStart == StartInv => StartedAfterDependencies
<1> SUFFICES ASSUME StartInv, NEW s \in Services, Begun(s), NEW d \in Children(s)
             PROVE  Up(d)
  BY DEF StartedAfterDependencies
<1>1. PICK g \in Workers : Service(g) = s
  BY DEF StartInv, StartedByCall
<1>2. d \in Applied
  BY <1>1, OrderFromInv DEF StartInv, StartShape, DependencyOrder, Before
<1> QED BY <1>2 DEF StartInv, AppliedUp

(* No container is started before all the containers of the services that  *)
(* its service depends on have been (start.go, Start; convergence.go,      *)
(* startService).                                                          *)
THEOREM StartIsOrdered == StartSpec => []StartedAfterDependencies
BY StartInvariance, OrderFromStart, PTL

-----------------------------------------------------------------------------
(* A call has found a dependency healthy once it has ranged over those it  *)
(* wants to be and its pollers are done; so has it the one the loop is at. *)
Satisfied(s) == Wanted(s) # {} => \E d \in dependsOn[s] : Found(d)
PolledBy(g) ==
  LET s == Service(g) IN
    /\ local[g].at = "range" =>
         /\ local[g].left \subseteq dependsOn[s]
         /\ local[g].pollers > 0 => local[g].dep \in dependsOn[s]
    /\ local[g].at = "range" /\ ~local[g].failed /\ local[g].pollers = 0 =>
         /\ Wanted(s) \subseteq local[g].left \/ Satisfied(s)
         /\ local[g].dep \in Wanted(s) \ local[g].left => Found(local[g].dep)
    /\ local[g].at = "start" =>
         /\ Satisfied(s)
         /\ local[g].dep \in Wanted(s) => Found(local[g].dep)
Polled == \A g \in DOMAIN local : PolledBy(g)

HealthInv == StartInv /\ Polled /\ HealthyFirst

(* Every step of Start is one of the walk or leaves the walk alone.        *)
LEMMA StartStepsWalk ==
  ASSUME StartInv, [StartNext]_allVars
  PROVE  [Next]_vars
<1>1. CASE Walk
  BY <1>1 DEF Walk, Next, Progress
<1>2. CASE \E g \in DOMAIN local : WaitFails(g) \/ ServiceStarted(g)
  <2>1. DOMAIN local \subseteq goroutines
    BY DEF StartInv, StartShape, Workers
  <2> QED BY <1>2, <2>1 DEF WaitFails, ServiceStarted, Next, Progress
<1>3. CASE UNCHANGED vars
  BY <1>3
<1> QED BY <1>1, <1>2, <1>3
        DEF StartNext, StartProgress, StartTerminated, Environment, StartService, Poll,
            DependenciesReady, RangeOverDependsOn, ContainerStart, ContainerStartFails,
            BecomesHealthy, BecomesUnhealthy, Exits, allVars

(* The dependencies of a service that is visited have had their own calls. *)
LEMMA DependenciesApplied ==
  ASSUME StartInv, NEW g \in Workers
  PROVE  /\ Service(g) \in Services
         /\ \A d \in dependsOn[Service(g)] : d \in Services => d \in Applied
<1>1. direction = "up" /\ IndInv /\ Service(g) \in Services
  BY WorkerService DEF StartInv, StartShape, IndInv
<1> QED BY <1>1, OrderFromInv DEF DependencyOrder, Before, Children

(* The calls that are under way stay.                                      *)
LEMMA CallsStay ==
  ASSUME StartInv, [StartNext]_allVars
  PROVE  Workers \subseteq Workers'
<1>1. CASE Walk
  BY <1>1, WalkOnFacts DEF Walk, StartInv
<1>2. CASE \E g \in DOMAIN local : WaitFails(g) \/ ServiceStarted(g)
  <2>1. DOMAIN local \subseteq Workers
    BY DEF StartInv, StartShape
  <2> QED BY <1>2, <2>1, FnFacts DEF WaitFails, ServiceStarted, StartInv
<1>3. CASE UNCHANGED vars
  BY <1>3, StartIdle
<1> QED BY <1>1, <1>2, <1>3
        DEF StartNext, StartProgress, StartTerminated, Environment, StartService, Poll,
            DependenciesReady, RangeOverDependsOn, ContainerStart, ContainerStartFails,
            BecomesHealthy, BecomesUnhealthy, Exits, allVars

(* What was found healthy, or exited, stays so: only a second call on the  *)
(* service might start it again.                                           *)
LEMMA FoundStays ==
  ASSUME StartInv, [StartNext]_allVars, NEW d, d \in Services => d \in Applied, Found(d)
  PROVE  Found(d)'
<1>1. CASE d \notin Services
  BY <1>1 DEF Found
<1>2. CASE VisitedTwice(d)
  <2>1. Workers \subseteq Workers'
    BY CallsStay
  <2> QED BY <1>2, <2>1 DEF Found, VisitedTwice, Service
<1>3. CASE d \in Services /\ AllHealthy(d) /\ ~VisitedTwice(d)
  <2> SUFFICES ASSUME NEW c \in ContainersOf[d]
               PROVE  health'[c] = "healthy" \/ state'[c] = "exited"
    BY DEF Found, AllHealthy
  <2>1. d \in Applied /\ c \in Containers /\ (health[c] = "healthy" \/ state[c] = "exited")
    BY <1>3, ContainersFacts DEF AllHealthy
  <2>2. CASE \E g \in DOMAIN local : \E b \in Containers : ContainerStart(g, b)
    <3>1. PICK g \in DOMAIN local : \E b \in Containers : ContainerStart(g, b)
      BY <2>2
    <3>2. PICK b \in Containers : ContainerStart(g, b)
      BY <3>1
    <3>3. b # c
      <4> SUFFICES ASSUME b = c PROVE FALSE
        OBVIOUS
      <4>1. g \in Workers /\ c \in ContainersOf[Service(g)] /\ pc[g] = "fn"
        BY <3>2 DEF ContainerStart, StartInv, StartShape
      <4>2. Service(g) = d
        BY <4>1, <1>3, WorkerService, ContainersFacts DEF StartInv, IndInv
      <4>3. PICK h \in Workers : pc[h] \in {"update", "scan"} /\ Service(h) = d
        BY <2>1 DEF Applied
      <4> QED BY <4>1, <4>2, <4>3, <1>3 DEF VisitedTwice
    <3> QED BY <3>2, <3>3, <2>1 DEF ContainerStart, StartInv, StartShape
  <2>3. CASE Environment
    BY <2>1, <2>3 DEF Environment, BecomesHealthy, BecomesUnhealthy, Exits, StartInv, StartShape
  <2>4. CASE UNCHANGED <<state, health>>
    BY <2>1, <2>4
  <2> QED BY <2>2, <2>3, <2>4
          DEF StartNext, StartProgress, StartTerminated, Walk, startVars, StartService, Poll,
              DependenciesReady, RangeOverDependsOn, WaitFails, ServiceStarted,
              ContainerStartFails, allVars
<1> QED BY <1>1, <1>2, <1>3 DEF Found

(* So does what was found for a call.                                      *)
LEMMA FindingsStay ==
  ASSUME StartInv, [StartNext]_allVars, NEW g \in Workers
  PROVE  /\ dependsOn' = dependsOn /\ Wanted(Service(g))' = Wanted(Service(g))
         /\ Satisfied(Service(g)) => Satisfied(Service(g))'
         /\ \A d \in dependsOn[Service(g)] : Found(d) => Found(d)'
<1>1. dependsOn' = dependsOn
  BY StartStepsWalk, GraphFixed
<1>2. Wanted(Service(g))' = Wanted(Service(g))
  BY <1>1 DEF Wanted, Service
<1>3. \A d \in dependsOn[Service(g)] : Found(d) => Found(d)'
  BY DependenciesApplied, FoundStays
<1>4. SUFFICES ASSUME Satisfied(Service(g)) PROVE Satisfied(Service(g))'
  BY <1>1, <1>2, <1>3
<1>5. SUFFICES ASSUME Wanted(Service(g)) # {} PROVE (\E d \in dependsOn[Service(g)] : Found(d))'
  BY <1>2 DEF Satisfied
<1>6. PICK d \in dependsOn[Service(g)] : Found(d)
  BY <1>4, <1>5 DEF Satisfied
<1>7. Found(d)' /\ d \in (dependsOn[Service(g)])'
  BY <1>1, <1>3, <1>6 DEF Service
<1> QED BY <1>7

(* A poll that finds a service healthy that has been started finds each of *)
(* its containers healthy or exited.                                       *)
LEMMA PollFinds ==
  ASSUME StartInv, NEW d, d \in Services => d \in Applied, IsServiceHealthy(d) = "yes"
  PROVE  Found(d)
<1> SUFFICES ASSUME d \in Services, NEW c \in ContainersOf[d]
             PROVE  health[c] = "healthy" \/ state[c] = "exited"
  BY DEF Found, AllHealthy
<1>2. c \in Containers /\ state[c] \in {"running", "exited"}
  BY ContainersFacts DEF StartInv, StartShape, AppliedUp, Up
<1> DEFINE running == {b \in ContainersOf[d] : state[b] = "running"}
<1>3. running = {} \/ \A b \in running : health[b] = "healthy"
  BY DEF IsServiceHealthy
<1> QED BY <1>2, <1>3

(* The steps of one call keep Polled for it.                               *)
LEMMA PolledStep ==
  ASSUME HealthInv, [StartNext]_allVars, StartInv'
  PROVE  Polled'
<1>0. StartInv /\ Polled
  BY DEF HealthInv
<1>1. \A g \in DOMAIN local : PolledBy(g) /\ g \in Workers /\ local[g] \in Locals
  BY <1>0 DEF Polled, StartInv, StartShape
<1>3. ASSUME NEW g \in DOMAIN local, local'[g] = local[g] PROVE PolledBy(g)'
  <2>1. PICK s : s = Service(g) /\ s = Service(g)'
    BY DEF Service
  <2>2. /\ dependsOn' = dependsOn /\ Wanted(s)' = Wanted(s)
        /\ Satisfied(s) => Satisfied(s)'
        /\ \A d \in dependsOn[s] : Found(d) => Found(d)'
    BY <1>0, <1>1, <2>1, FindingsStay
  <2>3. Wanted(s) \subseteq dependsOn[s]
    BY DEF Wanted
  <2> QED BY <1>1, <1>3, <2>1, <2>2, <2>3 DEF PolledBy
<1>4. SUFFICES ASSUME NEW g \in DOMAIN local', g \notin DOMAIN local \/ local'[g] # local[g]
               PROVE  PolledBy(g)'
  BY <1>3 DEF Polled
<1>20. g \in Workers'
  BY <1>4 DEF StartInv, StartShape
<1>21. PICK s : s = Service(g) /\ s = Service(g)'
  BY DEF Service
<1>22. dependsOn' = dependsOn /\ Wanted(s)' = Wanted(s) /\ Wanted(s) \subseteq dependsOn[s]
  BY <1>0, StartStepsWalk, GraphFixed DEF Wanted
<1>23. g \in DOMAIN local =>
         /\ Satisfied(s) => Satisfied(s)'
         /\ \A d \in dependsOn[s] : Found(d) => Found(d)'
         /\ \A d \in dependsOn[s] : d \in Services => d \in Applied
  BY <1>0, <1>1, <1>21, FindingsStay, DependenciesApplied
<1>5. CASE StartService(g)
  <2>1. local'[g] = [at |-> "range", left |-> dependsOn[s], dep |-> None,
                     pollers |-> 0, failed |-> FALSE, toStart |-> {}]
    BY <1>5, <1>21 DEF StartService, Extended
  <2> QED BY <2>1, <1>21, <1>22 DEF PolledBy
<1>6. CASE g \in DOMAIN local /\ \E d \in Names : RangeOverDependsOn(g, d)
  <2>1. PICK d \in Names : RangeOverDependsOn(g, d)
    BY <1>6
  <2>2. PICK r \in Locals : r = local[g]
    BY <1>1, <1>6
  <2>3. r.at = "range" /\ d \in r.left /\ r.left \subseteq dependsOn[s]
    BY <1>1, <1>6, <1>21, <2>1, <2>2 DEF RangeOverDependsOn, PolledBy
  <2>4. PICK n \in Nat : /\ n = r.pollers + IF d \in WantHealthy[s] THEN 1 ELSE 0
                         /\ n = 0 => r.pollers = 0 /\ d \notin WantHealthy[s]
    BY <2>2 DEF Locals
  <2>5. local'[g] = [r EXCEPT !.left = @ \ {d}, !.dep = d, !.pollers = n]
    BY <1>6, <1>21, <2>1, <2>2, <2>4 DEF RangeOverDependsOn
  <2>6. PICK q : q = local'[g] /\ q.at = "range" /\ q.left = r.left \ {d} /\ q.dep = d
                 /\ q.pollers = n /\ q.failed = r.failed
    BY <2>2, <2>3, <2>5 DEF Locals
  <2>7. ~q.failed /\ n = 0 => Wanted(s) \subseteq q.left \/ Satisfied(s)
    BY <1>1, <1>6, <1>21, <2>2, <2>3, <2>4, <2>6 DEF PolledBy, Wanted
  <2>8. n = 0 => d \notin Wanted(s)
    BY <2>4 DEF Wanted
  <2> QED BY <1>6, <1>21, <1>22, <1>23, <2>3, <2>6, <2>7, <2>8 DEF PolledBy
<1>7. CASE g \in DOMAIN local /\ Poll(g)
  <2>1. PICK r \in Locals : r = local[g]
    BY <1>1, <1>7
  <2>2. r.at = "range" /\ r.pollers > 0 /\ r.left \subseteq dependsOn[s] /\ r.dep \in dependsOn[s]
    BY <1>1, <1>7, <1>21, <2>1 DEF Poll, PolledBy
  <2>3. \/ local'[g] = [r EXCEPT !.pollers = @ - 1] /\ IsServiceHealthy(r.dep) = "yes"
        \/ local'[g] = [r EXCEPT !.pollers = @ - 1, !.failed = TRUE]
    BY <1>7, <2>1 DEF Poll
  <2>4. PICK q : /\ q = local'[g] /\ q.at = "range" /\ q.left = r.left /\ q.dep = r.dep
                 /\ q.failed \/ IsServiceHealthy(r.dep) = "yes"
    BY <2>2, <2>3 DEF Locals
  <2>5. ~q.failed => Found(r.dep)
    BY <1>0, <1>7, <1>23, <2>2, <2>4, PollFinds
  <2>6. ~q.failed => Satisfied(s)
    BY <2>2, <2>5 DEF Satisfied
  <2> QED BY <1>7, <1>21, <1>22, <1>23, <2>2, <2>4, <2>5, <2>6 DEF PolledBy
<1>8. CASE g \in DOMAIN local /\ DependenciesReady(g)
  <2>1. PICK r \in Locals : r = local[g]
    BY <1>1, <1>8
  <2>2. r.at = "range" /\ r.pollers = 0 /\ r.left = {} /\ ~r.failed
    BY <1>8, <2>1 DEF DependenciesReady
  <2>3. local'[g].at = "start" /\ local'[g].dep = r.dep
    BY <1>8, <2>1, <2>2 DEF DependenciesReady, Locals
  <2>4. Satisfied(s) /\ (r.dep \in Wanted(s) => Found(r.dep))
    BY <1>1, <1>8, <1>21, <2>1, <2>2 DEF PolledBy, Satisfied
  <2> QED BY <1>8, <1>21, <1>22, <1>23, <2>3, <2>4 DEF PolledBy
<1>9. CASE g \in DOMAIN local /\ \E c \in Containers :
             ContainerStart(g, c) \/ ContainerStartFails(g, c)
  <2>1. PICK r \in Locals : r = local[g]
    BY <1>1, <1>9
  <2>2. r.at = "start" /\ local'[g].at = "start" /\ local'[g].dep = r.dep
    BY <1>9, <2>1 DEF ContainerStart, ContainerStartFails, Locals
  <2>3. Satisfied(s) /\ (r.dep \in Wanted(s) => Found(r.dep))
    BY <1>1, <1>9, <1>21, <2>1, <2>2 DEF PolledBy
  <2> QED BY <1>9, <1>21, <1>22, <1>23, <2>2, <2>3 DEF PolledBy
<1>10. CASE g \in DOMAIN local /\ (WaitFails(g) \/ ServiceStarted(g))
  <2>1. local'[g].at = "end"
    BY <1>10, <1>0 DEF WaitFails, ServiceStarted, StartInv, StartShape, Locals
  <2> QED BY <2>1 DEF PolledBy
<1>11. CASE \E h \in goroutines : StartService(h)
  <2>1. PICK h \in goroutines : StartService(h)
    BY <1>11
  <2>2. /\ DOMAIN local' = DOMAIN local \cup {h}
        /\ \A i \in DOMAIN local' : i # h => local'[i] = local[i]
    BY <2>1 DEF StartService, Extended
  <2>3. h = g
    BY <1>4, <2>2
  <2> QED BY <2>1, <2>3, <1>5
<1>12. CASE \E h \in DOMAIN local :
              \/ Poll(h) \/ DependenciesReady(h) \/ WaitFails(h) \/ ServiceStarted(h)
              \/ \E d \in Names : RangeOverDependsOn(h, d)
              \/ \E c \in Containers : ContainerStart(h, c) \/ ContainerStartFails(h, c)
  <2>1. PICK h \in DOMAIN local :
              \/ Poll(h) \/ DependenciesReady(h) \/ WaitFails(h) \/ ServiceStarted(h)
              \/ \E d \in Names : RangeOverDependsOn(h, d)
              \/ \E c \in Containers : ContainerStart(h, c) \/ ContainerStartFails(h, c)
    BY <1>12
  <2>2. /\ DOMAIN local' = DOMAIN local
        /\ \A i \in DOMAIN local : i # h => local'[i] = local[i]
    BY <2>1 DEF Poll, DependenciesReady, WaitFails, ServiceStarted, RangeOverDependsOn,
                ContainerStart, ContainerStartFails
  <2>3. h = g /\ g \in DOMAIN local
    BY <1>4, <2>2
  <2> QED BY <2>1, <2>3, <1>6, <1>7, <1>8, <1>9, <1>10
<1>13. local' # local
  BY <1>4
<1> QED
  BY <1>11, <1>12, <1>13
     DEF StartNext, StartProgress, StartTerminated, Walk, startVars,
         Environment, BecomesHealthy, BecomesUnhealthy, Exits, allVars

(* A service begins when a call on it has found a dependency healthy.      *)
LEMMA HealthyFirstStep ==
  ASSUME HealthInv, [StartNext]_allVars, Polled', StartInv'
  PROVE  HealthyFirst'
<1>0. StartInv /\ Polled /\ HealthyFirst /\ dependsOn' = dependsOn
  BY StartStepsWalk, GraphFixed DEF HealthInv
<1>1. \A s \in Services : Begun(s)' => Satisfied(s)'
  <2> SUFFICES ASSUME NEW s \in Services, Begun(s)' PROVE Satisfied(s)'
    OBVIOUS
  <2>1. CASE Begun(s)
    <3>1. Satisfied(s)
      BY <1>0, <2>1 DEF HealthyFirst, Satisfied
    <3>2. PICK w \in Workers : Service(w) = s
      BY <1>0, <2>1 DEF StartInv, StartedByCall
    <3>3. Satisfied(Service(w))'
      BY <1>0, <3>1, <3>2, FindingsStay
    <3>4. Service(w)' = s
      BY <3>2 DEF Service
    <3> QED BY <3>3, <3>4 DEF Satisfied, Wanted
  <2>2. CASE ~Begun(s)
    <3>1. PICK c \in ContainersOf[s] : state[c] = "created" /\ state'[c] # "created"
      BY <2>2 DEF Begun
    <3>2. c \in Containers
      BY <3>1, ContainersFacts
    <3>3. \E g \in DOMAIN local : \E b \in Containers : ContainerStart(g, b)
      BY <3>1, <3>2, <1>0
         DEF StartNext, StartProgress, StartTerminated, Walk, startVars, StartService, Poll,
             DependenciesReady, RangeOverDependsOn, WaitFails, ServiceStarted,
             ContainerStartFails, allVars, Environment, BecomesHealthy, BecomesUnhealthy, Exits,
             StartInv, StartShape
    <3>4. PICK g \in DOMAIN local, b \in Containers : ContainerStart(g, b)
      BY <3>3
    <3>5. b = c
      BY <3>1, <3>2, <3>4, <1>0 DEF ContainerStart, StartInv, StartShape
    <3>6. g \in Workers /\ c \in ContainersOf[Service(g)] /\ local[g].at = "start"
      BY <3>4, <3>5, <1>0 DEF ContainerStart, StartInv, StartShape
    <3>7. Service(g) = s
      BY <3>1, <3>6, <1>0, DependenciesApplied, ContainersFacts
    <3>8. Satisfied(Service(g))'
      BY <3>4, <3>6, <1>0, FindingsStay DEF Polled, PolledBy
    <3>9. Service(g)' = s
      BY <3>7 DEF Service
    <3> QED BY <3>8, <3>9 DEF Satisfied, Wanted
  <2> QED BY <2>1, <2>2
<1> QED BY <1>1 DEF HealthyFirst, Satisfied, Polled, PolledBy

(* HealthInv is inductive.                                                 *)
LEMMA HealthNextInv ==
  ASSUME HealthInv, [StartNext]_allVars
  PROVE  HealthInv'
<1>1. StartInv'
  BY StartNextInv DEF HealthInv
<1> QED BY <1>1, PolledStep, HealthyFirstStep DEF HealthInv

(* It holds when Start is called.                                          *)
LEMMA HealthInitInv == StartInit => HealthInv
<1> SUFFICES ASSUME StartInit PROVE HealthInv
  OBVIOUS
<1>1. StartInv
  BY StartInitInv
<1>3. Polled
  BY DEF StartInit, Polled
<1>4. HealthyFirst
  BY ContainersFacts DEF StartInit, HealthyFirst, Begun
<1> QED BY <1>1, <1>3, <1>4 DEF HealthInv

(* In any project, with any conditions, no container is started before all *)
(* the containers of its dependencies have been started and, where the     *)
(* compose file asks for healthy ones, a dependency was found healthy: the *)
(* one that the loop over depends_on ended at, if it must be               *)
(* (convergence.go, waitDependencies, isServiceHealthy, startService).     *)
THEOREM StartWaitsForHealth == StartSpec => []StartedWhenReady
<1>1. HealthInv /\ [StartNext]_allVars => HealthInv'
  BY HealthNextInv
<1>2. HealthInv => StartedWhenReady
  BY OrderFromStart DEF HealthInv, StartedWhenReady
<1> QED BY <1>1, <1>2, HealthInitInv, PTL DEF StartSpec

-----------------------------------------------------------------------------
(***************************************************************************)
(* What is shown of the containers (ComposeAttach).  First the texts: the  *)
(* recursions that join pieces and split lines are shown to define         *)
(* something, and the lines of a text to be those of its parts, where the  *)
(* first part ends with a line.                                            *)
(***************************************************************************)
TextStep(f, pieces, n) == IF n = 0 THEN <<>> ELSE f[n - 1] \o pieces[n]

(* There is a function of the kind that TextOf defines, for the first pieces and so for all of them. *)
LEMMA TextExists ==
  ASSUME NEW S, NEW pieces \in Seq(Seq(S))
  PROVE  \E f \in [0 .. Len(pieces) -> Seq(S)] : f = [n \in 0 .. Len(pieces) |-> TextStep(f, pieces, n)]
<1> DEFINE Is(f, m) == f \in [0 .. m -> Seq(S)] /\ \A n \in 0 .. m : f[n] = TextStep(f, pieces, n)
<1> DEFINE T == {m \in Nat : m <= Len(pieces) => \E f : Is(f, m)}
<1>0. Len(pieces) \in Nat /\ \A n \in 1 .. Len(pieces) : pieces[n] \in Seq(S)
  OBVIOUS
<1>1. 0 \in T
  <2> DEFINE f == [n \in 0 .. 0 |-> <<>>]
  <2>1. f \in [0 .. 0 -> Seq(S)]
    OBVIOUS
  <2>2. \A n \in 0 .. 0 : f[n] = TextStep(f, pieces, n)
    BY DEF TextStep
  <2> QED BY <2>1, <2>2
<1>2. \A m \in T : m + 1 \in T
  <2>0. \A m \in Nat : (m + 1 <= Len(pieces) => \E f : Is(f, m + 1)) => m + 1 \in T
    <3> HIDE DEF Is
    <3> QED OBVIOUS
  <2>1. SUFFICES ASSUME NEW m \in T, m + 1 <= Len(pieces) PROVE \E f : Is(f, m + 1)
    <3> HIDE DEF Is
    <3> QED BY <2>0
  <2>2. m \in Nat /\ m <= Len(pieces)
    BY <1>0, <2>1
  <2>3. PICK f : Is(f, m)
    <3> HIDE DEF Is
    <3> QED BY <2>1, <2>2
  <2> DEFINE g == [n \in 0 .. m + 1 |-> IF n = m + 1 THEN f[m] \o pieces[m + 1] ELSE f[n]]
  <2>4. f[m] \in Seq(S) /\ pieces[m + 1] \in Seq(S)
    BY <1>0, <2>1, <2>2, <2>3
  <2>4a. f[m] \o pieces[m + 1] \in Seq(S)
    BY <2>4, ConcatProperties
  <2>5. g \in [0 .. m + 1 -> Seq(S)]
    <3>1. ASSUME NEW n \in 0 .. m + 1 PROVE (IF n = m + 1 THEN f[m] \o pieces[m + 1] ELSE f[n]) \in Seq(S)
      BY <2>2, <2>3, <2>4a
    <3> QED BY <3>1
  <2>6. ASSUME NEW n \in 0 .. m + 1 PROVE g[n] = TextStep(g, pieces, n)
    <3>1. CASE n = m + 1
      <4>1. n # 0 /\ n - 1 = m /\ m \in 0 .. m + 1 /\ m # m + 1
        BY <2>2, <3>1
      <4>2. g[n] = f[m] \o pieces[m + 1] /\ g[m] = f[m]
        BY <3>1, <4>1
      <4>3. TextStep(g, pieces, n) = g[m] \o pieces[n]
        BY <4>1 DEF TextStep
      <4> QED BY <3>1, <4>2, <4>3
    <3>2. CASE n # m + 1
      <4>1. n \in 0 .. m
        BY <2>2, <3>2
      <4>2. g[n] = f[n] /\ f[n] = TextStep(f, pieces, n)
        BY <2>3, <3>2, <4>1
      <4>3. CASE n = 0
        BY <4>2, <4>3 DEF TextStep
      <4>4. CASE n # 0
        <5>1. n - 1 \in 0 .. m + 1 /\ n - 1 # m + 1
          BY <2>2, <4>1, <4>4
        <5>2. g[n - 1] = f[n - 1]
          BY <5>1
        <5> QED BY <4>2, <4>4, <5>2 DEF TextStep
      <4> QED BY <4>3, <4>4
    <3> QED BY <3>1, <3>2
  <2> HIDE DEF g
  <2>7. Is(g, m + 1)
    BY <2>5, <2>6
  <2> QED BY <2>7
<1>3. T = Nat
  <2> HIDE DEF T
  <2>1. T \subseteq Nat
    BY DEF T
  <2> QED BY <1>1, <1>2, <2>1, NatSetInduction
<1>4. PICK f : Is(f, Len(pieces))
  <2> HIDE DEF Is
  <2>1. Len(pieces) \in T
    <3> HIDE DEF T
    <3> QED BY <1>0, <1>3
  <2> QED BY <1>0, <2>1
<1>5. f = [n \in 0 .. Len(pieces) |-> f[n]]
  BY <1>4
<1>6. f = [n \in 0 .. Len(pieces) |-> TextStep(f, pieces, n)]
  BY <1>4, <1>5
<1> QED BY <1>4, <1>6

(* The text after n pieces: nothing at first, then one piece more each time. *)
LEMMA TextGrows ==
  ASSUME NEW S, NEW pieces \in Seq(Seq(S))
  PROVE  /\ TextOf(pieces) \in [0 .. Len(pieces) -> Seq(S)]
         /\ TextOf(pieces)[0] = <<>>
         /\ \A n \in 0 .. Len(pieces) - 1 : TextOf(pieces)[n + 1] = TextOf(pieces)[n] \o pieces[n + 1]
<1>1. TextOf(pieces) = CHOOSE f : f = [n \in 0 .. Len(pieces) |-> TextStep(f, pieces, n)]
  BY DEF TextOf, TextStep
<1>2. PICK f \in [0 .. Len(pieces) -> Seq(S)] : f = [n \in 0 .. Len(pieces) |-> TextStep(f, pieces, n)]
  BY TextExists
<1>3. TextOf(pieces) = [n \in 0 .. Len(pieces) |-> TextStep(TextOf(pieces), pieces, n)]
  BY <1>1, <1>2
<1> DEFINE h == TextOf(pieces)
<1>4. h = [n \in 0 .. Len(pieces) |-> TextStep(h, pieces, n)] /\ Len(pieces) \in Nat
  <2>1. Len(pieces) \in Nat
    OBVIOUS
  <2> QED BY <1>3, <2>1
<1> HIDE DEF h
<1>5. h[0] = <<>>
  BY <1>4 DEF TextStep
<1>6. \A n \in 0 .. Len(pieces) - 1 : h[n + 1] = h[n] \o pieces[n + 1]
  <2>1. SUFFICES ASSUME NEW n \in 0 .. Len(pieces) - 1 PROVE h[n + 1] = h[n] \o pieces[n + 1]
    OBVIOUS
  <2>2. n + 1 \in 0 .. Len(pieces) /\ n + 1 # 0 /\ (n + 1) - 1 = n
    BY <1>4
  <2>3. h[n + 1] = TextStep(h, pieces, n + 1)
    BY <1>4, <2>2
  <2> QED BY <2>2, <2>3 DEF TextStep
<1>7. \A n \in 0 .. Len(pieces) : h[n] \in Seq(S)
  <2> DEFINE T == {m \in Nat : m <= Len(pieces) => h[m] \in Seq(S)}
  <2>1. 0 \in T
    <3>1. <<>> \in Seq(S)
      OBVIOUS
    <3> QED BY <1>5, <3>1
  <2>2. \A m \in T : m + 1 \in T
    <3>1. SUFFICES ASSUME NEW m \in T, m + 1 <= Len(pieces) PROVE h[m + 1] \in Seq(S)
      OBVIOUS
    <3>2. m \in 0 .. Len(pieces) - 1 /\ h[m] \in Seq(S) /\ m + 1 \in 1 .. Len(pieces)
      BY <1>4, <3>1
    <3>3. pieces[m + 1] \in Seq(S)
      BY <3>2
    <3> QED BY <1>6, <3>2, <3>3, ConcatProperties
  <2>3. T = Nat
    <3> HIDE DEF T
    <3>1. T \subseteq Nat
      BY DEF T
    <3> QED BY <2>1, <2>2, <3>1, NatSetInduction
  <2>4. SUFFICES ASSUME NEW n \in 0 .. Len(pieces) PROVE h[n] \in Seq(S)
    OBVIOUS
  <2>5. n \in Nat /\ n <= Len(pieces)
    BY <1>4
  <2>6. n \in T
    <3> HIDE DEF T
    <3> QED BY <2>3, <2>5
  <2> QED BY <2>5, <2>6
<1>8. h \in [0 .. Len(pieces) -> Seq(S)]
  <2>1. h = [n \in 0 .. Len(pieces) |-> h[n]]
    BY <1>4
  <2> QED BY <1>7, <2>1
<1> QED BY <1>5, <1>6, <1>8 DEF h


(* How the lines of a text come about: the lines that ended, and the one that did not. *)
SplitStep(f, b, n) ==
    IF n = 0 THEN << <<>>, <<>> >>
    ELSE IF b[n] = NewLine THEN << WithLine(f[n - 1]), <<>> >> ELSE << f[n - 1][1], Append(f[n - 1][2], b[n]) >>
SplitOf(b) == CHOOSE f : f = [n \in 0 .. Len(b) |-> SplitStep(f, b, n)]
SplitType(S) == Seq(Seq(S)) \X Seq(S)

(* The unfinished line is kept with the others. *)
LEMMA WithLineType ==
  ASSUME NEW S, NEW s \in SplitType(S)
  PROVE  WithLine(s) \in Seq(Seq(S)) /\ s[1] \in Seq(Seq(S)) /\ s[2] \in Seq(S)
<1>1. s[1] \in Seq(Seq(S)) /\ s[2] \in Seq(S)
  BY DEF SplitType
<1> QED BY <1>1 DEF WithLine

(* A step from a pair of lines and a line makes one. *)
LEMMA SplitStepType ==
  ASSUME NEW S, NEW b \in Seq(S), NEW f, NEW n \in 0 .. Len(b), n # 0 => f[n - 1] \in SplitType(S)
  PROVE  SplitStep(f, b, n) \in SplitType(S)
<1>1. <<>> \in Seq(S) /\ <<>> \in Seq(Seq(S))
  OBVIOUS
<1>2. CASE n = 0
  BY <1>1, <1>2 DEF SplitStep, SplitType
<1>3. CASE n # 0
  <2>1. PICK s : s = f[n - 1]
    OBVIOUS
  <2>2. WithLine(s) \in Seq(Seq(S)) /\ s[1] \in Seq(Seq(S)) /\ s[2] \in Seq(S)
    BY <1>3, <2>1, WithLineType
  <2>3. b[n] \in S
    BY <1>3
  <2>4. Append(s[2], b[n]) \in Seq(S)
    BY <2>2, <2>3
  <2> QED BY <1>1, <1>3, <2>1, <2>2, <2>4 DEF SplitStep, SplitType
<1> QED BY <1>2, <1>3

(* There is such a function, for each beginning of the text and so for all of it. *)
LEMMA SplitExists ==
  ASSUME NEW S, NEW b \in Seq(S)
  PROVE  \E f \in [0 .. Len(b) -> SplitType(S)] : f = [n \in 0 .. Len(b) |-> SplitStep(f, b, n)]
<1> DEFINE Is(f, m) == f \in [0 .. m -> SplitType(S)] /\ \A n \in 0 .. m : f[n] = SplitStep(f, b, n)
<1> DEFINE T == {m \in Nat : m <= Len(b) => \E f : Is(f, m)}
<1>0. Len(b) \in Nat
  OBVIOUS
<1>1. 0 \in T
  <2> DEFINE f == [n \in 0 .. 0 |-> << <<>>, <<>> >>]
  <2>1. << <<>>, <<>> >> \in SplitType(S)
    <3>1. <<>> \in Seq(S) /\ <<>> \in Seq(Seq(S))
      OBVIOUS
    <3> QED BY <3>1 DEF SplitType
  <2>2. f \in [0 .. 0 -> SplitType(S)]
    BY <2>1
  <2>3. \A n \in 0 .. 0 : f[n] = SplitStep(f, b, n)
    BY DEF SplitStep
  <2> HIDE DEF f
  <2>4. Is(f, 0)
    BY <2>2, <2>3
  <2> HIDE DEF Is
  <2> QED BY <2>4
<1>2. \A m \in T : m + 1 \in T
  <2>0. \A m \in Nat : (m + 1 <= Len(b) => \E f : Is(f, m + 1)) => m + 1 \in T
    <3> HIDE DEF Is
    <3> QED OBVIOUS
  <2>1. SUFFICES ASSUME NEW m \in T, m + 1 <= Len(b) PROVE \E f : Is(f, m + 1)
    <3> HIDE DEF Is
    <3> QED BY <2>0
  <2>2. m \in Nat /\ m <= Len(b)
    BY <1>0, <2>1
  <2>3. PICK f : Is(f, m)
    <3> HIDE DEF Is
    <3> QED BY <2>1, <2>2
  <2>4. PICK last : last = SplitStep(f, b, m + 1)
    OBVIOUS
  <2>5. last \in SplitType(S)
    <3>1. m + 1 \in 0 .. Len(b) /\ (m + 1) - 1 = m /\ m \in 0 .. m
      BY <1>0, <2>1, <2>2
    <3>2. f[m] \in SplitType(S)
      BY <2>3, <3>1
    <3> QED BY <2>4, <3>1, <3>2, SplitStepType
  <2> DEFINE g == [n \in 0 .. m + 1 |-> IF n = m + 1 THEN last ELSE f[n]]
  <2>6. g \in [0 .. m + 1 -> SplitType(S)]
    <3>1. ASSUME NEW n \in 0 .. m + 1 PROVE (IF n = m + 1 THEN last ELSE f[n]) \in SplitType(S)
      BY <2>2, <2>3, <2>5
    <3> QED BY <3>1
  <2>7. ASSUME NEW n \in 0 .. m + 1 PROVE g[n] = SplitStep(g, b, n)
    <3>0. n = 0 \/ (n - 1 \in 0 .. m + 1 /\ n - 1 # m + 1)
      BY <2>2
    <3>1. n = 0 \/ g[n - 1] = f[n - 1]
      BY <3>0
    <3>2. SplitStep(g, b, n) = SplitStep(f, b, n)
      <4> HIDE DEF g
      <4> QED BY <3>1 DEF SplitStep
    <3>3. CASE n = m + 1
      BY <2>4, <3>2, <3>3
    <3>4. CASE n # m + 1
      <4>1. n \in 0 .. m
        BY <2>2, <3>4
      <4>2. g[n] = f[n] /\ f[n] = SplitStep(f, b, n)
        BY <2>3, <3>4, <4>1
      <4> QED BY <3>2, <4>2
    <3> QED BY <3>3, <3>4
  <2> HIDE DEF g
  <2>8. Is(g, m + 1)
    BY <2>6, <2>7
  <2> HIDE DEF Is
  <2> QED BY <2>8
<1>3. T = Nat
  <2> HIDE DEF T
  <2>1. T \subseteq Nat
    BY DEF T
  <2> QED BY <1>1, <1>2, <2>1, NatSetInduction
<1>4. PICK f : Is(f, Len(b))
  <2> HIDE DEF Is
  <2>1. Len(b) \in T
    <3> HIDE DEF T
    <3> QED BY <1>0, <1>3
  <2> QED BY <1>0, <2>1
<1>5. f = [n \in 0 .. Len(b) |-> f[n]]
  BY <1>4
<1>6. f = [n \in 0 .. Len(b) |-> SplitStep(f, b, n)]
  BY <1>4, <1>5
<1> QED BY <1>4, <1>6

(* The lines of a text are those of the split, which goes a letter at a time. *)
LEMMA SplitGrows ==
  ASSUME NEW S, NEW b \in Seq(S)
  PROVE  /\ LinesOf(b) = WithLine(SplitOf(b)[Len(b)])
         /\ SplitOf(b)[0] = << <<>>, <<>> >>
         /\ \A n \in 0 .. Len(b) : SplitOf(b)[n] \in SplitType(S)
         /\ \A n \in 0 .. Len(b) - 1 : SplitOf(b)[n + 1] = IF b[n + 1] = NewLine THEN << WithLine(SplitOf(b)[n]), <<>> >>
                                                           ELSE << SplitOf(b)[n][1], Append(SplitOf(b)[n][2], b[n + 1]) >>
<1>0. LinesOf(b) = WithLine(SplitOf(b)[Len(b)])
  BY DEF LinesOf, SplitOf, SplitStep
<1>1. PICK f \in [0 .. Len(b) -> SplitType(S)] : f = [n \in 0 .. Len(b) |-> SplitStep(f, b, n)]
  BY SplitExists
<1>2. SplitOf(b) = [n \in 0 .. Len(b) |-> SplitStep(SplitOf(b), b, n)]
  BY <1>1 DEF SplitOf
<1> DEFINE h == SplitOf(b)
<1>3. h = [n \in 0 .. Len(b) |-> SplitStep(h, b, n)] /\ Len(b) \in Nat
  <2>1. Len(b) \in Nat
    OBVIOUS
  <2> QED BY <1>2, <2>1
<1> HIDE DEF h
<1>4. h[0] = << <<>>, <<>> >>
  BY <1>3 DEF SplitStep
<1>5. ASSUME NEW n \in 0 .. Len(b) - 1
      PROVE  h[n + 1] = IF b[n + 1] = NewLine THEN << WithLine(h[n]), <<>> >> ELSE << h[n][1], Append(h[n][2], b[n + 1]) >>
  <2>1. n + 1 \in 0 .. Len(b) /\ n + 1 # 0 /\ (n + 1) - 1 = n
    BY <1>3
  <2>2. h[n + 1] = SplitStep(h, b, n + 1)
    BY <1>3, <2>1
  <2> QED BY <2>1, <2>2 DEF SplitStep
<1>6. \A n \in 0 .. Len(b) : h[n] \in SplitType(S)
  <2> DEFINE T == {m \in Nat : m <= Len(b) => h[m] \in SplitType(S)}
  <2>1. 0 \in T
    <3>1. 0 \in 0 .. Len(b) /\ h[0] = SplitStep(h, b, 0)
      BY <1>3
    <3>2. h[0] \in SplitType(S)
      BY <3>1, SplitStepType
    <3> QED BY <3>2
  <2>2. \A m \in T : m + 1 \in T
    <3>1. SUFFICES ASSUME NEW m \in T, m + 1 <= Len(b) PROVE h[m + 1] \in SplitType(S)
      OBVIOUS
    <3>2. m \in Nat /\ m + 1 \in 0 .. Len(b) /\ (m + 1) - 1 = m /\ h[m] \in SplitType(S)
      BY <1>3, <3>1
    <3>3. h[m + 1] = SplitStep(h, b, m + 1)
      BY <1>3, <3>2
    <3> QED BY <3>2, <3>3, SplitStepType
  <2>3. T = Nat
    <3> HIDE DEF T
    <3>1. T \subseteq Nat
      BY DEF T
    <3> QED BY <2>1, <2>2, <3>1, NatSetInduction
  <2>4. SUFFICES ASSUME NEW n \in 0 .. Len(b) PROVE h[n] \in SplitType(S)
    OBVIOUS
  <2>5. n \in Nat /\ n <= Len(b)
    BY <1>3
  <2>6. n \in T
    <3> HIDE DEF T
    <3> QED BY <2>3, <2>5
  <2> QED BY <2>5, <2>6
<1> QED BY <1>0, <1>4, <1>5, <1>6 DEF h

(* A text begins with no line. *)
LEMMA NoLines == LinesOf(<<>>) = <<>>
<1>1. <<>> \in Seq({}) /\ Len(<<>>) = 0
  OBVIOUS
<1>2. LinesOf(<<>>) = WithLine(SplitOf(<<>>)[0]) /\ SplitOf(<<>>)[0] = << <<>>, <<>> >>
  BY <1>1, SplitGrows
<1> QED BY <1>2 DEF WithLine

(* The lines of a text are those of its two parts, where the first ends with a line. *)
LEMMA LinesJoined ==
  ASSUME NEW S, NEW a \in Seq(S), NEW b \in Seq(S), a # <<>>, a[Len(a)] = NewLine
  PROVE  LinesOf(a \o b) = LinesOf(a) \o LinesOf(b)
<1> DEFINE w == a \o b
           A == SplitOf(a)
           B == SplitOf(b)
           W == SplitOf(w)
           i == Len(a)
           j == Len(b)
<1>1. w \in Seq(S) /\ i \in Nat /\ j \in Nat /\ Len(w) = i + j /\ i > 0
  BY ConcatProperties
<1>2. (\A n \in 1 .. i : w[n] = a[n]) /\ (\A n \in 1 .. j : w[i + n] = b[n])
  BY ConcatProperties
<1>3. a[i] = NewLine
  OBVIOUS
<1>4. /\ LinesOf(a) = WithLine(A[i]) /\ A[0] = << <<>>, <<>> >> /\ (\A n \in 0 .. i : A[n] \in SplitType(S))
      /\ \A n \in 0 .. i - 1 : A[n + 1] = IF a[n + 1] = NewLine THEN << WithLine(A[n]), <<>> >> ELSE << A[n][1], Append(A[n][2], a[n + 1]) >>
  BY SplitGrows
<1>5. /\ LinesOf(b) = WithLine(B[j]) /\ B[0] = << <<>>, <<>> >> /\ (\A n \in 0 .. j : B[n] \in SplitType(S))
      /\ \A n \in 0 .. j - 1 : B[n + 1] = IF b[n + 1] = NewLine THEN << WithLine(B[n]), <<>> >> ELSE << B[n][1], Append(B[n][2], b[n + 1]) >>
  BY SplitGrows
<1> HIDE DEF w
<1>6. /\ LinesOf(w) = WithLine(W[Len(w)]) /\ W[0] = << <<>>, <<>> >>
      /\ \A n \in 0 .. Len(w) - 1 : W[n + 1] = IF w[n + 1] = NewLine THEN << WithLine(W[n]), <<>> >> ELSE << W[n][1], Append(W[n][2], w[n + 1]) >>
  BY <1>1, SplitGrows
<1> HIDE DEF A, B, W, i, j
<1>7. W[i] = A[i]
  <2> DEFINE T == {n \in Nat : n <= i => W[n] = A[n]}
  <2>1. 0 \in T
    BY <1>4, <1>6
  <2>2. \A n \in T : n + 1 \in T
    <3>1. SUFFICES ASSUME NEW n \in T, n + 1 <= i PROVE W[n + 1] = A[n + 1]
      OBVIOUS
    <3>2. n \in 0 .. i - 1 /\ n \in 0 .. Len(w) - 1 /\ n + 1 \in 1 .. i /\ W[n] = A[n]
      BY <1>1, <3>1
    <3> HIDE DEF T
    <3>3. w[n + 1] = a[n + 1]
      BY <1>2, <3>2
    <3> QED BY <1>4, <1>6, <3>2, <3>3
  <2>3. T = Nat
    <3> HIDE DEF T
    <3>1. T \subseteq Nat
      BY DEF T
    <3> QED BY <2>1, <2>2, <3>1, NatSetInduction
  <2>4. i \in T
    <3> HIDE DEF T
    <3> QED BY <1>1, <2>3
  <2> QED BY <1>1, <2>4
<1>8. PICK L : L = LinesOf(a)
  OBVIOUS
<1>9. W[i] = <<L, <<>> >> /\ L \in Seq(Seq(S))
  <2>1. i - 1 \in 0 .. i - 1 /\ (i - 1) + 1 = i /\ i \in 0 .. i
    BY <1>1
  <2>2. A[i] = << WithLine(A[i - 1]), <<>> >>
    BY <1>3, <1>4, <2>1
  <2>3. WithLine(A[i]) = A[i][1] /\ A[i] = <<A[i][1], <<>> >>
    BY <2>2 DEF WithLine
  <2>4. L \in Seq(Seq(S))
    BY <1>4, <1>8, <2>1, WithLineType
  <2> QED BY <1>4, <1>7, <1>8, <2>3, <2>4
<1> DEFINE Is(n) == W[i + n] = <<L \o B[n][1], B[n][2]>>
<1>10. \A n \in Nat : n <= j => Is(n)
  <2> DEFINE T == {n \in Nat : n <= j => Is(n)}
  <2>1. 0 \in T
    <3>1. L \o <<>> = L /\ i + 0 = i
      BY <1>1, <1>9
    <3>2. B[0][1] = <<>> /\ B[0][2] = <<>>
      BY <1>5
    <3>3. W[i + 0] = <<L \o B[0][1], B[0][2]>>
      BY <1>9, <3>1, <3>2
    <3> QED BY <3>3
  <2>2. \A n \in T : n + 1 \in T
    <3>1. SUFFICES ASSUME NEW n \in T, n + 1 <= j PROVE Is(n + 1)
      <4> HIDE DEF Is
      <4> QED OBVIOUS
    <3>2. /\ n \in Nat /\ n \in 0 .. j - 1 /\ n \in 0 .. j /\ n + 1 \in 1 .. j /\ i + n \in 0 .. Len(w) - 1 /\ (i + n) + 1 = i + (n + 1)
          /\ Is(n)
      <4> HIDE DEF Is
      <4> QED BY <1>1, <3>1
    <3> HIDE DEF T
    <3>3. w[i + (n + 1)] = b[n + 1]
      BY <1>2, <3>2
    <3>4. PICK x, y : x = B[n][1] /\ y = B[n][2]
      OBVIOUS
    <3>5. x \in Seq(Seq(S)) /\ y \in Seq(S) /\ B[n] = <<x, y>>
      BY <1>5, <3>2, <3>4 DEF SplitType
    <3>6. PICK v : v = W[i + n]
      OBVIOUS
    <3>6a. PICK x1 : x1 = L \o x
      OBVIOUS
    <3>6b. v = <<x1, y>>
      BY <3>2, <3>4, <3>6, <3>6a
    <3>6c. v[1] = x1 /\ v[2] = y /\ WithLine(v) = (IF y = <<>> THEN x1 ELSE Append(x1, y))
      BY <3>6b DEF WithLine
    <3>7. Append(x1, y) = L \o Append(x, y)
      <4>1. PICK R : R = Seq(S)
        OBVIOUS
      <4>2. L \in Seq(R) /\ x \in Seq(R) /\ y \in R
        BY <1>9, <3>5, <4>1
      <4>3. Append(L \o x, y) = L \o (x \o <<y>>)
        <5>1. L \o x \in Seq(R) /\ <<y>> \in Seq(R)
          BY <4>2, ConcatProperties
        <5>2. Append(L \o x, y) = (L \o x) \o <<y>>
          BY <4>2, <5>1, AppendIsConcat
        <5>3. (L \o x) \o <<y>> = L \o (x \o <<y>>)
          BY <4>2, <5>1, ConcatAssociative
        <5> QED BY <5>2, <5>3
      <4>4. Append(x, y) = x \o <<y>>
        BY <4>2, AppendIsConcat
      <4> QED BY <3>6a, <4>3, <4>4
    <3>8. CASE b[n + 1] = NewLine
      <4>1. B[n + 1] = << WithLine(B[n]), <<>> >> /\ WithLine(B[n]) = (IF y = <<>> THEN x ELSE Append(x, y))
        BY <1>5, <3>2, <3>4, <3>8 DEF WithLine
      <4>2. W[i + (n + 1)] = << WithLine(v), <<>> >>
        BY <1>6, <3>2, <3>3, <3>6, <3>8
      <4>3. WithLine(v) = L \o WithLine(B[n])
        BY <3>6a, <3>6c, <3>7, <4>1
      <4> QED BY <4>1, <4>2, <4>3
    <3>9. CASE b[n + 1] # NewLine
      <4>1. B[n + 1] = << x, Append(y, b[n + 1]) >>
        BY <1>5, <3>2, <3>4, <3>9
      <4>2. W[i + (n + 1)] = << x1, Append(y, b[n + 1]) >>
        BY <1>6, <3>2, <3>3, <3>6, <3>6c, <3>9
      <4>3. B[n + 1][1] = x /\ B[n + 1][2] = Append(y, b[n + 1])
        BY <4>1
      <4> QED BY <3>6a, <4>2, <4>3
    <3> QED BY <3>8, <3>9
  <2>3. T = Nat
    <3> HIDE DEF T
    <3>1. T \subseteq Nat
      BY DEF T
    <3> QED BY <2>1, <2>2, <3>1, NatSetInduction
  <2> HIDE DEF Is
  <2> QED BY <2>3
<1>11. W[Len(w)] = <<L \o B[j][1], B[j][2]>>
  <2>1. Is(j)
    <3> HIDE DEF Is
    <3> QED BY <1>1, <1>10
  <2> QED BY <1>1, <2>1
<1>12. PICK x, y : x = B[j][1] /\ y = B[j][2]
  OBVIOUS
<1>13. x \in Seq(Seq(S)) /\ y \in Seq(S)
  BY <1>1, <1>5, <1>12 DEF SplitType
<1>14. Append(L \o x, y) = L \o Append(x, y)
  <2>1. PICK R : R = Seq(S)
    OBVIOUS
  <2>2. L \in Seq(R) /\ x \in Seq(R) /\ y \in R
    BY <1>9, <1>13, <2>1
  <2>3. Append(L \o x, y) = L \o (x \o <<y>>)
    <3>1. L \o x \in Seq(R) /\ <<y>> \in Seq(R)
      BY <2>2, ConcatProperties
    <3>2. Append(L \o x, y) = (L \o x) \o <<y>>
      BY <2>2, <3>1, AppendIsConcat
    <3>3. (L \o x) \o <<y>> = L \o (x \o <<y>>)
      BY <2>2, <3>1, ConcatAssociative
    <3> QED BY <3>2, <3>3
  <2>4. Append(x, y) = x \o <<y>>
    BY <2>2, AppendIsConcat
  <2> QED BY <2>3, <2>4
<1>15. WithLine(W[Len(w)]) = L \o WithLine(B[j])
  <2>1. PICK x1 : x1 = L \o x
    OBVIOUS
  <2>2. W[Len(w)] = <<x1, y>>
    BY <1>11, <1>12, <2>1
  <2>3. WithLine(W[Len(w)]) = IF y = <<>> THEN x1 ELSE Append(x1, y)
    BY <2>2 DEF WithLine
  <2>4. WithLine(B[j]) = IF y = <<>> THEN x ELSE Append(x, y)
    BY <1>12 DEF WithLine
  <2> QED BY <1>14, <2>1, <2>3, <2>4
<1> QED BY <1>5, <1>6, <1>8, <1>15 DEF w

-----------------------------------------------------------------------------
(***************************************************************************)
(* Then the invariant of the command.  A goroutine that has ended well has *)
(* copied all of a container that will not run again: one that is still to *)
(* be started was not running when it was listed, so its stream is open    *)
(* only if it has not exited since, and one that had is kept.              *)
(***************************************************************************)
ContainerStates == {"created", "running", "exited", "removed"}
StreamSteps == {"off", "begun", "service", "open", "kept", "done", "failed"}

AttachTypes ==
    /\ attachCase \in AttachCases
    /\ cstate \in [DOMAIN Conts -> ContainerStates]
    /\ stream \in [DOMAIN Conts -> StreamSteps]
    /\ written \in [DOMAIN Conts -> Nat]
    /\ shown \in [DOMAIN Conts -> Nat]
    /\ logged = [c \in DOMAIN Conts |-> logged[c]]
    /\ DOMAIN listed \subseteq DOMAIN Conts
    /\ pending \subseteq DOMAIN Conts /\ asked \subseteq DOMAIN Conts

(* The containers that are still going to be started. *)
Coming == asked \cup (IF attachPc = "starting" THEN pending ELSE {})

(* What is copied was written, and what is written is of the case. *)
CopiedInOrder == \A c \in DOMAIN Conts : shown[c] <= written[c] /\ written[c] <= Len(Conts[c].writes)

StreamsInv ==
    \A c \in DOMAIN Conts :
        /\ stream[c] # "off" => c \in DOMAIN listed
        /\ ~attachCase.detach /\ c \in DOMAIN listed => stream[c] # "off"
        /\ stream[c] = "open" /\ c \in Coming => cstate[c] # "exited"
        /\ stream[c] = "done" => /\ shown[c] = written[c]
                                 /\ cstate[c] # "running"
                                 /\ c \in Coming => cstate[c] = "removed"

StartsInv ==
    /\ AttachOp = "logs" => Coming = {}
    /\ attachPc = "starting" => pending \cap asked = {}
    /\ \A c \in Coming : cstate[c] # "running" /\ (c \in DOMAIN listed => listed[c] # "running")

EndInv ==
    /\ attachPc \in {"stopping", "stop"} => interrupted
    /\ attachPc \in {"list", "waiting"} \/ (attachPc = "ok" /\ ~interrupted) => asked = {}
    /\ attachPc = "ok" /\ ~interrupted /\ ~attachCase.detach => \A c \in DOMAIN listed : stream[c] = "done"

AttachInv == AttachTypes /\ CopiedInOrder /\ LinesKept /\ StreamsInv /\ StartsInv /\ EndInv

(* The lines shown grow by those of a piece, where those before it end with a line. *)
LEMMA LinesCopied ==
  ASSUME NEW S, NEW pieces \in Seq(Seq(S) \ {<<>>}), NEW n \in 0 .. Len(pieces) - 1, \A i \in 1 .. n : Last(pieces[i]) = NewLine
  PROVE  LinesOf(TextOf(pieces)[n + 1]) = LinesOf(TextOf(pieces)[n]) \o LinesOf(pieces[n + 1])
<1>1. pieces \in Seq(Seq(S)) /\ Len(pieces) \in Nat /\ \A i \in 1 .. Len(pieces) : pieces[i] \in Seq(S) /\ pieces[i] # <<>>
  OBVIOUS
<1>2. PICK text : text = TextOf(pieces)
  OBVIOUS
<1>3. /\ text \in [0 .. Len(pieces) -> Seq(S)] /\ text[0] = <<>>
      /\ \A k \in 0 .. Len(pieces) - 1 : text[k + 1] = text[k] \o pieces[k + 1]
  BY <1>1, <1>2, TextGrows
<1>4. n \in Nat /\ n + 1 \in 1 .. Len(pieces) /\ pieces[n + 1] \in Seq(S) /\ text[n] \in Seq(S) /\ text[n + 1] = text[n] \o pieces[n + 1]
  <2>1. n \in Nat /\ n \in 0 .. Len(pieces) /\ n + 1 \in 1 .. Len(pieces)
    BY <1>1
  <2>2. text[n + 1] = text[n] \o pieces[n + 1]
    BY <1>3
  <2> QED BY <1>1, <1>3, <2>1, <2>2
<1>5. CASE n = 0
  <2>1. text[n] = <<>> /\ text[n + 1] = pieces[n + 1]
    <3>1. PICK b \in Seq(S) : b = pieces[n + 1]
      BY <1>4
    <3>2. <<>> \o b = b /\ text[n] = <<>>
      BY <1>3, <1>5
    <3> QED BY <1>4, <3>1, <3>2
  <2>2. LinesOf(pieces[n + 1]) \in Seq(Seq(S))
    <3>1. PICK b \in Seq(S) : b = pieces[n + 1]
      BY <1>4
    <3>2. LinesOf(b) = WithLine(SplitOf(b)[Len(b)]) /\ \A k \in 0 .. Len(b) : SplitOf(b)[k] \in SplitType(S)
      BY SplitGrows
    <3>3. Len(b) \in 0 .. Len(b)
      OBVIOUS
    <3> QED BY <3>1, <3>2, <3>3, WithLineType
  <2>3. LinesOf(text[n]) = <<>>
    BY <2>1, NoLines
  <2>4. PICK ls : ls = LinesOf(pieces[n + 1])
    OBVIOUS
  <2>5. <<>> \o ls = ls
    BY <2>2, <2>4
  <2> QED BY <1>2, <2>1, <2>3, <2>4, <2>5
<1>6. CASE n # 0
  <2>1. PICK m \in 0 .. Len(pieces) - 1 : n = m + 1
    <3>1. n - 1 \in 0 .. Len(pieces) - 1 /\ n = (n - 1) + 1
      BY <1>1, <1>6
    <3> QED BY <3>1
  <2>2. PICK p, q : p = text[m] /\ q = pieces[n]
    OBVIOUS
  <2>3. n \in 1 .. n /\ n \in 1 .. Len(pieces)
    BY <1>1, <1>4, <1>6
  <2>4. p \in Seq(S) /\ q \in Seq(S) /\ q # <<>> /\ q[Len(q)] = NewLine /\ text[n] = p \o q
    <3>1. p \in Seq(S)
      <4>1. m \in 0 .. Len(pieces)
        BY <1>1, <2>1
      <4> QED BY <1>3, <2>2, <4>1
    <3>2. q \in Seq(S) /\ q # <<>>
      BY <1>1, <2>2, <2>3
    <3>3. q[Len(q)] = NewLine
      BY <2>2, <2>3 DEF Last
    <3> QED BY <1>3, <2>1, <2>2, <3>1, <3>2, <3>3
  <2>5. Len(q) \in 1 .. Len(q) /\ Len(p \o q) = Len(p) + Len(q) /\ Len(p) \in Nat
    BY <2>4, ConcatProperties
  <2>6. (p \o q)[Len(p) + Len(q)] = q[Len(q)]
    BY <2>4, <2>5, ConcatProperties
  <2>7. PICK t \in Seq(S) : t = text[n]
    BY <1>4
  <2>8. t # <<>> /\ t[Len(t)] = NewLine
    BY <2>4, <2>5, <2>6, <2>7
  <2>9. LinesOf(t \o pieces[n + 1]) = LinesOf(t) \o LinesOf(pieces[n + 1])
    BY <1>4, <2>8, LinesJoined
  <2> QED BY <1>2, <1>4, <2>7, <2>9
<1> QED BY <1>5, <1>6

(* The pieces of a container of the case. *)
LEMMA PiecesOf ==
  ASSUME AttachTypes, NEW c \in DOMAIN Conts
  PROVE  /\ Conts[c].writes \in Seq(Seq(STRING) \ {<<>>}) /\ Conts[c].writes # <<>> /\ Len(Conts[c].writes) \in Nat
         /\ Conts[c].state \in {"created", "running", "exited"}
<1>1. Conts[c].writes \in Seq(Seq(STRING) \ {<<>>}) /\ Conts[c].writes # <<>> /\ Conts[c].state \in {"created", "running", "exited"}
  BY AttachAssumption DEF AttachTypes, Conts
<1> QED BY <1>1

(* The command begins so: nothing is listed and nothing is shown. *)
LEMMA AttachBegins == AttachInit => AttachInv
<1> SUFFICES ASSUME NEW case \in AttachCases, AttachStart(case, "list") PROVE AttachInv
  BY DEF AttachInit
<1>1. /\ attachCase = case /\ Conts = case.containers /\ pending = {} /\ asked = {} /\ inFlight = {} /\ listed = Fn /\ attachPc = "list"
      /\ cstate = [c \in DOMAIN case.containers |-> case.containers[c].state]
      /\ written = [c \in DOMAIN case.containers |-> IF case.containers[c].state = "exited" THEN 1 ELSE 0]
      /\ stream = [c \in DOMAIN case.containers |-> "off"]
      /\ shown = [c \in DOMAIN case.containers |-> 0]
      /\ logged = [c \in DOMAIN case.containers |-> <<>>]
  BY DEF AttachStart, Conts
<1>2. DOMAIN listed = {}
  BY <1>1 DEF Fn
<1>3. AttachTypes
  <2>1. cstate \in [DOMAIN Conts -> ContainerStates]
    BY <1>1, AttachAssumption DEF ContainerStates
  <2>2. written \in [DOMAIN Conts -> Nat] /\ shown \in [DOMAIN Conts -> Nat] /\ logged = [c \in DOMAIN Conts |-> logged[c]]
    BY <1>1
  <2>3. stream \in [DOMAIN Conts -> StreamSteps]
    BY <1>1 DEF StreamSteps
  <2> QED BY <1>1, <1>2, <2>1, <2>2, <2>3 DEF AttachTypes
<1>4. CopiedInOrder
  <2> SUFFICES ASSUME NEW c \in DOMAIN Conts PROVE shown[c] <= written[c] /\ written[c] <= Len(Conts[c].writes)
    BY DEF CopiedInOrder
  <2>1. PICK w : w = Conts[c].writes
    OBVIOUS
  <2>2. w \in Seq(Seq(STRING) \ {<<>>}) /\ w # <<>> /\ Len(w) \in Nat
    BY <1>3, <2>1, PiecesOf
  <2>3. Len(w) >= 1
    BY <2>2
  <2>4. shown[c] = 0 /\ written[c] \in {0, 1}
    BY <1>1
  <2> QED BY <2>1, <2>2, <2>3, <2>4
<1>5. LinesKept
  <2> SUFFICES ASSUME NEW c \in DOMAIN Conts PROVE logged[c] = LinesOf(TextOf(Conts[c].writes)[shown[c]])
    BY DEF LinesKept
  <2>1. PICK w : w = Conts[c].writes
    OBVIOUS
  <2>2. w \in Seq(Seq(STRING) \ {<<>>})
    BY <1>3, <2>1, PiecesOf
  <2>3. w \in Seq(Seq(STRING))
    BY <2>2
  <2>4. TextOf(w)[0] = <<>>
    BY <2>3, TextGrows
  <2>5. shown[c] = 0 /\ logged[c] = <<>>
    BY <1>1
  <2> QED BY <2>1, <2>4, <2>5, NoLines
<1>6. StreamsInv /\ StartsInv /\ EndInv
  BY <1>1, <1>2 DEF StreamsInv, StartsInv, EndInv, Coming
<1> QED BY <1>3, <1>4, <1>5, <1>6 DEF AttachInv

(* The lines shown and the pieces are as they were in a step that copies and writes nothing. *)
LEMMA NothingCopied ==
  ASSUME AttachInv, UNCHANGED <<attachCase, written, shown, logged>>
  PROVE  CopiedInOrder' /\ LinesKept' /\ AttachOp' = AttachOp /\ Conts' = Conts
<1>1. Conts' = Conts /\ AttachOp' = AttachOp
  BY DEF Conts, AttachOp
<1>2. CopiedInOrder'
  BY <1>1 DEF AttachInv, CopiedInOrder
<1>3. LinesKept'
  BY <1>1 DEF AttachInv, LinesKept
<1> QED BY <1>1, <1>2, <1>3

(* up, run and logs list the containers and begin to follow them. *)
LEMMA AttachKept ==
  ASSUME AttachInv, attach
  PROVE  AttachInv'
<1>1. CopiedInOrder' /\ LinesKept' /\ AttachOp' = AttachOp /\ Conts' = Conts /\ attachCase' = attachCase
  BY NothingCopied DEF attach, Returns, Followed, Selected
<1>2. AttachTypes'
  BY <1>1 DEF attach, Returns, Followed, Selected, AttachInv, AttachTypes, ContainerStates, StreamSteps
<1>3. StreamsInv'
  BY <1>1 DEF attach, Returns, Followed, Selected, AttachInv, AttachTypes, StreamsInv, StartsInv, EndInv, Coming
<1>4. StartsInv'
  BY <1>1 DEF attach, Returns, Followed, Selected, AttachInv, AttachTypes, StartsInv, EndInv, Coming
<1>5. EndInv'
  BY <1>1 DEF attach, Returns, Followed, Selected, AttachInv, AttachTypes, EndInv
<1> QED BY <1>1, <1>2, <1>3, <1>4, <1>5 DEF AttachInv

(* The command fails to start a container. *)
LEMMA StartFailsKept ==
  ASSUME AttachInv, StartFails
  PROVE  AttachInv'
<1>1. CopiedInOrder' /\ LinesKept' /\ AttachOp' = AttachOp /\ Conts' = Conts /\ attachCase' = attachCase
  BY NothingCopied DEF StartFails, Returns
<1>2. AttachTypes'
  BY <1>1 DEF StartFails, Returns, AttachInv, AttachTypes, ContainerStates, StreamSteps
<1>3. StreamsInv'
  BY <1>1 DEF StartFails, Returns, AttachInv, AttachTypes, StreamsInv, StartsInv, EndInv, Coming
<1>4. StartsInv'
  BY <1>1 DEF StartFails, Returns, AttachInv, AttachTypes, StartsInv, EndInv, Coming
<1>5. EndInv'
  BY <1>1 DEF StartFails, Returns, AttachInv, AttachTypes, EndInv
<1> QED BY <1>1, <1>2, <1>3, <1>4, <1>5 DEF AttachInv

(* All that was to be started has been. *)
LEMMA StartedKept ==
  ASSUME AttachInv, Started
  PROVE  AttachInv'
<1>1. CopiedInOrder' /\ LinesKept' /\ AttachOp' = AttachOp /\ Conts' = Conts /\ attachCase' = attachCase
  BY NothingCopied DEF Started, GroupResult, Returns
<1>2. AttachTypes'
  BY <1>1 DEF Started, GroupResult, Returns, AttachInv, AttachTypes, ContainerStates, StreamSteps
<1>3. StreamsInv'
  BY <1>1 DEF Started, GroupResult, Returns, AttachInv, AttachTypes, StreamsInv, StartsInv, EndInv, Coming
<1>4. StartsInv'
  BY <1>1 DEF Started, GroupResult, Returns, AttachInv, AttachTypes, StartsInv, EndInv, Coming
<1>5. EndInv'
  BY <1>1 DEF Started, GroupResult, Returns, AttachInv, AttachTypes, EndInv
<1> QED BY <1>1, <1>2, <1>3, <1>4, <1>5 DEF AttachInv

(* The goroutines have ended. *)
LEMMA GroupWaitKept ==
  ASSUME AttachInv, GroupWait
  PROVE  AttachInv'
<1>1. CopiedInOrder' /\ LinesKept' /\ AttachOp' = AttachOp /\ Conts' = Conts /\ attachCase' = attachCase
  BY NothingCopied DEF GroupWait, GroupResult, Returns, Over
<1>2. AttachTypes'
  BY <1>1 DEF GroupWait, GroupResult, Returns, Over, AttachInv, AttachTypes, ContainerStates, StreamSteps
<1>3. StreamsInv'
  BY <1>1 DEF GroupWait, GroupResult, Returns, Over, AttachInv, AttachTypes, StreamsInv, StartsInv, EndInv, Coming
<1>4. StartsInv'
  BY <1>1 DEF GroupWait, GroupResult, Returns, Over, AttachInv, AttachTypes, StartsInv, EndInv, Coming
<1>5. EndInv'
  <2>1. attachPc' = GroupResult /\ UNCHANGED <<attachCase, listed, stream, interrupted>> /\ \A c \in DOMAIN Conts : Over(c)
    BY DEF GroupWait
  <2>2. attachPc' \in {"stopping", "stop"} => interrupted
    BY <2>1 DEF GroupResult, Returns
  <2>3. ASSUME attachPc' = "ok", ~attachCase.detach, NEW c \in DOMAIN listed PROVE stream[c] = "done"
    <3>1. c \in DOMAIN Conts /\ stream[c] # "off"
      BY <2>3 DEF AttachInv, AttachTypes, StreamsInv, Coming
    <3>2. stream[c] # "failed"
      BY <2>1, <2>3, <3>1 DEF GroupResult, Returns
    <3> QED BY <2>1, <3>1, <3>2 DEF Over
  <2>4. asked' = {}
    BY DEF GroupWait, AttachInv, EndInv
  <2> QED BY <1>1, <2>1, <2>2, <2>3, <2>4 DEF EndInv
<1> QED BY <1>1, <1>2, <1>3, <1>4, <1>5 DEF AttachInv

(* The command is interrupted. *)
LEMMA InterruptKept ==
  ASSUME AttachInv, Interrupt
  PROVE  AttachInv'
<1>1. CopiedInOrder' /\ LinesKept' /\ AttachOp' = AttachOp /\ Conts' = Conts /\ attachCase' = attachCase
  BY NothingCopied DEF Interrupt
<1>2. AttachTypes'
  BY <1>1 DEF Interrupt, AttachInv, AttachTypes, ContainerStates, StreamSteps
<1>3. StreamsInv'
  BY <1>1 DEF Interrupt, AttachInv, AttachTypes, StreamsInv, StartsInv, EndInv, Coming
<1>4. StartsInv'
  BY <1>1 DEF Interrupt, AttachInv, AttachTypes, StartsInv, EndInv, Coming
<1>5. EndInv'
  BY <1>1 DEF Interrupt, AttachInv, AttachTypes, EndInv
<1> QED BY <1>1, <1>2, <1>3, <1>4, <1>5 DEF AttachInv

(* The containers of an interrupted up are stopped. *)
LEMMA StoppedKept ==
  ASSUME AttachInv, Stopped
  PROVE  AttachInv'
<1>1. CopiedInOrder' /\ LinesKept' /\ AttachOp' = AttachOp /\ Conts' = Conts /\ attachCase' = attachCase
  BY NothingCopied DEF Stopped
<1>2. AttachTypes'
  BY <1>1 DEF Stopped, AttachInv, AttachTypes, ContainerStates, StreamSteps
<1>3. StreamsInv'
  BY <1>1 DEF Stopped, AttachInv, AttachTypes, StreamsInv, StartsInv, EndInv, Coming
<1>4. StartsInv'
  BY <1>1 DEF Stopped, AttachInv, AttachTypes, StartsInv, EndInv, Coming
<1>5. EndInv'
  BY <1>1 DEF Stopped, AttachInv, AttachTypes, EndInv
<1> QED BY <1>1, <1>2, <1>3, <1>4, <1>5 DEF AttachInv

(* A container is started. *)
LEMMA StartContainerKept ==
  ASSUME AttachInv, NEW c \in DOMAIN Conts, Live, StartContainer(c)
  PROVE  AttachInv'
<1>1. CopiedInOrder' /\ LinesKept' /\ AttachOp' = AttachOp /\ Conts' = Conts /\ attachCase' = attachCase
  BY NothingCopied DEF StartContainer
<1>2. AttachTypes'
  BY <1>1 DEF StartContainer, AttachInv, AttachTypes, ContainerStates, StreamSteps
<1>3. StreamsInv'
  BY <1>1 DEF StartContainer, AttachInv, AttachTypes, StreamsInv, StartsInv, EndInv, Coming
<1>4. StartsInv'
  BY <1>1 DEF StartContainer, AttachInv, AttachTypes, StartsInv, EndInv, Coming
<1>5. EndInv'
  BY <1>1 DEF StartContainer, AttachInv, AttachTypes, EndInv, Live, Ended
<1> QED BY <1>1, <1>2, <1>3, <1>4, <1>5 DEF AttachInv

(* The engine starts a container it was asked for. *)
LEMMA EngineStartsKept ==
  ASSUME AttachInv, NEW c \in DOMAIN Conts, EngineStarts(c)
  PROVE  AttachInv'
<1>1. CopiedInOrder' /\ LinesKept' /\ AttachOp' = AttachOp /\ Conts' = Conts /\ attachCase' = attachCase
  BY NothingCopied DEF EngineStarts
<1>2. AttachTypes'
  BY <1>1 DEF EngineStarts, AttachInv, AttachTypes, ContainerStates, StreamSteps, Selected
<1>3. StreamsInv'
  BY <1>1 DEF EngineStarts, AttachInv, AttachTypes, StreamsInv, StartsInv, EndInv, Coming
<1>4. StartsInv'
  BY <1>1 DEF EngineStarts, AttachInv, AttachTypes, StartsInv, EndInv, Coming
<1>5. EndInv'
  BY <1>1 DEF EngineStarts, AttachInv, AttachTypes, EndInv
<1> QED BY <1>1, <1>2, <1>3, <1>4, <1>5 DEF AttachInv

(* Stop lists the containers. *)
LEMMA StopListsKept ==
  ASSUME AttachInv, StopLists
  PROVE  AttachInv'
<1>1. CopiedInOrder' /\ LinesKept' /\ AttachOp' = AttachOp /\ Conts' = Conts /\ attachCase' = attachCase
  BY NothingCopied DEF StopLists
<1>2. AttachTypes'
  BY <1>1 DEF StopLists, AttachInv, AttachTypes, ContainerStates, StreamSteps, Selected
<1>3. StreamsInv'
  BY <1>1 DEF StopLists, AttachInv, AttachTypes, StreamsInv, StartsInv, EndInv, Coming
<1>4. StartsInv'
  BY <1>1 DEF StopLists, AttachInv, AttachTypes, StartsInv, EndInv, Coming
<1>5. EndInv'
  BY <1>1 DEF StopLists, AttachInv, AttachTypes, EndInv
<1> QED BY <1>1, <1>2, <1>3, <1>4, <1>5 DEF AttachInv

(* A container cannot be stopped. *)
LEMMA StopFailsKept ==
  ASSUME AttachInv, StopFails
  PROVE  AttachInv'
<1>1. CopiedInOrder' /\ LinesKept' /\ AttachOp' = AttachOp /\ Conts' = Conts /\ attachCase' = attachCase
  BY NothingCopied DEF StopFails
<1>2. AttachTypes'
  BY <1>1 DEF StopFails, AttachInv, AttachTypes, ContainerStates, StreamSteps, Selected
<1>3. StreamsInv'
  BY <1>1 DEF StopFails, AttachInv, AttachTypes, StreamsInv, StartsInv, EndInv, Coming
<1>4. StartsInv'
  BY <1>1 DEF StopFails, AttachInv, AttachTypes, StartsInv, EndInv, Coming
<1>5. EndInv'
  BY <1>1 DEF StopFails, AttachInv, AttachTypes, EndInv
<1> QED BY <1>1, <1>2, <1>3, <1>4, <1>5 DEF AttachInv

(* A goroutine finds the service of its container. *)
LEMMA GetServiceKept ==
  ASSUME AttachInv, NEW c \in DOMAIN Conts, Live, GetService(c)
  PROVE  AttachInv'
<1>1. CopiedInOrder' /\ LinesKept' /\ AttachOp' = AttachOp /\ Conts' = Conts /\ attachCase' = attachCase
  BY NothingCopied DEF GetService, StreamFails, Became
<1>2. AttachTypes'
  BY <1>1 DEF GetService, StreamFails, Became, AttachInv, AttachTypes, ContainerStates, StreamSteps
<1>3. StreamsInv'
  BY <1>1 DEF GetService, StreamFails, Became, AttachInv, AttachTypes, StreamsInv, StartsInv, EndInv, Coming
<1>4. StartsInv'
  BY <1>1 DEF GetService, StreamFails, Became, AttachInv, AttachTypes, StartsInv, EndInv, Coming
<1>5. EndInv'
  BY <1>1 DEF GetService, StreamFails, Became, AttachInv, AttachTypes, EndInv, Live, Ended
<1> QED BY <1>1, <1>2, <1>3, <1>4, <1>5 DEF AttachInv

(* A goroutine attaches to its container. *)
LEMMA GetContainerStreamsKept ==
  ASSUME AttachInv, NEW c \in DOMAIN Conts, Live, getContainerStreams(c)
  PROVE  AttachInv'
<1>1. CopiedInOrder' /\ LinesKept' /\ AttachOp' = AttachOp /\ Conts' = Conts /\ attachCase' = attachCase
  BY NothingCopied DEF getContainerStreams, StreamFails, Became
<1>2. AttachTypes'
  BY <1>1 DEF getContainerStreams, StreamFails, Became, AttachInv, AttachTypes, ContainerStates, StreamSteps
<1>3. StreamsInv'
  BY <1>1 DEF getContainerStreams, StreamFails, Became, AttachInv, AttachTypes, StreamsInv, StartsInv, EndInv, Coming
<1>4. StartsInv'
  BY <1>1 DEF getContainerStreams, StreamFails, Became, AttachInv, AttachTypes, StartsInv, EndInv, Coming
<1>5. EndInv'
  BY <1>1 DEF getContainerStreams, StreamFails, Became, AttachInv, AttachTypes, EndInv, Live, Ended
<1> QED BY <1>1, <1>2, <1>3, <1>4, <1>5 DEF AttachInv

(* A goroutine of logs follows its container. *)
LEMMA FollowLogsKept ==
  ASSUME AttachInv, NEW c \in DOMAIN Conts, Live, FollowLogs(c)
  PROVE  AttachInv'
<1>1. CopiedInOrder' /\ LinesKept' /\ AttachOp' = AttachOp /\ Conts' = Conts /\ attachCase' = attachCase
  BY NothingCopied DEF FollowLogs, Became
<1>2. AttachTypes'
  BY <1>1 DEF FollowLogs, Became, AttachInv, AttachTypes, ContainerStates, StreamSteps
<1>3. StreamsInv'
  BY <1>1 DEF FollowLogs, Became, AttachInv, AttachTypes, StreamsInv, StartsInv, EndInv, Coming
<1>4. StartsInv'
  BY <1>1 DEF FollowLogs, Became, AttachInv, AttachTypes, StartsInv, EndInv, Coming
<1>5. EndInv'
  BY <1>1 DEF FollowLogs, Became, AttachInv, AttachTypes, EndInv, Live, Ended
<1> QED BY <1>1, <1>2, <1>3, <1>4, <1>5 DEF AttachInv

(* A goroutine has copied all of a container that has ended. *)
LEMMA CopyEndsKept ==
  ASSUME AttachInv, NEW c \in DOMAIN Conts, Live, CopyEnds(c)
  PROVE  AttachInv'
<1>1. CopiedInOrder' /\ LinesKept' /\ AttachOp' = AttachOp /\ Conts' = Conts /\ attachCase' = attachCase
  BY NothingCopied DEF CopyEnds, Became
<1>2. AttachTypes'
  BY <1>1 DEF CopyEnds, Became, AttachInv, AttachTypes, ContainerStates, StreamSteps
<1>3. StreamsInv'
  BY <1>1 DEF CopyEnds, Became, AttachInv, AttachTypes, StreamsInv, StartsInv, EndInv, Coming
<1>4. StartsInv'
  BY <1>1 DEF CopyEnds, Became, AttachInv, AttachTypes, StartsInv, EndInv, Coming
<1>5. EndInv'
  BY <1>1 DEF CopyEnds, Became, AttachInv, AttachTypes, EndInv, Live, Ended
<1> QED BY <1>1, <1>2, <1>3, <1>4, <1>5 DEF AttachInv

(* A stream is closed under the copy. *)
LEMMA StreamClosedKept ==
  ASSUME AttachInv, NEW c \in DOMAIN Conts, Live, StreamClosed(c)
  PROVE  AttachInv'
<1>1. CopiedInOrder' /\ LinesKept' /\ AttachOp' = AttachOp /\ Conts' = Conts /\ attachCase' = attachCase
  BY NothingCopied DEF StreamClosed, StreamFails, Became
<1>2. AttachTypes'
  BY <1>1 DEF StreamClosed, StreamFails, Became, AttachInv, AttachTypes, ContainerStates, StreamSteps
<1>3. StreamsInv'
  BY <1>1 DEF StreamClosed, StreamFails, Became, AttachInv, AttachTypes, StreamsInv, StartsInv, EndInv, Coming
<1>4. StartsInv'
  BY <1>1 DEF StreamClosed, StreamFails, Became, AttachInv, AttachTypes, StartsInv, EndInv, Coming
<1>5. EndInv'
  BY <1>1 DEF StreamClosed, StreamFails, Became, AttachInv, AttachTypes, EndInv, Live, Ended
<1> QED BY <1>1, <1>2, <1>3, <1>4, <1>5 DEF AttachInv

(* A container exits. *)
LEMMA ContainerExitsKept ==
  ASSUME AttachInv, NEW c \in DOMAIN Conts, Live, ContainerExits(c)
  PROVE  AttachInv'
<1>1. CopiedInOrder' /\ LinesKept' /\ AttachOp' = AttachOp /\ Conts' = Conts /\ attachCase' = attachCase
  BY NothingCopied DEF ContainerExits
<1>2. AttachTypes'
  BY <1>1 DEF ContainerExits, AttachInv, AttachTypes, ContainerStates, StreamSteps
<1>3. StreamsInv'
  BY <1>1 DEF ContainerExits, AttachInv, AttachTypes, StreamsInv, StartsInv, EndInv, Coming
<1>4. StartsInv'
  BY <1>1 DEF ContainerExits, AttachInv, AttachTypes, StartsInv, EndInv, Coming
<1>5. EndInv'
  BY <1>1 DEF ContainerExits, AttachInv, AttachTypes, EndInv, Live, Ended
<1> QED BY <1>1, <1>2, <1>3, <1>4, <1>5 DEF AttachInv

(* A container is removed. *)
LEMMA ContainerRemovedKept ==
  ASSUME AttachInv, NEW c \in DOMAIN Conts, Live, ContainerRemoved(c)
  PROVE  AttachInv'
<1>1. CopiedInOrder' /\ LinesKept' /\ AttachOp' = AttachOp /\ Conts' = Conts /\ attachCase' = attachCase
  BY NothingCopied DEF ContainerRemoved
<1>2. AttachTypes'
  BY <1>1 DEF ContainerRemoved, AttachInv, AttachTypes, ContainerStates, StreamSteps
<1>3. StreamsInv'
  BY <1>1 DEF ContainerRemoved, AttachInv, AttachTypes, StreamsInv, StartsInv, EndInv, Coming
<1>4. StartsInv'
  BY <1>1 DEF ContainerRemoved, AttachInv, AttachTypes, StartsInv, EndInv, Coming
<1>5. EndInv'
  BY <1>1 DEF ContainerRemoved, AttachInv, AttachTypes, EndInv, Live, Ended
<1> QED BY <1>1, <1>2, <1>3, <1>4, <1>5 DEF AttachInv

(* A container is stopped. *)
LEMMA GracefulStopKept ==
  ASSUME AttachInv, NEW c \in DOMAIN Conts, Live, GracefulStop(c)
  PROVE  AttachInv'
<1>1. CopiedInOrder' /\ LinesKept' /\ AttachOp' = AttachOp /\ Conts' = Conts /\ attachCase' = attachCase
  BY NothingCopied DEF GracefulStop, Selected
<1>2. AttachTypes'
  BY <1>1 DEF GracefulStop, Selected, AttachInv, AttachTypes, ContainerStates, StreamSteps
<1>3. StreamsInv'
  BY <1>1 DEF GracefulStop, Selected, AttachInv, AttachTypes, StreamsInv, StartsInv, EndInv, Coming
<1>4. StartsInv'
  BY <1>1 DEF GracefulStop, Selected, AttachInv, AttachTypes, StartsInv, EndInv, Coming
<1>5. EndInv'
  BY <1>1 DEF GracefulStop, Selected, AttachInv, AttachTypes, EndInv, Live, Ended
<1> QED BY <1>1, <1>2, <1>3, <1>4, <1>5 DEF AttachInv

(* A container writes: what is shown is as it was. *)
LEMMA ContainerWritesKept ==
  ASSUME AttachInv, NEW c \in DOMAIN Conts, Live, ContainerWrites(c)
  PROVE  AttachInv'
<1>1. AttachOp' = AttachOp /\ Conts' = Conts /\ attachCase' = attachCase
  BY DEF ContainerWrites, Conts, AttachOp
<1>2. AttachTypes'
  BY <1>1 DEF ContainerWrites, AttachInv, AttachTypes
<1>3. CopiedInOrder'
  <2> SUFFICES ASSUME NEW d \in DOMAIN Conts PROVE shown'[d] <= written'[d] /\ written'[d] <= Len(Conts[d].writes)
    BY <1>1 DEF CopiedInOrder
  <2>1. shown'[d] = shown[d] /\ written'[d] = IF d = c THEN written[c] + 1 ELSE written[d]
    BY DEF ContainerWrites, AttachInv, AttachTypes
  <2>2. shown[d] \in Nat /\ written[d] \in Nat /\ shown[d] <= written[d] /\ written[d] <= Len(Conts[d].writes) /\ Len(Conts[d].writes) \in Nat
    BY PiecesOf DEF AttachInv, AttachTypes, CopiedInOrder
  <2>3. written[c] < Len(Conts[c].writes)
    BY DEF ContainerWrites
  <2> QED BY <2>1, <2>2, <2>3
<1>4. LinesKept'
  BY <1>1 DEF ContainerWrites, AttachInv, LinesKept
<1>5. StreamsInv'
  BY <1>1 DEF ContainerWrites, AttachInv, AttachTypes, StreamsInv, Coming
<1>6. StartsInv' /\ EndInv'
  BY <1>1 DEF ContainerWrites, AttachInv, StartsInv, EndInv, Coming
<1> QED BY <1>2, <1>3, <1>4, <1>5, <1>6 DEF AttachInv

(* A piece is copied: its lines are added to those of the text before it. *)
LEMMA CopyKept ==
  ASSUME AttachInv, NEW c \in DOMAIN Conts, Live, Copy(c)
  PROVE  AttachInv'
<1>1. AttachOp' = AttachOp /\ Conts' = Conts /\ attachCase' = attachCase
  BY DEF Copy, Conts, AttachOp
<1>2. AttachTypes'
  <2>1. logged' = [d \in DOMAIN Conts |-> logged'[d]]
    <3>1. PICK lines : logged' = [logged EXCEPT ![c] = lines]
      BY DEF Copy
    <3>2. logged = [d \in DOMAIN Conts |-> logged[d]]
      BY DEF AttachInv, AttachTypes
    <3> QED BY <3>1, <3>2
  <2>2. shown' \in [DOMAIN Conts -> Nat]
    BY DEF Copy, AttachInv, AttachTypes
  <2> QED BY <1>1, <2>1, <2>2 DEF Copy, AttachInv, AttachTypes
<1>3. \A d \in DOMAIN Conts : written'[d] = written[d] /\ shown'[d] = IF d = c THEN shown[c] + 1 ELSE shown[d]
  BY DEF Copy, AttachInv, AttachTypes
<1>4. \A d \in DOMAIN Conts : shown[d] \in Nat /\ written[d] \in Nat /\ shown[d] <= written[d] /\ written[d] <= Len(Conts[d].writes)
  BY DEF AttachInv, AttachTypes, CopiedInOrder
<1>5. shown[c] < written[c] /\ stream[c] # "done" /\ Len(Conts[c].writes) \in Nat
  BY PiecesOf DEF Copy, AttachInv
<1>6. CopiedInOrder'
  BY <1>1, <1>3, <1>4, <1>5 DEF CopiedInOrder
<1>7. LinesKept'
  <2> SUFFICES ASSUME NEW d \in DOMAIN Conts, AttachOp \in {"up", "logs"}, \A i \in 1 .. shown'[d] - 1 : Last(Conts[d].writes[i]) = NewLine
               PROVE  logged'[d] = LinesOf(TextOf(Conts[d].writes)[shown'[d]])
    BY <1>1 DEF LinesKept
  <2>1. CASE d # c
    <3>1. shown'[d] = shown[d] /\ logged'[d] = logged[d]
      BY <1>3, <2>1 DEF Copy, AttachInv, AttachTypes
    <3> QED BY <3>1 DEF AttachInv, LinesKept
  <2>2. CASE d = c
    <3>1. PICK n, w : n \in Nat /\ n = shown[c] /\ w = Conts[c].writes
      BY <1>4
    <3>2. shown'[d] = n + 1 /\ n \in 0 .. Len(w) - 1 /\ w \in Seq(Seq(STRING) \ {<<>>})
      <4>1. w \in Seq(Seq(STRING) \ {<<>>}) /\ Len(w) \in Nat
        BY <3>1, PiecesOf DEF AttachInv
      <4> QED BY <1>3, <1>4, <1>5, <2>2, <3>1, <4>1
    <3>3. \A i \in 1 .. n : Last(w[i]) = NewLine
      <4>1. (n + 1) - 1 = n
        BY <3>1
      <4> QED BY <2>2, <3>1, <3>2, <4>1
    <3>4. logged[c] = LinesOf(TextOf(w)[n])
      <4>1. \A i \in 1 .. n - 1 : i \in 1 .. n
        BY <3>1
      <4> QED BY <3>1, <3>3, <4>1 DEF AttachInv, LinesKept
    <3>5. AttachOp # "run"
      OBVIOUS
    <3>6. logged'[c] = logged[c] \o LinesOf(w[n + 1])
      BY <3>1, <3>5 DEF Copy, AttachInv, AttachTypes, splitBuffer
    <3>7. LinesOf(TextOf(w)[n + 1]) = LinesOf(TextOf(w)[n]) \o LinesOf(w[n + 1])
      BY <3>2, <3>3, LinesCopied
    <3> QED BY <2>2, <3>1, <3>2, <3>4, <3>6, <3>7
  <2> QED BY <2>1, <2>2
<1>8. StreamsInv'
  BY <1>1, <1>3, <1>5 DEF Copy, AttachInv, StreamsInv, Coming
<1>9. StartsInv' /\ EndInv'
  BY <1>1 DEF Copy, AttachInv, StartsInv, EndInv, Coming
<1> QED BY <1>2, <1>6, <1>7, <1>8, <1>9 DEF AttachInv

(* A step that changes nothing. *)
LEMMA AttachStays ==
  ASSUME AttachInv, UNCHANGED attachVars
  PROVE  AttachInv'
<1>1. CopiedInOrder' /\ LinesKept' /\ AttachOp' = AttachOp /\ Conts' = Conts /\ attachCase' = attachCase
  BY NothingCopied DEF attachVars
<1>2. AttachTypes' /\ StreamsInv' /\ StartsInv' /\ EndInv'
  BY <1>1 DEF attachVars, AttachInv, AttachTypes, StreamsInv, StartsInv, EndInv, Coming
<1> QED BY <1>1, <1>2 DEF AttachInv

(***************************************************************************)
(* Whatever a project's containers write, however many they are and        *)
(* whenever they exit, are removed or are started, a command that returns  *)
(* without an error, and was not interrupted, has shown all that its       *)
(* containers wrote, and up and logs have shown it in its lines where it   *)
(* was written in whole ones (attach, Logs, splitBuffer).                  *)
(***************************************************************************)
THEOREM OutputIsRight == AttachSpec => []OutputRight
<1>1. AttachInv /\ [AttachNext]_attachVars => AttachInv'
  <2> SUFFICES ASSUME AttachInv, [AttachNext]_attachVars PROVE AttachInv'
    OBVIOUS
  <2>1. CASE attach \/ StartFails \/ Started \/ GroupWait \/ Interrupt \/ StopLists \/ StopFails \/ Stopped
    BY <2>1, AttachKept, StartFailsKept, StartedKept, GroupWaitKept, InterruptKept, StopListsKept, StopFailsKept, StoppedKept
  <2>2. CASE AttachRests \/ UNCHANGED attachVars
    BY <2>2, AttachStays DEF AttachRests
  <2>3. ASSUME NEW c \in DOMAIN Conts, Live, StartContainer(c) \/ StreamStep(c) \/ ContainerStep(c) \/ GracefulStop(c) PROVE AttachInv'
    <3>1. CASE StartContainer(c) \/ GracefulStop(c)
      BY <2>3, <3>1, StartContainerKept, GracefulStopKept
    <3>2. CASE StreamStep(c)
      <4>1. CASE GetService(c) \/ getContainerStreams(c) \/ FollowLogs(c)
        BY <2>3, <4>1, GetServiceKept, GetContainerStreamsKept, FollowLogsKept
      <4>2. CASE Copy(c) \/ CopyEnds(c) \/ StreamClosed(c)
        BY <2>3, <4>2, CopyKept, CopyEndsKept, StreamClosedKept
      <4> QED BY <3>2, <4>1, <4>2 DEF StreamStep
    <3>3. CASE ContainerStep(c)
      <4>1. CASE ContainerWrites(c)
        BY <2>3, <4>1, ContainerWritesKept
      <4>2. CASE ContainerExits(c) \/ ContainerRemoved(c)
        BY <2>3, <4>2, ContainerExitsKept, ContainerRemovedKept
      <4> QED BY <3>3, <4>1, <4>2 DEF ContainerStep
    <3> QED BY <2>3, <3>1, <3>2, <3>3
  <2>4. CASE \E c \in DOMAIN Conts : EngineStarts(c)
    BY <2>4, EngineStartsKept
  <2> QED BY <2>1, <2>2, <2>3, <2>4 DEF AttachNext
<1>2. AttachInv => OutputRight
  BY DEF AttachInv, AttachTypes, StreamsInv, EndInv, OutputRight, OutputComplete
<1> QED BY AttachBegins, <1>1, <1>2, PTL DEF AttachSpec

-----------------------------------------------------------------------------
(***************************************************************************)
(* The containers of the local backend (LocalContainers).  First the       *)
(* texts, groups and numbers, which the code makes in loops: a step that   *)
(* keeps to a set defines a function of the number of turns.               *)
(***************************************************************************)
IsStep(G, X, N) == G \in [X \X (1 .. N) -> X]
IsLoop(f, z, G, X, N) == f \in [0 .. N -> X] /\ f[0] = z /\ \A n \in 1 .. N : f[n] = G[<<f[n - 1], n>>]

(* A recursion over numbers defines something. *)
LEMMA LoopDefined ==
  ASSUME NEW X, NEW z \in X, NEW N \in Nat, NEW G, IsStep(G, X, N)
  PROVE  \E f : IsLoop(f, z, G, X, N)
<1>0. G \in [X \X (1 .. N) -> X]
  BY DEF IsStep
<1> DEFINE Is(f, m) == f \in [0 .. m -> X] /\ f[0] = z /\ \A n \in 1 .. m : f[n] = G[<<f[n - 1], n>>]
<1> DEFINE T == {m \in Nat : m <= N => \E f : Is(f, m)}
<1>1. 0 \in T
  <2>1. Is([n \in 0 .. 0 |-> z], 0)
    OBVIOUS
  <2> QED BY <2>1
<1>2. \A m \in T : m + 1 \in T
  <2>0. \A m \in Nat : (m + 1 <= N => \E f : Is(f, m + 1)) => m + 1 \in T
    <3> HIDE DEF Is
    <3> QED OBVIOUS
  <2>1. SUFFICES ASSUME NEW m \in T, m + 1 <= N PROVE \E f : Is(f, m + 1)
    <3> HIDE DEF Is
    <3> QED BY <2>0
  <2>2. m \in Nat /\ m <= N
    BY <2>1
  <2>3. PICK f : Is(f, m)
    <3> HIDE DEF Is
    <3> QED BY <2>1, <2>2
  <2>4. f[m] \in X /\ m + 1 \in 1 .. N
    BY <2>1, <2>2, <2>3
  <2>5. PICK y : y = G[<<f[m], m + 1>>] /\ y \in X
    BY <1>0, <2>4
  <2> DEFINE g == [n \in 0 .. m + 1 |-> IF n = m + 1 THEN y ELSE f[n]]
  <2>6. g \in [0 .. m + 1 -> X] /\ g[0] = z
    BY <2>2, <2>3, <2>5
  <2>7. ASSUME NEW n \in 1 .. m + 1 PROVE g[n] = G[<<g[n - 1], n>>]
    <3>1. n - 1 \in 0 .. m /\ n - 1 # m + 1 /\ g[n - 1] = f[n - 1]
      BY <2>2
    <3>2. CASE n = m + 1
      <4>1. n - 1 = m /\ g[n] = y
        BY <2>2, <3>2
      <4> QED BY <2>5, <3>1, <3>2, <4>1
    <3>3. CASE n # m + 1
      <4>1. n \in 1 .. m /\ g[n] = f[n]
        BY <2>2, <3>3
      <4> QED BY <2>3, <3>1, <4>1
    <3> QED BY <3>2, <3>3
  <2> HIDE DEF g
  <2>8. Is(g, m + 1)
    BY <2>6, <2>7
  <2> QED BY <2>8
<1>3. T = Nat
  <2> HIDE DEF T
  <2>1. T \subseteq Nat
    BY DEF T
  <2> QED BY <1>1, <1>2, <2>1, NatSetInduction
<1>4. PICK f : Is(f, N)
  <2> HIDE DEF Is
  <2>1. N \in T
    <3> HIDE DEF T
    <3> QED BY <1>3
  <2> QED BY <2>1
<1> QED BY <1>4 DEF IsLoop

(* How many numbers of a set there are up to a number. *)
LEMMA CountStep ==
  ASSUME NEW A, NEW n \in Nat
  PROVE  /\ IsFiniteSet(A \cap (1 .. n)) /\ Cardinality(A \cap (1 .. n)) \in Nat
         /\ Cardinality(A \cap (1 .. 0)) = 0
         /\ Cardinality(A \cap (1 .. n + 1)) = Cardinality(A \cap (1 .. n)) + (IF n + 1 \in A THEN 1 ELSE 0)
<1>1. IsFiniteSet(1 .. n) /\ A \cap (1 .. n) \subseteq 1 .. n
  BY FS_Interval
<1>2. IsFiniteSet(A \cap (1 .. n)) /\ Cardinality(A \cap (1 .. n)) \in Nat
  BY <1>1, FS_Subset, FS_CardinalityType
<1>3. A \cap (1 .. 0) = {}
  OBVIOUS
<1>4. n + 1 \notin A \cap (1 .. n)
  OBVIOUS
<1>5. CASE n + 1 \in A
  <2>1. A \cap (1 .. n + 1) = (A \cap (1 .. n)) \cup {n + 1}
    BY <1>5
  <2>2. PICK B : B = A \cap (1 .. n)
    OBVIOUS
  <2>3. IsFiniteSet(B) /\ n + 1 \notin B
    BY <1>2, <1>4, <2>2
  <2>4. Cardinality(B \cup {n + 1}) = Cardinality(B) + 1
    BY <2>3, FS_AddElement
  <2> QED BY <1>2, <1>3, <1>5, <2>1, <2>2, <2>4, FS_EmptySet
<1>6. CASE n + 1 \notin A
  <2>1. A \cap (1 .. n + 1) = A \cap (1 .. n)
    BY <1>6
  <2> QED BY <1>2, <1>3, <1>6, <2>1, FS_EmptySet
<1> QED BY <1>5, <1>6

PartsOf(v, sign) == CHOOSE f : f = [n \in 0 .. Len(v) |-> IF n = 0 THEN << <<>> >> ELSE Cut(f[n - 1], v[n], sign)]

(* A step of the cut: one part more at a sign, and as many elsewhere. *)
LEMMA CutStep ==
  ASSUME NEW S, NEW parts \in Seq(Seq(S)) \ {<<>>}, NEW e \in S, NEW sign
  PROVE  /\ Cut(parts, e, sign) \in Seq(Seq(S)) \ {<<>>}
         /\ Len(Cut(parts, e, sign)) = Len(parts) + (IF e = sign THEN 1 ELSE 0)
<1>1. PICK R : R = Seq(S)
  OBVIOUS
<1>2. parts \in Seq(R) /\ parts # <<>> /\ Len(parts) \in Nat /\ Len(parts) >= 1
  BY <1>1
<1>3. CASE e = sign
  <2>1. <<>> \in R
    BY <1>1
  <2>2. Append(parts, <<>>) \in Seq(R) /\ Len(Append(parts, <<>>)) = Len(parts) + 1 /\ Append(parts, <<>>) # <<>>
    BY <1>2, <2>1, AppendProperties
  <2> QED BY <1>1, <1>3, <2>2 DEF Cut
<1>4. CASE e # sign
  <2>1. PICK w : w = Append(parts[Len(parts)], e)
    OBVIOUS
  <2>2. parts[Len(parts)] \in R
    BY <1>2
  <2>3. w \in R
    BY <1>1, <2>1, <2>2, AppendProperties
  <2>4. Cut(parts, e, sign) = [parts EXCEPT ![Len(parts)] = w]
    BY <1>4, <2>1 DEF Cut
  <2>5. [parts EXCEPT ![Len(parts)] = w] \in Seq(R) /\ Len([parts EXCEPT ![Len(parts)] = w]) = Len(parts)
    BY <1>2, <2>3, ExceptSeq
  <2> QED BY <1>1, <1>2, <1>4, <2>4, <2>5
<1> QED BY <1>3, <1>4

(* The parts of a text are one more than its signs. *)
LEMMA PartsCounted ==
  ASSUME NEW S, NEW v \in Seq(S), NEW sign
  PROVE  Len(SplitAt(v, sign)) = 1 + Cardinality({i \in DOMAIN v : v[i] = sign}) /\ Cardinality({i \in DOMAIN v : v[i] = sign}) \in Nat
<1> DEFINE X == Seq(Seq(S)) \ {<<>>}
           N == Len(v)
           G == [q \in X \X (1 .. N) |-> Cut(q[1], v[q[2]], sign)]
           f == PartsOf(v, sign)
           A == {i \in DOMAIN v : v[i] = sign}
<1>1. N \in Nat /\ DOMAIN v = 1 .. N /\ \A n \in 1 .. N : v[n] \in S
  OBVIOUS
<1>2. << <<>> >> \in X
  OBVIOUS
<1> HIDE DEF X
<1>3. G \in [X \X (1 .. N) -> X]
  <2>1. ASSUME NEW q \in X \X (1 .. N) PROVE Cut(q[1], v[q[2]], sign) \in X
    <3>1. q[1] \in X /\ q[2] \in 1 .. N /\ v[q[2]] \in S
      BY <1>1
    <3> QED BY <3>1, CutStep DEF X
  <2> QED BY <2>1
<1>4. PICK g \in [0 .. N -> X] : g[0] = << <<>> >> /\ \A n \in 1 .. N : g[n] = G[<<g[n - 1], n>>]
  <2> HIDE DEF G, N
  <2>1. IsStep(G, X, N)
    BY <1>3 DEF IsStep
  <2>2. PICK g : IsLoop(g, << <<>> >>, G, X, N)
    BY <1>1, <1>2, <2>1, LoopDefined
  <2> QED BY <2>2 DEF IsLoop
<1>5. \A n \in 1 .. N : n - 1 \in 0 .. N /\ g[n - 1] \in X /\ g[n] = Cut(g[n - 1], v[n], sign)
  <2> SUFFICES ASSUME NEW n \in 1 .. N PROVE n - 1 \in 0 .. N /\ g[n - 1] \in X /\ g[n] = Cut(g[n - 1], v[n], sign)
    OBVIOUS
  <2>1. n - 1 \in 0 .. N /\ g[n - 1] \in X
    BY <1>1, <1>4
  <2> QED BY <1>4, <2>1
<1>6. g = [n \in 0 .. N |-> IF n = 0 THEN << <<>> >> ELSE Cut(g[n - 1], v[n], sign)]
  <2>1. ASSUME NEW n \in 0 .. N PROVE g[n] = IF n = 0 THEN << <<>> >> ELSE Cut(g[n - 1], v[n], sign)
    <3>1. n # 0 => n \in 1 .. N
      BY <1>1
    <3> QED BY <1>4, <1>5, <3>1
  <2> QED BY <1>4, <2>1
<1>7. f = [n \in 0 .. N |-> IF n = 0 THEN << <<>> >> ELSE Cut(f[n - 1], v[n], sign)]
  BY <1>6 DEF PartsOf
<1>8. SplitAt(v, sign) = f[N]
  BY DEF SplitAt, PartsOf
<1> HIDE DEF f, G, N
<1> DEFINE Is(n) == f[n] \in X /\ Len(f[n]) = 1 + Cardinality(A \cap (1 .. n))
<1>9. \A n \in Nat : n <= N => Is(n)
  <2> DEFINE T == {n \in Nat : n <= N => Is(n)}
  <2>1. 0 \in T
    <3>1. f[0] = << <<>> >> /\ Len(<< <<>> >>) = 1
      BY <1>1, <1>7
    <3>2. Cardinality(A \cap (1 .. 0)) = 0
      BY CountStep
    <3>3. Is(0)
      BY <1>2, <3>1, <3>2
    <3> HIDE DEF Is
    <3> QED BY <3>3
  <2>2. \A n \in T : n + 1 \in T
    <3>1. SUFFICES ASSUME NEW n \in T, n + 1 <= N PROVE Is(n + 1)
      <4> HIDE DEF Is
      <4> QED OBVIOUS
    <3>2. n \in Nat /\ n + 1 \in 0 .. N /\ n + 1 \in 1 .. N /\ (n + 1) - 1 = n /\ n + 1 # 0 /\ Is(n)
      <4> HIDE DEF Is
      <4> QED BY <1>1, <3>1
    <3> HIDE DEF T
    <3>3. f[n + 1] = Cut(f[n], v[n + 1], sign) /\ v[n + 1] \in S
      BY <1>1, <1>7, <3>2
    <3>4. f[n + 1] \in X /\ Len(f[n + 1]) = Len(f[n]) + (IF v[n + 1] = sign THEN 1 ELSE 0)
      BY <3>2, <3>3, CutStep DEF X
    <3>5. n + 1 \in A <=> v[n + 1] = sign
      BY <1>1, <3>2
    <3> HIDE DEF A
    <3>6. /\ Cardinality(A \cap (1 .. n + 1)) = Cardinality(A \cap (1 .. n)) + (IF n + 1 \in A THEN 1 ELSE 0)
          /\ Cardinality(A \cap (1 .. n)) \in Nat
      BY <3>2, CountStep
    <3> QED BY <3>2, <3>4, <3>5, <3>6
  <2>3. T = Nat
    <3> HIDE DEF T
    <3>1. T \subseteq Nat
      BY DEF T
    <3> QED BY <2>1, <2>2, <3>1, NatSetInduction
  <2> HIDE DEF Is
  <2> QED BY <2>3
<1>10. A \cap (1 .. N) = A
  BY <1>1
<1>11. Cardinality(A) \in Nat
  BY <1>1, <1>10, CountStep
<1> QED BY <1>1, <1>8, <1>9, <1>10, <1>11

(* What is under a key of a group, and nothing where there is none. *)
At(groups, p) == IF p \in DOMAIN groups THEN groups[p] ELSE <<>>
GroupSet(P, E) == UNION {[D -> Seq(E)] : D \in SUBSET P}
GroupsOf(cs) == CHOOSE f : f = [n \in 0 .. Len(cs) |-> IF n = 0 THEN NoBox ELSE Grouped(f[n - 1], cs[n])]
Tally(s, st) == Cardinality({j \in DOMAIN s : s[j].state = st})

AddedTo(h, g, c, E) ==
    /\ DOMAIN h = DOMAIN g \cup {c.project}
    /\ \A p : At(g, p) \in Seq(E) /\ At(h, p) = IF p = c.project THEN Append(At(g, p), c) ELSE At(g, p)

(* A container is added to its project alone. *)
LEMMA GroupedStep ==
  ASSUME NEW P, NEW E, NEW g \in GroupSet(P, E), NEW c \in E, c.project \in P
  PROVE  Grouped(g, c) \in GroupSet(P, E) /\ AddedTo(Grouped(g, c), g, c, E)
<1>1. PICK D \in SUBSET P : g \in [D -> Seq(E)]
  BY DEF GroupSet
<1>2. PICK h : h = Grouped(g, c)
  OBVIOUS
<1>3. \A p : At(g, p) \in Seq(E)
  BY <1>1 DEF At
<1>4. h = [p \in D \cup {c.project} |-> IF p # c.project THEN g[p] ELSE Append(At(g, p), c)]
  BY <1>1, <1>2 DEF Grouped, At
<1>5. h \in [D \cup {c.project} -> Seq(E)]
  <2>1. ASSUME NEW p \in D \cup {c.project} PROVE (IF p # c.project THEN g[p] ELSE Append(At(g, p), c)) \in Seq(E)
    <3>1. Append(At(g, p), c) \in Seq(E)
      BY <1>3, AppendProperties
    <3> QED BY <1>1, <3>1
  <2> QED BY <1>4, <2>1
<1>6. h \in GroupSet(P, E)
  <2>1. D \cup {c.project} \in SUBSET P
    OBVIOUS
  <2> QED BY <1>5, <2>1 DEF GroupSet
<1>7. ASSUME NEW p PROVE At(h, p) = IF p = c.project THEN Append(At(g, p), c) ELSE At(g, p)
  <2>1. DOMAIN h = D \cup {c.project} /\ DOMAIN g = D
    BY <1>1, <1>4
  <2>2. CASE p = c.project
    BY <1>4, <2>1, <2>2 DEF At
  <2>3. CASE p # c.project
    BY <1>4, <2>1, <2>3 DEF At
  <2> QED BY <2>2, <2>3
<1> QED BY <1>1, <1>2, <1>3, <1>4, <1>6, <1>7 DEF AddedTo

(* One container more is counted if it is in that state. *)
LEMMA TallyStep ==
  ASSUME NEW E, NEW s \in Seq(E), NEW c \in E, NEW st
  PROVE  Tally(<<>>, st) = 0 /\ Tally(s, st) \in Nat /\ Tally(Append(s, c), st) = Tally(s, st) + (IF c.state = st THEN 1 ELSE 0)
<1>1. PICK t, n : t = Append(s, c) /\ n = Len(s)
  OBVIOUS
<1>2. n \in Nat /\ DOMAIN s = 1 .. n /\ t \in Seq(E) /\ Len(t) = n + 1 /\ (\A i \in 1 .. n : t[i] = s[i]) /\ t[n + 1] = c
  BY <1>1, AppendProperties
<1>3. DOMAIN t = 1 .. n + 1
  BY <1>2
<1> DEFINE A == {j \in 1 .. n + 1 : t[j].state = st}
<1>4. A \cap (1 .. n + 1) = {j \in DOMAIN t : t[j].state = st}
  BY <1>3
<1>5. A \cap (1 .. n) = {j \in DOMAIN s : s[j].state = st}
  <2>1. \A j \in 1 .. n : j \in 1 .. n + 1
    BY <1>2
  <2> QED BY <1>2, <2>1
<1>6. n + 1 \in A <=> c.state = st
  BY <1>2
<1>7. {j \in DOMAIN <<>> : <<>>[j].state = st} = {}
  OBVIOUS
<1> HIDE DEF A
<1>8. /\ Cardinality(A \cap (1 .. n)) \in Nat
      /\ Cardinality(A \cap (1 .. n + 1)) = Cardinality(A \cap (1 .. n)) + (IF n + 1 \in A THEN 1 ELSE 0)
  BY <1>2, CountStep
<1> QED BY <1>1, <1>4, <1>5, <1>6, <1>7, <1>8, FS_EmptySet DEF Tally

GroupsOfAll(g, cs, E) ==
    /\ DOMAIN g = {cs[i].project : i \in DOMAIN cs}
    /\ \A p \in DOMAIN g :
          /\ g[p] \in Seq(E)
          /\ \A st : Tally(g[p], st) = Cardinality({i \in DOMAIN cs : cs[i].project = p /\ cs[i].state = st})

(* Every project has a group, with as many containers in a state as there are of it. *)
LEMMA GroupsCounted ==
  ASSUME NEW E, NEW cs \in Seq(E)
  PROVE  GroupsOfAll(groupContainerByLabel(cs), cs, E)
<1> DEFINE P == {cs[i].project : i \in DOMAIN cs}
           X == GroupSet(P, E)
           N == Len(cs)
           G == [q \in X \X (1 .. N) |-> Grouped(q[1], cs[q[2]])]
           f == GroupsOf(cs)
<1>1. N \in Nat /\ DOMAIN cs = 1 .. N /\ \A n \in 1 .. N : cs[n] \in E /\ cs[n].project \in P
  OBVIOUS
<1>2. NoBox \in X /\ DOMAIN NoBox = {} /\ \A p : At(NoBox, p) = <<>>
  <2>1. NoBox \in [{} -> Seq(E)] /\ {} \in SUBSET P
    BY DEF NoBox
  <2> QED BY <2>1 DEF GroupSet, At
<1> HIDE DEF X, P
<1>3. G \in [X \X (1 .. N) -> X]
  <2>1. ASSUME NEW q \in X \X (1 .. N) PROVE Grouped(q[1], cs[q[2]]) \in X
    <3>1. q[1] \in X /\ q[2] \in 1 .. N /\ cs[q[2]] \in E /\ cs[q[2]].project \in P
      BY <1>1
    <3> QED BY <3>1, GroupedStep DEF X
  <2> QED BY <2>1
<1>4. PICK g \in [0 .. N -> X] : g[0] = NoBox /\ \A n \in 1 .. N : g[n] = G[<<g[n - 1], n>>]
  <2> HIDE DEF G, N
  <2>1. IsStep(G, X, N)
    BY <1>3 DEF IsStep
  <2>2. PICK g : IsLoop(g, NoBox, G, X, N)
    BY <1>1, <1>2, <2>1, LoopDefined
  <2> QED BY <2>2 DEF IsLoop
<1>5. \A n \in 1 .. N : n - 1 \in 0 .. N /\ g[n - 1] \in X /\ g[n] = Grouped(g[n - 1], cs[n])
  <2> SUFFICES ASSUME NEW n \in 1 .. N PROVE n - 1 \in 0 .. N /\ g[n - 1] \in X /\ g[n] = Grouped(g[n - 1], cs[n])
    OBVIOUS
  <2>1. n - 1 \in 0 .. N /\ g[n - 1] \in X
    BY <1>1, <1>4
  <2> QED BY <1>4, <2>1
<1>6. g = [n \in 0 .. N |-> IF n = 0 THEN NoBox ELSE Grouped(g[n - 1], cs[n])]
  <2>1. ASSUME NEW n \in 0 .. N PROVE g[n] = IF n = 0 THEN NoBox ELSE Grouped(g[n - 1], cs[n])
    <3>1. n # 0 => n \in 1 .. N
      BY <1>1
    <3> QED BY <1>4, <1>5, <3>1
  <2> QED BY <1>4, <2>1
<1>7. f = [n \in 0 .. N |-> IF n = 0 THEN NoBox ELSE Grouped(f[n - 1], cs[n])]
  BY <1>6 DEF GroupsOf
<1>8. groupContainerByLabel(cs) = f[N]
  BY DEF groupContainerByLabel, GroupsOf
<1> HIDE DEF f, G, N
<1> DEFINE A(p, st) == {i \in 1 .. N : cs[i].project = p /\ cs[i].state = st}
           Is(n) == /\ f[n] \in X /\ DOMAIN f[n] = {cs[i].project : i \in 1 .. n}
                    /\ \A p, st : Tally(At(f[n], p), st) = Cardinality(A(p, st) \cap (1 .. n))
<1>9. \A n \in Nat : n <= N => Is(n)
  <2> DEFINE T == {n \in Nat : n <= N => Is(n)}
  <2>1. 0 \in T
    <3>1. f[0] = NoBox /\ 1 .. 0 = {}
      BY <1>1, <1>7
    <3>2. \A p, st : Cardinality(A(p, st) \cap (1 .. 0)) = 0
      <4> HIDE DEF A
      <4> QED BY CountStep
    <3>3. \A st : Tally(<<>>, st) = 0
      <4>1. \A st : {j \in DOMAIN <<>> : <<>>[j].state = st} = {}
        OBVIOUS
      <4> QED BY <4>1, FS_EmptySet DEF Tally
    <3>4. Is(0)
      <4> HIDE DEF A
      <4> QED BY <1>2, <3>1, <3>2, <3>3
    <3> HIDE DEF Is
    <3> QED BY <3>4
  <2>2. \A n \in T : n + 1 \in T
    <3>1. SUFFICES ASSUME NEW n \in T, n + 1 <= N PROVE Is(n + 1)
      <4> HIDE DEF Is
      <4> QED OBVIOUS
    <3>2. n \in Nat /\ n + 1 \in 0 .. N /\ n + 1 \in 1 .. N /\ (n + 1) - 1 = n /\ n + 1 # 0 /\ Is(n)
      <4> HIDE DEF Is
      <4> QED BY <1>1, <3>1
    <3> HIDE DEF T
    <3>3. PICK c, g1, g2 : c = cs[n + 1] /\ g1 = f[n] /\ g2 = f[n + 1]
      OBVIOUS
    <3>4. g2 = Grouped(g1, c) /\ c \in E /\ c.project \in P /\ g1 \in X
      <4> HIDE DEF A
      <4> QED BY <1>1, <1>7, <3>2, <3>3
    <3>5. /\ g2 \in X /\ DOMAIN g2 = DOMAIN g1 \cup {c.project}
          /\ \A p : At(g1, p) \in Seq(E) /\ At(g2, p) = IF p = c.project THEN Append(At(g1, p), c) ELSE At(g1, p)
      <4> HIDE DEF A, Is
      <4>1. g1 \in GroupSet(P, E)
        BY <3>4 DEF X
      <4>2. Grouped(g1, c) \in GroupSet(P, E) /\ AddedTo(Grouped(g1, c), g1, c, E)
        BY <3>4, <4>1, GroupedStep
      <4> QED BY <3>4, <4>2 DEF X, AddedTo
    <3>6. DOMAIN g2 = {cs[i].project : i \in 1 .. n + 1}
      <4>1. DOMAIN g1 = {cs[i].project : i \in 1 .. n}
        BY <3>2, <3>3
      <4>2. 1 .. n + 1 = (1 .. n) \cup {n + 1}
        BY <3>2
      <4> QED BY <3>3, <3>5, <4>1, <4>2
    <3>7. ASSUME NEW p, NEW st PROVE Tally(At(g2, p), st) = Cardinality(A(p, st) \cap (1 .. n + 1))
      <4>1. n + 1 \in A(p, st) <=> c.project = p /\ c.state = st
        BY <3>2, <3>3
      <4>2. Tally(At(g1, p), st) = Cardinality(A(p, st) \cap (1 .. n))
        BY <3>2, <3>3
      <4> HIDE DEF A
      <4>3. /\ Cardinality(A(p, st) \cap (1 .. n + 1)) = Cardinality(A(p, st) \cap (1 .. n)) + (IF n + 1 \in A(p, st) THEN 1 ELSE 0)
            /\ Cardinality(A(p, st) \cap (1 .. n)) \in Nat
        BY <3>2, CountStep
      <4>4. PICK s \in Seq(E) : s = At(g1, p)
        BY <3>5
      <4>5. Tally(Append(s, c), st) = Tally(s, st) + (IF c.state = st THEN 1 ELSE 0)
        BY <3>4, TallyStep
      <4>6. CASE p = c.project
        BY <3>5, <4>1, <4>2, <4>3, <4>4, <4>5, <4>6
      <4>7. CASE p # c.project
        BY <3>5, <4>1, <4>2, <4>3, <4>7
      <4> QED BY <4>6, <4>7
    <3> HIDE DEF A
    <3> QED BY <3>3, <3>5, <3>6, <3>7
  <2>3. T = Nat
    <3> HIDE DEF T
    <3>1. T \subseteq Nat
      BY DEF T
    <3> QED BY <2>1, <2>2, <3>1, NatSetInduction
  <2> HIDE DEF Is
  <2> QED BY <2>3
<1>10. Is(N)
  <2> HIDE DEF Is
  <2> QED BY <1>1, <1>9
<1>11. PICK g3 : g3 = groupContainerByLabel(cs)
  OBVIOUS
<1>12. g3 \in X /\ DOMAIN g3 = {cs[i].project : i \in DOMAIN cs}
  BY <1>1, <1>8, <1>10, <1>11
<1>13. ASSUME NEW p \in DOMAIN g3
       PROVE  g3[p] \in Seq(E) /\ \A st : Tally(g3[p], st) = Cardinality({i \in DOMAIN cs : cs[i].project = p /\ cs[i].state = st})
  <2>1. g3[p] \in Seq(E) /\ At(g3, p) = g3[p]
    BY <1>12 DEF X, GroupSet, At
  <2>2. \A st : A(p, st) \cap (1 .. N) = {i \in DOMAIN cs : cs[i].project = p /\ cs[i].state = st}
    BY <1>1
  <2>3. \A st : Tally(At(g3, p), st) = Cardinality(A(p, st) \cap (1 .. N))
    BY <1>8, <1>10, <1>11
  <2> QED BY <2>1, <2>2, <2>3
<1> QED BY <1>11, <1>12, <1>13 DEF GroupsOfAll

(* The number of each state, and zero where there is none. *)
Nb(counts, t) == IF t \in DOMAIN counts THEN counts[t] ELSE 0
CountSet(Q) == UNION {[D -> Nat] : D \in SUBSET Q}
CountsOf(states) == CHOOSE f : f = [n \in 0 .. Len(states) |-> IF n = 0 THEN NoBox ELSE Counted(f[n - 1], states[n])]

(* A state is added to its number alone. *)
LEMMA CountedStep ==
  ASSUME NEW Q, NEW g \in CountSet(Q), NEW s \in Q
  PROVE  /\ Counted(g, s) \in CountSet(Q)
         /\ \A t : Nb(g, t) \in Nat /\ Nb(Counted(g, s), t) = Nb(g, t) + (IF t = s THEN 1 ELSE 0)
<1>1. PICK D \in SUBSET Q : g \in [D -> Nat]
  BY DEF CountSet
<1>2. PICK h : h = Counted(g, s)
  OBVIOUS
<1>3. \A t : Nb(g, t) \in Nat
  BY <1>1 DEF Nb
<1>4. h = [t \in D \cup {s} |-> Nb(g, t) + (IF t = s THEN 1 ELSE 0)]
  BY <1>1, <1>2 DEF Counted, Nb
<1>5. h \in CountSet(Q)
  <2>1. h \in [D \cup {s} -> Nat]
    BY <1>3, <1>4
  <2>2. D \cup {s} \in SUBSET Q
    OBVIOUS
  <2> QED BY <2>1, <2>2 DEF CountSet
<1>6. ASSUME NEW t PROVE Nb(h, t) = Nb(g, t) + (IF t = s THEN 1 ELSE 0)
  <2>1. DOMAIN h = D \cup {s} /\ DOMAIN g = D
    BY <1>1, <1>4
  <2>2. CASE t \in D \cup {s}
    BY <1>4, <2>1, <2>2 DEF Nb
  <2>3. CASE t \notin D \cup {s}
    BY <2>1, <2>3 DEF Nb
  <2> QED BY <2>2, <2>3
<1> QED BY <1>2, <1>3, <1>5, <1>6

(* Each state is shown with its number. *)
LEMMA StatesCounted ==
  ASSUME NEW Q, NEW states \in Seq(Q)
  PROVE  \A t : Nb(combinedStatus(states), t) = Cardinality({i \in DOMAIN states : states[i] = t})
<1> DEFINE X == CountSet(Q)
           N == Len(states)
           G == [q \in X \X (1 .. N) |-> Counted(q[1], states[q[2]])]
           f == CountsOf(states)
<1>1. N \in Nat /\ DOMAIN states = 1 .. N /\ \A n \in 1 .. N : states[n] \in Q
  OBVIOUS
<1>2. NoBox \in X /\ \A t : Nb(NoBox, t) = 0
  <2>1. NoBox \in [{} -> Nat] /\ {} \in SUBSET Q
    BY DEF NoBox
  <2> QED BY <2>1 DEF CountSet, Nb
<1> HIDE DEF X
<1>3. G \in [X \X (1 .. N) -> X]
  <2>1. ASSUME NEW q \in X \X (1 .. N) PROVE Counted(q[1], states[q[2]]) \in X
    <3>1. q[1] \in X /\ q[2] \in 1 .. N /\ states[q[2]] \in Q
      BY <1>1
    <3> QED BY <3>1, CountedStep DEF X
  <2> QED BY <2>1
<1>4. PICK g \in [0 .. N -> X] : g[0] = NoBox /\ \A n \in 1 .. N : g[n] = G[<<g[n - 1], n>>]
  <2> HIDE DEF G, N
  <2>1. IsStep(G, X, N)
    BY <1>3 DEF IsStep
  <2>2. PICK g : IsLoop(g, NoBox, G, X, N)
    BY <1>1, <1>2, <2>1, LoopDefined
  <2> QED BY <2>2 DEF IsLoop
<1>5. \A n \in 1 .. N : n - 1 \in 0 .. N /\ g[n - 1] \in X /\ g[n] = Counted(g[n - 1], states[n])
  <2> SUFFICES ASSUME NEW n \in 1 .. N PROVE n - 1 \in 0 .. N /\ g[n - 1] \in X /\ g[n] = Counted(g[n - 1], states[n])
    OBVIOUS
  <2>1. n - 1 \in 0 .. N /\ g[n - 1] \in X
    BY <1>1, <1>4
  <2> QED BY <1>4, <2>1
<1>6. g = [n \in 0 .. N |-> IF n = 0 THEN NoBox ELSE Counted(g[n - 1], states[n])]
  <2>1. ASSUME NEW n \in 0 .. N PROVE g[n] = IF n = 0 THEN NoBox ELSE Counted(g[n - 1], states[n])
    <3>1. n # 0 => n \in 1 .. N
      BY <1>1
    <3> QED BY <1>4, <1>5, <3>1
  <2> QED BY <1>4, <2>1
<1>7. f = [n \in 0 .. N |-> IF n = 0 THEN NoBox ELSE Counted(f[n - 1], states[n])]
  BY <1>6 DEF CountsOf
<1>8. combinedStatus(states) = f[N]
  BY DEF combinedStatus, CountsOf
<1> HIDE DEF f, G, N
<1> DEFINE A(t) == {i \in 1 .. N : states[i] = t}
           Is(n) == f[n] \in X /\ \A t : Nb(f[n], t) = Cardinality(A(t) \cap (1 .. n))
<1>9. \A n \in Nat : n <= N => Is(n)
  <2> DEFINE T == {n \in Nat : n <= N => Is(n)}
  <2>1. 0 \in T
    <3>1. f[0] = NoBox
      BY <1>1, <1>7
    <3>2. \A t : Cardinality(A(t) \cap (1 .. 0)) = 0
      <4> HIDE DEF A
      <4> QED BY CountStep
    <3>3. Is(0)
      <4> HIDE DEF A
      <4> QED BY <1>2, <3>1, <3>2
    <3> HIDE DEF Is
    <3> QED BY <3>3
  <2>2. \A n \in T : n + 1 \in T
    <3>1. SUFFICES ASSUME NEW n \in T, n + 1 <= N PROVE Is(n + 1)
      <4> HIDE DEF Is
      <4> QED OBVIOUS
    <3>2. n \in Nat /\ n + 1 \in 0 .. N /\ n + 1 \in 1 .. N /\ (n + 1) - 1 = n /\ n + 1 # 0 /\ Is(n)
      <4> HIDE DEF Is
      <4> QED BY <1>1, <3>1
    <3> HIDE DEF T
    <3>3. PICK s, g1, g2 : s = states[n + 1] /\ g1 = f[n] /\ g2 = f[n + 1]
      OBVIOUS
    <3>4. g2 = Counted(g1, s) /\ s \in Q /\ g1 \in X
      <4> HIDE DEF A
      <4> QED BY <1>1, <1>7, <3>2, <3>3
    <3>5. g2 \in X /\ \A t : Nb(g1, t) \in Nat /\ Nb(g2, t) = Nb(g1, t) + (IF t = s THEN 1 ELSE 0)
      BY <3>4, CountedStep DEF X
    <3>6. ASSUME NEW t PROVE Nb(g2, t) = Cardinality(A(t) \cap (1 .. n + 1))
      <4>1. n + 1 \in A(t) <=> s = t
        BY <3>2, <3>3
      <4>2. Nb(g1, t) = Cardinality(A(t) \cap (1 .. n))
        BY <3>2, <3>3
      <4> HIDE DEF A
      <4>3. Cardinality(A(t) \cap (1 .. n + 1)) = Cardinality(A(t) \cap (1 .. n)) + (IF n + 1 \in A(t) THEN 1 ELSE 0)
        BY <3>2, CountStep
      <4> QED BY <3>5, <4>1, <4>2, <4>3
    <3> HIDE DEF A
    <3> QED BY <3>3, <3>5, <3>6
  <2>3. T = Nat
    <3> HIDE DEF T
    <3>1. T \subseteq Nat
      BY DEF T
    <3> QED BY <2>1, <2>2, <3>1, NatSetInduction
  <2> HIDE DEF Is
  <2> QED BY <2>3
<1>10. Is(N)
  <2> HIDE DEF Is
  <2> QED BY <1>1, <1>9
<1>11. \A t : A(t) \cap (1 .. N) = {i \in DOMAIN states : states[i] = t}
  BY <1>1
<1> QED BY <1>8, <1>10, <1>11

-----------------------------------------------------------------------------
(***************************************************************************)
(* Then the invariant of the commands.  A container that a command has     *)
(* made is as it was asked for, and has its name until it is removed; a    *)
(* run that is alone finds its name free and its image, at the latest when *)
(* it tries again.                                                         *)
(***************************************************************************)
CommandSteps == {"begin", "create", "again", "pull", "start", "inspected", "attached", "ok", "failed"}
CommandTypes ==
    /\ localCase \in LocalCases
    /\ step \in [Commands -> CommandSteps]
    /\ answer = [k \in Commands |-> answer[k]]
    /\ box = [n \in DOMAIN box |-> box[n]]

AsAsked(c, r) ==
    /\ c.env = r.env /\ c.bindings = FromPorts(r.ports) /\ c.autoRemove = r.autoRemove
    /\ c.policy = ToRestartPolicy(r.policy) /\ c.nanoCPUs \in NanoCPUs(r.cpu) /\ c.memory = r.memory
Sound(c) ==
    /\ BoxFields \subseteq DOMAIN c /\ c.starters \subseteq {c.owner} /\ (c.state = "removing" => c.autoRemove)
    /\ c.owner \in Commands => AsAsked(c, Cmd(c.owner)) /\ (c.autoRemove => c.state # "exited")
BoxInv == \A n \in DOMAIN box : Sound(box[n])

Alone(k) ==
    /\ Cmd(k).op = "run" /\ Cmd(k).image \in images \cup localCase.pullable /\ PortsRight(Cmd(k).ports) /\ VolumesRight(Cmd(k))
    /\ Cardinality(Commands) = 1 /\ Cmd(k).id \notin DOMAIN localCase.box /\ ~localCase.faulty /\ Makeable(Cmd(k))
AloneInv ==
    \A k \in Commands : Alone(k) =>
        /\ step[k] \in {"begin", "create", "pull", "again", "start", "ok"}
        /\ step[k] \in {"begin", "create", "pull", "again"} => Cmd(k).id \notin DOMAIN box
        /\ step[k] = "pull" => Cmd(k).image \notin images
        /\ step[k] = "again" => Cmd(k).image \in images
        /\ step[k] = "start" => Cmd(k).id \in DOMAIN box /\ box[Cmd(k).id].owner = k /\ box[Cmd(k).id].state = "created"

OwnInv ==
    \A k \in Commands : Cmd(k).op = "run" /\ step[k] = "ok" /\ ~Cmd(k).autoRemove /\ (\A d \in Removals : step[d] # "ok")
          => Cmd(k).id \in DOMAIN box /\ box[Cmd(k).id].owner = k

CommandsInv == CommandTypes /\ BoxInv /\ AloneInv /\ OwnInv /\ RoundTrip /\ StacksCounted

(* A command that is alone is the only one. *)
LEMMA OneAlone ==
  ASSUME CommandTypes, NEW k \in Commands, NEW l \in Commands, Cardinality(Commands) = 1
  PROVE  k = l
<1>1. IsFiniteSet(Commands)
  BY CommandsAssumption DEF CommandTypes, Commands
<1>2. PICK x : Commands = {x}
  BY <1>1, FS_Singleton
<1> QED BY <1>2

(* The containers are as they were made while nobody touches them. *)
LEMMA BoxKept ==
  ASSUME CommandsInv, UNCHANGED <<localCase, box>>
  PROVE  BoxInv'
<1>1. Commands' = Commands /\ \A l : Cmd(l)' = Cmd(l)
  BY DEF Commands, Cmd
<1> QED BY <1>1 DEF CommandsInv, BoxInv, Sound

(* What has been shown stays. *)
LEMMA AnswersKept ==
  ASSUME CommandsInv, UNCHANGED <<localCase, answer>>
  PROVE  RoundTrip' /\ StacksCounted'
<1>1. Commands' = Commands /\ \A l : Cmd(l)' = Cmd(l)
  BY DEF Commands, Cmd
<1>2. RoundTrip'
  BY <1>1 DEF CommandsInv, RoundTrip
<1>3. StacksCounted'
  BY <1>1 DEF CommandsInv, StacksCounted
<1> QED BY <1>2, <1>3

(* A run keeps its container while no other is removed. *)
LEMMA OwnKept ==
  ASSUME CommandsInv, NEW k \in Commands, NEW v, Goes(k, v), step[k] # "ok", Cmd(k).op \notin {"run", "exec"} \/ v # "ok",
         UNCHANGED localCase,
         \A n \in DOMAIN box : n \in DOMAIN box' /\ box'[n].owner = box[n].owner
  PROVE  OwnInv'
<1>1. Commands' = Commands /\ \A l : Cmd(l)' = Cmd(l)
  BY DEF Commands, Cmd
<1>2. \A l \in Commands : step'[l] = IF l = k THEN v ELSE step[l]
  BY DEF Goes, CommandsInv, CommandTypes
<1> SUFFICES ASSUME NEW l \in Commands, Cmd(l).op = "run", step'[l] = "ok", ~Cmd(l).autoRemove, \A d \in Removals : step'[d] # "ok"
             PROVE  Cmd(l).id \in DOMAIN box' /\ box'[Cmd(l).id].owner = l
  BY <1>1 DEF OwnInv, Removals
<1>3. l # k /\ step[l] = "ok"
  BY <1>2
<1>4. \A d \in Removals : step[d] # "ok"
  BY <1>2 DEF Removals
<1>5. Cmd(l).id \in DOMAIN box /\ box[Cmd(l).id].owner = l
  BY <1>3, <1>4 DEF CommandsInv, OwnInv
<1> QED BY <1>5

(* A container whose state alone changes is as it was asked for. *)
LEMMA StateSound ==
  ASSUME NEW c, Sound(c), NEW st, st = "removing" => c.autoRemove, c.owner \in Commands /\ c.autoRemove => st # "exited"
  PROVE  Sound(In(st, c)) /\ In(st, c).owner = c.owner
<1>0. PICK d : d = In(st, c)
  OBVIOUS
<1>1. DOMAIN d = DOMAIN c /\ \A x \in DOMAIN c : x # "state" => d[x] = c[x]
  BY <1>0 DEF In
<1>2. d.owner = c.owner /\ d.env = c.env /\ d.bindings = c.bindings /\ d.autoRemove = c.autoRemove
  BY <1>1 DEF Sound, BoxFields
<1>3. d.policy = c.policy /\ d.nanoCPUs = c.nanoCPUs /\ d.memory = c.memory /\ d.starters = c.starters
  BY <1>1 DEF Sound, BoxFields
<1>4. d.state = st
  BY <1>0 DEF Sound, BoxFields, In
<1>5. \A r : AsAsked(d, r) <=> AsAsked(c, r)
  BY <1>2, <1>3 DEF AsAsked
<1> QED BY <1>0, <1>1, <1>2, <1>3, <1>4, <1>5 DEF Sound

(* So is one that its own run starts. *)
LEMMA StartedSound ==
  ASSUME NEW c, Sound(c)
  PROVE  Sound(StartedBy(c.owner, c)) /\ StartedBy(c.owner, c).owner = c.owner
<1>0. PICK d : d = StartedBy(c.owner, c)
  OBVIOUS
<1>1. DOMAIN d = DOMAIN c /\ \A x \in DOMAIN c : x # "state" /\ x # "starters" => d[x] = c[x]
  BY <1>0 DEF StartedBy
<1>2. d.owner = c.owner /\ d.env = c.env /\ d.bindings = c.bindings /\ d.autoRemove = c.autoRemove
  BY <1>1 DEF Sound, BoxFields
<1>3. d.policy = c.policy /\ d.nanoCPUs = c.nanoCPUs /\ d.memory = c.memory
  BY <1>1 DEF Sound, BoxFields
<1>4. d.state = "running" /\ d.starters = c.starters \cup {c.owner}
  BY <1>0 DEF Sound, BoxFields, StartedBy
<1>5. \A r : AsAsked(d, r) <=> AsAsked(c, r)
  BY <1>2, <1>3 DEF AsAsked
<1> QED BY <1>0, <1>1, <1>2, <1>4, <1>5 DEF Sound

(* And one that ends. *)
LEMMA HaltedSound ==
  ASSUME NEW c, Sound(c)
  PROVE  Sound(Halted(c)) /\ Halted(c).owner = c.owner
<1>1. PICK st : st = IF c.state # "running" THEN c.state ELSE IF c.autoRemove THEN "removing" ELSE "exited"
  OBVIOUS
<1>2. Halted(c) = In(st, c)
  BY <1>1 DEF Halted
<1>3. (st = "removing" => c.autoRemove) /\ (c.owner \in Commands /\ c.autoRemove => st # "exited")
  BY <1>1 DEF Sound
<1> QED BY <1>2, <1>3, StateSound

(* The engine changes one container, and whose it is stays. *)
LEMMA BoxChanges ==
  ASSUME CommandsInv, UNCHANGED localCase, NEW n \in DOMAIN box, NEW d, Sound(d), d.owner = box[n].owner, box' = [box EXCEPT ![n] = d]
  PROVE  /\ BoxInv' /\ box' = [m \in DOMAIN box' |-> box'[m]] /\ DOMAIN box' = DOMAIN box /\ (\A m \in DOMAIN box : m # n => box'[m] = box[m])
         /\ \A m \in DOMAIN box : m \in DOMAIN box' /\ box'[m].owner = box[m].owner
<1>1. Commands' = Commands /\ \A l : Cmd(l)' = Cmd(l)
  BY DEF Commands, Cmd
<1>2. box' = [m \in DOMAIN box |-> IF m = n THEN d ELSE box[m]]
  BY DEF CommandsInv, CommandTypes
<1>3. \A m \in DOMAIN box : Sound(box'[m])
  BY <1>2 DEF CommandsInv, BoxInv
<1>4. BoxInv'
  BY <1>1, <1>2, <1>3 DEF BoxInv, Sound
<1> QED BY <1>2, <1>4

(* The limits and the restart policy come back as they were given, that of the CPUs to a billionth. *)
LEMMA HostComesBack ==
  ASSUME NEW c, NEW r, AsAsked(c, r), r.cpu \in Nat, r.policy \in {"any", "on-failure", "none"}
  PROVE  /\ ToHostConfig(c).autoRemove = r.autoRemove /\ ToHostConfig(c).policy = r.policy /\ ToHostConfig(c).memory = r.memory
         /\ ToHostConfig(c).cpu <= r.cpu /\ r.cpu <= ToHostConfig(c).cpu + 1
<1>1. fromRestartPolicyName(c.policy) = r.policy
  BY DEF AsAsked, ToRestartPolicy, fromRestartPolicyName
<1>2. c.nanoCPUs <= r.cpu /\ r.cpu <= c.nanoCPUs + 1
  <2>1. PICK x \in Nat : x = r.cpu
    OBVIOUS
  <2>2. c.nanoCPUs \in {x - 1, x}
    BY <2>1 DEF AsAsked, NanoCPUs
  <2> QED BY <2>1, <2>2
<1>3. c.autoRemove = r.autoRemove /\ c.memory = r.memory
  BY DEF AsAsked
<1>4. PICK h, ro, po, cp, me : h = ToHostConfig(c) /\ ro = c.autoRemove /\ po = fromRestartPolicyName(c.policy) /\ cp = c.nanoCPUs /\ me = c.memory
  OBVIOUS
<1>5. h = [autoRemove |-> ro, policy |-> po, cpu |-> cp, memory |-> me]
  BY <1>4 DEF ToHostConfig
<1>6. h.autoRemove = ro /\ h.policy = po /\ h.cpu = cp /\ h.memory = me
  BY <1>5
<1> QED BY <1>1, <1>2, <1>3, <1>4, <1>6

(* One turn of the loop over the environment. *)
EnvSet(P, V) == UNION {[D -> V] : D \in SUBSET P}
EnvsOf(pairs) == CHOOSE f : f = [n \in 0 .. Len(pairs) |-> IF n = 0 THEN NoBox ELSE Put(f[n - 1], SplitAt(pairs[n], "="))]

PutTo(h, g, t) ==
    /\ Len(t) # 2 => h = g
    /\ Len(t) = 2 => DOMAIN h = DOMAIN g \cup {t[1]} /\ h[t[1]] = t[2] /\ \A x \in DOMAIN g : x # t[1] => h[x] = g[x]

(* A variable is put under its name alone. *)
LEMMA PutStep ==
  ASSUME NEW P, NEW V, NEW g \in EnvSet(P, V), NEW t, Len(t) = 2 => t[1] \in P /\ t[2] \in V
  PROVE  Put(g, t) \in EnvSet(P, V) /\ PutTo(Put(g, t), g, t)
<1>1. PICK D \in SUBSET P : g \in [D -> V]
  BY DEF EnvSet
<1>2. CASE Len(t) # 2
  BY <1>2 DEF Put, PutTo
<1>3. CASE Len(t) = 2
  <2>1. PICK h, a, b : h = Put(g, t) /\ a = t[1] /\ b = t[2]
    OBVIOUS
  <2>2. h = [x \in D \cup {a} |-> IF x = a THEN b ELSE g[x]]
    BY <1>1, <1>3, <2>1 DEF Put
  <2>3. h \in [D \cup {a} -> V] /\ D \cup {a} \in SUBSET P
    BY <1>1, <1>3, <2>1, <2>2
  <2>4. h \in EnvSet(P, V)
    BY <2>3 DEF EnvSet
  <2> QED BY <1>1, <1>3, <2>1, <2>2, <2>4 DEF PutTo
<1> QED BY <1>2, <1>3

(* The last variable of each name stays, of those with two parts. *)
LEMMA EnvCollected ==
  ASSUME NEW S, NEW pairs \in Seq(S)
  PROVE  LET t(i) == SplitAt(pairs[i], "=")
             W == {i \in DOMAIN pairs : Len(t(i)) = 2}
         IN  /\ DOMAIN EnvMap(pairs) = {t(i)[1] : i \in W}
             /\ \A i \in W : (\A j \in W : j > i => t(j)[1] # t(i)[1]) => EnvMap(pairs)[t(i)[1]] = t(i)[2]
<1> DEFINE N == Len(pairs)
           t(i) == SplitAt(pairs[i], "=")
           P == {t(i)[1] : i \in 1 .. N}
           V == {t(i)[2] : i \in 1 .. N}
           X == EnvSet(P, V)
           G == [q \in X \X (1 .. N) |-> Put(q[1], t(q[2]))]
           f == EnvsOf(pairs)
<1>0. PICK tk : tk = [i \in 1 .. N |-> t(i)]
  OBVIOUS
<1>1. N \in Nat /\ DOMAIN pairs = 1 .. N /\ (\A n \in 1 .. N : tk[n][1] \in P /\ tk[n][2] \in V) /\ \A n \in 1 .. N : tk[n] = t(n)
  BY <1>0
<1>2. NoBox \in X /\ DOMAIN NoBox = {}
  <2>1. NoBox \in [{} -> V] /\ {} \in SUBSET P
    BY DEF NoBox
  <2> QED BY <2>1 DEF EnvSet
<1> HIDE DEF X, P, V, t
<1>3. G \in [X \X (1 .. N) -> X]
  <2>1. ASSUME NEW q \in X \X (1 .. N) PROVE Put(q[1], t(q[2])) \in X
    <3>1. q[1] \in X /\ q[2] \in 1 .. N /\ t(q[2]) = tk[q[2]] /\ tk[q[2]][1] \in P /\ tk[q[2]][2] \in V
      BY <1>1
    <3> QED BY <3>1, PutStep DEF X
  <2> QED BY <2>1
<1>4. PICK g \in [0 .. N -> X] : g[0] = NoBox /\ \A n \in 1 .. N : g[n] = G[<<g[n - 1], n>>]
  <2> HIDE DEF G, N
  <2>1. IsStep(G, X, N)
    BY <1>3 DEF IsStep
  <2>2. PICK g : IsLoop(g, NoBox, G, X, N)
    BY <1>1, <1>2, <2>1, LoopDefined
  <2> QED BY <2>2 DEF IsLoop
<1>5. \A n \in 1 .. N : n - 1 \in 0 .. N /\ g[n - 1] \in X /\ g[n] = Put(g[n - 1], t(n))
  <2> SUFFICES ASSUME NEW n \in 1 .. N PROVE n - 1 \in 0 .. N /\ g[n - 1] \in X /\ g[n] = Put(g[n - 1], t(n))
    OBVIOUS
  <2>1. n - 1 \in 0 .. N /\ g[n - 1] \in X
    BY <1>1, <1>4
  <2> QED BY <1>4, <2>1
<1>6. g = [n \in 0 .. N |-> IF n = 0 THEN NoBox ELSE Put(g[n - 1], t(n))]
  <2>1. ASSUME NEW n \in 0 .. N PROVE g[n] = IF n = 0 THEN NoBox ELSE Put(g[n - 1], t(n))
    <3>1. n # 0 => n \in 1 .. N
      BY <1>1
    <3> QED BY <1>4, <1>5, <3>1
  <2> QED BY <1>4, <2>1
<1>7. f = [n \in 0 .. N |-> IF n = 0 THEN NoBox ELSE Put(f[n - 1], t(n))]
  BY <1>6 DEF EnvsOf, t
<1>8. EnvMap(pairs) = f[N]
  BY DEF EnvMap, EnvsOf
<1> HIDE DEF f, G, N
<1> DEFINE W(n) == {i \in 1 .. n : Len(tk[i]) = 2}
           Is(n) == /\ f[n] \in X /\ DOMAIN f[n] = {tk[i][1] : i \in W(n)}
                    /\ \A i \in W(n) : (\A j \in W(n) : j > i => tk[j][1] # tk[i][1]) => f[n][tk[i][1]] = tk[i][2]
<1>9. \A n \in Nat : n <= N => Is(n)
  <2> DEFINE T == {n \in Nat : n <= N => Is(n)}
  <2>1. 0 \in T
    <3>1. f[0] = NoBox /\ W(0) = {}
      BY <1>1, <1>7
    <3>2. Is(0)
      <4> HIDE DEF W
      <4> QED BY <1>2, <3>1
    <3> HIDE DEF Is
    <3> QED BY <3>2
  <2>2. \A n \in T : n + 1 \in T
    <3>1. SUFFICES ASSUME NEW n \in T, n + 1 <= N PROVE Is(n + 1)
      <4> HIDE DEF Is
      <4> QED OBVIOUS
    <3>2. n \in Nat /\ n + 1 \in 0 .. N /\ n + 1 \in 1 .. N /\ (n + 1) - 1 = n /\ n + 1 # 0 /\ Is(n)
      <4> HIDE DEF Is
      <4> QED BY <1>1, <3>1
    <3> HIDE DEF T
    <3>3. PICK c, g1, g2 : c = tk[n + 1] /\ g1 = f[n] /\ g2 = f[n + 1]
      OBVIOUS
    <3>4. g2 = Put(g1, c) /\ c[1] \in P /\ c[2] \in V /\ g1 \in X
      <4> HIDE DEF W
      <4> QED BY <1>1, <1>7, <3>2, <3>3
    <3>5. /\ g2 \in X /\ (Len(c) # 2 => g2 = g1)
          /\ Len(c) = 2 => DOMAIN g2 = DOMAIN g1 \cup {c[1]} /\ g2[c[1]] = c[2] /\ \A x \in DOMAIN g1 : x # c[1] => g2[x] = g1[x]
      <4> HIDE DEF W, Is
      <4>1. g1 \in EnvSet(P, V) /\ (Len(c) = 2 => c[1] \in P /\ c[2] \in V)
        BY <3>4 DEF X
      <4>2. Put(g1, c) \in EnvSet(P, V) /\ PutTo(Put(g1, c), g1, c)
        BY <4>1, PutStep
      <4> QED BY <3>4, <4>2 DEF X, PutTo
    <3>6. DOMAIN g1 = {tk[i][1] : i \in W(n)}
      <4> HIDE DEF W
      <4> QED BY <3>2, <3>3
    <3>7. \A i \in W(n) : (\A j \in W(n) : j > i => tk[j][1] # tk[i][1]) => g1[tk[i][1]] = tk[i][2]
      <4> HIDE DEF W
      <4> QED BY <3>2, <3>3
    <3>8. CASE Len(c) # 2
      <4>1. W(n + 1) = W(n)
        BY <3>2, <3>3, <3>8
      <4> HIDE DEF W
      <4> QED BY <3>3, <3>5, <3>6, <3>7, <3>8, <4>1
    <3>9. CASE Len(c) = 2
      <4>1. W(n + 1) = W(n) \cup {n + 1} /\ \A i \in W(n) : i \in Nat /\ i < n + 1
        BY <3>2, <3>3, <3>9
      <4> HIDE DEF W
      <4>2. DOMAIN g2 = {tk[i][1] : i \in W(n + 1)}
        BY <3>3, <3>5, <3>6, <3>9, <4>1
      <4>3. ASSUME NEW i \in W(n + 1), \A j \in W(n + 1) : j > i => tk[j][1] # tk[i][1] PROVE g2[tk[i][1]] = tk[i][2]
        <5>1. CASE i = n + 1
          BY <3>3, <3>5, <3>9, <5>1
        <5>2. CASE i \in W(n)
          <6>1. n + 1 > i /\ c[1] # tk[i][1]
            BY <3>2, <3>3, <4>1, <4>3, <5>2
          <6>2. tk[i][1] \in DOMAIN g1 /\ g1[tk[i][1]] = tk[i][2]
            BY <3>6, <3>7, <4>1, <4>3, <5>2
          <6> QED BY <3>5, <3>9, <6>1, <6>2
        <5> QED BY <4>1, <5>1, <5>2
      <4> QED BY <3>3, <3>5, <4>2, <4>3
    <3> QED BY <3>8, <3>9
  <2>3. T = Nat
    <3> HIDE DEF T
    <3>1. T \subseteq Nat
      BY DEF T
    <3> QED BY <2>1, <2>2, <3>1, NatSetInduction
  <2> HIDE DEF Is
  <2> QED BY <2>3
<1>10. Is(N)
  <2> HIDE DEF Is
  <2> QED BY <1>1, <1>9
<1>11. PICK e : e = EnvMap(pairs)
  OBVIOUS
<1>12. W(N) = {i \in DOMAIN pairs : Len(SplitAt(pairs[i], "=")) = 2} /\ \A i \in W(N) : tk[i] = SplitAt(pairs[i], "=")
  BY <1>1 DEF t
<1>13. /\ DOMAIN e = {tk[i][1] : i \in W(N)}
       /\ \A i \in W(N) : (\A j \in W(N) : j > i => tk[j][1] # tk[i][1]) => e[tk[i][1]] = tk[i][2]
  <2> HIDE DEF W
  <2> QED BY <1>8, <1>10, <1>11
<1> HIDE DEF W, Is
<1> QED BY <1>11, <1>12, <1>13

(* Of the environment, the last of each name comes back, of what has one sign of equality. *)
LEMMA EnvComesBack ==
  ASSUME NEW c, NEW r, AsAsked(c, r), r.env \in Seq(Seq(STRING))
  PROVE  EnvShown(ToRuntimeConfig(c).env, r.env)
<1>0. PICK pairs : pairs = r.env
  OBVIOUS
<1>1. ASSUME NEW i \in DOMAIN pairs PROVE Len(SplitAt(pairs[i], "=")) = 2 <=> Once(pairs[i])
  <2>0. PICK x : x = pairs[i]
    OBVIOUS
  <2>1. x \in Seq(STRING)
    BY <1>0, <2>0
  <2>2. PICK n : n = Cardinality({j \in DOMAIN x : x[j] = "="})
    OBVIOUS
  <2>3. n \in Nat /\ Len(SplitAt(x, "=")) = 1 + n
    BY <2>1, <2>2, PartsCounted
  <2>4. Once(x) <=> n = 1
    BY <2>2 DEF Once
  <2>5. PICK m : m = Len(SplitAt(x, "="))
    OBVIOUS
  <2>6. PICK q \in Nat : n = q
    BY <2>3
  <2>7. m = 1 + q
    BY <2>3, <2>5, <2>6
  <2>8. m = 2 <=> q = 1
    BY <2>7
  <2> QED BY <2>0, <2>4, <2>5, <2>6, <2>8, Zenon
<1>2. {i \in DOMAIN pairs : Len(SplitAt(pairs[i], "=")) = 2} = {i \in DOMAIN pairs : Once(pairs[i])}
  BY <1>1
<1>3. PICK e : e = EnvMap(pairs)
  OBVIOUS
<1>4. EnvShown(e, pairs)
  <2>1. PICK W : W = {i \in DOMAIN pairs : Once(pairs[i])}
    OBVIOUS
  <2>2. /\ DOMAIN e = {SplitAt(pairs[i], "=")[1] : i \in W}
        /\ \A i \in W : (\A j \in W : j > i => SplitAt(pairs[j], "=")[1] # SplitAt(pairs[i], "=")[1])
                           => e[SplitAt(pairs[i], "=")[1]] = SplitAt(pairs[i], "=")[2]
    <3>1. pairs \in Seq(Seq(STRING)) /\ W = {i \in DOMAIN pairs : Len(SplitAt(pairs[i], "=")) = 2}
      BY <1>0, <1>2, <2>1
    <3>2. PICK S : S = Seq(STRING)
      OBVIOUS
    <3>3. pairs \in Seq(S)
      BY <3>1, <3>2
    <3> QED BY <1>3, <3>1, <3>3, EnvCollected, Zenon
  <2> QED BY <2>1, <2>2 DEF EnvShown
<1>5. ToRuntimeConfig(c).env = e
  <2>1. PICK ls : ls = { <<l>> \o <<"=">> \o <<c.labels[l]>> : l \in DOMAIN c.labels }
    OBVIOUS
  <2>2. c.env = pairs
    BY <1>0 DEF AsAsked
  <2>3. ToRuntimeConfig(c) = [env |-> e, labels |-> ls]
    BY <1>3, <2>1, <2>2 DEF ToRuntimeConfig
  <2> QED BY <2>3
<1> QED BY <1>0, <1>4, <1>5

(* So do the ports. *)
LEMMA PortsComeBack ==
  ASSUME NEW c, NEW r, AsAsked(c, r)
  PROVE  ToPorts(c) = Range(r.ports)
<1>1. PICK R : R = Range(r.ports)
  OBVIOUS
<1>2. c.bindings = [p \in { <<q.protocol, q.container>> : q \in R } |-> { q \in R : <<q.protocol, q.container>> = p }]
  BY <1>1 DEF AsAsked, FromPorts
<1>3. UNION { c.bindings[p] : p \in DOMAIN c.bindings } = R
  <2>1. ASSUME NEW q \in R PROVE \E p \in DOMAIN c.bindings : q \in c.bindings[p]
    BY <1>2
  <2>2. ASSUME NEW p \in DOMAIN c.bindings, NEW q \in c.bindings[p] PROVE q \in R
    BY <1>2
  <2> QED BY <2>1, <2>2
<1> QED BY <1>1, <1>3 DEF ToPorts

(* A run looks at what it is asked for. *)
LEMMA RunAskedKeeps ==
  ASSUME CommandsInv, NEW k \in Commands, RunAsked(k)
  PROVE  CommandsInv'
<1>1. localCase' = localCase /\ Commands' = Commands /\ \A l : Cmd(l)' = Cmd(l)
  BY DEF RunAsked, Commands, Cmd
<1>2. CommandTypes'
  BY <1>1 DEF RunAsked, Goes, Says, Stands, CommandsInv, CommandTypes, CommandSteps
<1>3. BoxInv'
  BY <1>1, BoxKept DEF RunAsked
<1>5. AloneInv'
  BY <1>1, OneAlone DEF RunAsked, Goes, Stands, CommandsInv, CommandTypes, AloneInv, Alone
<1>6. OwnInv'
  <2>1. \E v : Goes(k, v) /\ step[k] # "ok" /\ (Cmd(k).op \notin {"run", "exec"} \/ v # "ok")
    BY DEF RunAsked, Stands
  <2> QED BY <1>1, <2>1, OwnKept DEF RunAsked
<1>7. RoundTrip' /\ StacksCounted'
  BY <1>1, AnswersKept DEF RunAsked
<1> QED BY <1>2, <1>3, <1>5, <1>6, <1>7 DEF CommandsInv

(* The logs of a container are asked for. *)
LEMMA LogsKeeps ==
  ASSUME CommandsInv, NEW k \in Commands, Logs(k)
  PROVE  CommandsInv'
<1>1. localCase' = localCase /\ Commands' = Commands /\ \A l : Cmd(l)' = Cmd(l)
  BY DEF Logs, Commands, Cmd
<1>2. CommandTypes'
  BY <1>1 DEF Logs, Goes, Says, Stands, CommandsInv, CommandTypes, CommandSteps
<1>3. BoxInv'
  BY <1>1, BoxKept DEF Logs
<1>5. AloneInv'
  BY <1>1, OneAlone DEF Logs, Goes, Stands, CommandsInv, CommandTypes, AloneInv, Alone
<1>6. OwnInv'
  <2>1. \E v : Goes(k, v) /\ step[k] # "ok" /\ (Cmd(k).op \notin {"run", "exec"} \/ v # "ok")
    BY DEF Logs, Stands
  <2> QED BY <1>1, <2>1, OwnKept DEF Logs
<1>7. RoundTrip' /\ StacksCounted'
  BY <1>1, AnswersKept DEF Logs
<1> QED BY <1>2, <1>3, <1>5, <1>6, <1>7 DEF CommandsInv

(* A call for a volume. *)
LEMMA VolumeCallKeeps ==
  ASSUME CommandsInv, NEW k \in Commands, VolumeCall(k)
  PROVE  CommandsInv'
<1>1. localCase' = localCase /\ Commands' = Commands /\ \A l : Cmd(l)' = Cmd(l)
  BY DEF VolumeCall, Commands, Cmd
<1>2. CommandTypes'
  BY <1>1 DEF VolumeCall, Goes, Says, Stands, CommandsInv, CommandTypes, CommandSteps
<1>3. BoxInv'
  BY <1>1, BoxKept DEF VolumeCall
<1>5. AloneInv'
  BY <1>1, OneAlone DEF VolumeCall, Goes, Stands, CommandsInv, CommandTypes, AloneInv, Alone
<1>6. OwnInv'
  <2>1. \E v : Goes(k, v) /\ step[k] # "ok" /\ (Cmd(k).op \notin {"run", "exec"} \/ v # "ok")
    BY DEF VolumeCall, Stands
  <2> QED BY <1>1, <2>1, OwnKept DEF VolumeCall
<1>7. RoundTrip' /\ StacksCounted'
  BY <1>1, AnswersKept DEF VolumeCall
<1> QED BY <1>2, <1>3, <1>5, <1>6, <1>7 DEF CommandsInv

(* An exec begins. *)
LEMMA ExecBeginKeeps ==
  ASSUME CommandsInv, NEW k \in Commands, ExecBegin(k)
  PROVE  CommandsInv'
<1>1. localCase' = localCase /\ Commands' = Commands /\ \A l : Cmd(l)' = Cmd(l)
  BY DEF ExecBegin, Commands, Cmd
<1>2. CommandTypes'
  BY <1>1 DEF ExecBegin, Goes, Says, Stands, CommandsInv, CommandTypes, CommandSteps
<1>3. BoxInv'
  BY <1>1, BoxKept DEF ExecBegin
<1>5. AloneInv'
  BY <1>1, OneAlone DEF ExecBegin, Goes, Stands, CommandsInv, CommandTypes, AloneInv, Alone
<1>6. OwnInv'
  <2>1. \E v : Goes(k, v) /\ step[k] # "ok" /\ (Cmd(k).op \notin {"run", "exec"} \/ v # "ok")
    BY DEF ExecBegin, Stands
  <2> QED BY <1>1, <2>1, OwnKept DEF ExecBegin
<1>7. RoundTrip' /\ StacksCounted'
  BY <1>1, AnswersKept DEF ExecBegin
<1> QED BY <1>2, <1>3, <1>5, <1>6, <1>7 DEF CommandsInv

(* An image is pulled. *)
LEMMA ImagePullKeeps ==
  ASSUME CommandsInv, NEW k \in Commands, ImagePull(k)
  PROVE  CommandsInv'
<1>1. localCase' = localCase /\ Commands' = Commands /\ \A l : Cmd(l)' = Cmd(l)
  BY DEF ImagePull, Commands, Cmd
<1>2. CommandTypes'
  BY <1>1 DEF ImagePull, Goes, Says, Stands, CommandsInv, CommandTypes, CommandSteps
<1>3. BoxInv'
  BY <1>1, BoxKept DEF ImagePull
<1>5. AloneInv'
  BY <1>1, OneAlone DEF ImagePull, Goes, Stands, CommandsInv, CommandTypes, AloneInv, Alone
<1>6. OwnInv'
  <2>1. \E v : Goes(k, v) /\ step[k] # "ok" /\ (Cmd(k).op \notin {"run", "exec"} \/ v # "ok")
    BY DEF ImagePull, Stands
  <2> QED BY <1>1, <2>1, OwnKept DEF ImagePull
<1>7. RoundTrip' /\ StacksCounted'
  BY <1>1, AnswersKept DEF ImagePull
<1> QED BY <1>2, <1>3, <1>5, <1>6, <1>7 DEF CommandsInv

(* A container is made. *)
LEMMA CreateKeeps ==
  ASSUME CommandsInv, NEW k \in Commands, create(k)
  PROVE  CommandsInv'
<1>1. localCase' = localCase /\ Commands' = Commands /\ \A l : Cmd(l)' = Cmd(l)
  BY DEF create, Commands, Cmd
<1>2. CommandTypes'
  BY <1>1 DEF create, Goes, Says, Stands, CommandsInv, CommandTypes, CommandSteps
<1>3. BoxInv'
  <2>1. CASE UNCHANGED box
    BY <1>1, <2>1, BoxKept
  <2>2. ASSUME NEW nano \in NanoCPUs(Cmd(k).cpu),
               box' = [n \in DOMAIN box \cup {Cmd(k).id} |-> IF n = Cmd(k).id THEN Made(k, Cmd(k), nano) ELSE box[n]]
        PROVE  BoxInv'
    <3>1. PICK c : c = Made(k, Cmd(k), nano)
      OBVIOUS
    <3>2. DOMAIN c = BoxFields /\ c.owner = k /\ AsAsked(c, Cmd(k)) /\ c.starters = {} /\ c.state = "created"
      BY <3>1 DEF Made, BoxFields, AsAsked
    <3>3. Sound(c)
      BY <3>2 DEF Sound
    <3>4. \A n \in DOMAIN box' : Sound(box'[n])
      BY <2>2, <3>1, <3>3 DEF CommandsInv, BoxInv
    <3> QED BY <1>1, <3>4 DEF BoxInv, Sound
  <2> QED BY <2>1, <2>2 DEF create
<1>5. AloneInv'
  <2> SUFFICES ASSUME NEW l \in Commands, Alone(l)'
               PROVE  /\ step'[l] \in {"begin", "create", "pull", "again", "start", "ok"}
                      /\ step'[l] \in {"begin", "create", "pull", "again"} => Cmd(l).id \notin DOMAIN box'
                      /\ step'[l] = "pull" => Cmd(l).image \notin images
                      /\ step'[l] = "again" => Cmd(l).image \in images
                      /\ step'[l] = "start" => Cmd(l).id \in DOMAIN box' /\ box'[Cmd(l).id].owner = l /\ box'[Cmd(l).id].state = "created"
    BY <1>1 DEF AloneInv, create
  <2>1. Alone(l) /\ l = k
    BY <1>1, OneAlone DEF Alone, create, CommandsInv
  <2>2. /\ Makeable(Cmd(k)) /\ step[k] \in {"create", "again"} /\ Cmd(k).id \notin DOMAIN box /\ (step[k] = "again" => Cmd(k).image \in images)
    BY <2>1 DEF create, CommandsInv, AloneInv, Alone
  <2>3. \A nano : Made(k, Cmd(k), nano).owner = k /\ Made(k, Cmd(k), nano).state = "created"
    BY DEF Made
  <2> QED BY <2>1, <2>2, <2>3 DEF create, Goes, CommandsInv, CommandTypes
<1>6. OwnInv'
  <2>1. \E v : Goes(k, v) /\ step[k] # "ok" /\ (Cmd(k).op \notin {"run", "exec"} \/ v # "ok")
    BY DEF create
  <2>2. \A n \in DOMAIN box : n \in DOMAIN box' /\ box'[n].owner = box[n].owner
    BY DEF create
  <2>3. UNCHANGED output
    BY DEF create
  <2> QED BY <1>1, <2>1, <2>2, <2>3, OwnKept
<1>7. RoundTrip' /\ StacksCounted'
  BY <1>1, AnswersKept DEF create
<1> QED BY <1>2, <1>3, <1>5, <1>6, <1>7 DEF CommandsInv

Changed(n) == n \in DOMAIN box /\ \E d : Sound(d) /\ d.owner = box[n].owner /\ box' = [box EXCEPT ![n] = d]
Dropped(n) == box' = [m \in DOMAIN box \ {n} |-> box[m]]

(* What the engine does to a container leaves it, and the others, as they were asked for. *)
LEMMA EngineKeepsBox ==
  ASSUME CommandsInv, UNCHANGED localCase, NEW n, UNCHANGED box \/ Changed(n) \/ Dropped(n)
  PROVE  /\ BoxInv' /\ box' = [m \in DOMAIN box' |-> box'[m]]
         /\ ~Dropped(n) => \A m \in DOMAIN box : m \in DOMAIN box' /\ box'[m].owner = box[m].owner
<1>1. Commands' = Commands /\ \A l : Cmd(l)' = Cmd(l)
  BY DEF Commands, Cmd
<1>2. CASE UNCHANGED box
  BY <1>2, BoxKept DEF CommandsInv, CommandTypes
<1>3. CASE Changed(n)
  BY <1>3, BoxChanges DEF Changed
<1>4. CASE Dropped(n)
  BY <1>1, <1>4 DEF Dropped, CommandsInv, BoxInv, Sound
<1> QED BY <1>2, <1>3, <1>4

(* A container that a run has made is started. *)
LEMMA RunStartKeeps ==
  ASSUME CommandsInv, NEW k \in Commands, RunStart(k)
  PROVE  CommandsInv'
<1>1. localCase' = localCase /\ Commands' = Commands /\ \A l : Cmd(l)' = Cmd(l)
  BY DEF RunStart, Commands, Cmd
<1>2. PICK n : n = Cmd(k).id
  OBVIOUS
<1>3. /\ \/ n \in DOMAIN box /\ box[n].owner = k /\ Goes(k, "ok") /\ box' = [box EXCEPT ![n] = StartedBy(k, box[n])]
         \/ /\ localCase.faulty /\ n \in DOMAIN box /\ box[n].owner = k /\ Goes(k, "failed")
            /\ box' = [box EXCEPT ![n] = In(IF box[n].autoRemove THEN "removing" ELSE box[n].state, box[n])]
         \/ /\ ~(n \in DOMAIN box /\ box[n].owner = k /\ box[n].state # "removing")
            /\ Goes(k, "failed") /\ UNCHANGED box
      /\ step[k] = "start" /\ Cmd(k).op = "run" /\ UNCHANGED <<localCase, images, vols, answer, output>>
  BY <1>2 DEF RunStart, Stands
<1>4. UNCHANGED box \/ Changed(n)
  <2>1. ASSUME n \in DOMAIN box PROVE Sound(box[n])
    BY <2>1 DEF CommandsInv, BoxInv
  <2>2. CASE n \in DOMAIN box /\ box[n].owner = k /\ box' = [box EXCEPT ![n] = StartedBy(k, box[n])]
    <3>1. Sound(StartedBy(k, box[n])) /\ StartedBy(k, box[n]).owner = box[n].owner
      BY <2>1, <2>2, StartedSound
    <3> QED BY <2>2, <3>1 DEF Changed
  <2>3. CASE n \in DOMAIN box /\ box' = [box EXCEPT ![n] = In(IF box[n].autoRemove THEN "removing" ELSE box[n].state, box[n])]
    <3>1. PICK st : st = IF box[n].autoRemove THEN "removing" ELSE box[n].state
      OBVIOUS
    <3>2. (st = "removing" => box[n].autoRemove) /\ (box[n].owner \in Commands /\ box[n].autoRemove => st # "exited")
      BY <2>1, <2>3, <3>1 DEF Sound
    <3>3. Sound(In(st, box[n])) /\ In(st, box[n]).owner = box[n].owner
      BY <2>1, <2>3, <3>2, StateSound
    <3> QED BY <2>3, <3>1, <3>3 DEF Changed
  <2> QED BY <1>3, <2>2, <2>3
<1>5. BoxInv' /\ box' = [m \in DOMAIN box' |-> box'[m]] /\ \A m \in DOMAIN box : m \in DOMAIN box' /\ box'[m].owner = box[m].owner
  <2>1. CASE UNCHANGED box
    BY <1>1, <2>1, BoxKept DEF CommandsInv, CommandTypes
  <2>2. CASE Changed(n)
    BY <1>1, <2>2, BoxChanges DEF Changed
  <2> QED BY <1>4, <2>1, <2>2
<1>6. CommandTypes'
  BY <1>1, <1>3, <1>5 DEF Goes, CommandsInv, CommandTypes, CommandSteps
<1>8. AloneInv'
  <2> SUFFICES ASSUME NEW l \in Commands, Alone(l)' PROVE step'[l] = "ok"
    BY <1>1 DEF AloneInv
  <2>1. Alone(l) /\ l = k /\ ~localCase.faulty
    BY <1>1, OneAlone DEF Alone, RunStart, CommandsInv
  <2>2. n \in DOMAIN box /\ box[n].owner = k /\ box[n].state = "created"
    BY <1>2, <1>3, <2>1 DEF CommandsInv, AloneInv
  <2>3. Goes(k, "ok")
    BY <1>3, <2>1, <2>2
  <2> QED BY <2>1, <2>3 DEF Goes, CommandsInv, CommandTypes
<1>9. OwnInv'
  <2>1. CASE Goes(k, "failed")
    BY <1>1, <1>3, <1>5, <2>1, OwnKept
  <2>2. CASE n \in DOMAIN box /\ box[n].owner = k /\ Goes(k, "ok")
    <3>1. \A l \in Commands : step'[l] = IF l = k THEN "ok" ELSE step[l]
      BY <2>2 DEF Goes, CommandsInv, CommandTypes
    <3>2. k \notin Removals
      BY <1>3 DEF Removals
    <3> QED BY <1>1, <1>2, <1>5, <2>2, <3>1, <3>2 DEF CommandsInv, OwnInv, Removals
  <2> QED BY <1>3, <2>1, <2>2
<1>10. RoundTrip' /\ StacksCounted'
  BY <1>1, AnswersKept DEF RunStart
<1> QED BY <1>5, <1>6, <1>8, <1>9, <1>10 DEF CommandsInv

(* A container is started, stopped, killed or removed. *)
LEMMA ContainerCallKeeps ==
  ASSUME CommandsInv, NEW k \in Commands, ContainerCall(k)
  PROVE  CommandsInv'
<1>1. localCase' = localCase /\ Commands' = Commands /\ \A l : Cmd(l)' = Cmd(l)
  BY DEF ContainerCall, Commands, Cmd
<1>2. PICK n, op : n = Cmd(k).id /\ op = Cmd(k).op
  OBVIOUS
<1>3. \/ (Goes(k, "ok") \/ Goes(k, "failed")) /\ (UNCHANGED box \/ Changed(n))
      \/ op = "rm" /\ Goes(k, "ok") /\ Dropped(n)
  <2>1. /\ n \in DOMAIN box => Sound(box[n])
        /\ n \in DOMAIN box => Sound(Halted(box[n])) /\ Halted(box[n]).owner = box[n].owner
        /\ n \in DOMAIN box => Sound(In("running", box[n])) /\ In("running", box[n]).owner = box[n].owner
    <3>1. n \in DOMAIN box => Sound(box[n])
      BY DEF CommandsInv, BoxInv
    <3> QED BY <3>1, HaltedSound, StateSound
  <2>2. \/ Goes(k, "failed") /\ UNCHANGED box
        \/ n \in DOMAIN box /\ Goes(k, "ok") /\ box' = [box EXCEPT ![n] = In("running", box[n])]
        \/ n \in DOMAIN box /\ Goes(k, "ok") /\ box' = [box EXCEPT ![n] = Halted(box[n])]
        \/ op = "rm" /\ Goes(k, "ok") /\ Dropped(n)
    <3>1. CASE op = "start"
      BY <1>2, <3>1 DEF ContainerCall
    <3>2. CASE op \in {"stop", "kill"}
      BY <1>2, <3>2 DEF ContainerCall
    <3>3. CASE op = "rm"
      BY <1>2, <3>3 DEF ContainerCall, Dropped
    <3> QED BY <1>2, <3>1, <3>2, <3>3 DEF ContainerCall
  <2> QED BY <2>1, <2>2 DEF Changed
<1>4. BoxInv' /\ box' = [m \in DOMAIN box' |-> box'[m]]
  BY <1>1, <1>3, EngineKeepsBox
<1>5. CommandTypes'
  <2>1. \E v \in CommandSteps : Goes(k, v)
    BY <1>3 DEF CommandSteps
  <2> QED BY <1>1, <1>4, <2>1 DEF ContainerCall, Goes, CommandsInv, CommandTypes
<1>7. AloneInv'
  <2> SUFFICES ASSUME NEW l \in Commands, Alone(l)' PROVE FALSE
    BY <1>1 DEF AloneInv
  <2>1. l = k /\ Cmd(k).op = "run"
    BY <1>1, OneAlone DEF Alone, CommandsInv
  <2> QED BY <2>1 DEF ContainerCall, Stands
<1>8. OwnInv'
  <2>1. step[k] # "ok" /\ op \notin {"run", "exec"} /\ UNCHANGED output
    BY <1>2 DEF ContainerCall
  <2>2. CASE op = "rm" /\ Goes(k, "ok")
    <3>1. k \in Removals /\ \A l \in Commands : step'[l] = IF l = k THEN "ok" ELSE step[l]
      BY <1>2, <2>2 DEF Removals, Goes, CommandsInv, CommandTypes
    <3> QED BY <1>1, <3>1 DEF OwnInv, Removals
  <2>3. CASE (Goes(k, "ok") \/ Goes(k, "failed")) /\ (UNCHANGED box \/ Changed(n))
    <3>1. \A m \in DOMAIN box : m \in DOMAIN box' /\ box'[m].owner = box[m].owner
      <4>1. CASE UNCHANGED box
        BY <4>1
      <4>2. CASE Changed(n)
        BY <1>1, <4>2, BoxChanges DEF Changed
      <4> QED BY <2>3, <4>1, <4>2
    <3>2. \E v : Goes(k, v)
      BY <2>3
    <3> QED BY <1>1, <1>2, <2>1, <3>1, <3>2, OwnKept
  <2> QED BY <1>3, <2>2, <2>3
<1>9. RoundTrip' /\ StacksCounted'
  BY <1>1, AnswersKept DEF ContainerCall
<1> QED BY <1>4, <1>5, <1>7, <1>8, <1>9 DEF CommandsInv

(* A container ends by itself. *)
LEMMA BoxExitsKeeps ==
  ASSUME CommandsInv, NEW n \in DOMAIN box, BoxExits(n)
  PROVE  CommandsInv'
<1>1. localCase' = localCase /\ Commands' = Commands /\ \A l : Cmd(l)' = Cmd(l)
  BY DEF BoxExits, Commands, Cmd
<1>2. PICK d : d = Halted(box[n])
  OBVIOUS
<1>3. box' = [box EXCEPT ![n] = d] /\ box[n].state = "running" /\ UNCHANGED <<localCase, images, vols, step, answer, output>>
  BY <1>2 DEF BoxExits
<1>4. Sound(d) /\ d.owner = box[n].owner
  BY <1>2, HaltedSound DEF CommandsInv, BoxInv
<1>5. /\ BoxInv' /\ box' = [m \in DOMAIN box' |-> box'[m]] /\ DOMAIN box' = DOMAIN box /\ (\A m \in DOMAIN box : m # n => box'[m] = box[m])
      /\ \A m \in DOMAIN box : m \in DOMAIN box' /\ box'[m].owner = box[m].owner
  BY <1>1, <1>3, <1>4, BoxChanges
<1>6. CommandTypes'
  BY <1>1, <1>3, <1>5 DEF CommandsInv, CommandTypes
<1>7. RoundTrip' /\ StacksCounted'
  BY <1>1, <1>3, AnswersKept
<1>8. AloneInv'
  <2>1. \A l \in Commands : Alone(l)' => Alone(l)
    BY <1>1, <1>3 DEF Alone
  <2> QED BY <1>1, <1>3, <1>5, <2>1 DEF CommandsInv, AloneInv
<1>9. OwnInv'
  BY <1>1, <1>3, <1>5 DEF CommandsInv, OwnInv, Removals
<1> QED BY <1>5, <1>6, <1>7, <1>8, <1>9 DEF CommandsInv

(* A container that was run with --rm goes; no run that keeps its own loses it. *)
LEMMA AutoRemovesKeeps ==
  ASSUME CommandsInv, NEW n \in DOMAIN box, AutoRemoves(n)
  PROVE  CommandsInv'
<1>1. localCase' = localCase /\ Commands' = Commands /\ \A l : Cmd(l)' = Cmd(l)
  BY DEF AutoRemoves, Commands, Cmd
<1>2. Dropped(n) /\ box[n].state = "removing" /\ UNCHANGED <<localCase, images, vols, step, answer, output>>
  BY DEF AutoRemoves, Dropped
<1>3. BoxInv' /\ box' = [m \in DOMAIN box' |-> box'[m]]
  BY <1>1, <1>2, EngineKeepsBox
<1>4. CommandTypes'
  BY <1>1, <1>2, <1>3 DEF CommandsInv, CommandTypes
<1>5. RoundTrip' /\ StacksCounted'
  BY <1>1, <1>2, AnswersKept
<1>6. DOMAIN box' = DOMAIN box \ {n} /\ \A m \in DOMAIN box' : box'[m] = box[m]
  BY <1>2 DEF Dropped
<1>7. AloneInv'
  <2>1. \A l \in Commands : Alone(l)' => Alone(l)
    BY <1>1, <1>2 DEF Alone
  <2> QED BY <1>1, <1>2, <1>6, <2>1 DEF CommandsInv, AloneInv
<1>8. OwnInv'
  <2>1. ASSUME NEW l \in Commands, ~Cmd(l).autoRemove, Cmd(l).id \in DOMAIN box, box[Cmd(l).id].owner = l PROVE Cmd(l).id # n
    <3>1. Sound(box[n])
      BY DEF CommandsInv, BoxInv
    <3> QED BY <1>2, <2>1, <3>1 DEF Sound, AsAsked
  <2> QED BY <1>1, <1>2, <1>6, <2>1 DEF CommandsInv, OwnInv, Removals
<1> QED BY <1>3, <1>4, <1>5, <1>7, <1>8 DEF CommandsInv

(* A container is inspected: what comes back is what was asked for. *)
LEMMA InspectKeeps ==
  ASSUME CommandsInv, NEW k \in Commands, Inspect(k)
  PROVE  CommandsInv'
<1>1. localCase' = localCase /\ Commands' = Commands /\ \A l : Cmd(l)' = Cmd(l)
  BY DEF Inspect, Commands, Cmd
<1>2. CommandTypes'
  BY <1>1 DEF Inspect, Goes, Says, Stands, CommandsInv, CommandTypes, CommandSteps
<1>3. BoxInv'
  BY <1>1, BoxKept DEF Inspect
<1>5. AloneInv'
  <2> SUFFICES ASSUME NEW l \in Commands, Alone(l)' PROVE FALSE
    BY <1>1 DEF AloneInv
  <2>1. l = k /\ Cmd(k).op = "run"
    BY <1>1, OneAlone DEF Alone, CommandsInv
  <2> QED BY <2>1 DEF Inspect, Stands
<1>6. OwnInv'
  <2>1. \E v : Goes(k, v) /\ step[k] # "ok" /\ (Cmd(k).op \notin {"run", "exec"} \/ v # "ok")
    BY DEF Inspect, Stands
  <2> QED BY <1>1, <2>1, OwnKept DEF Inspect
<1>7. RoundTrip' /\ StacksCounted'
  <2>1. CASE UNCHANGED answer
    BY <1>1, <2>1, AnswersKept
  <2>2. CASE ~UNCHANGED answer
    <3>1. PICK c : c = box[Cmd(k).id] /\ Cmd(k).id \in DOMAIN box
      BY <2>2 DEF Inspect
    <3>2. PICK a : /\ answer' = [answer EXCEPT ![k] = a] /\ a.of = c /\ a.config = ToRuntimeConfig(c) /\ a.host = ToHostConfig(c)
      <4>1. PICK f, h, st : f = ToRuntimeConfig(c) /\ h = ToHostConfig(c) /\ st = c.state
        OBVIOUS
      <4>2. PICK b : b = [shown |-> TRUE, of |-> c, config |-> f, host |-> h, status |-> st]
        OBVIOUS
      <4>3. answer' = [answer EXCEPT ![k] = b]
        BY <2>2, <3>1, <4>1, <4>2 DEF Inspect, Says
      <4>4. b.of = c /\ b.config = f /\ b.host = h
        BY <4>2
      <4> QED BY <4>1, <4>3, <4>4
    <3>3. \A l \in Commands : answer'[l] = IF l = k THEN a ELSE answer[l]
      BY <3>2 DEF CommandsInv, CommandTypes
    <3>4. Cmd(k).op = "inspect"
      BY DEF Inspect, Stands
    <3>5. ASSUME NEW r \in Commands, Cmd(r).op = "run", c.owner = r
          PROVE  /\ a.host.autoRemove = Cmd(r).autoRemove /\ a.host.policy = Cmd(r).policy /\ a.host.memory = Cmd(r).memory
                 /\ a.host.cpu <= Cmd(r).cpu /\ Cmd(r).cpu <= a.host.cpu + 1
                 /\ EnvShown(a.config.env, Cmd(r).env)
      <4>1. AsAsked(c, Cmd(r))
        BY <3>1, <3>5 DEF CommandsInv, BoxInv, Sound
      <4>2. Cmd(r).cpu \in Nat /\ Cmd(r).policy \in {"any", "on-failure", "none"} /\ Cmd(r).env \in Seq(Seq(STRING))
        BY <3>5, CommandsAssumption DEF CommandsInv, CommandTypes, Commands, Cmd
      <4> QED BY <3>2, <4>1, <4>2, HostComesBack, EnvComesBack
    <3>6. RoundTrip'
      BY <1>1, <3>2, <3>3, <3>4, <3>5 DEF CommandsInv, RoundTrip
    <3>7. StacksCounted'
      BY <1>1, <3>3, <3>4 DEF CommandsInv, StacksCounted
    <3> QED BY <3>6, <3>7
  <2> QED BY <2>1, <2>2
<1> QED BY <1>2, <1>3, <1>5, <1>6, <1>7 DEF CommandsInv

(* The containers are listed, with their ports. *)
LEMMA ListKeeps ==
  ASSUME CommandsInv, NEW k \in Commands, List(k)
  PROVE  CommandsInv'
<1>1. localCase' = localCase /\ Commands' = Commands /\ \A l : Cmd(l)' = Cmd(l)
  BY DEF List, Commands, Cmd
<1>2. CommandTypes'
  BY <1>1 DEF List, Goes, Says, Stands, CommandsInv, CommandTypes, CommandSteps
<1>3. BoxInv'
  BY <1>1, BoxKept DEF List
<1>5. AloneInv'
  <2> SUFFICES ASSUME NEW l \in Commands, Alone(l)' PROVE FALSE
    BY <1>1 DEF AloneInv
  <2>1. l = k /\ Cmd(k).op = "run"
    BY <1>1, OneAlone DEF Alone, CommandsInv
  <2> QED BY <2>1 DEF List, Stands
<1>6. OwnInv'
  <2>1. \E v : Goes(k, v) /\ step[k] # "ok" /\ (Cmd(k).op \notin {"run", "exec"} \/ v # "ok")
    BY DEF List, Stands
  <2> QED BY <1>1, <2>1, OwnKept DEF List
<1>7. RoundTrip' /\ StacksCounted'
  <2>1. PICK a : /\ answer' = [answer EXCEPT ![k] = a]
                 /\ \A n \in DOMAIN a.ports : n \in DOMAIN box /\ a.ports[n].owner = box[n].owner
                       /\ a.ports[n].ports = IF a.ports[n].state = "running" THEN ToPorts(box[n]) ELSE {}
    <3>1. PICK ps : ps = [n \in { m \in DOMAIN box : Cmd(k).all \/ box[m].state = "running" } |->
                              [owner |-> box[n].owner, state |-> box[n].state, ports |-> IF box[n].state = "running" THEN ToPorts(box[n]) ELSE {}]]
      OBVIOUS
    <3>2. PICK b : b = [shown |-> TRUE, ports |-> ps]
      OBVIOUS
    <3>3. answer' = [answer EXCEPT ![k] = b]
      BY <3>1, <3>2 DEF List, Says
    <3>4. b.ports = ps
      BY <3>2
    <3>5. \A n \in DOMAIN ps : n \in DOMAIN box /\ ps[n].owner = box[n].owner
                                   /\ ps[n].ports = IF ps[n].state = "running" THEN ToPorts(box[n]) ELSE {}
      BY <3>1
    <3> QED BY <3>3, <3>4, <3>5
  <2>2. \A l \in Commands : answer'[l] = IF l = k THEN a ELSE answer[l]
    BY <2>1 DEF CommandsInv, CommandTypes
  <2>3. Cmd(k).op = "ps"
    BY DEF List, Stands
  <2>4. ASSUME NEW r \in Commands, NEW n \in DOMAIN a.ports, a.ports[n].owner = r
        PROVE  a.ports[n].ports = IF a.ports[n].state = "running" THEN Range(Cmd(r).ports) ELSE {}
    <3>1. AsAsked(box[n], Cmd(r))
      BY <2>1, <2>4 DEF CommandsInv, BoxInv, Sound
    <3> QED BY <2>1, <3>1, PortsComeBack
  <2>5. RoundTrip'
    BY <1>1, <2>2, <2>3, <2>4 DEF CommandsInv, RoundTrip
  <2>6. StacksCounted'
    BY <1>1, <2>2, <2>3 DEF CommandsInv, StacksCounted
  <2> QED BY <2>5, <2>6
<1> QED BY <1>2, <1>3, <1>5, <1>6, <1>7 DEF CommandsInv

(* The containers of a project are listed. *)
LEMMA PsKeeps ==
  ASSUME CommandsInv, NEW k \in Commands, Ps(k)
  PROVE  CommandsInv'
<1>1. localCase' = localCase /\ Commands' = Commands /\ \A l : Cmd(l)' = Cmd(l)
  BY DEF Ps, Commands, Cmd
<1>2. CommandTypes'
  BY <1>1 DEF Ps, Goes, Says, Stands, CommandsInv, CommandTypes, CommandSteps
<1>3. BoxInv'
  BY <1>1, BoxKept DEF Ps
<1>5. AloneInv'
  <2> SUFFICES ASSUME NEW l \in Commands, Alone(l)' PROVE FALSE
    BY <1>1 DEF AloneInv
  <2>1. l = k /\ Cmd(k).op = "run"
    BY <1>1, OneAlone DEF Alone, CommandsInv
  <2> QED BY <2>1 DEF Ps, Stands
<1>6. OwnInv'
  <2>1. \E v : Goes(k, v) /\ step[k] # "ok" /\ (Cmd(k).op \notin {"run", "exec"} \/ v # "ok")
    BY DEF Ps, Stands
  <2> QED BY <1>1, <2>1, OwnKept DEF Ps
<1>7. RoundTrip' /\ StacksCounted'
  <2>1. PICK a : answer' = [answer EXCEPT ![k] = a]
    BY DEF Ps, Says
  <2>2. \A l \in Commands : answer'[l] = IF l = k THEN a ELSE answer[l]
    BY <2>1 DEF CommandsInv, CommandTypes
  <2>3. Cmd(k).op = "compose ps"
    BY DEF Ps, Stands
  <2>4. \A l \in Commands : Cmd(l).op # "compose ps" => answer'[l] = answer[l]
    BY <2>2, <2>3
  <2>5. RoundTrip'
    <3>1. RoundTrip
      BY DEF CommandsInv
    <3>2. \A l \in Commands : Cmd(l).op \in {"inspect", "ps"} => answer'[l] = answer[l]
      BY <2>4
    <3>3. ASSUME NEW l \in Commands, NEW r \in Commands, Cmd(l).op = "inspect", answer'[l].shown, Cmd(r).op = "run", answer'[l].of.owner = r
          PROVE  /\ answer'[l].host.autoRemove = Cmd(r).autoRemove /\ answer'[l].host.policy = Cmd(r).policy /\ answer'[l].host.memory = Cmd(r).memory
                 /\ answer'[l].host.cpu <= Cmd(r).cpu /\ Cmd(r).cpu <= answer'[l].host.cpu + 1
                 /\ EnvShown(answer'[l].config.env, Cmd(r).env)
      BY <3>1, <3>2, <3>3 DEF RoundTrip
    <3>4. ASSUME NEW l \in Commands, NEW r \in Commands, Cmd(l).op = "ps", answer'[l].shown, Cmd(r).op = "run",
                 NEW n \in DOMAIN answer'[l].ports, answer'[l].ports[n].owner = r
          PROVE  answer'[l].ports[n].ports = IF answer'[l].ports[n].state = "running" THEN Range(Cmd(r).ports) ELSE {}
      <4>1. \A m \in DOMAIN answer[l].ports : answer[l].shown /\ answer[l].ports[m].owner = r 
                   => answer[l].ports[m].ports = IF answer[l].ports[m].state = "running" THEN Range(Cmd(r).ports) ELSE {}
        BY <3>1, <3>4 DEF RoundTrip
      <4>2. answer'[l] = answer[l]
        BY <3>2, <3>4
      <4> QED BY <3>4, <4>1, <4>2
    <3> QED BY <1>1, <3>3, <3>4 DEF RoundTrip
  <2>6. StacksCounted'
    BY <1>1, <2>4 DEF CommandsInv, StacksCounted
  <2> QED BY <2>5, <2>6
<1> QED BY <1>2, <1>3, <1>5, <1>6, <1>7 DEF CommandsInv

(* What ls shows of a listing is the numbers of its containers. *)
LEMMA StacksShown ==
  ASSUME NEW E, NEW cs \in Seq(E), NEW stacks,
         stacks = [p \in DOMAIN groupContainerByLabel(cs) |-> combinedStatus(containerToState(groupContainerByLabel(cs)[p]))]
  PROVE  CountsOfAll(stacks, cs)
<1>1. PICK g : g = groupContainerByLabel(cs)
  OBVIOUS
<1>2. /\ DOMAIN g = {cs[i].project : i \in DOMAIN cs}
      /\ \A p \in DOMAIN g : /\ g[p] \in Seq(E)
                             /\ \A st : Tally(g[p], st) = Cardinality({i \in DOMAIN cs : cs[i].project = p /\ cs[i].state = st})
  <2>1. GroupsOfAll(groupContainerByLabel(cs), cs, E)
    BY GroupsCounted
  <2> QED BY <1>1, <2>1 DEF GroupsOfAll
<1>3. DOMAIN stacks = {c.project : c \in Range(cs)}
  BY <1>1, <1>2 DEF Range
<1>4. ASSUME NEW p \in DOMAIN stacks, NEW st
      PROVE  Cardinality({i \in DOMAIN cs : cs[i].project = p /\ cs[i].state = st}) = Nb(stacks[p], st)
  <2>1. p \in DOMAIN g /\ stacks[p] = combinedStatus(containerToState(g[p]))
    BY <1>1
  <2>2. PICK s \in Seq(E) : s = g[p]
    BY <1>2, <2>1
  <2>3. PICK ss, Q : ss = containerToState(s) /\ Q = {s[i].state : i \in DOMAIN s}
    OBVIOUS
  <2>4. ss \in Seq(Q) /\ DOMAIN ss = DOMAIN s /\ \A i \in DOMAIN s : ss[i] = s[i].state
    <3>1. ss = [i \in 1 .. Len(s) |-> s[i].state] /\ Len(s) \in Nat /\ DOMAIN s = 1 .. Len(s)
      BY <2>3 DEF containerToState
    <3>2. \A i \in 1 .. Len(s) : s[i].state \in Q
      BY <2>3, <3>1
    <3>3. ss \in Seq(Q)
      BY <3>1, <3>2, IsASeq
    <3> QED BY <3>1, <3>3
  <2>5. Nb(combinedStatus(ss), st) = Cardinality({i \in DOMAIN ss : ss[i] = st})
    BY <2>4, StatesCounted
  <2>6. {i \in DOMAIN ss : ss[i] = st} = {i \in DOMAIN s : s[i].state = st}
    BY <2>4
  <2>7. Tally(s, st) = Nb(stacks[p], st)
    BY <2>1, <2>2, <2>3, <2>5, <2>6 DEF Tally
  <2>8. Tally(g[p], st) = Cardinality({i \in DOMAIN cs : cs[i].project = p /\ cs[i].state = st})
    BY <1>2, <2>1
  <2> QED BY <2>2, <2>7, <2>8
<1> QED BY <1>3, <1>4 DEF CountsOfAll, Nb

(* The projects are listed. *)
LEMMA ContainersToStacksKeeps ==
  ASSUME CommandsInv, NEW k \in Commands, containersToStacks(k)
  PROVE  CommandsInv'
<1>1. localCase' = localCase /\ Commands' = Commands /\ \A l : Cmd(l)' = Cmd(l)
  BY DEF containersToStacks, Commands, Cmd
<1>2. CommandTypes'
  BY <1>1 DEF containersToStacks, Goes, Says, Stands, CommandsInv, CommandTypes, CommandSteps
<1>3. BoxInv'
  BY <1>1, BoxKept DEF containersToStacks
<1>5. AloneInv'
  <2> SUFFICES ASSUME NEW l \in Commands, Alone(l)' PROVE FALSE
    BY <1>1 DEF AloneInv
  <2>1. l = k /\ Cmd(k).op = "run"
    BY <1>1, OneAlone DEF Alone, CommandsInv
  <2> QED BY <2>1 DEF containersToStacks, Stands
<1>6. OwnInv'
  <2>1. \E v : Goes(k, v) /\ step[k] # "ok" /\ (Cmd(k).op \notin {"run", "exec"} \/ v # "ok")
    BY DEF containersToStacks, Stands
  <2> QED BY <1>1, <2>1, OwnKept DEF containersToStacks
<1>7. RoundTrip' /\ StacksCounted'
  <2>1. CASE UNCHANGED answer
    BY <1>1, <2>1, AnswersKept
  <2>2. CASE ~UNCHANGED answer
    <3>1. PICK a : answer' = [answer EXCEPT ![k] = a] /\ a.stacks = [p \in DOMAIN groupContainerByLabel(localCase.projects) |->
                       combinedStatus(containerToState(groupContainerByLabel(localCase.projects)[p]))]
      <4>1. PICK ss : ss = [p \in DOMAIN groupContainerByLabel(localCase.projects) |->
                                combinedStatus(containerToState(groupContainerByLabel(localCase.projects)[p]))]
        OBVIOUS
      <4>2. PICK b : b = [shown |-> TRUE, stacks |-> ss]
        OBVIOUS
      <4>3. answer' = [answer EXCEPT ![k] = b]
        BY <2>2, <4>1, <4>2 DEF containersToStacks, Says
      <4>4. b.stacks = ss
        BY <4>2
      <4> QED BY <4>1, <4>3, <4>4
    <3>2. \A l \in Commands : answer'[l] = IF l = k THEN a ELSE answer[l]
      BY <3>1 DEF CommandsInv, CommandTypes
    <3>3. Cmd(k).op = "ls"
      BY DEF containersToStacks, Stands
    <3>4. CountsOfAll(a.stacks, localCase.projects)
      <4>1. PICK E : localCase.projects \in Seq(E)
        BY CommandsAssumption DEF CommandsInv, CommandTypes
      <4> QED BY <3>1, <4>1, StacksShown
    <3>5. StacksCounted'
      BY <1>1, <3>2, <3>4 DEF CommandsInv, StacksCounted
    <3>6. RoundTrip'
      BY <1>1, <3>2, <3>3 DEF CommandsInv, RoundTrip
    <3> QED BY <3>5, <3>6
  <2> QED BY <2>1, <2>2
<1> QED BY <1>2, <1>3, <1>5, <1>6, <1>7 DEF CommandsInv

(* The process of an exec writes, exits or is copied. *)
LEMMA ExecRunsKeeps ==
  ASSUME CommandsInv, NEW k \in Commands, ExecRuns(k)
  PROVE  CommandsInv'
<1>1. localCase' = localCase /\ Commands' = Commands /\ \A l : Cmd(l)' = Cmd(l)
  BY DEF ExecRuns, Commands, Cmd
<1>2. CommandTypes'
  BY <1>1 DEF ExecRuns, Goes, Says, Stands, CommandsInv, CommandTypes, CommandSteps
<1>3. BoxInv'
  BY <1>1, BoxKept DEF ExecRuns
<1>5. AloneInv'
  <2> SUFFICES ASSUME NEW l \in Commands, Alone(l)' PROVE FALSE
    BY <1>1 DEF AloneInv
  <2>1. l = k /\ Cmd(k).op = "run"
    BY <1>1, OneAlone DEF Alone, CommandsInv
  <2> QED BY <2>1 DEF ExecRuns, Stands
<1>6. OwnInv'
  BY <1>1 DEF ExecRuns, CommandsInv, OwnInv, Removals
<1>7. RoundTrip' /\ StacksCounted'
  BY <1>1, AnswersKept DEF ExecRuns
<1> QED BY <1>2, <1>3, <1>5, <1>6, <1>7 DEF CommandsInv

(* An exec ends with its first copy. *)
LEMMA ExecEndsKeeps ==
  ASSUME CommandsInv, NEW k \in Commands, ExecEnds(k)
  PROVE  CommandsInv'
<1>1. localCase' = localCase /\ Commands' = Commands /\ \A l : Cmd(l)' = Cmd(l)
  BY DEF ExecEnds, Commands, Cmd
<1>2. CommandTypes'
  BY <1>1 DEF ExecEnds, Goes, Says, Stands, CommandsInv, CommandTypes, CommandSteps
<1>3. BoxInv'
  BY <1>1, BoxKept DEF ExecEnds
<1>5. AloneInv'
  <2> SUFFICES ASSUME NEW l \in Commands, Alone(l)' PROVE FALSE
    BY <1>1 DEF AloneInv
  <2>1. l = k /\ Cmd(k).op = "run"
    BY <1>1, OneAlone DEF Alone, CommandsInv
  <2> QED BY <2>1 DEF ExecEnds, Stands
<1>6. OwnInv'
  <2>1. PICK v : Goes(k, v)
    BY DEF ExecEnds
  <2>2. \A l \in Commands : step'[l] = IF l = k THEN v ELSE step[l]
    BY <2>1 DEF Goes, CommandsInv, CommandTypes
  <2>3. UNCHANGED <<box, output>> /\ Cmd(k).op = "exec" /\ step[k] # "ok"
    BY DEF ExecEnds, Stands
  <2> QED BY <1>1, <2>2, <2>3 DEF CommandsInv, OwnInv, Removals
<1>7. RoundTrip' /\ StacksCounted'
  BY <1>1, AnswersKept DEF ExecEnds
<1> QED BY <1>2, <1>3, <1>5, <1>6, <1>7 DEF CommandsInv

(* The commands begin so. *)
LEMMA CommandsBegin == LocalInit => CommandsInv
<1> SUFFICES ASSUME LocalInit PROVE CommandsInv
  OBVIOUS
<1>1. /\ localCase \in LocalCases /\ box = localCase.box /\ step = [k \in Commands |-> "begin"]
      /\ answer = [k \in Commands |-> NoAnswer] /\ output = NoOutput
  BY DEF LocalInit
<1>2. \A k \in Commands : step[k] = "begin" /\ answer[k].shown = FALSE
  BY <1>1 DEF NoAnswer
<1>3. CommandTypes
  BY <1>1, CommandsAssumption DEF CommandTypes, CommandSteps
<1>4. BoxInv
  BY <1>1, CommandsAssumption DEF BoxInv, Sound, Commands
<1>6. AloneInv
  BY <1>1, <1>2 DEF AloneInv, Alone
<1>7. OwnInv /\ RoundTrip /\ StacksCounted
  BY <1>2 DEF OwnInv, RoundTrip, StacksCounted
<1> QED BY <1>3, <1>4, <1>6, <1>7 DEF CommandsInv

(***************************************************************************)
(* However many commands run beside each other: no run starts a container  *)
(* of another, one that succeeds keeps its own until that is removed, one  *)
(* run with --rm is not left when it has ended, a run that is alone and    *)
(* has its image and its name succeeds, and what inspect, ps and ls show   *)
(* is what was asked for and what there is, the CPUs to a billionth and of *)
(* a repeated variable the last (Run, create, Inspect, List,               *)
(* containersToStacks).                                                    *)
(***************************************************************************)
THEOREM ContainersAreRight == CommandsSpec => []ContainersRight
<1>1. CommandsInv /\ [LocalNext]_localVars => CommandsInv'
  <2> SUFFICES ASSUME CommandsInv, [LocalNext]_localVars PROVE CommandsInv'
    OBVIOUS
  <2>1. CASE UNCHANGED localVars
    <3>1. Commands' = Commands /\ \A l : Cmd(l)' = Cmd(l)
      BY <2>1 DEF localVars, Commands, Cmd
    <3>2. BoxInv' /\ RoundTrip' /\ StacksCounted'
      BY <2>1, BoxKept, AnswersKept DEF localVars
    <3>3. CommandTypes' /\ AloneInv' /\ OwnInv'
      BY <2>1, <3>1 DEF localVars, CommandsInv, CommandTypes, AloneInv, Alone, OwnInv, Removals
    <3> QED BY <3>2, <3>3 DEF CommandsInv
  <2>2. ASSUME NEW k \in DOMAIN step, CommandStep(k) PROVE CommandsInv'
    <3>1. k \in Commands
      BY DEF CommandsInv, CommandTypes
    <3>2. CASE RunAsked(k) \/ create(k) \/ ImagePull(k) \/ RunStart(k) \/ ContainerCall(k)
      BY <3>1, <3>2, RunAskedKeeps, CreateKeeps, ImagePullKeeps, RunStartKeeps, ContainerCallKeeps
    <3>3. CASE Logs(k) \/ Inspect(k) \/ List(k) \/ VolumeCall(k)
      BY <3>1, <3>3, LogsKeeps, InspectKeeps, ListKeeps, VolumeCallKeeps
    <3>4. CASE ExecBegin(k) \/ ExecRuns(k) \/ ExecEnds(k) \/ containersToStacks(k) \/ Ps(k)
      BY <3>1, <3>4, ExecBeginKeeps, ExecRunsKeeps, ExecEndsKeeps, ContainersToStacksKeeps, PsKeeps
    <3> QED BY <2>2, <3>2, <3>3, <3>4 DEF CommandStep
  <2>3. ASSUME NEW n \in DOMAIN box, BoxExits(n) \/ AutoRemoves(n) PROVE CommandsInv'
    BY <2>3, BoxExitsKeeps, AutoRemovesKeeps
  <2> QED BY <2>1, <2>2, <2>3 DEF LocalNext, LocalDone
<1>2. CommandsInv => ContainersRight
  <2> SUFFICES ASSUME CommandsInv PROVE ContainersRight
    OBVIOUS
  <2>1. PulledThenRun
    BY DEF CommandsInv, AloneInv, Alone, PulledThenRun
  <2>2. RunIsOwn
    BY DEF CommandsInv, BoxInv, Sound, OwnInv, RunIsOwn
  <2>3. RemovedAtEnd
    BY DEF CommandsInv, BoxInv, Sound, AsAsked, RemovedAtEnd
  <2> QED BY <2>1, <2>2, <2>3 DEF CommandsInv, ContainersRight
<1> QED BY CommandsBegin, <1>1, <1>2, PTL DEF CommandsSpec
=============================================================================
