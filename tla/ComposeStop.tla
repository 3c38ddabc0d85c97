---------------------------- MODULE ComposeStop ----------------------------
(***************************************************************************)
(* composeService.Stop (local/compose/stop.go, stopContainers in down.go): *)
(* the containers of the project are listed once and the dependency walk,  *)
(* from the roots, stops the containers of each service one after another. *)
(* The visits share the slice `containers' as those of Down do, but no     *)
(* errgroup.  This is also what ends `up' when the user interrupts it.     *)
(***************************************************************************)
EXTENDS DependencyTraversal, ContainerList

CONSTANT EngineFaults     \* calls to the engine may fail

ASSUME StopAssumption == EngineFaults \in BOOLEAN

VARIABLES
  engine,          \* "running" or "exited", for each container
  containers,      \* the slice shared by the visits
  visit,           \* the locals of each call of fn
  phase            \* "list", "walk", or "end": Stop has returned

stopVars == <<engine, containers, visit, phase>>
allVars == <<vars, stopVars>>

StopInit ==
  /\ Init /\ direction = "down"
  /\ engine \in [Containers -> {"running", "exited"}]
  /\ containers = {} /\ visit = [g \in {} |-> {}] /\ phase = "list"

List ==
  /\ phase = "list"
  /\ containers' = Containers /\ phase' = "walk"
  /\ UNCHANGED <<vars, engine, visit>>

ListingFails ==
  /\ phase = "list" /\ EngineFaults
  /\ phase' = "end"
  /\ UNCHANGED <<vars, engine, containers, visit>>

Walk ==
  /\ phase = "walk"
  /\ WalkOn
  /\ UNCHANGED stopVars

(* The visits about to overwrite `containers'.                             *)
Ending == {g \in DOMAIN visit : pc[g] = "fn" /\ (visit[g].left = {} \/ visit[g].failed)}

(* fn: the split of `containers', before stopContainers.                   *)
VisitStarts(g) ==
  /\ phase = "walk" /\ pc[g] = "fn" /\ g \notin DOMAIN visit
  /\ \E list \in Readings(containers, {visit[h].others : h \in Ending}) :
       LET parts == Split(list, Service(g))
           call  == [left |-> parts.mine, others |-> parts.others, failed |-> FALSE]
       IN  visit' = Extended(visit, g, call)
  /\ UNCHANGED <<vars, engine, containers, phase>>

(* One turn of the loop of stopContainers, which the first error ends.     *)
ContainerStop(g) ==
  /\ ~visit[g].failed
  /\ \E c \in visit[g].left :
       /\ IsNext(c, visit[g].left)
       /\ engine' = [engine EXCEPT ![c] = "exited"]
       /\ visit' = [visit EXCEPT ![g].left = @ \ {c}]
  /\ UNCHANGED <<vars, containers, phase>>

(* Mutant: the error is dropped and the loop goes on.                      *)
ContainerStopFails_Ignored(g) ==
  /\ EngineFaults /\ ~visit[g].failed
  /\ \E c \in visit[g].left :
       /\ IsNext(c, visit[g].left)
       /\ visit' = [visit EXCEPT ![g].left = @ \ {c}]
  /\ UNCHANGED <<vars, engine, containers, phase>>

ContainerStopFails(g) ==
  /\ EngineFaults /\ visit[g].left # {} /\ ~visit[g].failed
  /\ visit' = [visit EXCEPT ![g].failed = TRUE]
  /\ UNCHANGED <<vars, engine, containers, phase>>

(* fn: `containers = others', and fn returns what stopContainers did.      *)
VisitEnds(g) ==
  /\ g \in Ending
  /\ containers' = visit[g].others
  /\ IF visit[g].failed THEN FnFails(g) ELSE FnReturns(g)
  /\ UNCHANGED <<engine, visit, phase>>

StopReturns ==
  /\ phase = "walk" /\ returned
  /\ phase' = "end"
  /\ UNCHANGED <<vars, engine, containers, visit>>

StopTerminated == phase = "end" /\ UNCHANGED allVars

StopProgress ==
  \/ List \/ ListingFails \/ Walk \/ StopReturns
  \/ \E g \in goroutines : VisitStarts(g)
  \/ \E g \in DOMAIN visit : ContainerStop(g) \/ ContainerStopFails(g) \/ VisitEnds(g)

StopNext == StopProgress \/ StopTerminated

(* Every goroutine is scheduled and every call to the engine returns.      *)
StopSpec == StopInit /\ [][StopNext]_allVars /\ WF_allVars(StopProgress)

-----------------------------------------------------------------------------
Stopped(s) == \A c \in Of(s) : engine[c] = "exited"

(* When Stop returns nil all the containers of the services are stopped,   *)
(* although concurrent visits overwrite each other's `containers'.         *)
SuccessStops ==
  phase = "end" /\ returned /\ ~err => \A s \in Services : Stopped(s)

(* A container is stopped only once those of all the services that depend  *)
(* on its service are, except of a service that a visit has failed on.     *)
(* (The exception is real: on a service that is visited twice, a visit     *)
(* that starts after another has failed finds no container left in the     *)
(* slice and succeeds, and the walk goes on to the dependencies.)          *)
DependentsStoppedFirst ==
  [][\A s \in Services : \A c \in Of(s) : engine'[c] # engine[c] =>
       \A p \in Parents(s) :
         Stopped(p) \/ \E g \in Workers : Service(g) = p /\ pc[g] = "failed"]_allVars
=============================================================================
