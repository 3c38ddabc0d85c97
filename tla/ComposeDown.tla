---------------------------- MODULE ComposeDown ----------------------------
(***************************************************************************)
(* composeService.Down (local/compose/down.go): the containers of the      *)
(* project are listed once, the dependency walk visits the services from   *)
(* the roots, each visit stops and removes the containers of its service,  *)
(* then orphans and networks are removed.                                  *)
(*                                                                         *)
(* The visits share three things that no lock protects:                    *)
(*  - the slice `containers', which a visit splits when it starts and      *)
(*    overwrites with the rest when it ends;                               *)
(*  - one errgroup: each visit adds its removals to it and waits for the   *)
(*    removals of all, and the first error stays in it;                    *)
(*  - within a visit, the loop variable `container', which the goroutine   *)
(*    that removes a container reads when it stops one.                    *)
(*                                                                         *)
(* The walk is the one of DependencyTraversal, fn taking several steps.    *)
(* Visits and removals are those of its goroutines; the removal of orphans *)
(* is done by Down itself, which appears as the goroutine Root.            *)
(***************************************************************************)
EXTENDS DependencyTraversal, ContainerList

CONSTANTS
  Networks,        \* the networks of the project
  Options          \* DownOptions.RemoveOrphans, whether the engine may fail for
                   \* reasons of its own, and the containers not running at first

ASSUME DownAssumption ==
  /\ IsFiniteSet(Networks)
  /\ Options \subseteq [removeOrphans : BOOLEAN, engineFaults : BOOLEAN,
                        exited : SUBSET Containers]

VARIABLES
  options,         \* the options this call of Down is made with
  engine,          \* "running", "stopped" or "removed", for each container
  networks,        \* the networks that exist
  containers,      \* the slice shared by the visits
  visit,           \* the locals of each call of fn and of the orphan removal
  removal,         \* where each removal goroutine is: "stop", "remove", "done"
  pending,         \* networks whose removal has not ended
  egErr,           \* the first error of the errgroup of Down
  phase,           \* what Down is doing
  result           \* what Down returned, or the panic that ended it

downVars ==
  <<options, engine, networks, containers, visit, removal, pending, egErr, phase, result>>
allVars  == <<vars, downVars>>

-----------------------------------------------------------------------------
RemoveOrphans == options.removeOrphans
EngineFaults  == options.engineFaults

(* What the visits about to overwrite `containers' will write.             *)
Overwriting == {visit[g].others : g \in {h \in DOMAIN visit : visit[h].at = "assign"}}

Outstanding == {t \in DOMAIN removal : removal[t] # "done"}
Running     == result = "none"

(* The locals of removeContainers over a list, before its loop.            *)
Call(mine, others) ==
  [at |-> "loop", mine |-> mine, others |-> others, started |-> {}, failed |-> FALSE]

DownInit ==
  /\ Init /\ direction = "down"
  /\ options \in Options
  /\ engine = [c \in Containers |-> IF c \in options.exited THEN "stopped" ELSE "running"]
  /\ networks = Networks /\ pending = {}
  /\ containers = {}
  /\ visit = [g \in {} |-> {}] /\ removal = [t \in {} |-> "done"]
  /\ egErr = FALSE
  /\ phase = "list" /\ result = "none"

(* ContainerList: all the containers of the project.                       *)
List ==
  /\ Running /\ phase = "list"
  /\ containers' = Containers
  /\ phase' = "walk"
  /\ UNCHANGED <<vars, options, engine, networks, visit, removal, pending, egErr, result>>

(* A call of Down that gives up: an engine listing fails.                  *)
ListingFails ==
  /\ Running /\ EngineFaults /\ phase \in {"list", "networkList"}
  /\ phase' = "end" /\ result' = "error"
  /\ UNCHANGED <<vars, options, engine, networks, containers, visit, removal, pending, egErr>>

(* The steps of the walk that are not the call of fn.                      *)
Walk ==
  /\ Running /\ phase = "walk"
  /\ WalkOn
  /\ UNCHANGED downVars

(* fn: the split of `containers', before removeContainers.                 *)
VisitStarts(g) ==
  /\ Running /\ pc[g] = "fn" /\ g \notin DOMAIN visit
  /\ \E list \in Readings(containers, Overwriting) :
       LET parts == Split(list, Service(g))
       IN  visit' = Extended(visit, g, Call(parts.mine, parts.others))
  /\ UNCHANGED <<vars, options, engine, networks, containers, removal, pending, egErr, phase, result>>

(* removeContainers: one turn of the loop starts a removal in the errgroup.*)
StartRemoval(g) ==
  /\ Running /\ visit[g].at = "loop"
  /\ \E c \in Containers :
       /\ IsNext(c, visit[g].mine \ visit[g].started)
       /\ removal' = Extended(removal, <<g, c>>, "stop")
       /\ visit' = [visit EXCEPT ![g].started = @ \cup {c}]
  /\ UNCHANGED <<vars, options, engine, networks, containers, pending, egErr, phase, result>>

(* Mutant: removeContainers does not wait.                                 *)
StartWait_Skipped(g) ==
  /\ Running /\ visit[g].at = "loop" /\ visit[g].started = visit[g].mine
  /\ visit' = [visit EXCEPT ![g].at = "reap"]
  /\ UNCHANGED <<vars, options, engine, networks, containers, removal, pending, egErr, phase, result>>

(* removeContainers: eg.Wait, which blocks while any removal is under way. *)
StartWait(g) ==
  /\ Running /\ visit[g].at = "loop" /\ visit[g].started = visit[g].mine
  /\ visit' = [visit EXCEPT ![g].at = IF Outstanding = {} THEN "reap" ELSE "wait"]
  /\ UNCHANGED <<vars, options, engine, networks, containers, removal, pending, egErr, phase, result>>

(* When the last removal ends the WaitGroup lets all the waiters go.       *)
ReleaseWaiters(ended) ==
  visit' = IF Outstanding \subseteq {ended}
             THEN [g \in DOMAIN visit |->
                     IF visit[g].at = "wait" THEN [visit[g] EXCEPT !.at = "woken"]
                                             ELSE visit[g]]
             ELSE visit

(* WaitGroup.Wait resumes; it panics if the group is in use again.         *)
Wake(g) ==
  /\ Running /\ visit[g].at = "woken"
  /\ IF Outstanding = {}
       THEN /\ visit' = [visit EXCEPT ![g].at = "reap"]
            /\ UNCHANGED <<phase, result>>
       ELSE phase' = "end" /\ result' = "panic" /\ UNCHANGED visit
  /\ UNCHANGED <<vars, options, engine, networks, containers, removal, pending, egErr>>

(* eg.Wait returns the error of the errgroup.                              *)
Reap(g) ==
  /\ Running /\ visit[g].at = "reap"
  /\ visit' = [visit EXCEPT ![g].at = "assign", ![g].failed = egErr]
  /\ UNCHANGED <<vars, options, engine, networks, containers, removal, pending, egErr, phase, result>>

(* fn: `containers = others', and fn returns what removeContainers did.    *)
VisitEnds(g) ==
  /\ Running /\ g # Root /\ visit[g].at = "assign"
  /\ containers' = visit[g].others
  /\ visit' = [visit EXCEPT ![g].at = "end"]
  /\ IF visit[g].failed THEN FnFails(g) ELSE FnReturns(g)
  /\ UNCHANGED <<options, engine, networks, removal, pending, egErr, phase, result>>

-----------------------------------------------------------------------------
(* The goroutine that call g starts to remove toDelete.  It stops the      *)
(* container that the loop variable holds when it reads it: its own or one *)
(* that the loop has reached since.                                        *)
Targets(g, toDelete) == {c \in visit[g].started : Place(toDelete) <= Place(c)}

ContainerStop(g, toDelete) ==
  /\ Running /\ removal[<<g, toDelete>>] = "stop"
  /\ \E c \in Targets(g, toDelete) :
       /\ engine[c] # "removed"
       /\ engine' = [engine EXCEPT ![c] = "stopped"]
  /\ removal' = [removal EXCEPT ![<<g, toDelete>>] = "remove"]
  /\ UNCHANGED <<vars, options, networks, containers, visit, pending, egErr, phase, result>>

(* ContainerRemove with Force: a running container is killed.              *)
ContainerRemove(g, toDelete) ==
  /\ Running /\ removal[<<g, toDelete>>] = "remove"
  /\ engine[toDelete] # "removed"
  /\ engine' = [engine EXCEPT ![toDelete] = "removed"]
  /\ removal' = [removal EXCEPT ![<<g, toDelete>>] = "done"]
  /\ ReleaseWaiters(<<g, toDelete>>)
  /\ UNCHANGED <<vars, options, networks, containers, pending, egErr, phase, result>>

(* Mutant: an error of the engine is dropped.                              *)
RemovalFails_Ignored(g, toDelete) ==
  /\ Running
  /\ \/ removal[<<g, toDelete>>] = "stop"
        /\ (EngineFaults \/ \E c \in Targets(g, toDelete) : engine[c] = "removed")
     \/ removal[<<g, toDelete>>] = "remove"
        /\ (EngineFaults \/ engine[toDelete] = "removed")
  /\ removal' = [removal EXCEPT ![<<g, toDelete>>] = "done"]
  /\ ReleaseWaiters(<<g, toDelete>>)
  /\ UNCHANGED <<vars, options, engine, networks, containers, pending, egErr, phase, result>>

(* Either call fails: there is no such container, or the engine is faulty. *)
RemovalFails(g, toDelete) ==
  /\ Running
  /\ \/ removal[<<g, toDelete>>] = "stop"
        /\ (EngineFaults \/ \E c \in Targets(g, toDelete) : engine[c] = "removed")
     \/ removal[<<g, toDelete>>] = "remove"
        /\ (EngineFaults \/ engine[toDelete] = "removed")
  /\ removal' = [removal EXCEPT ![<<g, toDelete>>] = "done"]
  /\ egErr' = TRUE
  /\ ReleaseWaiters(<<g, toDelete>>)
  /\ UNCHANGED <<vars, options, engine, networks, containers, pending, phase, result>>

-----------------------------------------------------------------------------
(* After the walk: the removal of what is left in `containers', if asked.  *)
CleanUpOrphans ==
  /\ Running /\ phase = "walk" /\ returned
  /\ IF RemoveOrphans
       THEN visit' = Extended(visit, Root, Call(containers, {})) /\ phase' = "orphans"
       ELSE phase' = "wait" /\ UNCHANGED visit
  /\ UNCHANGED <<vars, options, engine, networks, containers, removal, pending, egErr, result>>

OrphansCleaned ==
  /\ Running /\ phase = "orphans" /\ visit[Root].at = "assign"
  /\ IF visit[Root].failed THEN phase' = "end" /\ result' = "error"
                           ELSE phase' = "wait" /\ UNCHANGED result
  /\ visit' = [visit EXCEPT ![Root].at = "end"]
  /\ UNCHANGED <<vars, options, engine, networks, containers, removal, pending, egErr>>

(* The error of the walk, then that of the errgroup, end the call.         *)
WaitAll ==
  /\ Running /\ phase = "wait" /\ Outstanding = {}
  /\ IF err \/ egErr THEN phase' = "end" /\ result' = "error"
                     ELSE phase' = "networkList" /\ UNCHANGED result
  /\ UNCHANGED <<vars, options, engine, networks, containers, visit, removal, pending, egErr>>

(* NetworkList, and the loop that starts a removal for each network.       *)
NetworkList ==
  /\ Running /\ phase = "networkList"
  /\ pending' = networks
  /\ phase' = "networks"
  /\ UNCHANGED <<vars, options, engine, networks, containers, visit, removal, egErr, result>>

(* ensureNetworkDown.  The engine refuses to remove a network that a       *)
(* running container is attached to.                                       *)
NetworkRemove(n) ==
  /\ Running /\ phase = "networks" /\ n \in pending
  /\ \A c \in Containers : engine[c] # "running"
  /\ networks' = networks \ {n}
  /\ pending' = pending \ {n}
  /\ UNCHANGED <<vars, options, engine, containers, visit, removal, egErr, phase, result>>

(* Mutant: the removal is tried again for ever.                            *)
NetworkRemoveFails_Retried(n) ==
  /\ Running /\ phase = "networks" /\ n \in pending
  /\ EngineFaults \/ \E c \in Containers : engine[c] = "running"
  /\ UNCHANGED allVars

NetworkRemoveFails(n) ==
  /\ Running /\ phase = "networks" /\ n \in pending
  /\ EngineFaults \/ \E c \in Containers : engine[c] = "running"
  /\ pending' = pending \ {n}
  /\ egErr' = TRUE
  /\ UNCHANGED <<vars, options, engine, networks, containers, visit, removal, phase, result>>

(* The last eg.Wait: the removal of each network has ended.                *)
DownReturns ==
  /\ Running /\ phase = "networks" /\ pending = {}
  /\ phase' = "end" /\ result' = IF egErr THEN "error" ELSE "ok"
  /\ UNCHANGED <<vars, options, engine, networks, containers, visit, removal, pending, egErr>>

DownTerminated == ~Running /\ UNCHANGED allVars

DownProgress ==
  \/ List \/ Walk \/ CleanUpOrphans \/ OrphansCleaned \/ WaitAll
  \/ NetworkList \/ DownReturns \/ ListingFails
  \/ \E g \in goroutines : VisitStarts(g)
  \/ \E g \in DOMAIN visit :
       StartRemoval(g) \/ StartWait(g) \/ Wake(g) \/ Reap(g) \/ VisitEnds(g)
  \/ \E t \in DOMAIN removal :
       \/ ContainerStop(t[1], t[2]) \/ ContainerRemove(t[1], t[2])
       \/ RemovalFails(t[1], t[2])
  \/ \E n \in Networks : NetworkRemove(n) \/ NetworkRemoveFails(n)

DownNext == DownProgress \/ DownTerminated

(* Every goroutine is scheduled and every call to the engine returns.      *)
DownSpec == DownInit /\ [][DownNext]_allVars /\ WF_allVars(DownProgress)

-----------------------------------------------------------------------------
Orphans  == {c \in Containers : ServiceOf[c] \notin Services}
Gone(S)  == \A c \in S : engine[c] = "removed"

(* The walk of Down touches a container of a service only once all the     *)
(* containers of the services that depend on it are gone, although visits  *)
(* of several services, or two of the same, are under way together.  (The  *)
(* removal of orphans that follows it takes what the walk has left, in any *)
(* order, also when the walk failed.)                                      *)
DependentsGoneFirst ==
  [][\A s \in Services : \A c \in Of(s) :
       engine'[c] # engine[c] /\ ~returned => \A p \in Parents(s) : Gone(Of(p))]_allVars

(* When Down returns nil none of the containers of the services is left,   *)
(* nor any of the networks; nor any orphan, if asked to remove them.       *)
SuccessRemoves ==
  result = "ok" =>
    /\ \A s \in Services : Gone(Of(s))
    /\ networks = {}
    /\ RemoveOrphans => Gone(Orphans)

(* A failure anywhere keeps the networks: they are removed only when all   *)
(* the containers of the services have been.                               *)
NetworksLast ==
  networks # Networks => ~err /\ \A s \in Services : Gone(Of(s))

(* Down returns (or panics): no waiting of visits for each other's         *)
(* removals through the shared errgroup goes on for ever.                  *)
DownEnds == <>(result # "none")

(* On an engine that carries out what it is asked, Down returns nil.       *)
DownSucceeds == result \in {"none", "ok"}

(***************************************************************************)
(* Down reports success only when all is gone, and a failure of any of its *)
(* concurrent removals keeps the networks (removeContainers,               *)
(* ensureNetworkDown).                                                     *)
(***************************************************************************)
RemovedInFull == SuccessRemoves /\ NetworksLast
=============================================================================
