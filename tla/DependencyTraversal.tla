------------------------ MODULE DependencyTraversal ------------------------
(***************************************************************************)
(* The concurrent walk over the dependency graph of a compose project,     *)
(* local/compose/dependencies.go.  Every operation of the local backend on *)
(* a project (create, start, stop, down) is a function applied by this     *)
(* walk to the services: from the leaves to the parents ("up"), or from    *)
(* the roots to the children ("down").                                     *)
(*                                                                         *)
(* visit starts one goroutine of an errgroup that looks at the extremities *)
(* of the graph; run starts a goroutine for each node whose predecessors   *)
(* all have the target status; that goroutine calls fn, updates the status *)
(* of its node under the lock of the graph and looks at the adjacent nodes *)
(* in the order of a Go map, that is in any order.  The context the        *)
(* errgroup derives is discarded, so a failure cancels nothing.            *)
(*                                                                         *)
(* A goroutine is named by the path of nodes along which it was started:   *)
(* <<>> is the one visit starts, and the one that p starts for node m is   *)
(* Append(p, m).  Two goroutines may thus work on the same service.        *)
(***************************************************************************)
EXTENDS DependencyGraph, Naturals, Sequences

VARIABLES
  direction,     \* argument of visit: "up" or "down"
  pc,            \* where each goroutine started so far is
  todo,          \* the nodes each goroutine has still to look at, in run
  status,        \* Vertex.Status of each service
  err,           \* an error was recorded by the errgroup (or a cycle found)
  returned       \* visit has returned

vars == <<dependsOn, direction, pc, todo, status, err, returned>>

-----------------------------------------------------------------------------
(* The nodes that fn must have visited before s, and the ones run looks at *)
(* after s: filterAdjacentByStatusFn and adjacentNodesFn.                  *)
Before(s) == IF direction = "up" THEN Children(s) ELSE Parents(s)

(* Mutant: the children are the names in GetDependencies, services or not. *)
After_Unchecked(s) == IF direction = "up" THEN Parents(s) ELSE dependsOn[s]

After(s)  == IF direction = "up" THEN Parents(s) ELSE Children(s)

(* Mutant: the walk starts at every service.                               *)
Extremities_All == Services

Extremities == {s \in Services : Before(s) = {}}

InitialStatus == IF direction = "up" THEN "stopped" ELSE "started"
TargetStatus  == IF direction = "up" THEN "started" ELSE "stopped"

-----------------------------------------------------------------------------
goroutines == DOMAIN pc
Root       == <<>>
Service(g) == g[Len(g)]        \* n.Service.Name, for a goroutine but the root
Finished(g) == pc[g] = "failed" \/ (pc[g] = "scan" /\ todo[g] = {})

Init ==
  /\ dependsOn \in Projects
  /\ direction \in {"up", "down"}
  /\ pc = [g \in {} |-> "scan"]
  /\ todo = [g \in {} |-> {}]
  /\ status = [s \in Services |-> InitialStatus]
  /\ err = FALSE
  /\ returned = FALSE

(* visit: refuse a graph with a cycle, or start the first goroutine.       *)
Visit ==
  /\ goroutines = {} /\ ~returned
  /\ IF HasCycles
       THEN err' = TRUE /\ returned' = TRUE /\ UNCHANGED <<pc, todo>>
       ELSE /\ pc' = [g \in {Root} |-> "scan"]
            /\ todo' = [g \in {Root} |-> Extremities]
            /\ UNCHANGED <<err, returned>>
  /\ UNCHANGED <<dependsOn, direction, status>>

(* Mutant: one predecessor that is done is enough.                         *)
Ready_Any(m) == Before(m) # {} => \E b \in Before(m) : status[b] # InitialStatus

(* filterAdjacentByStatusFn finds no node left in the status to skip.      *)
Ready(m) == \A b \in Before(m) : status[b] # InitialStatus

(* One turn of the loop of run: a node that is not ready is skipped (the   *)
(* goroutine that completes its predecessors will look at it again).       *)
Scan(g, m) ==
  /\ pc[g] = "scan" /\ m \in todo[g]
  /\ LET h == Append(g, m)
         started == IF Ready(m) THEN {h} ELSE {}
         todoLeft == [todo EXCEPT ![g] = @ \ {m}]
     IN  /\ pc' = [q \in goroutines \cup started |->
                     IF q \in started THEN "fn" ELSE pc[q]]
         /\ todo' = [q \in goroutines \cup started |->
                     IF q \in started THEN {} ELSE todoLeft[q]]
  /\ UNCHANGED <<dependsOn, direction, status, err, returned>>

(* fn returns: nil, or an error, which the errgroup records.               *)
FnReturns(g) ==
  /\ pc[g] = "fn"
  /\ pc' = [pc EXCEPT ![g] = "update"]
  /\ UNCHANGED <<dependsOn, direction, todo, status, err, returned>>

(* Mutant: the error of fn is dropped.                                     *)
FnFails_Ignored(g) ==
  /\ pc[g] = "fn"
  /\ pc' = [pc EXCEPT ![g] = "failed"]
  /\ UNCHANGED <<dependsOn, direction, todo, status, err, returned>>

FnFails(g) ==
  /\ pc[g] = "fn"
  /\ pc' = [pc EXCEPT ![g] = "failed"]
  /\ err' = TRUE
  /\ UNCHANGED <<dependsOn, direction, todo, status, returned>>

(* Mutants: the status is set on a copy of the vertex; the update of the   *)
(* status may fail after fn has succeeded.                                 *)
UpdateStatus_OnCopy(g) ==
  /\ pc[g] = "update"
  /\ pc' = [pc EXCEPT ![g] = "scan"]
  /\ todo' = [todo EXCEPT ![g] = After(Service(g))]
  /\ UNCHANGED <<dependsOn, direction, status, err, returned>>
UpdateStatus_Fails(g) ==
  /\ pc[g] = "update"
  /\ pc' = [pc EXCEPT ![g] = "failed"]
  /\ err' = TRUE
  /\ UNCHANGED <<dependsOn, direction, todo, status, returned>>

(* graph.UpdateStatus, then run on the adjacent nodes.                     *)
UpdateStatus(g) ==
  /\ pc[g] = "update"
  /\ status' = [status EXCEPT ![Service(g)] = TargetStatus]
  /\ pc' = [pc EXCEPT ![g] = "scan"]
  /\ todo' = [todo EXCEPT ![g] = After(Service(g))]
  /\ UNCHANGED <<dependsOn, direction, err, returned>>

(* eg.Wait in visit: all the goroutines of the group have returned.        *)
Wait ==
  /\ goroutines # {} /\ ~returned
  /\ \A g \in goroutines : Finished(g)
  /\ returned' = TRUE
  /\ UNCHANGED <<dependsOn, direction, pc, todo, status, err>>

Terminated == returned /\ UNCHANGED vars

(* The steps of the walk other than the call of fn.                        *)
WalkOn ==
  \/ Visit \/ Wait
  \/ \E g \in goroutines : UpdateStatus(g) \/ \E m \in todo[g] : Scan(g, m)

Progress == WalkOn \/ \E g \in goroutines : FnReturns(g) \/ FnFails(g)

Next == Progress \/ Terminated

(* The locals f of the calls of fn, with those of a call that starts.      *)
Extended(f, x, v) == [y \in DOMAIN f \cup {x} |-> IF y = x THEN v ELSE f[y]]

(* The Go scheduler runs every goroutine, and fn is taken to return.       *)
Spec == Init /\ [][Next]_vars /\ WF_vars(Progress)

-----------------------------------------------------------------------------
(* Services on which fn has succeeded, and services fn was called on.      *)
Workers == goroutines \ {Root}
Applied == {Service(g) : g \in {h \in Workers : pc[h] \in {"update", "scan"}}}
Visited == {Service(g) : g \in Workers}

TypeOK ==
  /\ dependsOn \in [Services -> SUBSET Names]
  /\ direction \in {"up", "down"}
  /\ goroutines \subseteq Seq(Services)
  /\ pc \in [goroutines -> {"fn", "update", "scan", "failed"}]
  /\ todo \in [goroutines -> SUBSET Services]
  /\ status \in [Services -> {"stopped", "started"}]
  /\ err \in BOOLEAN
  /\ returned \in BOOLEAN

(* fn is called on a service only after it has succeeded on all the        *)
(* services that come before it, whatever the interleaving of the          *)
(* goroutines and whichever calls fail: the dependents of a failed service *)
(* are never visited (dependencies.go, run).                               *)
DependencyOrder == \A g \in Workers : Before(Service(g)) \subseteq Applied

(* A status update racing with the look at the adjacent nodes loses no     *)
(* service: when visit returns, fn was called on every service whose       *)
(* predecessors succeeded, also when fn failed elsewhere (unless the graph *)
(* was refused).                                                           *)
NoServiceMissed ==
  returned /\ ~HasCycles =>
    \A s \in Services : Before(s) \subseteq Applied => s \in Visited

(* visit returns nil only if fn succeeded on every service of the project  *)
(* and no call failed.                                                     *)
SuccessIsComplete ==
  returned /\ ~err =>
    Applied = Services /\ \A g \in goroutines : pc[g] # "failed"

(* fn is called at most once on each service.                              *)
AtMostOnce == \A g, h \in Workers : Service(g) = Service(h) => g = h

(* Chains: no service has two predecessors.                                *)
Unbranched == \A s \in Services : \A a, b \in Before(s) : a = b

(* On a project where no service has two predecessors, fn is called at     *)
(* most once on each service.                                              *)
AtMostOnceUnbranched == Unbranched => AtMostOnce

(* The walk implements what its callers rely on.                           *)
Ordered == INSTANCE OrderedApplication WITH
  before  <- [s \in Services |-> Before(s)],
  applied <- Applied,
  outcome <- IF ~returned THEN "running" ELSE IF err THEN "error" ELSE "ok"

(* Every behaviour of the traversal is one of the ordered application.     *)
ImplementsOrder == Ordered!Spec
=============================================================================
