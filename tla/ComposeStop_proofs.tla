------------------------- MODULE ComposeStop_proofs -------------------------
(***************************************************************************)
(* Proofs about Stop, for any project, any containers and any faults of    *)
(* the engine, on a build that does not tear reads of the shared slice.    *)
(***************************************************************************)
EXTENDS ComposeStop, DependencyTraversal_proofs

(* Some call of fn on s has failed.                                        *)
FailedOn(s) == \E g \in Workers : Service(g) = s /\ pc[g] = "failed"

(* The locals of the calls of fn, and when there are any.                  *)
StopShape ==
  /\ direction = "down"
  /\ engine \in [Containers -> {"running", "exited"}]
  /\ containers \subseteq Containers
  /\ DOMAIN visit \subseteq Workers
  /\ visit \in [DOMAIN visit ->
                  [left : SUBSET Containers, others : SUBSET Containers, failed : BOOLEAN]]
  /\ \A g \in DOMAIN visit : visit[g].left \subseteq Of(Service(g))
  /\ phase \in {"list", "walk", "end"}
  /\ phase # "walk" => goroutines = {} \/ returned
  /\ phase = "list" => goroutines = {} /\ ~returned
  /\ \A g \in Workers : pc[g] # "fn" => g \in DOMAIN visit

(* A container that runs is still in the slice and in the hands of every   *)
(* visit under way, whichever of them overwrites the slice next, unless a  *)
(* call on its service has failed.                                         *)
Kept ==
  phase = "walk" \/ returned =>
    \A c \in Containers :
      engine[c] = "running" =>
        \/ FailedOn(ServiceOf[c])
        \/ /\ c \in containers
           /\ \A g \in DOMAIN visit : pc[g] = "fn" =>
                c \in IF ServiceOf[c] = Service(g) THEN visit[g].left ELSE visit[g].others

(* Where fn has succeeded the containers are stopped.                      *)
AppliedStopped == \A s \in Applied : Stopped(s) \/ FailedOn(s)

StopInv == IndInv /\ StopShape /\ Kept /\ AppliedStopped

-----------------------------------------------------------------------------
(* Before the listing nothing is asked of the slice.                       *)
LEMMA StopInitInv == StopInit => StopInv
<1> SUFFICES ASSUME StopInit PROVE StopInv
  OBVIOUS
<1>1. IndInv /\ goroutines = {} /\ Workers = {} /\ ~returned
  BY InitInv DEF StopInit, Init, goroutines, Workers
<1>2. StopShape /\ Kept
  BY <1>1 DEF StopInit, StopShape, Kept
<1>3. AppliedStopped
  BY <1>1 DEF AppliedStopped, Applied
<1> QED BY <1>1, <1>2, <1>3 DEF StopInv

(* The steps of Stop itself, before and after the walk.                    *)
LEMMA PhasesInv ==
  ASSUME StopInv, List \/ ListingFails \/ StopReturns
  PROVE  StopInv'
<1>1. UNCHANGED vars /\ UNCHANGED <<engine, visit>>
  BY DEF List, ListingFails, StopReturns
<1>2. IndInv' /\ Workers' = Workers /\ goroutines' = goroutines /\ Applied' = Applied
      /\ pc' = pc /\ returned' = returned /\ direction' = direction
  BY <1>1, WalkIdle DEF StopInv, vars
<1>3. StopShape'
  BY <1>1, <1>2 DEF StopInv, StopShape, List, ListingFails, StopReturns
<1>4. \A s : FailedOn(s)' = FailedOn(s) /\ Stopped(s)' = Stopped(s)
  BY <1>1, <1>2 DEF FailedOn, Stopped, Service
<1>5. Kept'
  <2>1. CASE List
    BY <2>1, <1>1, <1>2 DEF List, Kept, StopInv, StopShape, Workers
  <2>2. CASE ListingFails \/ StopReturns
    BY <2>2, <1>1, <1>2, <1>4 DEF ListingFails, StopReturns, Kept, StopInv, StopShape, Service
  <2> QED BY <2>1, <2>2
<1>6. AppliedStopped'
  BY <1>2, <1>4 DEF StopInv, AppliedStopped
<1> QED BY <1>2, <1>3, <1>5, <1>6 DEF StopInv

(* The walk between calls touches neither the slice nor the engine.        *)
LEMMA WalkInv ==
  ASSUME StopInv, Walk
  PROVE  StopInv'
<1>1. UNCHANGED <<engine, containers, visit, phase>> /\ phase = "walk" /\ WalkOn
  BY DEF Walk, stopVars
<1>2. /\ IndInv' /\ direction' = direction
      /\ Workers \subseteq Workers' /\ Workers \subseteq goroutines
      /\ \A g \in Workers : pc'[g] = pc[g] \/ (pc[g] = "update" /\ pc'[g] = "scan")
      /\ \A g \in Workers' \ Workers : pc'[g] = "fn"
      /\ Applied' = Applied
  BY <1>1, WalkOnFacts, GraphFixed DEF StopInv, Workers
<1>3. StopShape'
  BY <1>1, <1>2 DEF StopInv, StopShape, Service
<1>4. \A s : (FailedOn(s) => FailedOn(s)') /\ Stopped(s)' = Stopped(s)
  BY <1>1, <1>2 DEF FailedOn, Stopped, Service
<1>5. Kept'
  <2>1. \A g \in DOMAIN visit : pc'[g] = "fn" => pc[g] = "fn"
    BY <1>2 DEF StopInv, StopShape
  <2> QED BY <2>1, <1>1, <1>4 DEF StopInv, Kept, Service
<1>6. AppliedStopped'
  BY <1>2, <1>4 DEF StopInv, AppliedStopped
<1> QED BY <1>2, <1>3, <1>5, <1>6 DEF StopInv

(* A visit takes its share of a slice that holds all that still runs.      *)
LEMMA VisitStartsInv ==
  ASSUME StopInv, ~TornReads, NEW g \in goroutines, VisitStarts(g)
  PROVE  StopInv'
<1>1. /\ UNCHANGED vars /\ UNCHANGED <<engine, containers, phase>>
      /\ phase = "walk" /\ pc[g] = "fn" /\ g \notin DOMAIN visit
  BY DEF VisitStarts
<1>2. IndInv' /\ Workers' = Workers /\ goroutines' = goroutines /\ Applied' = Applied
      /\ pc' = pc /\ returned' = returned /\ direction' = direction
  BY <1>1, WalkIdle DEF StopInv, vars
<1>3. g \in Workers
  BY <1>1 DEF StopInv, IndInv, Shape, Workers
<1>4. /\ DOMAIN visit' = DOMAIN visit \cup {g}
      /\ \A h \in DOMAIN visit : visit'[h] = visit[h]
      /\ visit'[g] = [left   |-> containers \cap Of(Service(g)),
                      others |-> containers \ Of(Service(g)), failed |-> FALSE]
  BY <1>1 DEF VisitStarts, Readings, Split, Extended
<1>5. visit' \in [DOMAIN visit' ->
                   [left : SUBSET Containers, others : SUBSET Containers, failed : BOOLEAN]]
  BY <1>4 DEF StopInv, StopShape, VisitStarts, Extended
<1>6. StopShape'
  BY <1>1, <1>2, <1>3, <1>4, <1>5 DEF StopInv, StopShape
<1>7. \A s : FailedOn(s)' = FailedOn(s) /\ Stopped(s)' = Stopped(s)
  BY <1>1, <1>2 DEF FailedOn, Stopped, Service
<1>8. Kept'
  BY <1>1, <1>2, <1>4, <1>7 DEF StopInv, Kept, Service, Of
<1>9. AppliedStopped'
  BY <1>2, <1>7 DEF StopInv, AppliedStopped
<1> QED BY <1>2, <1>6, <1>8, <1>9 DEF StopInv

(* The loop of stopContainers drops only what it has stopped.              *)
LEMMA LoopInv ==
  ASSUME StopInv, NEW g \in DOMAIN visit, ContainerStop(g) \/ ContainerStopFails(g)
  PROVE  StopInv'
<1>1. UNCHANGED vars /\ UNCHANGED <<containers, phase>> /\ ~visit[g].failed
  BY DEF ContainerStop, ContainerStopFails
<1>2. IndInv' /\ Workers' = Workers /\ goroutines' = goroutines /\ Applied' = Applied
      /\ pc' = pc /\ returned' = returned /\ direction' = direction
  BY <1>1, WalkIdle DEF StopInv, vars
<1>3. visit[g] \in [left : SUBSET Containers, others : SUBSET Containers, failed : BOOLEAN]
  BY DEF StopInv, StopShape
<1>4. PICK D \in SUBSET Containers :
        /\ engine' = [c \in Containers |-> IF c \in D THEN "exited" ELSE engine[c]]
        /\ \/ visit' = [visit EXCEPT ![g].left = @ \ D]
           \/ visit' = [visit EXCEPT ![g].failed = TRUE]
  <2>1. CASE ContainerStop(g)
    <3>1. PICK c \in visit[g].left :
            /\ engine' = [engine EXCEPT ![c] = "exited"]
            /\ visit' = [visit EXCEPT ![g].left = @ \ {c}]
      BY <2>1 DEF ContainerStop
    <3>2. /\ {c} \in SUBSET Containers
          /\ engine' = [d \in Containers |-> IF d \in {c} THEN "exited" ELSE engine[d]]
      BY <3>1, <1>3 DEF StopInv, StopShape
    <3> QED BY <3>1, <3>2
  <2>2. CASE ContainerStopFails(g)
    <3>1. engine' = [d \in Containers |-> IF d \in {} THEN "exited" ELSE engine[d]]
      BY <2>2 DEF ContainerStopFails, StopInv, StopShape
    <3>2. {} \in SUBSET Containers /\ visit' = [visit EXCEPT ![g].failed = TRUE]
      BY <2>2 DEF ContainerStopFails
    <3> QED BY <3>1, <3>2
  <2> QED BY <2>1, <2>2
<1>5. /\ DOMAIN visit' = DOMAIN visit
      /\ \A h \in DOMAIN visit :
           /\ visit'[h] \in [left : SUBSET Containers, others : SUBSET Containers, failed : BOOLEAN]
           /\ visit'[h].others = visit[h].others
           /\ visit[h].left \ D \subseteq visit'[h].left
           /\ visit'[h].left \subseteq visit[h].left
  <2>1. CASE visit' = [visit EXCEPT ![g].left = @ \ D]
    BY <2>1, <1>3 DEF StopInv, StopShape
  <2>2. CASE visit' = [visit EXCEPT ![g].failed = TRUE]
    BY <2>2, <1>3 DEF StopInv, StopShape
  <2> QED BY <2>1, <2>2, <1>4
<1>6. StopShape'
  <2>1. visit' \in [DOMAIN visit' ->
          [left : SUBSET Containers, others : SUBSET Containers, failed : BOOLEAN]]
    BY <1>4, <1>5
  <2>2. engine' \in [Containers -> {"running", "exited"}]
    BY <1>4 DEF StopInv, StopShape
  <2>3. \A h \in DOMAIN visit' : visit'[h].left \subseteq Of(Service(h))
    BY <1>5 DEF StopInv, StopShape
  <2> QED BY <2>1, <2>2, <2>3, <1>1, <1>2, <1>5 DEF StopInv, StopShape, Service
<1>7. /\ \A s : FailedOn(s)' = FailedOn(s) /\ (Stopped(s) => Stopped(s)')
      /\ \A c \in Containers : engine'[c] = "running" => engine[c] = "running" /\ c \notin D
  BY <1>2, <1>4 DEF FailedOn, Stopped, Service, Of
<1>8. Kept'
  BY <1>1, <1>2, <1>5, <1>7 DEF StopInv, Kept, Service
<1>9. AppliedStopped'
  BY <1>2, <1>7 DEF StopInv, AppliedStopped
<1> QED BY <1>2, <1>6, <1>8, <1>9 DEF StopInv

(* What a visit writes back lacks nothing but the containers of its own    *)
(* service, and those are stopped or the visit has failed.                 *)
LEMMA VisitEndsInv ==
  ASSUME StopInv, NEW g \in DOMAIN visit, VisitEnds(g)
  PROVE  StopInv'
<1>1. /\ containers' = visit[g].others /\ UNCHANGED <<engine, visit, phase>>
      /\ visit[g].left = {} \/ visit[g].failed
      /\ IF visit[g].failed THEN FnFails(g) ELSE FnReturns(g)
      /\ pc[g] = "fn"
  BY DEF VisitEnds, Ending
<1>2. g \in Workers
  BY DEF StopInv, StopShape
<1>3. /\ IndInv' /\ direction' = direction /\ ~returned /\ ~returned'
      /\ Workers' = Workers /\ goroutines' = goroutines
      /\ \A q \in Workers :
           pc'[q] = IF q # g THEN pc[q] ELSE IF FnReturns(g) THEN "update" ELSE "failed"
      /\ Applied' = Applied \cup IF FnReturns(g) THEN {Service(g)} ELSE {}
  BY <1>1, <1>2, FnFacts, GraphFixed DEF StopInv
<1>4. visit[g] \in [left : SUBSET Containers, others : SUBSET Containers, failed : BOOLEAN]
  BY DEF StopInv, StopShape
<1>5. FnReturns(g) <=> ~visit[g].failed
  BY <1>1, <1>2, <1>3 DEF FnReturns, FnFails, StopInv, IndInv, TypeOK, Workers
<1>6. StopShape'
  BY <1>1, <1>2, <1>3, <1>4 DEF StopInv, StopShape
<1>7. phase = "walk"
  BY <1>2, <1>3 DEF StopInv, StopShape, Workers
<1>8. \A s : (FailedOn(s) => FailedOn(s)') /\ Stopped(s)' = Stopped(s)
  BY <1>1, <1>2, <1>3 DEF FailedOn, Stopped, Service
<1>9. visit[g].failed => FailedOn(Service(g))'
  BY <1>2, <1>3, <1>5 DEF FailedOn, Service
<1>10. ~visit[g].failed => Stopped(Service(g)) \/ FailedOn(Service(g))
  BY <1>1, <1>4, <1>7 DEF StopInv, StopShape, Kept, Stopped, Of
<1>11. Kept'
  <2> SUFFICES ASSUME NEW c \in Containers, engine[c] = "running",
                      ~FailedOn(ServiceOf[c])'
               PROVE  /\ c \in visit[g].others
                      /\ \A h \in DOMAIN visit : pc'[h] = "fn" =>
                           c \in IF ServiceOf[c] = Service(h) THEN visit[h].left
                                                             ELSE visit[h].others
    BY <1>1 DEF Kept, Service
  <2>1. /\ ~FailedOn(ServiceOf[c])
        /\ \A h \in DOMAIN visit : pc[h] = "fn" =>
              c \in IF ServiceOf[c] = Service(h) THEN visit[h].left ELSE visit[h].others
    BY <1>7, <1>8 DEF StopInv, Kept
  <2>2. ServiceOf[c] # Service(g)
    BY <2>1, <1>1, <1>9
  <2>3. \A h \in DOMAIN visit : pc'[h] = "fn" => pc[h] = "fn"
    BY <1>1, <1>2, <1>3 DEF StopInv, StopShape
  <2> QED BY <2>1, <2>2, <2>3, <1>1
<1>12. AppliedStopped'
  BY <1>3, <1>5, <1>8, <1>10 DEF StopInv, AppliedStopped
<1> QED BY <1>3, <1>6, <1>11, <1>12 DEF StopInv

(* The invariant is inductive.                                             *)
LEMMA StopNextInv ==
  ASSUME StopInv, ~TornReads, [StopNext]_allVars
  PROVE  StopInv'
<1>1. CASE UNCHANGED allVars
  <2>1. UNCHANGED vars /\ UNCHANGED <<engine, containers, visit, phase>>
    BY <1>1 DEF allVars, stopVars
  <2>2. IndInv' /\ Workers' = Workers /\ goroutines' = goroutines /\ Applied' = Applied
        /\ pc' = pc /\ returned' = returned /\ direction' = direction
    BY <2>1, WalkIdle DEF StopInv, vars
  <2> QED BY <2>1, <2>2 DEF StopInv, StopShape, Kept, AppliedStopped, FailedOn, Stopped, Service
<1> QED BY <1>1, PhasesInv, WalkInv, VisitStartsInv, LoopInv, VisitEndsInv
        DEF StopNext, StopProgress, StopTerminated

(* The invariant holds in every state of every call of Stop.               *)
LEMMA StopInvariance ==
  ASSUME ~TornReads
  PROVE  StopSpec => []StopInv
<1>1. StopInv /\ [StopNext]_allVars => StopInv'
  BY StopNextInv
<1> QED BY <1>1, StopInitInv, PTL DEF StopSpec

-----------------------------------------------------------------------------
(* When Stop returns nil every container of every service is stopped,      *)
(* whichever visits have overwritten each other's slices (stop.go, Stop).  *)
THEOREM StopStopsAll ==
  ASSUME ~TornReads
  PROVE  StopSpec => []SuccessStops
<1>1. StopInv => SuccessStops
  <2> SUFFICES ASSUME StopInv, returned, ~err, NEW s \in Services PROVE Stopped(s)
    BY DEF SuccessStops
  <2>1. Applied = Services /\ \A g \in goroutines : pc[g] # "failed"
    BY CompleteFromInv DEF StopInv, SuccessIsComplete
  <2> QED BY <2>1 DEF StopInv, AppliedStopped, FailedOn, Workers
<1> QED BY <1>1, StopInvariance, PTL

(* A container is stopped only once those of the services depending on its *)
(* service are, but for services that a visit failed on (stop.go, Stop).   *)
THEOREM StopIsOrdered ==
  ASSUME ~TornReads
  PROVE  StopSpec => DependentsStoppedFirst
<1> DEFINE Ordering ==
      \A s \in Services : \A c \in Of(s) : engine'[c] # engine[c] =>
        \A p \in Parents(s) :
          Stopped(p) \/ \E g \in Workers : Service(g) = p /\ pc[g] = "failed"
<1>1. StopInv /\ [StopNext]_allVars => [Ordering]_allVars
  <2> SUFFICES ASSUME StopInv, [StopNext]_allVars, NEW s \in Services, NEW c \in Of(s),
                      engine'[c] # engine[c], NEW p \in Parents(s)
               PROVE  Stopped(p) \/ FailedOn(p)
    BY DEF FailedOn
  <2>1. PICK g \in DOMAIN visit : ContainerStop(g)
    BY DEF StopNext, StopProgress, StopTerminated, List, ListingFails, Walk, StopReturns,
           VisitStarts, ContainerStopFails, VisitEnds, allVars, stopVars
  <2>2. g \in Workers
    BY DEF StopInv, StopShape
  <2>3. Service(g) = s
    BY <2>1 DEF ContainerStop, StopInv, StopShape, Of
  <2>4. p \in Applied
    BY <2>2, <2>3, OrderFromInv DEF StopInv, StopShape, DependencyOrder, Before
  <2> QED BY <2>4 DEF StopInv, AppliedStopped
<1> QED BY <1>1, StopInvariance, PTL DEF StopSpec, DependentsStoppedFirst
=============================================================================
