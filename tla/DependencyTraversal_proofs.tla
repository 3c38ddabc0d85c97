--------------------- MODULE DependencyTraversal_proofs ---------------------
(***************************************************************************)
(* Proofs about the dependency walk, for any finite set of services, any   *)
(* dependency graph and both directions, and about the search for cycles   *)
(* before it.                                                              *)
(***************************************************************************)
EXTENDS DependencyTraversal, CycleDetection, Integers, SequenceTheorems, FiniteSetTheorems, WellFoundedInduction, TLAPS

(* The shape of the goroutines: the root only scans, and a goroutine that  *)
(* is not in the loop of run has nothing left to look at.                  *)
Shape ==
  /\ goroutines # {} => Root \in goroutines /\ pc[Root] = "scan"
  /\ \A g \in goroutines : pc[g] # "scan" => todo[g] = {}

(* The goroutine that started g.                                           *)
Parent(g) == SubSeq(g, 1, Len(g) - 1)

(* Every goroutine but the root was started once, by a goroutine that has  *)
(* dealt with its node: the root for the extremities, and for any other    *)
(* node a goroutine that worked on a predecessor of it.                    *)
Parentage ==
  \A g \in Workers :
    /\ Parent(g) \in goroutines
    /\ pc[Parent(g)] = "scan"
    /\ Service(g) \notin todo[Parent(g)]
    /\ IF Parent(g) = Root THEN Before(Service(g)) = {}
                           ELSE Service(Parent(g)) \in Before(Service(g))

(* What a goroutine has to look at.                                        *)
TodoOrigin ==
  \A g \in goroutines :
    todo[g] \subseteq IF g = Root THEN Extremities ELSE After(Service(g))

(* A vertex has the target status exactly when a goroutine that worked on  *)
(* it has gone on to its adjacent nodes.                                   *)
StatusExplained ==
  /\ \A g \in Workers : pc[g] = "scan" => status[Service(g)] = TargetStatus
  /\ \A s \in Services : status[s] = TargetStatus =>
        \E g \in Workers : pc[g] = "scan" /\ Service(g) = s

(* A goroutine exists only for a service all of whose predecessors have    *)
(* the target status.                                                      *)
StartedInOrder ==
  \A g \in Workers : \A b \in Before(Service(g)) : status[b] = TargetStatus

(* A service whose predecessors all have the target status has a goroutine *)
(* or is still to be looked at by one: this is what makes the unlocked gap *)
(* between UpdateStatus and the loop of run harmless.                      *)
Covered ==
  goroutines # {} =>
    \A s \in Services :
      (\A b \in Before(s) : status[b] = TargetStatus) =>
        \/ \E g \in Workers : Service(g) = s
        \/ \E g \in goroutines : s \in todo[g]

(* When visit has returned, and why err is set.                            *)
Outcome ==
  /\ HasCycles => goroutines = {}
  /\ \A g \in goroutines : pc[g] = "failed" => err
  /\ returned => \/ goroutines = {} /\ HasCycles /\ err
                 \/ goroutines # {} /\ \A g \in goroutines : Finished(g)

IndInv ==
  /\ TypeOK /\ Shape /\ Parentage /\ TodoOrigin
  /\ StatusExplained /\ StartedInOrder /\ Covered /\ Outcome

-----------------------------------------------------------------------------
(* The nodes looked at after a service are those it comes before.          *)
LEMMA AfterIsConverse ==
  ASSUME TypeOK, NEW s \in Services, NEW m \in Services
  PROVE  m \in After(s) <=> s \in Before(m)
BY ServicesAssumption DEF TypeOK, After, Before, Children, Parents

(* The graph is made of services.                                          *)
LEMMA GraphType ==
  ASSUME TypeOK, NEW s \in Services
  PROVE  Before(s) \subseteq Services /\ After(s) \subseteq Services
BY ServicesAssumption DEF TypeOK, After, Before, Children, Parents

(* The two statuses of a traversal are different and are all there is.     *)
LEMMA StatusType ==
  ASSUME TypeOK
  PROVE  /\ InitialStatus # TargetStatus
         /\ TargetStatus \in {"stopped", "started"}
         /\ \A s \in Services : status[s] # InitialStatus <=> status[s] = TargetStatus
BY DEF TypeOK, InitialStatus, TargetStatus

(* The goroutine that g starts for node m works on m.                      *)
LEMMA AppendFacts ==
  ASSUME NEW g \in Seq(Services), NEW m \in Services
  PROVE  /\ Append(g, m) \in Seq(Services)
         /\ Append(g, m) # <<>>
         /\ Service(Append(g, m)) = m
         /\ Parent(Append(g, m)) = g
<1> DEFINE h == Append(g, m)
<1>1. /\ h \in Seq(Services) /\ h # <<>> /\ Service(h) = m
      /\ Len(h) = Len(g) + 1 /\ \A i \in 1..Len(g) : h[i] = g[i]
  BY DEF Service
<1>2. Parent(h) \in Seq(Services) /\ Len(Parent(h)) = Len(g)
  BY <1>1 DEF Parent
<1>3. \A i \in 1..Len(g) : Parent(h)[i] = g[i]
  BY <1>1 DEF Parent
<1>4. Parent(h) = g
  BY <1>2, <1>3, SeqEqual
<1> QED BY <1>1, <1>4

(* A goroutine other than the root works on a service.                     *)
LEMMA WorkerService ==
  ASSUME TypeOK, NEW g \in Workers
  PROVE  g \in Seq(Services) /\ Service(g) \in Services
BY DEF TypeOK, Workers, Service, Root, goroutines

(* A path is its parent and its last node.                                 *)
LEMMA ParentFacts ==
  ASSUME NEW g \in Seq(Services), g # <<>>
  PROVE  /\ Parent(g) \in Seq(Services) /\ Service(g) \in Services
         /\ g = Append(Parent(g), Service(g))
<1>1. Len(g) \in Nat \ {0} /\ Service(g) \in Services
  BY DEF Service
<1>2. /\ Parent(g) \in Seq(Services) /\ Len(Parent(g)) = Len(g) - 1
      /\ \A i \in 1..(Len(g) - 1) : Parent(g)[i] = g[i]
  <2> DEFINE k == Len(g) - 1
  <2>1. k \in Nat /\ k <= Len(g) /\ Len(g) = k + 1
    BY <1>1
  <2>2. SubSeq(g, 1, k) \in Seq(Services) /\ Len(SubSeq(g, 1, k)) = k
    BY <2>1
  <2>3. \A i \in 1..k : SubSeq(g, 1, k)[i] = g[i]
    BY <2>1
  <2> QED BY <2>2, <2>3 DEF Parent
<1> DEFINE h == Append(Parent(g), Service(g))
<1>3. /\ h \in Seq(Services) /\ Len(h) = Len(g)
  BY <1>1, <1>2
<1>4. ASSUME NEW i \in 1..Len(g) PROVE h[i] = g[i]
  <2>1. CASE i = Len(g)
    BY <2>1, <1>1, <1>2 DEF Service
  <2>2. CASE i # Len(g)
    BY <2>2, <1>1, <1>2
  <2> QED BY <2>1, <2>2
<1>5. h = g
  BY <1>3, <1>4, SeqEqual
<1> QED BY <1>1, <1>2, <1>5

-----------------------------------------------------------------------------
(* Before the first goroutine is started the invariant holds trivially:    *)
(* there are no goroutines and no vertex has the target status.            *)
LEMMA InitInv == Init => IndInv
<1> SUFFICES ASSUME Init PROVE IndInv
  OBVIOUS
<1>1. goroutines = {}
  BY DEF Init, goroutines
<1>2. TypeOK
  BY <1>1, ProjectsAssumption DEF Init, TypeOK, InitialStatus
<1>3. Workers = {}
  BY <1>1 DEF Workers
<1>4. StatusExplained
  BY <1>2, <1>3, StatusType DEF StatusExplained, Init
<1> QED BY <1>1, <1>2, <1>3, <1>4
        DEF IndInv, Shape, Parentage, TodoOrigin, StartedInOrder, Covered,
            Outcome, Init

(* No step changes the arguments of visit, so the graph stays as it is.    *)
LEMMA GraphFixed ==
  ASSUME [Next]_vars
  PROVE  /\ dependsOn' = dependsOn /\ direction' = direction
         /\ \A s : Before(s)' = Before(s) /\ After(s)' = After(s)
         /\ HasCycles' = HasCycles
         /\ InitialStatus' = InitialStatus /\ TargetStatus' = TargetStatus
<1>1. dependsOn' = dependsOn /\ direction' = direction
  BY DEF Next, Progress, WalkOn, Visit, Wait, FnReturns, FnFails, UpdateStatus,
         Scan, Terminated, vars
<1> QED BY <1>1 DEF Before, After, Children, Parents, HasCycles,
                    InitialStatus, TargetStatus

-----------------------------------------------------------------------------
(* Each step preserves the invariant, one lemma per action.                *)
LEMMA VisitInv ==
  ASSUME IndInv, Visit, [Next]_vars
  PROVE  IndInv'
<1> USE GraphFixed
<1>1. CASE HasCycles
  BY <1>1 DEF IndInv, Visit, TypeOK, Shape, Parentage, TodoOrigin,
              StatusExplained, StartedInOrder, Covered, Outcome, goroutines,
              Workers, Finished, Service
<1>2. CASE ~HasCycles
  <2>1. /\ goroutines' = {Root} /\ Workers' = {} /\ Workers = {}
        /\ pc'[Root] = "scan" /\ todo'[Root] = Extremities
        /\ pc' = [g \in {Root} |-> "scan"]
        /\ todo' = [g \in {Root} |-> Extremities]
        /\ UNCHANGED <<status, err, returned>> /\ ~returned
    BY <1>2 DEF Visit, goroutines, Workers
  <2>2. TypeOK'
    BY <2>1 DEF IndInv, TypeOK, Root, Extremities, goroutines
  <2>3. Shape' /\ Parentage' /\ TodoOrigin'
    BY <2>1 DEF Shape, Parentage, TodoOrigin, Extremities
  <2>4. StatusExplained'
    BY <2>1 DEF IndInv, StatusExplained
  <2>5. StartedInOrder'
    BY <2>1 DEF StartedInOrder
  <2>6. ASSUME NEW s \in Services,
               \A b \in Before(s)' : status'[b] = TargetStatus'
        PROVE  s \in todo'[Root]
    BY <2>1, <2>6, GraphType DEF IndInv, StatusExplained, Extremities
  <2>7. Covered'
    BY <2>1, <2>6 DEF Covered
  <2>8. Outcome'
    BY <1>2, <2>1 DEF Outcome
  <2> QED BY <2>2, <2>3, <2>4, <2>5, <2>7, <2>8 DEF IndInv
<1> QED BY <1>1, <1>2

(* A turn of the loop of run: a node that is ready gets its one goroutine  *)
(* from g, and a node that is not ready has a predecessor without the      *)
(* target status, so nothing obliges anyone to look at it yet.             *)
LEMMA ScanInv ==
  ASSUME IndInv, [Next]_vars, NEW g \in goroutines, NEW m \in todo[g], Scan(g, m)
  PROVE  IndInv'
<1> USE GraphFixed
<1> DEFINE h == Append(g, m)
           started == IF Ready(m) THEN {h} ELSE {}
<1>0. TypeOK /\ m \in Services /\ g \in Seq(Services) /\ pc[g] = "scan"
  BY DEF IndInv, TypeOK, Scan, goroutines
<1>1. h \in Seq(Services) /\ h # Root /\ Service(h) = m /\ Parent(h) = g
  BY <1>0, AppendFacts DEF Root
<1>2. /\ goroutines' = goroutines \cup started
      /\ pc' = [q \in goroutines \cup started |->
                  IF q \in started THEN "fn" ELSE pc[q]]
      /\ todo' = [q \in goroutines \cup started |->
                  IF q \in started THEN {}
                  ELSE [todo EXCEPT ![g] = @ \ {m}][q]]
      /\ UNCHANGED <<status, err, returned>>
  BY DEF Scan, goroutines
<1>3. h \notin goroutines
  BY <1>1 DEF IndInv, Parentage, Workers
<1>4. /\ DOMAIN todo = goroutines
      /\ \A q \in goroutines :
           /\ q \notin started /\ pc'[q] = pc[q]
           /\ todo'[q] = IF q = g THEN todo[g] \ {m} ELSE todo[q]
      /\ \A q \in started : q = h /\ pc'[q] = "fn" /\ todo'[q] = {}
  BY <1>0, <1>2, <1>3 DEF TypeOK, goroutines
<1>5. Workers' = Workers \cup started /\ Workers \subseteq goroutines
  BY <1>1, <1>2 DEF Workers
<1>6. TypeOK'
  BY <1>0, <1>1, <1>2, <1>4 DEF TypeOK, goroutines
<1>7. Shape'
  BY <1>1, <1>2, <1>4 DEF IndInv, Shape
<1>8. IF g = Root THEN Before(m) = {} ELSE Service(g) \in Before(m)
  BY <1>0, AfterIsConverse, WorkerService
     DEF IndInv, TodoOrigin, Extremities, Workers
<1>9. Parentage'
  <2> SUFFICES ASSUME NEW q \in Workers'
               PROVE  /\ Parent(q) \in goroutines'
                      /\ pc'[Parent(q)] = "scan"
                      /\ Service(q) \notin todo'[Parent(q)]
                      /\ IF Parent(q) = Root THEN Before(Service(q)) = {}
                         ELSE Service(Parent(q)) \in Before(Service(q))
    BY DEF Parentage, Service, Parent, Root
  <2>1. CASE q \in Workers
    BY <2>1, <1>2, <1>4 DEF IndInv, Parentage
  <2>2. CASE q = h
    BY <2>2, <1>0, <1>1, <1>2, <1>4, <1>8
  <2> QED BY <2>1, <2>2, <1>5, <1>4
<1>10. TodoOrigin'
  BY <1>2, <1>4 DEF IndInv, TodoOrigin, Extremities, Service, Root
<1>11. StatusExplained'
  BY <1>2, <1>4, <1>5 DEF IndInv, StatusExplained, Service
<1>12. StartedInOrder'
  <2>1. Ready(m) => \A b \in Before(m) : status[b] = TargetStatus
    BY <1>0, GraphType, StatusType DEF Ready
  <2> QED BY <2>1, <1>1, <1>2, <1>4, <1>5 DEF IndInv, StartedInOrder, Service
<1>13. Covered'
  <2> SUFFICES ASSUME NEW s \in Services,
                      \A b \in Before(s) : status[b] = TargetStatus
               PROVE  \/ \E q \in Workers' : Service(q) = s
                      \/ \E q \in goroutines' : s \in todo'[q]
    BY <1>2 DEF Covered, Service
  <2>1. CASE s # m
    BY <2>1, <1>2, <1>4, <1>5 DEF IndInv, Covered
  <2>2. CASE s = m
    <3>1. Ready(m)
      BY <2>2, <1>0, StatusType DEF Ready
    <3> QED BY <3>1, <2>2, <1>1, <1>5
  <2> QED BY <2>1, <2>2
<1>14. Outcome'
  BY <1>0, <1>2, <1>4 DEF IndInv, Outcome, Finished
<1> QED BY <1>6, <1>7, <1>9, <1>10, <1>11, <1>12, <1>13, <1>14 DEF IndInv

(* fn returning, with or without an error, moves one goroutine only.       *)
LEMMA FnInv ==
  ASSUME IndInv, [Next]_vars, NEW g \in goroutines, FnReturns(g) \/ FnFails(g)
  PROVE  IndInv'
<1> USE GraphFixed
<1>1. PICK p \in {"update", "failed"} :
        /\ pc' = [pc EXCEPT ![g] = p]
        /\ err' = (err \/ p = "failed")
        /\ UNCHANGED <<todo, status, returned>> /\ pc[g] = "fn"
  BY DEF FnReturns, FnFails, IndInv, TypeOK
<1>2. /\ goroutines' = goroutines /\ Workers' = Workers
      /\ Workers \subseteq goroutines
      /\ \A q \in goroutines : pc'[q] = IF q = g THEN p ELSE pc[q]
  BY <1>1 DEF goroutines, Workers, IndInv, TypeOK
<1>3. TypeOK'
  BY <1>1, <1>2 DEF IndInv, TypeOK, goroutines
<1>4. Shape' /\ TodoOrigin'
  BY <1>1, <1>2 DEF IndInv, Shape, TodoOrigin, Extremities, Service, Root
<1>5. Parentage'
  BY <1>1, <1>2 DEF IndInv, Parentage, Service, Parent, Root
<1>6. StatusExplained' /\ StartedInOrder'
  BY <1>1, <1>2 DEF IndInv, StatusExplained, StartedInOrder, Service
<1>7. Covered'
  BY <1>1, <1>2 DEF IndInv, Covered, Service
<1>8. Outcome'
  <2>1. ~returned
    BY <1>1 DEF IndInv, Outcome, Finished
  <2>2. \A q \in goroutines : pc'[q] = "failed" => err'
    BY <1>1, <1>2 DEF IndInv, Outcome
  <2> QED BY <2>1, <2>2, <1>1, <1>2 DEF IndInv, Outcome
<1> QED BY <1>3, <1>4, <1>5, <1>6, <1>7, <1>8 DEF IndInv

(* UpdateStatus may make successors ready; they are exactly the nodes that *)
(* the same goroutine then has to look at, so Covered is kept.             *)
LEMMA UpdateStatusInv ==
  ASSUME IndInv, [Next]_vars, NEW g \in goroutines, UpdateStatus(g)
  PROVE  IndInv'
<1> USE GraphFixed
<1>1. /\ pc[g] = "update" /\ pc' = [pc EXCEPT ![g] = "scan"]
      /\ todo' = [todo EXCEPT ![g] = After(Service(g))]
      /\ status' = [status EXCEPT ![Service(g)] = TargetStatus]
      /\ UNCHANGED <<err, returned>>
  BY DEF UpdateStatus
<1>2. g \in Workers /\ TypeOK
  BY <1>1 DEF IndInv, Shape, Workers
<1>3. g \in Seq(Services) /\ Service(g) \in Services
  BY <1>2, WorkerService
<1>4. /\ goroutines' = goroutines /\ Workers' = Workers
      /\ Workers \subseteq goroutines
      /\ \A q \in goroutines :
           /\ pc'[q] = IF q = g THEN "scan" ELSE pc[q]
           /\ todo'[q] = IF q = g THEN After(Service(g)) ELSE todo[q]
      /\ \A s \in Services :
           status'[s] = IF s = Service(g) THEN TargetStatus ELSE status[s]
  BY <1>1, <1>2, <1>3 DEF goroutines, Workers, TypeOK
<1>5. After(Service(g)) \subseteq Services /\ TargetStatus \in {"stopped", "started"}
  BY <1>2, <1>3, GraphType, StatusType
<1>6. TypeOK'
  BY <1>1, <1>2, <1>4, <1>5 DEF TypeOK, goroutines
<1>7. Shape'
  BY <1>1, <1>4 DEF IndInv, Shape
<1>8. TodoOrigin'
  BY <1>2, <1>4 DEF IndInv, TodoOrigin, Extremities, Service, Root, Workers
<1>9. Parentage'
  <2>1. ASSUME NEW q \in Workers
        PROVE  /\ Parent(q) \in goroutines /\ pc'[Parent(q)] = "scan"
               /\ todo'[Parent(q)] = todo[Parent(q)]
    BY <1>1, <1>4 DEF IndInv, Parentage
  <2> QED BY <2>1, <1>4 DEF IndInv, Parentage, Service, Parent, Root
<1>10. StatusExplained'
  <2>1. \A q \in Workers : Service(q) \in Services
    BY <1>2, WorkerService
  <2>2. \A q \in Workers : pc'[q] = "scan" => status'[Service(q)] = TargetStatus
    BY <2>1, <1>4 DEF IndInv, StatusExplained
  <2>3. \A s \in Services : status'[s] = TargetStatus =>
          \E q \in Workers : pc'[q] = "scan" /\ Service(q) = s
    BY <1>2, <1>4 DEF IndInv, StatusExplained
  <2> QED BY <2>2, <2>3, <1>4 DEF StatusExplained, Service
<1>11. StartedInOrder'
  <2>1. ASSUME NEW q \in Workers, NEW b \in Before(Service(q))
        PROVE  status'[b] = TargetStatus
    BY <1>2, <1>4, WorkerService, GraphType DEF IndInv, StartedInOrder
  <2> QED BY <2>1, <1>4 DEF StartedInOrder, Service
<1>12. Covered'
  <2> SUFFICES ASSUME NEW s \in Services,
                      \A b \in Before(s) : status'[b] = TargetStatus
               PROVE  \/ \E q \in Workers : Service(q) = s
                      \/ \E q \in goroutines : s \in todo'[q]
    BY <1>4 DEF Covered, Service
  <2>1. CASE Service(g) \in Before(s)
    BY <2>1, <1>2, <1>3, <1>4, AfterIsConverse
  <2>2. CASE Service(g) \notin Before(s)
    <3>1. \A b \in Before(s) : status[b] = TargetStatus
      BY <2>2, <1>2, <1>4, GraphType
    <3>2. \/ \E q \in Workers : Service(q) = s
          \/ \E q \in goroutines : s \in todo[q]
      BY <3>1 DEF IndInv, Covered
    <3>3. todo[g] = {}
      BY <1>1 DEF IndInv, Shape
    <3> QED BY <3>2, <3>3, <1>4
  <2> QED BY <2>1, <2>2
<1>13. Outcome'
  BY <1>1, <1>4 DEF IndInv, Outcome, Finished
<1> QED BY <1>6, <1>7, <1>8, <1>9, <1>10, <1>11, <1>12, <1>13 DEF IndInv

(* eg.Wait returns when every goroutine has finished.                      *)
LEMMA WaitInv ==
  ASSUME IndInv, [Next]_vars, Wait
  PROVE  IndInv'
<1> USE GraphFixed
<1>1. UNCHANGED <<pc, todo, status, err>> /\ goroutines' = goroutines /\ Workers' = Workers
  BY DEF Wait, goroutines, Workers
<1>2. TypeOK'
  BY <1>1 DEF IndInv, TypeOK, Wait
<1>3. Shape' /\ TodoOrigin' /\ Parentage'
  BY <1>1 DEF IndInv, Shape, TodoOrigin, Parentage, Extremities, Service, Root, Parent
<1>4. StatusExplained' /\ StartedInOrder' /\ Covered'
  BY <1>1 DEF IndInv, StatusExplained, StartedInOrder, Covered, Service
<1>5. Outcome'
  BY <1>1 DEF IndInv, Outcome, Finished, Wait
<1> QED BY <1>2, <1>3, <1>4, <1>5 DEF IndInv

(* The invariant is inductive.                                             *)
LEMMA NextInv == IndInv /\ [Next]_vars => IndInv'
<1> SUFFICES ASSUME IndInv, [Next]_vars PROVE IndInv'
  OBVIOUS
<1>1. CASE Visit
  BY <1>1, VisitInv
<1>2. CASE Wait
  BY <1>2, WaitInv
<1>3. CASE \E g \in goroutines : FnReturns(g) \/ FnFails(g)
  BY <1>3, FnInv
<1>4. CASE \E g \in goroutines : UpdateStatus(g)
  BY <1>4, UpdateStatusInv
<1>5. CASE \E g \in goroutines : \E m \in todo[g] : Scan(g, m)
  BY <1>5, ScanInv
<1>6. CASE UNCHANGED vars
  <2>1. /\ UNCHANGED <<pc, todo, status, err, returned, dependsOn, direction>>
        /\ goroutines' = goroutines /\ Workers' = Workers
    BY <1>6 DEF vars, goroutines, Workers
  <2>2. /\ \A s : Before(s)' = Before(s) /\ After(s)' = After(s)
        /\ (HasCycles' = HasCycles) /\ InitialStatus' = InitialStatus /\ TargetStatus' = TargetStatus
    BY GraphFixed
  <2>3. TypeOK' /\ Shape'
    BY <2>1 DEF IndInv, TypeOK, Shape, Root
  <2>4. TodoOrigin' /\ Parentage'
    BY <2>1, <2>2 DEF IndInv, TodoOrigin, Parentage, Extremities, Service, Root, Parent
  <2>5. StatusExplained' /\ StartedInOrder' /\ Covered'
    BY <2>1, <2>2 DEF IndInv, StatusExplained, StartedInOrder, Covered, Service
  <2>6. Outcome'
    BY <2>1, <2>2 DEF IndInv, Outcome, Finished
  <2> QED BY <2>3, <2>4, <2>5, <2>6 DEF IndInv
<1> QED BY <1>1, <1>2, <1>3, <1>4, <1>5, <1>6 DEF Next, Progress, WalkOn, Terminated

(* The invariant holds in every state of every walk.                       *)
LEMMA Invariance == Spec => []IndInv
BY InitInv, NextInv, PTL DEF Spec

-----------------------------------------------------------------------------
(* The values of the variables keep their types throughout a walk.         *)
THEOREM TypeCorrect == Spec => []TypeOK
BY Invariance, PTL DEF IndInv

(* Statuses are only given to services fn succeeded on, so the invariant   *)
(* gives the order of the calls.                                           *)
LEMMA OrderFromInv == IndInv => DependencyOrder
<1> SUFFICES ASSUME IndInv, NEW g \in Workers, NEW b \in Before(Service(g))
             PROVE  b \in Applied
  BY DEF DependencyOrder
<1>1. b \in Services /\ status[b] = TargetStatus
  BY WorkerService, GraphType DEF IndInv, StartedInOrder
<1>2. PICK h \in Workers : pc[h] = "scan" /\ Service(h) = b
  BY <1>1 DEF IndInv, StatusExplained
<1> QED BY <1>2 DEF Applied

(* fn is called on a service only after it succeeded on all the services   *)
(* that come before it, on every graph and in both directions.             *)
THEOREM CallsAreOrdered == Spec => []DependencyOrder
BY Invariance, OrderFromInv, PTL

(* Once all the goroutines have finished, nothing is left to be looked at. *)
LEMMA NoneMissedAtEnd ==
  ASSUME IndInv, goroutines # {}, \A g \in goroutines : Finished(g),
         NEW s \in Services, Before(s) \subseteq Applied
  PROVE  s \in Visited
<1>2. \A g \in goroutines : todo[g] = {} /\ (pc[g] = "failed" \/ pc[g] = "scan")
  BY DEF Finished, IndInv, Shape
<1>3. ASSUME NEW b \in Before(s) PROVE status[b] = TargetStatus
  <2>1. PICK g \in Workers : pc[g] \in {"update", "scan"} /\ Service(g) = b
    BY DEF Applied
  <2>2. pc[g] = "scan"
    BY <2>1, <1>2 DEF Workers
  <2> QED BY <2>1, <2>2 DEF IndInv, StatusExplained
<1>4. \E g \in Workers : Service(g) = s
  BY <1>2, <1>3 DEF IndInv, Covered
<1> QED BY <1>4 DEF Visited

(* The invariant implies that no service was missed when visit returns.    *)
LEMMA MissedFromInv == IndInv => NoServiceMissed
BY NoneMissedAtEnd DEF NoServiceMissed, IndInv, Outcome

(* No interleaving of status updates with looks at adjacent nodes makes    *)
(* the walk forget a service whose predecessors succeeded.                 *)
THEOREM NothingMissed == Spec => []NoServiceMissed
BY Invariance, MissedFromInv, PTL

(* If none of the calls failed, the services without a successful call     *)
(* would each have a predecessor among them, that is, a cycle.             *)
LEMMA CompleteAtEnd ==
  ASSUME IndInv, goroutines # {}, \A g \in goroutines : Finished(g), ~err
  PROVE  Applied = Services /\ \A g \in goroutines : pc[g] # "failed"
<1>1. ~HasCycles /\ \A g \in goroutines : pc[g] = "scan"
  BY DEF IndInv, Outcome, Finished
<1>2. Applied = Visited /\ Visited \subseteq Services
  BY <1>1, WorkerService DEF Applied, Visited, Workers, IndInv
<1>3. ASSUME Services \ Applied # {} PROVE FALSE
  <2> DEFINE S == Services \ Applied
  <2>1. PICK s \in S : Before(s) \cap S = {}
    BY <1>1, <1>3 DEF HasCycles, Before
  <2>2. Before(s) \subseteq Applied
    BY <2>1, GraphType DEF IndInv
  <2> QED BY <2>1, <2>2, <1>2, NoneMissedAtEnd
<1> QED BY <1>1, <1>2, <1>3

(* The invariant implies that a walk that returns nil visited all the      *)
(* services.                                                               *)
LEMMA CompleteFromInv == IndInv => SuccessIsComplete
BY CompleteAtEnd DEF SuccessIsComplete, IndInv, Outcome

(* A walk that reports success has applied fn, with success, to every      *)
(* service of the project.                                                 *)
THEOREM SuccessMeansAll == Spec => []SuccessIsComplete
BY Invariance, CompleteFromInv, PTL

-----------------------------------------------------------------------------
(* Without a service that has two predecessors no service has two          *)
(* goroutines: the parents of two goroutines for the same service would    *)
(* work on the same predecessor.                                           *)
LEMMA OnceInductive ==
  ASSUME IndInv, AtMostOnceUnbranched, [Next]_vars
  PROVE  AtMostOnceUnbranched'
<1> USE GraphFixed
<1> SUFFICES ASSUME Unbranched, NEW p \in Workers', NEW q \in Workers',
                    Service(p) = Service(q)
             PROVE  p = q
  BY DEF AtMostOnceUnbranched, AtMostOnce, Unbranched, Service
<1>1. AtMostOnce
  BY DEF AtMostOnceUnbranched
<1>2. CASE goroutines' = goroutines \/ goroutines' = {Root}
  BY <1>1, <1>2 DEF AtMostOnce, Workers
<1>3. CASE \E g \in goroutines : \E m \in todo[g] : Scan(g, m)
  <2>1. PICK g \in goroutines : \E m \in todo[g] : Scan(g, m)
    BY <1>3
  <2>0. PICK m \in todo[g] : Scan(g, m)
    BY <2>1
  <2> DEFINE h == Append(g, m)
  <2>2. TypeOK /\ m \in Services /\ g \in Seq(Services)
    BY DEF IndInv, TypeOK, goroutines
  <2>3. Workers' \subseteq Workers \cup {h} /\ Service(h) = m
    BY <2>0, <2>2, AppendFacts DEF Scan, goroutines, Workers
  <2>4. IF g = Root THEN Before(m) = {} ELSE Service(g) \in Before(m)
    BY <2>2, AfterIsConverse, WorkerService
       DEF IndInv, TodoOrigin, Extremities, Workers
  <2>5. ASSUME NEW w \in Workers, Service(w) = m PROVE FALSE
    <3>1. /\ Parent(w) \in goroutines /\ m \notin todo[Parent(w)]
          /\ IF Parent(w) = Root THEN Before(m) = {}
                                 ELSE Service(Parent(w)) \in Before(m)
      BY <2>5 DEF IndInv, Parentage
    <3>2. Parent(w) = g
      BY <3>1, <2>2, <2>4, <1>1 DEF AtMostOnce, Unbranched, Workers
    <3> QED BY <3>1, <3>2
  <2> QED BY <2>3, <2>5, <1>1 DEF AtMostOnce
<1>4. goroutines' = goroutines \/ goroutines' = {Root}
      \/ \E g \in goroutines : \E m \in todo[g] : Scan(g, m)
  BY DEF Next, Progress, WalkOn, Visit, Wait, FnReturns, FnFails, UpdateStatus,
         Terminated, vars, goroutines, IndInv, TypeOK
<1> QED BY <1>2, <1>3, <1>4

(* fn is called at most once on each service of a project in which no      *)
(* service has two predecessors; on a diamond the model checker finds a    *)
(* second call (MCDoubleVisit.cfg).                                        *)
THEOREM CalledAtMostOnce == Spec => []AtMostOnceUnbranched
<1>1. Init => AtMostOnceUnbranched
  BY DEF Init, AtMostOnceUnbranched, AtMostOnce, Workers, goroutines
<1>2. IndInv /\ AtMostOnceUnbranched /\ [Next]_vars => AtMostOnceUnbranched'
  BY OnceInductive
<1> QED BY <1>1, <1>2, Invariance, PTL DEF Spec

-----------------------------------------------------------------------------
(* What the callers of the walk need of its steps.  The ones between two   *)
(* calls of fn start calls and update statuses, and end no call.           *)
LEMMA WalkOnFacts ==
  ASSUME IndInv, WalkOn
  PROVE  /\ Next /\ IndInv' /\ ~returned
         /\ Workers \subseteq Workers' /\ goroutines \subseteq goroutines'
         /\ \A g \in Workers : pc'[g] = pc[g] \/ (pc[g] = "update" /\ pc'[g] = "scan")
         /\ \A g \in Workers' \ Workers : pc'[g] = "fn"
         /\ Applied' = Applied
         /\ returned' => goroutines' # {} \/ err'
         /\ err => err'
<1>0. Next /\ IndInv'
  BY NextInv DEF Next, Progress
<1>1. CASE Visit
  <2>1. goroutines = {} /\ Workers = {} /\ Workers' = {} /\ ~returned
    BY <1>1 DEF Visit, Workers, goroutines
  <2> QED BY <2>1, <1>0, <1>1 DEF Applied, Visit, IndInv, TypeOK
<1>2. CASE Wait
  <2>1. Workers' = Workers /\ goroutines' = goroutines /\ pc' = pc /\ err' = err
        /\ ~returned /\ goroutines # {}
    BY <1>2 DEF Wait, Workers, goroutines
  <2> QED BY <2>1, <1>0 DEF Applied, Service
<1>3. CASE \E g \in goroutines : UpdateStatus(g)
  <2>1. PICK g \in goroutines : UpdateStatus(g)
    BY <1>3
  <2>2. /\ goroutines' = goroutines /\ Workers' = Workers
        /\ Workers \subseteq goroutines
        /\ \A q \in goroutines : pc'[q] = IF q = g THEN "scan" ELSE pc[q]
        /\ pc[g] = "update" /\ UNCHANGED <<err, returned>>
    BY <2>1 DEF UpdateStatus, goroutines, Workers, IndInv, TypeOK
  <2>3. Applied' = Applied /\ ~returned
    BY <2>2 DEF Applied, Service, IndInv, Outcome, Finished
  <2> QED BY <2>2, <2>3, <1>0
<1>4. CASE \E g \in goroutines : \E m \in todo[g] : Scan(g, m)
  <2>1. PICK g \in goroutines : \E m \in todo[g] : Scan(g, m)
    BY <1>4
  <2>0. PICK m \in todo[g] : Scan(g, m)
    BY <2>1
  <2> DEFINE h == Append(g, m)
  <2>2. h # Root /\ h \notin goroutines
    <3>1. g \in Seq(Services) /\ m \in Services
      BY DEF IndInv, TypeOK, goroutines
    <3>2. h # Root /\ Service(h) = m /\ Parent(h) = g
      BY <3>1, AppendFacts DEF Root
    <3> QED BY <3>2 DEF IndInv, Parentage, Workers
  <2>3. /\ Workers \subseteq Workers' /\ Workers' \subseteq Workers \cup {h}
        /\ goroutines \subseteq goroutines'
        /\ \A q \in Workers : pc'[q] = pc[q]
        /\ h \in Workers' => pc'[h] = "fn"
        /\ UNCHANGED <<err, returned>> /\ pc[g] = "scan" /\ todo[g] # {}
    BY <2>0, <2>2 DEF Scan, goroutines, Workers
  <2>4. Applied' = Applied /\ ~returned
    BY <2>3 DEF Applied, Service, IndInv, Outcome, Finished
  <2> QED BY <2>3, <2>4, <1>0
<1> QED BY <1>1, <1>2, <1>3, <1>4 DEF WalkOn

(* The end of a call of fn moves its goroutine and no other.               *)
LEMMA FnFacts ==
  ASSUME IndInv, NEW g \in Workers, FnReturns(g) \/ FnFails(g)
  PROVE  /\ Next /\ IndInv' /\ ~returned /\ ~returned'
         /\ Workers' = Workers /\ goroutines' = goroutines /\ pc[g] = "fn"
         /\ \A q \in Workers :
              pc'[q] = IF q # g THEN pc[q] ELSE IF FnReturns(g) THEN "update" ELSE "failed"
         /\ Applied' = Applied \cup IF FnReturns(g) THEN {Service(g)} ELSE {}
         /\ err => err'
         /\ ~FnReturns(g) => err'
<1>1. g \in goroutines /\ Next /\ IndInv'
  BY NextInv DEF Next, Progress, Workers
<1>2. /\ goroutines' = goroutines /\ Workers' = Workers
      /\ Workers \subseteq goroutines
      /\ pc[g] = "fn" /\ UNCHANGED returned
      /\ err => err'
  BY <1>1 DEF FnReturns, FnFails, goroutines, Workers, IndInv, TypeOK
<1>3. ~returned
  BY <1>1, <1>2 DEF IndInv, Outcome, Finished
<1>4. CASE FnReturns(g)
  <2>1. \A q \in Workers : pc'[q] = IF q = g THEN "update" ELSE pc[q]
    BY <1>2, <1>4 DEF FnReturns, goroutines, IndInv, TypeOK
  <2>2. Applied' = Applied \cup {Service(g)}
    BY <2>1, <1>2 DEF Applied, Service
  <2> QED BY <2>1, <2>2, <1>1, <1>2, <1>3, <1>4
<1>5. CASE ~FnReturns(g)
  <2>1. \A q \in Workers : pc'[q] = IF q = g THEN "failed" ELSE pc[q]
    BY <1>2, <1>5 DEF FnFails, goroutines, IndInv, TypeOK
  <2>2. Applied' = Applied /\ err'
    BY <2>1, <1>2, <1>5 DEF Applied, Service, FnFails
  <2> QED BY <2>1, <2>2, <1>1, <1>2, <1>3, <1>5
<1> QED BY <1>4, <1>5

(* A step of a caller that leaves the walk alone.                          *)
LEMMA WalkIdle ==
  ASSUME IndInv, UNCHANGED vars
  PROVE  /\ IndInv' /\ Workers' = Workers /\ goroutines' = goroutines
         /\ Applied' = Applied
BY NextInv DEF vars, Workers, goroutines, Applied, Service

-----------------------------------------------------------------------------
(* Under the invariant every step of the walk is one of the ordered        *)
(* application, or leaves it as it is.                                     *)
LEMMA StepImplements ==
  ASSUME IndInv, IndInv', [Next]_vars
  PROVE  [Ordered!Next]_(Ordered!vars)
<1> USE GraphFixed
<1> DEFINE before == [s \in Services |-> Before(s)]
<1>1. before' = before
  OBVIOUS
<1>2. CASE \E g \in goroutines : FnReturns(g)
  <2>1. PICK g \in goroutines : FnReturns(g)
    BY <1>2
  <2>2. /\ goroutines' = goroutines /\ Workers' = Workers
        /\ Workers \subseteq goroutines
        /\ \A q \in goroutines : pc'[q] = IF q = g THEN "update" ELSE pc[q]
        /\ pc[g] = "fn" /\ UNCHANGED <<err, returned>>
    BY <2>1 DEF FnReturns, goroutines, Workers, IndInv, TypeOK
  <2>3. g \in Workers /\ Service(g) \in Services /\ ~returned
    BY <2>2, WorkerService DEF IndInv, Shape, Workers, Outcome, Finished
  <2>4. Applied' = Applied \cup {Service(g)}
    BY <2>2, <2>3 DEF Applied, Service
  <2>5. Before(Service(g)) \subseteq Applied
    BY <2>3, OrderFromInv DEF DependencyOrder
  <2>6. CASE Service(g) \in Applied
    BY <2>6, <2>2, <2>4, <1>1 DEF Ordered!vars
  <2>7. CASE Service(g) \notin Applied
    <3>1. Ordered!Apply(Service(g))
      BY <2>2, <2>3, <2>4, <2>5, <2>7, <1>1 DEF Ordered!Apply
    <3> QED BY <3>1, <2>3 DEF Ordered!Next
  <2> QED BY <2>6, <2>7
<1>3. CASE \E g \in goroutines : FnFails(g)
  <2>1. PICK g \in goroutines : FnFails(g)
    BY <1>3
  <2>2. /\ goroutines' = goroutines /\ Workers' = Workers
        /\ Workers \subseteq goroutines
        /\ \A q \in goroutines : pc'[q] = IF q = g THEN "failed" ELSE pc[q]
        /\ pc[g] = "fn" /\ UNCHANGED returned
    BY <2>1 DEF FnFails, goroutines, Workers, IndInv, TypeOK
  <2>3. Applied' = Applied /\ ~returned
    BY <2>2 DEF Applied, Service, IndInv, Outcome, Finished
  <2> QED BY <2>2, <2>3, <1>1 DEF Ordered!vars
<1>4. CASE \E g \in goroutines : UpdateStatus(g)
  <2>1. PICK g \in goroutines : UpdateStatus(g)
    BY <1>4
  <2>2. /\ goroutines' = goroutines /\ Workers' = Workers
        /\ Workers \subseteq goroutines
        /\ \A q \in goroutines : pc'[q] = IF q = g THEN "scan" ELSE pc[q]
        /\ pc[g] = "update" /\ UNCHANGED <<err, returned>>
    BY <2>1 DEF UpdateStatus, goroutines, Workers, IndInv, TypeOK
  <2>3. Applied' = Applied
    BY <2>2 DEF Applied, Service
  <2> QED BY <2>2, <2>3, <1>1 DEF Ordered!vars
<1>5. CASE \E g \in goroutines : \E m \in todo[g] : Scan(g, m)
  <2>1. PICK g \in goroutines : \E m \in todo[g] : Scan(g, m)
    BY <1>5
  <2>0. PICK m \in todo[g] : Scan(g, m)
    BY <2>1
  <2> DEFINE h == Append(g, m)
  <2>2. h # Root /\ h \notin goroutines
    <3>1. g \in Seq(Services) /\ m \in Services
      BY DEF IndInv, TypeOK, goroutines
    <3>2. h # Root /\ Service(h) = m /\ Parent(h) = g
      BY <3>1, AppendFacts DEF Root
    <3> QED BY <3>2 DEF IndInv, Parentage, Workers
  <2>3. /\ Workers \subseteq Workers' /\ Workers' \subseteq Workers \cup {h}
        /\ \A q \in Workers : pc'[q] = pc[q]
        /\ h \in Workers' => pc'[h] = "fn"
        /\ UNCHANGED <<err, returned>>
    BY <2>0, <2>2 DEF Scan, goroutines, Workers
  <2>4. Applied' = Applied
    BY <2>3 DEF Applied, Service
  <2> QED BY <2>3, <2>4, <1>1 DEF Ordered!vars
<1>6. CASE Visit
  <2>1. Applied = {} /\ Applied' = {} /\ ~returned
    BY <1>6 DEF Visit, Applied, Workers, goroutines
  <2>2. CASE HasCycles
    <3>1. Ordered!Fail
      BY <1>6, <2>1, <2>2, <1>1 DEF Visit, Ordered!Fail
    <3> QED BY <3>1 DEF Ordered!Next
  <2>3. CASE ~HasCycles
    BY <1>6, <2>1, <2>3, <1>1 DEF Visit, Ordered!vars
  <2> QED BY <2>2, <2>3
<1>7. CASE Wait
  <2>1. Applied' = Applied /\ ~returned /\ returned' /\ err' = err
    BY <1>7 DEF Wait, Applied, Workers, goroutines, Service
  <2>2. CASE err
    <3>1. Ordered!Fail
      BY <2>1, <2>2, <1>1 DEF Ordered!Fail
    <3> QED BY <3>1 DEF Ordered!Next
  <2>3. CASE ~err
    <3>1. Applied = Services
      BY <1>7, <2>3, CompleteAtEnd DEF Wait
    <3>2. Ordered!Succeed
      BY <2>1, <2>3, <3>1, <1>1 DEF Ordered!Succeed
    <3> QED BY <3>2 DEF Ordered!Next
  <2> QED BY <2>2, <2>3
<1>8. CASE UNCHANGED vars
  BY <1>8, <1>1 DEF vars, Ordered!vars, Applied, Workers, goroutines, Service
<1> QED BY <1>2, <1>3, <1>4, <1>5, <1>6, <1>7, <1>8
        DEF Next, Progress, WalkOn, Terminated

(* The walk refines the ordered application, its safety part: every step   *)
(* of the goroutines is a step of the abstract machine or invisible to it. *)
THEOREM Refinement == Spec => Ordered!Safety
<1>1. Init => Ordered!Init
  <2> SUFFICES ASSUME Init PROVE Ordered!Init
    OBVIOUS
  <2>1. \A s \in Services : Before(s) \subseteq Services
    BY InitInv, GraphType DEF IndInv
  <2> QED BY <2>1 DEF Init, Ordered!Init, Applied, Workers, goroutines
<1>2. IndInv /\ IndInv' /\ [Next]_vars => [Ordered!Next]_(Ordered!vars)
  BY StepImplements
<1> QED BY <1>1, <1>2, Invariance, PTL DEF Spec, Ordered!Safety

-----------------------------------------------------------------------------
(* Induction over the naturals, for a set of them. *)
LEMMA NatSetInduction ==
  ASSUME NEW T, T \subseteq Nat, 0 \in T, \A n \in T : n + 1 \in T
  PROVE  T = Nat
<1> SUFFICES ASSUME Nat \ T # {} PROVE FALSE
  OBVIOUS
<1>1. PICK x \in Nat \ T : \A y \in Nat \ T : ~(<<y, x>> \in OpToRel(<, Nat))
  <2>1. Nat \ T \subseteq Nat
    OBVIOUS
  <2> QED BY <2>1, NatLessThanWellFounded, WFMin
<1>2. x # 0 /\ x - 1 \in Nat /\ (x - 1) + 1 = x
  <2>1. x \in Nat /\ x # 0
    OBVIOUS
  <2> QED BY <2>1
<1>3. x - 1 \in T
  <2>1. SUFFICES ASSUME x - 1 \in Nat \ T PROVE FALSE
    BY <1>2
  <2>2. x - 1 < x /\ x \in Nat /\ x - 1 \in Nat
    BY <1>2
  <2>3. <<x - 1, x>> \in OpToRel(<, Nat)
    BY <2>2 DEF OpToRel
  <2> QED BY <1>1, <2>1, <2>3
<1> QED BY <1>1, <1>2, <1>3

-----------------------------------------------------------------------------
(* What visit finds in a call, given what the calls below find, and how deep *)
(* it can still go: each call adds its key to the path.                      *)
Path(call) == call[2] \cup {call[1]}
Finds(g, call) == \E c \in Children(call[1]) : c \in Path(call) \/ (c \notin finished /\ g[<<c, Path(call)>>])
Depth(call) == 2 * Cardinality(Services \ call[2]) + (IF call[1] \in call[2] THEN 1 ELSE 0)

(* The depth of a call is a number below a bound. *)
LEMMA DepthBound ==
  ASSUME NEW call \in VisitCalls
  PROVE  Depth(call) \in Nat /\ Depth(call) < 2 * Cardinality(Services) + 2 /\ Cardinality(Services) \in Nat
<1>1. IsFiniteSet(Services) /\ Services \ call[2] \in SUBSET Services
  BY ServicesAssumption
<1>2. IsFiniteSet(Services \ call[2]) /\ Cardinality(Services \ call[2]) <= Cardinality(Services)
  BY <1>1, FS_Subset
<1>3. Cardinality(Services) \in Nat /\ Cardinality(Services \ call[2]) \in Nat
  BY <1>1, <1>2, FS_CardinalityType
<1> QED BY <1>2, <1>3 DEF Depth

(* The call for a child that is not on the path is less deep. *)
LEMMA DepthFalls ==
  ASSUME NEW call \in VisitCalls, NEW c \in Services, c \notin Path(call)
  PROVE  <<c, Path(call)>> \in VisitCalls /\ Depth(<<c, Path(call)>>) < Depth(call)
<1>1. PICK k \in Services, P \in SUBSET Services : call = <<k, P>>
  BY DEF VisitCalls
<1>2. call[1] = k /\ call[2] = P /\ Path(call) = P \cup {k}
  BY <1>1 DEF Path
<1>3. <<c, P \cup {k}>> \in VisitCalls
  BY <1>1 DEF VisitCalls
<1> DEFINE Left == Services \ P
<1>4. IsFiniteSet(Left)
  BY ServicesAssumption, FS_Difference
<1>5. PICK n \in Nat : n = Cardinality(Left)
  BY <1>4, FS_CardinalityType
<1>6. Depth(<<c, P \cup {k}>>) = 2 * Cardinality(Services \ (P \cup {k}))
  <2>1. PICK Q : Q = P \cup {k}
    OBVIOUS
  <2>2. <<c, Q>>[1] = c /\ <<c, Q>>[2] = Q /\ c \notin Q
    BY <1>2, <2>1
  <2>3. PICK m \in Nat : m = Cardinality(Services \ Q)
    <3>1. IsFiniteSet(Services \ Q)
      BY ServicesAssumption, FS_Difference
    <3> QED BY <3>1, FS_CardinalityType
  <2>4. Depth(<<c, Q>>) = 2 * m
    BY <2>2, <2>3 DEF Depth
  <2> QED BY <2>1, <2>3, <2>4
<1>7. CASE k \in P
  <2>1. P \cup {k} = P
    BY <1>7
  <2>2. Depth(call) = 2 * n + 1 /\ Depth(<<c, P \cup {k}>>) = 2 * n
    BY <1>2, <1>5, <1>6, <1>7, <2>1 DEF Depth
  <2> QED BY <1>2, <1>3, <2>2
<1>8. CASE k \notin P
  <2>1. Services \ (P \cup {k}) = Left \ {k} /\ k \in Left
    BY <1>8
  <2>2. Cardinality(Left \ {k}) = n - 1
    BY <1>4, <1>5, <2>1, FS_RemoveElement
  <2>3. Depth(call) = 2 * n
    BY <1>2, <1>5, <1>8 DEF Depth
  <2>4. Depth(<<c, P \cup {k}>>) = 2 * (n - 1)
    BY <1>6, <2>1, <2>2
  <2> QED BY <1>2, <1>3, <2>3, <2>4
<1> QED BY <1>7, <1>8

(* Only the calls that are less deep matter. *)
LEMMA FindsBelow ==
  ASSUME NEW g, NEW h, NEW call \in VisitCalls, \A d \in VisitCalls : Depth(d) < Depth(call) => (g[d] <=> h[d])
  PROVE  Finds(g, call) <=> Finds(h, call)
<1>1. Children(call[1]) \subseteq Services
  BY DEF Children
<1>2. ASSUME NEW c \in Children(call[1]) PROVE c \in Path(call) \/ (g[<<c, Path(call)>>] <=> h[<<c, Path(call)>>])
  BY <1>1, DepthFalls
<1> QED BY <1>2 DEF Finds

(* There is a function that finds what visit is to find, for calls of any depth... *)
Founds(n) == \E g : g = [d \in VisitCalls |-> g[d]] /\ \A d \in VisitCalls : Depth(d) < n => g[d] = Finds(g, d)

LEMMA FoundsAll == \A n \in Nat : Founds(n)
<1> DEFINE T == {n \in Nat : Founds(n)}
<1>1. Founds(0)
  <2>1. PICK g : g = [d \in VisitCalls |-> FALSE]
    OBVIOUS
  <2>2. \A d \in VisitCalls : ~(Depth(d) < 0)
    BY DepthBound
  <2> QED BY <2>1, <2>2 DEF Founds
<1>2. ASSUME NEW n \in Nat, Founds(n) PROVE Founds(n + 1)
  <2>1. PICK g : g = [d \in VisitCalls |-> g[d]] /\ \A d \in VisitCalls : Depth(d) < n => g[d] = Finds(g, d)
    BY <1>2 DEF Founds
  <2>2. PICK h : h = [d \in VisitCalls |-> IF Depth(d) = n THEN Finds(g, d) ELSE g[d]]
    OBVIOUS
  <2>3. ASSUME NEW d \in VisitCalls, Depth(d) < n + 1 PROVE h[d] = Finds(h, d)
    <3>1. \A e \in VisitCalls : Depth(e) < Depth(d) => (g[e] <=> h[e])
      BY <2>2, <2>3, DepthBound
    <3>2. Finds(g, d) <=> Finds(h, d)
      BY <3>1, FindsBelow
    <3>3. h[d] = Finds(g, d)
      <4>1. CASE Depth(d) = n
        BY <2>2, <4>1
      <4>2. CASE Depth(d) # n
        <5>1. Depth(d) < n
          BY <2>3, <4>2, DepthBound
        <5> QED BY <2>1, <2>2, <4>2, <5>1
      <4> QED BY <4>1, <4>2
    <3>4. Finds(g, d) = Finds(h, d)
      BY <3>2 DEF Finds
    <3> QED BY <3>3, <3>4
  <2>4. h = [d \in VisitCalls |-> h[d]]
    BY <2>2
  <2> QED BY <2>3, <2>4 DEF Founds
<1>3. 0 \in T /\ (\A n \in T : n + 1 \in T) /\ T \subseteq Nat
  BY <1>1, <1>2
<1> HIDE DEF T
<1>4. T = Nat
  BY <1>3, NatSetInduction
<1> QED BY <1>4 DEF T

(* ... and visit is one. *)
LEMMA VisitFinds == \A call \in VisitCalls : visitFrom[call] = Finds(visitFrom, call)
<1>1. PICK m \in Nat : m = 2 * Cardinality(Services) + 2 /\ \A call \in VisitCalls : Depth(call) < m
  <2>1. Cardinality(Services) \in Nat
    BY ServicesAssumption, FS_CardinalityType
  <2> QED BY <2>1, DepthBound
<1>2. PICK g : g = [d \in VisitCalls |-> g[d]] /\ \A d \in VisitCalls : g[d] = Finds(g, d)
  BY <1>1, FoundsAll DEF Founds
<1>3. g = [call \in VisitCalls |-> Finds(g, call)]
  BY <1>2
<1>4. visitFrom = CHOOSE h : h = [call \in VisitCalls |-> Finds(h, call)]
  BY DEF visitFrom, Finds, Path
<1>5. visitFrom = [call \in VisitCalls |-> Finds(visitFrom, call)]
  BY <1>3, <1>4
<1> QED BY <1>5

-----------------------------------------------------------------------------
(* Reachable holds the children and what they reach. *)
LEMMA ReachableSteps ==
  ASSUME NEW s \in Services, NEW c \in Children(s)
  PROVE  c \in Services /\ c \in Reachable(s) /\ Reachable(c) \subseteq Reachable(s)
<1>1. c \in Services /\ c \in Reachable(s)
  BY DEF Children, Reachable
<1>2. ASSUME NEW t \in Reachable(c) PROVE t \in Reachable(s)
  <2>1. ASSUME NEW S \in SUBSET Services, Children(s) \subseteq S, \A u \in S : Children(u) \subseteq S PROVE t \in S
    <3>1. c \in S /\ Children(c) \subseteq S
      BY <2>1
    <3> QED BY <1>2, <2>1, <3>1 DEF Reachable
  <2>2. t \in Services
    BY <1>2 DEF Reachable
  <2> QED BY <2>1, <2>2 DEF Reachable
<1> QED BY <1>1, <1>2

Cyclic == \E s \in Services : s \in Reachable(s)

(* A call finds a cycle, or a way back to the path of its caller. *)
LEMMA VisitSound ==
  ASSUME NEW call \in VisitCalls, visitFrom[call]
  PROVE  Cyclic \/ \E p \in call[2] : p \in Reachable(call[1])
<1> DEFINE Right(d) == visitFrom[d] => Cyclic \/ \E p \in d[2] : p \in Reachable(d[1])
           T == {n \in Nat : \A d \in VisitCalls : Depth(d) < n => Right(d)}
<1>1. 0 \in T
  BY DepthBound
<1>2. ASSUME NEW n \in T PROVE n + 1 \in T
  <2>1. SUFFICES ASSUME NEW d \in VisitCalls, Depth(d) < n + 1, visitFrom[d], ~Cyclic PROVE \E p \in d[2] : p \in Reachable(d[1])
    OBVIOUS
  <2>2. PICK k \in Services, P \in SUBSET Services : d = <<k, P>> /\ d[1] = k /\ d[2] = P
    BY DEF VisitCalls
  <2>3. PICK c \in Children(k) : c \in P \cup {k} \/ visitFrom[<<c, P \cup {k}>>]
    BY <2>1, <2>2, VisitFinds DEF Finds, Path
  <2>4. c \in Services /\ c \in Reachable(k) /\ Reachable(c) \subseteq Reachable(k)
    BY ReachableSteps
  <2>5. CASE c \in P \cup {k}
    BY <2>1, <2>2, <2>4, <2>5 DEF Cyclic
  <2>6. CASE c \notin P \cup {k}
    <3> DEFINE Q == P \cup {k}
               e == <<c, Q>>
    <3>1. e = <<c, P \cup {k}>> /\ e[1] = c /\ e[2] = P \cup {k}
      OBVIOUS
    <3> HIDE DEF e
    <3>2. e \in VisitCalls /\ Depth(e) < Depth(d)
      BY <2>2, <2>4, <2>6, <3>1, DepthFalls DEF Path
    <3>3. Depth(e) < n
      BY <2>1, <3>2, DepthBound
    <3>4. Right(e) /\ visitFrom[e]
      BY <1>2, <2>3, <2>6, <3>1, <3>2, <3>3
    <3>5. PICK p \in P \cup {k} : p \in Reachable(c)
      BY <2>1, <3>1, <3>4
    <3> QED BY <2>1, <2>2, <2>4, <3>5 DEF Cyclic
  <2> QED BY <2>5, <2>6
<1>3. T \subseteq Nat
  OBVIOUS
<1>4. Depth(call) + 1 \in Nat /\ Depth(call) < Depth(call) + 1
  BY DepthBound
<1> HIDE DEF T
<1>5. T = Nat
  BY <1>1, <1>2, <1>3, NatSetInduction
<1>6. Depth(call) + 1 \in T
  BY <1>4, <1>5
<1> QED BY <1>4, <1>6 DEF T

(* The vertices from which a walk need never end. *)
Endless == UNION {S \in SUBSET Services : \A s \in S : Children(s) \cap S # {}}

(* Such a vertex has such a child. *)
LEMMA EndlessChild ==
  ASSUME NEW s \in Endless
  PROVE  s \in Services /\ \E c \in Children(s) : c \in Endless /\ c \in Services
<1>1. PICK S \in SUBSET Services : s \in S /\ \A t \in S : Children(t) \cap S # {}
  BY DEF Endless
<1>2. PICK c \in Children(s) : c \in S
  BY <1>1
<1> QED BY <1>1, <1>2 DEF Endless

(* A call for such a vertex fails, where none of them is finished. *)
LEMMA VisitComplete ==
  ASSUME finished \cap Endless = {}, NEW call \in VisitCalls, call[1] \in Endless
  PROVE  visitFrom[call]
<1> DEFINE T == {n \in Nat : \A d \in VisitCalls : Depth(d) < n /\ d[1] \in Endless => visitFrom[d]}
<1>1. 0 \in T
  BY DepthBound
<1>2. ASSUME NEW n \in T PROVE n + 1 \in T
  <2>1. SUFFICES ASSUME NEW d \in VisitCalls, Depth(d) < n + 1, d[1] \in Endless PROVE visitFrom[d]
    OBVIOUS
  <2>2. PICK k \in Services, P \in SUBSET Services : d = <<k, P>> /\ d[1] = k /\ d[2] = P
    BY DEF VisitCalls
  <2>3. PICK c \in Children(k) : c \in Endless /\ c \in Services
    BY <2>1, <2>2, EndlessChild
  <2>4. c \notin finished
    BY <2>3
  <2>5. CASE c \in P \cup {k}
    BY <2>2, <2>5, VisitFinds DEF Finds, Path
  <2>6. CASE c \notin P \cup {k}
    <3> DEFINE Q == P \cup {k}
               e == <<c, Q>>
    <3>1. e = <<c, P \cup {k}>> /\ e[1] = c /\ e[2] = P \cup {k}
      OBVIOUS
    <3> HIDE DEF e
    <3>2. e \in VisitCalls /\ Depth(e) < Depth(d)
      BY <2>2, <2>3, <2>6, <3>1, DepthFalls DEF Path
    <3>3. Depth(e) < n
      BY <2>1, <3>2, DepthBound
    <3>4. visitFrom[e]
      BY <1>2, <2>3, <3>1, <3>2, <3>3
    <3>5. Finds(visitFrom, d)
      BY <2>2, <2>3, <2>4, <3>1, <3>4 DEF Finds, Path
    <3> QED BY <3>5, VisitFinds
  <2> QED BY <2>5, <2>6
<1>3. T \subseteq Nat
  OBVIOUS
<1>4. Depth(call) + 1 \in Nat /\ Depth(call) < Depth(call) + 1
  BY DepthBound
<1> HIDE DEF T
<1>5. T = Nat
  BY <1>1, <1>2, <1>3, NatSetInduction
<1>6. Depth(call) + 1 \in T
  BY <1>4, <1>5
<1> QED BY <1>4, <1>6 DEF T

(* Where no walk is endless, every set of services has a vertex without a parent in it. *)
LEMMA SourceExists ==
  ASSUME Endless = {}, NEW S \in SUBSET Services, S # {}
  PROVE  \E s \in S : Parents(s) \cap S = {}
<1> DEFINE Source(U) == U # {} => \E s \in U : Parents(s) \cap U = {}
           T == {n \in Nat : \A U \in SUBSET Services : Cardinality(U) = n => Source(U)}
<1>1. ASSUME NEW U \in SUBSET Services PROVE IsFiniteSet(U) /\ Cardinality(U) \in Nat
  <2>1. IsFiniteSet(U)
    BY ServicesAssumption, FS_Subset
  <2> QED BY <2>1, FS_CardinalityType
<1>2. 0 \in T
  BY <1>1, FS_EmptySet
<1>3. ASSUME NEW n \in T PROVE n + 1 \in T
  <2>1. SUFFICES ASSUME NEW U \in SUBSET Services, Cardinality(U) = n + 1, U # {} PROVE \E s \in U : Parents(s) \cap U = {}
    OBVIOUS
  <2>2. PICK t \in U : Children(t) \cap U = {}
    BY <2>1 DEF Endless
  <2>3. PICK V \in SUBSET Services : V = U \ {t}
    BY <2>1
  <2>4. Cardinality(V) = n
    BY <1>1, <2>1, <2>2, <2>3, FS_RemoveElement
  <2>5. ASSUME NEW u \in U PROVE t \notin Parents(u)
    BY <2>1, <2>2, <2>5 DEF Children, Parents
  <2>6. CASE V = {}
    BY <2>2, <2>3, <2>5, <2>6
  <2>7. CASE V # {}
    <3>1. PICK s \in V : Parents(s) \cap V = {}
      BY <1>3, <2>4, <2>7
    <3> QED BY <2>3, <2>5, <3>1
  <2> QED BY <2>6, <2>7
<1>4. T \subseteq Nat
  OBVIOUS
<1> HIDE DEF T
<1>5. T = Nat
  BY <1>2, <1>3, <1>4, NatSetInduction
<1>6. Cardinality(S) \in T
  BY <1>1, <1>5
<1> QED BY <1>6 DEF T

(* A graph without endless walks has no cycles. *)
LEMMA NoneEndless == Endless = {} => ~HasCycles
<1> SUFFICES ASSUME Endless = {}, NEW S \in (SUBSET Services) \ {{}},
                    (\A s \in S : Children(s) \cap S # {}) \/ (\A s \in S : Parents(s) \cap S # {})
             PROVE  FALSE
  BY DEF HasCycles
<1>1. ~(\A s \in S : Children(s) \cap S # {})
  BY DEF Endless
<1>2. ~(\A s \in S : Parents(s) \cap S # {})
  BY SourceExists
<1> QED BY <1>1, <1>2

-----------------------------------------------------------------------------
(* Between two turns nothing is on a path, and no vertex that is finished *)
(* begins an endless walk.                                                *)
SearchInv ==
  /\ verdict \in {"pending", "cycle", "none"}
  /\ verdict = "pending" => /\ discovered = {} /\ finished \cap Endless = {}
                           /\ Services \subseteq unseen \cup finished
  /\ CyclesFound

(* The search refuses a project if, and only if, its graph has a cycle. *)
THEOREM CyclesAreFound == SearchSpec => []CyclesFound
<1>1. SearchInit => SearchInv
  BY DEF SearchInit, SearchInv, CyclesFound
<1>2. SearchInv /\ [SearchNext]_searchVars => SearchInv'
  <2> SUFFICES ASSUME SearchInv, [SearchNext]_searchVars PROVE SearchInv'
    OBVIOUS
  <2>1. dependsOn' = dependsOn
    BY DEF SearchNext, EndOfLoop, Turn, searchVars
  <2>2. HasCycles' = HasCycles /\ Endless' = Endless /\ Cyclic' = Cyclic
    BY <2>1 DEF HasCycles, Endless, Cyclic, Reachable, Children, Parents
  <2>3. CASE EndOfLoop
    <3>1. verdict = "pending" /\ unseen = {} /\ verdict' = "none"
      BY <2>3 DEF EndOfLoop
    <3>2. Endless = {}
      <4>1. Services \cap Endless = {}
        BY <3>1 DEF SearchInv
      <4> QED BY <4>1, EndlessChild
    <3>3. ~HasCycles'
      BY <2>2, <3>2, NoneEndless
    <3> QED BY <3>1, <3>3 DEF SearchInv, CyclesFound
  <2>4. ASSUME NEW v \in Services, Turn(v) PROVE SearchInv'
    <3>1. /\ verdict = "pending" /\ unseen' = unseen \ {v} /\ discovered = {} /\ finished \cap Endless = {}
          /\ Services \subseteq unseen \cup finished
      BY <2>4 DEF Turn, SearchInv
    <3> DEFINE call == <<v, {}>>
    <3>2. call = <<v, {}>> /\ call[1] = v /\ call[2] = {}
      OBVIOUS
    <3> HIDE DEF call
    <3>3. call \in VisitCalls
      BY <3>2 DEF VisitCalls
    <3>4. VisitFails(v, discovered) = visitFrom[call]
      BY <3>1, <3>2 DEF VisitFails
    <3>5. CASE v \notin finished /\ visitFrom[call]
      <4>1. verdict' = "cycle"
        BY <2>4, <3>1, <3>4, <3>5 DEF Turn
      <4>2. Cyclic'
        BY <2>2, <3>2, <3>3, <3>5, VisitSound
      <4> QED BY <4>1, <4>2 DEF SearchInv, CyclesFound, Cyclic
    <3>6. CASE v \notin finished /\ ~visitFrom[call]
      <4>1. verdict' = "pending" /\ discovered' = {} /\ finished' = finished \cup {v}
        BY <2>4, <3>1, <3>4, <3>6 DEF Turn
      <4>2. v \notin Endless
        BY <3>1, <3>2, <3>3, <3>6, VisitComplete
      <4> QED BY <2>2, <3>1, <4>1, <4>2 DEF SearchInv, CyclesFound
    <3>7. CASE v \in finished
      <4>1. verdict' = "pending" /\ discovered' = {} /\ finished' = finished
        BY <2>4, <3>1, <3>7 DEF Turn
      <4> QED BY <2>2, <3>1, <3>7, <4>1 DEF SearchInv, CyclesFound
    <3> QED BY <3>5, <3>6, <3>7
  <2>5. CASE UNCHANGED searchVars
    <3>1. UNCHANGED <<unseen, discovered, finished, verdict>>
      BY <2>5 DEF searchVars
    <3> QED BY <2>2, <3>1 DEF SearchInv, CyclesFound, Cyclic
  <2> QED BY <2>3, <2>4, <2>5 DEF SearchNext
<1>3. SearchInv => CyclesFound
  BY DEF SearchInv
<1> QED BY <1>1, <1>2, <1>3, PTL DEF SearchSpec
=============================================================================
