------------------------- MODULE ComposeDown_proofs -------------------------
(***************************************************************************)
(* Proofs about Down, for any project, containers, networks and options    *)
(* and any faults of the engine, on a build that does not tear reads of    *)
(* the shared slice.                                                       *)
(***************************************************************************)
EXTENDS ComposeDown, DependencyTraversal_proofs

(* The containers a call of removeContainers answers for.                  *)
Charge(g) == IF g = Root THEN Containers ELSE Of(Service(g))

Calls == [at : {"loop", "wait", "woken", "reap", "assign", "end"},
          mine : SUBSET Containers, others : SUBSET Containers,
          started : SUBSET Containers, failed : BOOLEAN]

(* The locals of the calls, and how they follow the walk.                  *)
CallShape ==
  /\ direction = "down"
  /\ engine \in [Containers -> {"running", "stopped", "removed"}]
  /\ containers \subseteq Containers /\ egErr \in BOOLEAN
  /\ visit \in [DOMAIN visit -> Calls]
  /\ \A g \in DOMAIN visit :
       /\ g \in Workers \/ (g = Root /\ returned /\ phase \notin {"list", "walk"})
       /\ visit[g].started \subseteq visit[g].mine /\ visit[g].mine \subseteq Charge(g)
       /\ visit[g].at # "loop" => visit[g].started = visit[g].mine
       /\ g \in Workers => (visit[g].at = "end" <=> pc[g] # "fn")
  /\ \A g \in Workers : pc[g] # "fn" =>
       g \in DOMAIN visit /\ (pc[g] # "failed" => ~visit[g].failed)

(* The removals that the calls have started.                               *)
RemovalShape ==
  /\ removal \in [DOMAIN removal -> {"stop", "remove", "done"}]
  /\ \A t \in DOMAIN removal :
       t = <<t[1], t[2]>> /\ t[1] \in DOMAIN visit /\ t[2] \in visit[t[1]].started
  /\ \A g \in DOMAIN visit : \A c \in visit[g].started : <<g, c>> \in DOMAIN removal

(* What Down is doing, and where the walk is.                              *)
PhaseShape ==
  /\ phase \in {"list", "walk", "orphans", "wait", "networkList", "networks", "end"}
  /\ phase = "end" <=> result # "none"
  /\ phase = "list" => goroutines = {} /\ ~returned
  /\ phase \notin {"list", "walk", "end"} => returned
  /\ phase = "orphans" => Root \in DOMAIN visit
  /\ phase \in {"networkList", "networks"} \/ result = "ok" \/ networks # Networks =>
       returned /\ ~err
  /\ networks # Networks => phase \in {"networks", "end"}
  /\ phase = "networks" => egErr \/ networks \subseteq pending
  /\ result = "ok" => networks = {}
  /\ (phase \in {"wait", "networkList", "networks"} \/ result = "ok") /\ RemoveOrphans =>
       Root \in DOMAIN visit /\ visit[Root].at = "end" /\ ~visit[Root].failed

(* A removal that has ended did remove its container, or left its error in *)
(* the errgroup; a call past eg.Wait has no removal left under way.        *)
RemovalsEnd ==
  /\ \A t \in DOMAIN removal : removal[t] = "done" => egErr \/ engine[t[2]] = "removed"
  /\ \A g \in DOMAIN visit : visit[g].at \in {"woken", "reap", "assign", "end"} =>
       \A c \in visit[g].mine : removal[<<g, c>>] = "done"

(* As long as no removal has failed, a container that exists is in the     *)
(* slice and in the hands of every call under way, whichever of them       *)
(* overwrites the slice next.                                              *)
StillHeld ==
  phase \notin {"list", "end"} /\ ~egErr =>
    \A c \in Containers : engine[c] # "removed" =>
      /\ c \in containers
      /\ \A g \in DOMAIN visit : visit[g].at # "end" =>
           c \in IF c \in Charge(g) THEN visit[g].mine ELSE visit[g].others

(* A call whose eg.Wait returned nil leaves nothing it answers for.        *)
ReapedGone ==
  \A g \in DOMAIN visit : visit[g].at \in {"assign", "end"} /\ ~visit[g].failed => Gone(Charge(g))

DownInv ==
  IndInv /\ CallShape /\ RemovalShape /\ PhaseShape /\ RemovalsEnd /\ StillHeld /\ ReapedGone

-----------------------------------------------------------------------------
(* A step that leaves the walk alone keeps what is defined from it.        *)
LEMMA IdleFacts ==
  ASSUME DownInv, UNCHANGED vars
  PROVE  /\ IndInv' /\ Workers' = Workers /\ goroutines' = goroutines
         /\ Applied' = Applied /\ pc' = pc /\ returned' = returned /\ err' = err
         /\ direction' = direction
         /\ \A g : Charge(g)' = Charge(g)
BY WalkIdle DEF DownInv, vars, Charge, Service

(* Before the listing there is nothing to keep track of.                   *)
LEMMA DownInitInv == DownInit => DownInv
<1> SUFFICES ASSUME DownInit PROVE DownInv
  OBVIOUS
<1>1. IndInv /\ goroutines = {} /\ Workers = {} /\ ~returned
  BY InitInv DEF DownInit, Init, goroutines, Workers
<1>2. CallShape
  BY <1>1 DEF DownInit, CallShape
<1>3. RemovalShape /\ PhaseShape /\ RemovalsEnd /\ StillHeld /\ ReapedGone
  BY <1>1 DEF DownInit, RemovalShape, PhaseShape, RemovalsEnd, StillHeld, ReapedGone
<1> QED BY <1>1, <1>2, <1>3 DEF DownInv

(* The steps of Down itself that touch neither containers nor calls.       *)
LEMMA DownStepsInv ==
  ASSUME DownInv,
         \/ List \/ ListingFails \/ WaitAll \/ NetworkList \/ DownReturns
         \/ \E n \in Networks : NetworkRemove(n) \/ NetworkRemoveFails(n)
  PROVE  DownInv'
<1>1. /\ UNCHANGED vars /\ UNCHANGED <<options, engine, visit, removal>> /\ phase # "end"
      /\ egErr => egErr'
  BY DEF List, ListingFails, WaitAll, NetworkList, DownReturns, NetworkRemove,
         NetworkRemoveFails, DownInv, PhaseShape, Running
<1>2. /\ IndInv' /\ Workers' = Workers /\ goroutines' = goroutines
      /\ pc' = pc /\ returned' = returned /\ err' = err /\ direction' = direction
      /\ \A g : Charge(g)' = Charge(g)
  BY <1>1, IdleFacts
<1>3. /\ egErr' \in BOOLEAN /\ containers' \subseteq Containers
      /\ phase' = "walk" => phase = "list"
      /\ phase' # "list"
  BY <1>1 DEF List, ListingFails, WaitAll, NetworkList, DownReturns, NetworkRemove,
              NetworkRemoveFails, DownInv, CallShape, PhaseShape, Running
<1>4. \A g \in DOMAIN visit : phase = "list" => FALSE
  BY <1>1 DEF DownInv, CallShape, PhaseShape, Workers, Root
<1>5. CallShape'
  BY <1>1, <1>2, <1>3, <1>4 DEF DownInv, CallShape
<1>6. RemovalShape'
  BY <1>1 DEF DownInv, RemovalShape
<1>7. RemovalsEnd' /\ ReapedGone'
  BY <1>1, <1>2 DEF DownInv, RemovalsEnd, ReapedGone, Gone
<1>8. StillHeld'
  <2>1. CASE List
    BY <2>1, <1>1, <1>2, <1>4 DEF List, StillHeld
  <2>2. CASE ~List
    <3>1. (containers' = containers /\ phase # "list") \/ phase' = "end"
      BY <2>2 DEF ListingFails, WaitAll, NetworkList, DownReturns, NetworkRemove,
                  NetworkRemoveFails
    <3> QED BY <3>1, <1>1, <1>2 DEF DownInv, StillHeld
  <2> QED BY <2>1, <2>2
<1>9. PhaseShape'
  <2>1. CASE List \/ ListingFails
    BY <2>1, <1>1, <1>2 DEF List, ListingFails, DownInv, PhaseShape, Running, RemoveOrphans
  <2>2. CASE WaitAll
    BY <2>2, <1>1, <1>2 DEF WaitAll, DownInv, PhaseShape, Running, RemoveOrphans
  <2>3. CASE NetworkList \/ DownReturns
    BY <2>3, <1>1, <1>2 DEF NetworkList, DownReturns, DownInv, PhaseShape, Running, RemoveOrphans
  <2>4. CASE \E n \in Networks : NetworkRemove(n) \/ NetworkRemoveFails(n)
    BY <2>4, <1>1, <1>2 DEF NetworkRemove, NetworkRemoveFails, DownInv, PhaseShape, Running,
                            RemoveOrphans
  <2> QED BY <2>1, <2>2, <2>3, <2>4
<1> QED BY <1>2, <1>5, <1>6, <1>7, <1>8, <1>9 DEF DownInv

(* The walk between calls touches neither the slice nor the engine.        *)
LEMMA DownWalkInv ==
  ASSUME DownInv, Walk
  PROVE  DownInv'
<1>1. /\ UNCHANGED <<options, engine, networks, containers, visit, removal, pending,
                     egErr, phase, result>>
      /\ phase = "walk" /\ WalkOn
  BY DEF Walk, downVars
<1>2. /\ IndInv' /\ direction' = direction /\ ~returned
      /\ Workers \subseteq Workers' /\ Workers \subseteq goroutines
      /\ \A g \in Workers : pc'[g] = pc[g] \/ (pc[g] = "update" /\ pc'[g] = "scan")
      /\ \A g \in Workers' \ Workers : pc'[g] = "fn"
      /\ \A g : Charge(g)' = Charge(g)
  BY <1>1, WalkOnFacts, GraphFixed DEF DownInv, Workers, Charge, Service
<1>3. \A g \in DOMAIN visit : g \in Workers
  BY <1>1 DEF DownInv, CallShape
<1>4. CallShape'
  <2>1. \A g \in Workers : pc[g] = "fn" <=> pc'[g] = "fn"
    BY <1>2
  <2>2. \A g \in Workers' : pc'[g] # "fn" => g \in Workers /\ pc[g] # "fn"
                             /\ (pc'[g] # "failed" => pc[g] # "failed")
    BY <1>2
  <2> QED BY <2>1, <2>2, <1>1, <1>2, <1>3 DEF DownInv, CallShape
<1>5. RemovalShape' /\ RemovalsEnd'
  BY <1>1 DEF DownInv, RemovalShape, RemovalsEnd
<1>6. PhaseShape'
  BY <1>1, <1>2 DEF DownInv, PhaseShape, RemoveOrphans
<1>7. StillHeld' /\ ReapedGone'
  BY <1>1, <1>2 DEF DownInv, StillHeld, ReapedGone, Gone
<1> QED BY <1>2, <1>4, <1>5, <1>6, <1>7 DEF DownInv

(* A visit takes its share of a slice that holds all that still exists.    *)
LEMMA DownVisitStartsInv ==
  ASSUME DownInv, ~TornReads, NEW g \in goroutines, VisitStarts(g)
  PROVE  DownInv'
<1>1. /\ UNCHANGED vars
      /\ UNCHANGED <<options, engine, networks, containers, removal, pending, egErr,
                     phase, result>>
      /\ phase # "end" /\ pc[g] = "fn" /\ g \notin DOMAIN visit
  BY DEF VisitStarts, DownInv, PhaseShape, Running
<1>2. /\ IndInv' /\ Workers' = Workers /\ goroutines' = goroutines
      /\ pc' = pc /\ returned' = returned /\ err' = err /\ direction' = direction
      /\ \A h : Charge(h)' = Charge(h)
  BY <1>1, IdleFacts
<1>3. g \in Workers /\ g # Root /\ Charge(g) = Of(Service(g))
  BY <1>1 DEF DownInv, IndInv, Shape, Workers, Charge
<1> DEFINE call == Call(containers \cap Of(Service(g)), containers \ Of(Service(g)))
<1>4. visit' = Extended(visit, g, call)
  BY DEF VisitStarts, Readings, Split
<1>5. /\ DOMAIN visit' = DOMAIN visit \cup {g} /\ visit'[g] = call
      /\ \A h \in DOMAIN visit : visit'[h] = visit[h]
      /\ visit' \in [DOMAIN visit' -> Calls]
  BY <1>1, <1>4 DEF Extended, DownInv, CallShape, Calls, Call
<1>6. /\ visit'[g].at = "loop" /\ visit'[g].mine = containers \cap Of(Service(g))
      /\ visit'[g].others = containers \ Of(Service(g)) /\ visit'[g].started = {}
  BY <1>5 DEF Call
<1>7. CallShape'
  <2>1. ASSUME NEW h \in DOMAIN visit'
        PROVE  /\ h \in Workers' \/ (h = Root /\ returned' /\ phase' \notin {"list", "walk"})
               /\ visit'[h].started \subseteq visit'[h].mine
               /\ visit'[h].mine \subseteq Charge(h)'
               /\ visit'[h].at # "loop" => visit'[h].started = visit'[h].mine
               /\ h \in Workers' => (visit'[h].at = "end" <=> pc'[h] # "fn")
    <3>1. CASE h = g
      BY <3>1, <1>1, <1>2, <1>3, <1>6
    <3>2. CASE h \in DOMAIN visit
      BY <3>2, <1>1, <1>2, <1>5 DEF DownInv, CallShape
    <3> QED BY <3>1, <3>2, <1>5
  <2>2. \A h \in Workers' : pc'[h] # "fn" =>
          h \in DOMAIN visit' /\ (pc'[h] # "failed" => ~visit'[h].failed)
    BY <1>1, <1>2, <1>5 DEF DownInv, CallShape
  <2> QED BY <2>1, <2>2, <1>1, <1>2, <1>5 DEF DownInv, CallShape
<1>8. RemovalShape'
  BY <1>1, <1>5, <1>6 DEF DownInv, RemovalShape
<1>9. RemovalsEnd' /\ ReapedGone'
  BY <1>1, <1>2, <1>5, <1>6 DEF DownInv, RemovalsEnd, ReapedGone, Gone
<1>10. StillHeld'
  BY <1>1, <1>2, <1>3, <1>5, <1>6 DEF DownInv, StillHeld
<1>11. PhaseShape'
  BY <1>1, <1>2, <1>5 DEF DownInv, PhaseShape, RemoveOrphans
<1> QED BY <1>2, <1>7, <1>8, <1>9, <1>10, <1>11 DEF DownInv

(* One turn of the loop of removeContainers.                               *)
LEMMA StartRemovalInv ==
  ASSUME DownInv, NEW g \in DOMAIN visit, StartRemoval(g)
  PROVE  DownInv'
<1>1. /\ UNCHANGED vars
      /\ UNCHANGED <<options, engine, networks, containers, pending, egErr, phase, result>>
      /\ visit[g].at = "loop"
  BY DEF StartRemoval
<1>2. /\ IndInv' /\ Workers' = Workers /\ goroutines' = goroutines
      /\ pc' = pc /\ returned' = returned /\ err' = err /\ direction' = direction
      /\ \A h : Charge(h)' = Charge(h)
  BY <1>1, IdleFacts
<1>3. PICK c \in Containers :
        /\ c \in visit[g].mine \ visit[g].started
        /\ removal' = Extended(removal, <<g, c>>, "stop")
        /\ visit' = [visit EXCEPT ![g].started = @ \cup {c}]
  BY DEF StartRemoval, IsNext
<1>4. visit[g] \in Calls /\ visit \in [DOMAIN visit -> Calls]
  BY DEF DownInv, CallShape
<1>5. /\ DOMAIN visit' = DOMAIN visit
      /\ visit' \in [DOMAIN visit' -> Calls]
      /\ \A h \in DOMAIN visit :
           /\ visit'[h].at = visit[h].at /\ visit'[h].mine = visit[h].mine
           /\ visit'[h].others = visit[h].others /\ visit'[h].failed = visit[h].failed
           /\ visit'[h].started = visit[h].started \cup IF h = g THEN {c} ELSE {}
  BY <1>3, <1>4 DEF Calls
<1>6. <<g, c>> \notin DOMAIN removal
  BY <1>3 DEF DownInv, RemovalShape
<1>7. /\ DOMAIN removal' = DOMAIN removal \cup {<<g, c>>}
      /\ removal'[<<g, c>>] = "stop"
      /\ \A t \in DOMAIN removal : removal'[t] = removal[t] /\ t # <<g, c>>
      /\ removal' \in [DOMAIN removal' -> {"stop", "remove", "done"}]
  BY <1>3, <1>6 DEF Extended, DownInv, RemovalShape
<1>8. CallShape'
  BY <1>1, <1>2, <1>3, <1>5 DEF DownInv, CallShape
<1>9. RemovalShape'
  <2>1. ASSUME NEW t \in DOMAIN removal'
        PROVE  t = <<t[1], t[2]>> /\ t[1] \in DOMAIN visit' /\ t[2] \in visit'[t[1]].started
    BY <1>5, <1>7 DEF DownInv, RemovalShape
  <2>2. ASSUME NEW h \in DOMAIN visit', NEW d \in visit'[h].started
        PROVE  <<h, d>> \in DOMAIN removal'
    BY <1>5, <1>7 DEF DownInv, RemovalShape
  <2> QED BY <2>1, <2>2, <1>7 DEF RemovalShape
<1>10. RemovalsEnd'
  <2>1. \A t \in DOMAIN removal' : removal'[t] = "done" => egErr' \/ engine'[t[2]] = "removed"
    BY <1>1, <1>7 DEF DownInv, RemovalsEnd
  <2>2. ASSUME NEW h \in DOMAIN visit', visit'[h].at \in {"woken", "reap", "assign", "end"},
               NEW d \in visit'[h].mine
        PROVE  removal'[<<h, d>>] = "done"
    <3>1. removal[<<h, d>>] = "done" /\ <<h, d>> \in DOMAIN removal
      BY <2>2, <1>5 DEF DownInv, RemovalsEnd, RemovalShape, CallShape
    <3> QED BY <3>1, <1>7
  <2> QED BY <2>1, <2>2 DEF RemovalsEnd
<1>11. StillHeld' /\ ReapedGone'
  BY <1>1, <1>2, <1>5 DEF DownInv, StillHeld, ReapedGone, Gone
<1>12. PhaseShape'
  BY <1>1, <1>2, <1>5 DEF DownInv, PhaseShape, RemoveOrphans
<1> QED BY <1>2, <1>8, <1>9, <1>10, <1>11, <1>12 DEF DownInv

(* eg.Wait: the call goes on once no removal is under way, its own among   *)
(* them, and if the errgroup has no error they all did their work.         *)
LEMMA WaitingInv ==
  ASSUME DownInv, NEW g \in DOMAIN visit, StartWait(g) \/ Wake(g) \/ Reap(g)
  PROVE  DownInv'
<1>1. /\ UNCHANGED vars
      /\ UNCHANGED <<options, engine, networks, containers, removal, pending, egErr>>
      /\ Running /\ phase # "end"
  BY DEF StartWait, Wake, Reap, DownInv, PhaseShape, Running
<1>2. /\ IndInv' /\ Workers' = Workers /\ goroutines' = goroutines
      /\ pc' = pc /\ returned' = returned /\ err' = err /\ direction' = direction
      /\ \A h : Charge(h)' = Charge(h)
  BY <1>1, IdleFacts
<1>3. visit[g] \in Calls /\ visit \in [DOMAIN visit -> Calls] /\ egErr \in BOOLEAN
  BY DEF DownInv, CallShape
<1>4. CASE visit' = visit
  <2>1. phase' = "end" /\ result' = "panic"
    BY <1>4, <1>3 DEF StartWait, Wake, Reap, Calls
  <2>2. CallShape' /\ RemovalShape' /\ RemovalsEnd'
    BY <2>1, <1>1, <1>2, <1>4 DEF DownInv, CallShape, RemovalShape, RemovalsEnd
  <2>3. StillHeld' /\ ReapedGone' /\ PhaseShape'
    BY <2>1, <1>1, <1>2, <1>4 DEF DownInv, StillHeld, ReapedGone, Gone, PhaseShape, RemoveOrphans, Running
  <2> QED BY <2>2, <2>3, <1>2 DEF DownInv
<1>5. CASE visit' # visit
  <2>0. UNCHANGED <<phase, result>>
    BY <1>5 DEF StartWait, Wake, Reap
  <2>1. PICK a \in {"wait", "reap", "assign"}, f \in BOOLEAN :
          visit' = [visit EXCEPT ![g] = [visit[g] EXCEPT !.at = a, !.failed = f]]
          /\ (a = "assign" => f = egErr /\ visit[g].at = "reap")
          /\ (a # "assign" => f = visit[g].failed)
          /\ (a = "wait" => visit[g].at = "loop")
          /\ (a = "reap" => visit[g].at \in {"loop", "woken"} /\ Outstanding = {})
          /\ visit[g].started = visit[g].mine
    <3>1. CASE StartWait(g)
      <4> DEFINE a == IF Outstanding = {} THEN "reap" ELSE "wait"
      <4>1. visit' = [visit EXCEPT ![g] = [visit[g] EXCEPT !.at = a, !.failed = visit[g].failed]]
        BY <3>1, <1>3 DEF StartWait, Calls
      <4>2. a \in {"wait", "reap", "assign"} /\ visit[g].failed \in BOOLEAN
        BY <1>3 DEF Calls
      <4> QED BY <3>1, <4>1, <4>2 DEF StartWait
    <3>2. CASE Wake(g)
      <4>1. visit' = [visit EXCEPT ![g] = [visit[g] EXCEPT !.at = "reap", !.failed = visit[g].failed]]
        BY <3>2, <1>3, <1>5 DEF Wake, Calls
      <4>2. "reap" \in {"wait", "reap", "assign"} /\ visit[g].failed \in BOOLEAN
        BY <1>3 DEF Calls
      <4> QED BY <3>2, <4>1, <4>2, <1>5 DEF Wake, DownInv, CallShape
    <3>3. CASE Reap(g)
      <4>1. visit' = [visit EXCEPT ![g] = [visit[g] EXCEPT !.at = "assign", !.failed = egErr]]
        BY <3>3, <1>3 DEF Reap, Calls
      <4>2. "assign" \in {"wait", "reap", "assign"}
        OBVIOUS
      <4> QED BY <3>3, <4>1, <4>2, <1>3 DEF Reap, DownInv, CallShape
    <3> QED BY <3>1, <3>2, <3>3
  <2>2. /\ DOMAIN visit' = DOMAIN visit
        /\ visit' \in [DOMAIN visit' -> Calls]
        /\ \A h \in DOMAIN visit :
             /\ visit'[h].at = IF h = g THEN a ELSE visit[h].at
             /\ visit'[h].failed = IF h = g THEN f ELSE visit[h].failed
             /\ visit'[h].mine = visit[h].mine /\ visit'[h].others = visit[h].others
             /\ visit'[h].started = visit[h].started
    BY <2>1, <1>3 DEF Calls
  <2>3. CallShape'
    BY <1>1, <1>2, <2>0, <2>1, <2>2 DEF DownInv, CallShape
  <2>4. RemovalShape'
    BY <1>1, <2>2 DEF DownInv, RemovalShape
  <2>5. Outstanding = {} => \A c \in visit[g].mine : removal[<<g, c>>] = "done"
    BY <2>1 DEF Outstanding, DownInv, RemovalShape
  <2>6. RemovalsEnd'
    BY <1>1, <2>1, <2>2, <2>5 DEF DownInv, RemovalsEnd
  <2>7. StillHeld'
    BY <1>1, <1>2, <2>0, <2>1, <2>2 DEF DownInv, StillHeld
  <2>8. ASSUME a = "assign", ~f PROVE Gone(Charge(g))
    <3>1. \A c \in visit[g].mine : engine[c] = "removed"
      <4> SUFFICES ASSUME NEW c \in visit[g].mine PROVE engine[c] = "removed"
        OBVIOUS
      <4>1. <<g, c>> \in DOMAIN removal /\ removal[<<g, c>>] = "done" /\ ~egErr
        BY <2>1, <2>8 DEF DownInv, RemovalsEnd, RemovalShape
      <4>2. engine[<<g, c>>[2]] = "removed"
        BY <4>1 DEF DownInv, RemovalsEnd
      <4> QED BY <4>2
    <3>2. phase \notin {"list", "end"}
      BY <1>1 DEF DownInv, CallShape, PhaseShape, Workers
    <3>3. Charge(g) \subseteq Containers
      BY DEF Charge, Of
    <3> QED BY <3>1, <3>2, <3>3, <2>1, <2>8 DEF DownInv, StillHeld, Gone
  <2>9. ReapedGone'
    BY <1>1, <1>2, <2>1, <2>2, <2>8 DEF DownInv, ReapedGone, Gone
  <2>10. PhaseShape'
    BY <1>1, <1>2, <2>0, <2>1, <2>2 DEF DownInv, PhaseShape, RemoveOrphans
  <2> QED BY <1>2, <2>3, <2>4, <2>6, <2>7, <2>9, <2>10 DEF DownInv
<1> QED BY <1>4, <1>5

(* What a visit writes back lacks nothing but the containers of its own    *)
(* service, and those are gone or a removal has failed.                    *)
LEMMA DownVisitEndsInv ==
  ASSUME DownInv, NEW g \in DOMAIN visit, VisitEnds(g)
  PROVE  DownInv'
<1>1. /\ UNCHANGED <<options, engine, networks, removal, pending, egErr, phase, result>>
      /\ containers' = visit[g].others /\ visit[g].at = "assign"
      /\ visit' = [visit EXCEPT ![g].at = "end"]
      /\ IF visit[g].failed THEN FnFails(g) ELSE FnReturns(g)
      /\ g # Root /\ phase # "end"
  BY DEF VisitEnds, DownInv, PhaseShape, Running
<1>2. g \in Workers /\ visit[g] \in Calls /\ visit \in [DOMAIN visit -> Calls]
  BY <1>1 DEF DownInv, CallShape
<1>3. /\ IndInv' /\ direction' = direction /\ ~returned /\ ~returned'
      /\ Workers' = Workers /\ goroutines' = goroutines
      /\ \A q \in Workers :
           pc'[q] = IF q # g THEN pc[q] ELSE IF FnReturns(g) THEN "update" ELSE "failed"
      /\ \A h : Charge(h)' = Charge(h)
  BY <1>1, <1>2, FnFacts, GraphFixed DEF DownInv, Charge, Service
<1>4. FnReturns(g) <=> ~visit[g].failed
  BY <1>1, <1>2, <1>3 DEF FnReturns, FnFails, DownInv, IndInv, TypeOK, Workers
<1>5. /\ DOMAIN visit' = DOMAIN visit
      /\ visit' \in [DOMAIN visit' -> Calls]
      /\ \A h \in DOMAIN visit :
           /\ visit'[h].at = IF h = g THEN "end" ELSE visit[h].at
           /\ visit'[h].failed = visit[h].failed
           /\ visit'[h].mine = visit[h].mine /\ visit'[h].others = visit[h].others
           /\ visit'[h].started = visit[h].started
  BY <1>1, <1>2 DEF Calls
<1>6. phase = "walk" /\ networks = Networks
  BY <1>1, <1>2, <1>3 DEF DownInv, PhaseShape, Workers
<1>7. CallShape'
  <2>1. ASSUME NEW h \in DOMAIN visit'
        PROVE  /\ h \in Workers'
               /\ visit'[h].started \subseteq visit'[h].mine
               /\ visit'[h].mine \subseteq Charge(h)'
               /\ visit'[h].at # "loop" => visit'[h].started = visit'[h].mine
               /\ visit'[h].at = "end" <=> pc'[h] # "fn"
    BY <1>1, <1>2, <1>3, <1>5 DEF DownInv, CallShape
  <2>2. ASSUME NEW h \in Workers', pc'[h] # "fn"
        PROVE  h \in DOMAIN visit' /\ (pc'[h] # "failed" => ~visit'[h].failed)
    BY <2>2, <1>1, <1>2, <1>3, <1>4, <1>5 DEF DownInv, CallShape
  <2>3. containers' \subseteq Containers
    BY <1>1, <1>2 DEF Calls
  <2> QED BY <2>1, <2>2, <2>3, <1>1, <1>3, <1>5 DEF DownInv, CallShape
<1>8. RemovalShape'
  BY <1>1, <1>5 DEF DownInv, RemovalShape
<1>9. RemovalsEnd'
  BY <1>1, <1>5 DEF DownInv, RemovalsEnd
<1>10. ReapedGone'
  BY <1>1, <1>3, <1>5 DEF DownInv, ReapedGone, Gone
<1>11. StillHeld'
  <2> SUFFICES ASSUME ~egErr, NEW c \in Containers, engine[c] # "removed"
               PROVE  /\ c \in visit[g].others
                      /\ \A h \in DOMAIN visit : visit'[h].at # "end" =>
                           c \in IF c \in Charge(h) THEN visit[h].mine ELSE visit[h].others
    BY <1>1, <1>3, <1>5 DEF StillHeld
  <2>1. \A h \in DOMAIN visit : visit[h].at # "end" =>
          c \in IF c \in Charge(h) THEN visit[h].mine ELSE visit[h].others
    BY <1>6 DEF DownInv, StillHeld
  <2>2. c \notin visit[g].mine
    <3>1. SUFFICES ASSUME c \in visit[g].mine PROVE FALSE
      OBVIOUS
    <3>2. <<g, c>> \in DOMAIN removal /\ removal[<<g, c>>] = "done"
      BY <3>1, <1>1 DEF DownInv, RemovalsEnd, RemovalShape, CallShape
    <3>3. engine[<<g, c>>[2]] = "removed"
      BY <3>2 DEF DownInv, RemovalsEnd
    <3> QED BY <3>3
  <2> QED BY <2>1, <2>2, <1>1, <1>5
<1>12. PhaseShape'
  BY <1>1, <1>3, <1>6 DEF DownInv, PhaseShape, RemoveOrphans
<1> QED BY <1>3, <1>7, <1>8, <1>9, <1>10, <1>11, <1>12 DEF DownInv

(* A removal stops a container that exists: its own or a later one.        *)
LEMMA DownContainerStopInv ==
  ASSUME DownInv, NEW g, NEW toDelete, <<g, toDelete>> \in DOMAIN removal,
         ContainerStop(g, toDelete)
  PROVE  DownInv'
<1>1. /\ UNCHANGED vars
      /\ UNCHANGED <<options, networks, containers, visit, pending, egErr, phase, result>>
      /\ removal[<<g, toDelete>>] = "stop"
      /\ removal' = [removal EXCEPT ![<<g, toDelete>>] = "remove"]
  BY DEF ContainerStop
<1>2. /\ IndInv' /\ Workers' = Workers /\ goroutines' = goroutines
      /\ pc' = pc /\ returned' = returned /\ err' = err /\ direction' = direction
      /\ \A h : Charge(h)' = Charge(h)
  BY <1>1, IdleFacts
<1>3. PICK c : engine[c] # "removed" /\ engine' = [engine EXCEPT ![c] = "stopped"]
  BY DEF ContainerStop
<1>4. /\ engine' \in [Containers -> {"running", "stopped", "removed"}]
      /\ \A d \in Containers : engine'[d] = "removed" <=> engine[d] = "removed"
  BY <1>3 DEF DownInv, CallShape
<1>5. /\ DOMAIN removal' = DOMAIN removal
      /\ removal' \in [DOMAIN removal -> {"stop", "remove", "done"}]
      /\ \A t \in DOMAIN removal : removal'[t] = "done" <=> removal[t] = "done"
  BY <1>1 DEF DownInv, RemovalShape
<1>6. CallShape' /\ RemovalShape'
  BY <1>1, <1>2, <1>4, <1>5 DEF DownInv, CallShape, RemovalShape
<1>7. RemovalsEnd'
  <2>1. \A t \in DOMAIN removal : t[2] \in Containers
    BY DEF DownInv, RemovalShape, CallShape, Calls
  <2>2. \A h \in DOMAIN visit : visit[h].at \in {"woken", "reap", "assign", "end"} =>
          \A d \in visit[h].mine : <<h, d>> \in DOMAIN removal
    BY DEF DownInv, RemovalShape, CallShape
  <2> QED BY <2>1, <2>2, <1>1, <1>4, <1>5 DEF DownInv, RemovalsEnd
<1>8. StillHeld' /\ ReapedGone'
  <2>1. \A h : Charge(h) \subseteq Containers
    BY DEF Charge, Of
  <2> QED BY <2>1, <1>1, <1>2, <1>4 DEF DownInv, StillHeld, ReapedGone, Gone
<1>9. PhaseShape'
  BY <1>1, <1>2 DEF DownInv, PhaseShape, RemoveOrphans
<1> QED BY <1>2, <1>6, <1>7, <1>8, <1>9 DEF DownInv

(* The last removal to end lets the waiting calls go.                      *)
LEMMA ReleaseFacts ==
  ASSUME DownInv, NEW t \in DOMAIN removal, ReleaseWaiters(t)
  PROVE  /\ DOMAIN visit' = DOMAIN visit /\ visit' \in [DOMAIN visit' -> Calls]
         /\ \A h \in DOMAIN visit :
              /\ visit'[h].failed = visit[h].failed /\ visit'[h].started = visit[h].started
              /\ visit'[h].mine = visit[h].mine /\ visit'[h].others = visit[h].others
              /\ \/ visit'[h].at = visit[h].at
                 \/ /\ visit[h].at = "wait" /\ visit'[h].at = "woken"
                    /\ Outstanding \subseteq {t}
<1>1. visit \in [DOMAIN visit -> Calls]
  BY DEF DownInv, CallShape
<1>2. CASE Outstanding \subseteq {t}
  <2>1. visit' = [h \in DOMAIN visit |->
                    IF visit[h].at = "wait" THEN [visit[h] EXCEPT !.at = "woken"] ELSE visit[h]]
    BY <1>2 DEF ReleaseWaiters
  <2> QED BY <2>1, <1>1, <1>2 DEF Calls
<1>3. CASE ~(Outstanding \subseteq {t})
  BY <1>1, <1>3 DEF ReleaseWaiters
<1> QED BY <1>2, <1>3

(* A removal ends: the container is gone, or the errgroup has an error.    *)
LEMMA RemovalEndsInv ==
  ASSUME DownInv, NEW g, NEW toDelete, <<g, toDelete>> \in DOMAIN removal,
         ContainerRemove(g, toDelete) \/ RemovalFails(g, toDelete)
  PROVE  DownInv'
<1> DEFINE t == <<g, toDelete>>
<1>1. /\ UNCHANGED vars
      /\ UNCHANGED <<options, networks, containers, pending, phase, result>>
      /\ removal' = [removal EXCEPT ![t] = "done"]
      /\ ReleaseWaiters(t)
      /\ phase # "end"
      /\ \/ UNCHANGED egErr /\ engine' = [engine EXCEPT ![toDelete] = "removed"]
         \/ egErr' = TRUE /\ UNCHANGED engine
  BY DEF ContainerRemove, RemovalFails, DownInv, PhaseShape, Running
<1>2. /\ IndInv' /\ Workers' = Workers /\ goroutines' = goroutines
      /\ pc' = pc /\ returned' = returned /\ err' = err /\ direction' = direction
      /\ \A h : Charge(h)' = Charge(h) /\ Charge(h) \subseteq Containers
  BY <1>1, IdleFacts DEF Charge, Of
<1>3. /\ DOMAIN visit' = DOMAIN visit /\ visit' \in [DOMAIN visit' -> Calls]
      /\ \A h \in DOMAIN visit :
           /\ visit'[h].failed = visit[h].failed /\ visit'[h].started = visit[h].started
           /\ visit'[h].mine = visit[h].mine /\ visit'[h].others = visit[h].others
           /\ \/ visit'[h].at = visit[h].at
              \/ /\ visit[h].at = "wait" /\ visit'[h].at = "woken"
                 /\ Outstanding \subseteq {t}
  BY <1>1, ReleaseFacts
<1>4. toDelete \in Containers
  <2>1. t[1] \in DOMAIN visit /\ t[2] \in visit[t[1]].started
    BY DEF DownInv, RemovalShape
  <2> QED BY <2>1 DEF DownInv, CallShape, Calls
<1>5. /\ engine' \in [Containers -> {"running", "stopped", "removed"}]
      /\ \A d \in Containers : engine[d] = "removed" => engine'[d] = "removed"
      /\ egErr' \in BOOLEAN
      /\ egErr => egErr'
      /\ egErr' \/ engine'[toDelete] = "removed"
  <2>1. CASE UNCHANGED egErr /\ engine' = [engine EXCEPT ![toDelete] = "removed"]
    BY <2>1, <1>4 DEF DownInv, CallShape
  <2>2. CASE egErr' = TRUE /\ UNCHANGED engine
    BY <2>2 DEF DownInv, CallShape
  <2> QED BY <2>1, <2>2, <1>1
<1>6. /\ DOMAIN removal' = DOMAIN removal
      /\ removal' \in [DOMAIN removal -> {"stop", "remove", "done"}]
      /\ \A u \in DOMAIN removal : removal'[u] = IF u = t THEN "done" ELSE removal[u]
  BY <1>1 DEF DownInv, RemovalShape
<1>7. CallShape'
  BY <1>1, <1>2, <1>3, <1>5 DEF DownInv, CallShape
<1>8. RemovalShape'
  BY <1>3, <1>6 DEF DownInv, RemovalShape
<1>9. RemovalsEnd'
  <2>1. ASSUME NEW u \in DOMAIN removal, removal'[u] = "done"
        PROVE  egErr' \/ engine'[u[2]] = "removed"
    <3>1. u[2] \in Containers
      BY DEF DownInv, RemovalShape, CallShape, Calls
    <3>2. CASE u = t
      BY <3>2, <1>5
    <3>3. CASE u # t
      BY <3>1, <3>3, <2>1, <1>5, <1>6 DEF DownInv, RemovalsEnd
    <3> QED BY <3>2, <3>3
  <2>2. ASSUME NEW h \in DOMAIN visit, visit'[h].at \in {"woken", "reap", "assign", "end"},
               NEW d \in visit[h].mine
        PROVE  removal'[<<h, d>>] = "done"
    <3>1. <<h, d>> \in DOMAIN removal
      BY <2>2, <1>3 DEF DownInv, CallShape, RemovalShape
    <3>2. CASE visit'[h].at = visit[h].at
      BY <3>1, <3>2, <2>2, <1>6 DEF DownInv, RemovalsEnd
    <3>3. CASE Outstanding \subseteq {t}
      BY <3>1, <3>3, <1>6 DEF Outstanding
    <3> QED BY <3>2, <3>3, <1>3
  <2> QED BY <2>1, <2>2, <1>3, <1>6 DEF RemovalsEnd
<1>10. StillHeld'
  BY <1>1, <1>2, <1>3, <1>5 DEF DownInv, StillHeld
<1>11. ReapedGone'
  <2>1. \A h \in DOMAIN visit : visit'[h].at \in {"assign", "end"} => visit[h].at \in {"assign", "end"}
    BY <1>3
  <2> QED BY <2>1, <1>2, <1>3, <1>5 DEF DownInv, ReapedGone, Gone
<1>12. PhaseShape'
  BY <1>1, <1>2, <1>3, <1>5 DEF DownInv, PhaseShape, RemoveOrphans
<1> QED BY <1>2, <1>7, <1>8, <1>9, <1>10, <1>11, <1>12 DEF DownInv

(* After the walk the slice holds all that still exists, unless a removal  *)
(* has failed.                                                             *)
LEMMA OrphansInv ==
  ASSUME DownInv, CleanUpOrphans
  PROVE  DownInv'
<1>1. /\ UNCHANGED vars
      /\ UNCHANGED <<options, engine, networks, containers, removal, pending, egErr, result>>
      /\ phase = "walk" /\ returned
  BY DEF CleanUpOrphans
<1>2. /\ IndInv' /\ Workers' = Workers /\ goroutines' = goroutines
      /\ pc' = pc /\ returned' = returned /\ err' = err /\ direction' = direction
      /\ \A h : Charge(h)' = Charge(h)
  BY <1>1, IdleFacts
<1>3. CASE ~RemoveOrphans
  <2>1. phase' = "wait" /\ visit' = visit
    BY <1>3 DEF CleanUpOrphans
  <2>2. CallShape' /\ RemovalShape' /\ RemovalsEnd'
    BY <2>1, <1>1, <1>2 DEF DownInv, CallShape, RemovalShape, RemovalsEnd
  <2>3. StillHeld' /\ ReapedGone'
    BY <2>1, <1>1, <1>2 DEF DownInv, StillHeld, ReapedGone, Gone
  <2>4. PhaseShape'
    BY <2>1, <1>1, <1>2, <1>3 DEF DownInv, PhaseShape, RemoveOrphans
  <2> QED BY <2>2, <2>3, <2>4, <1>2 DEF DownInv
<1>4. CASE RemoveOrphans
  <2>0. Root \notin DOMAIN visit /\ Root \notin Workers /\ Charge(Root) = Containers
    BY <1>1 DEF DownInv, CallShape, Workers, Charge
  <2>1. phase' = "orphans" /\ visit' = Extended(visit, Root, Call(containers, {}))
    BY <1>4 DEF CleanUpOrphans
  <2>2. /\ DOMAIN visit' = DOMAIN visit \cup {Root} /\ visit'[Root] = Call(containers, {})
        /\ \A h \in DOMAIN visit : visit'[h] = visit[h] /\ h \in Workers
        /\ visit' \in [DOMAIN visit' -> Calls]
    BY <2>0, <2>1, <1>1 DEF Extended, DownInv, CallShape, Calls, Call
  <2>3. /\ visit'[Root].at = "loop" /\ visit'[Root].mine = containers
        /\ visit'[Root].started = {}
    BY <2>2 DEF Call
  <2>4. CallShape'
    <3>1. ASSUME NEW h \in DOMAIN visit'
          PROVE  /\ h \in Workers' \/ (h = Root /\ returned' /\ phase' \notin {"list", "walk"})
                 /\ visit'[h].started \subseteq visit'[h].mine
                 /\ visit'[h].mine \subseteq Charge(h)'
                 /\ visit'[h].at # "loop" => visit'[h].started = visit'[h].mine
                 /\ h \in Workers' => (visit'[h].at = "end" <=> pc'[h] # "fn")
      <4>1. CASE h = Root
        BY <4>1, <1>1, <1>2, <2>0, <2>1, <2>3 DEF DownInv, CallShape
      <4>2. CASE h \in DOMAIN visit
        BY <4>2, <1>1, <1>2, <2>2 DEF DownInv, CallShape
      <4> QED BY <4>1, <4>2, <2>2
    <3>2. \A h \in Workers' : pc'[h] # "fn" =>
            h \in DOMAIN visit' /\ (pc'[h] # "failed" => ~visit'[h].failed)
      BY <1>2, <2>2 DEF DownInv, CallShape
    <3> QED BY <3>1, <3>2, <1>1, <1>2, <2>2 DEF DownInv, CallShape
  <2>5. RemovalShape'
    BY <1>1, <2>2, <2>3 DEF DownInv, RemovalShape
  <2>6. RemovalsEnd' /\ ReapedGone'
    BY <1>1, <1>2, <2>2, <2>3 DEF DownInv, RemovalsEnd, ReapedGone, Gone
  <2>7. StillHeld'
    BY <1>1, <1>2, <2>0, <2>2, <2>3 DEF DownInv, StillHeld
  <2>8. PhaseShape'
    BY <1>1, <1>2, <1>4, <2>1, <2>2 DEF DownInv, PhaseShape, RemoveOrphans
  <2> QED BY <2>4, <2>5, <2>6, <2>7, <2>8, <1>2 DEF DownInv
<1> QED BY <1>3, <1>4

(* The removal of the orphans ends as a visit does.                        *)
LEMMA OrphansCleanedInv ==
  ASSUME DownInv, OrphansCleaned
  PROVE  DownInv'
<1>1. /\ UNCHANGED vars
      /\ UNCHANGED <<options, engine, networks, containers, removal, pending, egErr>>
      /\ phase = "orphans" /\ visit[Root].at = "assign" /\ Running
      /\ visit' = [visit EXCEPT ![Root].at = "end"]
      /\ IF visit[Root].failed THEN phase' = "end" /\ result' = "error"
                               ELSE phase' = "wait" /\ result' = result
  BY DEF OrphansCleaned
<1>2. /\ IndInv' /\ Workers' = Workers /\ goroutines' = goroutines
      /\ pc' = pc /\ returned' = returned /\ err' = err /\ direction' = direction
      /\ \A h : Charge(h)' = Charge(h)
  BY <1>1, IdleFacts
<1>3. visit \in [DOMAIN visit -> Calls] /\ Root \notin Workers /\ returned
  BY <1>1 DEF DownInv, CallShape, Workers, PhaseShape
<1>4. /\ DOMAIN visit' = DOMAIN visit
      /\ visit' \in [DOMAIN visit' -> Calls]
      /\ \A h \in DOMAIN visit :
           /\ visit'[h].at = IF h = Root THEN "end" ELSE visit[h].at
           /\ visit'[h].failed = visit[h].failed
           /\ visit'[h].mine = visit[h].mine /\ visit'[h].others = visit[h].others
           /\ visit'[h].started = visit[h].started
  BY <1>1, <1>3 DEF Calls
<1>5. CallShape'
  BY <1>1, <1>2, <1>3, <1>4 DEF DownInv, CallShape
<1>6. RemovalShape'
  BY <1>1, <1>4 DEF DownInv, RemovalShape
<1>7. RemovalsEnd' /\ ReapedGone'
  BY <1>1, <1>2, <1>4 DEF DownInv, RemovalsEnd, ReapedGone, Gone
<1>8. StillHeld'
  BY <1>1, <1>2, <1>4 DEF DownInv, StillHeld
<1>9. PhaseShape'
  BY <1>1, <1>2, <1>3, <1>4 DEF DownInv, PhaseShape, RemoveOrphans, Running
<1> QED BY <1>2, <1>5, <1>6, <1>7, <1>8, <1>9 DEF DownInv

(* The invariant is inductive.                                             *)
LEMMA DownNextInv ==
  ASSUME DownInv, ~TornReads, [DownNext]_allVars
  PROVE  DownInv'
<1>1. CASE UNCHANGED allVars
  <2>1. /\ UNCHANGED vars
        /\ UNCHANGED <<options, engine, networks, containers, visit, removal, pending, egErr,
                       phase, result>>
    BY <1>1 DEF allVars, downVars
  <2>2. /\ IndInv' /\ Workers' = Workers /\ goroutines' = goroutines
        /\ pc' = pc /\ returned' = returned /\ err' = err /\ direction' = direction
        /\ \A h : Charge(h)' = Charge(h)
    BY <2>1, IdleFacts
  <2>3. CallShape' /\ RemovalShape' /\ RemovalsEnd'
    BY <2>1, <2>2 DEF DownInv, CallShape, RemovalShape, RemovalsEnd
  <2>4. PhaseShape' /\ StillHeld' /\ ReapedGone'
    BY <2>1, <2>2 DEF DownInv, PhaseShape, StillHeld, ReapedGone, Gone, RemoveOrphans
  <2> QED BY <2>2, <2>3, <2>4 DEF DownInv
<1>2. CASE \E t \in DOMAIN removal :
             \/ ContainerStop(t[1], t[2]) \/ ContainerRemove(t[1], t[2])
             \/ RemovalFails(t[1], t[2])
  <2>1. PICK t \in DOMAIN removal :
          \/ ContainerStop(t[1], t[2]) \/ ContainerRemove(t[1], t[2])
          \/ RemovalFails(t[1], t[2])
    BY <1>2
  <2>2. <<t[1], t[2]>> \in DOMAIN removal
    BY DEF DownInv, RemovalShape
  <2> QED BY <2>1, <2>2, DownContainerStopInv, RemovalEndsInv
<1>3. CASE \E g \in DOMAIN visit :
             StartRemoval(g) \/ StartWait(g) \/ Wake(g) \/ Reap(g) \/ VisitEnds(g)
  BY <1>3, StartRemovalInv, WaitingInv, DownVisitEndsInv
<1>4. CASE \E g \in goroutines : VisitStarts(g)
  BY <1>4, DownVisitStartsInv
<1>5. CASE \/ List \/ ListingFails \/ WaitAll \/ NetworkList \/ DownReturns
           \/ \E n \in Networks : NetworkRemove(n) \/ NetworkRemoveFails(n)
  BY <1>5, DownStepsInv
<1> QED BY <1>1, <1>2, <1>3, <1>4, <1>5, DownWalkInv, OrphansInv, OrphansCleanedInv
        DEF DownNext, DownProgress, DownTerminated

(* The invariant holds in every state of every call of Down.               *)
LEMMA DownInvariance ==
  ASSUME ~TornReads
  PROVE  DownSpec => []DownInv
<1>1. DownInv /\ [DownNext]_allVars => DownInv'
  BY DownNextInv
<1> QED BY <1>1, DownInitInv, PTL DEF DownSpec

-----------------------------------------------------------------------------
(* Where fn has succeeded nothing is left.                                 *)
LEMMA AppliedGone ==
  ASSUME DownInv, NEW s \in Applied
  PROVE  Gone(Of(s))
<1>1. PICK g \in Workers : pc[g] \in {"update", "scan"} /\ Service(g) = s
  BY DEF Applied
<1>2. g \in DOMAIN visit /\ visit[g].at = "end" /\ ~visit[g].failed
  BY <1>1 DEF DownInv, CallShape
<1> QED BY <1>1, <1>2 DEF DownInv, ReapedGone, Charge, Workers

(* When Down returns nil all is gone that it was asked to remove, and a    *)
(* network is removed only once every container of the services is         *)
(* (down.go, Down and removeContainers).                                   *)
THEOREM DownRemovesAll ==
  ASSUME ~TornReads
  PROVE  DownSpec => []RemovedInFull
<1>1. DownInv => RemovedInFull
  <2> SUFFICES ASSUME DownInv PROVE RemovedInFull
    OBVIOUS
  <2>1. ASSUME returned, ~err, NEW s \in Services PROVE Gone(Of(s))
    BY <2>1, CompleteFromInv, AppliedGone DEF DownInv, SuccessIsComplete
  <2>2. NetworksLast
    BY <2>1 DEF NetworksLast, DownInv, PhaseShape
  <2>3. ASSUME result = "ok", RemoveOrphans PROVE Gone(Orphans)
    BY <2>3 DEF DownInv, PhaseShape, ReapedGone, Charge, Gone, Orphans
  <2>4. SuccessRemoves
    BY <2>1, <2>3 DEF SuccessRemoves, DownInv, PhaseShape
  <2> QED BY <2>2, <2>4 DEF RemovedInFull
<1> QED BY <1>1, DownInvariance, PTL

(* The walk of Down touches a container of a service only once all those   *)
(* of the services that depend on it are gone (down.go, the function given *)
(* to InReverseDependencyOrder).                                           *)
THEOREM DownIsOrdered ==
  ASSUME ~TornReads
  PROVE  DownSpec => DependentsGoneFirst
<1> DEFINE Ordering ==
      \A s \in Services : \A c \in Of(s) :
        engine'[c] # engine[c] /\ ~returned => \A p \in Parents(s) : Gone(Of(p))
<1>1. DownInv /\ [DownNext]_allVars => [Ordering]_allVars
  <2> SUFFICES ASSUME DownInv, [DownNext]_allVars, NEW s \in Services, NEW c \in Of(s),
                      engine'[c] # engine[c], ~returned, NEW p \in Parents(s)
               PROVE  Gone(Of(p))
    OBVIOUS
  <2>1. PICK t \in DOMAIN removal :
          ContainerStop(t[1], t[2]) \/ ContainerRemove(t[1], t[2])
    BY DEF DownNext, DownProgress, DownTerminated, List, ListingFails, Walk, VisitStarts,
           StartRemoval, StartWait, Wake, Reap, VisitEnds, RemovalFails, CleanUpOrphans,
           OrphansCleaned, WaitAll, NetworkList, NetworkRemove, NetworkRemoveFails,
           DownReturns, allVars, downVars
  <2> DEFINE g == t[1]
  <2>2. g \in DOMAIN visit /\ g \in Workers /\ t[2] \in visit[g].started
        /\ visit[g].started \subseteq Of(Service(g))
    BY DEF DownInv, RemovalShape, CallShape, Charge, Workers
  <2>3. c \in visit[g].started
    <3>1. PICK d \in visit[g].started, e \in {"stopped", "removed"} :
            engine' = [engine EXCEPT ![d] = e]
      BY <2>1, <2>2 DEF ContainerStop, ContainerRemove, Targets
    <3> QED BY <3>1 DEF DownInv, CallShape, Of
  <2>4. p \in Applied
    BY <2>2, <2>3, OrderFromInv DEF DownInv, CallShape, DependencyOrder, Before, Of
  <2> QED BY <2>4, AppliedGone
<1> QED BY <1>1, DownInvariance, PTL DEF DownSpec, DependentsGoneFirst
=============================================================================
