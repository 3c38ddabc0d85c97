------------------------ MODULE ComposeCreate_proofs ------------------------
(***************************************************************************)
(* Proofs about Create, for any project, any containers deployed before,   *)
(* any scale, any faults of the engine and any number of runs, and about   *)
(* what it does before its walk and asks of the engine (ServiceOptions).   *)
(***************************************************************************)
EXTENDS ComposeCreate, ServiceOptions, DependencyTraversal_proofs, FiniteSetTheorems

(* What a listing holds of a container, and what is known of a new one.    *)
Listed == [id : Nat, svc : Names, num : Nat, name : EngineName,
           hash : {"old", "new"}, state : {"created", "running", "exited"}]
Wish   == [svc : Names, num : Nat, name : EngineName]

(* The containers of s in the listing, and how many of them come before c. *)
Mine(s) == {c \in observed : c.svc = s}
Rank(c) == Cardinality({d \in Mine(c.svc) : d.id > c.id})

OptionsType == options \in [scale : [Services -> Nat], named : SUBSET Services,
                            removeOrphans : BOOLEAN, engineFaults : BOOLEAN]

(* Ids are never used again.                                               *)
EngineType ==
  /\ lastId \in Nat
  /\ DOMAIN engine \subseteq 1..lastId
  /\ engine \in [DOMAIN engine -> Container]

(* The listing is of containers that are, or were, in the engine.          *)
ListingFits ==
  /\ observed \subseteq Listed /\ IsFiniteSet(observed)
  /\ \A c \in observed : c.id <= lastId
  /\ \A c, d \in observed : c.id = d.id => c = d
  /\ \A c \in observed : Exists(c.id) => engine[c.id].svc = c.svc

(* A visit loops over containers of its own service, the one that removes  *)
(* orphans over those of none.                                             *)
VisitFits(g, v) ==
  /\ v.next <= Len(v.list) + 1 /\ v.next # 0
  /\ IF g = Root
       THEN \A i \in 1..Len(v.list) : v.list[i].svc \notin Services
       ELSE /\ g \in Workers /\ NewestFirst(Mine(Service(g))) # {}
            /\ \A i \in 1..Len(v.list) : v.list[i].svc = Service(g)
VisitsFit ==
  /\ visit \in [DOMAIN visit -> [list : Seq(observed), next : Nat]]
  /\ \A g \in DOMAIN visit : VisitFits(g, visit[g])

Goroutine ==
  [of : DOMAIN visit, kind : {"create", "recreate", "restart", "trim", "orphan"}, from : Nat,
   snap : observed \cup Wish, pos : Nat, made : Nat, at : {"run", "done", "failed"}]

(* The containers that a goroutine may work on: a goroutine that trims has *)
(* one after the first Scale of its service.                               *)
Charge(r) ==
  /\ r.pos # 0 /\ (r.at = "run" => r.pos <= Len(Calls(r.kind)))
  /\ IF r.kind = "create" THEN r.snap \in Wish ELSE r.snap \in observed
  /\ r.kind = "orphan" => r.of = Root /\ r.snap.svc \notin Services
  /\ r.kind \in {"recreate", "restart", "trim"} => r.of # Root /\ r.snap.svc = Service(r.of)
  /\ r.kind \in {"recreate", "restart", "orphan"} => r.from # 0
  /\ r.kind = "trim" => Scale[r.snap.svc] <= Rank(r.snap)

(* What a goroutine has made is newer than the listing and stays, and one  *)
(* that recreates has made a container when it gets to the removal.        *)
Product(r) ==
  /\ r.made # 0 => /\ Exists(r.made) /\ engine[r.made].svc = r.snap.svc
                   /\ \A c \in observed : c.id < r.made
                   /\ r.pos # 1
  /\ r.kind = "recreate" /\ r.pos >= 4 => r.made # 0

TasksFit ==
  /\ task \in Seq(Goroutine)
  /\ \A t \in DOMAIN task : Charge(task[t]) /\ Product(task[t])
  /\ \A t, u \in DOMAIN task : t # u /\ task[t].made # 0 => task[t].made # task[u].made

(* Of the containers of a service that the listing has, each of the first  *)
(* Scale is in the engine, or there is one that was made in its place.     *)
WantedPresent ==
  \A c \in observed : c.svc \in Services /\ Rank(c) < Scale[c.svc] =>
    Exists(c.id) \/ \E t \in DOMAIN task :
                      task[t].kind = "recreate" /\ task[t].snap = c /\ task[t].made # 0

(* Before the listing nothing is under way.                                *)
NothingYet == phase = "prepare" => observed = {} /\ DOMAIN visit = {} /\ task = <<>>

CreateInv ==
  /\ IndInv /\ OptionsType /\ EngineType /\ ListingFits /\ VisitsFit /\ TasksFit
  /\ WantedPresent /\ NothingYet

-----------------------------------------------------------------------------
(* In the order of the listing, i - 1 containers come before the i-th.     *)
LEMMA RankIsPlace ==
  ASSUME NEW C \in SUBSET Listed, IsFiniteSet(C), NEW f \in NewestFirst(C),
         NEW i \in 1..Cardinality(C)
  PROVE  Cardinality({d \in C : d.id > f[i].id}) = i - 1
<1> DEFINE D == {d \in C : d.id > f[i].id}
           h == [j \in 1..(i - 1) |-> f[j]]
<1>1. Cardinality(C) \in Nat
  BY FS_CardinalityType
<1>2. /\ f \in [1..Cardinality(C) -> C]
      /\ \A c \in C : \E j \in 1..Cardinality(C) : f[j] = c
      /\ \A j, k \in 1..Cardinality(C) : j < k => f[j].id > f[k].id
  BY DEF NewestFirst
<1>3. \A j \in 1..Cardinality(C) : f[j] \in C /\ f[j].id \in Nat
  BY <1>2 DEF Listed
<1>4. \A j \in 1..(i - 1) : j \in 1..Cardinality(C) /\ h[j] = f[j] /\ h[j] \in D
  BY <1>1, <1>2, <1>3
<1>5. \A d \in D : \E j \in 1..(i - 1) : h[j] = d
  <2> SUFFICES ASSUME NEW d \in D PROVE \E j \in 1..(i - 1) : h[j] = d
    OBVIOUS
  <2>1. PICK j \in 1..Cardinality(C) : f[j] = d
    BY <1>2
  <2>2. ~(i < j) /\ i # j
    BY <1>2, <1>3, <2>1
  <2>3. j \in 1..(i - 1)
    BY <1>1, <2>2
  <2> QED BY <2>1, <2>3
<1>6. \A j, k \in 1..(i - 1) : h[j] = h[k] => j = k
  <2> SUFFICES ASSUME NEW j \in 1..(i - 1), NEW k \in 1..(i - 1), f[j] = f[k] PROVE j = k
    BY <1>4
  <2>1. ~(j < k) /\ ~(k < j)
    BY <1>2, <1>3, <1>4
  <2> QED BY <1>1, <2>1
<1>7. h \in Bijection(1..(i - 1), D)
  <2>1. h \in [1..(i - 1) -> D]
    BY <1>4
  <2> HIDE DEF D, h
  <2>2. h \in Injection(1..(i - 1), D)
    BY <2>1, <1>6, Zenon DEF Injection, IsInjective
  <2>3. h \in Surjection(1..(i - 1), D)
    BY <2>1, <1>5, Zenon DEF Surjection
  <2> QED BY <2>2, <2>3 DEF Bijection
<1>8. IsFiniteSet(1..(i - 1)) /\ Cardinality(1..(i - 1)) = i - 1
  <2>1. 1 \in Int /\ i - 1 \in Int /\ i - 1 >= 0
    BY <1>1
  <2>2. /\ IsFiniteSet(1..(i - 1))
        /\ Cardinality(1..(i - 1)) = IF 1 > i - 1 THEN 0 ELSE (i - 1) - 1 + 1
    BY <2>1, FS_Interval
  <2> QED BY <2>1, <2>2
<1> HIDE DEF D, h
<1>9. ExistsBijection(1..(i - 1), D)
  BY <1>7 DEF ExistsBijection
<1>10. Cardinality(D) = i - 1
  BY <1>8, <1>9, FS_Bijection
<1> QED BY <1>10 DEF D

(* The container id is c, or was made in its place.                        *)
StandsFor(id, c) ==
  id = c.id \/ \E t \in DOMAIN task :
                 task[t].kind = "recreate" /\ task[t].snap = c /\ task[t].made = id /\ id # 0

(* No container stands for two.                                            *)
LEMMA StandsForOne ==
  ASSUME CreateInv, NEW c \in observed, NEW d \in observed, NEW id,
         StandsFor(id, c), StandsFor(id, d)
  PROVE  c = d
<1>1. \A t \in DOMAIN task : task[t].made # 0 => \A e \in observed : e.id < task[t].made
  BY DEF CreateInv, TasksFit, Product
<1>2. \A e \in observed : e.id \in Nat
  BY DEF CreateInv, ListingFits, Listed
<1>3. CASE id = c.id \/ id = d.id
  <2>1. id = c.id /\ id = d.id
    BY <1>1, <1>2, <1>3 DEF StandsFor
  <2> QED BY <2>1 DEF CreateInv, ListingFits
<1>4. CASE id # c.id /\ id # d.id
  <2>1. PICK t \in DOMAIN task : task[t].snap = c /\ task[t].made = id /\ id # 0
    BY <1>4 DEF StandsFor
  <2>2. PICK u \in DOMAIN task : task[u].snap = d /\ task[u].made = id
    BY <1>4 DEF StandsFor
  <2>3. t = u
    BY <2>1, <2>2 DEF CreateInv, TasksFit
  <2> QED BY <2>1, <2>2, <2>3
<1> QED BY <1>3, <1>4

(* A service whose listing is known has at least as many containers as it  *)
(* had, or as it was asked to have.                                        *)
LEMMA EnoughLeft ==
  ASSUME CreateInv, NEW s \in Services, NewestFirst(Mine(s)) # {}
  PROVE  Cardinality(Of(s)) >= Min({Scale[s], Had(s)})
<1> DEFINE n == Cardinality(Mine(s))
           m == Min({Scale[s], n})
<1>1. PICK f : f \in NewestFirst(Mine(s))
  OBVIOUS
<1>2. Mine(s) \in SUBSET Listed /\ Mine(s) \subseteq observed /\ IsFiniteSet(Mine(s))
  <2>1. Mine(s) \in SUBSET observed /\ observed \subseteq Listed /\ IsFiniteSet(observed)
    BY DEF Mine, CreateInv, ListingFits
  <2> QED BY <2>1, FS_Subset
<1>3. n \in Nat /\ Scale[s] \in Nat
  BY <1>2, FS_CardinalityType DEF CreateInv, OptionsType, Scale
<1>4. m \in Nat /\ m <= n /\ m <= Scale[s]
  <2> HIDE DEF n
  <2> DEFINE k == IF Scale[s] <= n THEN Scale[s] ELSE n
  <2>1. k \in {Scale[s], n} /\ \A y \in {Scale[s], n} : k <= y
    BY <1>3
  <2>2. m \in {Scale[s], n} /\ \A y \in {Scale[s], n} : m <= y
    BY <2>1 DEF Min
  <2> QED BY <1>3, <2>2
<1>5. /\ f \in [1..n -> Mine(s)]
      /\ \A i, j \in 1..n : i < j => f[i].id > f[j].id
  BY <1>1 DEF NewestFirst
<1>6. Of(s) \subseteq 1..lastId /\ IsFiniteSet(Of(s))
  <2>1. Of(s) \in SUBSET (1..lastId) /\ 1 \in Int /\ lastId \in Int
    BY DEF Of, CreateInv, EngineType
  <2>2. IsFiniteSet(1..lastId)
    BY <2>1, FS_Interval
  <2> QED BY <2>1, <2>2, FS_Subset
<1> HIDE DEF n, m
<1>7. \A i \in 1..m : i \in 1..n /\ f[i] \in observed /\ f[i].svc = s /\ Rank(f[i]) = i - 1
  <2> SUFFICES ASSUME NEW i \in 1..m
               PROVE  i \in 1..n /\ f[i] \in observed /\ f[i].svc = s /\ Rank(f[i]) = i - 1
    OBVIOUS
  <2>1. i \in 1..n
    BY <1>3, <1>4
  <2>2. f[i] \in observed /\ f[i].svc = s
    BY <2>1, <1>5 DEF Mine
  <2>3. Cardinality({d \in Mine(s) : d.id > f[i].id}) = i - 1
    BY <2>1, <1>1, <1>2, RankIsPlace DEF n
  <2> QED BY <2>1, <2>2, <2>3 DEF Rank
<1>8. \A i \in 1..m : \E id \in Of(s) : StandsFor(id, f[i])
  <2> SUFFICES ASSUME NEW i \in 1..m PROVE \E id \in Of(s) : StandsFor(id, f[i])
    OBVIOUS
  <2>1. f[i] \in observed /\ f[i].svc = s /\ Rank(f[i]) < Scale[s]
    BY <1>3, <1>4, <1>7
  <2>2. CASE Exists(f[i].id)
    BY <2>1, <2>2 DEF CreateInv, ListingFits, Exists, Of, StandsFor
  <2>3. CASE ~Exists(f[i].id)
    <3>1. PICK t \in DOMAIN task :
            task[t].kind = "recreate" /\ task[t].snap = f[i] /\ task[t].made # 0
      BY <2>1, <2>3 DEF CreateInv, WantedPresent
    <3>2. task[t].made \in Of(s)
      BY <3>1, <2>1 DEF CreateInv, TasksFit, Product, Exists, Of
    <3> QED BY <3>1, <3>2 DEF StandsFor
  <2> QED BY <2>2, <2>3
<1> DEFINE h == [i \in 1..m |-> CHOOSE id \in Of(s) : StandsFor(id, f[i])]
<1>9. \A i \in 1..m : h[i] \in Of(s) /\ StandsFor(h[i], f[i])
  BY <1>8
<1>10. h \in [1..m -> Of(s)]
  BY <1>9
<1> HIDE DEF h
<1>11. \A i, j \in 1..m : h[i] = h[j] => i = j
  <2> SUFFICES ASSUME NEW i \in 1..m, NEW j \in 1..m, h[i] = h[j] PROVE i = j
    OBVIOUS
  <2>1. f[i] = f[j]
    BY <1>7, <1>9, StandsForOne
  <2>2. f[i].id \in Nat /\ i \in 1..n /\ j \in 1..n
    BY <1>7 DEF CreateInv, ListingFits, Listed
  <2>3. ~(i < j) /\ ~(j < i)
    BY <1>5, <2>1, <2>2
  <2> QED BY <1>4, <2>3
<1>12. h \in Injection(1..m, Of(s))
  BY <1>10, <1>11, Zenon DEF Injection, IsInjective
<1>13. Cardinality(1..m) <= Cardinality(Of(s)) /\ Cardinality(Of(s)) \in Nat
  BY <1>6, <1>12, FS_Injection, FS_CardinalityType
<1>14. Cardinality(1..m) = m
  <2>1. 1 \in Int /\ m \in Int /\ m >= 0
    BY <1>4
  <2>2. Cardinality(1..m) = IF 1 > m THEN 0 ELSE m - 1 + 1
    BY <2>1, FS_Interval
  <2> QED BY <2>1, <2>2
<1>15. n = Had(s)
  BY DEF n, Mine, Had
<1> QED BY <1>4, <1>13, <1>14, <1>15 DEF m
-----------------------------------------------------------------------------
(* At first there are only the containers deployed before.                 *)
LEMMA CreateInitInv == CreateInit => CreateInv
<1> SUFFICES ASSUME CreateInit PROVE CreateInv
  OBVIOUS
<1>1. IndInv
  BY InitInv DEF CreateInit
<1>2. PICK c \in Cases : options = c.options /\ engine = c.deployed
  BY DEF CreateInit
<1>3. engine \in Seq(Container) /\ lastId = Len(engine) /\ OptionsType
  BY <1>2, CreateAssumption DEF CreateInit, OptionsType
<1>4. EngineType
  BY <1>3 DEF EngineType
<1>5. observed = {} /\ visit = <<>> /\ task = <<>>
  BY DEF CreateInit
<1>6. ListingFits /\ WantedPresent
  BY <1>5, FS_EmptySet DEF ListingFits, WantedPresent
<1>7. VisitsFit
  BY <1>5 DEF VisitsFit
<1>8. TasksFit
  BY <1>5 DEF TasksFit
<1>9. NothingYet
  BY <1>5 DEF NothingYet
<1> QED BY <1>1, <1>3, <1>4, <1>6, <1>7, <1>8, <1>9 DEF CreateInv

(* What is said of goroutines depends on these variables only.             *)
LEMMA SameJudgement ==
  ASSUME UNCHANGED <<options, engine, observed>>
  PROVE  /\ \A s : Mine(s)' = Mine(s)
         /\ \A c : Rank(c)' = Rank(c)
         /\ \A r : Charge(r)' = Charge(r) /\ Product(r)' = Product(r)
<1>1. \A s : Mine(s)' = Mine(s)
  BY DEF Mine
<1>2. \A c : Rank(c)' = Rank(c)
  BY <1>1 DEF Rank
<1>3. \A r : Charge(r)' = Charge(r)
  BY <1>2 DEF Charge, Scale, Service, Root
<1>4. \A r : Product(r)' = Product(r)
  BY DEF Product, Exists
<1> QED BY <1>1, <1>2, <1>3, <1>4

(* A step of the walk or of Create that touches neither containers nor     *)
(* visits nor goroutines.                                                  *)
LEMMA CreateFrame ==
  ASSUME CreateInv, IndInv', Workers \subseteq Workers',
         UNCHANGED <<options, engine, lastId, observed, visit, task>>,
         phase' # "prepare" \/ phase' = phase
  PROVE  CreateInv'
<1>1. /\ \A s : Mine(s)' = Mine(s)
      /\ \A c : Rank(c)' = Rank(c)
      /\ \A r : Charge(r)' = Charge(r) /\ Product(r)' = Product(r)
  BY SameJudgement
<1>2. OptionsType' /\ EngineType' /\ ListingFits'
  BY DEF CreateInv, OptionsType, EngineType, ListingFits, Exists
<1>3. \A g, v : VisitFits(g, v) => VisitFits(g, v)'
  BY <1>1 DEF VisitFits, Service, Root
<1>4. VisitsFit'
  BY <1>3 DEF CreateInv, VisitsFit
<1>5. TasksFit'
  BY <1>1 DEF CreateInv, TasksFit, Goroutine
<1>6. WantedPresent'
  BY <1>1 DEF CreateInv, WantedPresent, Exists, Scale
<1>7. NothingYet'
  BY DEF CreateInv, NothingYet
<1> QED BY <1>2, <1>4, <1>5, <1>6, <1>7 DEF CreateInv

(* The listing is of what is there.                                        *)
LEMMA PrepareInv == ASSUME CreateInv, Prepare PROVE CreateInv'
<1>1. /\ UNCHANGED vars /\ UNCHANGED <<options, engine, lastId, visit, task>>
      /\ observed' = Listing /\ phase' = "orphans"
      /\ DOMAIN visit = {} /\ task = <<>>
  BY DEF Prepare, CreateInv, NothingYet
<1>2. IndInv'
  BY <1>1, WalkIdle DEF CreateInv
<1>3. OptionsType' /\ EngineType' /\ NothingYet'
  BY <1>1 DEF CreateInv, OptionsType, EngineType, NothingYet
<1>4. \A id \in DOMAIN engine : Snapshot(id) \in Listed /\ Snapshot(id).id = id
                              /\ Snapshot(id).svc = engine[id].svc /\ id <= lastId
  BY DEF CreateInv, EngineType, Snapshot, Listed, Container
<1>5. \A c \in observed' : c \in Listed /\ c.id \in DOMAIN engine /\ c = Snapshot(c.id)
  BY <1>1, <1>4 DEF Listing
<1>6. IsFiniteSet(observed')
  <2>1. DOMAIN engine \in SUBSET (1..lastId) /\ 1 \in Int /\ lastId \in Int
    BY DEF CreateInv, EngineType
  <2>2. IsFiniteSet(DOMAIN engine)
    BY <2>1, FS_Interval, FS_Subset
  <2> DEFINE h == [id \in DOMAIN engine |-> Snapshot(id)]
  <2>3. h \in Surjection(DOMAIN engine, Listing)
    <3>1. h \in [DOMAIN engine -> Listing] /\ \A c \in Listing : \E id \in DOMAIN engine : h[id] = c
      BY DEF Listing
    <3> HIDE DEF h
    <3> QED BY <3>1, Zenon DEF Surjection
  <2> QED BY <1>1, <2>2, <2>3, FS_Surjection
<1>7. ListingFits'
  BY <1>1, <1>4, <1>5, <1>6 DEF ListingFits, Exists
<1>8. VisitsFit' /\ TasksFit'
  BY <1>1 DEF CreateInv, VisitsFit, TasksFit
<1>9. WantedPresent'
  BY <1>1, <1>5 DEF WantedPresent, Exists
<1> QED BY <1>2, <1>3, <1>7, <1>8, <1>9 DEF CreateInv

(* Before a walk begins its invariant says nothing more than its type.     *)
Fresh ==
  /\ TypeOK /\ goroutines = {} /\ status = [s \in Services |-> InitialStatus]
  /\ err = FALSE /\ returned = FALSE

(* So it holds then.                                                       *)
LEMMA FreshWalk == Fresh => IndInv
<1> SUFFICES ASSUME Fresh PROVE IndInv
  OBVIOUS
<1>1. Workers = {}
  BY DEF Fresh, Workers
<1>2. StatusExplained
  BY <1>1, StatusType DEF Fresh, StatusExplained
<1> QED BY <1>1, <1>2 DEF Fresh, IndInv, Shape, Parentage, TodoOrigin, StartedInOrder, Covered, Outcome

(* A new run starts on what the last one has left.                         *)
LEMMA RunAgainInv == ASSUME CreateInv, RunAgain PROVE CreateInv'
<1>1. /\ UNCHANGED <<dependsOn, direction, options, engine, lastId>>
      /\ observed' = {} /\ visit' = <<>> /\ task' = <<>>
  BY DEF RunAgain
<1>2. /\ goroutines' = {} /\ status' = [s \in Services |-> InitialStatus']
      /\ err' = FALSE /\ returned' = FALSE
  BY DEF RunAgain, goroutines, InitialStatus
<1>3. IndInv'
  <2>1. TypeOK'
    <3>1. dependsOn' \in [Services -> SUBSET Names] /\ direction' \in {"up", "down"}
      BY <1>1 DEF CreateInv, IndInv, TypeOK
    <3>2. pc' \in [{} -> {"fn", "update", "scan", "failed"}] /\ todo' \in [{} -> SUBSET Services]
      BY DEF RunAgain
    <3>3. status' \in [Services -> {"stopped", "started"}]
      BY <1>2 DEF InitialStatus
    <3> QED BY <1>2, <3>1, <3>2, <3>3 DEF TypeOK
  <2>2. Fresh'
    BY <1>2, <2>1 DEF Fresh
  <2> QED BY <2>2, FreshWalk, PTL
<1>4. OptionsType' /\ EngineType'
  BY <1>1 DEF CreateInv, OptionsType, EngineType
<1>5. ListingFits' /\ WantedPresent'
  BY <1>1, FS_EmptySet DEF ListingFits, WantedPresent
<1>6. VisitsFit' /\ TasksFit' /\ NothingYet'
  BY <1>1 DEF VisitsFit, TasksFit, NothingYet
<1> QED BY <1>3, <1>4, <1>5, <1>6 DEF CreateInv
-----------------------------------------------------------------------------
(* A step that starts goroutines, and at most one visit.                   *)
LEMMA StartingInv ==
  ASSUME CreateInv, UNCHANGED vars, UNCHANGED <<options, engine, lastId, observed>>,
         phase' # "prepare", DOMAIN visit \subseteq DOMAIN visit',
         visit' \in [DOMAIN visit' -> [list : Seq(observed), next : Nat]],
         \A g \in DOMAIN visit' : VisitFits(g, visit'[g]),
         NEW new \in Seq(Goroutine'), AddTasks(new),
         \A i \in 1..Len(new) : Charge(new[i]) /\ new[i].made = 0 /\ new[i].pos = 1
  PROVE  CreateInv'
<1>1. /\ \A s : Mine(s)' = Mine(s)
      /\ \A c : Rank(c)' = Rank(c)
      /\ \A r : Charge(r)' = Charge(r) /\ Product(r)' = Product(r)
  BY SameJudgement
<1>2. IndInv' /\ Workers' = Workers
  BY WalkIdle DEF CreateInv
<1>3. OptionsType' /\ EngineType' /\ ListingFits' /\ NothingYet'
  BY DEF CreateInv, OptionsType, EngineType, ListingFits, NothingYet, Exists
<1>4. VisitsFit'
  <2>1. \A g, v : VisitFits(g, v) => VisitFits(g, v)'
    BY <1>1, <1>2 DEF VisitFits, Service, Root
  <2> QED BY <2>1 DEF VisitsFit
<1>5. task \in Seq(Goroutine') /\ Len(task) \in Nat /\ Len(new) \in Nat
  <2>1. Goroutine \subseteq Goroutine'
    BY DEF Goroutine
  <2> QED BY <2>1 DEF CreateInv, TasksFit
<1>6. /\ task' \in Seq(Goroutine') /\ DOMAIN task' = 1..(Len(task) + Len(new))
      /\ \A t \in DOMAIN task : t \in DOMAIN task' /\ task'[t] = task[t]
      /\ \A t \in DOMAIN task' \ DOMAIN task :
           t - Len(task) \in 1..Len(new) /\ task'[t] = new[t - Len(task)]
  <2>1. /\ DOMAIN task' = 1..(Len(task) + Len(new))
        /\ \A t \in DOMAIN task' : task'[t] = IF t <= Len(task) THEN task[t] ELSE new[t - Len(task)]
    BY <1>5 DEF AddTasks
  <2>2. \A t \in DOMAIN task' : t > Len(task) => t - Len(task) \in 1..Len(new)
    BY <1>5, <2>1
  <2>3. \A t \in DOMAIN task' : task'[t] \in Goroutine'
    BY <1>5, <2>1, <2>2
  <2>4. task' \in Seq(Goroutine')
    BY <1>5, <2>1, <2>3 DEF AddTasks
  <2> QED BY <1>5, <2>1, <2>2, <2>4
<1>7. \A t \in DOMAIN task' \ DOMAIN task :
        task'[t].made = 0 /\ Charge(task'[t]) /\ Product(task'[t])
  <2> SUFFICES ASSUME NEW t \in DOMAIN task' \ DOMAIN task
               PROVE  task'[t].made = 0 /\ Charge(task'[t]) /\ Product(task'[t])
    OBVIOUS
  <2>1. PICK i \in 1..Len(new) : task'[t] = new[i]
    BY <1>6
  <2> QED BY <2>1 DEF Product
<1>8. TasksFit'
  <2>1. \A t \in DOMAIN task' : Charge(task'[t]) /\ Product(task'[t])
    BY <1>6, <1>7 DEF CreateInv, TasksFit
  <2>2. ASSUME NEW t \in DOMAIN task', NEW u \in DOMAIN task', t # u, task'[t].made # 0
        PROVE  task'[t].made # task'[u].made
    <3>1. t \in DOMAIN task /\ task'[t] = task[t]
      BY <2>2, <1>6, <1>7
    <3>2. CASE u \in DOMAIN task
      BY <3>1, <3>2, <2>2, <1>6 DEF CreateInv, TasksFit
    <3>3. CASE u \notin DOMAIN task
      BY <3>3, <2>2, <1>7
    <3> QED BY <3>2, <3>3
  <2> QED BY <1>1, <1>6, <2>1, <2>2 DEF TasksFit
<1>9. WantedPresent'
  BY <1>1, <1>6 DEF CreateInv, WantedPresent, Exists, Scale
<1> QED BY <1>2, <1>3, <1>4, <1>8, <1>9 DEF CreateInv

(* The containers of the listing in their order are a sequence of them.    *)
LEMMA OrderIsSequence ==
  ASSUME ListingFits, NEW C \in SUBSET observed, NEW f \in NewestFirst(C)
  PROVE  /\ Cardinality(C) \in Nat /\ f \in Seq(C) /\ f \in Seq(observed)
         /\ Len(f) = Cardinality(C) /\ DOMAIN f = 1..Len(f)
         /\ \A i \in 1..Len(f) : f[i] \in C
<1>1. Cardinality(C) \in Nat
  BY FS_Subset, FS_CardinalityType DEF ListingFits
<1>2. f \in [1..Cardinality(C) -> C]
  BY DEF NewestFirst
<1>3. f \in Seq(C) /\ f \in Seq(observed) /\ Len(f) = Cardinality(C)
  BY <1>1, <1>2
<1> QED BY <1>1, <1>2, <1>3

(* A goroutine that is started.                                            *)
LEMMA TaskFacts ==
  ASSUME NEW g, NEW kind, NEW from, NEW snap
  PROVE  LET r == Task(g, kind, from, snap)
         IN  /\ r.of = g /\ r.kind = kind /\ r.from = from /\ r.snap = snap
             /\ r.pos = 1 /\ r.made = 0 /\ r.at = "run"
BY DEF Task

(* A goroutine that creates needs no container.                            *)
LEMMA NewTaskCharge ==
  ASSUME NEW g, NEW w \in Wish
  PROVE  Charge(Task(g, "create", 0, w))
<1>1. PICK r : r = Task(g, "create", 0, w)
  OBVIOUS
<1>2. r.kind = "create" /\ r.snap \in Wish /\ r.pos = 1
  BY <1>1, TaskFacts
<1>3. 1 <= Len(Calls("create"))
  BY DEF Calls
<1>4. r.pos # 0 /\ r.pos <= Len(Calls(r.kind))
  BY <1>2, <1>3
<1>5. r.kind \notin {"recreate", "restart", "trim", "orphan"}
  BY <1>2
<1>6. Charge(r)
  BY <1>2, <1>4, <1>5, Zenon DEF Charge
<1> QED BY <1>1, <1>6

(* The i-th container of a service has i - 1 before it.                    *)
LEMMA RankAt ==
  ASSUME ListingFits, NEW s, NEW f \in NewestFirst(Mine(s)), NEW j \in 1..Cardinality(Mine(s))
  PROVE  Rank(f[j]) = j - 1
<1>1. Mine(s) \in SUBSET Listed /\ IsFiniteSet(Mine(s))
  <2>1. Mine(s) \in SUBSET observed /\ observed \subseteq Listed /\ IsFiniteSet(observed)
    BY DEF Mine, ListingFits
  <2> QED BY <2>1, FS_Subset
<1>2. f[j].svc = s
  BY DEF NewestFirst, Mine
<1>3. Cardinality({d \in Mine(s) : d.id > f[j].id}) = j - 1
  BY <1>1, RankIsPlace
<1> QED BY <1>2, <1>3 DEF Rank

(* The removal of orphans has containers of no service.                    *)
LEMMA RemoveOrphansInv == ASSUME CreateInv, RemoveOrphanContainers PROVE CreateInv'
<1> DEFINE orphans == {c \in observed : c.svc \notin Services}
<1>1. /\ UNCHANGED vars /\ UNCHANGED <<options, engine, lastId, observed>>
      /\ phase = "orphans" /\ Root \notin DOMAIN visit
  BY DEF RemoveOrphanContainers
<1>2. CASE UNCHANGED <<visit, task>> /\ phase' = "walk"
  BY <1>1, <1>2, CreateFrame, WalkIdle DEF CreateInv
<1>3. CASE ~(UNCHANGED <<visit, task>> /\ phase' = "walk")
  <2>1. PICK list \in NewestFirst(orphans) :
          /\ visit' = Extended(visit, Root, [list |-> list, next |-> Len(list) + 1])
          /\ AddTasks([i \in DOMAIN list |-> Task(Root, "orphan", i, list[i])])
          /\ UNCHANGED phase
    BY <1>3 DEF RemoveOrphanContainers
  <2>2. /\ list \in Seq(observed) /\ DOMAIN list = 1..Len(list) /\ Len(list) \in Nat
        /\ \A i \in 1..Len(list) : list[i] \in orphans
    BY OrderIsSequence DEF CreateInv
  <2>3. /\ DOMAIN visit' = DOMAIN visit \cup {Root}
        /\ visit'[Root] = [list |-> list, next |-> Len(list) + 1]
        /\ \A g \in DOMAIN visit : visit'[g] = visit[g]
    BY <1>1, <2>1 DEF Extended
  <2>4. visit' \in [DOMAIN visit' -> [list : Seq(observed), next : Nat]]
    BY <2>1, <2>2, <2>3 DEF Extended, CreateInv, VisitsFit
  <2>5. \A g \in DOMAIN visit' : VisitFits(g, visit'[g])
    <3>1. VisitFits(Root, [list |-> list, next |-> Len(list) + 1])
      BY <2>2 DEF VisitFits
    <3> QED BY <3>1, <2>3 DEF CreateInv, VisitsFit
  <2>6. PICK new : new = [i \in DOMAIN list |-> Task(Root, "orphan", i, list[i])]
    OBVIOUS
  <2>7. Len(new) = Len(list) /\ \A i \in 1..Len(new) : new[i] = Task(Root, "orphan", i, list[i])
    BY <2>2, <2>6
  <2>8. \A i \in 1..Len(new) :
          /\ new[i] \in Goroutine' /\ Charge(new[i]) /\ new[i].made = 0 /\ new[i].pos = 1
    <3> SUFFICES ASSUME NEW i \in 1..Len(new)
                 PROVE  new[i] \in Goroutine' /\ Charge(new[i]) /\ new[i].made = 0 /\ new[i].pos = 1
      OBVIOUS
    <3>1. list[i] \in observed /\ list[i].svc \notin Services /\ i \in Nat /\ i # 0
      BY <2>2, <2>7
    <3>2. new[i] \in Goroutine'
      <4>1. Root \in DOMAIN visit' /\ list[i] \in observed'
        BY <2>3, <3>1, <1>1
      <4>2. PICK x : x = list[i]
        OBVIOUS
      <4>3. Task(Root, "orphan", i, x) \in Goroutine'
        BY <3>1, <4>1, <4>2 DEF Goroutine, Task
      <4> QED BY <2>7, <4>2, <4>3
    <3>3. Len(Calls("orphan")) = 2
      BY DEF Calls
    <3>4. Charge(new[i])
      BY <2>7, <3>1, <3>3, TaskFacts DEF Charge
    <3> QED BY <2>7, <3>2, <3>4, TaskFacts
  <2>9. new \in Seq(Goroutine')
    BY <2>2, <2>6, <2>7, <2>8
  <2> QED BY <1>1, <2>1, <2>3, <2>4, <2>5, <2>6, <2>8, <2>9, StartingInv
<1> QED BY <1>2, <1>3

(* A visit trims from the place Scale + 1 of the listing on, and keeps the *)
(* containers before it.                                                   *)
LEMMA EnsureScaleInv ==
  ASSUME CreateInv, NEW g \in goroutines, EnsureScale(g)
  PROVE  CreateInv'
<1> DEFINE s    == Service(g)
           mine == Mine(s)
           wish(n) == [svc |-> s, num |-> n, name |-> ContainerName(s, n)]
<1>1. /\ UNCHANGED vars /\ UNCHANGED <<options, engine, lastId, observed, phase>>
      /\ phase = "walk" /\ pc[g] = "fn" /\ g \notin DOMAIN visit
  BY DEF EnsureScale
<1>2. g \in Workers /\ g # Root
  BY <1>1 DEF CreateInv, IndInv, Shape, Workers
<1>3. s \in Services /\ s \in Names /\ Scale[s] \in Nat
  BY <1>2, WorkerService, ServicesAssumption DEF CreateInv, IndInv, OptionsType, Scale
<1>4. PICK actual \in NewestFirst(mine), first \in NextNumber(mine) :
        /\ visit' = Extended(visit, g, [list |-> SubSeq(actual, 1, Len(actual) - Surplus(s, Len(actual))),
                                        next |-> 1])
        /\ AddTasks([i \in 1..Missing(s, Len(actual)) |-> Task(g, "create", 0, wish(first + i - 1))] \o
                    [i \in 1..Surplus(s, Len(actual)) |-> Task(g, "trim", 0, actual[Scale[s] + i])])
  BY DEF EnsureScale, Mine
<1>5. /\ mine \in SUBSET observed /\ mine \in SUBSET Listed /\ IsFiniteSet(mine)
      /\ \A c \in mine : c.svc = s /\ c.num \in Nat
  <2>1. mine \in SUBSET observed /\ observed \subseteq Listed /\ IsFiniteSet(observed)
    BY DEF Mine, CreateInv, ListingFits
  <2>2. \A c \in mine : c.svc = s /\ c.num \in Nat
    BY <2>1 DEF Mine, Listed
  <2> QED BY <2>1, <2>2, FS_Subset
<1>6. /\ actual \in Seq(observed) /\ Len(actual) \in Nat /\ Len(actual) = Cardinality(mine)
      /\ \A i \in 1..Len(actual) : actual[i] \in mine
  BY <1>5, OrderIsSequence DEF CreateInv
<1>7. first \in Nat
  BY <1>5 DEF NextNumber
<1> DEFINE n == Len(actual)
           more == Missing(s, n)
           less == Surplus(s, n)
           list == SubSeq(actual, 1, n - less)
<1>8. more \in Nat /\ less \in Nat /\ less <= n /\ (less # 0 => less = n - Scale[s])
  BY <1>3, <1>6 DEF Missing, Surplus
<1> HIDE DEF s, more, less
<1>9. /\ list \in Seq(observed) /\ Len(list) = n - less
      /\ \A i \in 1..Len(list) : list[i] = actual[i]
  BY <1>6, <1>8
<1>10. \A i \in 1..Len(list) : list[i].svc = s
  BY <1>5, <1>6, <1>8, <1>9
<1> HIDE DEF list
<1>11. /\ DOMAIN visit' = DOMAIN visit \cup {g}
       /\ visit'[g] = [list |-> list, next |-> 1]
       /\ \A q \in DOMAIN visit : visit'[q] = visit[q]
  BY <1>1, <1>4 DEF Extended, list, less
<1>12. visit' \in [DOMAIN visit' -> [list : Seq(observed), next : Nat]]
  BY <1>4, <1>9, <1>11 DEF Extended, CreateInv, VisitsFit
<1>13. \A q \in DOMAIN visit' : VisitFits(q, visit'[q])
  <2>1. VisitFits(g, [list |-> list, next |-> 1])
    BY <1>2, <1>4, <1>9, <1>10 DEF VisitFits, s
  <2> QED BY <2>1, <1>11 DEF CreateInv, VisitsFit
<1> DEFINE a == [i \in 1..more |-> Task(g, "create", 0, wish(first + i - 1))]
           b == [i \in 1..less |-> Task(g, "trim", 0, actual[Scale[s] + i])]
           OK(r) == r \in Goroutine' /\ Charge(r) /\ r.made = 0 /\ r.pos = 1
<1>14. \A i \in 1..more : OK(a[i])
  <2> SUFFICES ASSUME NEW i \in 1..more PROVE OK(a[i])
    OBVIOUS
  <2>1. first + i - 1 \in Nat
    BY <1>7, <1>8
  <2>2. wish(first + i - 1) \in Wish
    <3>1. ContainerName(s, first + i - 1) \in EngineName
      BY <2>1, <1>3 DEF ContainerName, EngineName
    <3> QED BY <2>1, <1>3, <3>1 DEF Wish
  <2> DEFINE w == wish(first + i - 1)
  <2>3. a[i] = Task(g, "create", 0, w) /\ w \in Wish
    BY <2>2
  <2> HIDE DEF w, a, b, wish
  <2>4. a[i] \in Goroutine'
    BY <2>3, <1>11 DEF Goroutine, Task
  <2>5. Charge(Task(g, "create", 0, w))
    BY <2>3, NewTaskCharge
  <2> QED BY <2>3, <2>4, <2>5, TaskFacts
<1>15. \A i \in 1..less : OK(b[i])
  <2> SUFFICES ASSUME NEW i \in 1..less PROVE OK(b[i])
    OBVIOUS
  <2>1. Scale[s] + i \in 1..n
    BY <1>3, <1>6, <1>8
  <2>2. PICK c \in observed : c = actual[Scale[s] + i] /\ c.svc = s
    BY <2>1, <1>5, <1>6
  <2>3. b[i] = Task(g, "trim", 0, c)
    BY <2>2
  <2>4. b[i] \in Goroutine'
    BY <2>2, <2>3, <1>1, <1>11 DEF Goroutine, Task
  <2>5. 1 <= Len(Calls("trim"))
    BY DEF Calls
  <2>6. PICK j \in 1..n : j = Scale[s] + i
    BY <2>1
  <2>7. Scale[c.svc] <= Rank(c)
    <3>1. actual \in NewestFirst(Mine(s)) /\ j \in 1..Cardinality(Mine(s)) /\ actual[j] = c
      BY <1>4, <1>6, <2>2, <2>6
    <3>2. Rank(c) = j - 1
      <4>1. ListingFits
        BY DEF CreateInv
      <4>2. Rank(actual[j]) = j - 1
        BY <3>1, <4>1, RankAt
      <4> QED BY <3>1, <4>2
    <3>3. j \in Nat /\ j - 1 >= Scale[s]
      BY <1>3, <1>8, <2>6
    <3> QED BY <2>2, <3>2, <3>3
  <2>8. Charge(Task(g, "trim", 0, c))
    BY <1>2, <2>2, <2>5, <2>7, TaskFacts DEF Charge, s
  <2> QED BY <2>3, <2>4, <2>8, TaskFacts
<1> HIDE DEF OK
<1>16. PICK new : new = a \o b
  OBVIOUS
<1>17. AddTasks(new)
  BY <1>4, <1>16 DEF more, less
<1>18. a \in Seq(Goroutine') /\ b \in Seq(Goroutine') /\ Len(a) = more /\ Len(b) = less
  BY <1>8, <1>14, <1>15 DEF OK
<1> HIDE DEF a, b
<1>19. /\ new \in Seq(Goroutine') /\ Len(new) = more + less
       /\ \A i \in 1..Len(new) : new[i] = IF i <= more THEN a[i] ELSE b[i - more]
  <2>1. PICK G : G = Goroutine'
    OBVIOUS
  <2>2. a \in Seq(G) /\ b \in Seq(G)
    BY <1>18, <2>1
  <2>3. /\ a \o b \in Seq(G) /\ Len(a \o b) = Len(a) + Len(b)
        /\ \A i \in 1..(Len(a) + Len(b)) :
             (a \o b)[i] = IF i <= Len(a) THEN a[i] ELSE b[i - Len(a)]
    BY <2>2
  <2> QED BY <1>16, <1>18, <2>1, <2>3
<1>20. \A i \in 1..Len(new) : OK(new[i])
  <2> SUFFICES ASSUME NEW i \in 1..Len(new) PROVE OK(new[i])
    OBVIOUS
  <2>1. CASE i <= more
    BY <2>1, <1>8, <1>14, <1>19
  <2>2. CASE ~(i <= more)
    <3>1. i - more \in 1..less
      BY <2>2, <1>8, <1>19
    <3> QED BY <2>2, <3>1, <1>15, <1>19
  <2> QED BY <2>1, <2>2
<1>21. \A i \in 1..Len(new) : Charge(new[i]) /\ new[i].made = 0 /\ new[i].pos = 1
  BY <1>20 DEF OK
<1> QED BY <1>1, <1>11, <1>12, <1>13, <1>17, <1>19, <1>21, StartingInv

(* The loop starts goroutines on containers of the visit's own list.       *)
LEMMA LoopTurnInv ==
  ASSUME CreateInv, NEW g \in DOMAIN visit, LoopTurn(g)
  PROVE  CreateInv'
<1> DEFINE i == visit[g].next
           c == visit[g].list[i]
<1>1. /\ UNCHANGED vars /\ UNCHANGED <<options, engine, lastId, observed, phase>>
      /\ phase = "walk" /\ g # Root /\ i <= Len(visit[g].list)
      /\ visit' = [visit EXCEPT ![g].next = @ + 1]
  BY DEF LoopTurn
<1>2. /\ visit[g] \in [list : Seq(observed), next : Nat] /\ VisitFits(g, visit[g])
      /\ \A q \in DOMAIN visit : visit[q] \in [list : Seq(observed), next : Nat] /\ VisitFits(q, visit[q])
  BY DEF CreateInv, VisitsFit
<1>3. i \in 1..Len(visit[g].list) /\ c \in observed /\ c.svc = Service(g) /\ i \in Nat /\ i # 0
  BY <1>1, <1>2 DEF VisitFits
<1> DEFINE v == [visit[g] EXCEPT !.next = @ + 1]
<1>4. v \in [list : Seq(observed), next : Nat] /\ v.list = visit[g].list /\ v.next = i + 1
  <2>1. PICK w \in [list : Seq(observed), next : Nat] : w = visit[g]
    BY <1>2
  <2>2. /\ [w EXCEPT !.next = @ + 1] \in [list : Seq(observed), next : Nat]
        /\ [w EXCEPT !.next = @ + 1].list = w.list /\ [w EXCEPT !.next = @ + 1].next = w.next + 1
    OBVIOUS
  <2> QED BY <2>1, <2>2
<1>5. /\ DOMAIN visit' = DOMAIN visit /\ visit'[g] = v
      /\ \A q \in DOMAIN visit \ {g} : visit'[q] = visit[q]
      /\ visit' \in [DOMAIN visit' -> [list : Seq(observed), next : Nat]]
  <2>1. visit' = [visit EXCEPT ![g] = v]
    BY <1>1
  <2> HIDE DEF v
  <2> QED BY <2>1, <1>2, <1>4 DEF CreateInv, VisitsFit
<1> HIDE DEF v
<1>6. \A q \in DOMAIN visit' : VisitFits(q, visit'[q])
  <2>1. VisitFits(g, v)
    BY <1>1, <1>2, <1>3, <1>4 DEF VisitFits
  <2> QED BY <2>1, <1>2, <1>5
<1>7. PICK k \in {"recreate", "restart", "none"} :
        AddTasks(IF k = "none" THEN <<>> ELSE <<Task(g, k, i, c)>>)
  <2>1. CASE UNCHANGED task
    <3>1. task = [t \in 1..(Len(task) + Len(<<>>)) |-> IF t <= Len(task) THEN task[t] ELSE (<<>>)[t - Len(task)]]
      <4>1. task \in Seq(Goroutine) /\ Len(<<>>) = 0
        BY DEF CreateInv, TasksFit
      <4> QED BY <4>1
    <3>2. AddTasks(<<>>)
      BY <2>1, <3>1 DEF AddTasks
    <3> QED BY <3>2
  <2>2. CASE AddTasks(<<Task(g, "recreate", i, c)>>)
    BY <2>2
  <2>3. CASE AddTasks(<<Task(g, "restart", i, c)>>)
    BY <2>3
  <2> QED BY <2>1, <2>2, <2>3 DEF LoopTurn
<1>8. \A r : r = Task(g, k, i, c) /\ k # "none" => r \in Goroutine' /\ Charge(r) /\ r.made = 0 /\ r.pos = 1
  <2> SUFFICES ASSUME k # "none"
               PROVE  LET r == Task(g, k, i, c) IN r \in Goroutine' /\ Charge(r) /\ r.made = 0 /\ r.pos = 1
    OBVIOUS
  <2>1. Task(g, k, i, c) \in Goroutine'
    BY <1>1, <1>3, <1>5 DEF Goroutine, Task
  <2>2. 1 <= Len(Calls(k))
    BY DEF Calls, RecreateCalls
  <2>3. Charge(Task(g, k, i, c))
    BY <1>1, <1>3, <2>2, TaskFacts DEF Charge
  <2> QED BY <2>1, <2>3, TaskFacts
<1>9. PICK new : new = IF k = "none" THEN <<>> ELSE <<Task(g, k, i, c)>>
  OBVIOUS
<1>10. new \in Seq(Goroutine') /\ \A j \in 1..Len(new) : k # "none" /\ new[j] = Task(g, k, i, c)
  BY <1>8, <1>9
<1>11. \A j \in 1..Len(new) : Charge(new[j]) /\ new[j].made = 0 /\ new[j].pos = 1
  BY <1>8, <1>10
<1> QED BY <1>1, <1>5, <1>6, <1>7, <1>9, <1>10, <1>11, StartingInv
-----------------------------------------------------------------------------
(* Which goroutine makes which call, and when.                             *)
LEMMA CallFacts ==
  ASSUME NEW kind \in {"create", "recreate", "restart", "trim", "orphan"},
         NEW pos \in 1..Len(Calls(kind)), NEW call, call = Calls(kind)[pos]
  PROVE  /\ call \in {"stop", "start", "rename", "create", "connect", "remove", "kill"}
         /\ call = "create" => kind \in {"create", "recreate"}
         /\ kind = "create" => call \in {"create", "connect"}
         /\ kind = "recreate" /\ pos = 3 => call = "create"
         /\ call \in {"remove", "kill"} =>
              kind \in {"trim", "orphan"} \/ (kind = "recreate" /\ pos = 5)
         /\ Len(Calls(kind)) \in Nat /\ pos \in Nat
<1>1. CASE kind = "create"
  BY <1>1 DEF Calls
<1>2. CASE kind = "recreate"
  BY <1>2 DEF Calls, RecreateCalls
<1>3. CASE kind = "restart"
  BY <1>3 DEF Calls
<1>4. CASE kind = "trim"
  BY <1>4 DEF Calls
<1>5. CASE kind = "orphan"
  BY <1>5 DEF Calls
<1> QED BY <1>1, <1>2, <1>3, <1>4, <1>5

(* The captured variable may hold another container of the same list, but  *)
(* of the same service.                                                    *)
LEMMA SnapFacts ==
  ASSUME CreateInv, NEW t \in DOMAIN task, NEW c \in Snaps(t)
  PROVE  /\ c.svc = task[t].snap.svc \/ task[t].kind = "orphan"
         /\ IF task[t].kind = "create" THEN c \in Wish ELSE c \in observed
         /\ task[t].kind = "orphan" => c.svc \notin Services
         /\ task[t].pos # 1 \/ task[t].kind \in {"create", "trim"} => c = task[t].snap
<1>1. task[t] \in Goroutine /\ Charge(task[t])
  BY DEF CreateInv, TasksFit
<1>2. CASE c = task[t].snap
  BY <1>1, <1>2 DEF Charge
<1>3. CASE c # task[t].snap
  <2>1. task[t].pos = 1 /\ task[t].kind \in {"recreate", "restart", "orphan"}
    BY <1>3 DEF Snaps
  <2>2. PICK v : v = visit[task[t].of]
    OBVIOUS
  <2>3. v \in [list : Seq(observed), next : Nat] /\ VisitFits(task[t].of, v)
    BY <1>1, <2>2 DEF Goroutine, CreateInv, VisitsFit
  <2>4. PICK j \in task[t].from..(v.next - 1) : c = v.list[j]
    BY <2>1, <2>2 DEF Snaps
  <2>5. j \in 1..Len(v.list)
    BY <1>1, <2>1, <2>3, <2>4 DEF Charge, VisitFits, Goroutine
  <2>6. c \in observed
    BY <2>3, <2>4, <2>5
  <2>7. IF task[t].of = Root THEN c.svc \notin Services ELSE c.svc = Service(task[t].of)
    BY <2>3, <2>4, <2>5 DEF VisitFits
  <2> QED BY <1>1, <2>1, <2>6, <2>7 DEF Charge
<1> QED BY <1>2, <1>3

(* A call adds the newest container, or removes the one it is made for, or *)
(* leaves the services of containers as they are.                          *)
LEMMA EffectFacts ==
  ASSUME CreateInv, NEW t \in DOMAIN task, NEW c \in Snaps(t), NEW call,
         task[t].pos \in 1..Len(Calls(task[t].kind)), call = Calls(task[t].kind)[task[t].pos],
         Accepted(call, c, t), engine' = Effect(call, c, t),
         lastId' = IF call = "create" THEN lastId + 1 ELSE lastId
  PROVE  /\ EngineType'
         /\ \A id \in DOMAIN engine \cap DOMAIN engine' : engine'[id].svc = engine[id].svc
         /\ IF call = "create"
              THEN DOMAIN engine' = DOMAIN engine \cup {lastId + 1} /\ engine'[lastId + 1].svc = c.svc
              ELSE DOMAIN engine' \subseteq DOMAIN engine
         /\ \A id \in DOMAIN engine \ DOMAIN engine' : id = c.id /\ call \in {"remove", "kill"}
<1>1. task[t] \in Goroutine
  BY DEF CreateInv, TasksFit
<1>2. task[t].kind \in {"create", "recreate", "restart", "trim", "orphan"}
  BY <1>1 DEF Goroutine
<1>3. /\ call \in {"stop", "start", "rename", "create", "connect", "remove", "kill"}
      /\ task[t].kind = "create" => call \in {"create", "connect"}
  BY <1>2, CallFacts
<1>4. lastId \in Nat /\ DOMAIN engine \subseteq 1..lastId /\ engine \in [DOMAIN engine -> Container]
  BY DEF CreateInv, EngineType
<1>5. /\ c \in Wish \/ c \in Listed
      /\ call \notin {"create", "connect"} => c \in Listed
  BY <1>3, SnapFacts DEF CreateInv, ListingFits
<1>6. ASSUME NEW id \in DOMAIN engine, NEW k \in Container, k.svc = engine[id].svc,
             engine' = [engine EXCEPT ![id] = k], call \notin {"create", "remove", "kill"}
      PROVE  /\ EngineType'
             /\ DOMAIN engine' = DOMAIN engine
             /\ \A j \in DOMAIN engine : engine'[j].svc = engine[j].svc
  <2>1. engine' \in [DOMAIN engine -> Container] /\ lastId' = lastId
    BY <1>4, <1>6
  <2>2. \A j \in DOMAIN engine : engine'[j] = IF j = id THEN k ELSE engine[j]
    BY <1>4, <1>6
  <2> QED BY <1>4, <1>6, <2>1, <2>2 DEF EngineType
<1>7. CASE call = "stop"
  <2>1. c.id \in DOMAIN engine
    BY <1>7 DEF Accepted, Exists
  <2>2. PICK r \in Container : r = engine[c.id]
    BY <2>1, <1>4
  <2>3. PICK st \in {"created", "running", "exited"} : st = IF r.state = "running" THEN "exited" ELSE r.state
    BY DEF Container
  <2> DEFINE k == [r EXCEPT !.state = st]
  <2>4. k \in Container /\ k.svc = r.svc
    BY DEF Container
  <2>5. engine' = [engine EXCEPT ![c.id] = k]
    BY <1>7, <2>2, <2>3 DEF Effect
  <2> HIDE DEF k
  <2> QED BY <1>6, <1>7, <2>1, <2>2, <2>4, <2>5
<1>8. CASE call = "start"
  <2>1. c.id \in DOMAIN engine
    BY <1>8 DEF Accepted, Exists
  <2>2. PICK r \in Container : r = engine[c.id]
    BY <2>1, <1>4
  <2> DEFINE k == [r EXCEPT !.state = "running"]
  <2>3. k \in Container /\ k.svc = r.svc
    BY DEF Container
  <2>4. engine' = [engine EXCEPT ![c.id] = k]
    BY <1>8, <2>2 DEF Effect
  <2> HIDE DEF k
  <2> QED BY <1>6, <1>8, <2>1, <2>2, <2>3, <2>4
<1>9. CASE call = "rename"
  <2>1. c.id \in DOMAIN engine
    BY <1>9 DEF Accepted, Exists
  <2>2. PICK r \in Container : r = engine[c.id]
    BY <2>1, <1>4
  <2>3. PICK n \in EngineName : n = TmpName(c)
    <3>1. PICK nm \in EngineName : nm = c.name
      BY <1>5, <1>9 DEF Listed
    <3>2. PICK i \in Nat : i = c.id
      BY <1>5, <1>9 DEF Listed
    <3>3. <<i>> \o nm.tmp \in Seq(Nat)
      BY <3>1, <3>2 DEF EngineName
    <3>4. TmpName(c) = [nm EXCEPT !.tmp = <<i>> \o nm.tmp]
      BY <3>1, <3>2 DEF TmpName
    <3>. QED
      BY <3>1, <3>3, <3>4 DEF EngineName
  <2> DEFINE k == [r EXCEPT !.name = n]
  <2>4. k \in Container /\ k.svc = r.svc
    BY DEF Container
  <2>5. engine' = [engine EXCEPT ![c.id] = k]
    BY <1>9, <2>2, <2>3 DEF Effect
  <2> HIDE DEF k
  <2> QED BY <1>6, <1>9, <2>1, <2>2, <2>4, <2>5
<1>10. CASE call = "connect"
  <2>1. task[t].made \in DOMAIN engine
    BY <1>10 DEF Accepted, Exists
  <2>2. PICK r \in Container : r = engine[task[t].made]
    BY <2>1, <1>4
  <2> DEFINE k == [r EXCEPT !.net = TRUE]
  <2>3. k \in Container /\ k.svc = r.svc
    BY DEF Container
  <2>4. engine' = [engine EXCEPT ![task[t].made] = k]
    BY <1>10, <2>2 DEF Effect
  <2> HIDE DEF k
  <2> QED BY <1>6, <1>10, <2>1, <2>2, <2>3, <2>4
<1>11. CASE call = "create"
  <2>1. NewContainer(c) \in Container /\ NewContainer(c).svc = c.svc
    BY <1>5 DEF NewContainer, Container, Wish, Listed
  <2>2. engine' = Extended(engine, lastId + 1, NewContainer(c)) /\ lastId' = lastId + 1
    BY <1>11 DEF Effect
  <2>3. /\ DOMAIN engine' = DOMAIN engine \cup {lastId + 1} /\ lastId + 1 \notin DOMAIN engine
        /\ engine'[lastId + 1] = NewContainer(c)
        /\ \A id \in DOMAIN engine : engine'[id] = engine[id]
    BY <1>4, <2>2 DEF Extended
  <2>4. engine' \in [DOMAIN engine' -> Container]
    BY <1>4, <2>1, <2>2, <2>3 DEF Extended
  <2>5. EngineType'
    BY <1>4, <2>2, <2>3, <2>4 DEF EngineType
  <2> QED BY <1>11, <2>1, <2>3, <2>5
<1>12. CASE call \in {"remove", "kill"}
  <2>1. engine' = Without(c.id) /\ lastId' = lastId
    BY <1>12 DEF Effect
  <2>2. /\ DOMAIN engine' = DOMAIN engine \ {c.id}
        /\ \A id \in DOMAIN engine' : engine'[id] = engine[id]
        /\ engine' \in [DOMAIN engine' -> Container]
    BY <1>4, <2>1 DEF Without
  <2>3. EngineType'
    BY <1>4, <2>1, <2>2 DEF EngineType
  <2> QED BY <1>12, <2>2, <2>3
<1> QED BY <1>3, <1>7, <1>8, <1>9, <1>10, <1>11, <1>12

(* One goroutine goes on, and the others are as they were.                 *)
LEMMA OneTask ==
  ASSUME CreateInv, UNCHANGED <<observed, visit>>, NEW t \in DOMAIN task, NEW r \in Goroutine,
         task' = [task EXCEPT ![t] = r]
  PROVE  /\ task' \in Seq(Goroutine') /\ DOMAIN task' = DOMAIN task /\ task'[t] = r
         /\ \A u \in DOMAIN task \ {t} : task'[u] = task[u]
<1>1. Goroutine' = Goroutine
  BY DEF Goroutine
<1>2. task \in Seq(Goroutine)
  BY DEF CreateInv, TasksFit
<1> QED BY <1>1, <1>2

(* A goroutine that gives up keeps what it has made.                       *)
LEMMA EngineErrorInv ==
  ASSUME CreateInv, NEW t \in DOMAIN task, EngineError(t)
  PROVE  CreateInv'
<1>1. /\ UNCHANGED vars /\ UNCHANGED <<options, engine, lastId, observed, visit, phase>>
      /\ task' = [task EXCEPT ![t].at = "failed"]
  BY DEF EngineError
<1>2. /\ \A c : Rank(c)' = Rank(c)
      /\ \A r : Charge(r)' = Charge(r) /\ Product(r)' = Product(r)
      /\ \A s : Mine(s)' = Mine(s)
  BY <1>1, SameJudgement
<1>3. IndInv' /\ Workers' = Workers
  BY <1>1, WalkIdle DEF CreateInv
<1>4. PICK q \in Goroutine : q = task[t] /\ Charge(q) /\ Product(q)
  BY DEF CreateInv, TasksFit
<1> DEFINE r == [q EXCEPT !.at = "failed"]
<1>5. /\ r \in Goroutine
      /\ r.of = q.of /\ r.kind = q.kind /\ r.from = q.from /\ r.snap = q.snap /\ r.pos = q.pos
      /\ r.made = q.made /\ r.at = "failed"
  BY DEF Goroutine
<1>6. task' = [task EXCEPT ![t] = r]
  BY <1>1, <1>4
<1> HIDE DEF r
<1>7. /\ task' \in Seq(Goroutine') /\ DOMAIN task' = DOMAIN task /\ task'[t] = r
      /\ \A u \in DOMAIN task \ {t} : task'[u] = task[u]
  BY <1>1, <1>5, <1>6, OneTask
<1>8. Charge(r) /\ Product(r)
  BY <1>4, <1>5 DEF Charge, Product
<1>9. \A u \in DOMAIN task : task'[u].made = task[u].made /\ task'[u].kind = task[u].kind
                             /\ task'[u].snap = task[u].snap
  BY <1>4, <1>5, <1>7
<1>10. TasksFit'
  <2>1. \A u \in DOMAIN task' : Charge(task'[u]) /\ Product(task'[u])
    BY <1>7, <1>8 DEF CreateInv, TasksFit
  <2>2. \A u, v \in DOMAIN task' : u # v /\ task'[u].made # 0 => task'[u].made # task'[v].made
    BY <1>7, <1>9 DEF CreateInv, TasksFit
  <2> QED BY <1>2, <1>7, <2>1, <2>2 DEF TasksFit
<1>11. WantedPresent'
  BY <1>1, <1>2, <1>7, <1>9 DEF CreateInv, WantedPresent, Exists, Scale
<1>12. OptionsType' /\ EngineType' /\ ListingFits'
  BY <1>1 DEF CreateInv, OptionsType, EngineType, ListingFits, Exists
<1>13. VisitsFit'
  <2>1. \A g, v : VisitFits(g, v)' = VisitFits(g, v)
    BY <1>2, <1>3 DEF VisitFits, Service, Root
  <2> QED BY <1>1, <2>1 DEF CreateInv, VisitsFit
<1>14. NothingYet'
  <2>1. phase # "prepare"
    BY <1>4 DEF CreateInv, NothingYet
  <2> QED BY <1>1, <2>1 DEF NothingYet
<1> QED BY <1>3, <1>10, <1>11, <1>12, <1>13, <1>14 DEF CreateInv

(* A call of the engine.                                                   *)
LEMMA EngineCallInv ==
  ASSUME CreateInv, NEW t \in DOMAIN task, EngineCall(t)
  PROVE  CreateInv'
<1>1. UNCHANGED vars /\ UNCHANGED <<options, observed, visit, phase>>
  BY DEF EngineCall
<1>2. PICK q \in Goroutine : q = task[t] /\ Charge(q) /\ Product(q) /\ q.at = "run"
  BY DEF CreateInv, TasksFit, EngineCall, Ended
<1>3. q.kind \in {"create", "recreate", "restart", "trim", "orphan"} /\ q.pos \in 1..Len(Calls(q.kind))
  <2>1. \A k \in {"create", "recreate", "restart", "trim", "orphan"} : Len(Calls(k)) \in Nat
    BY DEF Calls, RecreateCalls
  <2> QED BY <1>2, <2>1 DEF Goroutine, Charge
<1> DEFINE call == Calls(q.kind)[q.pos]
           last == q.pos = Len(Calls(q.kind))
           newest == IF call = "create" THEN lastId + 1 ELSE q.made
           at   == IF last THEN "done" ELSE "run"
<1>4. PICK c \in Snaps(t) :
        /\ Accepted(call, c, t) /\ engine' = Effect(call, c, t)
        /\ lastId' = IF call = "create" THEN lastId + 1 ELSE lastId
        /\ task' = [task EXCEPT ![t] = Advanced(q, c, newest, at)]
  BY <1>2 DEF EngineCall
<1>5. /\ call = "create" => q.kind \in {"create", "recreate"}
      /\ q.kind = "recreate" /\ q.pos = 3 => call = "create"
      /\ call \in {"remove", "kill"} =>
           q.kind \in {"trim", "orphan"} \/ (q.kind = "recreate" /\ q.pos = 5)
      /\ Len(Calls(q.kind)) \in Nat /\ q.pos \in Nat
  <2>1. PICK k \in {"create", "recreate", "restart", "trim", "orphan"} : k = q.kind
    BY <1>3
  <2>2. PICK n \in 1..Len(Calls(k)) : n = q.pos
    BY <1>3, <2>1
  <2>3. PICK x : x = Calls(k)[n]
    OBVIOUS
  <2>4. x = call
    BY <2>1, <2>2, <2>3
  <2> HIDE DEF call
  <2> QED BY <2>1, <2>2, <2>3, <2>4, CallFacts
<1>6. /\ c.svc = q.snap.svc \/ q.kind = "orphan"
      /\ IF q.kind = "create" THEN c \in Wish ELSE c \in observed
      /\ q.kind = "orphan" => c.svc \notin Services
      /\ q.pos # 1 \/ q.kind \in {"create", "trim"} => c = q.snap
  BY <1>2, <1>4, SnapFacts
<1>7. /\ EngineType'
      /\ \A id \in DOMAIN engine \cap DOMAIN engine' : engine'[id].svc = engine[id].svc
      /\ IF call = "create"
           THEN DOMAIN engine' = DOMAIN engine \cup {lastId + 1} /\ engine'[lastId + 1].svc = c.svc
           ELSE DOMAIN engine' \subseteq DOMAIN engine
      /\ \A id \in DOMAIN engine \ DOMAIN engine' : id = c.id /\ call \in {"remove", "kill"}
  BY <1>2, <1>3, <1>4, EffectFacts
<1>8. lastId \in Nat /\ DOMAIN engine \subseteq 1..lastId
  BY DEF CreateInv, EngineType
<1>9. PICK r \in Goroutine :
        /\ r = Advanced(q, c, newest, at)
        /\ r.of = q.of /\ r.kind = q.kind /\ r.from = q.from /\ r.pos = q.pos + 1
        /\ r.snap = (IF q.kind = "orphan" THEN q.snap ELSE c)
        /\ r.made = newest /\ r.at = at
  <2>1. PICK m \in Nat : m = newest
    BY <1>2, <1>8 DEF Goroutine
  <2>2. PICK x \in {"run", "done", "failed"} : x = at
    OBVIOUS
  <2>3. PICK sn \in observed \cup Wish : sn = IF q.kind = "orphan" THEN q.snap ELSE c
    BY <1>2, <1>6 DEF Goroutine
  <2>4. Advanced(q, c, newest, at) = [q EXCEPT !.pos = q.pos + 1, !.snap = sn, !.made = m, !.at = x]
    BY <2>1, <2>2, <2>3 DEF Advanced
  <2> HIDE DEF newest, at
  <2> DEFINE q1 == [q EXCEPT !.pos = q.pos + 1]
             q2 == [q1 EXCEPT !.snap = sn]
             q3 == [q2 EXCEPT !.made = m]
             r == [q3 EXCEPT !.at = x]
  <2>5. /\ q1 \in Goroutine /\ q1.of = q.of /\ q1.kind = q.kind /\ q1.from = q.from
        /\ q1.pos = q.pos + 1
    BY <1>5 DEF Goroutine
  <2>6. r = [q EXCEPT !.pos = q.pos + 1, !.snap = sn, !.made = m, !.at = x]
    OBVIOUS
  <2> HIDE DEF q1
  <2>7. /\ q2 \in Goroutine /\ q2.of = q1.of /\ q2.kind = q1.kind /\ q2.from = q1.from
        /\ q2.pos = q1.pos /\ q2.snap = sn
    BY <2>5 DEF Goroutine
  <2> HIDE DEF q2
  <2>8. /\ q3 \in Goroutine /\ q3.of = q2.of /\ q3.kind = q2.kind /\ q3.from = q2.from
        /\ q3.pos = q2.pos /\ q3.snap = q2.snap /\ q3.made = m
    BY <2>7 DEF Goroutine
  <2> HIDE DEF q3
  <2>9. /\ r \in Goroutine /\ r.of = q3.of /\ r.kind = q3.kind /\ r.from = q3.from
        /\ r.pos = q3.pos /\ r.snap = q3.snap /\ r.made = q3.made /\ r.at = x
    BY <2>8 DEF Goroutine
  <2>10. r \in Goroutine /\ r = Advanced(q, c, newest, at)
    BY <2>4, <2>6, <2>9
  <2> HIDE DEF r
  <2>11. /\ r.of = q.of /\ r.kind = q.kind /\ r.from = q.from /\ r.pos = q.pos + 1
         /\ r.snap = sn /\ r.made = m /\ r.at = x
    BY <2>5, <2>7, <2>8, <2>9
  <2> QED BY <2>1, <2>2, <2>3, <2>10, <2>11
<1>10. /\ task' \in Seq(Goroutine') /\ DOMAIN task' = DOMAIN task /\ task'[t] = r
       /\ \A u \in DOMAIN task \ {t} : task'[u] = task[u]
  BY <1>1, <1>4, <1>9, OneTask
<1>11. r.snap.svc = q.snap.svc
  BY <1>6, <1>9
<1>12. IndInv' /\ Workers' = Workers
  BY <1>1, WalkIdle DEF CreateInv
<1>13. /\ \A s : Mine(s)' = Mine(s)
       /\ \A d : Rank(d)' = Rank(d)
       /\ \A p : Charge(p)' = Charge(p)
       /\ \A g, v : VisitFits(g, v)' = VisitFits(g, v)
  <2>1. \A s : Mine(s)' = Mine(s)
    BY <1>1 DEF Mine
  <2>2. \A d : Rank(d)' = Rank(d)
    BY <1>1, <2>1 DEF Rank
  <2>3. \A p : Charge(p)' = Charge(p)
    BY <1>1, <2>2 DEF Charge, Scale, Service, Root
  <2>4. \A g, v : VisitFits(g, v)' = VisitFits(g, v)
    BY <1>1, <1>12, <2>1 DEF VisitFits, Service, Root
  <2> QED BY <2>1, <2>2, <2>3, <2>4
<1>14. OptionsType' /\ VisitsFit' /\ NothingYet'
  <2>1. phase # "prepare"
    BY <1>2 DEF CreateInv, NothingYet
  <2> QED BY <1>1, <1>13, <2>1 DEF CreateInv, OptionsType, VisitsFit, NothingYet
<1>15. \A d \in observed : d.id \in Nat /\ d.id <= lastId
  BY DEF CreateInv, ListingFits, Listed
<1>16. ListingFits'
  <2>1. lastId' \in Nat /\ lastId <= lastId'
    BY <1>4, <1>8
  <2>2. \A d \in observed : d.id <= lastId'
    BY <1>8, <1>15, <2>1
  <2>3. ASSUME NEW d \in observed, d.id \in DOMAIN engine' PROVE engine'[d.id].svc = d.svc
    <3>1. d.id \in DOMAIN engine
      BY <1>7, <1>8, <1>15, <2>3
    <3> QED BY <1>7, <2>3, <3>1 DEF CreateInv, ListingFits, Exists
  <2> QED BY <1>1, <2>2, <2>3 DEF CreateInv, ListingFits, Exists
<1>17. \A id \in DOMAIN engine : (\A d \in observed : d.id < id) => id \in DOMAIN engine'
  <2> SUFFICES ASSUME NEW id \in DOMAIN engine, \A d \in observed : d.id < id, id \notin DOMAIN engine'
               PROVE  FALSE
    OBVIOUS
  <2>1. id = c.id /\ call \in {"remove", "kill"}
    BY <1>7
  <2>2. c \in observed
    BY <1>5, <1>6, <2>1
  <2> QED BY <1>15, <2>1, <2>2
<1>18. \A p \in Goroutine : Product(p) => Product(p)'
  <2> SUFFICES ASSUME NEW p \in Goroutine, Product(p) PROVE Product(p)'
    OBVIOUS
  <2>1. CASE p.made = 0
    BY <1>1, <2>1 DEF Product
  <2>2. CASE p.made # 0
    <3>1. p.made \in DOMAIN engine /\ engine[p.made].svc = p.snap.svc
          /\ (\A d \in observed : d.id < p.made) /\ p.pos # 1
      BY <2>2 DEF Product, Exists
    <3>2. p.made \in DOMAIN engine'
      BY <1>17, <3>1
    <3>3. engine'[p.made].svc = p.snap.svc
      BY <1>7, <3>1, <3>2
    <3> QED BY <1>1, <3>1, <3>2, <3>3 DEF Product, Exists
  <2> QED BY <2>1, <2>2
<1>19. Product(r)'
  <2>1. r.pos # 1 /\ r.pos \in Nat /\ q.pos # 0
    BY <1>2, <1>3, <1>5, <1>9 DEF Charge
  <2>2. CASE call = "create"
    <3>1. /\ r.made = lastId + 1 /\ lastId + 1 \in DOMAIN engine' /\ engine'[lastId + 1].svc = c.svc
          /\ r.snap = c /\ lastId + 1 # 0
      BY <1>5, <1>7, <1>8, <1>9, <2>2
    <3>2. \A d \in observed : d.id < lastId + 1
      BY <1>8, <1>15
    <3> QED BY <1>1, <2>1, <3>1, <3>2 DEF Product, Exists
  <2>3. CASE call # "create"
    <3>1. r.made = q.made
      BY <1>9, <2>3
    <3>2. r.kind = "recreate" /\ r.pos >= 4 => r.made # 0
      BY <1>2, <1>5, <1>9, <2>3, <3>1 DEF Product
    <3>3. Product(q)'
      BY <1>2, <1>18
    <3> QED BY <1>11, <2>1, <3>1, <3>2, <3>3 DEF Product
  <2> QED BY <2>2, <2>3
<1>20. Charge(r)
  <2>1. r.pos # 0 /\ (r.at = "run" => r.pos <= Len(Calls(r.kind)))
    BY <1>3, <1>5, <1>9
  <2>2. IF r.kind = "create" THEN r.snap \in Wish ELSE r.snap \in observed
    BY <1>2, <1>6, <1>9 DEF Charge
  <2>3. r.kind = "trim" => r.snap = q.snap
    BY <1>6, <1>9
  <2> QED BY <1>2, <1>9, <1>11, <2>1, <2>2, <2>3 DEF Charge
<1>21. \A u \in DOMAIN task : task[u].made <= lastId /\ task[u].made \in Nat
  <2>1. \A u \in DOMAIN task : task[u] \in Goroutine /\ (task[u].made # 0 => task[u].made \in DOMAIN engine)
    BY DEF CreateInv, TasksFit, Product, Exists
  <2> QED BY <1>8, <2>1 DEF Goroutine
<1>22. TasksFit'
  <2>1. \A u \in DOMAIN task' : \A p : p = task'[u] => Charge(p)' /\ Product(p)'
    <3> SUFFICES ASSUME NEW u \in DOMAIN task', NEW p, p = task'[u] PROVE Charge(p)' /\ Product(p)'
      OBVIOUS
    <3>1. CASE u = t
      BY <1>10, <1>13, <1>19, <1>20, <3>1
    <3>2. CASE u # t
      <4>1. p = task[u] /\ p \in Goroutine /\ Charge(p) /\ Product(p)
        BY <1>10, <3>2 DEF CreateInv, TasksFit
      <4> QED BY <1>13, <1>18, <4>1
    <3> QED BY <3>1, <3>2
  <2>2. ASSUME NEW u \in DOMAIN task', NEW v \in DOMAIN task', u # v, task'[u].made # 0
        PROVE  task'[u].made # task'[v].made
    <3>1. CASE u # t /\ v # t
      BY <1>10, <2>2, <3>1 DEF CreateInv, TasksFit
    <3>2. CASE call = "create" /\ (u = t \/ v = t)
      <4>1. r.made = lastId + 1
        BY <1>9, <3>2
      <4> QED BY <1>8, <1>10, <1>21, <2>2, <3>2, <4>1
    <3>3. CASE call # "create" /\ (u = t \/ v = t)
      <4>1. r.made = task[t].made
        BY <1>2, <1>9, <3>3
      <4>2. task'[u].made = task[u].made /\ task'[v].made = task[v].made
        BY <1>10, <2>2, <3>3, <4>1
      <4> QED BY <1>10, <2>2, <4>2 DEF CreateInv, TasksFit
    <3> QED BY <3>1, <3>2, <3>3
  <2> QED BY <1>10, <2>1, <2>2 DEF TasksFit
<1>23. WantedPresent'
  <2> SUFFICES ASSUME NEW d \in observed, d.svc \in Services, Rank(d) < Scale[d.svc], d.id \notin DOMAIN engine'
               PROVE  \E u \in DOMAIN task' :
                        task'[u].kind = "recreate" /\ task'[u].snap = d /\ task'[u].made # 0
    BY <1>1, <1>13 DEF WantedPresent, Exists, Scale
  <2>1. CASE d.id \in DOMAIN engine
    <3>1. d.id = c.id /\ call \in {"remove", "kill"}
      BY <1>7, <2>1
    <3>2. c \in observed /\ c = d
      BY <1>5, <1>6, <3>1 DEF CreateInv, ListingFits
    <3>3. q.kind # "orphan"
      BY <1>6, <3>2
    <3>4. q.kind # "trim"
      <4>1. q.kind = "trim" => c = q.snap /\ Scale[c.svc] <= Rank(c)
        BY <1>2, <1>6 DEF Charge
      <4>2. Scale[d.svc] \in Nat /\ Rank(d) \in Nat
        <5>1. {e \in Mine(d.svc) : e.id > d.id} \in SUBSET observed
          BY DEF Mine
        <5>2. IsFiniteSet({e \in Mine(d.svc) : e.id > d.id})
          BY <5>1, FS_Subset DEF CreateInv, ListingFits
        <5> QED BY <5>2, FS_CardinalityType DEF Rank, CreateInv, OptionsType, Scale
      <4> QED BY <3>2, <4>1, <4>2
    <3>5. q.kind = "recreate" /\ q.pos = 5
      BY <1>5, <3>1, <3>3, <3>4
    <3>6. r.kind = "recreate" /\ r.snap = d /\ r.made # 0
      BY <1>2, <1>9, <3>1, <3>2, <3>5 DEF Product
    <3> QED BY <1>10, <3>6
  <2>2. CASE d.id \notin DOMAIN engine
    <3>1. PICK u \in DOMAIN task : task[u].kind = "recreate" /\ task[u].snap = d /\ task[u].made # 0
      BY <2>2 DEF CreateInv, WantedPresent, Exists
    <3>2. CASE u # t
      BY <1>10, <3>1, <3>2
    <3>3. CASE u = t
      <4>1. q.pos # 1 /\ q.kind = "recreate" /\ q.snap = d /\ q.made # 0
        BY <1>2, <3>1, <3>3 DEF Product
      <4>2. r.kind = "recreate" /\ r.snap = d /\ r.made # 0
        BY <1>6, <1>8, <1>9, <4>1
      <4> QED BY <1>10, <4>2
    <3> QED BY <3>2, <3>3
  <2> QED BY <2>1, <2>2
<1> QED BY <1>7, <1>12, <1>14, <1>16, <1>22, <1>23 DEF CreateInv
-----------------------------------------------------------------------------
(* Every step keeps the invariant.                                         *)
LEMMA CreateNextInv == CreateInv /\ [CreateNext]_allVars => CreateInv'
<1> SUFFICES ASSUME CreateInv, [CreateNext]_allVars PROVE CreateInv'
  OBVIOUS
<1>1. CASE UNCHANGED allVars
  BY <1>1, WalkIdle, CreateFrame DEF CreateInv, allVars, createVars
<1>2. CASE PrepareFails \/ OrphansRemoved \/ CreateReturns
  <2>1. UNCHANGED vars /\ UNCHANGED <<options, engine, lastId, observed, visit, task>> /\ phase' # "prepare"
    BY <1>2 DEF PrepareFails, OrphansRemoved, CreateReturns
  <2> QED BY <2>1, WalkIdle, CreateFrame DEF CreateInv
<1>3. CASE Walk
  BY <1>3, WalkOnFacts, CreateFrame DEF Walk, createVars, CreateInv
<1>4. CASE \E g \in goroutines : VisitRefused(g)
  <2>1. PICK g \in goroutines : VisitRefused(g)
    BY <1>4
  <2>2. g \in Workers /\ FnFails(g)
    BY <2>1 DEF VisitRefused, CreateInv, IndInv, Shape, Workers
  <2> QED BY <2>1, <2>2, FnFacts, CreateFrame DEF VisitRefused, createVars, CreateInv
<1>5. CASE \E g \in DOMAIN visit : VisitEnds(g)
  <2>1. PICK g \in DOMAIN visit : VisitEnds(g)
    BY <1>5
  <2>2. g \in Workers /\ (FnFails(g) \/ FnReturns(g))
    BY <2>1 DEF VisitEnds, CreateInv, VisitsFit, VisitFits
  <2> QED BY <2>1, <2>2, FnFacts, CreateFrame DEF VisitEnds, createVars, CreateInv
<1>6. CASE Prepare
  BY <1>6, PrepareInv
<1>7. CASE RemoveOrphanContainers
  BY <1>7, RemoveOrphansInv
<1>8. CASE RunAgain
  BY <1>8, RunAgainInv
<1>9. CASE \E g \in goroutines : EnsureScale(g)
  BY <1>9, EnsureScaleInv
<1>10. CASE \E g \in DOMAIN visit : LoopTurn(g)
  BY <1>10, LoopTurnInv
<1>11. CASE \E t \in DOMAIN task : EngineCall(t)
  BY <1>11, EngineCallInv
<1>12. CASE \E t \in DOMAIN task : EngineError(t)
  BY <1>12, EngineErrorInv
<1> QED BY <1>1, <1>2, <1>3, <1>4, <1>5, <1>6, <1>7, <1>8, <1>9, <1>10, <1>11, <1>12
        DEF CreateNext, CreateProgress, CreateTerminated

(* The invariant holds in every state.                                     *)
LEMMA CreateInvariance == CreateSpec => []CreateInv
BY CreateInitInv, CreateNextInv, PTL DEF CreateSpec

(* Wherever a visit knows the containers of a service there are enough.    *)
Enough ==
  \A s \in Services : NewestFirst(Mine(s)) # {} =>
    Cardinality(Of(s)) >= Min({Scale[s], Had(s)})

(* It follows from the invariant, before and after a step.                 *)
LEMMA InvEnough == CreateInv => Enough
BY EnoughLeft DEF Enough

(* Only the removal of a container of a visited service takes one away.    *)
LEMMA StepKeepsEnough ==
  ASSUME CreateInv, Enough', [CreateNext]_allVars, NEW s \in Services, ~(Of(s) \subseteq Of(s)')
  PROVE  Cardinality(Of(s)') >= Min({Scale[s], Had(s)})
<1>1. PICK t \in DOMAIN task : EngineCall(t)
  <2>1. engine' # engine
    BY DEF Of
  <2> QED BY <2>1 DEF CreateNext, CreateProgress, CreateTerminated, allVars, createVars, Prepare,
             PrepareFails, RemoveOrphanContainers, OrphansRemoved, Walk, CreateReturns, RunAgain,
             VisitRefused, EnsureScale, LoopTurn, VisitEnds, EngineError
<1>2. UNCHANGED <<options, observed>>
  BY <1>1 DEF EngineCall
<1>3. PICK q \in Goroutine : q = task[t] /\ Charge(q) /\ q.at = "run"
  BY <1>1 DEF CreateInv, TasksFit, EngineCall, Ended
<1>4. q.kind \in {"create", "recreate", "restart", "trim", "orphan"} /\ q.pos \in 1..Len(Calls(q.kind))
  <2>1. \A k \in {"create", "recreate", "restart", "trim", "orphan"} : Len(Calls(k)) \in Nat
    BY DEF Calls, RecreateCalls
  <2> QED BY <1>3, <2>1 DEF Goroutine, Charge
<1> DEFINE call == Calls(q.kind)[q.pos]
<1>5. PICK c \in Snaps(t) :
        /\ Accepted(call, c, t) /\ engine' = Effect(call, c, t)
        /\ lastId' = IF call = "create" THEN lastId + 1 ELSE lastId
  BY <1>1, <1>3 DEF EngineCall
<1>6. /\ \A id \in DOMAIN engine \cap DOMAIN engine' : engine'[id].svc = engine[id].svc
      /\ \A id \in DOMAIN engine \ DOMAIN engine' : id = c.id /\ call \in {"remove", "kill"}
  BY <1>3, <1>4, <1>5, EffectFacts
<1>7. c.id \in DOMAIN engine /\ engine[c.id].svc = s /\ call \in {"remove", "kill"}
  <2>1. PICK id \in Of(s) : id \notin Of(s)'
    OBVIOUS
  <2> QED BY <1>6, <2>1 DEF Of
<1>8. q.kind \in {"trim", "orphan", "recreate"}
  BY <1>4, <1>5, <1>7, CallFacts
<1>9. /\ c.svc = q.snap.svc \/ q.kind = "orphan"
      /\ c \in observed
      /\ q.kind = "orphan" => c.svc \notin Services
  BY <1>3, <1>5, <1>8, SnapFacts
<1>10. c.svc = s
  BY <1>7, <1>9 DEF CreateInv, ListingFits, Exists
<1>11. q.of # Root /\ Service(q.of) = s /\ q.of \in DOMAIN visit
  BY <1>3, <1>8, <1>9, <1>10 DEF Charge, Goroutine
<1>12. NewestFirst(Mine(s)) # {}
  BY <1>11 DEF CreateInv, VisitsFit, VisitFits
<1>13. Mine(s)' = Mine(s) /\ Scale' = Scale /\ Had(s)' = Had(s)
  BY <1>2 DEF Mine, Scale, Had
<1>14. NewestFirst(Mine(s))' = NewestFirst(Mine(s))
  BY <1>13 DEF NewestFirst
<1>15. Cardinality(Of(s)') >= Min({Scale[s], Had(s)})'
  BY <1>12, <1>14 DEF Enough
<1> QED BY <1>13, <1>15

(* No call of the engine leaves a service with fewer containers than it    *)
(* had when this run of Create began, or than it should have: what is      *)
(* recreated is removed after its replacement was made                     *)
(* (recreateContainer), and what is trimmed comes after the first Scale    *)
(* containers of the listing (ensureScale), although the goroutines read a *)
(* captured loop variable, a service may be visited twice, and any call    *)
(* may fail.                                                               *)
THEOREM NoneLost == CreateSpec => NeverFewer
<1> DEFINE Step == \A s \in Services :
                     \/ Of(s) \subseteq Of(s)'
                     \/ Cardinality(Of(s)') >= Min({Scale[s], Had(s)})
<1>1. CreateInv' => Enough'
  BY InvEnough, PTL
<1>2. CreateInv /\ CreateInv' /\ [CreateNext]_allVars => Step
  BY <1>1, StepKeepsEnough
<1>3. CreateInv /\ CreateInv' /\ [CreateNext]_allVars => [Step]_allVars
  BY <1>2
<1> QED BY <1>3, CreateInvariance, PTL DEF CreateSpec, NeverFewer

-----------------------------------------------------------------------------
(***************************************************************************)
(* What create does before its walk and tells the engine of a container    *)
(* (ServiceOptions), for any project and any number of creates at once.    *)
(***************************************************************************)
Raw == optionCase.services
ReadyServices == [i \in DOMAIN Raw |-> Prepared(Raw[i])]
Networks == optionCase.networks
Volumes == optionCase.volumes
Passed == {"volume", "make volume", "container", "ok"}
OptionSteps == {"prepare", "network", "make network", "failed"} \cup Passed
CountBefore(x) == IF x \in DOMAIN optionCase.nets THEN optionCase.nets[x] ELSE 0

OptionTypes ==
    /\ optionCase \in OptionCases
    /\ creator \in [1 .. optionCase.clients -> [pc : OptionSteps, at : Nat \ {0}, services : {Raw, ReadyServices}]]
    /\ made = [k \in 1 .. optionCase.clients |-> made[k]]
    /\ \A n \in DOMAIN nets : nets[n] \in Nat

(* What a client in the step p has found or made: the elements of the list it is at, before its place. *)
NetDue(p, a, i) == (p \in {"network", "make network"} /\ i < a) \/ p \in Passed
VolDue(p, a, i) == (p \in {"volume", "make volume"} /\ i < a) \/ p \in {"container", "ok"}
ClientInv(p, a, s) ==
    /\ p = "prepare" => s = Raw
    /\ p \notin {"prepare", "failed"} => s = ReadyServices /\ \A x \in Range(Raw) : VolumesFromKnown(x)
    /\ \A i \in DOMAIN Networks : NetDue(p, a, i) => Count(Networks[i].name) > 0
    /\ p = "make network" => /\ a \in DOMAIN Networks /\ ~Networks[a].external
                             /\ Cardinality(Creators) = 1 => Count(Networks[a].name) = 0
    /\ \A i \in DOMAIN Volumes : VolDue(p, a, i) => Volumes[i].name \in DOMAIN kept
    /\ p = "make volume" => a \in DOMAIN Volumes
ClientsInv == \A k \in Creators : ClientInv(creator[k].pc, creator[k].at, creator[k].services)

CountInv ==
    /\ Cardinality(Creators) = 1 => \A x : Count(x) \in {1, CountBefore(x)}
    /\ \A n \in Range(Networks) : n.external => Count(n.name) = CountBefore(n.name)
KeptInv == \A v \in DOMAIN optionCase.kept : v \in DOMAIN kept /\ kept[v] = optionCase.kept[v]

Asked(s, mode) ==
    [given |-> buildContainerVolumes(s), mode |-> mode, ports |-> buildContainerPortBindingOptions(s),
     aliases |-> getAliases(s, mode) \cup {optionCase.firstContainer[s.name]}]
MadeInv == \A k \in Creators : creator[k].pc = "ok" => \E mode \in getNetworkMode(ReadyServices[1]) : made[k] = Asked(ReadyServices[1], mode)

OptionsInv == OptionTypes /\ ClientsInv /\ CountInv /\ KeptInv /\ MadeInv

(* A step of a client changes its own record only. *)
Changed(k, p, a, s) == creator' = [creator EXCEPT ![k] = [pc |-> p, at |-> a, services |-> s]]

LEMMA ClientChanges ==
  ASSUME OptionTypes, NEW k \in Creators, NEW p, NEW a, NEW s, Changed(k, p, a, s)
  PROVE  /\ Creators' = Creators /\ Creators = 1 .. optionCase.clients
         /\ \A l \in Creators : l # k => creator'[l] = creator[l]
         /\ creator'[k].pc = p /\ creator'[k].at = a /\ creator'[k].services = s
<1>1. PICK c : c = [pc |-> p, at |-> a, services |-> s]
  OBVIOUS
<1>2. c.pc = p /\ c.at = a /\ c.services = s
  BY <1>1
<1>3. creator' = [creator EXCEPT ![k] = c]
  BY <1>1 DEF Changed
<1> QED BY <1>2, <1>3 DEF OptionTypes, Creators

(* The four ways a client's record is changed. *)
LEMMA ThenChanges ==
  ASSUME OptionTypes, NEW k \in Creators, NEW p \in OptionSteps, Then(k, p)
  PROVE  Changed(k, p, 1, creator[k].services)
<1>0. PICK B, C : B = Nat \ {0} /\ C = {Raw, ReadyServices}
  OBVIOUS
<1>1. PICK r \in [pc : OptionSteps, at : B, services : C] : r = creator[k]
  BY <1>0 DEF OptionTypes, Creators
<1>2. PICK q \in B : q = 1
  BY <1>0
<1>3. PICK n : n = [r EXCEPT !.pc = p, !.at = q]
  OBVIOUS
<1>4. n \in [pc : OptionSteps, at : B, services : C] /\ n.pc = p /\ n.at = q /\ n.services = r.services
  BY <1>1, <1>3
<1>5. n = [pc |-> n.pc, at |-> n.at, services |-> n.services]
  BY <1>4
<1>6. creator' = [creator EXCEPT ![k] = n]
  BY <1>1, <1>2, <1>3 DEF OptionTypes, Creators, Then
<1> QED BY <1>1, <1>2, <1>4, <1>5, <1>6 DEF Changed

LEMMA MadeChanges ==
  ASSUME OptionTypes, NEW k \in Creators, NEW p \in OptionSteps,
         creator' = [creator EXCEPT ![k].pc = p, ![k].at = @ + 1]
  PROVE  Changed(k, p, creator[k].at + 1, creator[k].services)
<1>0. PICK B, C : B = Nat \ {0} /\ C = {Raw, ReadyServices}
  OBVIOUS
<1>1. PICK r \in [pc : OptionSteps, at : B, services : C] : r = creator[k]
  BY <1>0 DEF OptionTypes, Creators
<1>2. PICK q \in B : q = creator[k].at + 1
  <2>1. creator[k].at \in Nat
    BY DEF OptionTypes, Creators
  <2> QED BY <1>0, <2>1
<1>3. PICK n : n = [r EXCEPT !.pc = p, !.at = q]
  OBVIOUS
<1>4. n \in [pc : OptionSteps, at : B, services : C] /\ n.pc = p /\ n.at = q /\ n.services = r.services
  BY <1>1, <1>3
<1>5. n = [pc |-> n.pc, at |-> n.at, services |-> n.services]
  BY <1>4
<1>6. creator' = [creator EXCEPT ![k] = n]
  BY <1>1, <1>2, <1>3 DEF OptionTypes, Creators
<1> QED BY <1>1, <1>2, <1>4, <1>5, <1>6 DEF Changed

LEMMA StepChanges ==
  ASSUME OptionTypes, NEW k \in Creators, NEW p \in OptionSteps,
         creator' = [creator EXCEPT ![k].pc = p]
  PROVE  Changed(k, p, creator[k].at, creator[k].services)
<1>0. PICK B, C : B = Nat \ {0} /\ C = {Raw, ReadyServices}
  OBVIOUS
<1>1. PICK r \in [pc : OptionSteps, at : B, services : C] : r = creator[k]
  BY <1>0 DEF OptionTypes, Creators
<1>2. PICK n : n = [r EXCEPT !.pc = p]
  OBVIOUS
<1>3. n \in [pc : OptionSteps, at : B, services : C] /\ n.pc = p /\ n.at = r.at /\ n.services = r.services
  BY <1>1, <1>2
<1>4. n = [pc |-> n.pc, at |-> n.at, services |-> n.services]
  BY <1>3
<1>5. creator' = [creator EXCEPT ![k] = n]
  BY <1>1, <1>2 DEF OptionTypes, Creators
<1> QED BY <1>1, <1>3, <1>4, <1>5 DEF Changed

LEMMA OnwardChanges ==
  ASSUME OptionTypes, NEW k \in Creators, Onward(k)
  PROVE  Changed(k, creator[k].pc, creator[k].at + 1, creator[k].services)
<1>1. PICK x, y, z : creator[k] = [pc |-> x, at |-> y, services |-> z]
  BY DEF OptionTypes, Creators
<1>2. [creator[k] EXCEPT !.at = @ + 1] = [pc |-> x, at |-> y + 1, services |-> z]
  BY <1>1
<1>3. creator' = [creator EXCEPT ![k] = [creator[k] EXCEPT !.at = @ + 1]]
  BY DEF OptionTypes, Creators, Onward
<1>4. creator[k].pc = x /\ creator[k].at = y /\ creator[k].services = z
  BY <1>1
<1> QED BY <1>2, <1>3, <1>4 DEF Changed

ClientType(p, a, s) == p \in OptionSteps /\ a \in Nat \ {0} /\ s \in {Raw, ReadyServices}

LEMMA ClientTypes ==
  ASSUME OptionTypes, NEW k \in Creators
  PROVE  creator[k].pc \in OptionSteps /\ creator[k].at \in Nat \ {0} /\ creator[k].services \in {Raw, ReadyServices}
BY DEF OptionTypes, Creators

LEMMA ListsOfProject ==
  ASSUME OptionTypes
  PROVE  /\ DOMAIN Networks = 1 .. Len(Networks) /\ Len(Networks) \in Nat
         /\ DOMAIN Volumes = 1 .. Len(Volumes) /\ Len(Volumes) \in Nat
<1>1. PICK E : Networks \in Seq(E)
  BY OptionsAssumption DEF OptionTypes, Networks
<1>2. PICK F : Volumes \in Seq(F)
  BY OptionsAssumption DEF OptionTypes, Volumes
<1> QED BY <1>1, <1>2

(* There is one creator, if their number is one. *)
LEMMA OneCreator ==
  ASSUME OptionTypes, Cardinality(Creators) = 1, NEW k \in Creators, NEW l \in Creators
  PROVE  k = l
<1>1. optionCase.clients \in Nat /\ Creators = 1 .. optionCase.clients
  BY OptionsAssumption DEF OptionTypes, Creators
<1>2. Cardinality(1 .. optionCase.clients) = optionCase.clients
  <2>1. PICK n \in Nat : n = optionCase.clients
    BY <1>1
  <2>2. Cardinality(1 .. n) = IF 1 > n THEN 0 ELSE n - 1 + 1
    BY FS_Interval
  <2> QED BY <2>1, <2>2
<1> QED BY <1>1, <1>2

LEMMA CountIsNat ==
  ASSUME OptionTypes, NEW x
  PROVE  Count(x) \in Nat
BY DEF OptionTypes, Count

(* What is asked of the engine follows from the project. *)
LEMMA AskedKept ==
  ASSUME optionCase' = optionCase, NEW s
  PROVE  getNetworkMode(s)' = getNetworkMode(s) /\ \A mode : Asked(s, mode)' = Asked(s, mode)
<1>1. \A n : ProjectVolume(n)' = ProjectVolume(n)
  BY DEF ProjectVolume
<1>2. \A v : buildMount(v)' = buildMount(v)
  BY <1>1 DEF buildMount
<1>3. Own(s)' = Own(s)
  BY <1>2 DEF Own
<1>4. buildContainerMountOptions(s)' = buildContainerMountOptions(s)
  BY <1>3 DEF buildContainerMountOptions, OnePerPlace, Inherited, ImageMounts, buildContainerSecretMounts, Targets, MountAt, Mount
<1>5. buildContainerVolumes(s)' = buildContainerVolumes(s)
  BY <1>4 DEF buildContainerVolumes
<1>6. getNetworkMode(s)' = getNetworkMode(s)
  <2>1. \A n : Named(n)' = Named(n)
    BY DEF Named
  <2>2. UNION { Named(n)' : n \in getNetworksForService(s) } = UNION { Named(n) : n \in getNetworksForService(s) }
    BY <2>1
  <2> QED BY <2>2 DEF getNetworkMode, getNetworksForService
<1> QED BY <1>4, <1>5, <1>6 DEF Asked, buildContainerPortBindingOptions, getAliases

(* A step that changes nothing but the client's record keeps the invariant, if what it says of the record holds. *)
LEMMA ClientKept ==
  ASSUME OptionsInv, NEW k \in Creators, NEW p, NEW a, NEW s, ClientType(p, a, s),
         Changed(k, p, a, s), ClientInv(p, a, s), p # "ok", UNCHANGED <<optionCase, nets, kept, made>>
  PROVE  OptionsInv'
<1>1. /\ Creators' = Creators /\ Creators = 1 .. optionCase.clients
      /\ \A l \in Creators : l # k => creator'[l] = creator[l]
      /\ creator'[k].pc = p /\ creator'[k].at = a /\ creator'[k].services = s
  BY ClientChanges DEF OptionsInv
<1>2. Raw' = Raw /\ Networks' = Networks /\ Volumes' = Volumes /\ ReadyServices' = ReadyServices
  BY DEF Raw, Networks, Volumes, ReadyServices, Prepared, getVolumesFrom
<1>3. (\A x : Count(x)' = Count(x)) /\ (\A x : CountBefore(x)' = CountBefore(x)) /\ (\A x : VolumesFromKnown(x)' = VolumesFromKnown(x))
  BY DEF Count, CountBefore, VolumesFromKnown
<1>4. OptionTypes'
  BY <1>2 DEF OptionsInv, OptionTypes, Changed, ClientType
<1>5. ClientsInv'
  <2>1. \A p1, a1, s1 : ClientInv(p1, a1, s1) => ClientInv(p1, a1, s1)'
    <3> SUFFICES ASSUME NEW p1, NEW a1, NEW s1, ClientInv(p1, a1, s1) PROVE ClientInv(p1, a1, s1)'
      OBVIOUS
    <3>1. p1 \notin {"prepare", "failed"} => s1 = ReadyServices' /\ \A x \in Range(Raw') : VolumesFromKnown(x)'
      BY <1>2, <1>3 DEF ClientInv
    <3>2. (\A i \in DOMAIN Networks : NetDue(p1, a1, i) => Count(Networks[i].name) > 0)'
      BY DEF ClientInv, Networks, Count, NetDue, Passed
    <3> QED BY <1>1, <1>2, <1>3, <3>1, <3>2 DEF ClientInv, NetDue, VolDue
  <2> QED BY <1>1, <2>1 DEF OptionsInv, ClientsInv
<1>6. CountInv' /\ KeptInv'
  BY <1>1, <1>2, <1>3 DEF OptionsInv, CountInv, KeptInv
<1>7. MadeInv'
  BY <1>1, <1>2, AskedKept DEF OptionsInv, MadeInv
<1> QED BY <1>4, <1>5, <1>6, <1>7 DEF OptionsInv

(* A create that fails says nothing. *)
LEMMA FailedKept ==
  ASSUME OptionsInv, NEW k \in Creators, Then(k, "failed"), UNCHANGED <<optionCase, nets, kept, made>>
  PROVE  OptionsInv'
<1>1. PICK s \in {Raw, ReadyServices} : s = creator[k].services
  BY ClientTypes DEF OptionsInv
<1>2. Changed(k, "failed", 1, s)
  BY <1>1, ThenChanges DEF OptionsInv, OptionSteps
<1>3. ClientInv("failed", 1, s)
  BY DEF ClientInv, NetDue, VolDue, Passed
<1>4. ClientType("failed", 1, s)
  BY <1>1 DEF ClientType, OptionSteps
<1> QED BY <1>2, <1>3, <1>4, ClientKept

(* volumes_from is resolved, or create fails. *)
LEMMA PrepareKeeps ==
  ASSUME OptionsInv, NEW k \in Creators, prepareVolumes(k)
  PROVE  OptionsInv'
<1>1. CASE \A x \in Range(optionCase.services) : VolumesFromKnown(x)
  <2>1. creator[k].services \in {Raw, ReadyServices} /\ creator[k].pc = "prepare"
    BY ClientTypes DEF OptionsInv, prepareVolumes, At
  <2>2. creator[k].services = Raw
    BY <2>1 DEF OptionsInv, ClientsInv, ClientInv
  <2>3. Changed(k, "network", 1, ReadyServices)
    <3>1. creator' = [creator EXCEPT ![k] = [pc |-> "network", at |-> 1, services |-> [i \in DOMAIN creator[k].services |-> Prepared(creator[k].services[i])]]]
      BY <1>1 DEF prepareVolumes, OptionsInv, OptionTypes, Creators
    <3> QED BY <2>2, <3>1 DEF Changed, ReadyServices, Raw
  <2>4. ClientInv("network", 1, ReadyServices)
    <3>1. \A i \in DOMAIN Networks : ~(i < 1)
      BY ListsOfProject DEF OptionsInv
    <3> QED BY <1>1, <3>1 DEF ClientInv, NetDue, VolDue, Passed, Raw
  <2>5. ClientType("network", 1, ReadyServices)
    BY DEF ClientType, OptionSteps
  <2> QED BY <2>3, <2>4, <2>5, ClientKept DEF prepareVolumes
<1>2. CASE ~\A x \in Range(optionCase.services) : VolumesFromKnown(x)
  <2>1. Then(k, "failed")
    BY <1>2 DEF prepareVolumes
  <2> QED BY <2>1, FailedKept DEF prepareVolumes
<1> QED BY <1>1, <1>2

(* A network that is there is passed over, the last one is followed by the volumes. *)
LEMMA InspectNetworkKeeps ==
  ASSUME OptionsInv, NEW k \in Creators, InspectNetwork(k)
  PROVE  OptionsInv'
<1>0. CASE Then(k, "failed")
  BY <1>0, FailedKept DEF InspectNetwork
<1>1. creator[k].pc = "network" /\ creator[k].at \in Nat \ {0} /\ creator[k].services \in {Raw, ReadyServices}
  BY ClientTypes DEF OptionsInv, InspectNetwork, At
<1>2. ClientInv("network", creator[k].at, creator[k].services)
  BY <1>1 DEF OptionsInv, ClientsInv
<1>3. PICK a \in Nat \ {0}, s \in {Raw, ReadyServices} : a = creator[k].at /\ s = creator[k].services
  BY <1>1
<1>4. DOMAIN Networks = 1 .. Len(Networks) /\ Len(Networks) \in Nat
  BY ListsOfProject DEF OptionsInv
<1>5. CASE a > Len(Networks) /\ ~Then(k, "failed")
  <2>1. Changed(k, "volume", 1, s)
    <3>1. Then(k, "volume")
      <4>1. creator[k].at > Len(optionCase.networks) /\ ~(creator[k].at <= Len(optionCase.networks))
        BY <1>3, <1>4, <1>5 DEF Networks
      <4> QED BY <1>5, <4>1 DEF InspectNetwork
    <3> QED BY <1>3, <3>1, ThenChanges DEF OptionsInv, OptionSteps, Passed
  <2>2. \A i \in DOMAIN Networks : i < a
    BY <1>3, <1>4, <1>5
  <2>3. \A i \in DOMAIN Volumes : ~(i < 1)
    BY ListsOfProject DEF OptionsInv
  <2>4. ClientInv("volume", 1, s)
    BY <1>2, <1>3, <2>2, <2>3 DEF ClientInv, NetDue, VolDue, Passed
  <2>5. ClientType("volume", 1, s)
    BY <1>3 DEF ClientType, OptionSteps, Passed
  <2> QED BY <2>1, <2>4, <2>5, ClientKept DEF InspectNetwork
<1>6. CASE a <= Len(Networks) /\ Count(Networks[a].name) > 0 /\ ~Then(k, "failed")
  <2>1. Onward(k)
    <3>1. ~(creator[k].at > Len(optionCase.networks)) /\ creator[k].at <= Len(optionCase.networks) /\ Count(Net(k).name) > 0
      BY <1>3, <1>4, <1>6 DEF Networks, Net
    <3> QED BY <1>6, <3>1 DEF InspectNetwork
  <2>2. Changed(k, "network", a + 1, s)
    BY <1>1, <1>3, <2>1, OnwardChanges DEF OptionsInv
  <2>3. \A i \in DOMAIN Networks : i < a + 1 => i < a \/ i = a
    BY <1>3, <1>4
  <2>4. ClientInv("network", a + 1, s)
    BY <1>2, <1>3, <1>6, <2>3 DEF ClientInv, NetDue, VolDue, Passed
  <2>5. ClientType("network", a + 1, s)
    BY <1>3 DEF ClientType, OptionSteps
  <2> QED BY <2>2, <2>4, <2>5, ClientKept DEF InspectNetwork
<1>7. CASE a <= Len(Networks) /\ ~(Count(Networks[a].name) > 0) /\ ~Then(k, "failed")
  <2>1. IF Net(k).external THEN Then(k, "failed") ELSE creator' = [creator EXCEPT ![k].pc = "make network"]
    <3>1. ~(creator[k].at > Len(optionCase.networks)) /\ ~(Count(Net(k).name) > 0)
      BY <1>3, <1>4, <1>7 DEF Networks, Net
    <3> QED BY <1>7, <3>1 DEF InspectNetwork
  <2>2. CASE Net(k).external
    BY <1>7, <2>1, <2>2
  <2>3. CASE ~Net(k).external
    <3>1. Changed(k, "make network", a, s)
      BY <1>3, <2>1, <2>3 DEF Changed, OptionsInv, OptionTypes, Creators
    <3>2. a \in DOMAIN Networks /\ ~Networks[a].external /\ Count(Networks[a].name) = 0
      <4>1. Count(Networks[a].name) \in Nat
        BY CountIsNat DEF OptionsInv
      <4> QED BY <1>3, <1>4, <1>7, <2>3, <4>1 DEF Net, Networks
    <3>3. ClientInv("make network", a, s)
      BY <1>2, <1>3, <3>2 DEF ClientInv, NetDue, VolDue, Passed
    <3>4. ClientType("make network", a, s)
      BY <1>3 DEF ClientType, OptionSteps
    <3> QED BY <3>1, <3>3, <3>4, ClientKept DEF InspectNetwork
  <2> QED BY <2>2, <2>3
<1> QED BY <1>0, <1>4, <1>5, <1>6, <1>7

(* A network that was found missing is made: another of its name, if it has been made since. *)
LEMMA CreateNetworkKeeps ==
  ASSUME OptionsInv, NEW k \in Creators, CreateNetwork(k)
  PROVE  OptionsInv'
<1>1. creator[k].pc = "make network" /\ creator[k].at \in Nat \ {0} /\ creator[k].services \in {Raw, ReadyServices}
  BY ClientTypes DEF OptionsInv, CreateNetwork, At
<1>2. PICK a \in Nat \ {0}, s \in {Raw, ReadyServices} : a = creator[k].at /\ s = creator[k].services
  BY <1>1
<1>3. ClientInv("make network", a, s)
  BY <1>1, <1>2 DEF OptionsInv, ClientsInv
<1>4. CASE Then(k, "failed") /\ UNCHANGED nets
  <2>1. UNCHANGED <<optionCase, nets, kept, made>>
    BY <1>4 DEF CreateNetwork
  <2> QED BY <1>4, <2>1, FailedKept
<1>5. CASE /\ nets' = [n \in DOMAIN nets \cup {Net(k).name} |-> Count(n) + IF n = Net(k).name THEN 1 ELSE 0]
           /\ creator' = [creator EXCEPT ![k].pc = "network", ![k].at = @ + 1]
  <2>1. Changed(k, "network", a + 1, s)
    BY <1>2, <1>5, MadeChanges DEF OptionsInv, OptionSteps
  <2>2. /\ Creators' = Creators /\ Creators = 1 .. optionCase.clients
        /\ \A l \in Creators : l # k => creator'[l] = creator[l]
        /\ creator'[k].pc = "network" /\ creator'[k].at = a + 1 /\ creator'[k].services = s
    BY <2>1, ClientChanges DEF OptionsInv
  <2>3. UNCHANGED <<optionCase, kept, made>> /\ Raw' = Raw /\ Networks' = Networks /\ Volumes' = Volumes /\ ReadyServices' = ReadyServices
    BY DEF CreateNetwork, Raw, Networks, Volumes, ReadyServices, Prepared, getVolumesFrom
  <2>4. (\A x : CountBefore(x)' = CountBefore(x)) /\ (\A x : VolumesFromKnown(x)' = VolumesFromKnown(x))
    BY <2>3 DEF CountBefore, VolumesFromKnown
  <2>5. PICK w : w = Networks[a].name /\ w = Net(k).name
    BY <1>2 DEF Networks, Net
  <2>6. \A x : Count(x) \in Nat
    BY CountIsNat DEF OptionsInv
  <2>7. \A x : Count(x)' = IF x = w THEN Count(x) + 1 ELSE Count(x)
    <3> SUFFICES ASSUME NEW x PROVE Count(x)' = IF x = w THEN Count(x) + 1 ELSE Count(x)
      OBVIOUS
    <3>1. CASE x = w
      <4>1. nets'[w] = Count(w) + 1 /\ w \in DOMAIN nets'
        BY <1>5, <2>5
      <4> QED BY <3>1, <4>1 DEF Count
    <3>2. CASE x # w /\ x \in DOMAIN nets
      <4>1. nets'[x] = Count(x) + 0 /\ x \in DOMAIN nets'
        BY <1>5, <2>5, <3>2
      <4> QED BY <2>6, <3>2, <4>1 DEF Count
    <3>3. CASE x # w /\ x \notin DOMAIN nets
      <4>1. x \notin DOMAIN nets'
        BY <1>5, <2>5, <3>3
      <4> QED BY <3>3, <4>1 DEF Count
    <3> QED BY <3>1, <3>2, <3>3
  <2>8. a \in DOMAIN Networks /\ ~Networks[a].external /\ (Cardinality(Creators) = 1 => Count(w) = 0)
    BY <1>3, <2>5 DEF ClientInv
  <2>9. OptionTypes'
    <3>1. creator' \in [1 .. optionCase.clients -> [pc : OptionSteps, at : Nat \ {0}, services : {Raw, ReadyServices}]]
      <4>1. [pc |-> "network", at |-> a + 1, services |-> s] \in [pc : OptionSteps, at : Nat \ {0}, services : {Raw, ReadyServices}]
        BY <1>2 DEF OptionSteps
      <4> QED BY <2>1, <4>1 DEF OptionsInv, OptionTypes, Changed
    <3>2. ASSUME NEW n \in DOMAIN nets' PROVE nets'[n] \in Nat
      <4>1. nets'[n] = Count(n)'
        BY DEF Count
      <4> QED BY <2>6, <2>7, <4>1
    <3> QED BY <2>3, <3>1, <3>2 DEF OptionsInv, OptionTypes
  <2>10. ASSUME NEW p1, NEW a1, NEW s1, ClientInv(p1, a1, s1), p1 = "make network" => Cardinality(Creators) # 1
         PROVE  ClientInv(p1, a1, s1)'
    <3>1. p1 \notin {"prepare", "failed"} => s1 = ReadyServices' /\ \A x \in Range(Raw') : VolumesFromKnown(x)'
      BY <2>3, <2>4, <2>10 DEF ClientInv
    <3>2. ASSUME NEW i \in DOMAIN Networks, NetDue(p1, a1, i) PROVE Count(Networks[i].name)' > 0
      <4>1. PICK x : x = Networks[i].name
        OBVIOUS
      <4>2. Count(x) > 0
        BY <2>10, <3>2, <4>1 DEF ClientInv
      <4>3. Count(x)' > 0
        BY <2>6, <2>7, <4>2
      <4> QED BY <2>3, <4>1, <4>3
    <3> QED BY <2>2, <2>3, <2>10, <3>1, <3>2 DEF ClientInv, NetDue, VolDue
  <2>11. ClientsInv'
    <3>1. ASSUME NEW l \in Creators, l # k PROVE ClientInv(creator[l].pc, creator[l].at, creator[l].services)'
      <4>1. PICK p1, a1, s1 : p1 = creator[l].pc /\ a1 = creator[l].at /\ s1 = creator[l].services
        OBVIOUS
      <4>2. ClientInv(p1, a1, s1)
        BY <4>1 DEF OptionsInv, ClientsInv
      <4>3. Cardinality(Creators) # 1
        BY <3>1, OneCreator DEF OptionsInv
      <4>4. ClientInv(p1, a1, s1)'
        BY <2>10, <4>2, <4>3
      <4> QED BY <2>2, <3>1, <4>1, <4>4
    <3>2. ClientInv("network", a + 1, s)'
      <4>1. ASSUME NEW i \in DOMAIN Networks, i < a + 1 PROVE Count(Networks[i].name)' > 0
        <5>1. PICK x : x = Networks[i].name
          OBVIOUS
        <5>2. i < a \/ i = a
          BY <1>2, <4>1, ListsOfProject DEF OptionsInv
        <5>3. Count(x) > 0 \/ x = w
          BY <1>3, <2>5, <5>1, <5>2 DEF ClientInv, NetDue
        <5>4. Count(x)' > 0
          BY <2>6, <2>7, <5>3
        <5> QED BY <2>3, <5>1, <5>4
      <4> QED BY <1>3, <2>3, <2>4, <4>1 DEF ClientInv, NetDue, VolDue, Passed
    <3> QED BY <2>2, <3>1, <3>2 DEF ClientsInv
  <2>12. CountInv'
    <3>1. ASSUME Cardinality(Creators) = 1, NEW x PROVE Count(x)' \in {1, CountBefore(x)}
      BY <2>6, <2>7, <2>8, <3>1 DEF OptionsInv, CountInv
    <3>2. ASSUME NEW n \in Range(Networks), n.external PROVE Count(n.name)' = CountBefore(n.name)
      <4>1. n.name # w
        <5>1. Networks[a] \in Range(Networks)
          BY <2>8 DEF Range
        <5>2. \A m \in Range(Networks) : m.name = n.name => m.external = n.external
          BY <3>2, OptionsAssumption DEF OptionsInv, OptionTypes, Networks
        <5> QED BY <2>5, <2>8, <3>2, <5>1, <5>2
      <4>2. Count(n.name) = CountBefore(n.name)
        BY <3>2 DEF OptionsInv, CountInv
      <4> QED BY <2>7, <4>1, <4>2
    <3> QED BY <2>2, <2>3, <2>4, <3>1, <3>2 DEF CountInv
  <2>13. KeptInv' /\ MadeInv'
    BY <2>2, <2>3, AskedKept DEF OptionsInv, KeptInv, MadeInv
  <2> QED BY <2>9, <2>11, <2>12, <2>13 DEF OptionsInv
<1> QED BY <1>4, <1>5 DEF CreateNetwork

(* A volume that is there is passed over, the last one is followed by the containers. *)
LEMMA InspectVolumeKeeps ==
  ASSUME OptionsInv, NEW k \in Creators, InspectVolume(k)
  PROVE  OptionsInv'
<1>0. CASE Then(k, "failed")
  BY <1>0, FailedKept DEF InspectVolume
<1>1. creator[k].pc = "volume" /\ creator[k].at \in Nat \ {0} /\ creator[k].services \in {Raw, ReadyServices}
  BY ClientTypes DEF OptionsInv, InspectVolume, At
<1>2. ClientInv("volume", creator[k].at, creator[k].services)
  BY <1>1 DEF OptionsInv, ClientsInv
<1>3. PICK a \in Nat \ {0}, s \in {Raw, ReadyServices} : a = creator[k].at /\ s = creator[k].services
  BY <1>1
<1>4. DOMAIN Volumes = 1 .. Len(Volumes) /\ Len(Volumes) \in Nat
  BY ListsOfProject DEF OptionsInv
<1>5. CASE a > Len(Volumes) /\ ~Then(k, "failed")
  <2>1. Changed(k, "container", 1, s)
    <3>1. Then(k, "container")
      <4>1. creator[k].at > Len(optionCase.volumes) /\ ~(creator[k].at <= Len(optionCase.volumes))
        BY <1>3, <1>4, <1>5 DEF Volumes
      <4> QED BY <1>5, <4>1 DEF InspectVolume
    <3> QED BY <1>3, <3>1, ThenChanges DEF OptionsInv, OptionSteps, Passed
  <2>2. \A i \in DOMAIN Volumes : i < a
    BY <1>3, <1>4, <1>5
  <2>3. ClientInv("container", 1, s)
    BY <1>2, <1>3, <2>2 DEF ClientInv, NetDue, VolDue, Passed
  <2>4. ClientType("container", 1, s)
    BY <1>3 DEF ClientType, OptionSteps, Passed
  <2> QED BY <2>1, <2>3, <2>4, ClientKept DEF InspectVolume
<1>6. CASE a <= Len(Volumes) /\ Volumes[a].name \in DOMAIN kept /\ ~Then(k, "failed")
  <2>1. Onward(k)
    <3>1. ~(creator[k].at > Len(optionCase.volumes)) /\ creator[k].at <= Len(optionCase.volumes) /\ Volume(k).name \in DOMAIN kept
      BY <1>3, <1>4, <1>6 DEF Volumes, Volume
    <3> QED BY <1>6, <3>1 DEF InspectVolume
  <2>2. Changed(k, "volume", a + 1, s)
    BY <1>1, <1>3, <2>1, OnwardChanges DEF OptionsInv
  <2>3. \A i \in DOMAIN Volumes : i < a + 1 => i < a \/ i = a
    BY <1>3, <1>4
  <2>4. ClientInv("volume", a + 1, s)
    BY <1>2, <1>3, <1>6, <2>3 DEF ClientInv, NetDue, VolDue, Passed
  <2>5. ClientType("volume", a + 1, s)
    BY <1>3 DEF ClientType, OptionSteps, Passed
  <2> QED BY <2>2, <2>4, <2>5, ClientKept DEF InspectVolume
<1>7. CASE a <= Len(Volumes) /\ Volumes[a].name \notin DOMAIN kept /\ ~Then(k, "failed")
  <2>1. creator' = [creator EXCEPT ![k].pc = "make volume"]
    <3>1. ~(creator[k].at > Len(optionCase.volumes)) /\ ~(Volume(k).name \in DOMAIN kept)
      BY <1>3, <1>4, <1>7 DEF Volumes, Volume
    <3> QED BY <1>7, <3>1 DEF InspectVolume
  <2>2. Changed(k, "make volume", a, s)
    BY <1>3, <2>1, StepChanges DEF OptionsInv, OptionSteps, Passed
  <2>3. ClientInv("make volume", a, s)
    BY <1>2, <1>3, <1>4, <1>7 DEF ClientInv, NetDue, VolDue, Passed
  <2>4. ClientType("make volume", a, s)
    BY <1>3 DEF ClientType, OptionSteps, Passed
  <2> QED BY <2>2, <2>3, <2>4, ClientKept DEF InspectVolume
<1> QED BY <1>0, <1>4, <1>5, <1>6, <1>7

(* A volume that was found missing is made, or was made by another since. *)
LEMMA CreateVolumeKeeps ==
  ASSUME OptionsInv, NEW k \in Creators, CreateVolume(k)
  PROVE  OptionsInv'
<1>1. creator[k].pc = "make volume" /\ creator[k].at \in Nat \ {0} /\ creator[k].services \in {Raw, ReadyServices}
  BY ClientTypes DEF OptionsInv, CreateVolume, At
<1>2. PICK a \in Nat \ {0}, s \in {Raw, ReadyServices} : a = creator[k].at /\ s = creator[k].services
  BY <1>1
<1>3. ClientInv("make volume", a, s)
  BY <1>1, <1>2 DEF OptionsInv, ClientsInv
<1>4. CASE Then(k, "failed") /\ UNCHANGED kept
  <2>1. UNCHANGED <<optionCase, nets, kept, made>>
    BY <1>4 DEF CreateVolume
  <2> QED BY <1>4, <2>1, FailedKept
<1>5. CASE /\ kept' = [n \in DOMAIN kept \cup {Volume(k).name} |-> IF n \in DOMAIN kept THEN kept[n] ELSE <<"project", k>>]
           /\ creator' = [creator EXCEPT ![k].pc = "volume", ![k].at = @ + 1]
  <2>1. Changed(k, "volume", a + 1, s)
    BY <1>2, <1>5, MadeChanges DEF OptionsInv, OptionSteps, Passed
  <2>2. /\ Creators' = Creators /\ Creators = 1 .. optionCase.clients
        /\ \A l \in Creators : l # k => creator'[l] = creator[l]
        /\ creator'[k].pc = "volume" /\ creator'[k].at = a + 1 /\ creator'[k].services = s
    BY <2>1, ClientChanges DEF OptionsInv
  <2>3. UNCHANGED <<optionCase, nets, made>> /\ Raw' = Raw /\ Networks' = Networks /\ Volumes' = Volumes /\ ReadyServices' = ReadyServices
    BY DEF CreateVolume, Raw, Networks, Volumes, ReadyServices, Prepared, getVolumesFrom
  <2>4. (\A x : Count(x)' = Count(x)) /\ (\A x : CountBefore(x)' = CountBefore(x)) /\ (\A x : VolumesFromKnown(x)' = VolumesFromKnown(x))
    BY <2>3 DEF Count, CountBefore, VolumesFromKnown
  <2>5. \A v \in DOMAIN kept : v \in DOMAIN kept' /\ kept'[v] = kept[v]
    BY <1>5
  <2>6. a \in DOMAIN Volumes /\ Volumes[a].name \in DOMAIN kept'
    BY <1>2, <1>3, <1>5 DEF ClientInv, Volume, Volumes
  <2>7. OptionTypes'
    <3>1. creator' \in [1 .. optionCase.clients -> [pc : OptionSteps, at : Nat \ {0}, services : {Raw, ReadyServices}]]
      <4>1. [pc |-> "volume", at |-> a + 1, services |-> s] \in [pc : OptionSteps, at : Nat \ {0}, services : {Raw, ReadyServices}]
        BY <1>2 DEF OptionSteps, Passed
      <4> QED BY <2>1, <4>1 DEF OptionsInv, OptionTypes, Changed
    <3> QED BY <2>3, <3>1 DEF OptionsInv, OptionTypes
  <2>8. ASSUME NEW p1, NEW a1, NEW s1, ClientInv(p1, a1, s1)
        PROVE  ClientInv(p1, a1, s1)'
    <3>1. p1 \notin {"prepare", "failed"} => s1 = ReadyServices' /\ \A x \in Range(Raw') : VolumesFromKnown(x)'
      BY <2>3, <2>4, <2>8 DEF ClientInv
    <3>2. (\A i \in DOMAIN Networks : NetDue(p1, a1, i) => Count(Networks[i].name) > 0)'
      BY <2>3, <2>8 DEF ClientInv, Networks, Count, NetDue, Passed
    <3>3. \A i \in DOMAIN Volumes : VolDue(p1, a1, i) => Volumes[i].name \in DOMAIN kept'
      BY <2>5, <2>8 DEF ClientInv
    <3> QED BY <2>2, <2>3, <2>4, <2>8, <3>1, <3>2, <3>3 DEF ClientInv, NetDue, VolDue
  <2>9. ClientsInv'
    <3>1. ASSUME NEW l \in Creators, l # k PROVE ClientInv(creator[l].pc, creator[l].at, creator[l].services)'
      <4>1. PICK p1, a1, s1 : p1 = creator[l].pc /\ a1 = creator[l].at /\ s1 = creator[l].services
        OBVIOUS
      <4>2. ClientInv(p1, a1, s1)
        BY <4>1 DEF OptionsInv, ClientsInv
      <4>3. ClientInv(p1, a1, s1)'
        BY <2>8, <4>2
      <4> QED BY <2>2, <3>1, <4>1, <4>3
    <3>2. ClientInv("volume", a + 1, s)'
      <4>1. ClientInv("make volume", a, s)'
        BY <1>3, <2>8
      <4>2. ASSUME NEW i \in DOMAIN Volumes, i < a + 1 PROVE Volumes[i].name \in DOMAIN kept'
        <5>1. i < a \/ i = a
          BY <1>2, <4>2, ListsOfProject DEF OptionsInv
        <5> QED BY <1>3, <2>5, <2>6, <5>1 DEF ClientInv, VolDue
      <4> QED BY <2>3, <4>1, <4>2 DEF ClientInv, NetDue, VolDue, Passed
    <3> QED BY <2>2, <3>1, <3>2 DEF ClientsInv
  <2>10. CountInv'
    BY <2>2, <2>3, <2>4 DEF OptionsInv, CountInv
  <2>11. KeptInv' /\ MadeInv'
    BY <2>2, <2>3, <2>5, AskedKept DEF OptionsInv, KeptInv, MadeInv
  <2> QED BY <2>7, <2>9, <2>10, <2>11 DEF OptionsInv
<1> QED BY <1>4, <1>5 DEF CreateVolume

(* The container is asked for. *)
LEMMA GetCreateOptionsKeeps ==
  ASSUME OptionsInv, NEW k \in Creators, getCreateOptions(k)
  PROVE  OptionsInv'
<1>1. creator[k].pc = "container" /\ creator[k].services \in {Raw, ReadyServices}
  BY ClientTypes DEF OptionsInv, getCreateOptions, At
<1>2. PICK s \in {Raw, ReadyServices} : s = creator[k].services
  BY <1>1
<1>3. ClientInv("container", creator[k].at, s)
  BY <1>1, <1>2 DEF OptionsInv, ClientsInv
<1>4. CASE Then(k, "failed") /\ UNCHANGED made
  <2>1. UNCHANGED <<optionCase, nets, kept, made>>
    BY <1>4 DEF getCreateOptions
  <2> QED BY <1>4, <2>1, FailedKept
<1>5. CASE Then(k, "ok") /\ \E mode \in getNetworkMode(creator[k].services[1]) : made' = [made EXCEPT ![k] = Asked(creator[k].services[1], mode)]
  <2>1. s = ReadyServices
    BY <1>3 DEF ClientInv
  <2>2. Changed(k, "ok", 1, s)
    BY <1>2, <1>5, ThenChanges DEF OptionsInv, OptionSteps, Passed
  <2>3. /\ Creators' = Creators /\ Creators = 1 .. optionCase.clients
        /\ \A l \in Creators : l # k => creator'[l] = creator[l]
        /\ creator'[k].pc = "ok" /\ creator'[k].at = 1 /\ creator'[k].services = s
    BY <2>2, ClientChanges DEF OptionsInv
  <2>4. UNCHANGED <<optionCase, nets, kept>> /\ Raw' = Raw /\ Networks' = Networks /\ Volumes' = Volumes /\ ReadyServices' = ReadyServices
    BY DEF getCreateOptions, Raw, Networks, Volumes, ReadyServices, Prepared, getVolumesFrom
  <2>5. (\A x : Count(x)' = Count(x)) /\ (\A x : CountBefore(x)' = CountBefore(x)) /\ (\A x : VolumesFromKnown(x)' = VolumesFromKnown(x))
    BY <2>4 DEF Count, CountBefore, VolumesFromKnown
  <2>6. PICK mode \in getNetworkMode(ReadyServices[1]) : made' = [made EXCEPT ![k] = Asked(ReadyServices[1], mode)]
    BY <1>2, <1>5, <2>1
  <2>7. PICK asked : asked = Asked(ReadyServices[1], mode) /\ made' = [made EXCEPT ![k] = asked]
    BY <2>6
  <2>8. made'[k] = asked /\ \A l \in Creators : l # k => made'[l] = made[l]
    BY <2>3, <2>7 DEF OptionsInv, OptionTypes
  <2>9. OptionTypes'
    <3>1. creator' \in [1 .. optionCase.clients -> [pc : OptionSteps, at : Nat \ {0}, services : {Raw, ReadyServices}]]
      <4>1. [pc |-> "ok", at |-> 1, services |-> s] \in [pc : OptionSteps, at : Nat \ {0}, services : {Raw, ReadyServices}]
        BY <1>2 DEF OptionSteps, Passed
      <4> QED BY <2>2, <4>1 DEF OptionsInv, OptionTypes, Changed
    <3>2. made' = [l \in 1 .. optionCase.clients |-> made'[l]]
      BY <2>7 DEF OptionsInv, OptionTypes
    <3> QED BY <2>4, <3>1, <3>2 DEF OptionsInv, OptionTypes
  <2>10. ASSUME NEW p1, NEW a1, NEW s1, ClientInv(p1, a1, s1)
         PROVE  ClientInv(p1, a1, s1)'
    <3>1. p1 \notin {"prepare", "failed"} => s1 = ReadyServices' /\ \A x \in Range(Raw') : VolumesFromKnown(x)'
      BY <2>4, <2>5, <2>10 DEF ClientInv
    <3>2. (\A i \in DOMAIN Networks : NetDue(p1, a1, i) => Count(Networks[i].name) > 0)'
      BY <2>4, <2>10 DEF ClientInv, Networks, Count, NetDue, Passed
    <3> QED BY <2>3, <2>4, <2>5, <2>10, <3>1, <3>2 DEF ClientInv, NetDue, VolDue
  <2>11. ClientsInv'
    <3>1. ASSUME NEW l \in Creators, l # k PROVE ClientInv(creator[l].pc, creator[l].at, creator[l].services)'
      <4>1. PICK p1, a1, s1 : p1 = creator[l].pc /\ a1 = creator[l].at /\ s1 = creator[l].services
        OBVIOUS
      <4>2. ClientInv(p1, a1, s1)
        BY <4>1 DEF OptionsInv, ClientsInv
      <4>3. ClientInv(p1, a1, s1)'
        BY <2>10, <4>2
      <4> QED BY <2>3, <3>1, <4>1, <4>3
    <3>2. ClientInv("ok", 1, s)'
      <4>1. ClientInv("ok", 1, s)
        BY <1>3 DEF ClientInv, NetDue, VolDue, Passed
      <4> QED BY <2>10, <4>1
    <3> QED BY <2>3, <3>1, <3>2 DEF ClientsInv
  <2>12. CountInv' /\ KeptInv'
    BY <2>3, <2>4, <2>5 DEF OptionsInv, CountInv, KeptInv
  <2>13. MadeInv'
    <3>1. getNetworkMode(ReadyServices[1])' = getNetworkMode(ReadyServices[1]) /\ \A m : Asked(ReadyServices[1], m)' = Asked(ReadyServices[1], m)
      <4>1. PICK x : x = ReadyServices[1] /\ x = ReadyServices'[1]
        BY <2>4
      <4>2. getNetworkMode(x)' = getNetworkMode(x) /\ \A m : Asked(x, m)' = Asked(x, m)
        BY <2>4, AskedKept
      <4> QED BY <4>1, <4>2
    <3>2. ASSUME NEW l \in Creators, creator'[l].pc = "ok" PROVE \E m \in getNetworkMode(ReadyServices[1]) : made'[l] = Asked(ReadyServices[1], m)
      BY <2>3, <2>7, <2>8, <3>2 DEF OptionsInv, MadeInv
    <3> QED BY <2>3, <3>1, <3>2 DEF MadeInv
  <2> QED BY <2>9, <2>11, <2>12, <2>13 DEF OptionsInv
<1> QED BY <1>4, <1>5 DEF getCreateOptions, Asked

LEMMA OptionsBegin == OptionsInit => OptionsInv
<1> SUFFICES ASSUME OptionsInit PROVE OptionsInv
  OBVIOUS
<1>1. PICK n : n = optionCase.clients
  OBVIOUS
<1>2. /\ creator = [k \in 1 .. n |-> [pc |-> "prepare", at |-> 1, services |-> Raw]] /\ Creators = 1 .. n
      /\ made = [k \in 1 .. n |-> NoContainer] /\ optionCase \in OptionCases
  BY <1>1 DEF OptionsInit, Raw, Creators
<1>3. OptionTypes
  <2>1. [pc |-> "prepare", at |-> 1, services |-> Raw] \in [pc : OptionSteps, at : Nat \ {0}, services : {Raw, ReadyServices}]
    BY DEF OptionSteps
  <2>2. \A x \in DOMAIN nets : nets[x] \in Nat
    BY OptionsAssumption DEF OptionsInit
  <2>3. made = [k \in 1 .. n |-> made[k]]
    BY <1>2
  <2> QED BY <1>1, <1>2, <2>1, <2>2, <2>3 DEF OptionTypes
<1>4. \A k \in Creators : creator[k].pc = "prepare" /\ creator[k].services = Raw
  BY <1>2
<1>5. ClientsInv
  BY <1>4 DEF ClientsInv, ClientInv, NetDue, VolDue, Passed
<1>6. CountInv /\ KeptInv /\ MadeInv
  BY <1>4 DEF OptionsInit, CountInv, Count, CountBefore, KeptInv, MadeInv
<1> QED BY <1>3, <1>5, <1>6 DEF OptionsInv

IsGiven(g, mounts) ==
    /\ g.volumes = { t \in DOMAIN mounts : mounts[t].type = "volume" }
    /\ g.binds = { <<mounts[t].source, t, "rw">> : t \in { x \in g.volumes : mounts[x].source # "no name" } }
    /\ g.mounts = { mounts[t] : t \in { x \in DOMAIN mounts : mounts[x].type \in {"bind", "tmpfs"} } }

(* The mounts as they are given to the engine. *)
LEMMA MountsGiven ==
  ASSUME NEW s, NEW mounts, mounts = buildContainerMountOptions(s), NEW g, g = buildContainerVolumes(s)
  PROVE  IsGiven(g, mounts)
<1>1. PICK vs, bs, ms : /\ vs = { t \in DOMAIN mounts : mounts[t].type = "volume" }
                        /\ bs = { <<mounts[t].source, t, "rw">> : t \in { x \in vs : mounts[x].source # "no name" } }
                        /\ ms = { mounts[t] : t \in { x \in DOMAIN mounts : mounts[x].type \in {"bind", "tmpfs"} } }
  OBVIOUS
<1>2. vs = { t \in DOMAIN mounts : mounts[t].type \in {"volume"} }
  BY <1>1
<1>3. g = [volumes |-> vs, binds |-> bs, mounts |-> ms]
  BY <1>1, <1>2 DEF buildContainerVolumes
<1>4. g.volumes = vs /\ g.binds = bs /\ g.mounts = ms
  BY <1>3
<1> QED BY <1>1, <1>4 DEF IsGiven

MountsAre(s, given) ==
    /\ OneAtEachPlace(given)
    /\ \A v \in s.volumes : IsMounted(v, given)
    /\ \A m \in s.inherit : m.type = "volume" /\ m.target \notin { v.target : v \in s.volumes } =>
          (<<m.name, m.target, "rw">> \in given.binds <=> m.target \notin s.imageVolumes)

(* Every mount is at its place. *)
Placed(mounts) == \A t \in DOMAIN mounts : mounts[t].target = t

(* What is given to the engine at a place is made of the mount there. *)
LEMMA GivenAtPlace ==
  ASSUME NEW mounts, NEW given, IsGiven(given, mounts), Placed(mounts), NEW t
  PROVE  /\ t \in given.volumes <=> t \in DOMAIN mounts /\ mounts[t].type = "volume"
         /\ BindsAt(given, t) = IF t \in given.volumes /\ mounts[t].source # "no name" THEN {<<mounts[t].source, t, "rw">>} ELSE {}
         /\ MountsAt(given, t) = IF t \in DOMAIN mounts /\ mounts[t].type \in {"bind", "tmpfs"} THEN {mounts[t]} ELSE {}
<1>1. PICK vs, bs, ms : vs = given.volumes /\ bs = given.binds /\ ms = given.mounts
  OBVIOUS
<1>2. /\ vs = { x \in DOMAIN mounts : mounts[x].type = "volume" }
      /\ bs = { <<mounts[x].source, x, "rw">> : x \in { y \in vs : mounts[y].source # "no name" } }
      /\ ms = { mounts[x] : x \in { y \in DOMAIN mounts : mounts[y].type \in {"bind", "tmpfs"} } }
  BY <1>1 DEF IsGiven
<1>3. { b \in bs : b[2] = t } = IF t \in vs /\ mounts[t].source # "no name" THEN {<<mounts[t].source, t, "rw">>} ELSE {}
  <2>1. \A b \in bs : \E x \in vs : mounts[x].source # "no name" /\ b = <<mounts[x].source, x, "rw">> /\ b[2] = x
    <3> SUFFICES ASSUME NEW b \in bs PROVE \E x \in vs : mounts[x].source # "no name" /\ b = <<mounts[x].source, x, "rw">> /\ b[2] = x
      OBVIOUS
    <3>1. PICK x \in vs : mounts[x].source # "no name" /\ b = <<mounts[x].source, x, "rw">>
      BY <1>2
    <3>2. PICK y : y = mounts[x].source
      OBVIOUS
    <3>3. <<y, x, "rw">>[2] = x
      OBVIOUS
    <3> QED BY <3>1, <3>2, <3>3
  <2>2. t \in vs /\ mounts[t].source # "no name" => <<mounts[t].source, t, "rw">> \in bs
    BY <1>2
  <2> QED BY <2>1, <2>2
<1>4. { m \in ms : m.target = t } = IF t \in DOMAIN mounts /\ mounts[t].type \in {"bind", "tmpfs"} THEN {mounts[t]} ELSE {}
  <2>1. \A m \in ms : \E x \in DOMAIN mounts : mounts[x].type \in {"bind", "tmpfs"} /\ m = mounts[x] /\ m.target = x
    BY <1>2 DEF Placed
  <2>2. t \in DOMAIN mounts /\ mounts[t].type \in {"bind", "tmpfs"} => mounts[t] \in ms /\ mounts[t].target = t
    BY <1>2 DEF Placed
  <2> QED BY <2>1, <2>2
<1> QED BY <1>1, <1>2, <1>3, <1>4 DEF BindsAt, MountsAt

(* The engine is told of one mount at a place. *)
LEMMA OneGivenAtEachPlace ==
  ASSUME NEW mounts, NEW given, IsGiven(given, mounts), Placed(mounts)
  PROVE  OneAtEachPlace(given)
<1>1. PICK vs, bs, ms : vs = given.volumes /\ bs = given.binds /\ ms = given.mounts
  OBVIOUS
<1>2. /\ vs = { x \in DOMAIN mounts : mounts[x].type = "volume" }
      /\ bs = { <<mounts[x].source, x, "rw">> : x \in { y \in vs : mounts[y].source # "no name" } }
      /\ ms = { mounts[x] : x \in { y \in DOMAIN mounts : mounts[y].type \in {"bind", "tmpfs"} } }
  BY <1>1 DEF IsGiven
<1>3. \A b \in bs : \E x \in vs : b = <<mounts[x].source, x, "rw">> /\ b[2] = x
  <2> SUFFICES ASSUME NEW b \in bs PROVE \E x \in vs : b = <<mounts[x].source, x, "rw">> /\ b[2] = x
    OBVIOUS
  <2>1. PICK x \in vs : b = <<mounts[x].source, x, "rw">>
    BY <1>2
  <2>2. PICK y : y = mounts[x].source
    OBVIOUS
  <2>3. <<y, x, "rw">>[2] = x
    OBVIOUS
  <2> QED BY <2>1, <2>2, <2>3
<1>4. \A m \in ms : \E x \in DOMAIN mounts : x \notin vs /\ m = mounts[x] /\ m.target = x
  BY <1>2 DEF Placed
<1>5. (\A b, c \in bs : b[2] = c[2] => b = c) /\ (\A b \in bs : b[2] \in vs)
  BY <1>3
<1>6. OnePlaceEach(ms) /\ \A m \in ms : m.target \notin vs
  BY <1>4 DEF OnePlaceEach
<1> QED BY <1>1, <1>5, <1>6 DEF OneAtEachPlace

(* The mount that is chosen at a place is at that place. *)
LEMMA MountsPlaced ==
  ASSUME NEW s
  PROVE  Placed(buildContainerMountOptions(s))
<1>1. ASSUME NEW ms, NEW t \in Targets(ms) PROVE MountAt(ms, t).target = t
  <2>1. \E m \in ms : m.target = t
    BY <1>1 DEF Targets
  <2> QED BY <2>1 DEF MountAt
<1>2. ASSUME NEW a, NEW b, NEW c, NEW d PROVE Placed(OnePerPlace(a, b, c, d))
  <2>1. PICK f : f = OnePerPlace(a, b, c, d)
    OBVIOUS
  <2>2. DOMAIN f = Targets(a \cup b \cup c \cup d)
    BY <2>1 DEF OnePerPlace
  <2>3. ASSUME NEW t \in DOMAIN f PROVE f[t].target = t
    <3>1. t \in Targets(a) \/ t \in Targets(b) \/ t \in Targets(c) \/ t \in Targets(d)
      BY <2>2, <2>3 DEF Targets
    <3>2. CASE t \in Targets(a)
      <4>1. f[t] = MountAt(a, t)
        BY <2>1, <2>2, <3>2 DEF OnePerPlace
      <4> QED BY <1>1, <3>2, <4>1
    <3>3. CASE t \in Targets(b) /\ t \notin Targets(a)
      <4>1. f[t] = MountAt(b, t)
        BY <2>1, <2>2, <3>3 DEF OnePerPlace
      <4> QED BY <1>1, <3>3, <4>1
    <3>4. CASE t \in Targets(c) /\ t \notin Targets(a) /\ t \notin Targets(b)
      <4>1. f[t] = MountAt(c, t)
        BY <2>1, <2>2, <3>4 DEF OnePerPlace
      <4> QED BY <1>1, <3>4, <4>1
    <3>5. CASE t \in Targets(d) /\ t \notin Targets(a) /\ t \notin Targets(b) /\ t \notin Targets(c)
      <4>1. f[t] = MountAt(d, t)
        BY <2>1, <2>2, <3>5 DEF OnePerPlace
      <4> QED BY <1>1, <3>5, <4>1
    <3> QED BY <3>1, <3>2, <3>3, <3>4, <3>5
  <2> QED BY <2>1, <2>3 DEF Placed
<1> QED BY <1>2 DEF buildContainerMountOptions

(* What the engine is told to mount, from the volumes of the service, its image and the container it replaces. *)
LEMMA MountsOfContainer ==
  ASSUME NEW s, OnePlaceEach(s.volumes), OnePlaceEach(s.inherit), \A m \in s.inherit : m.type = "volume" => m.name # "no name",
         NEW given, given = buildContainerVolumes(s)
  PROVE  MountsAre(s, given)
<1>0. PICK mounts : mounts = buildContainerMountOptions(s)
  OBVIOUS
<1>1. Targets(Own(s)) = { v.target : v \in s.volumes }
  <2>1. \A v : buildMount(v).target = v.target
    BY DEF buildMount, Mount
  <2> QED BY <2>1 DEF Targets, Own
<1>2. Targets(ImageMounts(s)) = s.imageVolumes /\ \A m \in ImageMounts(s) : m.type = "volume" /\ m.source = "no name"
  <2>1. \A t : Mount("volume", "no name", t, FALSE).target = t
    BY DEF Mount
  <2>2. \A m \in ImageMounts(s) : m.target \in s.imageVolumes
    BY <2>1 DEF ImageMounts
  <2>3. \A t \in s.imageVolumes : Mount("volume", "no name", t, FALSE) \in ImageMounts(s)
    BY DEF ImageMounts
  <2>4. s.imageVolumes \subseteq Targets(ImageMounts(s))
    BY <2>1, <2>3 DEF Targets
  <2>5. Targets(ImageMounts(s)) \subseteq s.imageVolumes
    BY <2>2 DEF Targets
  <2>6. \A m \in ImageMounts(s) : m.type = "volume" /\ m.source = "no name"
    <3> SUFFICES ASSUME NEW m \in ImageMounts(s) PROVE m.type = "volume" /\ m.source = "no name"
      OBVIOUS
    <3>1. PICK t, v, n : m = Mount(v, n, t, FALSE) /\ v = "volume" /\ n = "no name"
      BY DEF ImageMounts
    <3>2. m.type = v /\ m.source = n
      BY <3>1 DEF Mount
    <3> QED BY <3>1, <3>2
  <2> QED BY <2>4, <2>5, <2>6
<1>3. IsGiven(given, mounts) /\ Placed(mounts)
  BY <1>0, MountsGiven, MountsPlaced
<1>5. ASSUME NEW m \in s.inherit, m.type = "volume", m.target \notin { v.target : v \in s.volumes }
      PROVE  <<m.name, m.target, "rw">> \in given.binds <=> m.target \notin s.imageVolumes
  <2>0. PICK t, n : t = m.target /\ n = m.name
    OBVIOUS
  <2>1. <<n, t, "rw">> \in given.binds <=> <<n, t, "rw">> \in BindsAt(given, t)
    BY DEF BindsAt
  <2>2. CASE t \in s.imageVolumes
    <3>1. PICK i : i = MountAt(ImageMounts(s), t) /\ i \in ImageMounts(s)
      BY <1>2, <2>2 DEF MountAt, Targets
    <3>2. mounts[t] = i /\ t \in DOMAIN mounts
      BY <1>0, <1>1, <1>2, <1>5, <2>0, <2>2, <3>1 DEF buildContainerMountOptions, OnePerPlace, Targets
    <3>3. i.source = "no name"
      BY <1>2, <3>1
    <3>4. BindsAt(given, t) = {}
      BY <1>3, <3>2, <3>3, GivenAtPlace
    <3> QED BY <2>0, <2>1, <2>2, <3>4
  <2>3. CASE t \notin s.imageVolumes
    <3>1. PICK i : i = Mount("volume", n, t, ~m.rw) /\ i.target = t /\ i.type = "volume" /\ i.source = n
      <4>1. PICK b : b = (~m.rw)
        OBVIOUS
      <4>2. PICK j : j = [type |-> "volume", source |-> n, target |-> t, readOnly |-> b]
        OBVIOUS
      <4>3. j.target = t /\ j.type = "volume" /\ j.source = n
        BY <4>2
      <4> QED BY <4>1, <4>2, <4>3 DEF Mount
    <3>2. i \in Inherited(s)
      BY <1>5, <2>0, <3>1 DEF Inherited, Mount
    <3>3. \A j \in Inherited(s) : j.target = t => j = i
      <4> SUFFICES ASSUME NEW j \in Inherited(s), j.target = t PROVE j = i
        OBVIOUS
      <4>1. PICK x \in s.inherit : x.type # "tmpfs" /\ j = Mount(x.type, IF x.type = "volume" THEN x.name ELSE x.source, x.target, ~x.rw)
        BY DEF Inherited
      <4>2. j.target = x.target
        BY <4>1 DEF Mount
      <4>3. x = m
        BY <2>0, <4>2 DEF OnePlaceEach
      <4> QED BY <1>5, <2>0, <3>1, <4>1, <4>3
    <3>4. t \notin Targets(Own(s)) /\ t \notin Targets(ImageMounts(s)) /\ t \in Targets(Inherited(s))
      BY <1>1, <1>2, <1>5, <2>0, <2>3, <3>1, <3>2 DEF Targets
    <3>5. MountAt(Inherited(s), t) = i
      BY <3>1, <3>2, <3>3 DEF MountAt
    <3>6. t \in DOMAIN mounts /\ mounts[t] = i
      BY <1>0, <3>4, <3>5 DEF buildContainerMountOptions, OnePerPlace, Targets
    <3>7. n # "no name"
      BY <1>5, <2>0
    <3>8. t \in given.volumes
      BY <1>3, <3>1, <3>6, GivenAtPlace
    <3>9. BindsAt(given, t) = {<<n, t, "rw">>}
      <4>1. BindsAt(given, t) = IF t \in given.volumes /\ mounts[t].source # "no name" THEN {<<mounts[t].source, t, "rw">>} ELSE {}
        BY <1>3, GivenAtPlace
      <4>2. mounts[t].source = n
        BY <3>1, <3>6
      <4> QED BY <3>7, <3>8, <4>1, <4>2
    <3> QED BY <2>0, <2>1, <2>3, <3>9
  <2> QED BY <2>2, <2>3
<1>6. ASSUME NEW v \in s.volumes PROVE IsMounted(v, given)
  <2>1. \A w \in s.volumes : buildMount(w).target = w.target
    BY DEF buildMount, Mount
  <2>2. \A j \in Own(s) : j.target = v.target => j = buildMount(v)
    <3> SUFFICES ASSUME NEW j \in Own(s), j.target = v.target PROVE j = buildMount(v)
      OBVIOUS
    <3>1. PICK w \in s.volumes : j = buildMount(w)
      BY DEF Own
    <3>2. w = v
      BY <2>1, <3>1 DEF OnePlaceEach
    <3> QED BY <3>1, <3>2
  <2>3. buildMount(v) \in Own(s) /\ v.target \in Targets(Own(s))
    BY <1>1 DEF Own
  <2>4. MountAt(Own(s), v.target) = buildMount(v)
    BY <2>1, <2>2, <2>3 DEF MountAt
  <2>5. v.target \in DOMAIN mounts /\ mounts[v.target] = MountAt(Own(s), v.target)
    BY <1>0, <2>3 DEF buildContainerMountOptions, OnePerPlace, Targets
  <2>6. PICK t, m : t = v.target /\ m = buildMount(v)
    OBVIOUS
  <2>7. m.type = v.type
    BY <2>6 DEF buildMount, Mount
  <2>8. t \in DOMAIN mounts /\ mounts[t] = m
    BY <2>4, <2>5, <2>6
  <2>9. /\ t \in given.volumes <=> m.type = "volume"
        /\ BindsAt(given, t) = IF t \in given.volumes /\ m.source # "no name" THEN {<<m.source, t, "rw">>} ELSE {}
        /\ MountsAt(given, t) = IF m.type \in {"bind", "tmpfs"} THEN {m} ELSE {}
    BY <1>3, <2>8, GivenAtPlace
  <2> QED BY <2>6, <2>7, <2>9 DEF IsMounted
<1>7. OneAtEachPlace(given)
  BY <1>3, OneGivenAtEachPlace
<1> QED BY <1>5, <1>6, <1>7 DEF MountsAre

(* The services that were prepared. *)
LEMMA ServicesPrepared ==
  ASSUME OptionTypes
  PROVE  /\ 1 \in DOMAIN Raw /\ ReadyServices[1].name = Raw[1].name /\ ReadyServices[1].networkMode = Raw[1].networkMode
         /\ ReadyServices[1].networks = Raw[1].networks
         /\ \A i \in DOMAIN Raw : /\ Raw[i] \in Range(Raw) /\ ReadyServices[i].volumesFrom = Raw[i].volumesFrom
                                  /\ ReadyServices[i].volumes = Raw[i].volumes /\ ReadyServices[i].inherit = Raw[i].inherit
                                  /\ ReadyServices[i].from = getVolumesFrom(Raw[i]).from
                                  /\ getVolumesFrom(Raw[i]).services \subseteq ReadyServices[i].dependsOn
<1>1. PICK E : Raw \in Seq(E) /\ Raw # <<>>
  BY OptionsAssumption DEF OptionTypes, Raw
<1>2. 1 \in DOMAIN Raw
  BY <1>1
<1>3. ASSUME NEW i \in DOMAIN Raw
      PROVE  /\ Raw[i] \in Range(Raw) /\ \A f \in ServiceFields \ {"from", "dependsOn"} : ReadyServices[i][f] = Raw[i][f]
             /\ ReadyServices[i].from = getVolumesFrom(Raw[i]).from
             /\ getVolumesFrom(Raw[i]).services \subseteq ReadyServices[i].dependsOn
  <2>1. Raw[i] \in Range(Raw)
    BY DEF Range
  <2>2. PICK r : r = Raw[i] /\ r = [f \in ServiceFields |-> r[f]]
    BY <2>1, OptionsAssumption DEF OptionTypes, Raw
  <2>3. PICK x, y : x = getVolumesFrom(r).from /\ y = getVolumesFrom(r).services
    OBVIOUS
  <2>4. ReadyServices[i] = [r EXCEPT !.from = x, !.dependsOn = @ \cup y]
    BY <2>2, <2>3 DEF ReadyServices, Prepared
  <2>5. "from" \in ServiceFields /\ "dependsOn" \in ServiceFields
    BY DEF ServiceFields
  <2>6. PICK q : q = [r EXCEPT !.from = x] /\ q = [f \in ServiceFields |-> IF f = "from" THEN x ELSE r[f]]
    BY <2>2, <2>5
  <2>7. ReadyServices[i] = [f \in ServiceFields |-> IF f = "dependsOn" THEN r.dependsOn \cup y ELSE q[f]]
    BY <2>4, <2>5, <2>6
  <2>8. ReadyServices[i].from = x /\ ReadyServices[i].dependsOn = r.dependsOn \cup y
    BY <2>5, <2>6, <2>7
  <2>9. \A f \in ServiceFields \ {"from", "dependsOn"} : ReadyServices[i][f] = r[f]
    BY <2>6, <2>7
  <2> QED BY <2>1, <2>2, <2>3, <2>8, <2>9
<1>4. {"name", "volumesFrom", "inherit", "volumes", "networks", "networkMode"} \subseteq ServiceFields \ {"from", "dependsOn"}
  BY DEF ServiceFields
<1> QED BY <1>2, <1>3, <1>4

(* The conjuncts of OptionsRight, from the invariant. *)
LEMMA OptionsFollow == OptionsInv => OptionsRight
<1> SUFFICES ASSUME OptionsInv PROVE OptionsRight
  OBVIOUS
<1>1. OptionTypes /\ ClientsInv /\ CountInv /\ KeptInv /\ MadeInv
  BY DEF OptionsInv
<1>2. \A n \in Range(Networks) : \E i \in DOMAIN Networks : n = Networks[i]
  BY DEF Range
<1>3. NetworksRight
  <2> SUFFICES ASSUME NEW k \in Creators, creator[k].pc \in Passed, NEW n \in Range(Networks)
               PROVE  /\ Count(n.name) > 0
                      /\ Cardinality(Creators) = 1 \/ n.external => Count(n.name) \in {1, CountBefore(n.name)}
    BY DEF NetworksRight, Networks, Passed, CountBefore
  <2>1. Count(n.name) > 0
    BY <1>1, <1>2 DEF ClientsInv, ClientInv, NetDue
  <2> QED BY <1>1, <2>1 DEF CountInv
<1>4. VolumesThere
  <2>1. \A v \in Range(Volumes) : \E i \in DOMAIN Volumes : v = Volumes[i]
    BY DEF Range
  <2> QED BY <1>1, <2>1 DEF VolumesThere, KeptInv, ClientsInv, ClientInv, VolDue, Volumes
<1>5. ASSUME NEW k \in Creators, creator[k].pc = "ok"
      PROVE  creator[k].services = ReadyServices /\ \E mode \in getNetworkMode(ReadyServices[1]) : made[k] = Asked(ReadyServices[1], mode)
  BY <1>1, <1>5 DEF ClientsInv, ClientInv, MadeInv
<1>6. MountsRight
  <2> SUFFICES ASSUME NEW k \in Creators, creator[k].pc = "ok", NEW s, s = creator[k].services[1]
               PROVE  MountsAre(s, made[k].given)
    BY DEF MountsRight, MountsAre
  <2>1. PICK mode : s = ReadyServices[1] /\ made[k] = Asked(s, mode)
    BY <1>5
  <2>2. PICK given : given = buildContainerVolumes(s)
    OBVIOUS
  <2>3. made[k].given = given
    <3>1. PICK ports, aliases : made[k] = [given |-> given, mode |-> mode, ports |-> ports, aliases |-> aliases]
      BY <2>1, <2>2 DEF Asked
    <3> QED BY <3>1
  <2>4. OnePlaceEach(s.volumes) /\ OnePlaceEach(s.inherit) /\ \A m \in s.inherit : m.type = "volume" => m.name # "no name"
    <3>1. PICK r : r = Raw[1] /\ r \in Range(Raw) /\ s.volumes = r.volumes /\ s.inherit = r.inherit
      BY <1>1, <2>1, ServicesPrepared
    <3>2. OnePlaceEach(r.volumes) /\ OnePlaceEach(r.inherit) /\ \A m \in r.inherit : m.type = "volume" => m.name # "no name"
      BY <1>1, <3>1, OptionsAssumption DEF OptionTypes, Raw
    <3> QED BY <3>1, <3>2
  <2>5. MountsAre(s, given)
    BY <2>2, <2>4, MountsOfContainer
  <2> QED BY <2>3, <2>5
<1>7. VolumesFromFirst
  <2> SUFFICES ASSUME NEW k \in Creators, creator[k].pc = "ok", NEW s \in Range(ReadyServices), NEW v \in Range(s.volumesFrom), ~v.container
               PROVE  v.name \in s.dependsOn /\ optionCase.firstContainer[v.name] \in Range(s.from)
    BY <1>5 DEF VolumesFromFirst
  <2>1. PICK i \in DOMAIN Raw : s = ReadyServices[i]
    BY DEF Range, ReadyServices
  <2>2. PICK r, from, services : /\ r = Raw[i] /\ s.volumesFrom = r.volumesFrom /\ s.from = from /\ services \subseteq s.dependsOn
                                 /\ getVolumesFrom(r).from = from /\ getVolumesFrom(r).services = services
    BY <1>1, <2>1, ServicesPrepared
  <2>3. /\ from = [j \in DOMAIN r.volumesFrom |->
                     IF r.volumesFrom[j].container THEN r.volumesFrom[j].name ELSE optionCase.firstContainer[r.volumesFrom[j].name]]
        /\ services = { w.name : w \in { x \in Range(r.volumesFrom) : ~x.container } }
    BY <2>2 DEF getVolumesFrom
  <2>4. PICK j \in DOMAIN r.volumesFrom : v = r.volumesFrom[j]
    BY <2>2 DEF Range
  <2>5. v.name \in services
    BY <2>2, <2>3
  <2>6. j \in DOMAIN from /\ from[j] = optionCase.firstContainer[v.name]
    BY <2>3, <2>4
  <2> QED BY <2>2, <2>5, <2>6 DEF Range
<1>8. BeginsConnected
  <2> SUFFICES ASSUME NEW k \in Creators, creator[k].pc = "ok", NEW s, s = ReadyServices[1]
               PROVE  /\ s.networkMode = "unset" /\ optionCase.networks # <<>> => Count(made[k].mode) > 0
                      /\ s.name \in made[k].aliases
                      /\ \A n \in Range(optionCase.networks) :
                            n.key = n.name /\ made[k].mode = n.name /\ n.key \in DOMAIN s.aliases => s.aliases[n.key] \subseteq made[k].aliases
    BY <1>5 DEF BeginsConnected
  <2>1. PICK mode \in getNetworkMode(s) : made[k] = Asked(s, mode)
    BY <1>5
  <2>2. made[k].mode = mode /\ made[k].aliases = getAliases(s, mode) \cup {optionCase.firstContainer[s.name]}
    <3>1. PICK aliases : aliases = getAliases(s, mode) \cup {optionCase.firstContainer[s.name]}
      OBVIOUS
    <3>2. PICK given, ports : made[k] = [given |-> given, mode |-> mode, ports |-> ports, aliases |-> aliases]
      BY <2>1, <3>1 DEF Asked
    <3> QED BY <3>1, <3>2
  <2>3. s.name \in made[k].aliases /\ (mode \in DOMAIN s.aliases => s.aliases[mode] \subseteq made[k].aliases)
    BY <2>2 DEF getAliases
  <2>4. ASSUME s.networkMode = "unset", optionCase.networks # <<>> PROVE Count(mode) > 0
    <3>1. PICK key : mode \in Named(key)
      BY <2>1, <2>4 DEF getNetworkMode
    <3>2. PICK n \in Range(Networks) : mode = n.name
      BY <3>1 DEF Named, Networks
    <3>3. Count(n.name) > 0
      BY <1>3, <3>2 DEF NetworksRight, Networks
    <3> QED BY <3>2, <3>3
  <2> QED BY <2>2, <2>3, <2>4
<1> QED BY <1>3, <1>4, <1>6, <1>7, <1>8 DEF OptionsRight

(***************************************************************************)
(* A container is created on networks and with volumes that are there. The *)
(* engine is told of one mount at a place: what the service says, or else  *)
(* the volume of the replaced container exactly where the image declares   *)
(* none; volumes writable, pipes never. It is created after what it takes  *)
(* volumes from; alone, a create makes no second network of a name, and    *)
(* none makes an external one. For any project and any number of creates   *)
(* at once, any call of which, an inspection too, may fail (Create,        *)
(* prepareVolumes, ensureNetwork, ensureVolume, getCreateOptions).         *)
(***************************************************************************)
THEOREM OptionsAreRight == OptionsSpec => []OptionsRight
<1>1. OptionsInv /\ [OptionsNext]_optionVars => OptionsInv'
  <2> SUFFICES ASSUME OptionsInv, [OptionsNext]_optionVars PROVE OptionsInv'
    OBVIOUS
  <2>1. CASE UNCHANGED optionVars
    <3>1. Creators' = Creators /\ Raw' = Raw /\ ReadyServices' = ReadyServices /\ Networks' = Networks /\ Volumes' = Volumes
      BY <2>1 DEF optionVars, Creators, Raw, ReadyServices, Networks, Volumes, Prepared, getVolumesFrom
    <3>2. OptionTypes' /\ CountInv' /\ KeptInv'
      BY <2>1, <3>1 DEF optionVars, OptionsInv, OptionTypes, CountInv, Count, CountBefore, KeptInv
    <3>3. ClientsInv'
      BY <2>1, <3>1 DEF optionVars, OptionsInv, ClientsInv, ClientInv, Networks, Volumes, Count, NetDue, VolDue, VolumesFromKnown
    <3>4. MadeInv'
      BY <2>1, <3>1, AskedKept DEF optionVars, OptionsInv, MadeInv
    <3> QED BY <3>2, <3>3, <3>4 DEF OptionsInv
  <2>2. ASSUME NEW k \in Creators, CreatorStep(k) PROVE OptionsInv'
    BY <2>2, PrepareKeeps, InspectNetworkKeeps, CreateNetworkKeeps, InspectVolumeKeeps, CreateVolumeKeeps, GetCreateOptionsKeeps DEF CreatorStep
  <2> QED BY <2>1, <2>2 DEF OptionsNext, OptionsDone, Creators
<1> QED BY OptionsBegin, OptionsFollow, <1>1, PTL DEF OptionsSpec
=============================================================================
