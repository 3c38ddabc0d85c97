--------------------------- MODULE ComposeCreate ---------------------------
(***************************************************************************)
(* composeService.Create (local/compose/create.go, convergence.go): bring  *)
(* the containers of a project to what its compose file says.              *)
(*                                                                         *)
(* Create lists the containers of the project once; the dependency walk    *)
(* then visits each service, and ensureService compares that listing with  *)
(* the model: it creates the missing containers, removes the surplus ones, *)
(* and recreates or restarts the others, each in a goroutine of its own.   *)
(* The goroutines that recreate and restart read the loop variable         *)
(* `container' when they start, not when they are created.                 *)
(*                                                                         *)
(* A container is [svc, num, name, hash, state, net]: its service, number  *)
(* and config-hash labels ("new" is the hash of the service as the model   *)
(* now has it), its name, its state, and whether it was connected to the   *)
(* networks of its service.  A failed Create may be run again.             *)
(***************************************************************************)
EXTENDS DependencyTraversal, FiniteSetsExt

CONSTANTS
  Cases,           \* the cases considered: a project, what is deployed, options
  WithExtensions,  \* services that have an extension field (x-...)
  MaxRuns          \* how often Create is run

(* The names and the containers that the engine knows.  A name begins with *)
(* the ids that renames have put before it (tmp).                          *)
EngineName == [tmp : Seq(Nat), svc : Names, num : Nat]
Container ==
  [svc : Names, num : Nat, name : EngineName,
   hash : {"old", "new"}, state : {"created", "running", "exited"}, net : BOOLEAN]

(* In the options, scale is the number of containers wanted for each       *)
(* service, named the services that have a container_name, removeOrphans   *)
(* is CreateOptions.RemoveOrphans, and engineFaults says that calls to the *)
(* engine may fail for reasons of their own.                               *)
ASSUME CreateAssumption ==
  /\ \A c \in Cases :
       /\ c.dependsOn \in Projects
       /\ c.deployed \in Seq(Container)
       /\ c.options \in [scale : [Services -> Nat], named : SUBSET Services,
                         removeOrphans : BOOLEAN, engineFaults : BOOLEAN]
  /\ WithExtensions \subseteq Services
  /\ MaxRuns \in Nat \ {0}

VARIABLES
  options,         \* the options of the project and of the command
  engine,          \* the containers of the project, by id
  lastId,          \* the id of the newest container; ids grow
  observed,        \* observedState: the listing, which is newest first
  forced,          \* services whose Extensions say force_recreate
  visit,           \* the locals of each ensureService (Root: orphan removal)
  task,            \* the goroutines that a visit started
  phase,           \* what Create is doing
  failed,          \* Create returned an error
  runs             \* the number of this run of Create

createVars ==
  <<options, engine, lastId, observed, forced, visit, task, phase, failed, runs>>
allVars == <<vars, createVars>>

-----------------------------------------------------------------------------
Scale         == options.scale
CustomNamed   == options.named
RemoveOrphans == options.removeOrphans
EngineFaults  == options.engineFaults

(* getContainerName, and the name a container has while it is replaced:    *)
(* its id before the name it has, which may be such a name already.        *)
ContainerName(s, n) == [tmp |-> <<>>, svc |-> s, num |-> IF s \in CustomNamed THEN 0 ELSE n]
TmpName(c) == [c.name EXCEPT !.tmp = <<c.id>> \o @]
NameFree(n) == \A id \in DOMAIN engine : engine[id].name # n

(* The listing holds what the containers were when it was made.            *)
Snapshot(id) ==
  [id |-> id, svc |-> engine[id].svc, num |-> engine[id].num,
   name |-> engine[id].name, hash |-> engine[id].hash, state |-> engine[id].state]
Listing == {Snapshot(id) : id \in DOMAIN engine}

(* Containers of the listing, in its order: there is one such sequence.    *)
NewestFirst(C) ==
  {f \in [1..Cardinality(C) -> C] :
     /\ \A c \in C : \E i \in DOMAIN f : f[i] = c
     /\ \A i, j \in DOMAIN f : i < j => f[i].id > f[j].id}

(* nextContainerNumber                                                     *)
NextNumber(actual) ==
  LET numbers == {0} \cup {c.num : c \in actual}
  IN  {n + 1 : n \in {m \in numbers : \A k \in numbers : k <= m}}

(* The containers to create and to remove for s, when it has n of them.    *)
Missing(s, n) == IF n < Scale[s] THEN Scale[s] - n ELSE 0
Surplus(s, n) == IF n > Scale[s] THEN n - Scale[s] ELSE 0

(* The container is not what the model says, or must be recreated anyway.  *)
Diverged(c) == c.hash # "new" \/ c.svc \in forced

(* Mutant: the container is removed before it is replaced.                 *)
RecreateCalls_RemoveFirst == <<"stop", "remove", "create", "connect">>

RecreateCalls == <<"stop", "rename", "create", "connect", "remove">>

(* The calls that each kind of goroutine makes to the engine, in order.    *)
Calls(kind) ==
  CASE kind = "create"   -> <<"create", "connect">>
    [] kind = "recreate" -> RecreateCalls
    [] kind = "restart"  -> <<"start">>
    [] kind = "trim"     -> <<"stop", "remove">>
    [] kind = "orphan"   -> <<"stop", "kill">>

(* A goroutine of visit g: `from' is the place of its container in the     *)
(* list that the visit loops over, `snap' that container.                  *)
Task(g, kind, from, snap) ==
  [of |-> g, kind |-> kind, from |-> from, snap |-> snap, pos |-> 1, made |-> 0,
   at |-> "run"]

TasksOf(g) == {t \in DOMAIN task : task[t].of = g}
Ended(t)   == task[t].at # "run"
AddTasks(new) ==
  task' = [t \in 1..(Len(task) + Len(new)) |->
             IF t <= Len(task) THEN task[t] ELSE new[t - Len(task)]]

-----------------------------------------------------------------------------
CreateInit ==
  /\ Init /\ direction = "up"
  /\ \E c \in Cases :
       c.dependsOn = dependsOn /\ options = c.options /\ engine = c.deployed
  /\ lastId = Len(engine)
  /\ observed = {} /\ forced = {} /\ visit = <<>> /\ task = <<>>
  /\ phase = "prepare" /\ failed = FALSE /\ runs = 1

(* ensureImagesExists, ensureNetworks, ensureProjectVolumes and the        *)
(* listing: what is needed is created before any container is touched.     *)
Prepare ==
  /\ phase = "prepare"
  /\ observed' = Listing
  /\ phase' = "orphans"
  /\ UNCHANGED <<vars, options, engine, lastId, forced, visit, task, failed, runs>>

PrepareFails ==
  /\ phase = "prepare" /\ EngineFaults
  /\ phase' = "end" /\ failed' = TRUE
  /\ UNCHANGED <<vars, options, engine, lastId, observed, forced, visit, task, runs>>

(* removeContainers over the containers that are of no service.            *)
RemoveOrphanContainers ==
  /\ phase = "orphans" /\ Root \notin DOMAIN visit
  /\ LET orphans == {c \in observed : c.svc \notin Services}
     IN  IF RemoveOrphans /\ orphans # {}
           THEN \E list \in NewestFirst(orphans) :
                  /\ visit' = Extended(visit, Root, [list |-> list, next |-> Len(list) + 1])
                  /\ AddTasks([i \in DOMAIN list |-> Task(Root, "orphan", i, list[i])])
                  /\ UNCHANGED phase
           ELSE phase' = "walk" /\ UNCHANGED <<visit, task>>
  /\ UNCHANGED <<vars, options, engine, lastId, observed, forced, failed, runs>>

OrphansRemoved ==
  /\ phase = "orphans" /\ Root \in DOMAIN visit
  /\ \A t \in TasksOf(Root) : Ended(t)
  /\ IF \E t \in TasksOf(Root) : task[t].at = "failed"
       THEN phase' = "end" /\ failed' = TRUE
       ELSE phase' = "walk" /\ UNCHANGED failed
  /\ UNCHANGED <<vars, options, engine, lastId, observed, forced, visit, task, runs>>

(* The steps of the walk that are not the call of fn.                      *)
Walk ==
  /\ phase = "walk"
  /\ WalkOn
  /\ UNCHANGED createVars

(* getScale refuses to scale a service that has a container_name.          *)
ScaleRefused(s) == s \in CustomNamed /\ Scale[s] > 1

VisitRefused(g) ==
  /\ phase = "walk" /\ pc[g] = "fn" /\ g \notin DOMAIN visit
  /\ ScaleRefused(Service(g))
  /\ FnFails(g)
  /\ UNCHANGED createVars

(* ensureScale: start the creation of the missing containers, or the       *)
(* removal of those after the first Scale[s], and keep the others.         *)
EnsureScale(g) ==
  /\ phase = "walk" /\ pc[g] = "fn" /\ g \notin DOMAIN visit
  /\ ~ScaleRefused(Service(g))
  /\ LET s      == Service(g)
         mine   == {c \in observed : c.svc = s}
         newTask(n) == Task(g, "create", 0, [svc |-> s, num |-> n, name |-> ContainerName(s, n)])
     IN  \E actual \in NewestFirst(mine), first \in NextNumber(mine) :
           /\ visit' = Extended(visit, g, [list |-> SubSeq(actual, 1, Len(actual) - Surplus(s, Len(actual))),
                                           next |-> 1])
           /\ AddTasks([i \in 1..Missing(s, Len(actual)) |-> newTask(first + i - 1)] \o
                       [i \in 1..Surplus(s, Len(actual)) |-> Task(g, "trim", 0, actual[Scale[s] + i])])
  /\ UNCHANGED <<vars, options, engine, lastId, observed, forced, phase, failed, runs>>

(* One turn of the loop of ensureService.                                  *)
LoopTurn(g) ==
  /\ phase = "walk" /\ g # Root /\ pc[g] = "fn"
  /\ visit[g].next <= Len(visit[g].list)
  /\ LET i == visit[g].next
         c == visit[g].list[i]
     IN  CASE Diverged(c) -> AddTasks(<<Task(g, "recreate", i, c)>>)
           [] ~Diverged(c) /\ c.state = "exited" ->
                AddTasks(<<Task(g, "restart", i, c)>>)
           [] OTHER -> UNCHANGED task
  /\ visit' = [visit EXCEPT ![g].next = @ + 1]
  /\ UNCHANGED <<vars, options, engine, lastId, observed, forced, phase, failed, runs>>

(* Mutant: ensureService does not wait for its goroutines.                 *)
VisitEnds_NoWait(g) ==
  /\ phase = "walk" /\ g # Root
  /\ visit[g].next > Len(visit[g].list)
  /\ FnReturns(g)
  /\ UNCHANGED createVars

(* eg.Wait in ensureService, and fn returns.                               *)
VisitEnds(g) ==
  /\ phase = "walk" /\ g # Root
  /\ visit[g].next > Len(visit[g].list)
  /\ \A t \in TasksOf(g) : Ended(t)
  /\ IF \E t \in TasksOf(g) : task[t].at = "failed" THEN FnFails(g) ELSE FnReturns(g)
  /\ UNCHANGED createVars

(* Create returns what the walk returned.                                  *)
CreateReturns ==
  /\ phase = "walk" /\ returned
  /\ phase' = "end" /\ failed' = err
  /\ UNCHANGED <<vars, options, engine, lastId, observed, forced, visit, task, runs>>

(* The user runs the command again, in a new process.                      *)
RunAgain ==
  /\ phase = "end" /\ failed /\ runs < MaxRuns
  /\ runs' = runs + 1 /\ phase' = "prepare" /\ failed' = FALSE
  /\ pc' = [g \in {} |-> "scan"] /\ todo' = [g \in {} |-> {}]
  /\ status' = [s \in Services |-> InitialStatus]
  /\ err' = FALSE /\ returned' = FALSE
  /\ observed' = {} /\ forced' = {} /\ visit' = <<>> /\ task' = <<>>
  /\ UNCHANGED <<dependsOn, direction, options, engine, lastId>>

-----------------------------------------------------------------------------
(* The containers that the goroutine t may find in the loop variable: its  *)
(* own or one that the loop has reached since.  createContainer and the    *)
(* removal of surplus containers have variables of their own.              *)
Snaps(t) ==
  IF task[t].pos = 1 /\ task[t].kind \in {"recreate", "restart", "orphan"}
    THEN LET v == visit[task[t].of]
         IN  {v.list[j] : j \in task[t].from..(v.next - 1)}
    ELSE {task[t].snap}

Exists(id) == id \in DOMAIN engine

(* The engine can carry out `call' on the container c of goroutine t.      *)
Accepted(call, c, t) ==
  CASE call \in {"stop", "start", "kill"} -> Exists(c.id)
    [] call = "rename"  -> Exists(c.id) /\ NameFree(TmpName(c))
    [] call = "create"  -> NameFree(c.name)
    [] call = "connect" -> Exists(task[t].made)
    [] call = "remove"  -> Exists(c.id) /\ engine[c.id].state # "running"

NewContainer(c) ==
  [svc |-> c.svc, num |-> c.num, name |-> c.name,
   hash |-> "new", state |-> "created", net |-> FALSE]

(* What it then does.  ContainerRemove of an orphan is forced.             *)
Without(id) == [k \in DOMAIN engine \ {id} |-> engine[k]]
Effect(call, c, t) ==
  CASE call = "stop" ->
         [engine EXCEPT ![c.id].state = IF @ = "running" THEN "exited" ELSE @]
    [] call = "start"   -> [engine EXCEPT ![c.id].state = "running"]
    [] call = "rename"  -> [engine EXCEPT ![c.id].name = TmpName(c)]
    [] call = "create"  ->
         Extended(engine, lastId + 1, NewContainer(c))
    [] call = "connect" -> [engine EXCEPT ![task[t].made].net = TRUE]
    [] call \in {"remove", "kill"} -> Without(c.id)

(* setDependentLifecycle: the mark is put in the Extensions of the project *)
(* but the walk visits copies of the services, which share that map only   *)
(* if it existed when the copies were made.                                *)
Dependents(s) == {d \in Services : s \in dependsOn[d]}

(* Mutant: the mark is lost on the way to the dependents.                  *)
SetDependentLifecycle_Lost(s) == forced

SetDependentLifecycle(s) == forced \cup (Dependents(s) \cap WithExtensions)

(* The goroutine r goes on to its next call, on the container of its first *)
(* one; that of an orphan removes the container it was started for.        *)
Advanced(r, c, made, at) ==
  [r EXCEPT !.pos = @ + 1, !.snap = IF r.kind = "orphan" THEN @ ELSE c, !.made = made, !.at = at]

EngineCall(t) ==
  /\ phase # "end" /\ ~Ended(t)
  /\ LET call == Calls(task[t].kind)[task[t].pos]
         last == task[t].pos = Len(Calls(task[t].kind))
     IN  \E c \in Snaps(t) :
           /\ Accepted(call, c, t)
           /\ engine' = Effect(call, c, t)
           /\ lastId' = IF call = "create" THEN lastId + 1 ELSE lastId
           /\ task' = [task EXCEPT ![t] =
                          Advanced(@, c, IF call = "create" THEN lastId + 1 ELSE @.made,
                                   IF last THEN "done" ELSE "run")]
           /\ forced' = IF last /\ task[t].kind = "recreate"
                          THEN SetDependentLifecycle(Service(task[t].of)) ELSE forced
  /\ UNCHANGED <<vars, options, observed, visit, phase, failed, runs>>

(* The engine refuses the call, or fails.                                  *)
EngineError(t) ==
  /\ phase # "end" /\ ~Ended(t)
  /\ LET call == Calls(task[t].kind)[task[t].pos]
     IN  EngineFaults \/ \E c \in Snaps(t) : ~Accepted(call, c, t)
  /\ task' = [task EXCEPT ![t].at = "failed"]
  /\ UNCHANGED <<vars, options, engine, lastId, observed, forced, visit, phase, failed, runs>>

CreateTerminated ==
  /\ phase = "end" /\ (~failed \/ runs = MaxRuns)
  /\ UNCHANGED allVars

CreateProgress ==
  \/ Prepare \/ PrepareFails \/ RemoveOrphanContainers \/ OrphansRemoved \/ Walk
  \/ CreateReturns \/ RunAgain
  \/ \E g \in goroutines : VisitRefused(g) \/ EnsureScale(g)
  \/ \E g \in DOMAIN visit : LoopTurn(g) \/ VisitEnds(g)
  \/ \E t \in DOMAIN task : EngineCall(t) \/ EngineError(t)

CreateNext == CreateProgress \/ CreateTerminated

(* Every goroutine is scheduled and every call to the engine returns.      *)
CreateSpec == CreateInit /\ [][CreateNext]_allVars /\ WF_allVars(CreateProgress)

-----------------------------------------------------------------------------
Of(s)     == {id \in DOMAIN engine : engine[id].svc = s}
Succeeded == phase = "end" /\ ~failed
Had(s)    == Cardinality({c \in observed : c.svc = s})

(* ensureService keeps, of the containers of s, some that diverge from the *)
(* model and some that do not: what is recreated may then be one of those  *)
(* that do not, since the goroutine reads the loop variable.               *)
VisitsOf(s) == {g \in DOMAIN visit \ {Root} : Service(g) = s}
Kept(g)     == {visit[g].list[i] : i \in DOMAIN visit[g].list}
Mixed(s) ==
  \E g \in VisitsOf(s) :
    (\E c \in Kept(g) : Diverged(c)) /\ (\E c \in Kept(g) : ~Diverged(c))

(* The containers of s are as many as the compose file asks for, and have  *)
(* its present configuration unless the ones kept were mixed.              *)
UpToDate(s) ==
  /\ Cardinality(Of(s)) = Scale[s]
  /\ Mixed(s) \/ \A id \in Of(s) : engine[id].hash = "new"

(* When Create returns nil each service has the number of containers asked *)
(* for, at least as many of them new as diverged or were missing, also     *)
(* after failed runs; all of them have its present configuration, unless   *)
(* the containers kept were mixed: then a container that is up to date may *)
(* be replaced and one that is not stay.                                   *)
Converges ==
  Succeeded =>
    \A s \in Services :
      /\ UpToDate(s)
      /\ \A g \in VisitsOf(s) :
           Cardinality({id \in Of(s) : \A c \in observed : c.id # id})
             >= Missing(s, Had(s)) + Cardinality({c \in Kept(g) : Diverged(c)})

(* A container is removed only once what replaces it exists: whatever      *)
(* fails, no removal leaves a service with fewer containers than it had    *)
(* when this run of Create began, unless it had more than it should.       *)
NeverFewer ==
  [][\A s \in Services :
       \/ Of(s) \subseteq Of(s)'
       \/ Cardinality(Of(s)') >= Min({Scale[s], Had(s)})]_allVars

(* A service is created, recreated or restarted only once all the services *)
(* it depends on are up to date.                                           *)
Touched(s) ==
  \/ Of(s)' # Of(s)
  \/ \E id \in Of(s) : engine'[id] # engine[id]
DependenciesFirst ==
  [][\A s \in Services : Touched(s) => \A d \in Children(s) : UpToDate(d)]_allVars

(* Create leaves alone the containers that are up to date, unless they are *)
(* surplus, a service they depend on was recreated, or another container   *)
(* that their service keeps has to be recreated and they are taken for it. *)
UpToDateUntouched ==
  [][\A id \in DOMAIN engine :
       LET c == engine[id] IN
         /\ c.hash = "new" /\ c.state = "running"
         /\ c.svc \in Services \ forced /\ ~Mixed(c.svc)
         /\ Cardinality(Of(c.svc)) <= Scale[c.svc]
         => id \in DOMAIN engine' /\ engine'[id] = c]_allVars

(* When Create has recreated a service and returns nil, it has recreated   *)
(* the services that depend on it too: none of their containers is one     *)
(* that was there before.                                                  *)
Recreated ==
  {Service(task[t].of) : t \in {u \in DOMAIN task :
                                  task[u].kind = "recreate" /\ task[u].at = "done"}}
DependentsRecreated ==
  Succeeded =>
    \A s \in Recreated : \A d \in Dependents(s) :
      Of(d) \cap {c.id : c \in observed} = {}

(* A container without its networks was there when the services were listed. *)
UnconnectedWasLeft ==
  Succeeded => { id \in DOMAIN engine : engine[id].svc \in Services /\ ~engine[id].net } \subseteq {c.id : c \in observed}

(***************************************************************************)
(* Create touches a service (creates, recreates, restarts, removes) only   *)
(* once all that it depends on is up to date, and leaves alone what need   *)
(* not change, while visits of other services go on beside it; where a     *)
(* service keeps containers that diverge beside some that do not, it may   *)
(* replace the wrong one, never more than those it keeps (ensureService).  *)
(***************************************************************************)
TouchedInOrder == DependenciesFirst /\ UpToDateUntouched

(***************************************************************************)
(* When Create returns nil the project is as its file says, also after     *)
(* failed runs, those that failed between a rename and its create too:     *)
(* every service has its number of containers, as many replaced as         *)
(* diverged and, unless those it kept were mixed, none out of date; and    *)
(* what depends on a service that was recreated has been recreated too     *)
(* (ensureService, recreateContainer, setDependentLifecycle). What it has  *)
(* made is connected to its networks: a container that is not is one an    *)
(* earlier run left, accepted as it is (createMobyContainer).              *)
(***************************************************************************)
ProjectConverges == Converges /\ DependentsRecreated /\ UnconnectedWasLeft
=============================================================================
