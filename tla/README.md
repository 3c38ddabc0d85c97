# Verification of the compose CLI

TLA+ models of the Docker Compose CLI (`src/`), the TLC instances that check
them and the TLAPS proofs about them. This document is the inventory of the
system, the guide to the modules, what the checks and the proofs show, and the
plan.

## 1. The system

The program is one binary that runs compose projects and containers on several
backends. The classic `docker` commands are delegated to another binary; the
others go to the backend of the current context. A gRPC server offers the same
operations to other programs.

| Component | State it keeps | Operations | What is hard about it |
|---|---|---|---|
| Dependency graph and traversal (`local/compose/dependencies.go`) | a vertex with a status per service, an errgroup | `InDependencyOrder`, `InReverseDependencyOrder`, `HasCycles` | one goroutine per visited node; status read and updated in separate critical sections; failures that cancel nothing |
| Local `down` (`down.go`, `containers.go`) | the list of containers, one errgroup, both shared by all visits | `Down`, `removeContainers`, `ensureNetworkDown` | unlocked slice, shared wait group, captured loop variable, partial failure |
| Local `create` (`create.go`, `convergence.go`) | a listing made once; the engine's containers | `Create`, `ensureScale`, `ensureService`, `recreateContainer`, `restartContainer`, `getCreateOptions` | stale listing, several engine calls per container, retry after failure, two creates at once |
| Local `start` (`start.go`, `convergence.go`) | nothing; polls the engine | `Start`, `waitDependencies`, `isServiceHealthy`, `startService` | polling racing with containers that start, turn healthy or exit |
| Local `stop` (`stop.go`) | the list of containers, shared by the visits | `Stop`, `stopContainers` | unlocked slice, partial failure |
| Local images (`pull.go`, `push.go`, `build.go`) | a goroutine and a stream per service | `Pull`, `Push`, `ensureImagesExists` | the first error cancels the others, errors inside a stream |
| Local `up`, `logs`, `run` (`attach.go`, `logs.go`, `run.go`, `cli/cmd/compose/up.go`) | a stream per container | `attach`, `Logs`, `RunOneOffContainer` | streams against containers that exit, are removed or are interrupted |
| Local containers and volumes (`local/`) | none; the engine's | run, exec, inspect, ps, rm, volumes | a pull between two attempts, two commands at once, conversions both ways |
| Progress writer (`api/progress`) | events by id, a `done` channel | `Run`, `Start`, `Event`, `Stop` | a printer and many producers |
| Contexts and configuration (`api/context/store`, `api/config`, `cli/cmd/context`) | a directory per context, one JSON file | create, list, remove, use, show | no locks: kills between file operations, two processes |
| Command line and server (`cli/`) | the current context | choice of backend, delegation, interrupts, reports; a context per call | signals, a context that changes under a command |
| ECS backend (`ecs/`) | a CloudFormation stack, AWS files | `Convert`, up, down, wait, the listings, contexts | a waiter and a poller, an interrupt that deletes the stack being created; paging; a template of resources that refer to each other |
| ECS local simulation (`ecs/local`), secrets side-car (`ecs/resolv`, `ecs/secrets`) | none | adds services and networks, then the local backend; writes files | a mutated project |
| ACI backend (`aci/`) | container groups, storage accounts and shares in Azure | run, up, down, rm, prune, ps, ls, volumes, logs, exec | read-modify-write of remote state, a group that goes away between two calls, a terminal that is redrawn |
| Azure login (`aci/login`) | a token file | browser and device code flows, refresh, logout | two flows racing with an interrupt, channels read once, a file written in two steps |
| Kubernetes backend (`kube/`) | Helm releases | up, down, list, the conversion to a chart | two clients; objects that select each other |
| Metrics (`cli/metrics`) | none | one report per command | best effort |

What makes each part correct:

* the walk: predecessors first, no service forgotten, errors reported, it ends;
* `create`: a nil result means the project is as the file says; dependencies
  first; what is up to date is not touched; a failure can be repaired by running
  it again and never leaves a service with less than it had;
* `start`: dependencies started, and healthy where asked for, before dependents;
* `stop` and `down`: dependents first; a nil result means all is stopped or
  gone; networks and orphans only when allowed;
* images and streams: success means every stream was read to its end; what is
  drawn is what happened; what a container wrote is shown;
* contexts: a kill or a second process does not lose or damage what is stored;
  one program carries a command out and reports it once;
* ECS, ACI, Kubernetes: the result of a command tells the final state of the
  stack, group or release; nothing of another client is replaced; the
  conversions give objects that refer to each other correctly and lose nothing
  that was asked for;
* login: a logout is final, a token is for the tenant that was asked for, no
  goroutine keeps the program from returning.

The things that are hard to test are listed at their line in `PROJECT.json`
(`hazards`), with the properties that are about them.

## 2. The modules

```
OrderedApplication            what the walk promises (abstract)
      ^ refinement
DependencyGraph <- DependencyTraversal <- ComposeCreate, ComposeStart
      ^                  ^
CycleDetection           +---- with ContainerList <- ComposeDown, ComposeStop

ContextStore <- CommandLine

EcsTemplate   EcsStack   EcsQueries   EcsContext   EcsLocal

AciVolumes <- AciGroups    AciLogs    AzureLogin   AciContext   AciConvert

KubeConvert   KubeBackend

ProgressWriter <- ComposeImages   ComposeAttach   LocalContainers   ServiceOptions
```

The proofs about a module `M` are in `M_proofs`. Some of these hold the proofs
about neighbours of `M` too: `DependencyTraversal_proofs` those about
`CycleDetection`, `ComposeCreate_proofs` those about `ServiceOptions`,
`ComposeStart_proofs` those about `ComposeAttach` and `LocalContainers`,
`CommandLine_proofs` those about `ComposeImages` with `ProgressWriter`.
`ComposeStop_proofs` and `ComposeDown_proofs` are about one module each. `AciKube_proofs` is about `AciGroups` with `AciVolumes`,
`AciLogs`, `AciContext`, `AzureLogin` and `KubeBackend`, and `Ecs_proofs` about
`EcsStack`, `EcsContext` and `EcsLocal`. The proofs of stop, down, create and
start rest on those of the walk.

`A <- B` reads: B extends A. `MC*.tla` give the constants of an instance,
`*.cfg` are the instances. `MCEcs`, `MCAciKube` and `MCLocal` hold several parts
that share no state: their initial states start one of the parts and leave the
others idle (`…Idle`), and a step is a step of one part. This checks each part
by itself, and costs the sum of their state spaces and not the product.
`MCDependencyTraversal` runs `HasCycles` and then the walk, as `visit` does.

The definitions called `X_Something` and marked *Mutant* stand next to the
definition `X` they vary: they are plausible mistakes in that code, kept to show
that the property named with them in `PROJECT.json` would notice.

In all modules: a call of an engine or a cloud is one atomic step; what the
program keeps between two calls is in its variables, so that anybody else may
come in between. A value that may be absent (a nil pointer) is a sequence of at
most one element. Texts that the code splits, joins or normalises are sequences
of words; the others are names.

### DependencyGraph, CycleDetection

`dependsOn[s]` is `s.GetDependencies()`. `Children` and `Parents` are what
`NewGraph` makes of it: a name that is no service is dropped, because the error
of `AddEdge` is ignored. `HasCycles` in `DependencyGraph` is the answer the
search should give. `CycleDetection` is the search: the loop over the map in any
order, and the recursive `visit`, whose inner calls lose what they `finished`.

### DependencyTraversal

One action per step of a goroutine of `visit`/`run`: `Visit`, `Scan` (a turn of
the loop, with the check under the lock), `FnReturns`, `FnFails`,
`UpdateStatus`, `Wait`. A goroutine is named by the path of nodes along which it
was started, so that two goroutines can work on one service, which does happen.
`fn` may fail on any call.

### OrderedApplication

The abstract machine: `Apply(s)` once all of `before[s]` are applied, `Succeed`
only when all are, `Fail` at any time. The mapping takes the services on which
`fn` has succeeded for `applied`. The two visits of a service that the walk may
make map to one `Apply` and a stutter.

### ComposeDown, ComposeStop, ComposeCreate, ComposeStart

Each extends `DependencyTraversal`, replaces the atomic `fn` by the steps of the
real one, and takes `FnReturns` or `FnFails` when that ends. `Walk` is the part
of the walk that is not `fn`. The engine is a function from containers to their
states; each engine call may be refused (no such container, name in use, still
running) or, where `engineFaults` is set, fail.

`ContainerList` is what stop and down share: the containers are listed once and
every visit splits the same slice. The split keeps the order of the listing, so
a slice is modelled by the set of its containers, and a loop takes them by their
place in the listing. With `TornReads` a read of the slice during a write may
see the old array with the new length.

* **ComposeDown**: `List`; per visit `VisitStarts` (the split of the shared
  slice), `StartRemoval` (a turn of the loop), `StartWait`/`Wake`/`Reap` (the
  shared errgroup: `Wake` panics if the group is in use again, as
  `sync.WaitGroup` does), `VisitEnds` (the slice is overwritten); per removal
  `ContainerStop` (of whatever the loop variable holds), `ContainerRemove`,
  `RemovalFails`; then `CleanUpOrphans`, `WaitAll`, the networks.
* **ComposeStop**: the same walk with a sequential loop per visit.
* **ComposeCreate**: `Prepare` (images, networks, volumes, then the listing),
  orphans, per visit `EnsureScale` and `LoopTurn`; each goroutine is a task that
  makes the calls of its kind in order (`Calls`), on the container it finds in
  the loop variable at its first call (`Snaps`). A configuration is `"old"` or
  `"new"`, the two values of the config-hash label that matter. A name carries
  the ids that `recreateContainer` has put before it: a container that a failed
  run left renamed is renamed once more by the next, and its replacement bears
  the temporary name. `RunAgain` is the user running a failed command again, in
  a new process.
* **ComposeStart**: `RangeOverDependsOn` and `Poll` are `waitDependencies`: all
  the pollers of a visit read the same `dep`. Containers turn healthy, unhealthy
  or exit by themselves.

### The rest of the local backend

* **ServiceOptions** is what `Create` does before its walk, for two clients:
  `prepareVolumes` (volumes_from become mounts and dependencies), the networks
  and volumes (look, then make: two steps, each of which may fail), and
  `getCreateOptions`: ports, network and aliases, and what the engine is given
  of the mounts of the service, the image and the replaced container (`given`:
  declared volumes, binds, mounts).
* **ProgressWriter** is the terminal writer: `Event`, a drawing (`print`) that
  goes up by the rows it counted, `Stop`. Only lengths of texts matter.
* **ComposeImages** drives it: a goroutine per service reads the messages of its
  stream; the first error cancels the others (`pull.go`, `push.go`), and
  `ensureImagesExists`/`build` decide what to build or pull by key.
* **ComposeAttach**: containers write pieces of text, exit, are removed;
  `attach` opens a stream for each before `Start`, `logs` follows the engine's
  log, `run` follows its one container. A start is asked for and then done by
  the engine, so that `Interrupt` can come between, and the stop that follows
  lists the containers again and may fail at each.
  The order of the start is `ComposeStart`'s and is left free here.
* **LocalContainers**: the commands on single containers, two at a time, with
  the conversion to the engine's configuration and back for `inspect`, and the
  summary of `compose ls`. `run` starts its container by the id it was given; one
  run with `--rm` is removed by the engine some time after it has ended. A limit
  of CPUs, in billionths, comes out one lower or as it was: the product of floats
  is cut off.

### ContextStore, CommandLine

`ContextStore` has one action per file operation: a context is a directory that
has a metadata file or has not, or a damaged one; the configuration file is
truncated and then written. `CommandLine` is the program around it, from `main`
to its exit: forwarded flags, the configuration directory and the store that may
not be had, current context, backend or delegation, the commands on contexts,
the calls of the gRPC server, the interrupt, the metrics report. `Kill` may come
between any two steps.

### ECS

* **EcsTemplate**: how a task is sized and described, and the machine for GPUs
  (pure operators over one service); then `Convert` in the order of the code,
  each step adding resources to a function from logical names (the tuples of
  their parts, as `fmt.Sprintf` joins them) to resources that refer to each
  other.
* **EcsStack**: up, its signal handler and a down in another terminal, on one
  stack whose events AWS appends; each has the pair of goroutines of
  `WaitStackCompletion` (the waiter of the SDK, the poller of events). A stack
  whose resources take two pages (`paged`) keeps their listing busy for ever.
* **EcsQueries**: the listings of `sdk.go` page by page with the token each of
  them really sends, and the commands built from them. `checkStackState` asks
  for the services of the cluster that it finds among the resources, or of none.
  `GetLogs` reads a page a step and moves its start time with every line.
* **EcsContext**: creation of a context with what the flags let through, the AWS
  files it saves, and what a later command reads from them.
* **EcsLocal**: the service and the addresses the simulation adds to a project,
  the replicas that share one, and the side-car that writes secrets, whose
  argument may be missing or unreadable and each of whose writes may fail.

### ACI and login

* **AciVolumes**: the resource group shared by the clients; storage accounts,
  file shares, their use by groups. A list of shares comes in pages of
  `PageSize`, of which the code reads the first. A client is `blind` when it goes
  by less than what is there: somebody came between its calls, or a page was not
  read. **AciGroups** adds the container commands, compose (the driver of each
  volume is looked at when its turn comes) and prune.
* **AciLogs**: the terminal as rows and a cursor, of a width that the program may
  not know (0), the log fetched again at each turn, and the two goroutines of
  exec.
* **AzureLogin**: the goroutines of the flows, their channels as sequences with
  the capacity of the code (1), the token file, and the other commands that read
  and refresh the token.
* **AciContext**: subscription and resource group, from pages.
* **AciConvert**: project or run options to a container group, and back.

### Kubernetes

* **KubeConvert**: from a project to the objects of a chart.
* **KubeBackend**: up, down and ls through Helm by several clients, and the
  creation of contexts. Each call of Helm may fail, before or after it took
  effect.

## 3. What is checked

A property of a component is a conjunction of named parts; the parts, each with
its comment, are in the component's module.

| Run | Instance | Shows |
|---|---|---|
| `traversal` | `HasCycles` and then the walk, on a family of graphs of four services (chains, diamonds, cycles, self loops, unknown names), both directions, any call of `fn` failing | `DependencyOrder`, `NoServiceMissed`, `SuccessIsComplete`, `AtMostOnceUnbranched`, `CyclesFound` (a cycle is reported exactly if there is one), `ImplementsOrder` (refinement of `OrderedApplication`, with its fairness: the walk ends), and the type invariant `TypeOK` |
| `down` | eight shapes of three services; one service with two containers, one of them stopped; an orphan, running or not; faults, or `RemoveOrphans` | `RemovedInFull`: success only when all is gone, networks only after all containers. `DependentsGoneFirst`. `DownEnds` |
| `create` | eight shapes with five deployments; services with outdated and current containers together (`MixedCases`); a refused service; two services and an orphan on a faulty engine with three runs | `ProjectConverges`: nil means that every service has its containers and as many are new as had to be, all up to date unless the service was mixed, dependents recreated, what was made connected, also after failed runs. `TouchedInOrder`: dependencies first, up-to-date containers left alone, a mixed service's excepted. `NeverFewer`: no call leaves a service with fewer containers than it had, or was asked to have |
| `start` | shapes in which a service waits for one dependency, or for two (`Fork`); replicas; exits; faults | `StartedWhenReady`: dependencies started and, where asked for, one found healthy, that which the loop ended at. `StartEnds` |
| `stop` | sixteen shapes of four services, a service with two containers, an orphan, faults | `SuccessStops`: a nil result means that the containers of all services are stopped. `DependentsStoppedFirst`: a container is stopped after those of the dependents, unless a visit of such a dependent has failed |
| `contexts` | two processes, or calls of the server, on two names, with kills and interrupts anywhere; one process is started again | `ReportsTrue`: creation is exclusive, listings are whole, one program carries a command out, one report. `StoredIsKept`: the current context stays readable, other keys of the file survive all but a kill between truncating and writing, or another process between; a damaged file is not taken for an empty one |
| `ecs` | a family of projects and accounts for the template, one with 150 replicas; up, down and a signal on one stack, of a cluster of its own or the user's, with one page of resources or two; AWS answers of several pages; a log read in pages, with late lines; contexts from keys, profile and environment; simulated projects with replicas, and secrets whose files cannot all be written | `TemplateRight`, `StackResult`, `AnswersRight`, `ContextUsable`, `SimulationRight`, `StackSettles`, `LinesFollowed` |
| `aci_kube` | pairs of ACI commands on a shared resource group, with a fault, and shares on two pages; logs and exec on a narrow terminal of known or unknown width; five logins with other commands beside them; subscriptions and groups in pages; projects and run options for the conversions; Helm commands of three clients, with a fault | `GroupsTold`, `AzureKept`, `LogsRight`, `LogoutHolds`, `LoginEnds`, `GroupChosen`, `GroupRight` (ACI conversion), `ChartRight` (Kubernetes conversion), `ReleasesKept` |
| `local` | two services to pull, push or build; up, logs and run on one or two containers that write, exit, are removed or interrupted, with a faulty engine; two creates at once, and one whose calls fail; pairs of container commands, with `--rm` and without | `PulledRight`, `OutputRight`, `AttachEnds`, `OptionsRight`, `ContainersRight` |

Three runs show a disagreement between the code and what the repository says of
it (`findings`):

| Run | What happens |
|---|---|
| `double_visit` | on a diamond both goroutines that complete the last predecessors start the top service: `fn` runs on it twice, concurrently |
| `down_replicas` | with two containers of a service, the goroutine for one stops the other (the captured `container`), which may be gone: `down` fails |
| `create_lifecycle` | the order to recreate dependents is lost for services without extension fields, and `create` returns nil |

### What the code does not keep

Where the code falls short of what one would wish, and no line of the repository
promises it, the case is in the run and the property says exactly how far the
code goes:

| Property | What the code does |
|---|---|
| `ProjectConverges`, `TouchedInOrder` | with an outdated and a current container of a service the wrong one may be recreated (captured `container`), and `create` returns nil; a container that failed to be connected to a network is accepted by the next run |
| `StartedWhenReady` | of several dependencies that must be healthy only the last in the map's order is waited for (captured `dep`) |
| `StoredIsKept` | a kill between truncating and writing leaves a configuration file that nothing repairs; a second process between two steps of a command can undo what the command found |
| `AttachEnds` | a start in flight at the interrupt can take effect after the stop has passed; a stop that fails leaves containers running, and is reported |
| `OptionsRight` | the replaced container's volume gives way to an empty one where the image declares a volume; read-only volumes are writable, named pipes are not mounted; aliases are looked up under the engine's name of the network, and found only if that is its key |
| `TemplateRight` | with more than a hundred replicas an update may stop one task more per hundred than asked for; the variables of an env file all get one of the file's values |
| `AnswersRight`, `StackSettles` | a listing with a second page may never end, that of a stack's resources included: then neither does `down`; in a cluster of the user's own `checkStackState` finds no failure |
| `LinesFollowed` | a line stored after one of a later time has been read is lost, and one on a page that the moved start time excludes |
| `ContextUsable` | the region that is saved with keys goes to the section `profile default`, where nothing looks for it |
| `SimulationRight` | the replicas of a simulated service share an address, and the second is refused |
| `LogsRight` | after a line of two or more full rows, or when the width is not known, the row above the command is written over |
| `AzureKept` | a client that reads one page of shares, or is overtaken, may delete an account that holds other volumes, and a volume in use |
| `ChartRight` | a named volume gets a claim that no pod uses: the pods have a directory in memory |

One case is left out of a passing run, and is an instance of its own that can be
seen by editing the `.cfg`: `MCDown.cfg` with `TornReads = TRUE`,
`ServiceOf <- Pair`, `Listing <- PairListing`, `Options <- PairOptions`,
`Projects <- Independent`. A torn read of the shared slice makes a visit miss its
container: `down` returns nil and leaves it, against `RemovedInFull`.

### Noted while reading, without a run

These are in the models as the code has them, or outside them; no line of the
repository promises otherwise, or they end in a crash.

* **ECS listings.** `token == response.NextToken` compares pointers and is never
  true of two answers. `ListStacks`, `GetStackClusterID`, `GetServiceTasks`,
  `ListStackResources`, `ListSecrets`, `ListTasks` and `GetPublicIPs` do not send
  the token at all; these, and `GetSubNets`, `ListFileSystems` and
  `DescribeServiceTasks`, never end once there is a second page.
  `AnswersRight` is about the answers that are given.
* **ECS stacks.** Any error of `StackExists` counts as "does not exist"; an
  update without changes is an error; an update is not waited for; a waiter that
  gives up is a success; `Down` fails if the stack is gone when it asks for its
  id; volume create and inspect dereference nil on an error.
* **ECS contexts.** `saveRegion` writes the section `profile default`, while
  `getRegion` reads `default`; `AWS_CONFIG_FILE` is honoured only on saving.
* **ECS template.** It panics on an external cluster with GPUs, on no replicas
  with no parallelism, on an anonymous volume, on an extra host without a colon.
  Ingress rules are named by network and port only; two names can normalise to
  one; in JSON the init containers stay essential.
* **Contexts.** Two creations with a removal between them both succeed; a torn
  configuration file is never repaired; the server's calls fail when there is no
  current context.
* **ACI.** `Get` and then `CreateOrUpdate` can overwrite a group made in
  between; a group that goes away between list and `Get` fails the listing;
  prune names groups whose deletion failed; a last line without a newline is not followed; `exec` returns when its
  input ends. In the conversion a secret of an empty file is mounted without a
  volume, `/a-b` and `/a/b` share one key, and volumes of another driver are
  dropped while their mounts stay.
* **Kubernetes.** The context's name is ignored when the client is made; up
  never upgrades; nil replicas and parallelism panic; a DaemonSet has no
  selector; secrets and configs are looked up by the name of the volume; the
  node affinity of `placement.go` is called by its test only.
* **Local.** `up web` attaches to containers of services that were not selected;
  the stream of a container that exited before waits for another start;
  `logs.go:69` closes a nil reader; a failed start leaves its goroutines; a
  target published twice keeps the last port; two creates can make two networks of one name; a pull that fails inside
  its body is not noticed by `run`; `inspect` drops variables whose value has
  an `=`.
* **Login.** The goroutine of the device flow sends twice; a first request
  without a code fails the login; the token file is truncated and then written;
  a refresh racing a logout brings the token back (`LogoutHolds` shows that
  nothing else does).

### Bounds

* Three or four services: three are needed for a chain, a fork and a join, four
  for a diamond and for a cycle that does not contain its entry. The number of
  goroutines is bounded by the number of paths of the graph.
* Two containers for one service: enough for the loop variable to move on, for
  a surplus and for a missing replica.
* `MaxRuns = 3`: a failed run, a run that fails on what that left, and one that
  succeeds. It bounds the ids of containers too.
* `MaxLaunches = 2` for two processes: one more command after a kill.
* `MaxFetches = 4`, `ChunkSize = 2`: a page too many for a listing that does not
  end, and more services than a chunk holds (the code asks for 10 at a time).
  `MaxTime = 3`, three lines and `LogPage = 2`: one line before, at and after a
  poll, and a second page. `LastAddress = 5`: an address for each of three
  services. 150 replicas, two at a time: 98 percent, cut off, let a third task
  stop.
* `PageSize = 1` share: an account with two has a page that is not read.
* `MaxLines = 3`, `Lengths = {2, 3, 4}`, `Width = 2`: lines as long as the
  terminal, longer, and of two full rows. `MaxRows = 8` ends the turns of a log
  whose rows pile up because the width is not known; the height of the terminal
  is not modelled. `TailModulus = 4` stands for the 2^32 of the
  conversion to int32. `MaxOutput = 2`, `MaxRequests = 2`: a first request and
  one that comes when the channel is full.
* `Width = 60`, `Timer = 4`: texts that fit and texts that do not. `NoTimer = 14`:
  an event that was over when it came has no end time, and is drawn with the
  least duration there is, -9223372036.9s.

### Fairness

Weak fairness of the whole progress action in the modules of the walk: the Go
scheduler runs goroutines that can run, and calls to the engine return. No
fairness is assumed of a particular choice: which goroutine runs, or whether a
call fails, stays free. `ComposeStart` also assumes that a running container
with a healthcheck gets healthy in the end; the code has no timeout, and without
that assumption `Start` may poll for ever.

`StackFairness`: AWS goes on with what it was asked, the SDK's waiter gives up in
the end, the steps of up and down are taken. `QueriesFairness`: the polls of a
followed log go on. `LoginFairness`: the login and its goroutines take their
steps; nobody has to answer in the browser. `AttachFairness`: the program takes
its steps; containers need not end, and nobody has to interrupt. The other parts
state no fairness, and only safety is checked of them. `contexts` and `ecs` do
not check for deadlock: a killed process and an ended command may stay as they
are.

## 4. What is proved

The theorems hold for every value of the constants that the assumptions named
with them allow, and not only for the instances of the runs.

| Module | Theorem | States |
|---|---|---|
| `DependencyTraversal_proofs` | `CyclesAreFound` | `SearchSpec => []CyclesFound` |
| | `TypeCorrect` | `Spec => []TypeOK` |
| | `CallsAreOrdered` | `Spec => []DependencyOrder` |
| | `NothingMissed` | `Spec => []NoServiceMissed` |
| | `SuccessMeansAll` | `Spec => []SuccessIsComplete` |
| | `CalledAtMostOnce` | `Spec => []AtMostOnceUnbranched` |
| | `Refinement` | `Spec => Ordered!Safety`, the safety part of `OrderedApplication` |
| `ComposeStop_proofs` | `StopStopsAll` | `StopSpec => []SuccessStops` |
| | `StopIsOrdered` | `StopSpec => DependentsStoppedFirst` |
| `ComposeDown_proofs` | `DownRemovesAll` | `DownSpec => []RemovedInFull` |
| | `DownIsOrdered` | `DownSpec => DependentsGoneFirst` |
| `ComposeCreate_proofs` | `NoneLost` | `CreateSpec => NeverFewer` |
| | `OptionsAreRight` | `OptionsSpec => []OptionsRight` |
| `ComposeStart_proofs` | `StartIsOrdered` | `StartSpec => []StartedAfterDependencies` |
| | `StartWaitsForHealth` | `StartSpec => []StartedWhenReady` |
| | `OutputIsRight` | `AttachSpec => []OutputRight` |
| | `ContainersAreRight` | `CommandsSpec => []ContainersRight` |
| `CommandLine_proofs` | `CommandsReportTrue` | `Spec => []ReportsTrue` |
| | `CommandsKeepStored` | `Spec => StoredIsKept` |
| | `PullsAreRight` | `ImagesSpec => []PulledRight`, if `Roomy(L, M)` and `TextsWithin(L, M)` |
| `AciKube_proofs` | `GroupsAreTold` | `GroupsSpec => []GroupsTold` |
| | `AzureIsKept` | `GroupsSpec => AzureKept` |
| | `LogoutIsFinal` | `LoginSpec => []LogoutHolds` |
| | `ReleasesAreKept` | `KubeBackendSpec => []ReleasesKept` |
| | `GroupsAreChosen` | `AciContextSpec => []GroupChosen` |
| | `LogsAreRight` | `LogsSpec => []LogsRight` |
| `Ecs_proofs` | `CommandsTellTheStack` | `StackSpec => []StackResult` |
| | `ContextsAreUsable` | `ContextSpec => []ContextUsable` |
| | `SimulationIsRight` | `LocalSpec => []SimulationRight` |

Several theorems are about what a loop computes. The library's induction
theorems cannot be instantiated here, but the induction itself can be done with
sets: a set of natural numbers that has 0 and with each number the next is the
set of all (`NatSetInduction`, from the least number outside it). With it a
recursive function is first shown to be defined (`LoopDefined`, `ItemsExist`),
since TLA+ only chooses one, and then to be what it should. The definitions
that such proofs need were written as recursive functions of the number of
turns, as the code's loops are, and no longer as folds: `SplitAt`,
`groupContainerByLabel`, `combinedStatus`, `TextOf`, `LinesOf`, the pages of
`AciContext`, `AllRows` and `getBacktrackLines`, and the loops of `print`.

### The search for cycles

For finitely many services and any `depends_on`. A cycle is a service
that is reached from itself (`Reachable`). `visit` calls itself only for a child
that is not on its path, so that `Depth`, which counts the services not on the
path, goes down with every call inside; the induction is over it. That a call
finds nothing must mean that no endless walk begins at its service (`Endless`),
and that it finds something that there is a cycle or a way back to the path
(`VisitSound`). What an inner call has `finished` is lost in this code, which
costs time and nothing else: `SearchInv` says only that what is finished between
two turns of the outer loop begins no endless walk.

### The walk

It is assumed that services are finitely many and are names, and that a project
maps services to sets of names (`ServicesAssumption`, `ProjectsAssumption`).

None of the properties is inductive: they speak of what has been called, while
the code looks at statuses and at lists of nodes still to be scanned. `IndInv`
connects them:

* `Parentage`, `TodoOrigin`: every goroutine was started by one that worked on a
  predecessor, and looks only at successors of its own node;
* `StatusExplained`: a vertex has the target status exactly when a goroutine
  that succeeded on it is scanning its successors;
* `StartedInOrder`: a goroutine exists only for a node whose predecessors all
  have the target status (statuses never go back);
* `Covered`: a node whose predecessors all have the target status has a
  goroutine, or is in some goroutine's list. This is what shows the gap between
  `UpdateStatus` and the following loop to be harmless: the last predecessor to
  be updated puts the node in its own list in the same step;
* `Outcome`: how `returned`, `err` and failed goroutines go together.

One lemma per action shows that `IndInv` is preserved; the theorems follow from
it. `SuccessMeansAll` needs that an acyclic finite graph has no non-empty set of
services each with a predecessor in the set; this is the form in which
`HasCycles` is defined, and the search of `CycleDetection` is proved to answer.
`CalledAtMostOnce` adds a second induction over the paths: with at most one
predecessor each, two goroutines for one service would have the same parent.

`WalkIdle`, `WalkOnFacts` and `FnFacts` say what the commands that extend the
walk need of it: a step that leaves the walk alone, one of the walk between
calls of `fn`, and one in which a call ends, all keep `IndInv`, and which calls
they begin and end.

### Stop and down

Both theorems of each assume `~TornReads`. The assumption is needed: the table
of section 3 has the instance in which a torn read makes `down` miss a
container. Otherwise only `ListingAssumption` (a listing names a container once)
and, for down, finitely many networks.

The visits of independent services overwrite each other's slice, and an older
slice can come back. What makes that harmless is `Kept` (stop) and `StillHeld`
(down): a container that still exists is in the slice *and* in the share or the
rest that every visit under way holds, so that whichever writes next brings it
back. In both the exception is an error: after one a container can be lost from
the slice. This is why `DependentsStoppedFirst` needs its exception, which was
found in the attempt to prove it without: on a service with two dependents, a
second visit that starts after the first has failed finds nothing left to stop
and succeeds. The run was extended to four services so that it happens there.
`down` needs no such exception, as the error stays in the shared errgroup and
makes every later `Wait` fail (`ReapedGone`).

In `DownInv`, `RemovalsEnd` says that no removal of a call is under way after
its `Wait`, although the errgroup is shared and the goroutines use whatever
container the loop variable holds when they stop it.

### Create

`CreateAssumption` is the type of the constants: what is deployed, and the
options; a scale is a natural number. There is no bound on the containers, the
replicas or the runs.

`NeverFewer` speaks of numbers, and what the code does with the list of
containers depends on their places in it. `Rank` connects the two: the i-th
container of the listing has i - 1 newer ones of its service before it
(`RankIsPlace`). The invariant then says of each container that has one of the
first `Scale` places in the listing that it is still in the engine, or that a
goroutine that recreates it has made another in its place (`WantedPresent`).
Counting them gives the theorem (`EnoughLeft`): what a goroutine has made is
newer than everything in the listing, was made by one goroutine only, and
nobody removes it (`Product`). That the captured loop variable may hold another
container of the list is harmless here, since that one is of the same service
and is replaced before it is removed; a trim has a variable of its own, and its
container comes after the first `Scale` (`Charge`). Two visits of one service
do no harm either, for the same reasons. Names play no part: a run that finds a
container renamed by one that failed, and renames it again, is a run like others.

### What create asks the engine for

For any project and any number of creates at once, any call of which may fail.
`OptionsAssumption` is what the loader and the engine give: a service has one
mount for a place, a network is external or not under all its keys, a volume
that a container has has a name. `ClientsInv` says how far the loops over
networks and volumes have come: a network or volume whose turn is over is there.
That there is one network of a name needs a create that is alone
(`CountInv`), as the code asks and makes in two calls. `KeptInv` says that the
volumes that were there stay whose they were, and `MadeInv` takes what a
container was made with back to its service: at a place there is a mount of the
service, or else of the image, or else of the replaced container, and one only
(`OneAtEachPlace`). What a service takes volumes from
is shown to be among its dependencies; that it is then made first is the order
of the walk.

### Start

`StartAssumption`: a container belongs to one service, which the label that
lists them gives. Both theorems then hold for all projects and all conditions.
With several dependencies the goroutines of `waitDependencies` poll the one that
the loop variable holds at that tick, and ends at. `Polled` therefore says of a
call that has no poller left that it has come to none of the dependencies that
must be healthy, or that some dependency was found healthy, and the one in the
variable if it is such; a container, once healthy, stays so (section 5). A
service may be visited twice, so that `StartedWhenReady` speaks of every call.

### The output of containers

For any number of containers, started, ending and removed at any time, and any
texts (`AttachAssumption`: what a container writes comes in pieces that are not
empty). `StreamsInv` says that a stream that was copied to its end has shown all
that was written, and that its container does not run again after it: this is
where it matters that `up` attaches before it starts and `logs` starts nothing
(`StartsInv`). Lines are made from pieces by a writer that keeps nothing from
one piece to the next; `LinesCopied` shows that the lines come out whole where
the pieces before end with a line, which is the condition in `OutputRight`.

### Local containers

For any number of commands at once, any containers and images
(`CommandsAssumption`: an engine's containers have all fields, and are not
owned by the commands before they begin; at most one exec, since the output is
that of one). `BoxInv` says that a container was made by the command that owns
it, with what that was asked for, was started by no other run, and is on its way
out as soon as it has ended if it was run with `--rm`; `OwnInv` that a run that
succeeded still has its container unless somebody removed it; `AloneInv` follows
a run that nobody disturbs through its two tries with the pull between them. The
rest is about loops: the parts of a text split at `=` are one more than its
signs, so that a variable comes back unless it holds a second one, with the last
of its values (`RoundTrip`), and the groups of `ls` hold each container once and
no project is left out (`StacksCounted`).

### The commands on contexts

For any number of processes, any store and kills between any two steps. It is
assumed that no context is called `default` or the empty name, both of which
the code treats as the default context (`NameAssumption`), that `create`, `use`
and `update` have the one argument that `cobra.ExactArgs(1)` lets through, and
that no metadata file is damaged at first (`CommandAssumption`).

`CommandInv` has a part on what a process knows by itself (`Own`: which steps a
command goes through, what it has reported) and a part on what it knows about
the files (`Fresh`), which holds as long as nobody else has changed them
(`touched`). A step that writes the configuration file keeps its other keys if
the process is not touched; a kill just before it leaves the file empty, and
`MendedStep` says that this is then no state from which a command goes on: what
replaces a damaged file was read before it was damaged. The exclusive creation is the one part without that condition:
`Mkdir` is atomic, and a directory that somebody made stands until it is removed
(`MadeStands`).

### Pulls, pushes and what they draw

For any project, any streams, any images that are there at first, and any order
of the goroutines, their failures and the ticks of the writer. `ImagesAssumption`
says that services have names of their own, no layer has the id of a service, a
stream ends with an end of file or an error, and a layer that is complete has no
progress left to show. The theorem is about a terminal that is wide enough
(`Roomy`): where texts are from L to M characters long, it is wider than 2M + 15,
has room for M, the 7 characters around them and the time of an event without an
end, and a time is at most L + 3 characters long. Narrower ones are where lines
run over; the hypothesis holds in the run, with texts of 2 and 3.

The loops of `print` (the padding, the lines below a line, the rows) are recursive
functions of the number of turns: `LoopDefined` says that such a loop is defined,
`LoopKeepsTo` that it stays in a set, `LoopCovers` that it keeps what it appends.
It follows that every event is drawn (`LinesAll`), that a line has one row
(`LineFits`) and that the rows are as many as the lines that `print` counts
(`OneRowEach`): the next drawing goes up to row 0 (`InPlace`).

`ImagesInv` has the writer's part (`WriterOk`: an event below another is below a
service that has an event of its own and no parent), and the command's:
`ServicesOk` says how much of its stream a goroutine has read at each step,
`AllShown` that a service is shown done exactly when its goroutine is over and
well, `CommandOk` that after `eg.Wait` no goroutine sends another event, which is
why the last drawing is complete (`LastOk`), and `BuildsOk` that an entry of the
map of builds is only replaced by one for the same image, unless two services
share a key (`OneKey`).

### Container groups and volumes of Azure

For any number of clients, every plan and any calls failing. A plan says what is
deployed and what is asked; it is assumed that a container runs only in a
group that runs, that the container of a group made by `run` has its name, and
that a volume to create is given by account and share (`PlansAssumption`). Each call to Azure is atomic, and what a command decides on
is what it read some calls before. `OwnInv` says, for each place of a command,
what it has read and what that was good for, as long as it has not gone blind
(somebody came between, or a page was not read); `AccountsInv` says that an account without the tag of the program was
there before, and that a new one without a share is awaited by the client that
made it. The property that no command takes away what it should not (`AzureKept`) is then a
property of the single steps.

### Releases

For any number of clients, clusters and releases and any calls failing, before
or after they took effect (`KubeCasesAssumption` is the type of the cases, with
finitely many clients). The theorem is a sum: for each release, the downs that
were told they removed it and the one that is there are no more than the one that
was there and the ups that may have installed one, and the other way round
(`SumsAt`). Each step of a client moves both sides of a sum alike; a down that
finds a release and removes it later is the case where that could fail. `ShownAt`
and `Answered` carry the sums to what `ls` shows.

### The choice of a resource group

For every account, any number of pages and all options. `PagesRead` says that
what has been read is what the pages up to the present one hold; that this is
all when the last page was read is where an induction over the pages is needed.
It is assumed that Azure answers with one page at least and knows the groups of
the subscriptions it names (`ContextCasesAssumption`).

### Logs and exec of Azure

For every width of the terminal, known to the program or not, every log and
every command, with a container that writes, ends or is deleted between any two
steps. The screen is right after a turn if the cursor goes up by exactly the rows
that were printed. The invariant (`Following`, in `FollowInv`) is that the screen
holds what was fetched last above its cursor, with the prompt above that or, once
the code has miscounted, without it, and that the log, which only grows, has no
fewer rows now. How the code counts is a fact about division: a line of l
characters, l > w, has ⌈l/w⌉ rows and the code counts 1 + ⌊l/w⌋, which is the
same unless w divides l. Then the line is counted once too often, and the cursor
goes up over the prompt; it cannot go further up than the first row, so that this
is all that is lost. With an unknown width each line counts for one row, and one
is added. How far the cursor is off when lines then wrap is not said: what was
printed before piles up above. For exec, the goroutine
that reads ends only when all was shown of a command that has ended
(`ReadToTheEnd`), so that an exec that returns for its end has shown all.

### Logout

For every option of the login and any number of commands. While nothing excuses
a token (a login that wrote one, a command overtaken by the logout), the file is
absent *and* no command is between its read of the token and its write:
without the second half the refreshed token would be written back. That a login
that failed has written nothing is, for the browser flow, a fact about what the
handlers put in the channel (`BrowserFields`).

### The stack

For every earlier deployment of the project, with or without failures, a signal
and a down in another terminal (`ScenariosAssumption` is the type of the
constant). The waiter and the poller of `WaitStackCompletion` are not
synchronised: the waiter can be done while events are still to be read. The
invariant therefore says of a waiter that is done that its stack has reached the
end, or the failure is among the events not seen yet (`WaiterTells`,
`DeletionOver`): the round of the poller that follows reads it, and only then
does the command look at the result (`CheckTells`, `DeletionSeen`). The cases in
which the code does not notice (a waiter that gives up, a stack deleted by
another command) are in `StackResult` as the exceptions they are.

### Contexts of ECS

For all profiles, regions and environments and all options
(`ContextAssumption`: there is a profile `default`, and no profile or region is
the word for none); those that the flags refuse are refused in the model too.
`WayTaken` says which options lead to which steps: keys never come with a
profile, so that they are saved for `default`. `SavedSoFar` says what is in the
files after each step, and `RegionsStay` that no region changes for a later
command: the one that is saved goes where nothing looks for it, and the file that
`AWS_CONFIG_FILE` names is written and never read.

### The ECS simulation

For every project that fits the network, with replicas, and all secrets
(`LocalAssumption`), whichever write fails. `AppInv` says that from the
conversion on each service has an address of its own and depends on the
endpoints, which run before any other, and that no two containers with one
address run (`OneEach`): a start is refused only to a second replica.
`SideCarInv` says that a secret that was asked for is still to come, or has its
file or one for each of its keys (`LeftOrWritten`), and that there is no file that
no secret asked for.

### Only model-checked

* **Liveness** (`StartEnds`, `DownEnds`, `StackSettles`, `LinesFollowed`,
  `LoginEnds`, `AttachEnds`, the fairness of `ImplementsOrder`): the prover has
  no rules for fairness.
* **The conversions** (`TemplateRight`, `GroupRight`, `ChartRight`): each takes
  a whole project through a dozen functions on nested records and compares the
  ends. There are no steps to argue about, only data; the runs go through all
  cases of the instances.
* **`ProjectConverges` and `TouchedInOrder`** of `create` also need what the
  goroutines of all visits have made of the configurations, for which
  `CreateInv` does not provide; see the plan.
* **`AnswersRight`**: the listings are cut off at `MaxFetches`, and what they
  answer is selected and flattened by operators that take operators, which the
  provers cannot instantiate.

## 5. What is left out

* **Generated and third-party code**: the protocol buffers, the mocks, the SDKs,
  the engine. What the code relies on in them is modelled where it is used, and
  marked external in the map.
* **`Down` without a project** (`projectFromContainerLabels`): it makes a project
  from the labels of containers and then goes on as with one.
* **Torn reads** of the slice other than old array with shorter length (a longer
  length ends in a crash), and a loop variable that is read half overwritten.
* **Texts**: flags, formatting, the wording of errors, colours, the plain
  progress writer, the translation of gRPC messages.
* **Metrics**: one HTTP request whose result is ignored; when a command is
  reported is in `CommandLine`.
* **buildx**: what it does with the images to build is one step.
* **Single calls handed on** (start, stop, kill and logs of one local container,
  the listing of volumes): one atomic step each, without a state of their own.
* **A health change** from healthy to unhealthy; the restart policies of the
  engine.
* **The overlay** of `x-aws-cloudformation`, which is merged into the text of the
  template; the height of the terminal of `AciLogs`; what `exec` of a local
  container shows (its steps are modelled, no property is about them).
* **Pages** beyond those of the instances.

## 6. Plan

1. `DependenciesFirst` of `ComposeCreate`, and what remains of
   `ProjectConverges`: `CreateInv` with the configuration of what the goroutines
   have made.
2. `LoginEnds` without its fairness: that no goroutine of the login is left
   waiting on a full channel in a state in which the login has returned.
3. `AnswersRight` with the pages read as `AciContext` reads them.
