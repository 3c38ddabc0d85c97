---------------------------- MODULE EcsTemplate ----------------------------
(***************************************************************************)
(* ecs Convert: from a Compose project to a CloudFormation template. The   *)
(* template is a function from logical names to resources; a resource      *)
(* keeps what the properties tell apart: its type, the logical names its   *)
(* attributes and DependsOn refer to, and a few attributes (attr). A       *)
(* logical name is a tuple of its parts: two things whose names normalize  *)
(* to the same one share a resource, and the later one replaces it.        *)
(***************************************************************************)
EXTENDS Integers, Sequences, SequencesExt, FiniteSets, FiniteSetsExt, Functions, TLC

CONSTANTS Projects,      \* Compose projects, as they are loaded
          Accounts,      \* what AWS answers about what already exists
          Normalized,    \* names, without the characters a logical name cannot have
          Formats        \* the formats asked for

VARIABLES project, account, format,
          resources,     \* the awsResources value
          template,      \* the resources of the template
          todo,          \* the services not yet converted
          pc             \* the next step, or how the conversion ended

templateVars == <<project, account, format, resources, template, todo, pc>>

-----------------------------------------------------------------------------
(***************************************************************************)
(* How the task of one service is sized and described (ecs/convert.go),    *)
(* and the machine that runs the tasks with GPUs (ecs/gpu.go). Pure        *)
(* functions of a service of the Compose file; what the code holds in a    *)
(* pointer is a sequence of at most one element here. Memory is counted in *)
(* KiB and CPUs in thousandths; a text that is no number is Unparsable.    *)
(***************************************************************************)

MiB == 1024
GiB == 1024 * MiB
Unparsable == -1

(* A file that is not there, or does not parse. *)
NoFile == <<>>

-----------------------------------------------------------------------------
(* GPUs: three readings of the same reservations. *)

Reservations(s) == IF s.deploy = <<>> THEN <<>> ELSE s.deploy[1].reservations
Generic(s) == IF Reservations(s) = <<>> THEN <<>>
              ELSE SelectSeq(Reservations(s)[1].generic, LAMBDA g : g.kind = "gpus")
Devices(s) == IF Reservations(s) = <<>> THEN <<>> ELSE Reservations(s)[1].devices

WithGpu(ds) == SelectSeq(ds, LAMBDA d : "gpu" \in d.capabilities)
AtLeastOne(n) == IF n <= 0 THEN 1 ELSE n

(* What decides the launch type: a device counts when "gpu" is all it can do. *)
gpuRequirements(s) ==
    LET exact == SelectSeq(Devices(s), LAMBDA d : d.capabilities = {"gpu"})
    IN  IF Generic(s) # <<>> THEN Generic(s)[1].value
        ELSE IF exact # <<>> THEN exact[1].count ELSE 0

requireEC2(s) == gpuRequirements(s) > 0

(* What the task asks of the machine it runs on. *)
toTaskResourceRequirements(s) ==
    [i \in DOMAIN Generic(s) |-> Generic(s)[i].value] \o
    [i \in DOMAIN WithGpu(Devices(s)) |-> AtLeastOne(WithGpu(Devices(s))[i].count)]

(* What the machine is chosen for: the devices, when there are any, win. What
   is Unparsable is an error of getResourceRequirements. *)
toResourceRequirements(s) ==
    IF Reservations(s) = <<>> THEN <<>>
    ELSE LET r == Reservations(s)[1]
         IN  << [mem  |-> r.mem, cpus |-> r.cpus,
                 gpus |-> IF WithGpu(r.devices) # <<>> THEN AtLeastOne(WithGpu(r.devices)[1].count)
                          ELSE IF Generic(s) # <<>> THEN Generic(s)[1].value ELSE 0] >>

(* The requirements of the services bound to GPUs, combined; those of the
   others must make sense too. <<>> is the error. *)
getResourceRequirements(services) ==
    LET all   == { r \in { toResourceRequirements(s) : s \in services } : r # <<>> }
        bound == { r \in all : r[1].gpus # 0 }
        Most(Of(_)) == Max({0} \cup { Of(r[1]) : r \in bound })
    IN  IF \E r \in all : r[1].cpus = Unparsable THEN <<>>
        ELSE << [mem  |-> Most(LAMBDA r : r.mem), cpus |-> Most(LAMBDA r : r.cpus),
                 gpus |-> Most(LAMBDA r : r.gpus)] >>

Machine(id, cpus, mem, gpus) == [id |-> id, cpus |-> cpus * 1000, mem |-> mem * GiB, gpus |-> gpus]
gpufamily == << Machine("xlarge", 4, 16, 1),     Machine("2xlarge", 8, 32, 1),
                Machine("4xlarge", 16, 64, 1),   Machine("8xlarge", 32, 128, 1),
                Machine("12xlarge", 48, 192, 4), Machine("16xlarge", 64, 256, 1),
                Machine("metal", 96, 384, 8) >>

(* The first machine of the family that is large enough; <<>> is the error. *)
guessMachineType(services) ==
    LET need == getResourceRequirements(services)
        fit  == SelectSeq(gpufamily, LAMBDA m : /\ m.mem > need[1].mem /\ m.cpus >= need[1].cpus
                                                /\ m.gpus >= need[1].gpus)
    IN  IF need = <<>> \/ fit = <<>> THEN <<>> ELSE << Head(fit) >>

-----------------------------------------------------------------------------
(* CPU and memory. *)

(* <<>> is the error of ParseCPUs. *)
getConfiguredLimits(s) ==
    IF s.deploy = <<>> THEN << [mem |-> 0, cpu |-> 0] >>
    ELSE LET limits == IF s.deploy[1].limits # <<>> THEN s.deploy[1].limits ELSE s.deploy[1].reservations
         IN  IF limits = <<>> THEN << [mem |-> 0, cpu |-> 0] >>
             ELSE IF limits[1].cpus = Unparsable THEN <<>>
             ELSE << [mem |-> limits[1].mem, cpu |-> limits[1].cpus] >>

fargateCPUToMem ==
    [c \in {256, 512, 1024, 2048, 4096} |->
        CASE c = 256  -> {512, 1024, 2048}
          [] c = 512  -> { 1024 * k : k \in 1..4 }
          [] c = 1024 -> { 1024 * k : k \in 2..8 }
          [] c = 2048 -> { 1024 * k : k \in 4..16 }
          [] c = 4096 -> { 1024 * k : k \in 8..30 }]

(* The smallest size of Fargate that holds the limits; on EC2 the limits as *)
(* they are. <<>> is the error.                                             *)
toLimits(s) ==
    LET want == getConfiguredLimits(s)[1]
        fits == { c \in DOMAIN fargateCPUToMem :
                    want.cpu <= c /\ \E m \in fargateCPUToMem[c] : want.mem <= m * MiB }
        cpu  == Min(fits)
    IN  IF getConfiguredLimits(s) = <<>> THEN <<>>
        ELSE IF requireEC2(s) THEN << [cpu |-> want.cpu, mem |-> want.mem \div MiB] >>
        ELSE IF want.mem = 0 /\ want.cpu = 0 THEN << [cpu |-> 256, mem |-> 512] >>
        ELSE IF fits = {} THEN <<>>
        ELSE << [cpu |-> cpu, mem |-> Min({ m \in fargateCPUToMem[cpu] : want.mem <= m * MiB })] >>

toContainerReservation(s) == IF Reservations(s) = <<>> THEN 0 ELSE Reservations(s)[1].mem \div MiB

-----------------------------------------------------------------------------
(***************************************************************************)
(* The environment. The loop over the variables of a file stores the       *)
(* address of its own variable, so that all of them end up with the value  *)
(* of the one the map yields last (go.mod asks for Go 1.15): one outcome   *)
(* per choice of that one. The result is the set of the outcomes, each a   *)
(* function from names to values; {} is the error.                         *)
(***************************************************************************)
Aliased(file) == IF file = <<>> \/ DOMAIN file[1] = {} THEN { [k \in {} |-> ""] }
                 ELSE { [k \in DOMAIN file[1] |-> v] : v \in Range(file[1]) }

createEnvironment(s) ==
    IF \E i \in DOMAIN s.envFile : s.envFile[i] = NoFile THEN {}
    ELSE LET choices == { c \in [DOMAIN s.envFile -> UNION { Aliased(s.envFile[i]) : i \in DOMAIN s.envFile }] :
                            \A i \in DOMAIN s.envFile : c[i] \in Aliased(s.envFile[i]) }
         IN  { s.environment @@ FoldLeft(LAMBDA env, f : f @@ env, [k \in {} |-> ""], c) : c \in choices }

-----------------------------------------------------------------------------
(* The parts of a container's description that are more than a copy. *)

(* Only the options of the log driver that the file may set are taken over. *)
getLogConfiguration(s) == s.logOptions @@ [group |-> "LogGroup", prefix |-> "project"]

(* A duration in milliseconds is cut down to whole seconds. *)
durationToInt(interval) == IF interval = <<>> THEN 0 ELSE interval[1] \div 1000

toHealthCheck(check) ==
    IF check = <<>> THEN <<>>
    ELSE << [interval |-> durationToInt(check[1].interval), timeout |-> durationToInt(check[1].timeout),
             start    |-> durationToInt(check[1].start),
             retries  |-> IF check[1].retries = <<>> THEN 0 ELSE check[1].retries[1]] >>

toPortMappings(ports) == [i \in DOMAIN ports |-> [container |-> ports[i].target, host |-> ports[i].published,
                                                  protocol |-> ports[i].protocol]]

(* An extra host without an address has no second part to take. *)
HostsParse(s) == \A h \in s.extraHosts : h.address # <<>>

(* Every tmpfs mount gets the same size. *)
toLinuxParameters(s) == [tmpfs |-> [p \in s.tmpfs |-> 100], init |-> s.init = <<TRUE>>, add |-> s.capAdd]

(***************************************************************************)
(* The container that writes the secrets to files before the service runs: *)
(* the value of each under the name the service knows it by.               *)
(***************************************************************************)
createSecretsSideCar(secrets, s) ==
    [name    |-> <<s.name, "Secrets_InitContainer">>, essential |-> FALSE, after |-> {},
     mounts  |-> {<<"secrets", "rw">>},
     secrets |-> [t \in { u.target : u \in s.secrets } |->
                    secrets[(CHOOSE u \in s.secrets : u.target = t).source].name]]

ResolvConfContainer(s) ==
    [name |-> <<s.name, "ResolvConf_InitContainer">>, essential |-> FALSE, after |-> {},
     mounts |-> {}, secrets |-> [t \in {} |-> ""]]

(* What the service's own container adds to a copy of the service. *)
Container(s) == [ports |-> toPortMappings(s.ports), health |-> toHealthCheck(s.healthCheck),
                 linux |-> toLinuxParameters(s), log |-> getLogConfiguration(s)]

InitContainers(secrets, s) ==
    (IF s.secrets = {} THEN {} ELSE {createSecretsSideCar(secrets, s)}) \cup {ResolvConfContainer(s)}

MainContainer(secrets, s) ==
    [name |-> <<s.name, "">>, essential |-> TRUE, secrets |-> [t \in {} |-> ""],
     after  |-> { c.name : c \in InitContainers(secrets, s) },
     mounts |-> { <<v.source, IF v.ro THEN "ro" ELSE "rw">> : v \in s.volumes } \cup
                (IF s.secrets = {} THEN {} ELSE {<<"secrets", "ro">>})]

-----------------------------------------------------------------------------
(* The names of the resources. *)


normalizeResourceName(n) == Normalized[n]
networkResourceName(n) == <<normalizeResourceName(n), "Network">>
serviceResourceName(n) == <<normalizeResourceName(n), "Service">>
volumeResourceName(n) == <<normalizeResourceName(n), "Filesystem">>

Named(n, kind) == <<normalizeResourceName(n), kind>>
Shared(kind) == <<"", kind>>
Resource(type, refs, attr) == [type |-> type, refs |-> refs, attr |-> attr]

(* What an awsResource refers to: an existing one, or one of the template. *)
Existing == {}
Future(name) == {name}

Services == Range(project.services)
PortsOf(s) == Range(s.ports)

Empty == [x \in {} |-> x]

TemplateInit ==
    /\ project \in Projects
    /\ account \in Accounts
    /\ format \in Formats
    /\ resources = [vpc |-> "", subnets |-> {}, cluster |-> <<>>, lb |-> <<>>, lbType |-> "",
                    groups |-> Empty, filesystems |-> Empty]
    /\ template = Empty
    /\ todo = project.services
    /\ pc = "resolve"

(* No conversion: the instance is about another part of the backend. *)
TemplateIdle ==
    /\ project = [services |-> <<>>]
    /\ account = [public |-> Empty, lbSubnets |-> {}]
    /\ format = "yaml"
    /\ resources = [vpc |-> "", subnets |-> {}, cluster |-> <<>>, lb |-> <<>>, lbType |-> "",
                    groups |-> Empty, filesystems |-> Empty]
    /\ template = Empty
    /\ todo = <<>>
    /\ pc = "idle"

Fails(why) == pc' = why /\ UNCHANGED <<project, account, format, resources, template, todo>>

-----------------------------------------------------------------------------
(* Images are resolved concurrently; one that cannot be ends the conversion. *)

resolveServiceImagesDigests ==
    /\ pc = "resolve"
    /\ IF \E s \in Services : s.image # "known" THEN Fails("error")
       ELSE /\ project' = [project EXCEPT !.services = [i \in DOMAIN @ |-> [@[i] EXCEPT !.image = "digest"]]]
            /\ pc' = "check"
            /\ UNCHANGED <<account, format, resources, template, todo>>

(***************************************************************************)
(* The checker rewrites what it checks: a port that is not published is    *)
(* published as it is, capabilities ECS does not have are dropped.         *)
(***************************************************************************)
CheckPortsPublished(p) == [p EXCEPT !.published = IF @ = 0 THEN p.target ELSE @]
CheckCapAdd(s) == s.capAdd \cap {"SYS_PTRACE"}

Incompatible(s) ==
    \/ \E p \in PortsOf(s) : CheckPortsPublished(p).published # p.target
    \/ \E v \in s.volumes : v.type \in {"bind", "tmpfs"}
    \/ s.capAdd \ {"SYS_PTRACE"} # {}

checkCompatibility ==
    /\ pc = "check"
    /\ IF \E s \in Services : Incompatible(s) THEN Fails("error")
       ELSE /\ project' = [project EXCEPT !.services = [i \in DOMAIN @ |->
                             [@[i] EXCEPT !.ports  = [j \in DOMAIN @ |-> CheckPortsPublished(@[j])],
                                          !.capAdd = CheckCapAdd(project.services[i])]]]
            /\ todo' = project'.services
            /\ pc' = "parse"
            /\ UNCHANGED <<account, format, resources, template>>

-----------------------------------------------------------------------------
(* parse: the resources the project names must exist. *)

portIsHTTP(p) == IF p.xProtocol # "" THEN p.xProtocol \in {"http", "https"} ELSE p.target \in {80, 443}

getRequiredLoadBalancerType ==
    IF \A s \in Services : \A p \in PortsOf(s) : portIsHTTP(p) THEN "application" ELSE "network"

parseClusterExtension ==
    IF project.xCluster = "" THEN <<>> ELSE << Existing >>

(* The load balancer fixes the VPC and the subnets. *)
LoadBalancerError == project.xLoadBalancer # "" /\ account.lb # getRequiredLoadBalancerType

parseLoadBalancerExtension(r) ==
    IF project.xLoadBalancer = "" THEN r
    ELSE [r EXCEPT !.lb = << Existing >>, !.lbType = account.lb, !.vpc = account.lbVpc,
                   !.subnets = account.lbSubnets]

(* An ARN given for the VPC is cut down to its identifier. *)
VpcId == IF project.xVpc = "arn/vpc1" THEN "vpc1" ELSE project.xVpc

VPCError(r) ==
    \/ project.xVpc # "" /\ r.vpc # "" /\ r.vpc # VpcId
    \/ r.vpc = "" /\ project.xVpc # "" /\ VpcId \notin account.vpcs
    \/ r.vpc = "" /\ Cardinality({ n \in DOMAIN account.public : account.public[n] }) < 2

parseVPCExtension(r) ==
    IF r.vpc # "" THEN r
    ELSE [r EXCEPT !.vpc = IF project.xVpc # "" THEN VpcId ELSE "default", !.subnets = DOMAIN account.public]

ExternalNetworks == { n \in DOMAIN project.networks : project.networks[n].external \/ project.networks[n].xGroup }

parseExternalNetworks == [n \in ExternalNetworks |-> Existing]

(* A filesystem that was created for the volume before is used again. *)
PreviousVolumes == { v \in DOMAIN project.volumes : ~project.volumes[v].external /\ account.tagged[v] = 1 }
ExternalVolumes == { v \in DOMAIN project.volumes : project.volumes[v].external }
VolumeError ==
    \/ \E v \in DOMAIN project.volumes : ~project.volumes[v].external /\ account.tagged[v] > 1
    \/ ExternalVolumes # {} /\ ~account.filesystems

parseExternalVolumes == [v \in PreviousVolumes \cup ExternalVolumes |-> Existing]

parse ==
    /\ pc = "parse"
    /\ LET withLb == parseLoadBalancerExtension([resources EXCEPT !.cluster = parseClusterExtension])
       IN  IF \/ project.xCluster # "" /\ ~account.cluster
              \/ LoadBalancerError
              \/ VPCError(withLb)
              \/ ExternalNetworks # {} /\ ~account.groups
              \/ VolumeError
           THEN Fails("error")
           ELSE /\ resources' = [parseVPCExtension(withLb) EXCEPT !.groups = parseExternalNetworks,
                                                                  !.filesystems = parseExternalVolumes]
                /\ project' = [project EXCEPT !.networks =
                                 [n \in DOMAIN @ |-> [@[n] EXCEPT !.external = n \in ExternalNetworks]]]
                /\ pc' = "ensure"
                /\ UNCHANGED <<account, format, template, todo>>

-----------------------------------------------------------------------------
(* ensureResources: what does not exist is added to the template. *)

Groups(r, nets) == UNION { r.groups[n] : n \in nets }

ensureCluster(t) == IF resources.cluster # <<>> THEN t ELSE Shared("Cluster") :> Resource("cluster", {}, "") @@ t

Created(r, nets) == nets \ DOMAIN r.groups

ensureNetworks(t) ==
    LET new == Created(resources, DOMAIN project.networks)
    IN  [g \in { networkResourceName(n) : n \in new } |-> Resource("group", {}, "")] @@
        [i \in { Append(networkResourceName(n), "Ingress") : n \in new } |->
            Resource("ingress", {<<i[1], i[2]>>}, "-1")] @@ t

(* A throughput that is not a number ends the conversion. *)
ThroughputError == \E v \in DOMAIN project.volumes :
                      v \notin DOMAIN resources.filesystems /\ project.volumes[v].throughput = "bad"

ensureVolumes(t) ==
    [f \in { volumeResourceName(v) : v \in DOMAIN project.volumes \ DOMAIN resources.filesystems } |->
        Resource("filesystem", {}, "Retain")] @@ t

getLoadBalancerSecurityGroups(r) ==
    Groups(r, { n \in DOMAIN project.networks : ~project.networks[n].internal })

NeedsLoadBalancer == resources.lb = <<>> /\ \E s \in Services : s.ports # <<>>

ensureLoadBalancer(t, r) ==
    IF ~NeedsLoadBalancer THEN t
    ELSE Shared("LoadBalancer") :>
           Resource("lb", IF getRequiredLoadBalancerType = "application"
                          THEN getLoadBalancerSecurityGroups(r) ELSE {}, getRequiredLoadBalancerType) @@ t

ensureResources ==
    /\ pc = "ensure"
    /\ IF ThroughputError THEN Fails("error")
       ELSE LET r == [resources EXCEPT
                        !.cluster = IF @ = <<>> THEN << Future(Shared("Cluster")) >> ELSE @,
                        !.groups  = @ @@ [n \in DOMAIN project.networks |-> Future(networkResourceName(n))],
                        !.filesystems = @ @@ [v \in DOMAIN project.volumes |-> Future(volumeResourceName(v))],
                        !.lb      = IF NeedsLoadBalancer THEN << Future(Shared("LoadBalancer")) >> ELSE @,
                        !.lbType  = IF NeedsLoadBalancer THEN getRequiredLoadBalancerType ELSE @]
            IN  /\ template' = ensureLoadBalancer(ensureVolumes(ensureNetworks(ensureCluster(template))), r)
                /\ resources' = r
                /\ pc' = "secrets"
                /\ UNCHANGED <<project, account, format, todo>>

-----------------------------------------------------------------------------
(* What all services share. *)

(* A secret's value is its name, or a reference to its resource. *)
createSecret(k) ==
    IF project.secrets[k].external THEN project.secrets[k]
    ELSE [project.secrets[k] EXCEPT !.value.ref = {Named(project.secrets[k].value.name, "Secret")}]

Uploaded == { k \in DOMAIN project.secrets : ~project.secrets[k].external }

CreateSecrets ==
    /\ pc = "secrets"
    /\ IF \E k \in Uploaded : ~project.secrets[k].readable THEN Fails("error")
       ELSE /\ template' = [n \in { Named(project.secrets[k].value.name, "Secret") : k \in Uploaded } |->
                              Resource("secret", {}, "")] @@ template
            /\ project' = [project EXCEPT !.secrets = [k \in DOMAIN @ |-> createSecret(k)]]
            /\ pc' = "shared"
            /\ UNCHANGED <<account, format, resources, todo>>

createLogGroup == Shared("LogGroup") :> Resource("logs", {}, "")
createCloudMap == Shared("CloudMap") :> Resource("namespace", {}, "")

mountTarget(v, subnet) == <<normalizeResourceName(v), "NFSMountTargetOn", subnet>>

allSecurityGroups == Groups(resources, DOMAIN resources.groups)

(* The volume a resource is named for. *)
VolumeOf(n) == CHOOSE v \in DOMAIN project.volumes : normalizeResourceName(v) = n[1]

createNFSMountTarget ==
    [n \in { mountTarget(v, s) : v \in DOMAIN project.volumes, s \in resources.subnets } |->
        Resource("mount", resources.filesystems[VolumeOf(n)] \cup allSecurityGroups, n[3])]

mountTargets(v) == { mountTarget(v, s) : s \in resources.subnets }

createAccessPoints ==
    [n \in { Named(v, "AccessPoint") : v \in DOMAIN project.volumes } |->
        Resource("accesspoint", resources.filesystems[VolumeOf(n)], "")]

CreateShared ==
    /\ pc = "shared"
    /\ template' = createAccessPoints @@ createNFSMountTarget @@ createCloudMap @@ createLogGroup @@ template
    /\ pc' = "services"
    /\ UNCHANGED <<project, account, format, resources, todo>>

-----------------------------------------------------------------------------
(* One service: its roles, its task, its ports, and the service itself. *)

Refs(values) == UNION { v.ref : v \in values }

createPolicies(s) == s.pullCredentials \cup { project.secrets[u.source].value : u \in s.secrets }

createTaskExecutionRole(s) ==
    Named(s.name, "TaskExecutionRole") :> Resource("role", Refs(createPolicies(s)), createPolicies(s))

volumeMountPolicyDocument(v) == {Named(v, "AccessPoint")} \cup resources.filesystems[v]

(* A task that mounts nothing and was given no policy has no role. *)
HasTaskRole(s) == s.role \/ s.volumes # {}

createTaskRole(s) ==
    IF ~HasTaskRole(s) THEN Empty
    ELSE Named(s.name, "TaskRole") :>
           Resource("role", UNION { volumeMountPolicyDocument(v.source) : v \in s.volumes }, {})

Volumes(s) == { Named(v.source, "AccessPoint") : v \in s.volumes } \cup
              UNION { resources.filesystems[v.source] : v \in s.volumes }

SecretValues == [k \in DOMAIN project.secrets |-> [name |-> project.secrets[k].value]]

createTaskDefinition(s, env) ==
    Named(s.name, "TaskDefinition") :>
      Resource("task",
        {Named(s.name, "TaskExecutionRole")} \cup (IF HasTaskRole(s) THEN {Named(s.name, "TaskRole")} ELSE {})
          \cup Volumes(s) \cup { Shared(l) : l \in {getLogConfiguration(s).group} \ {"own"} }
          \cup Refs({ project.secrets[u.source].value : u \in s.secrets }),
        [limits     |-> toLimits(s)[1],
         reserved   |-> toContainerReservation(s),
         containers |-> InitContainers(SecretValues, s) \cup {MainContainer(SecretValues, s)},
         launch     |-> IF requireEC2(s) THEN "EC2" ELSE "FARGATE",
         gpus       |-> toTaskResourceRequirements(s),
         own        |-> Container(s),
         env        |-> env])

createServiceRegistry(s) == Named(s.name, "ServiceDiscoveryEntry") :> Resource("registry", {Shared("CloudMap")}, "")

createIngress(s) ==
    [i \in { <<normalizeResourceName(n), ToString(p.target), "Ingress">> : n \in s.networks, p \in PortsOf(s) } |->
        LET n == CHOOSE m \in s.networks : normalizeResourceName(m) = i[1]
            p == s.ports[Max({ j \in DOMAIN s.ports : ToString(s.ports[j].target) = i[2] })]
        IN  Resource("ingress", resources.groups[n], IF p.protocol = "" THEN "-1" ELSE p.protocol)]

targetGroupName(s, p) == <<normalizeResourceName(s.name), p.protocol, ToString(p.published), "TargetGroup">>

createTargetGroup(s) == [g \in { targetGroupName(s, p) : p \in PortsOf(s) } |-> Resource("targets", {}, g[3])]

listenerName(s, p) == <<normalizeResourceName(s.name), p.protocol, ToString(p.target), "Listener">>

(* Mutant: the listener waits for the service that waits for it. *)
createListener_Waits(s) ==
    [l \in { listenerName(s, p) : p \in PortsOf(s) } |->
        Resource("listener", {serviceResourceName(s.name)} \cup resources.lb[1], "HTTP")]

createListener(s) ==
    [l \in { listenerName(s, p) : p \in PortsOf(s) } |->
        LET p == CHOOSE q \in PortsOf(s) : listenerName(s, q) = l
        IN  Resource("listener", {targetGroupName(s, p)} \cup resources.lb[1],
                     IF resources.lbType = "application" THEN "HTTP" ELSE p.protocol)]

(***************************************************************************)
(* How many tasks may stop and start during an update, in percent of the   *)
(* replicas, unless the project says so itself.                            *)
(***************************************************************************)
Limits(end, min, max) == [end |-> end, min |-> min, max |-> max]

computeRollingUpdateLimits(s) ==
    IF s.deploy = <<>> \/ s.deploy[1].update = <<>> THEN Limits("ok", 100, 200)
    ELSE LET update   == s.deploy[1].update[1]
             replicas == s.deploy[1].replicas
             given(x, default) == IF x = <<>> THEN default ELSE x[1]
             min == given(update.xMin, 100)
             max == given(update.xMax, 200)
         IN  IF (update.xMin # <<>> /\ update.xMax # <<>>) \/ update.parallelism = <<>>
               THEN Limits("ok", min, max)
             ELSE IF replicas = <<>> \/ replicas[1] < update.parallelism[1] THEN Limits("error", 0, 0)
             ELSE IF replicas[1] = 0 THEN Limits("panic", 0, 0)     \* a division by zero
             ELSE Limits("ok",
                    given(update.xMin, ((replicas[1] - update.parallelism[1]) * 100) \div replicas[1]),
                    given(update.xMax, ((replicas[1] + update.parallelism[1]) * 100) \div replicas[1]))

serviceSecurityGroups(s) == Groups(resources, s.networks)

ServiceResource(s) ==
    serviceResourceName(s.name) :>
      Resource("service",
        { listenerName(s, p) : p \in PortsOf(s) } \cup { targetGroupName(s, p) : p \in PortsOf(s) }
          \cup { serviceResourceName(d) : d \in s.dependsOn }
          \cup UNION { mountTargets(v.source) : v \in s.volumes }
          \cup resources.cluster[1] \cup serviceSecurityGroups(s)
          \cup {Named(s.name, "TaskDefinition"), Named(s.name, "ServiceDiscoveryEntry")},
        [count  |-> IF s.deploy = <<>> \/ s.deploy[1].replicas = <<>> THEN 1 ELSE s.deploy[1].replicas[1],
         limits |-> computeRollingUpdateLimits(s),
         launch |-> IF requireEC2(s) THEN "EC2" ELSE "FARGATE"])

(* How the conversion of a service ends, in the order of the code. *)
ServiceEnd(s) ==
    IF \E v \in s.volumes : v.source \notin DOMAIN resources.filesystems THEN "panic"
    ELSE IF toLimits(s) = <<>> \/ createEnvironment(s) = {} THEN "error"
    ELSE IF ~HostsParse(s) THEN "panic"
    ELSE computeRollingUpdateLimits(s).end

Scaling(s) == IF s.deploy = <<>> THEN <<>> ELSE s.deploy[1].autoscaling
ScalingError(s) == Scaling(s) # <<>> /\ (Scaling(s)[1].max = 0 \/ (Scaling(s)[1].cpu # 0 /\ Scaling(s)[1].memory # 0))

createAutoscalingPolicy(s) ==
    IF Scaling(s) = <<>> THEN Empty
    ELSE Named(s.name, "AutoScalingRole") :> Resource("role", {serviceResourceName(s.name)}, {}) @@
         Named(s.name, "ScalableTarget")  :>
           Resource("scaling", {serviceResourceName(s.name), Named(s.name, "AutoScalingRole")} \cup resources.cluster[1],
                    Scaling(s)[1].max) @@
         Named(s.name, "ScalingPolicy")   :> Resource("policy", {Named(s.name, "ScalableTarget")}, "")

createService ==
    /\ pc = "services"
    /\ todo # <<>>
    /\ LET s == Head(todo)
       IN  IF ServiceEnd(s) # "ok" THEN Fails(ServiceEnd(s))
           ELSE IF ScalingError(s) THEN Fails("error")
           ELSE /\ \E env \in createEnvironment(s) :
                     template' = createAutoscalingPolicy(s) @@ ServiceResource(s) @@ createListener(s) @@
                                 createTargetGroup(s) @@ createIngress(s) @@ createServiceRegistry(s) @@
                                 createTaskDefinition(s, env) @@ createTaskRole(s) @@
                                 createTaskExecutionRole(s) @@ template
                /\ todo' = Tail(todo)
                /\ UNCHANGED <<project, account, format, resources, pc>>

-----------------------------------------------------------------------------
(* The machines, and the text. *)

BoundToEC2 == SelectSeq(project.services, requireEC2)
getUserDefinedMachine == BoundToEC2[1].machine     \* of the first such service

CapacityResources(machine) ==
    Shared("CapacityProvider")    :> Resource("capacity", {Shared("AutoscalingGroup")}, "") @@
    Shared("AutoscalingGroup")    :> Resource("asg", {Shared("LaunchConfiguration")}, "") @@
    Shared("LaunchConfiguration") :> Resource("launch", allSecurityGroups \cup {Shared("EC2InstanceProfile")}, machine) @@
    Shared("EC2InstanceProfile")  :> Resource("profile", {Shared("EC2InstanceRole")}, "") @@
    Shared("EC2InstanceRole")     :> Resource("role", {}, {})

(* The cluster must be one of the template: another one is a nil pointer. *)
createCapacityProvider ==
    /\ pc = "services"
    /\ todo = <<>>
    /\ IF BoundToEC2 = <<>> THEN pc' = "marshall" /\ UNCHANGED <<project, account, format, resources, template, todo>>
       ELSE LET machine == IF getUserDefinedMachine # <<>> THEN getUserDefinedMachine ELSE guessMachineType(Services)
            IN  IF (BoundToEC2[1].ami = <<>> /\ ~account.ami) \/ machine = <<>> THEN Fails("error")
                ELSE IF Shared("Cluster") \notin DOMAIN template THEN Fails("panic")
                ELSE /\ template' = Shared("Cluster") :> Resource("cluster", {Shared("CapacityProvider")}, "") @@
                                    CapacityResources(machine[1]) @@ template
                     /\ pc' = "marshall"
                     /\ UNCHANGED <<project, account, format, resources, todo>>

(* An attribute that is FALSE is not written, and ECS takes it for TRUE; *)
(* in YAML it is put back, for the containers with the suffix. What an   *)
(* overlay of the user's own changes in the text is not followed.        *)
Essential(c) == IF format = "yaml" THEN c.essential ELSE TRUE

Marshalled(r) == IF r.type # "task" THEN r
                 ELSE [r EXCEPT !.attr.containers = { [c EXCEPT !.essential = Essential(c)] : c \in @ }]

marshall ==
    /\ pc = "marshall"
    /\ IF format \notin {"yaml", "json"} \/ (project.overlay /\ format # "yaml") THEN Fails("error")
       ELSE /\ template' = [n \in DOMAIN template |-> Marshalled(template[n])]
            /\ pc' = "done"
            /\ UNCHANGED <<project, account, format, resources, todo>>

TemplateNext ==
    \/ resolveServiceImagesDigests
    \/ checkCompatibility
    \/ parse
    \/ ensureResources
    \/ CreateSecrets
    \/ CreateShared
    \/ createService
    \/ createCapacityProvider
    \/ marshall

-----------------------------------------------------------------------------
(* Properties. *)

(* Names that stay distinct once normalized. *)
Distinct(names) == \A m, n \in names : m # n => normalizeResourceName(m) # normalizeResourceName(n)
ServiceNames == { s.name : s \in Services }
DistinctNames == Distinct(ServiceNames) /\ Distinct(DOMAIN project.networks) /\ Distinct(DOMAIN project.volumes)

(***************************************************************************)
(* Whatever a resource of the finished template refers to or waits for is  *)
(* a resource of the template: the functions that write a resource         *)
(* (createNFSMountTarget, createListener...) and those that build a        *)
(* reference to it in another place (mountTargets, createService) agree on *)
(* its logical name.                                                       *)
(***************************************************************************)
Closed == pc = "done" => \A n \in DOMAIN template : template[n].refs \subseteq DOMAIN template

MaxDepth == 15
Creatable ==
    LET within[k \in 0..MaxDepth] ==
          IF k = 0 THEN {}
          ELSE LET earlier == within[k - 1] IN { n \in DOMAIN template : template[n].refs \subseteq earlier }
    IN  within[MaxDepth]
Orderable ==
    LET within[k \in 0..Len(project.services)] ==
          IF k = 0 THEN {}
          ELSE LET earlier == within[k - 1] IN { s.name : s \in { u \in Services : u.dependsOn \subseteq earlier } }
    IN  within[Len(project.services)] = ServiceNames

(***************************************************************************)
(* CloudFormation can create the resources one after the other, unless the *)
(* services of the project wait for each other in a circle. MaxDepth       *)
(* bounds the longest chain of references a template can have.             *)
(***************************************************************************)
CanBeCreated == pc = "done" /\ DistinctNames => (Creatable = DOMAIN template <=> Orderable)

TwoProtocols(n) == \E s, u \in Services : \E p \in PortsOf(s), q \in PortsOf(u) :
                      n \in s.networks \cap u.networks /\ p.target = q.target /\ p.protocol # q.protocol

(***************************************************************************)
(* Traffic reaches every port: its networks let the protocol in, unless a  *)
(* port is exposed with two protocols (the rule is named after its number  *)
(* alone, and the second replaces the first), and it has a listener on the *)
(* load balancer, of a kind that carries its protocol; the task maps it to *)
(* itself, as it must with a network interface of its own.                 *)
(***************************************************************************)
PortsReachable ==
    pc = "done" /\ DistinctNames =>
        \A s \in Services : \A p \in PortsOf(s) :
            /\ \A n \in s.networks : TwoProtocols(n) \/
                  template[<<normalizeResourceName(n), ToString(p.target), "Ingress">>].attr
                      = (IF p.protocol = "" THEN "-1" ELSE p.protocol)
            /\ template[listenerName(s, p)].attr \in {"HTTP", p.protocol}
            /\ template[listenerName(s, p)].attr = "HTTP" => portIsHTTP(p)
            /\ \A m \in Range(template[Named(s.name, "TaskDefinition")].attr.own.ports) : m.host = m.container

(***************************************************************************)
(* A task can read the secrets it is given: the role that starts it is     *)
(* granted each of them, and one that the template creates is named by its *)
(* resource. createSecret runs before the services and changes the project *)
(* they are converted from.                                                *)
(***************************************************************************)
SecretsReadable ==
    pc = "done" /\ DistinctNames => \A s \in Services :
        \A c \in template[Named(s.name, "TaskDefinition")].attr.containers : \A t \in DOMAIN c.secrets :
            /\ c.secrets[t] \in template[Named(s.name, "TaskExecutionRole")].attr
            /\ \/ c.secrets[t].ref # {}
               \/ \E k \in DOMAIN project.secrets : project.secrets[k].external /\ project.secrets[k].value = c.secrets[t]

(***************************************************************************)
(* An update can go on, and stops no more tasks at once than the           *)
(* parallelism asks for and one for every hundred of the others:           *)
(* computeRollingUpdateLimits cuts the percentage down to an integer, so   *)
(* that two of 150 are 98 percent and three tasks may stop. It starts no   *)
(* more than the parallelism. ECS keeps at least ceil(count * min) and at  *)
(* most floor(count * max) tasks. Only when both percentages are computed: *)
(* with x-aws-min_percent = 100, one of three tasks at a time leaves no    *)
(* room.                                                                   *)
(***************************************************************************)
UpdatesProceed ==
    pc = "done" /\ DistinctNames => \A s \in Services :
        LET service == template[serviceResourceName(s.name)].attr
            update  == IF s.deploy = <<>> THEN <<>> ELSE s.deploy[1].update
            kept    == (service.count * service.limits.min + 99) \div 100
            atMost  == (service.count * service.limits.max) \div 100
        IN  update # <<>> /\ update[1].xMin = <<>> /\ update[1].xMax = <<>> /\ update[1].parallelism \notin {<<>>, <<0>>}
              => /\ kept < service.count \/ atMost > service.count
                 /\ service.count - kept <= update[1].parallelism[1] + (service.count - 1) \div 100
                 /\ atMost - service.count <= update[1].parallelism[1]

(***************************************************************************)
(* A Fargate task has the least CPU and the least memory of all sizes that *)
(* hold what was asked for: the scan of toLimits stops at the cheapest.    *)
(***************************************************************************)
CheapestSize ==
    \A s \in Services : ~requireEC2(s) /\ toLimits(s) # <<>> =>
        LET want == getConfiguredLimits(s)[1]  got == toLimits(s)[1]
        IN  /\ want.cpu <= got.cpu /\ want.mem <= got.mem * MiB
            /\ \A c \in DOMAIN fargateCPUToMem : \A m \in fargateCPUToMem[c] :
                 want.cpu <= c /\ want.mem <= m * MiB => got.cpu <= c /\ got.mem <= m

(***************************************************************************)
(* The machine that is guessed is enough for each task that runs on it. A  *)
(* service that asks for GPUs both as devices and as generic resources is  *)
(* left out: the task asks for both, the machine is chosen for the devices.*)
(***************************************************************************)
MachineFits ==
    pc = "done" /\ BoundToEC2 # <<>> /\ getUserDefinedMachine = <<>> =>
        LET m == template[Shared("LaunchConfiguration")].attr
        IN  \A s \in Services : requireEC2(s) /\ (Generic(s) = <<>> \/ Devices(s) = <<>>) =>
              LET r == Reservations(s)[1]
              IN  m.mem > r.mem /\ m.cpus >= r.cpus /\ \A i \in DOMAIN toTaskResourceRequirements(s) :
                                                           m.gpus >= toTaskResourceRequirements(s)[i]

(***************************************************************************)
(* In YAML, the format Up uses, the containers that prepare a task may end *)
(* without ending the task, and its service starts after all of them.      *)
(***************************************************************************)
InitContainersEnd ==
    pc = "done" /\ format = "yaml" /\ DistinctNames => \A s \in Services :
        LET cs == template[Named(s.name, "TaskDefinition")].attr.containers
        IN  \E main \in cs : /\ main.essential
                             /\ \A c \in cs \ {main} : ~c.essential /\ c.name \in main.after

(***************************************************************************)
(* What the service sets itself wins over its files; every variable of a   *)
(* file is set, and no other. Its value is that of one of the variables of *)
(* the last file that has it, not of this variable: createEnvironment      *)
(* mixes up the values of a file.                                          *)
(***************************************************************************)
EnvironmentKept ==
    pc = "done" /\ DistinctNames => \A s \in Services :
        LET env      == template[Named(s.name, "TaskDefinition")].attr.env
            files(k) == { i \in DOMAIN s.envFile : k \in DOMAIN s.envFile[i][1] }
        IN  /\ DOMAIN env = DOMAIN s.environment \cup
                              UNION { DOMAIN s.envFile[i][1] : i \in DOMAIN s.envFile }
            /\ \A k \in DOMAIN env :
                 IF k \in DOMAIN s.environment THEN env[k] = s.environment[k]
                 ELSE env[k] \in Range(s.envFile[Max(files(k))][1])

(***************************************************************************)
(* CloudFormation can create the template, and the services then run as    *)
(* the project asks: resources refer to each other by the names they were  *)
(* written under, ports are reachable, secrets readable and variables set  *)
(* (with a value of their file), containers that prepare a task end,       *)
(* updates have room to proceed, and sizes are the least that fit (convert *)
(* in cloudformation.go).                                                  *)
(***************************************************************************)
TemplateRight ==
    /\ Closed
    /\ CanBeCreated
    /\ PortsReachable
    /\ SecretsReadable
    /\ EnvironmentKept
    /\ InitContainersEnd
    /\ UpdatesProceed
    /\ CheapestSize
    /\ MachineFits
=============================================================================
