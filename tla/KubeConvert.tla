---------------------------- MODULE KubeConvert ----------------------------
(***************************************************************************)
(* kube/charts/kubernetes: from a Compose project to the objects of a Helm *)
(* chart. The chart's templates are a function from file names to objects; *)
(* a name that may hold an underscore is the sequence of the words its     *)
(* underscores and dashes separate, with the separators. What may be       *)
(* absent is a sequence of at most one value; durations are in ms.         *)
(***************************************************************************)
EXTENDS Integers, FiniteSets, SequencesExt

CONSTANT KubeProjects       \* Compose projects, as they are loaded

VARIABLES kubeProject,
          objects,          \* the objects built so far, by file name
          kubeTodo,         \* the services not yet converted
          kubePc

kubeVars == <<kubeProject, objects, kubeTodo, kubePc>>

Nothing == [x \in {} |-> x]

KubeConvertInit ==
    /\ kubeProject \in KubeProjects
    /\ objects = Nothing
    /\ kubeTodo = <<>>
    /\ kubePc = "rename"

KubeConvertIdle == kubeProject = Nothing /\ objects = Nothing /\ kubeTodo = <<>> /\ kubePc = "idle"

Default(x, d) == IF x = <<>> THEN d ELSE x[1]
Seconds(ms) == ms \div 1000

(* Underscores become dashes. *)
Dashed(name) == ReplaceAll(name, "_", "-")

-----------------------------------------------------------------------------
(* Volumes of a pod. *)

Mounted(name, path, ro, sub, source) == [name |-> name, path |-> path, ro |-> ro, sub |-> sub, source |-> source]
Indexed(kind, i) == <<kind, "-", ToString(i - 1)>>

hostPathVolume(path) == <<[kind |-> "hostPath", of |-> path]>>
gitVolume(path) == <<[kind |-> "git", of |-> path]>>
emptyVolumeInMemory == [kind |-> "memory", of |-> <<>>]
or(v, default) == IF v \in {"", "."} THEN default ELSE v

(* A bind mount is the mount of a file of the directory that holds it. *)
bindSpec(i, v) ==
    IF v.path = <<>> THEN Mounted(Indexed("mount", i), v.target, v.ro, "", hostPathVolume(<<>>))
    ELSE Mounted(Indexed("mount", i), v.target, v.ro, Last(v.path), hostPathVolume(Front(v.path)))

volumeMount(i, v) ==
    CASE v.kind = "sock" -> Mounted(Indexed("mount", i), v.target, v.ro, "docker.sock", hostPathVolume(<<"var", "run">>))
      [] v.kind = "git" -> Mounted(Indexed("mount", i), v.target, v.ro, "", gitVolume(v.path))
      [] v.kind = "volume" -> Mounted(IF v.source # <<>> THEN Dashed(v.source) ELSE Indexed("mount", i), v.target, v.ro, "", <<>>)
      [] v.kind = "bind" -> bindSpec(i, v)

SecretName(i) == Indexed("secret", i)

(* The definition is looked up by the name of the volume, never a secret's: *)
(* the key is always that of an external one.                               *)
toKey(definitions, name) == IF name \in DOMAIN definitions /\ definitions[name] # "" THEN definitions[name] ELSE "file"

secretVolume(i, s) == <<[kind |-> "secret", of |-> <<s.source, toKey(kubeProject.secrets, SecretName(i))>>]>>
configVolume(i, c) == <<[kind |-> "config", of |-> <<c.source, toKey(kubeProject.configs, Indexed("config", i))>>]>>

VolumeError(s) == \E v \in Range(s.volumes) : v.kind = "bind" /\ ~v.abs

toVolumeSpecs(s) ==
    [i \in DOMAIN s.volumes |-> volumeMount(i, s.volumes[i])]
    \o [i \in DOMAIN s.tmpfs |-> Mounted(Indexed("tmp", i), s.tmpfs[i], FALSE, "", <<emptyVolumeInMemory>>)]
    \o [i \in DOMAIN s.secrets |->
          Mounted(SecretName(i), <<"/run/secrets", or(s.secrets[i].target, s.secrets[i].source)>>, TRUE, SecretName(i), secretVolume(i, s.secrets[i]))]
    \o [i \in DOMAIN s.configs |->
          Mounted(Indexed("config", i), <<"", or(s.configs[i].target, s.configs[i].source)>>, TRUE, Indexed("config", i), configVolume(i, s.configs[i]))]

toVolumeMounts(s) == [i \in DOMAIN toVolumeSpecs(s) |-> [name |-> toVolumeSpecs(s)[i].name, path |-> toVolumeSpecs(s)[i].path]]

(* What has no source is a directory in memory, a named volume too. *)
toVolumes(s) == [i \in DOMAIN toVolumeSpecs(s) |->
                   [name |-> toVolumeSpecs(s)[i].name, source |-> Default(toVolumeSpecs(s)[i].source, emptyVolumeInMemory)]]

-----------------------------------------------------------------------------
(* The pod. *)

LastGiven(hosts, h) == hosts[CHOOSE i \in DOMAIN hosts : hosts[i].host = h /\ \A j \in i + 1..Len(hosts) : hosts[j].host # h].ip

(* By host first, so that the last address of a host is its own, then by address. *)
toHostAliases(hosts) ==
    LET names == { h.host : h \in Range(hosts) }
    IN  { [ip |-> a, hosts |-> { h \in names : LastGiven(hosts, h) = a }] : a \in { LastGiven(hosts, h) : h \in names } }

toSecondsOrDefault(d, default) == IF d = <<>> THEN default ELSE Seconds(d[1])

Command(test) == IF Head(test) = "CMD-SHELL" THEN <<"sh", "-c">> \o Tail(test) ELSE Tail(test)

toLivenessProbe(hc) ==
    IF hc = <<>> \/ hc[1].test = <<>> \/ Head(hc[1].test) = "NONE" THEN <<>>
    ELSE << [timeout |-> toSecondsOrDefault(hc[1].timeout, 1), period |-> toSecondsOrDefault(hc[1].interval, 1),
             threshold |-> Default(hc[1].retries, 3), command |-> Command(hc[1].test)] >>

toProtocol(p) == IF p = "udp" THEN "UDP" ELSE "TCP"
toPorts(ports) == { <<ports[i].target, toProtocol(ports[i].protocol)>> : i \in DOMAIN ports }

toRestartPolicy(condition) ==
    CASE condition = "none" -> "Never" [] condition = "on-failure" -> "OnFailure" [] OTHER -> "Always"

Deploy(s, part) == IF s.deploy = <<>> THEN <<>> ELSE s.deploy[1][part]

(* What is not given is not asked for. *)
toResource(r) == [cpu |-> r.cpus, memory |-> IF r.mem = 0 THEN <<>> ELSE <<r.mem>>]

toUser(user) == IF user = <<>> \/ ~user[1].number THEN <<>> ELSE <<user[1].id>>

toSecurityContext(s) ==
    LET capabilities == IF s.capAdd = {} /\ s.capDrop = {} THEN <<>> ELSE << [add |-> s.capAdd, drop |-> s.capDrop] >>
    IN  IF ~s.privileged /\ ~s.readOnly /\ capabilities = <<>> /\ toUser(s.user) = <<>> THEN <<>>
        ELSE << [user |-> toUser(s.user), privileged |-> s.privileged, readOnly |-> s.readOnly, capabilities |-> capabilities] >>

PodError(s) ==
    \/ \E h \in Range(s.extraHosts) : ~h.split
    \/ \E k \in DOMAIN s.env : s.env[k] = <<>>
    \/ \E c \in Range(Deploy(s, "restart")) : c \notin {"any", "none", "on-failure"}
    \/ \E part \in {"limits", "reservations"} : \E r \in Range(Deploy(s, part)) : r.cpus = <<-1>>
    \/ VolumeError(s)

Resources(s, part) == IF Deploy(s, part) = <<>> THEN [cpu |-> <<>>, memory |-> <<>>] ELSE toResource(Deploy(s, part)[1])

Labels(s) == [service |-> s.name, project |-> kubeProject.name]

toPodTemplate(s) ==
    [labels |-> Labels(s), policy |-> toRestartPolicy(Default(Deploy(s, "restart"), "any")),
     volumes |-> toVolumes(s), hostPID |-> s.pid = "host", hostIPC |-> s.ipc = "host",
     grace |-> IF s.grace = <<>> THEN <<>> ELSE <<Seconds(s.grace[1])>>, aliases |-> toHostAliases(s.extraHosts),
     container |-> [name |-> s.name, ports |-> toPorts(s.ports), probe |-> toLivenessProbe(s.health), env |-> [k \in DOMAIN s.env |-> s.env[k][1]],
                    mounts |-> toVolumeMounts(s), security |-> toSecurityContext(s),
                    limits |-> Resources(s, "limits"), requests |-> Resources(s, "reservations")]]

-----------------------------------------------------------------------------
(* The objects of a service. *)

mapServiceToServiceType(s) ==
    CASE \E p \in Range(s.ports) : p.published # 0 -> "NodePort"
      [] s.networks = {} \/ \E n \in s.networks : ~kubeProject.internal[n] -> "LoadBalancer"
      [] OTHER -> "ClusterIP"

mapToService(s) ==
    IF s.ports = <<>> THEN {}
    ELSE { [kind |-> "Service", selector |-> [service |-> s.name], type |-> mapServiceToServiceType(s),
            ports |-> { [name |-> <<p.target, p.protocol>>, port |-> p.target, protocol |-> toProtocol(p.protocol)] : p \in Range(s.ports) }] }

(* The replicas of a deploy section that has none, and the parallelism of an *)
(* update section that has none, are dereferenced all the same.              *)
toReplicas(s) == IF s.deploy = <<>> THEN 1 ELSE Default(s.deploy[1].replicas, 0)
toDeploymentStrategy(s) == IF Deploy(s, "update") = <<>> THEN <<>> ELSE <<Default(s.deploy[1].update[1].parallelism, 0)>>

DeploymentPanics(s) ==
    \/ s.deploy # <<>> /\ s.deploy[1].replicas = <<>>
    \/ \E u \in Range(Deploy(s, "update")) : u.parallelism = <<>>

(* Mutant: the pods are selected by their project. *)
Selected_Project(s) == [project |-> kubeProject.name]

Selected(s) == Labels(s)

mapToDeployment(s) ==
    [kind |-> "Deployment", selector |-> <<Selected(s)>>, replicas |-> toReplicas(s), strategy |-> toDeploymentStrategy(s),
     template |-> toPodTemplate(s)]

(* A daemon set has neither a kind nor a selector. *)
mapToDaemonset(s) == [kind |-> "", selector |-> <<>>, replicas |-> 0, strategy |-> <<>>, template |-> toPodTemplate(s)]

mapToPVC(s, v) == [kind |-> "PersistentVolumeClaim", labels |-> s.name, access |-> IF v.ro THEN "ReadOnlyMany" ELSE "ReadWriteOnce"]

Global(s) == s.deploy # <<>> /\ s.deploy[1].mode = "global"

(* Of the claims of two volumes with one name, the later one is kept. *)
NamedBy(s, name) == { i \in DOMAIN s.volumes : s.volumes[i].kind = "volume" /\ Dashed(s.volumes[i].source) = name }
Claimed(s, name) == mapToPVC(s, s.volumes[CHOOSE i \in NamedBy(s, name) : \A j \in NamedBy(s, name) : j <= i])
Claims(s) == [n \in { <<Dashed(v.source), "persistentvolumeclaim">> : v \in { x \in Range(s.volumes) : x.kind = "volume" } } |-> Claimed(s, n[1])]

Workload(s) ==
    IF Global(s) THEN [n \in {<< <<s.name>>, "daemonset">>} |-> mapToDaemonset(s)]
    ELSE [n \in {<< <<s.name>>, "deployment">>} |-> mapToDeployment(s)]

Merge(f, g) == [x \in DOMAIN f \cup DOMAIN g |-> IF x \in DOMAIN g THEN g[x] ELSE f[x]]

(***************************************************************************)
(* GetChartInMemory renames the volumes of the project while it iterates   *)
(* over them; a name the map already has is replaced.                      *)
(***************************************************************************)
GetChartInMemory ==
    /\ kubePc = "rename"
    /\ kubeProject' = [kubeProject EXCEPT !.volumes = { Dashed(v) : v \in @ }]
    /\ kubeTodo' = kubeProject.services
    /\ kubePc' = "services"
    /\ UNCHANGED objects

Added(s) == Merge(Merge(Merge(objects, [n \in { << <<s.name>>, "service">> : o \in mapToService(s) } |-> CHOOSE o \in mapToService(s) : TRUE]),
                        Workload(s)), Claims(s))

MapToKubernetesObjects ==
    /\ kubePc = "services"
    /\ kubeTodo # <<>>
    /\ LET s == Head(kubeTodo) IN
       CASE PodError(s) -> kubePc' = "error" /\ UNCHANGED <<kubeProject, objects, kubeTodo>>
         [] ~PodError(s) /\ ~Global(s) /\ DeploymentPanics(s) -> kubePc' = "panic" /\ UNCHANGED <<kubeProject, objects, kubeTodo>>
         [] OTHER -> objects' = Added(s) /\ kubeTodo' = Tail(kubeTodo) /\ UNCHANGED <<kubeProject, kubePc>>

(* The chart is its description, a readme and one template for each object. *)
ConvertToChart ==
    /\ kubePc = "services"
    /\ kubeTodo = <<>>
    /\ kubePc' = "chart"
    /\ UNCHANGED <<kubeProject, objects, kubeTodo>>

KubeConvertDone == kubePc \in {"error", "panic", "chart"} /\ UNCHANGED kubeVars

KubeConvertNext == GetChartInMemory \/ MapToKubernetesObjects \/ ConvertToChart \/ KubeConvertDone

-----------------------------------------------------------------------------
KubeServices == Range(kubeProject.services)
Workloads == { n \in DOMAIN objects : n[2] \in {"deployment", "daemonset"} }
PodOf(s) == objects[CHOOSE n \in Workloads : n[1] = <<s.name>>].template
OneName(s, i) == \E j \in DOMAIN s.volumes : i # j /\ Dashed(s.volumes[i].source) = Dashed(s.volumes[j].source)

(***************************************************************************)
(* Every service has one workload, and the Service object that carries its *)
(* ports selects the pods of that workload and of no other                 *)
(* (MapToKubernetesObjects, mapToService, toPodTemplate).                  *)
(***************************************************************************)
PodsSelected ==
    kubePc = "chart" => \A s \in KubeServices :
        /\ Cardinality({ n \in Workloads : n[1] = <<s.name>> }) = 1
        /\ s.ports # <<>> =>
             LET svc == objects[<< <<s.name>>, "service">>]
             IN  /\ { n \in Workloads : objects[n].template.labels.service = svc.selector.service } = { n \in Workloads : n[1] = <<s.name>> }
                 /\ { <<p.port, p.protocol>> : p \in svc.ports } = PodOf(s).container.ports

(***************************************************************************)
(* A deployment selects the pods of its own template and no other          *)
(* deployment's (mapToDeployment). A daemon set selects none.              *)
(***************************************************************************)
DeploymentsApart ==
    kubePc = "chart" => \A n, k \in { x \in Workloads : x[2] = "deployment" } :
        (\A l \in DOMAIN objects[n].selector[1] : objects[k].template.labels[l] = objects[n].selector[1][l]) <=> n = k

(***************************************************************************)
(* Each mount of a pod names one volume of the pod, and a secret's or a    *)
(* config's mount is backed by that secret or config (toVolumeSpecs),      *)
(* except where a service mounts one named volume twice, or two whose      *)
(* names differ by an underscore: those volumes have one name.             *)
(***************************************************************************)
PodVolumesMatch ==
    kubePc = "chart" => \A s \in KubeServices :
        LET pod == PodOf(s)
            base == Len(s.volumes) + Len(s.tmpfs)
        IN  /\ \A i \in DOMAIN pod.container.mounts :
                 \/ i <= Len(s.volumes) /\ OneName(s, i)
                 \/ { j \in DOMAIN pod.volumes : pod.volumes[j].name = pod.container.mounts[i].name } = {i}
            /\ \A i \in DOMAIN s.secrets : pod.volumes[base + i].source.of[1] = s.secrets[i].source

(***************************************************************************)
(* A volume a service names is claimed once, whatever its separators, and  *)
(* every claim is for a volume some service names (mapToPVC).              *)
(***************************************************************************)
ClaimsRight ==
    kubePc = "chart" => { n[1] : n \in { x \in DOMAIN objects : x[2] = "persistentvolumeclaim" } }
                          = UNION { { Dashed(v.source) : v \in { x \in Range(s.volumes) : x.kind = "volume" } } : s \in KubeServices }

(***************************************************************************)
(* An extra host resolves to one address, the last it was given with, and  *)
(* an address is listed once (toHostAliases goes through two maps).        *)
(***************************************************************************)
HostsResolve ==
    kubePc = "chart" => \A s \in KubeServices :
        LET aliases == PodOf(s).aliases IN
        /\ \A a, b \in aliases : a.ip = b.ip => a = b
        /\ \A i \in DOMAIN s.extraHosts :
             (\A j \in i + 1..Len(s.extraHosts) : s.extraHosts[j].host # s.extraHosts[i].host)
               => { a.ip : a \in { x \in aliases : s.extraHosts[i].host \in x.hosts } } = {s.extraHosts[i].ip}

(***************************************************************************)
(* A service is reachable from outside the cluster exactly if it publishes *)
(* a port or is on a network that is not internal, the implicit default    *)
(* one included (mapServiceToServiceType).                                 *)
(***************************************************************************)
ExposedRight ==
    kubePc = "chart" => \A s \in { x \in KubeServices : x.ports # <<>> } :
        objects[<< <<s.name>>, "service">>].type = "ClusterIP"
          <=> /\ \A p \in Range(s.ports) : p.published = 0
              /\ s.networks # {} /\ \A n \in s.networks : kubeProject.internal[n]

(***************************************************************************)
(* The objects of a chart fit together: selectors find the pods they mean  *)
(* and mounts their volumes, a volume a service names is claimed (by no    *)
(* pod: toVolumes makes of it a directory in memory), and hosts and        *)
(* exposure are as the project says (MapToKubernetesObjects).              *)
(***************************************************************************)
ChartRight ==
    /\ PodsSelected
    /\ DeploymentsApart
    /\ PodVolumesMatch
    /\ ClaimsRight
    /\ HostsResolve
    /\ ExposedRight
=============================================================================
