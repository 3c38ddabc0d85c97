----------------------------- MODULE AciConvert -----------------------------
(***************************************************************************)
(* aci/convert: from a Compose project, or the configuration of one        *)
(* container to run, to an ACI container group, and from a group Azure     *)
(* answers back to what ps and inspect show. Memory is counted in MiB, in  *)
(* a group in hundredths of a GB; CPUs in hundredths; durations in ms. A   *)
(* path is the sequence of its elements, an element the sequence of the    *)
(* words its dashes separate. What may be absent is a sequence of at most  *)
(* one value.                                                              *)
(***************************************************************************)
EXTENDS Integers, FiniteSets, SequencesExt

CONSTANTS AciCases,        \* what is converted, and the world it meets
          AcrRegistries,   \* the registries whose name ends with the ACR suffix
          Dotted           \* the image name components that hold a dot

VARIABLES case,            \* what was asked
          aciProject,      \* the project converted
          world,           \* secret files, account keys, Docker's credentials, the environment
          config,          \* the Docker configuration, as it was loaded
          logins,          \* the registries the automatic login has still to try
          group,           \* the container group built so far
          shown,           \* what inspect shows of the group's containers
          aciPc

convertVars == <<case, aciProject, world, config, logins, group, shown, aciPc>>

NoGroup == [volumes |-> {}, credentials |-> {}, policy |-> "", containers |-> <<>>, ports |-> {}, label |-> <<>>, address |-> <<>>]

AciConvertInit ==
    /\ case \in AciCases
    /\ aciProject = case.project
    /\ world = case.world
    /\ config = case.world.stored
    /\ logins = <<>>
    /\ group = NoGroup
    /\ shown = <<>>
    /\ aciPc = IF case.run # <<>> THEN "run" ELSE "volumes"

AciConvertIdle ==
    /\ case = [run |-> <<>>, project |-> {}, world |-> [stored |-> {}]] /\ aciProject = {} /\ world = {} /\ config = {} /\ logins = <<>>
    /\ group = NoGroup /\ shown = <<>> /\ aciPc = "idle"

Refuse == aciPc' = "error" /\ UNCHANGED <<case, aciProject, world, config, logins, group, shown>>
Given(x, default) == IF x = <<>> THEN default ELSE x[1]

-----------------------------------------------------------------------------
(* docker run: a volume is <account>/<share>[:<target>[:<mode>]]. *)

Lower(mode) == IF mode = "RO" THEN "ro" ELSE mode
Word(w) == << <<w>> >>

Malformed(v) ==
    \/ Len(v.source) # 2 \/ "" \in Range(v.source)
    \/ Len(v.rest) > 2
    \/ Len(v.rest) = 2 /\ Lower(v.mode) \notin {"ro", "rw"}

parse(v) ==
    [account |-> v.source[1], share |-> v.source[2],
     target  |-> IF Len(v.rest) = 0 THEN << <<"run">>, <<"volumes">>, <<v.source[2]>> >> ELSE v.target,
     ro      |-> Len(v.rest) = 2 /\ Lower(v.mode) = "ro"]

VolumeName(i) == <<"volume", ToString(i)>>

GetRunVolumes(vs) ==
    [ project |-> { [name |-> VolumeName(i), driver |-> "azure_file", account |-> <<parse(vs[i]).account>>,
                     share |-> <<parse(vs[i]).share>>, ro |-> IF parse(vs[i]).ro THEN "true" ELSE "false"] : i \in DOMAIN vs },
      service |-> [i \in DOMAIN vs |-> [type |-> "azure_file", source |-> VolumeName(i), target |-> parse(vs[i]).target]] ]

(* An environment option without "=" has no value. *)
toComposeEnvs(opts) ==
    [k \in { o.key : o \in Range(opts) } |->
        opts[CHOOSE i \in DOMAIN opts : opts[i].key = k /\ \A j \in i + 1..Len(opts) : opts[j].key # k].value]

(* The limits of a container to run are the reservations of its service. *)
ContainerToComposeProject ==
    /\ aciPc = "run"
    /\ LET r == case.run[1] IN
       IF \E i \in DOMAIN r.volumes : Malformed(r.volumes[i]) THEN Refuse
       ELSE /\ aciProject' =
                 [services |-> << [name |-> r.id, containerName |-> "", image |-> r.image, command |-> r.command,
                                   env |-> toComposeEnvs(r.env), ports |-> r.ports, labels |-> r.labels,
                                   volumes |-> GetRunVolumes(r.volumes).service, secrets |-> <<>>, domain |-> r.domain,
                                   health |-> << [r.health EXCEPT !.retries = <<@>>] >>,
                                   deploy |-> << [reservations |-> << [mem |-> r.mem, cpus |-> <<r.cpus>>] >>,
                                                  limits |-> <<>>, restart |-> <<r.restart>>] >>] >>,
                  volumes  |-> GetRunVolumes(r.volumes).project]
            /\ aciPc' = "volumes"
            /\ UNCHANGED <<case, world, config, logins, group, shown>>

-----------------------------------------------------------------------------
(* Only the volumes of Azure's own driver become volumes of the group. *)

AzureFile == { v \in aciProject.volumes : v.driver = "azure_file" }

getAciFileVolumes ==
    /\ aciPc = "volumes"
    /\ IF \E v \in AzureFile : v.share = <<>> \/ v.account = <<>> \/ v.ro \notin {"", "true", "false"} \/ v.account[1] \notin world.accounts
       THEN Refuse
       ELSE /\ group' = [group EXCEPT !.volumes = { [name |-> v.name, kind |-> "file", content |-> {<<v.account[1], v.share[1]>>},
                                                     ro |-> v.ro = "true"] : v \in AzureFile }]
            /\ aciPc' = "secrets"
            /\ UNCHANGED <<case, aciProject, world, config, logins, shown>>

(* The directories of a service's secrets are mounted, one volume for each. *)

(* Mutant: the directories of all services share their volumes' names. *)
getServiceSecretKey_Unscoped(service, dir) == <<"secret", "", FlattenSeq(dir)>>

getServiceSecretKey(service, dir) == <<"secret", service, FlattenSeq(dir)>>

RunSecrets == << <<"run">>, <<"secrets">> >>
TargetOf(scr) == IF scr.target = <<>> THEN Word(scr.source) ELSE scr.target
Relative(scr) == ~scr.abs /\ Len(TargetOf(scr)) > 1
Absolute(scr) == IF scr.abs /\ scr.target # <<>> THEN scr.target ELSE RunSecrets \o TargetOf(scr)
DirOf(scr) == Front(Absolute(scr))
WithData(s) == { scr \in Range(s.secrets) : world.files[scr.source] = "data" }

(* Of two secrets with one target, the later one is kept. *)
Prevails(s, scr) == \A i, j \in DOMAIN s.secrets :
                    s.secrets[i] = scr /\ i < j /\ s.secrets[j] \in WithData(s) => Absolute(s.secrets[j]) # Absolute(scr)

getAciSecretVolumes ==
    /\ aciPc = "secrets"
    /\ IF \E i \in DOMAIN aciProject.services : \E scr \in Range(aciProject.services[i].secrets) :
             \/ world.files[scr.source] = "missing"
             \/ world.files[scr.source] = "data" /\ Relative(scr)
       THEN Refuse
       ELSE /\ group' = [group EXCEPT !.volumes = @ \cup
                 UNION { { [name    |-> getServiceSecretKey(s.name, dir), kind |-> "secret",
                            content |-> { <<Last(Absolute(scr)), scr.source>> :
                                           scr \in { x \in WithData(s) : DirOf(x) = dir /\ Prevails(s, x) } },
                            ro      |-> TRUE] : dir \in { DirOf(x) : x \in WithData(s) } } : s \in Range(aciProject.services) }]
            /\ logins' = SelectSeq([i \in DOMAIN aciProject.services |-> Head(aciProject.services[i].image)], LAMBDA r : r \in AcrRegistries)
            /\ aciPc' = "login"
            /\ UNCHANGED <<case, aciProject, world, config, shown>>

-----------------------------------------------------------------------------
(***************************************************************************)
(* Registries. The automatic login to ACR runs docker login, which writes  *)
(* Docker's credentials; its failure is a warning. The configuration was   *)
(* loaded before: without a credential store it is the one that is used.   *)
(***************************************************************************)

RegistryOf(image) == IF Len(image) = 1 \/ Head(image) \notin Dotted THEN "index.docker.io" ELSE Head(image)

getUsedRegistries == { RegistryOf(aciProject.services[i].image) : i \in DOMAIN aciProject.services }

autoLoginAcr ==
    /\ aciPc = "login"
    /\ logins # <<>>
    /\ \/ /\ world.token
          /\ world' = [world EXCEPT !.stored = { c \in @ : c.name # Head(logins) }
                                        \cup {[name |-> Head(logins), host |-> Head(logins), user |-> "0", password |-> "", identity |-> "acr"]}]
       \/ UNCHANGED world
    /\ logins' = Tail(logins)
    /\ UNCHANGED <<case, aciProject, config, group, shown, aciPc>>

getAllRegistryCredentials == IF world.native THEN world.stored ELSE config

Usable(c) == c.password # "" \/ c.identity # ""

(* A name that is no URL and no host names no registry (host = ""). *)
getRegistryCredentials ==
    /\ aciPc = "login"
    /\ logins = <<>>
    /\ group' = [group EXCEPT !.credentials =
                   { [server   |-> c.host, password |-> IF c.password # "" THEN c.password ELSE c.identity,
                      username |-> IF c.password = "" /\ c.user = "" THEN "0" ELSE c.user] :
                        c \in { x \in getAllRegistryCredentials : x.host \in getUsedRegistries /\ Usable(x) } }]
    /\ aciPc' = "policy"
    /\ UNCHANGED <<case, aciProject, world, config, logins, shown>>

toAciRestartPolicy(condition) ==
    CASE condition = "none" -> "Never" [] condition = "on-failure" -> "OnFailure" [] OTHER -> "Always"

toContainerRestartPolicy(policy) ==
    CASE policy = "Never" -> "none" [] policy = "OnFailure" -> "on-failure" [] OTHER -> "any"

Conditions == UNION { UNION { Range(d.restart) : d \in Range(s.deploy) } : s \in Range(aciProject.services) }
Policies == { toAciRestartPolicy(c) : c \in Conditions }

getRestartPolicy ==
    /\ aciPc = "policy"
    /\ IF Cardinality(Policies) > 1 THEN Refuse
       ELSE /\ group' = [group EXCEPT !.policy = IF aciProject.services = <<>> THEN "" ELSE IF Policies = {} THEN "Always" ELSE CHOOSE p \in Policies : TRUE]
            /\ aciPc' = "services"
            /\ UNCHANGED <<case, aciProject, world, config, logins, shown>>

-----------------------------------------------------------------------------
(* One container for each service. *)

(* The elements compared are those the slashes separate: "/" has two, both empty. *)
Collide(p, q) ==
    LET split(d) == IF d = <<>> THEN << <<"">>, <<"">> >> ELSE << <<"">> >> \o d
    IN  IsPrefix(split(p), split(q)) \/ IsPrefix(split(q), split(p))

SecretDirs(s) == { DirOf(scr) : scr \in Range(s.secrets) }

validateMountPathCollisions(s) == \A p, q \in SecretDirs(s) : p # q => ~Collide(p, q)

getAciFileVolumeMounts(s) == { [name |-> v.source, path |-> v.target] : v \in Range(s.volumes) }
getAciSecretsVolumeMounts(s) == { [name |-> getServiceSecretKey(s.name, dir), path |-> dir] : dir \in SecretDirs(s) }

BytesToGB(mib) == (mib * 100 + 512) \div 1024
gbToBytes(gb) == (gb * 1024) \div 100

Deployed(s, part) == IF s.deploy = <<>> THEN <<>> ELSE s.deploy[1][part]
Cpus(r) == IF r = <<>> THEN <<>> ELSE r[1].cpus
Mem(r) == IF r = <<>> \/ r[1].mem = 0 THEN <<>> ELSE <<BytesToGB(r[1].mem)>>
NotANumber == -1

(* Without a reservation the limit is requested, without a limit the reservation is one. *)
Resource(limit, request) ==
    [request |-> Given(request, Given(limit, 100)), limit |-> Given(limit, Given(request, 100))]

getResourceRequestsLimits(s) ==
    [mem |-> Resource(Mem(Deployed(s, "limits")), Mem(Deployed(s, "reservations"))),
     cpu |-> Resource(Cpus(Deployed(s, "limits")), Cpus(Deployed(s, "reservations")))]

durationToSeconds(d) == IF d \in {<<>>, <<0>>} THEN <<>> ELSE <<d[1] \div 1000>>

getLivenessProbe(s) ==
    IF s.health = <<>> \/ s.health[1].disable \/ s.health[1].test = <<>> THEN <<>>
    ELSE LET h == s.health[1]
             test == IF Head(h.test) \in {"NONE", "CMD", "CMD-SHELL"} THEN Tail(h.test) ELSE h.test
         IN  IF test = <<>> THEN <<>>
             ELSE << [test |-> test, start |-> durationToSeconds(h.start), period |-> durationToSeconds(h.interval),
                      timeout |-> durationToSeconds(h.timeout), threshold |-> IF h.retries = <<0>> THEN <<>> ELSE h.retries] >>

(* A variable without a value has the one of the client's environment. *)
getEnvVariables(env) == [k \in DOMAIN env |-> Given(env[k], world.environment[k])]

getAciContainer(s) ==
    [name |-> IF s.containerName # "" THEN s.containerName ELSE s.name, image |-> s.image, command |-> s.command,
     env |-> getEnvVariables(s.env), resources |-> getResourceRequestsLimits(s),
     mounts |-> getAciFileVolumeMounts(s) \cup getAciSecretsVolumeMounts(s), probe |-> getLivenessProbe(s),
     ports |-> << { <<s.ports[i].target, IF s.ports[i].protocol = "udp" THEN "UDP" ELSE "TCP">> : i \in DOMAIN s.ports } >>]

ContainerError(s) ==
    \/ \E v \in Range(s.volumes) : v.type = "bind"
    \/ ~validateMountPathCollisions(s)
    \/ \E part \in {"limits", "reservations"} : Cpus(Deployed(s, part)) = <<NotANumber>>
    \/ s.labels

(* A published port is the target, or none. *)
PortsError(s) == \E p \in Range(s.ports) : (p.published # 0 /\ p.published # p.target) \/ p.protocol \notin {"tcp", "", "udp"}

DomainError(s) == s.domain # "" /\ group.label # <<>> /\ group.label # <<s.domain>>

AddContainer ==
    /\ aciPc = "services"
    /\ Len(group.containers) < Len(aciProject.services)
    /\ LET s == aciProject.services[Len(group.containers) + 1] IN
       IF ContainerError(s) \/ PortsError(s) \/ DomainError(s) THEN Refuse
       ELSE /\ group' = [group EXCEPT !.containers = Append(@, getAciContainer(s)),
                                      !.ports = @ \cup getAciContainer(s).ports[1],
                                      !.label = IF s.domain # "" THEN <<s.domain>> ELSE @]
            /\ UNCHANGED <<case, aciProject, world, config, logins, shown, aciPc>>

getDNSSidecar ==
    <<"/hosts">> \o FlattenSeq([i \in DOMAIN aciProject.services |->
        LET s == aciProject.services[i] IN IF s.containerName = "" THEN <<s.name>> ELSE <<s.name, s.containerName>>])

Sidecar ==
    [name |-> "aci--dns--sidecar", image |-> <<"docker", "aci-hostnames-sidecar">>, command |-> getDNSSidecar, env |-> [k \in {} |-> ""],
     resources |-> [mem |-> [request |-> 10, limit |-> 0], cpu |-> [request |-> 1, limit |-> 0]], mounts |-> {}, probe |-> <<>>, ports |-> <<>>]

(* Without a port the group has no address, and no domain. *)
ToContainerGroup ==
    /\ aciPc = "services"
    /\ Len(group.containers) = Len(aciProject.services)
    /\ group' = [group EXCEPT !.address = IF group.ports = {} THEN <<>> ELSE <<[ports |-> group.ports, label |-> group.label]>>,
                              !.containers = IF Len(aciProject.services) > 1 THEN Append(@, Sidecar) ELSE @]
    /\ aciPc' = "created"
    /\ UNCHANGED <<case, aciProject, world, config, logins, shown>>

-----------------------------------------------------------------------------
(* What Azure answers is the group, with an address and a state. *)

ToPorts(ports, ip) == { [host |-> p[1], container |-> p[1], ip |-> ip, protocol |-> IF p[2] = "UDP" THEN "udp" ELSE "tcp"] : p \in ports }

FQDN == IF group.address = <<>> THEN "" ELSE Given(group.address[1].label, "")

ToHostConfig(c) ==
    [memLimit |-> gbToBytes(c.resources.mem.limit), memRequest |-> gbToBytes(c.resources.mem.request),
     cpuLimit |-> c.resources.cpu.limit, cpuRequest |-> c.resources.cpu.request, policy |-> toContainerRestartPolicy(group.policy)]

Milliseconds(s) == Given(s, 0) * 1000

ToHealthcheck(probe) ==
    IF probe = <<>> THEN [disable |-> TRUE, test |-> <<>>, interval |-> 0, timeout |-> 0, start |-> 0, retries |-> 0]
    ELSE [disable |-> FALSE, test |-> probe[1].test, interval |-> Milliseconds(probe[1].period), timeout |-> Milliseconds(probe[1].timeout),
          start |-> Milliseconds(probe[1].start), retries |-> Given(probe[1].threshold, 0)]

(* The side car is not shown; it has no ports. *)
ContainerGroupToContainer(c, ip) ==
    [image |-> c.image, command |-> c.command, env |-> c.env, fqdn |-> FQDN, ports |-> ToPorts(c.ports[1], ip),
     host |-> ToHostConfig(c), health |-> ToHealthcheck(c.probe)]

ContainerGroupToServiceStatus(c, state) == [name |-> c.name, replicas |-> IF state = "Running" THEN 1 ELSE 0, desired |-> 1]

Show ==
    /\ aciPc = "created"
    /\ \E state \in {"Running", "Waiting"} :
         LET visible == SelectSeq(group.containers, LAMBDA c : c.name # "aci--dns--sidecar")
             ip == IF group.address = <<>> THEN "" ELSE "ip"
         IN  shown' = [i \in DOMAIN visible |-> [container |-> ContainerGroupToContainer(visible[i], ip),
                                                 status |-> ContainerGroupToServiceStatus(visible[i], state), state |-> state]]
    /\ aciPc' = "shown"
    /\ UNCHANGED <<case, aciProject, world, config, logins, group>>

AciConvertDone == aciPc \in {"error", "shown"} /\ UNCHANGED convertVars

AciConvertNext ==
    \/ ContainerToComposeProject
    \/ getAciFileVolumes \/ getAciSecretVolumes
    \/ autoLoginAcr \/ getRegistryCredentials
    \/ getRestartPolicy \/ AddContainer \/ ToContainerGroup
    \/ Show \/ AciConvertDone

-----------------------------------------------------------------------------
Built == aciPc \in {"created", "shown"}
OfService(i) == aciProject.services[i]
SameKey(s, scr) == \E x \in WithData(s) : DirOf(x) # DirOf(scr) /\ FlattenSeq(DirOf(x)) = FlattenSeq(DirOf(scr))
Replaced(s, scr) == ~Prevails(s, scr)

(***************************************************************************)
(* A container finds each of its secrets at its target (secrets.go): the   *)
(* volume its mount names is the only one of that name in the group, and   *)
(* holds the secret's data. A secret another one replaces, and directories *)
(* such as /a/b and /a-b whose names become one key, are excepted; a       *)
(* secret whose file is empty has no volume though it is mounted.          *)
(***************************************************************************)
SecretsFound ==
    Built => \A i \in DOMAIN aciProject.services : \A scr \in WithData(OfService(i)) :
        \/ Replaced(OfService(i), scr) \/ SameKey(OfService(i), scr)
        \/ \E mt \in group.containers[i].mounts :
             /\ mt.path = DirOf(scr)
             /\ \E v \in group.volumes : v.name = mt.name /\ <<Last(Absolute(scr)), scr.source>> \in v.content
             /\ Cardinality({ v \in group.volumes : v.name = mt.name }) = 1

(***************************************************************************)
(* No directory of secrets is mounted inside another one                   *)
(* (validateMountPathCollisions), the root excepted, which the comparison  *)
(* of elements does not see to be a prefix.                                *)
(***************************************************************************)
MountsApart ==
    Built => \A i \in DOMAIN aciProject.services : \A p, q \in SecretDirs(OfService(i)) :
        p # q /\ p # <<>> /\ q # <<>> => ~IsPrefix(p, q)

(***************************************************************************)
(* A container that is run has every share it was given, at its target and *)
(* with its mode: no volume replaces another (GetRunVolumes).              *)
(***************************************************************************)
RunVolumesMounted ==
    Built /\ case.run # <<>> => \A v \in Range(case.run[1].volumes) :
        \E mt \in group.containers[1].mounts :
            /\ mt.path = parse(v).target
            /\ { <<vol.content, vol.ro>> : vol \in { x \in group.volumes : x.name = mt.name } } = {<< {<<parse(v).account, parse(v).share>>}, parse(v).ro >>}

(***************************************************************************)
(* The group carries the credentials of the registries its images come     *)
(* from, and no others (getRegistryCredentials).                           *)
(***************************************************************************)
CredentialsRight ==
    Built => /\ \A c \in group.credentials : c.password # "" /\ \E i \in DOMAIN aciProject.services :
                    c.server = IF Len(OfService(i).image) > 1 /\ Head(OfService(i).image) \in Dotted THEN Head(OfService(i).image) ELSE "index.docker.io"
             /\ \A i \in DOMAIN aciProject.services, c \in case.world.stored :
                    Usable(c) /\ c.host = Head(OfService(i).image) /\ c.host \in Dotted \ AcrRegistries /\ Len(OfService(i).image) > 1
                      => \E x \in group.credentials : x.server = c.host

(***************************************************************************)
(* The token of an automatic login is used by the very command that logged *)
(* in (registry_credentials.go), where a credential store keeps it; the    *)
(* configuration file is read before the login writes it.                  *)
(***************************************************************************)
LoginUsed ==
    Built /\ world.native => \A c \in world.stored \ case.world.stored : c.host \in { x.server : x \in group.credentials }

(***************************************************************************)
(* Every service that asks for a restart policy or a domain gets the one   *)
(* it asks for, though a group has one of each (getRestartPolicy,          *)
(* ToContainerGroup); a domain needs a port.                               *)
(***************************************************************************)
AskedIsGiven ==
    Built => \A i \in DOMAIN aciProject.services :
        /\ \A d \in Range(OfService(i).deploy) : \A c \in Range(d.restart) : group.policy = toAciRestartPolicy(c)
        /\ OfService(i).domain # "" /\ group.address # <<>> => group.address[1].label = <<OfService(i).domain>>

(***************************************************************************)
(* A container does not request more than its limit, unless its service    *)
(* says so (getResourceRequestsLimits).                                    *)
(***************************************************************************)
RequestsWithinLimits ==
    Built => \A i \in DOMAIN aciProject.services :
        LET s == OfService(i)
            r == group.containers[i].resources
            Given2(part) == Deployed(s, part) # <<>>
        IN  \/ Given2("limits") /\ Given2("reservations")
            \/ r.mem.request <= r.mem.limit /\ r.cpu.request <= r.cpu.limit

(* Every name of a service of an application of several is resolved by its side car (getDNSSidecar). *)
NamesResolved ==
    Built /\ Len(aciProject.services) > 1 =>
        \A i \in DOMAIN aciProject.services : {OfService(i).name, group.containers[i].name} \subseteq Range(Last(group.containers).command)

(***************************************************************************)
(* inspect shows a container that was run as it was asked for: its policy, *)
(* its health check to the second, its ports, its environment, and its     *)
(* memory to the hundredth of a GB (ContainerGroupToContainer is the       *)
(* inverse of the conversion).                                             *)
(***************************************************************************)
ShownAsRun ==
    aciPc = "shown" /\ case.run # <<>> =>
        LET r == case.run[1]
            c == shown[1].container
        IN  /\ c.host.policy = IF r.restart \in {"none", "on-failure"} THEN r.restart ELSE "any"
            /\ \A k \in DOMAIN c.env : \E o \in Range(r.env) : o.key = k /\ (o.value = <<>> \/ o.value = <<c.env[k]>>)
            /\ { [target |-> p.container, published |-> p.container] : p \in c.ports }
                  = { [target |-> p.target, published |-> p.target] : p \in Range(r.ports) }
            /\ r.mem # 0 => c.host.memLimit - r.mem \in -6..6
            /\ c.host.cpuLimit = r.cpus
            /\ ~c.health.disable => /\ Given(r.health.interval, 0) - c.health.interval \in 0..999
                                    /\ Given(r.health.timeout, 0) - c.health.timeout \in 0..999
                                    /\ c.health.retries = r.health.retries

(***************************************************************************)
(* The container group is what the project, or the run, asks for, though   *)
(* one group has one policy, one domain and one set of volumes for all its *)
(* containers; and inspect shows it so again.                              *)
(***************************************************************************)
GroupRight ==
    /\ SecretsFound
    /\ MountsApart
    /\ RunVolumesMounted
    /\ CredentialsRight
    /\ LoginUsed
    /\ AskedIsGiven
    /\ RequestsWithinLimits
    /\ NamesResolved
    /\ ShownAsRun
=============================================================================
