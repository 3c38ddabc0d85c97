--------------------------- MODULE ServiceOptions ---------------------------
(***************************************************************************)
(* What create does before the dependency walk, and what it tells the      *)
(* engine of a container (local/compose/create.go): volumes_from, networks *)
(* and volumes that are to be there, and the mounts, ports and network of  *)
(* a container, which inherits the volumes of the one it replaces. Two     *)
(* creates may run at once. The engine, external, keeps networks of equal  *)
(* names apart.                                                            *)
(***************************************************************************)
EXTENDS Integers, FiniteSets, SequencesExt

CONSTANTS OptionCases    \* what the engine has, the project, and how many creates run

(***************************************************************************)
(* A project has a service; a network is external or not, under all its    *)
(* keys; no two volumes of a service, and no two mounts of a container,    *)
(* are at one place, and the engine gives every volume a name.             *)
(***************************************************************************)
ServiceFields == {"name", "volumesFrom", "from", "dependsOn", "inherit", "imageVolumes", "volumes", "secrets", "ports", "networks",
                  "networkMode", "modeOfOther", "aliases"}
OnePlaceEach(ms) == \A m, n \in ms : m.target = n.target => m = n
ASSUME OptionsAssumption ==
    \A case \in OptionCases :
        /\ case.clients \in Nat
        /\ case.services \in Seq(Range(case.services)) /\ case.services # <<>>
        /\ case.networks \in Seq(Range(case.networks)) /\ case.volumes \in Seq(Range(case.volumes))
        /\ \A m, n \in Range(case.networks) : m.name = n.name => m.external = n.external
        /\ \A n \in DOMAIN case.nets : case.nets[n] \in Nat
        /\ \A s \in Range(case.services) :
              /\ s = [f \in ServiceFields |-> s[f]]
              /\ OnePlaceEach(s.volumes) /\ OnePlaceEach(s.inherit)
              /\ \A m \in s.inherit : m.type = "volume" => m.name # "no name"

VARIABLES optionCase,
          nets,          \* network -> how many of that name there are
          kept,          \* volume -> whose it is
          creator,       \* client -> its step, the place in the list it is at, and its services
          made           \* client -> the container it has asked for

optionVars == <<optionCase, nets, kept, creator, made>>

Creators == DOMAIN creator
Nothing == [x \in {} |-> x]
NoContainer == [mode |-> "unset"]

OptionsInit ==
    /\ optionCase \in OptionCases
    /\ nets = optionCase.nets
    /\ kept = optionCase.kept
    /\ creator = [k \in 1 .. optionCase.clients |-> [pc |-> "prepare", at |-> 1, services |-> optionCase.services]]
    /\ made = [k \in 1 .. optionCase.clients |-> NoContainer]

OptionsIdle ==
    /\ optionCase = [clients |-> 0, kept |-> Nothing] /\ nets = Nothing /\ kept = Nothing /\ creator = Nothing /\ made = Nothing

-----------------------------------------------------------------------------
At(k, step) == creator[k].pc = step
Then(k, step) == creator' = [creator EXCEPT ![k].pc = step, ![k].at = 1]
Onward(k) == creator' = [creator EXCEPT ![k].at = @ + 1]

(* "container:name:mode", or "service:mode": the first container of the service. *)
getVolumesFrom(s) ==
    [from |-> [i \in DOMAIN s.volumesFrom |->
                IF s.volumesFrom[i].container THEN s.volumesFrom[i].name ELSE optionCase.firstContainer[s.volumesFrom[i].name]],
     services |-> { v.name : v \in { x \in Range(s.volumesFrom) : ~x.container } }]
VolumesFromKnown(s) == \A v \in Range(s.volumesFrom) : v.container \/ v.name \in { t.name : t \in Range(optionCase.services) }

Prepared(s) == [s EXCEPT !.from = getVolumesFrom(s).from, !.dependsOn = @ \cup getVolumesFrom(s).services]

prepareVolumes(k) ==
    /\ At(k, "prepare")
    /\ IF \A s \in Range(optionCase.services) : VolumesFromKnown(s)
       THEN creator' = [creator EXCEPT ![k] = [pc |-> "network", at |-> 1, services |-> [i \in DOMAIN @.services |-> Prepared(@.services[i])]]]
       ELSE Then(k, "failed")
    /\ UNCHANGED <<optionCase, nets, kept, made>>

Count(n) == IF n \in DOMAIN nets THEN nets[n] ELSE 0
Net(k) == optionCase.networks[creator[k].at]

(* ensureNetwork: one that is not there is made, but not an external one. *)
InspectNetwork(k) ==
    /\ At(k, "network")
    /\ \/ optionCase.faulty /\ creator[k].at <= Len(optionCase.networks) /\ Then(k, "failed")
       \/ CASE creator[k].at > Len(optionCase.networks) -> Then(k, "volume")
            [] creator[k].at <= Len(optionCase.networks) /\ Count(Net(k).name) > 0 -> Onward(k)
            [] OTHER -> IF Net(k).external THEN Then(k, "failed") ELSE creator' = [creator EXCEPT ![k].pc = "make network"]
    /\ UNCHANGED <<optionCase, nets, kept, made>>

(* The engine is not asked to refuse a name that is taken. *)
CreateNetwork(k) ==
    /\ At(k, "make network")
    /\ \/ /\ nets' = [n \in DOMAIN nets \cup {Net(k).name} |-> Count(n) + IF n = Net(k).name THEN 1 ELSE 0]
          /\ creator' = [creator EXCEPT ![k].pc = "network", ![k].at = @ + 1]
       \/ optionCase.faulty /\ Then(k, "failed") /\ UNCHANGED nets
    /\ UNCHANGED <<optionCase, kept, made>>

(* ensureVolume: one that is not there is made, external or not. *)
Volume(k) == optionCase.volumes[creator[k].at]
InspectVolume(k) ==
    /\ At(k, "volume")
    /\ \/ optionCase.faulty /\ creator[k].at <= Len(optionCase.volumes) /\ Then(k, "failed")
       \/ CASE creator[k].at > Len(optionCase.volumes) -> Then(k, "container")
            [] creator[k].at <= Len(optionCase.volumes) /\ Volume(k).name \in DOMAIN kept -> Onward(k)
            [] OTHER -> creator' = [creator EXCEPT ![k].pc = "make volume"]
    /\ UNCHANGED <<optionCase, nets, kept, made>>

(* One that another has made since is left as it is. *)
CreateVolume(k) ==
    /\ At(k, "make volume")
    /\ \/ /\ kept' = [n \in DOMAIN kept \cup {Volume(k).name} |-> IF n \in DOMAIN kept THEN kept[n] ELSE <<"project", k>>]
          /\ creator' = [creator EXCEPT ![k].pc = "volume", ![k].at = @ + 1]
       \/ optionCase.faulty /\ Then(k, "failed") /\ UNCHANGED kept
    /\ UNCHANGED <<optionCase, nets, made>>

-----------------------------------------------------------------------------
Mount(type, source, target, readOnly) == [type |-> type, source |-> source, target |-> target, readOnly |-> readOnly]

(* A named volume has the name the project gives it; a bind's path is made absolute. *)
ProjectVolume(n) == { v \in Range(optionCase.volumes) : v.key = n }
buildMount(v) ==
    Mount(v.type,
          CASE v.type = "volume" /\ ProjectVolume(v.source) # {} -> (CHOOSE w \in ProjectVolume(v.source) : TRUE).name
            [] v.type = "bind" -> v.absolute
            [] OTHER -> v.source,
          v.target, v.readOnly)

(* The mounts of the container it replaces: a volume by its name. *)
Inherited(s) == { Mount(m.type, IF m.type = "volume" THEN m.name ELSE m.source, m.target, ~m.rw) : m \in { x \in s.inherit : x.type # "tmpfs" } }

ImageMounts(s) == { Mount("volume", "no name", t, FALSE) : t \in s.imageVolumes }

(* A secret is a file of the project, below /run/secrets unless it says where. *)
buildContainerSecretMounts(s) == { Mount("bind", x.file, x.target, TRUE) : x \in { y \in s.secrets : ~y.external } }
SecretRefused(s) == \E x \in s.secrets : x.external

Targets(ms) == { m.target : m \in ms }
MountAt(ms, t) == CHOOSE m \in ms : m.target = t

(* One mount for each place, from the first that has one. *)
OnePerPlace(first, second, third, last) ==
    [t \in Targets(first \cup second \cup third \cup last) |->
        CASE t \in Targets(first) -> MountAt(first, t)
          [] t \in Targets(second) \ Targets(first) -> MountAt(second, t)
          [] t \in Targets(third) \ (Targets(first) \cup Targets(second)) -> MountAt(third, t)
          [] OTHER -> MountAt(last, t)]

Own(s) == { buildMount(v) : v \in s.volumes }

(* Mutant: what is inherited goes before what the service says. *)
buildContainerMountOptions_Old(s) == OnePerPlace(Inherited(s), Own(s), ImageMounts(s), buildContainerSecretMounts(s))

(* The service's before the image's, the image's before the inherited, the secrets last. *)
buildContainerMountOptions(s) == OnePerPlace(Own(s), ImageMounts(s), Inherited(s), buildContainerSecretMounts(s))

(* Volumes are given as binds, always writable, or without a name; other mounts as they are. *)
buildContainerVolumes(s) ==
    LET options == buildContainerMountOptions(s)
        ofType(ts) == { t \in DOMAIN options : options[t].type \in ts }
    IN  [volumes |-> ofType({"volume"}),
         binds   |-> { <<options[t].source, t, "rw">> : t \in { x \in ofType({"volume"}) : options[x].source # "no name" } },
         mounts  |-> { options[t] : t \in ofType({"bind", "tmpfs"}) }]

(* One binding for each port of the container: the last one that publishes it. *)
buildContainerPortBindingOptions(s) ==
    LET of(p) == { i \in DOMAIN s.ports : <<s.ports[i].target, s.ports[i].protocol>> = p }
    IN  [p \in { <<x.target, x.protocol>> : x \in Range(s.ports) } |-> s.ports[CHOOSE i \in of(p) : \A j \in of(p) : j <= i].published]

getNetworksForService(s) == IF s.networks # {} THEN s.networks ELSE {"default"}
Named(key) == { n.name : n \in { x \in Range(optionCase.networks) : x.key = key } }

(* The network a container begins on: any of its service's, for they are kept in a map. *)
getNetworkMode(s) ==
    CASE s.networkMode # "unset" -> {s.networkMode}
      [] s.networkMode = "unset" /\ optionCase.networks # <<>> -> UNION { Named(n) : n \in getNetworksForService(s) }
      [] OTHER -> {"none"}

(* Its aliases on a network are looked up by the engine's name of the network, and they are kept by the project's key. *)
getAliases(s, mode) == {s.name} \cup IF mode \in DOMAIN s.aliases THEN s.aliases[mode] ELSE {}

(* The image may not be there to be inspected. A mode that names a service or a container is not implemented: a panic. *)
getCreateOptions(k) ==
    /\ At(k, "container")
    /\ LET s == creator[k].services[1] IN
       \/ (optionCase.faulty \/ SecretRefused(s) \/ s.modeOfOther) /\ Then(k, "failed") /\ UNCHANGED made
       \/ /\ ~SecretRefused(s) /\ ~s.modeOfOther /\ Then(k, "ok")
          /\ \E mode \in getNetworkMode(s) :
                made' = [made EXCEPT ![k] = [given |-> buildContainerVolumes(s), mode |-> mode, ports |-> buildContainerPortBindingOptions(s),
                                             aliases |-> getAliases(s, mode) \cup {optionCase.firstContainer[s.name]}]]
    /\ UNCHANGED <<optionCase, nets, kept>>

OptionsDone == creator # Nothing /\ (\A k \in Creators : creator[k].pc \in {"ok", "failed"}) /\ UNCHANGED optionVars

CreatorStep(k) ==
    prepareVolumes(k) \/ InspectNetwork(k) \/ CreateNetwork(k) \/ InspectVolume(k) \/ CreateVolume(k) \/ getCreateOptions(k)

OptionsNext == (\E k \in DOMAIN creator : CreatorStep(k)) \/ OptionsDone

OptionsSpec == OptionsInit /\ [][OptionsNext]_optionVars

-----------------------------------------------------------------------------
(***************************************************************************)
(* A create that comes to its containers has every network of the project, *)
(* once if no other create runs (two of them may both find it missing),    *)
(* and has made no external one (ensureNetwork).                           *)
(***************************************************************************)
NetworksRight ==
    \A k \in Creators : creator[k].pc \in {"volume", "make volume", "container", "ok"} =>
        \A n \in Range(optionCase.networks) :
            /\ Count(n.name) > 0
            /\ Cardinality(Creators) = 1 \/ n.external => Count(n.name) \in {1, IF n.name \in DOMAIN optionCase.nets THEN optionCase.nets[n.name] ELSE 0}

(* What the engine is told to mount at a place. *)
BindsAt(given, t) == { b \in given.binds : b[2] = t }
MountsAt(given, t) == { m \in given.mounts : m.target = t }

OneAtEachPlace(given) ==
    /\ \A b, c \in given.binds : b[2] = c[2] => b = c
    /\ \A b \in given.binds : b[2] \in given.volumes
    /\ OnePlaceEach(given.mounts)
    /\ \A m \in given.mounts : m.target \notin given.volumes

(* A volume of the service by its name in the project, writable though it be declared read-only; a pipe not at all. *)
IsMounted(v, given) ==
    LET m == buildMount(v) IN
    /\ v.target \in given.volumes <=> v.type = "volume"
    /\ BindsAt(given, v.target) = IF v.type = "volume" /\ m.source # "no name" THEN {<<m.source, v.target, "rw">>} ELSE {}
    /\ MountsAt(given, v.target) = IF v.type \in {"bind", "tmpfs"} THEN {m} ELSE {}

(***************************************************************************)
(* The engine is told of one mount at a place. What the service says is    *)
(* mounted, whatever the replaced container had there: volumes always      *)
(* writable, named pipes never. The replaced container's volume is kept at *)
(* another place exactly if the image declares none there: one that is     *)
(* declared by the image is replaced by a new, empty one, so the data of   *)
(* an anonymous volume is left behind (buildContainerVolumes,              *)
(* buildContainerMountOptions).                                            *)
(***************************************************************************)
MountsRight ==
    \A k \in Creators : creator[k].pc = "ok" =>
        LET s == creator[k].services[1] IN
        /\ OneAtEachPlace(made[k].given)
        /\ \A v \in s.volumes : IsMounted(v, made[k].given)
        /\ \A m \in s.inherit : m.type = "volume" /\ m.target \notin { v.target : v \in s.volumes } =>
              (<<m.name, m.target, "rw">> \in made[k].given.binds <=> m.target \notin s.imageVolumes)

(* It has every volume of the project too, and a volume that was there before is whose it was (ensureVolume). *)
VolumesThere ==
    /\ \A v \in DOMAIN optionCase.kept : v \in DOMAIN kept /\ kept[v] = optionCase.kept[v]
    /\ \A k \in Creators : creator[k].pc \in {"container", "ok"} => \A v \in Range(optionCase.volumes) : v.name \in DOMAIN kept

(* What a service takes volumes from is among its dependencies, so that the walk makes it first (prepareVolumes). *)
VolumesFromFirst ==
    \A k \in Creators : creator[k].pc = "ok" => \A s \in Range(creator[k].services) : \A v \in Range(s.volumesFrom) :
        v.container \/ (v.name \in s.dependsOn /\ optionCase.firstContainer[v.name] \in Range(s.from))

(* It begins on a network of its service that has been made, is found there by its service's name, and by its aliases if the network has no other name than its key (getAliases). *)
BeginsConnected ==
    \A k \in Creators : creator[k].pc = "ok" => LET s == creator[k].services[1] IN
        /\ s.networkMode = "unset" /\ optionCase.networks # <<>> => Count(made[k].mode) > 0
        /\ s.name \in made[k].aliases
        /\ \A n \in Range(optionCase.networks) : n.key = n.name /\ made[k].mode = n.name /\ n.key \in DOMAIN s.aliases => s.aliases[n.key] \subseteq made[k].aliases

(***************************************************************************)
(* A container that is created finds its networks, its volumes, inherited  *)
(* or its own, and what it takes volumes from, though they come from       *)
(* several passes and another create may run (Create, getCreateOptions).   *)
(***************************************************************************)
OptionsRight ==
    /\ NetworksRight
    /\ VolumesThere
    /\ MountsRight
    /\ VolumesFromFirst
    /\ BeginsConnected
=============================================================================
