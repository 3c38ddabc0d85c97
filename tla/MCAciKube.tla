----------------------------- MODULE MCAciKube ------------------------------
(***************************************************************************)
(* The parts of the ACI and Kubernetes backends, one at a time: a run of a *)
(* part begins with the others idle, and they stay so.                     *)
(***************************************************************************)
EXTENDS AciGroups, AciLogs, AzureLogin, AciContext, AciConvert, KubeConvert, KubeBackend

-----------------------------------------------------------------------------
(* The ACI backend. *)

Container(name, state) == [name |-> name, state |-> state]
Single(name, state, node) == Group(<<Container(name, state)>>, {"single"}, {}, node)
App(containers, volumes, node) == Group(containers, {"compose"}, volumes, node)

W == <<"web">>
P == <<"p">>
MyApp == <<"my", "app">>

Before == ( W :> Single(W, Running, Running) )
            @@ ( P :> App(<<Container(<<"a">>, Running), Container(<<"b">>, "Terminated"), Container(ComposeDNSSidecarName, Running)>>,
                          {<<"docker", "data">>}, Running) )
Stopped == ( W :> Single(W, "Terminated", "Stopped") )
             @@ ( MyApp :> App(<<Container(<<"a">>, NoView)>>, {}, "Succeeded") )

Acc(tagged, shares) == [tagged |-> tagged, shares |-> shares]
Held == ( "docker" :> Acc(TRUE, {"data"}) ) @@ ( "user" :> Acc(FALSE, {"own"}) )

NoCommand == [op |-> "", id |-> W, volume |-> <<"user", "own">>, volumes |-> <<>>, services |-> <<>>, driver |-> {}, taken |-> FALSE,
          timeout |-> 0, force |-> FALSE, all |-> FALSE, dryRun |-> FALSE, before |-> DOMAIN Held]
Op(op) == [NoCommand EXCEPT !.op = op]
On(op, id) == [Op(op) EXCEPT !.id = id]
Vol(op, id) == [Op(op) EXCEPT !.volume = id]
RunCmd(id) == On("run", id)
UpCmd(volumes, services) == [On("up", P) EXCEPT !.volumes = volumes, !.services = services, !.driver = Range(volumes)]

Plan(g, a, f, one, two) == [groups |-> g, accounts |-> a, faults |-> f, commands |-> <<one, two>>]

AB == << <<"a">>, <<"b">> >>
New == <<"fresh", "s1">>
Ups == { UpCmd(<<>>, AB), UpCmd(<<New, <<"fresh", "s2">>, <<"user", "own">>>>, AB), [UpCmd(<<New, <<"user", "own">>>>, AB) EXCEPT !.driver = {New}], [UpCmd(<<<<"user", "own">>, New>>, AB) EXCEPT !.driver = {New}] }
Removals == { Vol("volume rm", v) : v \in {<<"docker", "data">>, <<"user", "own">>, New, <<"odd">>} }
Creations == { Vol("volume create", v) : v \in {New, <<"docker", "more">>, <<"user", "own">>} } \cup {[Vol("volume create", New) EXCEPT !.taken = TRUE]}
Inspections == { Vol("inspect", v) : v \in {<<"user", "own">>, New, <<"odd">>} }
Volumes == Removals \cup Creations \cup Inspections \cup {Op("volume ls")}
Containers == { On(op, id) : op \in {"start", "stop", "kill", "rm", "container inspect"}, id \in {W, <<"p", "a">>, <<"nope">>} }
                \cup {[Op("stop") EXCEPT !.timeout = 1], [Op("rm") EXCEPT !.force = TRUE], RunCmd(W), RunCmd(<<"a", "b">>), RunCmd(<<"x">>)}
                \cup { On(op, P) : op \in {"down", "compose ps", "rm"} } \cup {On("down", <<"nope">>), On("compose ps", <<"nope">>)}
Lists == {Op("ps"), [Op("ps") EXCEPT !.all = TRUE], Op("ls"), Op("prune"), [Op("prune") EXCEPT !.force = TRUE], [Op("prune") EXCEPT !.dryRun = TRUE]}

MCPlans == { Plan(g, Held, 1, c, On("compose ps", P)) : g \in {Before, Stopped}, c \in Volumes \cup Containers \cup Lists \cup Ups }
             \cup { Plan(Before, Held, 0, c, d) : c \in Ups \cup Lists \cup {RunCmd(W), RunCmd(<<"x">>)}, d \in Volumes \cup {On("down", P), On("rm", W), RunCmd(<<"x">>)} }
             \cup { Plan(Before, Held, 0, c, d) : c \in Creations, d \in Removals }
             \cup { Plan(Stopped, Held, 0, c, d) : c \in {On("rm", W), Op("prune")}, d \in {On("start", W), On("stop", W)} }
             \cup { Plan(Stopped, ( "docker" :> Acc(TRUE, {"data", "more"}) ), 0, Vol("volume rm", <<"docker", "data">>), Vol("volume rm", <<"docker", "more">>)) }
             \cup { Plan(( W :> Group(<<>>, {}, {}, NoView) ), Held, 0, c, On("compose ps", W)) : c \in {Op("ps"), Op("ls")} }

MCClients == {1, 2}

Req(f, all, tail) == [NoRequest EXCEPT !.follow = f, !.all = all, !.tail = tail]
ExecReq(interactive, arguments) == [NoRequest EXCEPT !.interactive = interactive, !.arguments = arguments]
MCRequests == { <<"logs", Req(TRUE, TRUE, 0)>>, <<"logs", [Req(TRUE, TRUE, 0) EXCEPT !.width = 0]>>, <<"logs", Req(FALSE, TRUE, 0)>>, <<"logs", Req(FALSE, FALSE, 1)>>, <<"logs", Req(FALSE, FALSE, 5)>>,
                <<"logs", [Req(FALSE, FALSE, 1) EXCEPT !.number = FALSE]>>,
                <<"exec", ExecReq(FALSE, FALSE)>>, <<"exec", ExecReq(TRUE, FALSE)>>, <<"exec", ExecReq(TRUE, TRUE)>> }

LCase(tenant, id, secret) == [tenant |-> tenant, clientID |-> id, secret |-> secret, tenants |-> <<"t1", "t2">>]
MCLoginCases == { LCase("", FALSE, FALSE), LCase("t2", FALSE, FALSE), LCase("t3", FALSE, FALSE), LCase("t2", TRUE, TRUE), LCase("", TRUE, TRUE) }
MCUsers == { <<"use">>, <<"use", "logout">> }

G(name, location) == [name |-> name, location |-> location]
Azure(subs, one) == [subscriptions |-> subs, groups |-> [s \in Range(FlattenSeq(subs)) |-> IF s = "s1" THEN one ELSE << <<G("h", "r3")>> >>]]
MCContextCases ==
    { <<Azure(subs, gs), [subscription |-> s, group |-> g, location |-> l]>> :
        subs \in { << <<>> >>, << <<"s1">> >>, << <<"s1">>, <<"s2">> >> },
        gs \in { << <<>> >>, << <<G("g1", "r1")>>, <<G("g2", "r2"), G("g3", "r1")>> >> },
        s \in {Unset, "s2"}, g \in {Unset, "g2"}, l \in {Unset, "r1"} }

-----------------------------------------------------------------------------
(* The ACI conversion, the Kubernetes conversion and the Kubernetes backend.
   The projects vary one part of a plain service at a time, next to another. *)

Port(t, p, proto) == [target |-> t, published |-> p, protocol |-> proto]
PortChoices == { <<>>, <<Port(80, 80, "tcp")>>, <<Port(80, 0, ""), Port(53, 53, "udp")>>, <<Port(80, 8080, "tcp")>>, <<Port(80, 80, "sctp")>> }
Env == [k \in {"A", "B"} |-> IF k = "A" THEN <<"own">> ELSE <<>>]
Check(test, disable, ms, retries) == [test |-> test, disable |-> disable, interval |-> ms, timeout |-> ms, start |-> <<>>, retries |-> retries]
Tests == { <<>>, <<"NONE">>, <<"CMD", "curl">>, <<"CMD-SHELL", "curl">>, <<"curl">> }

-----------------------------------------------------------------------------
A(p) == << <<"a">>, <<p>> >>       \* /a/p
PathSecret(source, abs, target) == [source |-> source, abs |-> abs, target |-> target]

AciService(name) ==
    [name |-> name, containerName |-> "", image |-> <<"nginx">>, command |-> <<"run">>, env |-> Env, ports |-> <<>>, labels |-> FALSE,
     volumes |-> <<>>, secrets |-> <<>>, domain |-> "", health |-> <<>>, deploy |-> <<>>]
Web == AciService("web")
NoDeploy == [reservations |-> <<>>, limits |-> <<>>, restart |-> <<>>]
With(d) == [Web EXCEPT !.deploy = <<d>>]
Amount(mem, cpus) == <<[mem |-> mem, cpus |-> cpus]>>

Targets == { PathSecret("pwd", FALSE, <<>>), PathSecret("pwd", FALSE, Word("p")), PathSecret("pwd", FALSE, A("p")), PathSecret("pwd", TRUE, A("p")),
             PathSecret("pwd", TRUE, << <<"p">> >>), PathSecret("key", FALSE, <<>>), PathSecret("key", TRUE, A("p")),
             PathSecret("key", TRUE, << <<"a">>, <<"b">>, <<"k">> >>), PathSecret("key", TRUE, << <<"a", "b">>, <<"k">> >>),
             PathSecret("empty", TRUE, << <<"c">>, <<"e">> >>), PathSecret("gone", FALSE, <<>>) }
SecretServices == { [Web EXCEPT !.secrets = <<x>>] : x \in Targets } \cup { [Web EXCEPT !.secrets = <<x, y>>] : x, y \in Targets }
Images == { <<"nginx">>, <<"user", "nginx">>, <<"my.azurecr.io", "app">>, <<"priv.io", "app">>, <<"priv.io">> }
Limits == { With([NoDeploy EXCEPT !.limits = l, !.reservations = r]) :
              l \in { <<>>, Amount(0, <<>>), Amount(512, <<50>>), Amount(100, <<-1>>) }, r \in { <<>>, Amount(2048, <<>>), Amount(0, <<200>>) } }
Varied == SecretServices \cup Limits \cup { [Web EXCEPT !.image = i] : i \in Images } \cup { [Web EXCEPT !.ports = p] : p \in PortChoices }
            \cup { With([NoDeploy EXCEPT !.restart = <<c>>]) : c \in {"none", "any", "on-failure", "always"} }
            \cup { [Web EXCEPT !.domain = d, !.ports = p] : d \in {"one", "two"}, p \in { <<>>, <<Port(80, 80, "tcp")>> } }
            \cup { [Web EXCEPT !.health = << Check(t, d, <<1500>>, <<2>>) >>] : t \in Tests, d \in BOOLEAN }
            \cup { [Web EXCEPT !.labels = TRUE], [Web EXCEPT !.containerName = "front"] }
            \cup { [Web EXCEPT !.volumes = << [type |-> t, source |-> <<"data">>, target |-> A("d")] >>] : t \in {"volume", "bind"} }
OtherServices == { AciService("db"), [AciService("db") EXCEPT !.domain = "one", !.ports = <<Port(5432, 0, "tcp")>>],
                   [AciService("db") EXCEPT !.deploy = << [NoDeploy EXCEPT !.restart = <<"none">>] >>],
                   [AciService("db") EXCEPT !.image = <<"my.azurecr.io", "db">>],
                   [AciService("db") EXCEPT !.secrets = <<PathSecret("key", TRUE, A("p"))>>] }
DataVolume(driver, share, ro, acc) == [name |-> <<"data">>, driver |-> driver, account |-> acc, share |-> share, ro |-> ro]
VolumeChoices == { DataVolume("azure_file", <<"s">>, ro, a) : ro \in {"", "true", "odd"}, a \in { <<>>, <<"acc">>, <<"other">> } }
                   \cup { DataVolume("local", <<>>, "", <<>>), DataVolume("azure_file", <<>>, "", <<"acc">>) }

Cred(name, host, password, identity) == [name |-> name, host |-> host, user |-> "", password |-> password, identity |-> identity]
StoredCreds == { {}, {Cred("https://index.docker.io/v1/", "index.docker.io", "pw", ""), Cred("priv.io", "priv.io", "", "tok"),
                      Cred("%", "", "pw", ""), Cred("my.azurecr.io", "my.azurecr.io", "", "")} }
WorldOf(stored, native, token) ==
    [files |-> [s \in {"pwd", "key", "empty", "gone"} |-> CASE s = "empty" -> "empty" [] s = "gone" -> "missing" [] OTHER -> "data"],
     accounts |-> {"acc"}, stored |-> stored, native |-> native, token |-> token, environment |-> [k \in {"A", "B"} |-> "outer"]]
Plain == WorldOf({}, TRUE, FALSE)
AciProject(services, volumes) == [services |-> services, volumes |-> volumes]
OfProject(p, w) == [run |-> <<>>, project |-> p, world |-> w]

RunVolume(source, rest, mode) == [source |-> source, rest |-> rest, target |-> IF rest = <<>> THEN <<>> ELSE rest[1], mode |-> mode]
RunVolumes == { <<>>, << RunVolume(<<"acc", "s">>, <<>>, "") >>, << RunVolume(<<"acc", "s">>, <<A("x")>>, ""), RunVolume(<<"acc", "s">>, <<A("y"), <<>>>>, "RO") >>,
                << RunVolume(<<"acc", "s">>, <<A("x"), <<>>>>, "rx") >>, << RunVolume(<<"acc">>, <<>>, "") >>, << RunVolume(<<"acc", "s">>, <<A("x"), <<>>, <<>>>>, "ro") >> }
RunConfigs == { [id |-> "web", image |-> <<"nginx">>, command |-> <<"run">>, env |-> e, ports |-> p, labels |-> FALSE, volumes |-> v, domain |-> d,
                 health |-> Check(t, FALSE, ms, 2), mem |-> mm, cpus |-> 50, restart |-> r] :
                 e \in { <<>>, << [key |-> "A", value |-> <<"1">>], [key |-> "B", value |-> <<>>], [key |-> "A", value |-> <<"2">>] >> },
                 p \in PortChoices, v \in RunVolumes, d \in {"", "one"}, t \in {<<>>, <<"CMD-SHELL", "curl">>}, ms \in {<<0>>, <<1500>>},
                 mm \in {0, 100, 1024}, r \in {"any", "none", "on-failure"} }

MCAciCases == { OfProject(AciProject(<<s>>, {}), Plain) : s \in Varied } \cup { OfProject(AciProject(<<s, o>>, {}), Plain) : s \in Varied, o \in OtherServices }
                \cup { OfProject(AciProject(<<[Web EXCEPT !.volumes = << [type |-> "volume", source |-> <<"data">>, target |-> A("d")] >>]>>, {v}), Plain) : v \in VolumeChoices }
                \cup { OfProject(AciProject(<<[Web EXCEPT !.image = i], [AciService("db") EXCEPT !.image = j]>>, {}), WorldOf(st, n, t)) :
                         i, j \in Images, st \in StoredCreds, n, t \in BOOLEAN }
                \cup { [run |-> <<r>>, project |-> AciProject(<<>>, {}), world |-> Plain] : r \in RunConfigs }

-----------------------------------------------------------------------------
KubeService(name) ==
    [name |-> name, ports |-> <<>>, networks |-> {}, deploy |-> <<>>, volumes |-> <<>>, tmpfs |-> <<>>, secrets |-> <<>>, configs |-> <<>>,
     env |-> [k \in {"A"} |-> <<"own">>], extraHosts |-> <<>>, health |-> <<>>, grace |-> <<1500>>, pid |-> "host", ipc |-> "", user |-> <<>>,
     privileged |-> FALSE, readOnly |-> FALSE, capAdd |-> {}, capDrop |-> {}]
KubeApp == KubeService("app")
Deployment == [mode |-> "", replicas |-> <<2>>, update |-> <<>>, restart |-> <<>>, limits |-> <<>>, reservations |-> <<>>]
Host(h, ip) == [host |-> h, ip |-> ip, split |-> TRUE]
KubeVolume(kind, source, ro) == [kind |-> kind, source |-> source, path |-> <<"srv", "d">>, abs |-> TRUE, target |-> <<"", "d">>, ro |-> ro]
Joined(sep) == <<"a", sep, "b">>
File(source, target) == [source |-> source, target |-> target]

KubeVaried == { [KubeApp EXCEPT !.ports = p, !.networks = n] : p \in PortChoices, n \in { {}, {"in"}, {"out"}, {"in", "out"} } }
    \cup { [KubeApp EXCEPT !.volumes = <<v, w>>] : v, w \in { KubeVolume("volume", Joined("_"), TRUE), KubeVolume("volume", Joined("-"), FALSE), KubeVolume("volume", <<>>, FALSE),
                                                     KubeVolume("bind", <<>>, FALSE), [KubeVolume("bind", <<>>, FALSE) EXCEPT !.abs = FALSE],
                                                     [KubeVolume("bind", <<>>, FALSE) EXCEPT !.path = <<>>], KubeVolume("git", <<>>, FALSE), KubeVolume("sock", <<>>, FALSE) } }
    \cup { [KubeApp EXCEPT !.secrets = s, !.configs = f, !.tmpfs = t, !.volumes = v] : s, f \in { <<>>, <<File("x", ""), File("y", "t")>>, <<File("y", ".")>> },
             t \in { <<>>, << <<"", "tmp">> >> }, v \in { <<>>, <<KubeVolume("volume", Joined("_"), FALSE)>> } }
    \cup { [KubeApp EXCEPT !.extraHosts = h] : h \in { <<Host("h", "1")>>, <<Host("h", "1"), Host("g", "1"), Host("h", "2")>>, <<Host("h", "1"), Host("h", "1")>>,
                                                   <<[Host("h", "") EXCEPT !.split = FALSE]>> } }
    \cup { [KubeApp EXCEPT !.deploy = <<d>>] : d \in { [Deployment EXCEPT !.mode = m, !.replicas = r, !.update = u] : m \in {"", "global"}, r \in { <<>>, <<2>> },
                                                     u \in { <<>>, <<[parallelism |-> <<>>]>>, <<[parallelism |-> <<1>>]>> } }
                                                   \cup { [Deployment EXCEPT !.restart = <<c>>] : c \in {"any", "none", "on-failure", "always"} }
                                                   \cup { [Deployment EXCEPT !.limits = <<[mem |-> mm, cpus |-> cc]>>] : mm \in {0, 100}, cc \in { <<>>, <<50>>, <<-1>> } } }
    \cup { [KubeApp EXCEPT !.health = << Check(t, FALSE, ms, r) >>] : t \in Tests, ms \in { <<>>, <<1500>> }, r \in { <<>>, <<2>> } }
    \cup { [KubeApp EXCEPT !.env = [k \in {"A"} |-> <<>>]], [KubeApp EXCEPT !.user = << [number |-> TRUE, id |-> 1] >>], [KubeApp EXCEPT !.user = << [number |-> FALSE, id |-> 0] >>],
           [KubeApp EXCEPT !.capAdd = {"X"}, !.privileged = TRUE, !.readOnly = TRUE, !.grace = <<>>] }
KubeOthers == { KubeService("db"), [KubeService("db") EXCEPT !.ports = <<Port(5432, 0, "tcp")>>, !.volumes = <<KubeVolume("volume", Joined("_"), TRUE)>>] }

MCKubeProjects == { [name |-> "p", services |-> ss, volumes |-> {Joined("_"), Joined("-")}, internal |-> [n \in {"in", "out"} |-> n = "in"],
                     secrets |-> [s \in { <<"x">> } |-> "x.txt"], configs |-> [s \in { <<"config", "-", "0">> } |-> "c.txt"]] :
                     ss \in { <<s>> : s \in KubeVaried } \cup { <<s, o>> : s \in KubeVaried, o \in KubeOthers } }

-----------------------------------------------------------------------------
MCKubeClients == {1, 2, 3}
MCReleaseNames == {"p", "q"}
KubeCommand(op, project, chart) == [op |-> op, project |-> project, environment |-> "here", chart |-> chart]
Releases == { [k \in {"here", "there"} |-> [n \in MCReleaseNames |-> IF n = "p" THEN st ELSE NoRelease]] : st \in {NoRelease, "deployed", "failed"} }
Commands == { KubeCommand(op, "p", "ok") : op \in {"up", "down", "ls", "ps"} } \cup { KubeCommand("up", "q", "ok") }
BadCharts == { KubeCommand("up", "p", chart) : chart \in {"error", "panic"} }
Files == [f \in {"", "mine", "other", "none", "dir", "secret", "broken", "empty"} |->
            [state |-> CASE f = "none" -> "missing" [] f = "dir" -> "directory" [] f = "secret" -> "denied" [] f = "broken" -> "bad" [] OTHER -> "ok",
             contexts |-> CASE f = "mine" -> {"m1", "m2"} [] f = "other" -> {"o"} [] f = "" -> {"d"} [] OTHER -> {}]]
BackendCase(rel, cmds, n, p) == [releases |-> rel, commands |-> cmds, faults |-> n, params |-> p, files |-> Files]
MCKubeCases == { BackendCase(rel, <<a, b, c>>, 2, NoParams) : rel \in Releases, a \in Commands \cup BadCharts, b, c \in Commands }
    \cup { BackendCase(CHOOSE rel \in Releases : TRUE, <<>>, 0, [NoParams EXCEPT !.path = f, !.env = e]) : f \in DOMAIN Files, e \in BOOLEAN }
    \cup { [BackendCase(CHOOSE rel \in Releases : TRUE, <<>>, 0, [NoParams EXCEPT !.path = f]) EXCEPT !.files[""].state = "bad"] : f \in {"", "mine"} }

-----------------------------------------------------------------------------
azureVars == <<aciVars, logVars, loginVars, aciContextVars>>
chartVars == <<convertVars, kubeVars, backendVars>>

AzureIdle == GroupsIdle /\ LogsIdle /\ LoginIdle /\ AciContextIdle
ChartsIdle == AciConvertIdle /\ KubeConvertIdle /\ KubeBackendIdle

AciKubeInit ==
    \/ ChartsIdle /\ \/ GroupsInit /\ LogsIdle /\ LoginIdle /\ AciContextIdle
                     \/ GroupsIdle /\ LogsInit /\ LoginIdle /\ AciContextIdle
                     \/ GroupsIdle /\ LogsIdle /\ LoginInit /\ AciContextIdle
                     \/ GroupsIdle /\ LogsIdle /\ LoginIdle /\ AciContextInit
    \/ AzureIdle /\ \/ AciConvertInit /\ KubeConvertIdle /\ KubeBackendIdle
                    \/ AciConvertIdle /\ KubeConvertInit /\ KubeBackendIdle
                    \/ AciConvertIdle /\ KubeConvertIdle /\ KubeBackendInit

AciKubeNext ==
    \/ GroupsNext /\ UNCHANGED <<logVars, loginVars, aciContextVars, chartVars>>
    \/ LogsNext /\ UNCHANGED <<aciVars, loginVars, aciContextVars, chartVars>>
    \/ LoginNext /\ UNCHANGED <<aciVars, logVars, aciContextVars, chartVars>>
    \/ AciContextNext /\ UNCHANGED <<aciVars, logVars, loginVars, chartVars>>
    \/ AciConvertNext /\ UNCHANGED <<azureVars, kubeVars, backendVars>>
    \/ KubeConvertNext /\ UNCHANGED <<azureVars, convertVars, backendVars>>
    \/ KubeBackendNext /\ UNCHANGED <<azureVars, convertVars, kubeVars>>

AciKubeSpec ==
    AciKubeInit /\ [][AciKubeNext]_<<azureVars, chartVars>> /\ LoginFairness
=============================================================================
