------------------------------- MODULE MCEcs --------------------------------
(***************************************************************************)
(* The parts of the ECS backend, one at a time: a run of a part begins     *)
(* with the others idle, and they stay so.                                 *)
(***************************************************************************)
EXTENDS EcsTemplate, EcsStack, EcsQueries, EcsContext, EcsLocal

-----------------------------------------------------------------------------
(* The conversion of a family of projects: two services, of which the first
   varies one of its parts at a time, and one part of the project. *)

Port80 == [target |-> 80, published |-> 80, protocol |-> "tcp", xProtocol |-> ""]
Port53 == [target |-> 53, published |-> 0, protocol |-> "tcp", xProtocol |-> ""]
Deploy == [limits |-> <<>>, reservations |-> <<>>, replicas |-> <<>>, update |-> <<>>, autoscaling |-> <<>>]
Update == [parallelism |-> <<>>, xMin |-> <<>>, xMax |-> <<>>]
Literal(n) == [name |-> n, ref |-> {}]

Plain == [name |-> "web", image |-> "known", ports |-> <<>>, networks |-> {"front"}, dependsOn |-> {},
          volumes |-> {}, secrets |-> {}, deploy |-> <<>>, role |-> FALSE, pullCredentials |-> {},
          capAdd |-> {}, extraHosts |-> {}, envFile |-> <<>>, environment |-> ("A" :> "own"),
          logOptions |-> [k \in {} |-> ""], machine |-> <<>>, ami |-> <<>>,
          healthCheck |-> <<>>, tmpfs |-> {}, init |-> <<>>]
Db == [Plain EXCEPT !.name = "db"]

Deployed(d) == [Plain EXCEPT !.deploy = <<d>>]
Sized(mem, cpus) == Deployed([Deploy EXCEPT !.limits = <<[mem |-> mem * MiB, cpus |-> cpus]>>])
Reserve(mem, cpus, generic, devices) ==
    Deployed([Deploy EXCEPT !.reservations =
                <<[mem |-> mem * GiB, cpus |-> cpus * 1000, generic |-> generic, devices |-> devices]>>])
Gpus(n) == <<[kind |-> "gpus", value |-> n]>>
Updated(replicas, u) == Deployed([Deploy EXCEPT !.replicas = replicas, !.update = <<u>>])
Scaled(max, cpu, mem) == Deployed([Deploy EXCEPT !.autoscaling = <<[max |-> max, cpu |-> cpu, memory |-> mem]>>])
File(f) == <<f>>

Exposing ==
    { [Plain EXCEPT !.ports = ports, !.networks = nets] :
        ports \in { <<Port80>>, <<Port53>>, <<Port80, Port53>>,
                    <<Port53, [Port53 EXCEPT !.protocol = "udp"]>>,
                    <<[Port53 EXCEPT !.xProtocol = "http"]>>, <<[Port80 EXCEPT !.published = 8080]>>,
                    <<[Port53 EXCEPT !.protocol = ""]>> },
        nets  \in { {"front"}, {"front", "back"} } }
Storing ==
    { [Plain EXCEPT !.volumes = {[source |-> v, type |-> ty, ro |-> FALSE]}] :
        v \in {"data", "logs"}, ty \in {"volume", "bind"} } \cup
    { [Plain EXCEPT !.volumes = {[source |-> "", type |-> "volume", ro |-> FALSE]}] }
Sizes ==
    { Sized(mem, cpu) : mem \in {0, 511, 512, 513, 2048, 2049, 3000, 8192, 30720, 30721},
                        cpu \in {0, 250, 256, 257, 1000, 2000, 4096, 5000} } \cup
    { Sized(512, Unparsable) }
Accelerated ==
    { Reserve(mem, cpus, g, d) :
        mem \in {0, 20, 300}, cpus \in {0, 32}, g \in { <<>>, Gpus(1), Gpus(4), Gpus(9) },
        d \in { <<>>, <<[capabilities |-> {"gpu"}, count |-> 2]>> } } \cup
    { [Reserve(1, 1, Gpus(1), <<>>) EXCEPT !.deploy[1].limits = <<[mem |-> MiB, cpus |-> 1000]>>,
                                           !.deploy[1].reservations[1].cpus = Unparsable] } \cup
    { [Reserve(1, 1, Gpus(1), <<>>) EXCEPT !.machine = << [id |-> "own"] >>, !.ami = a] : a \in { <<>>, <<"ami">> } }
Updating ==
    { Updated(r, [Update EXCEPT !.parallelism = p, !.xMin = x]) :
        r \in { <<>>, <<0>>, <<1>>, <<3>>, <<7>>, <<150>> }, p \in { <<>>, <<0>>, <<1>>, <<2>> }, x \in { <<>>, <<50>> } } \cup
    { Updated(<<2>>, [Update EXCEPT !.xMin = <<0>>, !.xMax = <<100>>]) }
Sharing ==
    { [Plain EXCEPT !.secrets = sec, !.pullCredentials = cred, !.role = r] :
        sec  \in { {}, {[source |-> "pwd", target |-> "pwd"]},
                   {[source |-> "pwd", target |-> "p"], [source |-> "key", target |-> "key"]} },
        cred \in { {}, {Literal("cred")} }, r \in BOOLEAN }
Others ==
    { Scaled(max, cpu, mem) : max \in {0, 3}, cpu \in {0, 75}, mem \in {0, 75} } \cup
    { [Plain EXCEPT !.image = i] : i \in {"", "unknown"} } \cup
    { [Plain EXCEPT !.capAdd = {c}] : c \in {"SYS_PTRACE", "NET_ADMIN"} } \cup
    { [Plain EXCEPT !.extraHosts = {[name |-> "h", address |-> a]}] : a \in { <<>>, <<"10.0.0.1">> } } \cup
    { [Plain EXCEPT !.envFile = e] :
        e \in { <<File("A" :> "a" @@ "B" :> "b")>>, <<NoFile>>,
                <<File("B" :> "1" @@ "C" :> "c"), File("B" :> "2")>> } } \cup
    { [Plain EXCEPT !.logOptions = [group |-> "own"], !.tmpfs = {"/tmp"}, !.init = <<TRUE>>,
                    !.healthCheck = <<[interval |-> <<1500>>, timeout |-> <<500>>, start |-> <<>>, retries |-> <<2>>]>>] }

Deps == { [Plain EXCEPT !.dependsOn = {"db"}] }

Base == [services |-> <<Plain, Db>>,
         networks |-> [n \in {"front", "back"} |-> [external |-> FALSE, xGroup |-> FALSE, internal |-> n = "back"]],
         volumes  |-> [v \in {"data", "logs"} |-> [external |-> FALSE, throughput |-> ""]],
         secrets  |-> [k \in {"pwd", "key"} |-> [external |-> k = "key", readable |-> TRUE, value |-> Literal(k)]],
         xCluster |-> "", xLoadBalancer |-> "", xVpc |-> "", overlay |-> FALSE]

(* A project for every variation of its first service... *)
Varied == { [Base EXCEPT !.services = <<s, Db>>] :
              s \in Exposing \cup Storing \cup Sizes \cup Accelerated \cup Updating \cup Sharing \cup Others \cup Deps }

(* ... and a few services with every variation of what the project shares. *)
Typical == { <<[Plain EXCEPT !.ports = <<Port80>>], [Db EXCEPT !.volumes = {[source |-> "data", type |-> "volume", ro |-> TRUE]}]>>,
             <<[Plain EXCEPT !.ports = <<Port53>>], [Db EXCEPT !.ports = <<[Port53 EXCEPT !.protocol = "udp"]>>]>>,
             <<[Reserve(1, 1, Gpus(1), <<>>) EXCEPT !.dependsOn = {"db"}], [Db EXCEPT !.dependsOn = {"web"}]>>,
             <<[Plain EXCEPT !.secrets = {[source |-> "pwd", target |-> "pwd"]}], [Db EXCEPT !.name = "we-b"]>>,
             <<Reserve(20, 1, Gpus(1), <<>>), [Reserve(1, 40, Gpus(2), <<>>) EXCEPT !.name = "db"]>> }
Shares == { [Base EXCEPT !.xCluster = "c"],
            [Base EXCEPT !.xLoadBalancer = "lb"], [Base EXCEPT !.xLoadBalancer = "lb", !.xVpc = "vpc1"],
            [Base EXCEPT !.xVpc = "arn/vpc1"], [Base EXCEPT !.xVpc = "vpc2"], [Base EXCEPT !.overlay = TRUE],
            [Base EXCEPT !.networks["front"].external = TRUE], [Base EXCEPT !.networks["back"].xGroup = TRUE],
            [Base EXCEPT !.volumes["data"].external = TRUE], [Base EXCEPT !.volumes["data"].throughput = "bad"],
            [Base EXCEPT !.secrets["pwd"].readable = FALSE], [Base EXCEPT !.secrets["key"].external = FALSE] }

MCProjects == Varied \cup { [p EXCEPT !.services = s] : p \in Shares, s \in Typical }

Account == [lb |-> "network", lbVpc |-> "vpc1", lbSubnets |-> {"s1", "s2"}, vpcs |-> {"vpc1"},
            public |-> [n \in {"s1", "s2", "s3"} |-> n # "s3"], cluster |-> TRUE, groups |-> TRUE,
            filesystems |-> TRUE, tagged |-> [v \in {"data", "logs"} |-> 0], ami |-> TRUE]
MCAccounts == { Account, [Account EXCEPT !.tagged["data"] = 1, !.lb = "application"],
                [Account EXCEPT !.tagged["data"] = 2, !.ami = FALSE],
                [Account EXCEPT !.public["s2"] = FALSE, !.groups = FALSE],
                [Account EXCEPT !.lbVpc = "vpc2", !.cluster = FALSE, !.filesystems = FALSE] }

MCNormalized == [n \in {"web", "db", "we-b", "front", "back", "data", "logs", "pwd", "key", ""} |->
                   IF n = "we-b" THEN "web" ELSE n]

-----------------------------------------------------------------------------
(* Deployments before, and the commands' circumstances. *)
Case(earlier, machines, large, detach, other, unreliable) ==
    [earlier |-> earlier, capacity |-> machines, large |-> large, detach |-> detach, other |-> other,
     failures |-> unreliable, paged |-> FALSE, ownCluster |-> FALSE, interrupted |-> FALSE]
Interrupted(c) == [c EXCEPT !.interrupted = TRUE]

EarlierStates == { <<>>, <<"CREATE_COMPLETE">>, <<"CREATE_COMPLETE", "UPDATE_FAILED">> }

MCScenarios == { Interrupted(Case(e, FALSE, FALSE, FALSE, FALSE, FALSE)) : e \in EarlierStates }
                 \cup { Case(e, FALSE, FALSE, FALSE, TRUE, FALSE) : e \in {<<>>, <<"CREATE_COMPLETE">>} }
                 \cup { Case(<<>>, FALSE, TRUE, d, FALSE, TRUE) : d \in BOOLEAN }
                 \cup { Interrupted(Case(<<>>, FALSE, TRUE, d, FALSE, FALSE)) : d \in BOOLEAN }
                 \cup { Interrupted(Case(<<"CREATE_COMPLETE">>, TRUE, FALSE, FALSE, FALSE, TRUE)) }
                 \cup { Case(<<"CREATE_COMPLETE">>, TRUE, TRUE, TRUE, TRUE, u) : u \in BOOLEAN }
                 \cup { [Interrupted(Case(e, FALSE, FALSE, FALSE, TRUE, FALSE)) EXCEPT !.paged = TRUE] :
                           e \in {<<>>, <<"CREATE_COMPLETE">>} }
                 \cup { [Case(<<>>, FALSE, FALSE, FALSE, FALSE, FALSE) EXCEPT !.ownCluster = TRUE] }

Task(arn, svc, state, def) == [arn |-> arn, service |-> svc, state |-> state, definition |-> def]
StackResource(type, arn) == [type |-> type, arn |-> arn]
Svc(arn, tag, groups) == [arn |-> arn, tag |-> tag, definition |-> "v2", groups |-> groups]

OnePage == [subnets |-> << <<"s1", "s2">> >>, secrets |-> << <<>> >>, interfaces |-> << <<[id |-> "n1", public |-> TRUE], [id |-> "n2", public |-> FALSE]>> >>,
          events |-> << <<"e1">>, <<"e2">>, <<"e3">> >>, filesystems |-> << <<[tags |-> {"a", "b"}, throughput |-> 0]>> >>,
          stacks |-> << <<[name |-> "p", project |-> TRUE, status |-> "CREATE_IN_PROGRESS"],
                          [name |-> "q", project |-> FALSE, status |-> "CREATE_COMPLETE"],
                          [name |-> "r", project |-> TRUE, status |-> "UPDATE_IN_PROGRESS"]>> >>,
          resources |-> << <<StackResource("AWS::ECS::Cluster", "c"), StackResource("AWS::ECS::Service", "web"),
                             StackResource("AWS::ECS::Service", ""), StackResource("AWS::ECS::Service", "db")>> >>,
          services |-> {Svc("web", "web", <<[port |-> 80, lbs |-> <<"lb", "gone">>], [port |-> 81, lbs |-> <<"lb">>]>>), Svc("db", "db", <<>>)},
          balancers |-> {"lb"},
          tasks |-> << <<Task("t1", "web", "Running", "v2"), Task("t2", "db", "Stopped", "v2"), Task("t3", "db", "Stopped", "v1")>> >>,
          metadata |-> "", log |-> <<>>, now |-> 1, unreliable |-> FALSE]

(* More services than a chunk, in two pages; no cluster but in the metadata; nothing that failed; more pages. *)
Many == [OnePage EXCEPT !.resources = << <<StackResource("AWS::ECS::Cluster", "c"), StackResource("AWS::ECS::Service", "web")>>,
                                       <<StackResource("AWS::ECS::Service", "db")>> >>]
Own == [OnePage EXCEPT !.resources = << <<StackResource("AWS::ECS::Service", "db"), StackResource("AWS::ECS::Service", "web")>> >>, !.metadata = "mine",
                     !.tasks = << <<Task("t1", "web", "Running", "v2"), Task("t2", "db", "Stopped", "v1")>> >>]
Lost == [Own EXCEPT !.metadata = "", !.services = {}]
Paged == [OnePage EXCEPT !.subnets = << <<"s1">>, <<"s2">> >>, !.tasks = << <<Task("t1", "web", "Running", "v2")>>, <<Task("t2", "db", "Stopped", "v2")>> >>,
                       !.secrets = << <<[name |-> "a", tags |-> {}]>>, <<[name |-> "b", tags |-> {}]>> >>,
                       !.stacks = @ \o @]
Untagged == [OnePage EXCEPT !.services = {Svc("web", "", <<>>)}]
Bare == [OnePage EXCEPT !.resources = << <<StackResource("AWS::ECS::Cluster", "c")>> >>]

Reliable == {OnePage, Many, Own, Lost, Paged, Untagged, Bare}
Unreliable == { [a EXCEPT !.unreliable = TRUE] : a \in {OnePage, Own} }

MCQuestions ==
    (Reliable \cup Unreliable)
        \X (   { Question(n, n, {}) : n \in {"GetSubNets", "ListSecrets", "GetPublicIPs", "DescribeStackEvents", "ps", "ls"} }
           \cup {Question("ListTasks", "ListTasks", "web")}
           \cup { Question("ListFileSystems", "ListFileSystems", t) : t \in {{}, {"a"}, {"a", "c"}} }
           \cup { Question("CreateSecret", "CreateSecret", l) : l \in {{}, {"a", "b"}} }
           \cup { Question("CreateVolume", "CreateVolume", t) : t \in {0, 1, 5} })
      \cup {OnePage, [OnePage EXCEPT !.unreliable = TRUE]} \X { Question("logs", "logs", svcs) : svcs \in {{}, {"web"}} }

Opt(env, keys, profile, region) == [fromEnv |-> env, keys |-> keys, profile |-> profile, region |-> region]
MCOptions == { Opt(env, keys, profile, None) : env \in BOOLEAN, keys \in KeyFiles, profile \in {None, "dev", "default"} }

Env(p, keys, r, d, file) == [profile |-> p, keys |-> keys, region |-> r, defaultRegion |-> d, configFile |-> file]
MCEnvironments == { Env(None, None, None, None, FALSE), Env(None, "k", None, None, FALSE), Env("dev", None, None, "r1", FALSE), Env(None, "k", "r1", "r2", TRUE) }

Simulated(n, deps, scale) == [name |-> n, deps |-> deps, address |-> 0, scale |-> scale]
MCLocalProjects == { <<Simulated("web", {"db"}, 1), Simulated("db", {}, 1)>>,
                     <<Simulated("a", {}, 1), Simulated("b", {"a"}, 1), Simulated("c", {"a", "b"}, 1)>>,
                     <<Simulated("web", {"db"}, 2), Simulated("db", {}, 1)>> }
Raw == [json |-> FALSE, dict |-> {}]
Dict(ks) == [json |-> TRUE, dict |-> ks]
Wants(n, ks) == [name |-> n, keys |-> ks]
SecretLists == { <<Wants("a", k)>> : k \in {<<>>, <<"*">>, <<"x">>, <<"x", "y">>, <<"*", "x">>, <<"x/y">>} } \cup
               { <<Wants("a", <<>>), Wants("b", <<"y", "x">>)>>,
                 <<Wants("a", <<>>), Wants("a", <<"x">>)>>, <<Wants("a", <<"x">>), Wants("a", <<>>)>> }
SecretEnvironments == { [a |-> Raw], [a |-> Dict({"x"})], [a |-> Dict({"y", "x/y"})],
                        [a |-> Dict({"x", "y"}), b |-> Dict({"x", "y"})], [b |-> Raw] }
MCSecretInputs == { [arg |-> "list", secrets |-> s, env |-> e] : s \in SecretLists, e \in SecretEnvironments } \cup
                  { [arg |-> a, secrets |-> <<>>, env |-> [a |-> Raw]] : a \in {"none", "unparsable"} }

-----------------------------------------------------------------------------
EcsInit == \/ TemplateInit /\ StackIdle /\ QueriesIdle /\ ContextIdle /\ LocalIdle
           \/ TemplateIdle /\ StackInit /\ QueriesIdle /\ ContextIdle /\ LocalIdle
           \/ TemplateIdle /\ StackIdle /\ QueriesInit /\ ContextIdle /\ LocalIdle
           \/ TemplateIdle /\ StackIdle /\ QueriesIdle /\ ContextInit /\ LocalIdle
           \/ TemplateIdle /\ StackIdle /\ QueriesIdle /\ ContextIdle /\ LocalInit

EcsNext == \/ TemplateNext /\ UNCHANGED <<stackVars, queryVars, contextVars, localVars>>
           \/ StackNext /\ UNCHANGED <<templateVars, queryVars, contextVars, localVars>>
           \/ QueriesNext /\ UNCHANGED <<templateVars, stackVars, contextVars, localVars>>
           \/ ContextNext /\ UNCHANGED <<templateVars, stackVars, queryVars, localVars>>
           \/ LocalNext /\ UNCHANGED <<templateVars, stackVars, queryVars, contextVars>>

EcsSpec == /\ EcsInit /\ [][EcsNext]_<<templateVars, stackVars, queryVars, contextVars, localVars>>
           /\ StackFairness /\ QueriesFairness
=============================================================================
