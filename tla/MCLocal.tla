------------------------------ MODULE MCLocal ------------------------------
(***************************************************************************)
(* Parts of the local backend, one at a time: a run of a part begins with  *)
(* the others idle, and they stay so.                                      *)
(***************************************************************************)
EXTENDS ComposeImages, ComposeAttach, LocalContainers, ServiceOptions

Layer(id, status, progress, note) == [kind |-> "layer", id |-> id, status |-> status, progress |-> progress, text |-> 3, note |-> note]
Message_(kind) == [kind |-> kind, id |-> "", status |-> "", progress |-> FALSE, text |-> 2, note |-> 0]
Eof == Message_("eof")
Broken == Message_("error")
Image(name, image, isBuilt, valid, msgs) ==
    [name |-> name, text |-> 2, image |-> image, build |-> isBuilt, valid |-> valid, stream |-> msgs, args |-> Fn, own |-> IF name = "web" THEN "p_web" ELSE "p_db"]

Streams == { <<>>, <<Eof>>, <<Layer("L1", "working", TRUE, 50), Layer("L1", "complete", TRUE, 0), Eof>>, <<Layer("L2", "working", FALSE, 0), Broken>> }
Webs == { Image("web", i, b, v, msgs) : i \in {NoImage, "i1"}, b \in BOOLEAN, v \in BOOLEAN, msgs \in Streams }
Second == { Image("db", "i2", TRUE, TRUE, msgs) : msgs \in { <<Broken>>, <<Layer("L1", "working", TRUE, 2), Eof>> } }
Transfer(op, ss, answers) == [op |-> op, services |-> ss, present |-> {}, answers |-> answers, buildFlag |-> FALSE]

Wanting == { Image("web", i, b, TRUE, <<>>) : i \in {NoImage, "i1"}, b \in BOOLEAN }
Other == { Image("db", i, b, TRUE, <<>>) : i \in {NoImage, "i1", "i2", "web"}, b \in BOOLEAN }
WithArgs(s) == [s EXCEPT !.args = [k \in {"a", "b"} |-> IF k = "a" THEN <<"1">> ELSE <<>>]]
Ensure(ss, there, flag) == [op |-> "ensure", services |-> ss, present |-> there, answers |-> TRUE, buildFlag |-> flag]

MCImageCases ==
    { Transfer(op, <<w, d>>, TRUE) : op \in {"pull", "push"}, w \in { x \in Webs : x.valid \/ x.stream = <<>> }, d \in Second }
    \cup { Transfer("pull", <<Image("web", "i1", FALSE, TRUE, <<Eof>>)>>, FALSE) }
    \cup { Ensure(<<WithArgs(w), d>>, there, flag) : w \in Wanting, d \in Other, there \in SUBSET {"i1", "p_web"}, flag \in BOOLEAN }
    \cup { [Ensure(<<WithArgs(w), d>>, {"i1"}, FALSE) EXCEPT !.op = "build"] : w \in Wanting, d \in Other }

-----------------------------------------------------------------------------
Cont(service, state, writes, mayExit, rm) == [service |-> service, state |-> state, writes |-> writes, mayExit |-> mayExit, autoRemove |-> rm]
Text == { << <<"x", "\n">>, <<"\n", "y", "\n">> >>, << <<"x", "\n", "y">>, <<"z", "\n">> >> }
Job(op, services, conts) ==
    [op |-> op, services |-> services, containers |-> conts, detach |-> FALSE, faulty |-> FALSE, interrupts |-> FALSE, removes |-> FALSE]
Two(a, b) == [n \in {"c1", "c2"} |-> IF n = "c1" THEN a ELSE b]
One(a) == [n \in {"c1"} |-> a]
Short == << <<"w", "\n">> >>

Ups == { Job("up", {"a", "b"}, Two(Cont("a", s, t, e, FALSE), Cont("b", s2, Short, TRUE, FALSE))) :
            s \in {"created", "exited", "running"}, s2 \in {"created", "running"}, t \in Text, e \in BOOLEAN }
         \cup { Job("up", {"a"}, Two(Cont("a", "created", t, TRUE, FALSE), Cont("b", s2, Short, TRUE, FALSE))) : t \in Text, s2 \in {"exited", "running"} }
LogJobs == { Job("logs", ss, Two(Cont("a", s, t, e, FALSE), Cont("b", "exited", Short, FALSE, FALSE))) :
            ss \in {{}, {"a"}}, s \in {"created", "exited", "running"}, t \in Text, e \in BOOLEAN }
Runs == { Job("run", {"a"}, One(Cont("a", "created", t, e, rm))) : t \in Text, e \in BOOLEAN, rm \in BOOLEAN }

Some(jobs) == { j \in jobs : j.containers["c1"].writes = CHOOSE t \in Text : TRUE }
Few(jobs) == { j \in Some(jobs) : j.containers["c2"].state = "created" /\ j.containers["c1"].mayExit }

MCAttachCases ==
    Ups \cup LogJobs \cup Runs
    \cup { [j EXCEPT !.interrupts = TRUE] : j \in { u \in Some(Ups) : u.containers["c2"].state = "created" \/ u.services = {"a"} } \cup Runs }
    \cup { [j EXCEPT !.faulty = TRUE] : j \in Some(Ups \cup LogJobs) \cup Runs }
    \cup { [j EXCEPT !.interrupts = TRUE, !.faulty = TRUE] : j \in Few(Ups) }
    \cup { [j EXCEPT !.interrupts = TRUE, !.removes = TRUE] : j \in { u \in Few(Ups) : u.containers["c1"].state = "created" } }
    \cup { [j EXCEPT !.detach = TRUE] : j \in Some(Ups) \cup Runs }
    \cup { [j EXCEPT !.removes = TRUE] : j \in Some(Ups \cup LogJobs) }

-----------------------------------------------------------------------------
NoCommand == [op |-> "", id |-> "", volume |-> <<>>, force |-> FALSE, all |-> FALSE, writes |-> 0, stdinEnds |-> FALSE, project |-> "",
              image |-> "", command |-> "", env |-> <<>>, labels |-> Fn, ports |-> <<>>, volumes |-> <<>>, autoRemove |-> FALSE,
              policy |-> "none", cpu |-> 0, memory |-> 0]
Do(op) == [NoCommand EXCEPT !.op = op, !.id = "w"]
Port(host, container, protocol) == [host |-> host, container |-> container, protocol |-> protocol]
RunOf(image) == [Do("run") EXCEPT !.image = image]
Asked == { RunOf("img"), RunOf("new"), RunOf("gone"), [RunOf("img") EXCEPT !.policy = "any", !.cpu = 500, !.memory = 64],
           [RunOf("img") EXCEPT !.autoRemove = TRUE], [RunOf("img") EXCEPT !.policy = "on-failure", !.autoRemove = TRUE],
           [RunOf("img") EXCEPT !.policy = "on-failure", !.env = << <<"A", "=", "1">>, <<"B", "=", "x", "=", "y">>, <<"C">>, <<"A", "=", "2">>, <<"D", "=">> >>],
           [RunOf("new") EXCEPT !.ports = <<Port(80, 80, "tcp"), Port(81, 80, "tcp"), Port(53, 53, "udp")>>, !.labels = [l \in {"k"} |-> "v"]],
           [RunOf("img") EXCEPT !.ports = <<Port(80, 70000, "tcp")>>], [RunOf("img") EXCEPT !.volumes = << <<"data", ":", "/d">> >>],
           [RunOf("img") EXCEPT !.volumes = << <<"data", ":", "/d", ":", "ro">> >>] }
Calls == { Do(op) : op \in {"start", "stop", "kill", "rm", "inspect", "ps", "logs"} }
           \cup { [Do("rm") EXCEPT !.force = TRUE], [Do("ps") EXCEPT !.all = TRUE] }
           \cup { [Do(op) EXCEPT !.volume = v] : op \in {"volume create", "volume rm", "volume inspect", "volume ls"}, v \in { <<"data">>, <<"more">> } }
Listing == { << >> } \cup { <<a, b>> : a, b \in { [project |-> p, name |-> "c", state |-> st, ip |-> "ip", port |-> n] :
                                                          p \in {"p", "q"}, st \in {"running", "paused"}, n \in {0, 80} } }
             \cup { << [project |-> "no label", name |-> "c", state |-> "running", ip |-> "ip", port |-> 0] >> }
Engine(cmds) == [commands |-> cmds, box |-> Fn, images |-> {"img"}, vols |-> { <<"data">> }, pullable |-> {"new"}, projects |-> <<>>, faulty |-> FALSE, exits |-> FALSE]
Rms == { [RunOf("img") EXCEPT !.autoRemove = TRUE], [RunOf("new") EXCEPT !.autoRemove = TRUE, !.cpu = 1], [RunOf("img") EXCEPT !.policy = "on-failure"] }

Older == [owner |-> 0, image |-> "img", command |-> "", env |-> <<>>, labels |-> Fn, bindings |-> Fn, mounts |-> <<>>, autoRemove |-> FALSE,
          policy |-> "no", nanoCPUs |-> 0, memory |-> 0, state |-> "exited", starters |-> {}]

MCLocalCases ==
    { Engine(<<a>>) : a \in Asked } \cup { Engine(<<a, b>>) : a \in Asked, b \in Calls \cup Asked }
    \cup { Engine(<<RunOf("img"), [Do("exec") EXCEPT !.writes = 2, !.stdinEnds = e], Do("stop")>>) : e \in BOOLEAN }
    \cup { Engine(<<RunOf("new"), Do("rm"), RunOf("img")>>) }
    \cup { [Engine(<<a, b>>) EXCEPT !.faulty = TRUE, !.exits = TRUE] : a \in Rms, b \in Rms \cup Calls }
    \cup { [Engine(<<RunOf("img"), Do(op)>>) EXCEPT !.box = [n \in {"w"} |-> Older]] : op \in {"rm", "inspect", "ps"} }
    \cup { [Engine(<<Do("ls"), [Do("compose ps") EXCEPT !.project = "p"]>>) EXCEPT !.projects = l] : l \in Listing }

-----------------------------------------------------------------------------
Svc == [name |-> "a", volumesFrom |-> <<>>, from |-> <<>>, dependsOn |-> {}, inherit |-> {}, imageVolumes |-> {}, volumes |-> {}, secrets |-> {},
        ports |-> <<>>, networks |-> {}, networkMode |-> "unset", modeOfOther |-> FALSE, aliases |-> Fn]
Svc_b == [Svc EXCEPT !.name = "b"]
From(n, container) == [name |-> n, container |-> container]
VolumesFrom == { <<>>, <<From("b", FALSE)>>, <<From("old", TRUE), From("b", FALSE)>>, <<From("gone", FALSE)>> }
Old(type, t) == [type |-> type, name |-> "p_data", source |-> "/var/lib/p_data", target |-> t, rw |-> TRUE]
Vol(type, source, t) == [type |-> type, source |-> source, absolute |-> "/here/x", target |-> t, readOnly |-> source = "data"]
Inherits == { {}, {Old("volume", "/d")}, {Old("volume", "/d"), Old("bind", "/e")}, {Old("tmpfs", "/d")} }
OwnVolumes == { {}, {Vol("volume", "data", "/d")}, {Vol("volume", "no name", "/d"), Vol("bind", "x", "/e")}, {Vol("tmpfs", "no name", "/t"), Vol("npipe", "n", "/n")} }
Secret(t, external) == [file |-> "/here/s", target |-> t, external |-> external]
Svcs == { [Svc EXCEPT !.volumesFrom = v] : v \in VolumesFrom } \cup { [Svc EXCEPT !.volumesFrom = v, !.dependsOn = {"b"}] : v \in VolumesFrom }
    \cup { [Svc EXCEPT !.inherit = i, !.volumes = v, !.imageVolumes = img, !.secrets = x] :
              i \in Inherits, v \in OwnVolumes, img \in {{}, {"/d"}}, x \in {{}, {Secret("/d", FALSE)}, {Secret("/run/secrets/s", TRUE)}} }
    \cup { [Svc EXCEPT !.networks = n, !.networkMode = m, !.modeOfOther = o, !.aliases = [x \in n |-> {x}]] :
              n \in {{}, {"default", "ext"}, {"corp"}}, m \in {"unset", "host"}, o \in BOOLEAN }
    \cup { [Svc EXCEPT !.ports = <<[target |-> 80, protocol |-> "tcp", published |-> 8080], [target |-> 80, protocol |-> "tcp", published |-> 8081]>>] }
MCNetworks == <<[key |-> "default", name |-> "p_default", external |-> FALSE], [key |-> "ext", name |-> "corp", external |-> TRUE],
                [key |-> "corp", name |-> "corp", external |-> TRUE]>>
MCVolumes == <<[key |-> "data", name |-> "p_data"], [key |-> "more", name |-> "p_more"]>>
OptionCase(n, s, ns, networks) ==
    [clients |-> n, services |-> <<s, Svc_b>>, networks |-> networks, volumes |-> MCVolumes, nets |-> ns, kept |-> [v \in {"p_more"} |-> <<"somebody", 0>>],
     firstContainer |-> [x \in {"a", "b"} |-> IF x = "a" THEN "p_a_1" ELSE "p_b_1"], faulty |-> FALSE]
Corp == [n \in {"corp"} |-> 1]
MCOptionCases == { OptionCase(n, s, Corp, MCNetworks) : n \in {1, 2}, s \in Svcs } \cup { OptionCase(2, Svc, Fn, MCNetworks), OptionCase(1, Svc, Fn, <<>>) }
    \cup { [OptionCase(2, s, ns, MCNetworks) EXCEPT !.faulty = TRUE] : s \in {Svc, [Svc EXCEPT !.volumes = {Vol("volume", "data", "/d")}]}, ns \in {Corp, [n \in {"corp", "p_default"} |-> 1]} }

-----------------------------------------------------------------------------
LocalPartsInit ==
    \/ ImagesInit /\ AttachIdle /\ LocalIdle /\ OptionsIdle
    \/ ImagesIdle /\ AttachInit /\ LocalIdle /\ OptionsIdle
    \/ ImagesIdle /\ AttachIdle /\ LocalInit /\ OptionsIdle
    \/ ImagesIdle /\ AttachIdle /\ LocalIdle /\ OptionsInit

LocalPartsNext ==
    \/ ImagesNext /\ UNCHANGED <<attachVars, localVars, optionVars>>
    \/ AttachNext /\ UNCHANGED <<imageVars, writerVars, localVars, optionVars>>
    \/ LocalNext /\ UNCHANGED <<imageVars, writerVars, attachVars, optionVars>>
    \/ OptionsNext /\ UNCHANGED <<imageVars, writerVars, attachVars, localVars>>

LocalSpec ==
    /\ LocalPartsInit /\ [][LocalPartsNext]_<<imageVars, writerVars, attachVars, localVars, optionVars>>
    /\ AttachFairness
=============================================================================
