-------------------------- MODULE LocalContainers --------------------------
(***************************************************************************)
(* The containers and volumes of the local backend: each command is a few  *)
(* calls of the Docker engine, and two commands may run at once. A run is  *)
(* a creation, after a pull where the engine has no such image, and a      *)
(* start. The engine is external: it knows what it was given when the      *)
(* container was made, and removes by itself one that was run with --rm    *)
(* and has ended. Texts are sequences of words and signs, CPUs are counted *)
(* in billionths.                                                          *)
(***************************************************************************)
EXTENDS Integers, FiniteSets, SequencesExt

CONSTANTS LocalCases     \* what the engine has, and the commands that run

(***************************************************************************)
(* There are finitely many commands, one exec at most, and none has made a *)
(* container before it begins. What a run is asked for has been parsed; a  *)
(* port of the host is not left to the engine.                             *)
(***************************************************************************)
BoxFields == {"owner", "image", "command", "env", "labels", "bindings", "mounts", "autoRemove", "policy", "nanoCPUs", "memory", "state", "starters"}
ASSUME CommandsAssumption ==
    \A case \in LocalCases :
        /\ IsFiniteSet(DOMAIN case.commands)
        /\ \A k, l \in DOMAIN case.commands : case.commands[k].op = "exec" /\ case.commands[l].op = "exec" => k = l
        /\ \A k \in DOMAIN case.commands : case.commands[k].op = "run" =>
              /\ case.commands[k].env \in Seq(Seq(STRING)) /\ case.commands[k].cpu \in Nat
              /\ case.commands[k].policy \in {"any", "on-failure", "none"}
              /\ \A p \in Range(case.commands[k].ports) : p.host # 0
        /\ case.box = [n \in DOMAIN case.box |-> case.box[n]]
        /\ \A n \in DOMAIN case.box : /\ DOMAIN case.box[n] = BoxFields /\ case.box[n].owner \notin DOMAIN case.commands
                                    /\ case.box[n].state \in {"created", "running", "exited"} /\ case.box[n].starters = {}
        /\ case.projects \in Seq(Range(case.projects))

VARIABLES localCase,
          box,           \* name -> what the engine keeps of the container
          images, vols,
          step,          \* command -> where it is
          answer,        \* command -> what it has shown
          output         \* exec: how much was written and shown, and which of its copies is over

localVars == <<localCase, box, images, vols, step, answer, output>>

NoBox == [x \in {} |-> x]
Commands == DOMAIN localCase.commands
Cmd(k) == localCase.commands[k]
NoAnswer == [shown |-> FALSE]
NoOutput == [written |-> 0, copied |-> 0, exited |-> FALSE, read |-> FALSE, write |-> "open"]
Returned == {"ok", "failed"}

LocalInit ==
    /\ localCase \in LocalCases
    /\ box = localCase.box /\ images = localCase.images /\ vols = localCase.vols
    /\ step = [k \in Commands |-> "begin"]
    /\ answer = [k \in Commands |-> NoAnswer]
    /\ output = NoOutput

LocalIdle ==
    /\ localCase = [commands |-> NoBox, box |-> NoBox, images |-> {}, vols |-> {}, pullable |-> {}, projects |-> <<>>, faulty |-> FALSE, exits |-> FALSE]
    /\ box = NoBox /\ images = {} /\ vols = {} /\ step = NoBox /\ answer = NoBox /\ output = NoOutput

-----------------------------------------------------------------------------
(* What run makes of what it is asked for. *)
Cut(parts, e, sign) == IF e = sign THEN Append(parts, <<>>) ELSE [parts EXCEPT ![Len(parts)] = Append(@, e)]
SplitAt(v, sign) ==
    LET parts[n \in 0 .. Len(v)] == IF n = 0 THEN << <<>> >> ELSE Cut(parts[n - 1], v[n], sign) IN parts[Len(v)]

Mounts(r) == [i \in DOMAIN r.volumes |-> [source |-> SplitAt(r.volumes[i], ":")[1], target |-> SplitAt(r.volumes[i], ":")[2]]]
VolumesRight(r) == \A v \in Range(r.volumes) : Len(SplitAt(v, ":")) = 2

(* The bindings of each port of the container, whose order is left out. NewPort looks at the number alone. *)
MaxPort == 65535
FromPorts(ports) ==
    [p \in { <<q.protocol, q.container>> : q \in Range(ports) } |-> { q \in Range(ports) : <<q.protocol, q.container>> = p }]
PortsRight(ports) == \A p \in Range(ports) : p.container <= MaxPort

ToRestartPolicy(p) == CASE p = "any" -> "always" [] p = "on-failure" -> "on-failure" [] OTHER -> "no"

fromRestartPolicyName(m) == CASE m = "always" -> "any" [] m = "on-failure" -> "on-failure" [] OTHER -> "none"

(* int64(CPULimit * 1e9): the product of floats may fall just below the whole number, and is cut. *)
NanoCPUs(cpu) == { n \in {cpu - 1, cpu} : n >= 0 }

Made(k, r, nano) ==
    [owner |-> k, image |-> r.image, command |-> r.command, env |-> r.env, labels |-> r.labels, bindings |-> FromPorts(r.ports),
     mounts |-> Mounts(r), autoRemove |-> r.autoRemove, policy |-> ToRestartPolicy(r.policy), nanoCPUs |-> nano,
     memory |-> r.memory, state |-> "created", starters |-> {}]

Goes(k, to) == step' = [step EXCEPT ![k] = to]
Says(k, a) == answer' = [answer EXCEPT ![k] = a]
Stands(k, at, op) == step[k] = at /\ Cmd(k).op = op

RunAsked(k) ==
    /\ Stands(k, "begin", "run")
    /\ Goes(k, IF PortsRight(Cmd(k).ports) /\ VolumesRight(Cmd(k)) THEN "create" ELSE "failed")
    /\ UNCHANGED <<localCase, box, images, vols, answer, output>>

(* The engine makes no container that is both to be removed and to be restarted. *)
Makeable(r) == ~(r.autoRemove /\ ToRestartPolicy(r.policy) # "no")

(* No such image: it is pulled and the creation tried again, once. *)
create(k) ==
    /\ step[k] \in {"create", "again"} /\ Cmd(k).op = "run"
    /\ LET r == Cmd(k) IN
       \/ r.image \notin images /\ Goes(k, IF step[k] = "create" THEN "pull" ELSE "failed") /\ UNCHANGED box
       \/ r.image \in images /\ (r.id \in DOMAIN box \/ ~Makeable(r)) /\ Goes(k, "failed") /\ UNCHANGED box
       \/ /\ r.image \in images /\ r.id \notin DOMAIN box /\ Makeable(r)
          /\ \E nano \in NanoCPUs(r.cpu) :
                box' = [n \in DOMAIN box \cup {r.id} |-> IF n = r.id THEN Made(k, r, nano) ELSE box[n]]
          /\ Goes(k, "start")
    /\ UNCHANGED <<localCase, images, vols, answer, output>>

(* The body is read to its end; what it says of a failure is not looked at. *)
ImagePull(k) ==
    /\ step[k] = "pull"
    /\ images' = images \cup ({Cmd(k).image} \cap localCase.pullable)
    /\ Goes(k, "again") \/ (Cmd(k).image \notin localCase.pullable /\ Goes(k, "failed"))
    /\ UNCHANGED <<localCase, box, vols, answer, output>>

In(st, c) == [c EXCEPT !.state = st]
StartedBy(k, c) == [c EXCEPT !.state = "running", !.starters = @ \cup {k}]

(* Mutant: the container is started by its name. *)
RunStart_ByName(k) ==
    /\ Stands(k, "start", "run")
    /\ LET n == Cmd(k).id IN
       IF n \in DOMAIN box
       THEN box' = [box EXCEPT ![n] = StartedBy(k, @)] /\ Goes(k, "ok")
       ELSE Goes(k, "failed") /\ UNCHANGED box
    /\ UNCHANGED <<localCase, images, vols, answer, output>>

(***************************************************************************)
(* The container is started by the id of the one that was made. One that   *)
(* cannot be is left as it was made, or removed.                           *)
(***************************************************************************)
RunStart(k) ==
    /\ Stands(k, "start", "run")
    /\ LET n == Cmd(k).id
           own == n \in { m \in DOMAIN box : box[m].owner = k } /\ box[n].state # "removing"
       IN  \/ own /\ box' = [box EXCEPT ![n] = StartedBy(k, @)] /\ Goes(k, "ok")
           \/ own /\ localCase.faulty /\ box' = [box EXCEPT ![n] = In(IF @.autoRemove THEN "removing" ELSE @.state, @)] /\ Goes(k, "failed")
           \/ ~own /\ Goes(k, "failed") /\ UNCHANGED box
    /\ UNCHANGED <<localCase, images, vols, answer, output>>

(* The engine: a container ends, and goes some time later if it was run with --rm. *)
Halted(c) == In(IF c.state # "running" THEN c.state ELSE IF c.autoRemove THEN "removing" ELSE "exited", c)

BoxExits(n) ==
    /\ localCase.exits /\ box[n].state = "running" /\ box[n].policy # "always"
    /\ box' = [box EXCEPT ![n] = Halted(@)]
    /\ UNCHANGED <<localCase, images, vols, step, answer, output>>

AutoRemoves(n) ==
    /\ box[n].state = "removing"
    /\ box' = [m \in DOMAIN box \ {n} |-> box[m]]
    /\ UNCHANGED <<localCase, images, vols, step, answer, output>>

-----------------------------------------------------------------------------
(* start, stop, kill and rm: one call each. A running container is removed by force only. *)
ContainerCall(k) ==
    /\ step[k] = "begin" /\ Cmd(k).op \in {"start", "stop", "kill", "rm"}
    /\ LET n == Cmd(k).id
           op == Cmd(k).op
           refused == \/ n \notin DOMAIN box
                      \/ op = "rm" /\ ~Cmd(k).force /\ box[n].state = "running"
                      \/ op = "kill" /\ box[n].state # "running"
                      \/ op \in {"start", "rm"} /\ box[n].state = "removing"
       IN  IF refused THEN Goes(k, "failed") /\ UNCHANGED box
           ELSE /\ Goes(k, "ok")
                /\ box' = CASE op = "start" -> [box EXCEPT ![n] = In("running", @)]
                            [] op \in {"stop", "kill"} -> [box EXCEPT ![n] = Halted(@)]
                            [] OTHER -> [m \in DOMAIN box \ {n} |-> box[m]]
    /\ UNCHANGED <<localCase, images, vols, answer, output>>

(* logs inspects the container first, for its terminal. *)
Logs(k) ==
    /\ step[k] \in {"begin", "inspected"} /\ Cmd(k).op = "logs"
    /\ Goes(k, IF Cmd(k).id \notin DOMAIN box THEN "failed" ELSE IF step[k] = "begin" THEN "inspected" ELSE "ok")
    /\ UNCHANGED <<localCase, box, images, vols, answer, output>>

(* Of the environment, what has exactly one sign of equality is put in a map, one after the other. *)
Put(env, tokens) ==
    IF Len(tokens) # 2 THEN env
    ELSE [x \in DOMAIN env \cup {tokens[1]} |-> IF x = tokens[1] THEN tokens[2] ELSE env[x]]
EnvMap(vars) ==
    LET env[n \in 0 .. Len(vars)] == IF n = 0 THEN NoBox ELSE Put(env[n - 1], SplitAt(vars[n], "=")) IN env[Len(vars)]

ToRuntimeConfig(c) ==
    [env    |-> EnvMap(c.env),
     labels |-> { <<l>> \o <<"=">> \o <<c.labels[l]>> : l \in DOMAIN c.labels }]
ToHostConfig(c) == [autoRemove |-> c.autoRemove, policy |-> fromRestartPolicyName(c.policy), cpu |-> c.nanoCPUs, memory |-> c.memory]

Inspect(k) ==
    /\ Stands(k, "begin", "inspect")
    /\ LET n == Cmd(k).id IN
       IF n \notin DOMAIN box THEN Goes(k, "failed") /\ UNCHANGED answer
       ELSE /\ Goes(k, "ok")
            /\ Says(k, [shown |-> TRUE, of |-> box[n], config |-> ToRuntimeConfig(box[n]), host |-> ToHostConfig(box[n]), status |-> box[n].state])
    /\ UNCHANGED <<localCase, box, images, vols, output>>

(* The bindings of a container, one port of the listing for each; the engine lists those of a container that runs. *)
ToPorts(c) == UNION { c.bindings[p] : p \in DOMAIN c.bindings }

List(k) ==
    /\ Stands(k, "begin", "ps")
    /\ Goes(k, "ok")
    /\ Says(k, [shown |-> TRUE, ports |-> [n \in { m \in DOMAIN box : Cmd(k).all \/ box[m].state = "running" } |->
                                               [owner |-> box[n].owner, state |-> box[n].state,
                                                ports |-> IF box[n].state = "running" THEN ToPorts(box[n]) ELSE {}]]])
    /\ UNCHANGED <<localCase, box, images, vols, output>>

(* The volumes: those that containers mount are not removed. *)
Mounted(v) == \E n \in DOMAIN box : \E m \in Range(box[n].mounts) : m.source = v
VolumeCall(k) ==
    /\ step[k] = "begin" /\ Cmd(k).op \in {"volume create", "volume rm", "volume inspect", "volume ls"}
    /\ LET v == Cmd(k).volume
           op == Cmd(k).op
           refused == op \in {"volume rm", "volume inspect"} /\ v \notin vols
       IN  IF refused \/ (op = "volume rm" /\ Mounted(v)) THEN Goes(k, "failed") /\ UNCHANGED vols
           ELSE /\ Goes(k, "ok")
                /\ vols' = CASE op = "volume create" -> vols \cup {v} [] op = "volume rm" -> vols \ {v} [] OTHER -> vols
    /\ UNCHANGED <<localCase, box, images, answer, output>>

-----------------------------------------------------------------------------
(***************************************************************************)
(* exec: one goroutine copies what the process writes, one what the user   *)
(* types, until that ends, or cannot be sent any more. The process ends by *)
(* itself or with its container.                                           *)
(***************************************************************************)
ExecBegin(k) ==
    /\ Stands(k, "begin", "exec")
    /\ LET n == Cmd(k).id IN Goes(k, IF n \in DOMAIN box /\ box[n].state = "running" THEN "attached" ELSE "failed")
    /\ UNCHANGED <<localCase, box, images, vols, answer, output>>

ExecRuns(k) ==
    /\ Stands(k, "attached", "exec")
    /\ LET up == Cmd(k).id \in { n \in DOMAIN box : box[n].state = "running" } IN
       \/ output.written < Cmd(k).writes /\ ~output.exited /\ up /\ output' = [output EXCEPT !.written = @ + 1]
       \/ (output.written = Cmd(k).writes \/ ~up) /\ ~output.exited /\ output' = [output EXCEPT !.exited = TRUE]
       \/ output.copied < output.written /\ output' = [output EXCEPT !.copied = @ + 1]
       \/ output.exited /\ output.copied = output.written /\ ~output.read /\ output' = [output EXCEPT !.read = TRUE]
       \/ Cmd(k).stdinEnds /\ output.write = "open" /\ output' = [output EXCEPT !.write = "ended"]
       \/ output.exited /\ output.write = "open" /\ output' = [output EXCEPT !.write = "failed"]
    /\ UNCHANGED <<localCase, box, images, vols, step, answer>>

(* Whichever copy is over first; if both are, either. *)
ExecEnds(k) ==
    /\ Stands(k, "attached", "exec")
    /\ \/ (output.read \/ output.write = "ended") /\ Goes(k, "ok")
       \/ output.write = "failed" /\ Goes(k, "failed")
    /\ UNCHANGED <<localCase, box, images, vols, answer, output>>

-----------------------------------------------------------------------------
(* ls: the projects of the containers that run, each with the number of its containers in each state. *)
Grouped(groups, c) ==
    [p \in DOMAIN groups \cup {c.project} |->
        IF p # c.project THEN groups[p] ELSE Append(IF p \in DOMAIN groups THEN groups[p] ELSE <<>>, c)]
groupContainerByLabel(cs) ==
    LET groups[n \in 0 .. Len(cs)] == IF n = 0 THEN NoBox ELSE Grouped(groups[n - 1], cs[n]) IN groups[Len(cs)]
LabelMissing(cs) == \E c \in Range(cs) : c.project = "no label"

(* In the order of the states' names, which is left out. *)
Counted(nb, s) == [t \in DOMAIN nb \cup {s} |-> (IF t \in DOMAIN nb THEN nb[t] ELSE 0) + (IF t = s THEN 1 ELSE 0)]
combinedStatus(states) ==
    LET nbByStatus[n \in 0 .. Len(states)] == IF n = 0 THEN NoBox ELSE Counted(nbByStatus[n - 1], states[n]) IN nbByStatus[Len(states)]

containerToState(cs) == [i \in DOMAIN cs |-> cs[i].state]

containersToStacks(k) ==
    /\ Stands(k, "begin", "ls")
    /\ LET cs == localCase.projects
           byProject == groupContainerByLabel(cs)
       IN  IF LabelMissing(cs) THEN Goes(k, "failed") /\ UNCHANGED answer
           ELSE /\ Goes(k, "ok")
                /\ Says(k, [shown |-> TRUE, stacks |-> [p \in DOMAIN byProject |-> combinedStatus(containerToState(byProject[p]))]])
    /\ UNCHANGED <<localCase, box, images, vols, output>>

(* compose ps: a port that is not published has no address. *)
Ps(k) ==
    /\ Stands(k, "begin", "compose ps")
    /\ Goes(k, "ok")
    /\ Says(k, [shown |-> TRUE, summary |-> { [name |-> c.name, state |-> c.state, url |-> IF c.port # 0 THEN <<c.ip, c.port>> ELSE <<>>] :
                                                c \in { x \in Range(localCase.projects) : x.project = Cmd(k).project } }])
    /\ UNCHANGED <<localCase, box, images, vols, output>>

LocalDone == step # NoBox /\ (\A k \in Commands : step[k] \in Returned) /\ UNCHANGED localVars

CommandStep(k) ==
    \/ RunAsked(k) \/ create(k) \/ ImagePull(k) \/ RunStart(k) \/ ContainerCall(k) \/ Logs(k) \/ Inspect(k) \/ List(k)
    \/ VolumeCall(k) \/ ExecBegin(k) \/ ExecRuns(k) \/ ExecEnds(k) \/ containersToStacks(k) \/ Ps(k)

LocalNext == (\E k \in DOMAIN step : CommandStep(k)) \/ (\E n \in DOMAIN box : BoxExits(n) \/ AutoRemoves(n)) \/ LocalDone

CommandsSpec == LocalInit /\ [][LocalNext]_localVars

-----------------------------------------------------------------------------
Removals == { k \in Commands : Cmd(k).op = "rm" }

(***************************************************************************)
(* No run starts the container of another, though one of its name may have *)
(* taken the place of its own, and one that succeeds has a container of    *)
(* its own until that is removed: of two runs of one name, one fails,      *)
(* whichever has to pull first (Run, create).                              *)
(***************************************************************************)
RunIsOwn ==
    /\ \A n \in DOMAIN box : box[n].starters \subseteq {box[n].owner}
    /\ \A k \in Commands : Cmd(k).op = "run" /\ step[k] = "ok" /\ ~Cmd(k).autoRemove /\ (\A d \in Removals : step[d] # "ok")
          => Cmd(k).id \in DOMAIN box /\ box[Cmd(k).id].owner = k

(* A container that was run with --rm is not left behind when it has ended, however it ended (Run). *)
RemovedAtEnd ==
    \A n \in DOMAIN box : box[n].owner \in Commands => (box[n].state = "exited" => ~Cmd(box[n].owner).autoRemove)
                                                     /\ (box[n].state = "removing" => Cmd(box[n].owner).autoRemove)

(* A run of an image that can be pulled, and whose name is free, does not fail (create reads the pull to its end). *)
PulledThenRun ==
    \A k \in Commands : Cmd(k).op = "run" /\ ~localCase.faulty /\ Makeable(Cmd(k)) /\ Cmd(k).image \in images \cup localCase.pullable /\ PortsRight(Cmd(k).ports) /\ VolumesRight(Cmd(k))
                          /\ Cardinality(Commands) = 1 /\ Cmd(k).id \notin DOMAIN localCase.box
        => step[k] # "failed"

Once(e) == Cardinality({ i \in DOMAIN e : e[i] = "=" }) = 1

(* Of the variables with one sign of equality the last of each name is shown, and no other. *)
EnvShown(env, vars) ==
    LET Name(i) == SplitAt(vars[i], "=")[1]
        Whole == { i \in DOMAIN vars : Once(vars[i]) }
    IN  /\ DOMAIN env = { Name(i) : i \in Whole }
        /\ \A i \in Whole : (\A j \in Whole : j > i => Name(j) # Name(i)) => env[Name(i)] = SplitAt(vars[i], "=")[2]

(***************************************************************************)
(* inspect shows what run was asked for, after it has gone to the engine   *)
(* and come back: the restart policy, the limits, that of the CPUs to a    *)
(* billionth, and the environment except what holds a second sign of       *)
(* equality (ToRuntimeConfig, ToHostConfig, Run). ps lists the bindings    *)
(* asked for, and no other.                                                *)
(***************************************************************************)
RoundTrip ==
    \A k, r \in Commands :
        /\ Cmd(k).op = "inspect" /\ answer[k].shown /\ Cmd(r).op = "run" /\ answer[k].of.owner = r =>
              /\ answer[k].host.autoRemove = Cmd(r).autoRemove /\ answer[k].host.policy = Cmd(r).policy /\ answer[k].host.memory = Cmd(r).memory
              /\ answer[k].host.cpu <= Cmd(r).cpu /\ Cmd(r).cpu <= answer[k].host.cpu + 1
              /\ EnvShown(answer[k].config.env, Cmd(r).env)
        /\ Cmd(k).op = "ps" /\ answer[k].shown /\ Cmd(r).op = "run" =>
              \A n \in DOMAIN answer[k].ports : answer[k].ports[n].owner = r
                => answer[k].ports[n].ports = IF answer[k].ports[n].state = "running" THEN Range(Cmd(r).ports) ELSE {}

CountsOfAll(stacks, cs) ==
    /\ DOMAIN stacks = { c.project : c \in Range(cs) }
    /\ \A p \in DOMAIN stacks : \A st \in { c.state : c \in Range(cs) } :
          Cardinality({ i \in DOMAIN cs : cs[i].project = p /\ cs[i].state = st }) = (IF st \in DOMAIN stacks[p] THEN stacks[p][st] ELSE 0)

(* ls shows every project, with the numbers of its containers, none lost and none counted twice (groupContainerByLabel, combinedStatus). *)
StacksCounted == \A k \in Commands : Cmd(k).op = "ls" /\ answer[k].shown => CountsOfAll(answer[k].stacks, localCase.projects)

(***************************************************************************)
(* A run makes a container of its own, also when it pulls first and        *)
(* others run, stop, remove and exec beside it; inspect, ps and ls show    *)
(* what is there.                                                          *)
(***************************************************************************)
ContainersRight ==
    /\ RunIsOwn
    /\ RemovedAtEnd
    /\ PulledThenRun
    /\ RoundTrip
    /\ StacksCounted
=============================================================================
