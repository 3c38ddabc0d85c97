----------------------------- MODULE AciGroups ------------------------------
(***************************************************************************)
(* The container groups of an ACI context: docker run, start, stop, kill,  *)
(* rm, inspect and ps on single containers, compose up, down, ps and ls on *)
(* groups of them, and prune.                                              *)
(***************************************************************************)
EXTENDS AciVolumes

getGroupAndContainerName(id) ==
    IF Len(id) = 1 THEN [group |-> id, container |-> id]
    ELSE [group |-> Front(id), container |-> <<Last(id)>>]

getContainerID(name, group, container) == IF "single" \in group.tags THEN name ELSE name \o container.name

(* A container without a state of its own has the state of its node, which has a prefix. *)
GetGroupStatus(group) == IF group.node = NoView THEN <<"Unknown">> ELSE <<"Node", group.node>>
GetStatus(container, group) == IF container.state = NoView THEN GetGroupStatus(group) ELSE <<container.state>>
Runs(container, group) == GetStatus(container, group) = <<Running>>

(* What its name says is true of the containers that are left out. *)
isContainerVisible(container, group, showAll) ==
    container.name = ComposeDNSSidecarName \/ (~showAll /\ ~Runs(container, group))

Shown(name, group, showAll) ==
    LET kept == SelectSeq(group.containers, LAMBDA k : ~isContainerVisible(k, group, showAll))
    IN  [i \in DOMAIN kept |-> getContainerID(name, group, kept[i])]

Waiting(name) == [name |-> name, state |-> "Waiting"]

addTag(group, tag) == [group EXCEPT !.tags = @ \cup {tag}]

(* The group of a run has one container of its name; a project of several services has a sidecar. *)
Defined(c) ==
    LET names == IF Cmd(c).op = "run" THEN <<Cmd(c).id>> ELSE Cmd(c).services
        all   == IF Len(names) > 1 THEN Append(names, ComposeDNSSidecarName) ELSE names
        made  == Group([i \in DOMAIN all |-> Waiting(all[i])], {}, Range(Cmd(c).volumes), "Pending")
    IN  addTag(made, IF Cmd(c).op = "run" THEN "single" ELSE "compose")

-----------------------------------------------------------------------------
(* A run's name has no separator. *)
Run(c) ==
    /\ At(c, "run")
    /\ IF Len(Cmd(c).id) > 1 THEN Finish(c, "name") ELSE Jump(c, "define")
    /\ UNCHANGED <<groups, accounts, faults>>

(* Up looks for the file shares first, then converts the project, which reads the accounts' keys. *)
Up(c) ==
    /\ At(c, "up")
    /\ IF Cmd(c).volumes = <<>> THEN Jump(c, "define")
       ELSE Becomes(c, [job[c] EXCEPT !.todo = Cmd(c).volumes, !.pc = "volume"])
    /\ UNCHANGED <<groups, accounts, faults>>

Keys(c) == \A v \in Range(Cmd(c).volumes) : v[1] \in DOMAIN accounts

Define(c) ==
    /\ At(c, "define")
    /\ CASE ~Keys(c)                          -> Finish(c, "key")
         [] Keys(c) /\ Cmd(c).op = "run"      -> Jump(c, "new")
         [] OTHER                             -> Jump(c, "write")
    /\ UNCHANGED <<groups, accounts, faults>>

(* createACIContainers: a name that exists is refused. *)
createACIContainers(c) ==
    /\ At(c, "new")
    /\ IF Cmd(c).id \in DOMAIN groups THEN Finish(c, "exists") ELSE Jump(c, "write")
    /\ UNCHANGED <<groups, accounts, faults>>

(* createOrUpdateACIContainers: whatever has the name is replaced. *)
CreateOrUpdate(c) ==
    /\ At(c, "write")
    /\ groups' = [n \in DOMAIN groups \cup {Cmd(c).id} |-> IF n = Cmd(c).id THEN Defined(c) ELSE groups[n]]
    /\ Changed(c, [job[c] EXCEPT !.pc = "wait"])
    /\ UNCHANGED <<accounts, faults>>

WaitForCompletion(c) ==
    /\ At(c, "wait")
    /\ IF Cmd(c).id \in DOMAIN groups
         THEN groups[Cmd(c).id].node # "Pending" /\ Finish(c, NoError)
         ELSE Finish(c, "gone")
    /\ UNCHANGED <<groups, accounts, faults>>

(* Only a whole group is started, stopped, killed or deleted. *)
Addressed(c) ==
    /\ At(c, Cmd(c).op) /\ Cmd(c).op \in {"start", "stop", "kill", "rm"}
    /\ LET whole == getGroupAndContainerName(Cmd(c).id).group = Cmd(c).id
           waits == Cmd(c).op = "stop" /\ Cmd(c).timeout > 0
       IN  CASE waits                                             -> Finish(c, "timeout")
             [] ~waits /\ ~whole                                  -> Finish(c, "part of an application")
             [] whole /\ Cmd(c).op = "start"                      -> Jump(c, "starting")
             [] ~waits /\ whole /\ Cmd(c).op \in {"stop", "kill"} -> Jump(c, "stopping")
             [] OTHER                                             -> Jump(c, IF Cmd(c).force THEN "delete" ELSE "status")
    /\ UNCHANGED <<groups, accounts, faults>>

WithState(group, state, node) ==
    [group EXCEPT !.containers = [i \in DOMAIN group.containers |-> [group.containers[i] EXCEPT !.state = state]], !.node = node]

StartGroup(c) ==
    /\ At(c, "starting")
    /\ IF Cmd(c).id \in DOMAIN groups
         THEN /\ groups' = [groups EXCEPT ![Cmd(c).id] = WithState(@, "Waiting", "Pending")]
              /\ Changed(c, [job[c] EXCEPT !.pc = "wait"])
         ELSE Finish(c, "not found") /\ UNCHANGED groups
    /\ UNCHANGED <<accounts, faults>>

stopACIContainerGroup(c) ==
    /\ At(c, "stopping")
    /\ IF Cmd(c).id \in DOMAIN groups
         THEN /\ groups' = [groups EXCEPT ![Cmd(c).id] = WithState(@, "Terminated", "Stopped")]
              /\ Changed(c, [job[c] EXCEPT !.pc = "done"])
         ELSE Finish(c, "not found") /\ UNCHANGED groups
    /\ UNCHANGED <<accounts, faults>>

(* A deletion that is not forced looks for a container that runs. *)
CheckStopped(c) ==
    /\ At(c, "status")
    /\ IF Cmd(c).id \notin DOMAIN groups THEN Finish(c, "not found")
       ELSE LET g == groups[Cmd(c).id]
            IN  IF \E i \in DOMAIN g.containers : Runs(g.containers[i], g) THEN Finish(c, "forbidden") ELSE Jump(c, "delete")
    /\ UNCHANGED <<groups, accounts, faults>>

(* Down looks the group up to warn of the volumes that stay. *)
warnKeepVolumeOnDown(c) ==
    /\ At(c, "down")
    /\ IF Cmd(c).id \in DOMAIN groups THEN Jump(c, "delete") ELSE Finish(c, "not found")
    /\ UNCHANGED <<groups, accounts, faults>>

(***************************************************************************)
(* deleteACIContainerGroup: the call does not wait. When Azure only        *)
(* accepts it, the result is asked for too early and the command fails,    *)
(* though the group goes all the same. A group that is gone is an answer   *)
(* without content.                                                        *)
(***************************************************************************)
deleteACIContainerGroup(c) ==
    /\ At(c, "delete")
    /\ IF Cmd(c).id \in DOMAIN groups
         THEN /\ groups' = Without(groups, Cmd(c).id)
              /\ \E error \in {NoError, "incomplete"} : Changed(c, [job[c] EXCEPT !.pc = "done", !.error = error])
         ELSE Finish(c, "not found") /\ UNCHANGED groups
    /\ UNCHANGED <<accounts, faults>>

-----------------------------------------------------------------------------
Listed(c) == [i \in DOMAIN job[c].seen |-> Shown(job[c].seen[i][1], job[c].seen[i][2], Cmd(c).all)]

(* docker ps: a group without containers fails the listing. *)
List(c) ==
    /\ At(c, "listed") /\ Cmd(c).op = "ps"
    /\ IF \E i \in DOMAIN job[c].seen : job[c].seen[i][2].containers = <<>>
         THEN Finish(c, "empty")
         ELSE Becomes(c, [job[c] EXCEPT !.pc = "done", !.out = FlattenSeq(Listed(c))])
    /\ UNCHANGED <<groups, accounts, faults>>

(* docker compose ps *)
Ps(c) ==
    /\ At(c, "compose ps")
    /\ CASE Cmd(c).id \notin DOMAIN groups -> Finish(c, "not found")
         [] Cmd(c).id \in DOMAIN groups /\ groups[Cmd(c).id].containers = <<>> -> Finish(c, "empty")
         [] OTHER -> Becomes(c, [job[c] EXCEPT !.pc = "done", !.out = Shown(Cmd(c).id, groups[Cmd(c).id], FALSE)])
    /\ UNCHANGED <<groups, accounts, faults>>

Inspect(c) ==
    /\ At(c, "container inspect")
    /\ LET id == getGroupAndContainerName(Cmd(c).id)
       IN  IF id.group \in DOMAIN groups /\ \E i \in DOMAIN groups[id.group].containers :
                                             groups[id.group].containers[i].name = id.container
             THEN Becomes(c, [job[c] EXCEPT !.pc = "done", !.out = <<Cmd(c).id>>])
             ELSE Finish(c, "not found")
    /\ UNCHANGED <<groups, accounts, faults>>

(* The state of an application is that of its first container that does not run. *)
GroupState(group) ==
    LET other == { i \in DOMAIN group.containers : ~Runs(group.containers[i], group) }
    IN  IF other = {} THEN <<Running>> ELSE GetStatus(group.containers[Min(other)], group)

(* docker compose ls: the applications, at their places among the groups. *)
ComposeList(c) ==
    /\ At(c, "listed") /\ Cmd(c).op = "ls"
    /\ LET seen == job[c].seen
           apps == { i \in DOMAIN seen : "compose" \in seen[i][2].tags }
       IN  Becomes(c, [job[c] EXCEPT !.pc = "done", !.out = [i \in apps |-> <<seen[i][1], GroupState(seen[i][2])>>]])
    /\ UNCHANGED <<groups, accounts, faults>>

Spared(c, group) == ~Cmd(c).force /\ GetGroupStatus(group) = <<"Node", Running>>

(* Prune looks at one group after the other, as it was read. *)
Prune(c) ==
    /\ At(c, "listed") /\ Cmd(c).op = "prune"
    /\ \/ job[c].seen = <<>> /\ Jump(c, "done")
       \/ /\ job[c].seen # <<>> /\ Spared(c, Head(job[c].seen)[2])
          /\ Becomes(c, [job[c] EXCEPT !.seen = Tail(@)])
    /\ UNCHANGED <<groups, accounts, faults>>

(* What is not spared is deleted. A group whose deletion failed is listed with the deleted ones; the error is kept. *)
PruneGroup(c) ==
    /\ At(c, "listed") /\ Cmd(c).op = "prune"
    /\ job[c].seen # <<>> /\ ~Spared(c, Head(job[c].seen)[2])
    /\ LET name == Head(job[c].seen)[1]
           Next(error) == [job[c] EXCEPT !.seen = Tail(@), !.out = Append(@, name), !.error = IF @ = NoError THEN error ELSE @]
       IN  \/ Cmd(c).dryRun /\ Becomes(c, Next(NoError)) /\ UNCHANGED <<groups, faults>>
           \/ /\ ~Cmd(c).dryRun
              /\ groups' = Without(groups, name)
              /\ \E error \in {NoError, "incomplete"} : (error = NoError \/ name \in DOMAIN groups) /\ Changed(c, Next(error))
              /\ UNCHANGED faults
           \/ ~Cmd(c).dryRun /\ faults > 0 /\ faults' = faults - 1 /\ Becomes(c, Next("api")) /\ UNCHANGED groups
    /\ UNCHANGED accounts

-----------------------------------------------------------------------------
(* Azure: a group that was asked for comes up. *)
Provisioned(n) ==
    /\ groups[n].node = "Pending"
    /\ groups' = [groups EXCEPT ![n] = WithState(@, Running, Running)]
    /\ job' = [d \in Clients |-> [job[d] EXCEPT !.blind = @ \/ (job[d].pc \notin {"done", "wait", Cmd(d).op})]]
    /\ UNCHANGED <<accounts, faults>>

GroupStep(c) == \/ Run(c) \/ Up(c) \/ Define(c) \/ createACIContainers(c) \/ CreateOrUpdate(c) \/ WaitForCompletion(c)
                \/ Addressed(c) \/ StartGroup(c) \/ stopACIContainerGroup(c) \/ CheckStopped(c)
                \/ warnKeepVolumeOnDown(c) \/ deleteACIContainerGroup(c)
                \/ List(c) \/ Ps(c) \/ Inspect(c) \/ ComposeList(c) \/ Prune(c) \/ PruneGroup(c)

GroupsInit == \E plan \in Plans :
                 /\ groups = plan.groups /\ accounts = plan.accounts /\ faults = plan.faults
                 /\ job = [c \in Clients |-> Fresh(plan.commands[c])]
GroupsIdle == groups = << >> /\ accounts = << >> /\ faults = 0 /\ job = << >>

AllEnded == DOMAIN job = Clients /\ \A c \in Clients : Ended(c)
GroupsNext == /\ DOMAIN job = Clients
              /\ \/ \E c \in Clients : VolumeStep(c) \/ GroupStep(c) \/ CallFails(c)
                 \/ \E n \in DOMAIN groups : Provisioned(n)
                 \/ AllEnded /\ UNCHANGED aciVars

GroupsSpec == GroupsInit /\ [][GroupsNext]_aciVars

-----------------------------------------------------------------------------
(***************************************************************************)
(* A run that succeeds did not replace a group: the one that had its name  *)
(* was there before it began or came meanwhile.                            *)
(***************************************************************************)
RunReplacesNothing ==
    [][\A c \in DOMAIN job : (~job'[c].blind /\ Cmd(c).op = "run" /\ job'[c] # job[c])
                              => \A n \in DOMAIN groups : groups'[n] = groups[n]]_aciVars

(* What was read of a group and decided on it holds still, when nobody came between: *)
(* an rm or a prune that is not forced leaves a group with a container that runs.    *)
RunningKept ==
    [][\A c \in DOMAIN job : (~job'[c].blind /\ Cmd(c).op \in {"rm", "prune"} /\ ~Cmd(c).force /\ job'[c] # job[c])
          => \A n \in DOMAIN groups \ DOMAIN groups' :
                \A i \in DOMAIN groups[n].containers : groups[n].containers[i].state # Running]_aciVars

(* A prune without an error removed all that it says it removed. *)
PruneTells ==
    \A c \in DOMAIN job :
        (Ended(c) /\ Cmd(c).op = "prune" /\ job[c].error = NoError /\ ~Cmd(c).dryRun)
            => \A n \in Range(job[c].out) : n \notin DOMAIN groups \/ \E d \in Clients : d # c /\ Cmd(d).op \in {"run", "up"}

(***************************************************************************)
(* An application that is up has its volumes: every share its containers   *)
(* mount exists, unless another client changed something meanwhile.        *)
(***************************************************************************)
SharesProvided ==
    \A c \in DOMAIN job :
        (At(c, "wait") /\ Cmd(c).op = "up" /\ ~job[c].blind) => Range(Cmd(c).volumes) \subseteq AllShares

(* A container that is listed can be inspected by the id it is listed with. *)
IdsResolve ==
    \A n \in DOMAIN groups : \A i \in DOMAIN groups[n].containers :
        LET k  == groups[n].containers[i]
            id == getGroupAndContainerName(getContainerID(n, groups[n], k))
        IN  k.name # ComposeDNSSidecarName => id.group = n /\ id.container = k.name

(* An application that is listed as running has no container that was seen in another state. *)
ListedRunning ==
    \A c \in DOMAIN job :
        (Ended(c) /\ Cmd(c).op = "ls")
            => \A i \in DOMAIN job[c].out : \A s \in Range(job[c].seen) :
                 (s[1] = job[c].out[i][1] /\ job[c].out[i][2] = <<Running>>)
                    => \A k \in Range(s[2].containers) : Runs(k, s[2])

(***************************************************************************)
(* No command takes away what was not its own to take, though it decides   *)
(* on what it read several calls before: accounts of the user, other       *)
(* volumes, volumes in use, groups that exist, groups that run. A client   *)
(* that is blind takes no account of the user either, and no volume but    *)
(* those of the account it was told; it may take one in use, replace a     *)
(* group that came meanwhile, and delete one that runs by then.            *)
(***************************************************************************)
AzureKept ==
    /\ UntaggedKept
    /\ OnlyThisVolume
    /\ InUseKept
    /\ RunReplacesNothing
    /\ RunningKept

(***************************************************************************)
(* A command that ends well leaves what it says: groups pruned, shares     *)
(* made for the groups that mount them, accounts only with a share; and    *)
(* what it lists can be addressed and is as it was seen (Prune,            *)
(* createOrUpdateACIContainers, VolumeCreate, List).                       *)
(***************************************************************************)
GroupsTold ==
    /\ PruneTells
    /\ SharesProvided
    /\ NoAccountLeft
    /\ IdsResolve
    /\ ListedRunning
=============================================================================
