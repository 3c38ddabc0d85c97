-------------------------- MODULE AciKube_proofs --------------------------
(***************************************************************************)
(* What the backends of the two clouds keep and tell, for every number of  *)
(* commands at once: container groups and volumes of Azure (AciGroups),    *)
(* the token of a login (AzureLogin), the releases of Kubernetes clusters  *)
(* (KubeBackend), the group a context is made for (AciContext), and what   *)
(* following a log and exec show (AciLogs).                                *)
(* Several clients work on what they share, and each call of one may fall  *)
(* between two of another: a command that decides on what it read is right *)
(* as long as nobody came between.                                         *)
(***************************************************************************)
EXTENDS AciGroups, AzureLogin, KubeBackend, AciContext, AciLogs, TLAPS, SequenceTheorems, FiniteSetTheorems, WellFoundedInduction

(***************************************************************************)
(* The container groups and the volumes of an ACI context.                 *)
(***************************************************************************)
(* The commands that begin with a listing of the groups, and the places of a command that matter together. *)
Listing == {"ps", "ls", "prune", "volume rm"}
Removing == {"shares", "tag", "account rm", "share rm"}
Creating == {"volume create", "name", "account", "share", "new share"}
Providing == Creating \cup {"inspect", "volume"}
Deploying == {"define", "write", "wait"}

(* Where a command can be: the place tells which command it is, and that nothing failed yet. *)
Flow(j) ==
    /\ j.cmd \in AciCommand /\ (j.cmd.op = "volume create" => Len(j.cmd.volume) = 2)
    /\ j.pc \in Removing => j.cmd.op = "volume rm" /\ Len(j.cmd.volume) = 2
    /\ j.pc \in {"define", "write"} => j.cmd.op \in {"run", "up"}
    /\ j.pc \in Ops \ {"volume create", "inspect"} => j.cmd.op = j.pc
    /\ j.pc = "new" => j.cmd.op = "run"
    /\ j.pc = "wait" => j.cmd.op \in {"run", "up", "start"}
    /\ j.pc \in {"group", "listed"} => j.cmd.op \in Listing
    /\ j.pc = "starting" => j.cmd.op = "start"
    /\ j.pc = "stopping" => j.cmd.op \in {"stop", "kill"}
    /\ j.pc = "status" => j.cmd.op = "rm"
    /\ j.pc = "delete" => j.cmd.op \in {"rm", "down"}
    /\ j.pc \in Creating => j.cmd.op \in {"up", "volume create"}
    /\ j.pc = "inspect" => j.cmd.op \in {"up", "inspect"}
    /\ j.pc = "volume" => j.cmd.op = "up"
    /\ j.pc = "its shares" => j.cmd.op = "volume ls"
    /\ j.cmd.op = "run" /\ j.pc \in {"define", "new", "write", "wait"} => Len(j.cmd.id) = 1
    /\ j.pc # "done" /\ j.cmd.op # "prune" => j.error = NoError
    /\ j.cmd.op \in {"volume create", "inspect"} => j.todo = <<>>

(* No name twice, in what was read and in what is to be read. *)
Once(seen, todo) ==
    /\ \A i, k \in DOMAIN seen : seen[i][1] = seen[k][1] => i = k
    /\ \A i, k \in DOMAIN todo : todo[i] = todo[k] => i = k
    /\ \A i \in DOMAIN seen, k \in DOMAIN todo : seen[i][1] # todo[k]

(* What a listing has read, and has still to read: every group once. *)
Reads(j) ==
    j.cmd.op \in Listing =>
        /\ j.todo \in Seq(Name) /\ j.seen \in Seq(Name \X ContainerGroup)
        /\ Once(j.seen, j.todo)
        /\ j.pc = j.cmd.op => j.todo = <<>> /\ j.seen = <<>>
        /\ j.pc = "group" => j.todo # <<>>
        /\ j.pc = "listed" => j.todo = <<>>
        /\ j.cmd.op # "ps" /\ j.cmd.op # "prune" /\ j.pc # "done" => j.out = <<>>
        /\ j.cmd.op = "prune" => j.out \in Seq(Name)
        /\ j.cmd.op = "ls" => \A i \in DOMAIN j.out : i \in DOMAIN j.seen /\ j.out[i] = <<j.seen[i][1], GroupState(j.seen[i][2])>>

(***************************************************************************)
(* What a command decided on, or will: it holds still when nobody came     *)
(* between. What was read of the groups is what they are, and a removal    *)
(* of a volume misses none; nobody mounts the volume, which is the last of *)
(* its account or, where the account has the tag, is not; the name of a    *)
(* run is free; a group that is removed has stopped; the volumes of an     *)
(* application are there or still to be made. That an account about to be  *)
(* deleted has the tag holds whoever came between: no step takes a tag.    *)
(***************************************************************************)
Current(j, gs) ==
    (~j.blind /\ j.cmd.op \in Listing /\ j.pc \in {"group", "listed"}) =>
        /\ \A i \in DOMAIN j.seen : j.seen[i][1] \in DOMAIN gs /\ gs[j.seen[i][1]] = j.seen[i][2]
        /\ j.cmd.op = "volume rm" => \A n \in DOMAIN gs : (\E i \in DOMAIN j.seen : j.seen[i][1] = n) \/ (\E i \in DOMAIN j.todo : j.todo[i] = n)
Unused(j, gs) == (~j.blind /\ j.pc \in Removing) => \A n \in DOMAIN gs : j.cmd.volume \notin gs[n].volumes
TagRead(j, as) == (j.pc = "account rm" /\ j.cmd.volume[1] \in DOMAIN as) => as[j.cmd.volume[1]].tagged
LastRead(j, as) ==
    (~j.blind /\ j.pc \in Removing /\ j.cmd.volume[1] \in DOMAIN as) =>
        /\ j.pc \in {"tag", "account rm"} => as[j.cmd.volume[1]].shares = {j.cmd.volume[2]}
        /\ j.pc = "share rm" => (as[j.cmd.volume[1]].tagged => as[j.cmd.volume[1]].shares # {j.cmd.volume[2]})
NewName(j, gs) == (~j.blind /\ j.cmd.op = "run" /\ j.pc = "write") => j.cmd.id \notin DOMAIN gs
StoppedRead(j, gs) ==
    (~j.blind /\ j.cmd.op = "rm" /\ j.pc = "delete" /\ ~j.cmd.force /\ j.cmd.id \in DOMAIN gs) =>
        \A i \in DOMAIN gs[j.cmd.id].containers : gs[j.cmd.id].containers[i].state # Running

IsShare(v, as) == v[1] \in DOMAIN as /\ v[2] \in as[v[1]].shares
Provided(j, as) ==
    j.cmd.op = "up" =>
        /\ j.pc \in Providing => j.todo \in Seq(Volume) /\ j.todo # <<>>
        /\ ~j.blind /\ j.pc \in Providing => \A v \in Range(j.cmd.volumes) : IsShare(v, as) \/ v \in Range(j.todo)
        /\ ~j.blind /\ j.pc \in Deploying => \A v \in Range(j.cmd.volumes) : IsShare(v, as)

(* The fields of a command. *)
IsJob(j) == j = [cmd |-> j.cmd, pc |-> j.pc, todo |-> j.todo, seen |-> j.seen, out |-> j.out, error |-> j.error, blind |-> j.blind] /\ j.blind \in BOOLEAN

OwnInv(j, gs, as) == /\ IsJob(j) /\ Flow(j) /\ Reads(j)
                     /\ Current(j, gs) /\ Unused(j, gs) /\ NewName(j, gs) /\ StoppedRead(j, gs)
                     /\ TagRead(j, as) /\ LastRead(j, as) /\ Provided(j, as)

(***************************************************************************)
(* The inductive invariant: what each command relies on, with how groups   *)
(* and accounts are made. An account without the tag was there before; one *)
(* that was not and has no share is awaited by the client that made it.    *)
(* What prune took away is away, unless a run or an up brings it back.     *)
(***************************************************************************)
WantedBy(j) == IF j.todo = <<>> THEN j.cmd.volume ELSE Head(j.todo)
NobodyDisturbed == \A c \in Clients : ~job[c].blind /\ job[c].error = NoError
AccountsInv ==
    /\ accounts \in [DOMAIN accounts -> StorageAccount]
    /\ \A a \in DOMAIN accounts : ~accounts[a].tagged => \A c \in Clients : a \in job[c].cmd.before
    /\ NobodyDisturbed => \A c \in Clients : \A a \in DOMAIN accounts \ job[c].cmd.before :
          accounts[a].shares # {} \/ \E d \in Clients : job[d].pc \in {"share", "new share"} /\ WantedBy(job[d])[1] = a
PruneInv ==
    \A c \in Clients : (job[c].cmd.op = "prune" /\ job[c].error = NoError /\ ~job[c].cmd.dryRun)
        => \A n \in Range(job[c].out) : n \notin DOMAIN groups \/ \E d \in Clients : d # c /\ job[d].cmd.op \in {"run", "up"}

GroupsInv ==
    /\ job = [c \in Clients |-> job[c]]
    /\ \A c \in Clients : OwnInv(job[c], groups, accounts)
    /\ GroupsDeployed(groups) /\ AccountsInv /\ PruneInv

-----------------------------------------------------------------------------
(* A command that goes on: its fields. *)

CommandGoes(c, k, pc, todo, seen, out, error) ==
    /\ Becomes(c, k) /\ IsJob(k) /\ k.cmd = job[c].cmd /\ (job[c].blind => k.blind)
    /\ k.pc = pc /\ k.todo = todo /\ k.seen = seen /\ k.out = out /\ k.error = error

(* A command that goes to another place. *)
LEMMA JumpFields ==
    ASSUME NEW c \in Clients, NEW p, IsJob(job[c]), Jump(c, p)
    PROVE  \E k : CommandGoes(c, k, p, job[c].todo, job[c].seen, job[c].out, job[c].error)
<1> DEFINE k == [job[c] EXCEPT !.pc = p]
<1>1. CommandGoes(c, k, p, job[c].todo, job[c].seen, job[c].out, job[c].error)
  BY DEF Jump, CommandGoes, IsJob
<1> QED BY <1>1

(* A command that ends. *)
LEMMA FinishFields ==
    ASSUME NEW c \in Clients, NEW e, IsJob(job[c]), Finish(c, e)
    PROVE  \E k : CommandGoes(c, k, "done", job[c].todo, job[c].seen, job[c].out, e)
<1> DEFINE q == [job[c] EXCEPT !.pc = "done"]
           k == [q EXCEPT !.error = e]
<1>1. IsJob(q) /\ q.cmd = job[c].cmd /\ q.blind = job[c].blind /\ q.pc = "done" /\ q.todo = job[c].todo
      /\ q.seen = job[c].seen /\ q.out = job[c].out
  BY DEF IsJob
<1>2. Becomes(c, k)
  BY DEF Finish
<1> HIDE DEF q
<1>3. CommandGoes(c, k, "done", job[c].todo, job[c].seen, job[c].out, e)
  BY <1>1, <1>2 DEF CommandGoes, IsJob
<1> QED BY <1>3

(* Another client's command, when something was changed. *)
NoticedBy(d, r) ==
    /\ IsJob(job'[d]) /\ job'[d].blind = (job[d].blind \/ r)
    /\ job'[d].cmd = job[d].cmd /\ job'[d].pc = job[d].pc /\ job'[d].todo = job[d].todo
    /\ job'[d].seen = job[d].seen /\ job'[d].out = job[d].out /\ job'[d].error = job[d].error

(* When one client changes something, the others keep all but their claim to be undisturbed. *)
LEMMA ChangedFields ==
    ASSUME NEW c \in Clients, NEW mine, GroupsInv, Changed(c, mine)
    PROVE  /\ job' = [d \in Clients |-> job'[d]] /\ job'[c] = mine
           /\ \A d \in Clients \ {c} : NoticedBy(d, job[d].pc \notin {"done", Cmd(d).op})
<1>1. job' = [d \in Clients |-> job'[d]] /\ job'[c] = mine
  BY DEF Changed
<1>2. ASSUME NEW d \in Clients \ {c} PROVE NoticedBy(d, job[d].pc \notin {"done", Cmd(d).op})
  <2>1. IsJob(job[d])
    BY DEF GroupsInv, OwnInv
  <2>2. PICK r \in BOOLEAN : r = (job[d].blind \/ (job[d].pc \notin {"done", Cmd(d).op}))
    OBVIOUS
  <2>3. job'[d] = [job[d] EXCEPT !.blind = r]
    BY <2>2 DEF Changed
  <2> QED BY <2>1, <2>2, <2>3 DEF NoticedBy, IsJob
<1> QED BY <1>1, <1>2

(* An account without the tag was without it before. *)
TagsKept(as, bs) == \A a \in DOMAIN bs : ~bs[a].tagged => a \in DOMAIN as /\ ~as[a].tagged

(* What another client relies on holds still, or it is marked. *)
LEMMA NoticedKeeps ==
    ASSUME NEW d \in Clients, NEW gs, NEW as, OwnInv(job[d], groups, accounts), NEW r, NoticedBy(d, r), TagsKept(accounts, as),
           \/ job[d].pc \notin {"done", Cmd(d).op} => r
           \/ as = accounts /\ (job[d].pc \notin {"done", "wait", Cmd(d).op} => r)
    PROVE  OwnInv(job'[d], gs, as)
<1> DEFINE j == job[d]
           k == job'[d]
<1>1. /\ IsJob(k) /\ k.cmd = j.cmd /\ k.pc = j.pc /\ k.todo = j.todo /\ k.seen = j.seen /\ k.out = j.out /\ k.error = j.error
      /\ j.blind => k.blind
      /\ (j.pc \notin {"done", "wait", j.cmd.op} => k.blind)
      /\ ((j.pc = "wait" /\ j.cmd.op # "wait" /\ as # accounts) => k.blind)
  BY DEF NoticedBy, Cmd
<1>2. Flow(j) /\ Reads(j) /\ TagRead(j, accounts) /\ Provided(j, accounts)
  BY DEF OwnInv
<1> HIDE DEF j, k
<1>3. Flow(k)
  BY <1>1, <1>2, ZenonT(60) DEF Flow
<1>4. Reads(k)
  BY <1>1, <1>2 DEF Reads
<1>5. j.cmd.op \in Ops
  BY <1>2 DEF Flow, AciCommand
<1>6. Current(k, gs)
  BY <1>1, <1>5 DEF Current, Listing
<1>7. Unused(k, gs) /\ LastRead(k, as)
  BY <1>1, <1>5 DEF Unused, LastRead, Removing, Ops
<1>8. NewName(k, gs)
  BY <1>1, <1>5 DEF NewName
<1>9. StoppedRead(k, gs)
  BY <1>1, <1>5 DEF StoppedRead
<1>10. TagRead(k, as)
  BY <1>1, <1>2 DEF TagRead, TagsKept
<1>11. Provided(k, as)
  BY <1>1, <1>2, <1>5 DEF Provided, Providing, Creating, Deploying, Ops
<1> QED BY <1>1, <1>3, <1>4, <1>6, <1>7, <1>8, <1>9, <1>10, <1>11 DEF OwnInv, j, k

(* What every step keeps of the commands: those of S only lose the claim to be undisturbed. *)
Framed(S) ==
    /\ job' = [d \in Clients |-> job'[d]]
    /\ \A d \in Clients : /\ job'[d].cmd = job[d].cmd /\ (job[d].blind => job'[d].blind)
                          /\ job'[d].error = NoError => job[d].error = NoError
    /\ \A d \in S : job'[d].pc = job[d].pc /\ job'[d].todo = job[d].todo /\ job'[d].out = job[d].out

(* A client about to make a share of an account goes on, or fails. *)
Still(j, k) ==
    (j.pc \in {"share", "new share"} /\ k.error = NoError)
        => k.pc \in {"share", "new share"} /\ WantedBy(k) = WantedBy(j)

(* The accounts stay: an account without a share is awaited still. *)
LEMMA AccountsFrame ==
    ASSUME GroupsInv, NEW S \in SUBSET Clients, Framed(S), accounts' = accounts, \A d \in Clients \ S : Still(job[d], job'[d])
    PROVE  AccountsInv'
<1>1. AccountsInv
  BY DEF GroupsInv
<1>2. accounts' \in [DOMAIN accounts' -> StorageAccount]
  BY <1>1 DEF AccountsInv
<1>3. \A a \in DOMAIN accounts' : ~accounts'[a].tagged => \A c \in Clients : a \in job'[c].cmd.before
  BY <1>1 DEF AccountsInv, Framed
<1>4. ASSUME NobodyDisturbed', NEW c \in Clients, NEW a \in DOMAIN accounts' \ job'[c].cmd.before, accounts'[a].shares = {}
      PROVE  \E d \in Clients : job'[d].pc \in {"share", "new share"} /\ WantedBy(job'[d])[1] = a
  <2>1. NobodyDisturbed /\ a \in DOMAIN accounts \ job[c].cmd.before
    BY <1>4 DEF Framed, NobodyDisturbed
  <2>2. PICK d \in Clients : job[d].pc \in {"share", "new share"} /\ WantedBy(job[d])[1] = a
    BY <1>1, <1>4, <2>1 DEF AccountsInv
  <2>3. job'[d].error = NoError
    BY <1>4 DEF NobodyDisturbed
  <2>4. job'[d].pc \in {"share", "new share"} /\ WantedBy(job'[d]) = WantedBy(job[d])
    <3>1. CASE d \in S
      BY <2>2, <3>1 DEF Framed, WantedBy
    <3>2. CASE d \notin S
      BY <2>2, <2>3, <3>2 DEF Still
    <3> QED BY <3>1, <3>2
  <2> QED BY <2>2, <2>4
<1> QED BY <1>2, <1>3, <1>4 DEF AccountsInv

(* What prune told stays true when no group comes, or when one comes of a run or an up. *)
LEMMA PruneFrame ==
    ASSUME GroupsInv, NEW S \in SUBSET Clients, Framed(S),
           DOMAIN groups' \subseteq DOMAIN groups \/ \E d \in Clients : job[d].cmd.op \in {"run", "up"},
           \A d \in Clients \ S : job'[d].error = NoError /\ ~job[d].cmd.dryRun /\ job[d].cmd.op = "prune"
                                     => \A n \in Range(job'[d].out) : n \in Range(job[d].out) \/ n \notin DOMAIN groups'
    PROVE  PruneInv'
<1> SUFFICES ASSUME NEW c \in Clients, job'[c].cmd.op = "prune", job'[c].error = NoError, ~job'[c].cmd.dryRun, NEW n \in Range(job'[c].out)
             PROVE  n \notin DOMAIN groups' \/ \E d \in Clients : d # c /\ job'[d].cmd.op \in {"run", "up"}
  BY DEF PruneInv
<1>1. job[c].cmd.op = "prune" /\ job[c].error = NoError /\ ~job[c].cmd.dryRun /\ \A d \in Clients : job'[d].cmd = job[d].cmd
  BY DEF Framed
<1>2. n \in Range(job[c].out) \/ n \notin DOMAIN groups'
  <2>1. CASE c \in S
    BY <2>1 DEF Framed
  <2>2. CASE c \notin S
    BY <1>1, <2>2
  <2> QED BY <2>1, <2>2
<1>3. CASE n \in Range(job[c].out)
  <2>1. n \notin DOMAIN groups \/ \E d \in Clients : d # c /\ job[d].cmd.op \in {"run", "up"}
    BY <1>1, <1>3 DEF GroupsInv, PruneInv
  <2>2. CASE \E d \in Clients : job[d].cmd.op \in {"run", "up"}
    BY <1>1, <2>2
  <2> QED BY <1>1, <2>1, <2>2
<1> QED BY <1>2, <1>3

(* A step of one client that changes nothing but its own command. *)
RelyOnGroups(k) == Current(k, groups) /\ Unused(k, groups) /\ NewName(k, groups) /\ StoppedRead(k, groups)
RelyOnAccounts(k) == TagRead(k, accounts) /\ LastRead(k, accounts) /\ Provided(k, accounts)
Quiet(c, k) ==
    /\ Flow(k) /\ Reads(k) /\ RelyOnGroups(k) /\ RelyOnAccounts(k) /\ UNCHANGED <<groups, accounts>>
    /\ Still(job[c], k) /\ (k.error = NoError => job[c].error = NoError)
    /\ (k.error = NoError /\ ~job[c].cmd.dryRun /\ job[c].cmd.op = "prune") => k.out = job[c].out

(* Such a step keeps the invariant when the command's own part holds of what it becomes. *)
LEMMA QuietKeeps ==
    ASSUME NEW c \in Clients, NEW k, NEW pc, NEW todo, NEW seen, NEW out, NEW error, GroupsInv,
           CommandGoes(c, k, pc, todo, seen, out, error), Quiet(c, k)
    PROVE  GroupsInv'
<1>1. job = [d \in Clients |-> job[d]] /\ job' = [job EXCEPT ![c] = k]
  BY DEF GroupsInv, CommandGoes, Becomes
<1>2. job' = [d \in Clients |-> job'[d]] /\ job'[c] = k /\ \A d \in Clients \ {c} : job'[d] = job[d]
  BY <1>1
<1>3. Framed(Clients \ {c})
  BY <1>2 DEF Framed, CommandGoes, Quiet
<1>4. OwnInv(k, groups, accounts)
  BY DEF OwnInv, Quiet, RelyOnGroups, RelyOnAccounts, CommandGoes
<1>5. UNCHANGED <<groups, accounts>>
  BY DEF Quiet
<1>6. ASSUME NEW d \in Clients PROVE OwnInv(job'[d], groups', accounts')
  BY <1>2, <1>4, <1>5 DEF GroupsInv
<1>7. AccountsInv'
  <2>1. \A d \in Clients \ (Clients \ {c}) : Still(job[d], job'[d])
    BY <1>2 DEF Quiet
  <2> QED BY <1>3, <1>5, <2>1, AccountsFrame
<1>8. PruneInv'
  <2>1. \A d \in Clients \ (Clients \ {c}) : job'[d].error = NoError /\ ~job[d].cmd.dryRun /\ job[d].cmd.op = "prune"
             => \A n \in Range(job'[d].out) : n \in Range(job[d].out) \/ n \notin DOMAIN groups'
    BY <1>2 DEF Quiet
  <2> QED BY <1>3, <1>5, <2>1, PruneFrame
<1>9. GroupsDeployed(groups')
  BY <1>5 DEF GroupsInv
<1> QED BY <1>2, <1>6, <1>7, <1>8, <1>9 DEF GroupsInv

(* A command that ends relies on nothing. *)
LEMMA FinishKeeps ==
    ASSUME NEW c \in Clients, NEW e, GroupsInv, Finish(c, e), UNCHANGED <<groups, accounts>>,
           e # NoError \/ job[c].pc \in {"wait", "inspect"}, job[c].pc # "done"
    PROVE  GroupsInv'
<1>1. IsJob(job[c]) /\ Flow(job[c]) /\ Reads(job[c])
  BY DEF GroupsInv, OwnInv
<1>2. PICK k : CommandGoes(c, k, "done", job[c].todo, job[c].seen, job[c].out, e)
  BY <1>1, FinishFields
<1>3. Flow(k) /\ Reads(k)
  <2>1. job[c].cmd.op \in Ops
    BY <1>1 DEF Flow, AciCommand
  <2>2. Flow(k)
    BY <1>1, <1>2 DEF CommandGoes, Flow, Removing, Creating, Ops
  <2>3. Reads(k)
    <3>1. k.cmd = job[c].cmd /\ k.pc = "done" /\ k.todo = job[c].todo /\ k.seen = job[c].seen /\ k.out = job[c].out
      BY <1>2 DEF CommandGoes
    <3>2. job[c].cmd.op \in Listing => job[c].cmd.op # "done"
      BY DEF Listing
    <3> QED BY <1>1, <3>1, <3>2 DEF Reads
  <2> QED BY <2>2, <2>3
<1>4. RelyOnGroups(k)
  BY <1>2 DEF CommandGoes, RelyOnGroups, Current, Unused, NewName, StoppedRead, Removing
<1>5. RelyOnAccounts(k)
  BY <1>2 DEF CommandGoes, RelyOnAccounts, TagRead, LastRead, Provided, Removing, Providing, Creating, Deploying
<1>6. Quiet(c, k)
  BY <1>1, <1>2, <1>3, <1>4, <1>5 DEF Quiet, CommandGoes, Still, Flow
<1> QED BY <1>2, <1>6, QuietKeeps

(* What a client relies on, and whose name it has for each. *)
LEMMA ReadsOn ==
    ASSUME NEW j, NEW k, Reads(j), k.cmd = j.cmd, k.todo = j.todo, k.seen = j.seen, k.out = j.out,
           k.pc \notin {"group", "listed"} \cup Listing, j.pc # "done"
    PROVE  Reads(k)
  BY DEF Reads

(* What the invariant says of one command. *)
LEMMA OwnFacts ==
    ASSUME NEW c \in Clients, GroupsInv
    PROVE  /\ IsJob(job[c]) /\ Flow(job[c]) /\ Reads(job[c]) /\ RelyOnGroups(job[c]) /\ RelyOnAccounts(job[c])
           /\ job[c].cmd \in AciCommand /\ job[c].cmd.op \in Ops
<1>1. OwnInv(job[c], groups, accounts)
  BY DEF GroupsInv
<1>2. Flow(job[c]) /\ job[c].cmd \in AciCommand
  BY <1>1 DEF OwnInv, Flow
<1> QED BY <1>1, <1>2 DEF OwnInv, RelyOnGroups, RelyOnAccounts, AciCommand

(* volume create: the account is there, or its name is asked for. *)
LEMMA VolumeCreateKeeps == ASSUME NEW c \in Clients, GroupsInv, VolumeCreate(c) PROVE GroupsInv'
<1>1. /\ IsJob(job[c]) /\ Flow(job[c]) /\ Reads(job[c]) /\ RelyOnGroups(job[c]) /\ RelyOnAccounts(job[c])
      /\ job[c].cmd \in AciCommand /\ job[c].cmd.op \in Ops
  BY OwnFacts
<1>2. CASE At(c, "volume create") /\ Jump(c, "share") /\ UNCHANGED <<groups, accounts>>
  <2>1. PICK k : CommandGoes(c, k, "share", job[c].todo, job[c].seen, job[c].out, job[c].error)
    BY <1>1, <1>2, JumpFields
  <2>2. Flow(k) /\ Reads(k)
    <3>1. Flow(k)
      BY <1>1, <1>2, <2>1 DEF At, Cmd, CommandGoes, Flow, Removing, Creating, Listing, Ops
    <3>2. Reads(k)
      BY <1>1, <1>2, <2>1, ReadsOn DEF At, Cmd, CommandGoes, Ops, Listing
    <3> QED BY <3>1, <3>2
  <2>3. RelyOnGroups(k)
    BY <1>1, <1>2, <2>1 DEF At, Cmd, CommandGoes, RelyOnGroups, Current, Unused, NewName, StoppedRead, Removing, Listing, Ops
  <2>4. RelyOnAccounts(k)
    BY <1>1, <1>2, <2>1 DEF At, Cmd, CommandGoes, RelyOnAccounts, TagRead, LastRead, Provided, Removing, Providing, Creating, Deploying, Ops
  <2>5. Quiet(c, k)
    BY <1>1, <1>2, <2>1, <2>2, <2>3, <2>4 DEF Quiet, CommandGoes, Still, WantedBy, At
  <2> QED BY <2>1, <2>5, QuietKeeps
<1>3. CASE At(c, "volume create") /\ Jump(c, "name") /\ UNCHANGED <<groups, accounts>>
  <2>1. PICK k : CommandGoes(c, k, "name", job[c].todo, job[c].seen, job[c].out, job[c].error)
    BY <1>1, <1>3, JumpFields
  <2>2. Flow(k) /\ Reads(k)
    <3>1. Flow(k)
      BY <1>1, <1>3, <2>1 DEF At, Cmd, CommandGoes, Flow, Removing, Creating, Listing, Ops
    <3>2. Reads(k)
      BY <1>1, <1>3, <2>1, ReadsOn DEF At, Cmd, CommandGoes, Ops, Listing
    <3> QED BY <3>1, <3>2
  <2>3. RelyOnGroups(k)
    BY <1>1, <1>3, <2>1 DEF At, Cmd, CommandGoes, RelyOnGroups, Current, Unused, NewName, StoppedRead, Removing, Listing, Ops
  <2>4. RelyOnAccounts(k)
    BY <1>1, <1>3, <2>1 DEF At, Cmd, CommandGoes, RelyOnAccounts, TagRead, LastRead, Provided, Removing, Providing, Creating, Deploying, Ops
  <2>5. Quiet(c, k)
    BY <1>1, <1>3, <2>1, <2>2, <2>3, <2>4 DEF Quiet, CommandGoes, Still, WantedBy, At
  <2> QED BY <2>1, <2>5, QuietKeeps
<1> QED BY <1>2, <1>3 DEF VolumeCreate

(* The name of the account is free, or the command ends. *)
LEMMA CheckNameAvailabilityKeeps == ASSUME NEW c \in Clients, GroupsInv, CheckNameAvailability(c) PROVE GroupsInv'
<1>1. /\ IsJob(job[c]) /\ Flow(job[c]) /\ Reads(job[c]) /\ RelyOnGroups(job[c]) /\ RelyOnAccounts(job[c])
      /\ job[c].cmd \in AciCommand /\ job[c].cmd.op \in Ops
  BY OwnFacts
<1>2. CASE At(c, "name") /\ Finish(c, "name") /\ UNCHANGED <<groups, accounts>>
  BY <1>2, FinishKeeps, <1>1 DEF NoError, At, Cmd, Ops
<1>3. CASE At(c, "name") /\ Jump(c, "account") /\ UNCHANGED <<groups, accounts>>
  <2>1. PICK k : CommandGoes(c, k, "account", job[c].todo, job[c].seen, job[c].out, job[c].error)
    BY <1>1, <1>3, JumpFields
  <2>2. Flow(k) /\ Reads(k)
    <3>1. Flow(k)
      BY <1>1, <1>3, <2>1 DEF At, Cmd, CommandGoes, Flow, Removing, Creating, Listing, Ops
    <3>2. Reads(k)
      BY <1>1, <1>3, <2>1, ReadsOn DEF At, Cmd, CommandGoes, Ops, Listing
    <3> QED BY <3>1, <3>2
  <2>3. RelyOnGroups(k)
    BY <1>1, <1>3, <2>1 DEF At, Cmd, CommandGoes, RelyOnGroups, Current, Unused, NewName, StoppedRead, Removing, Listing, Ops
  <2>4. RelyOnAccounts(k)
    BY <1>1, <1>3, <2>1 DEF At, Cmd, CommandGoes, RelyOnAccounts, TagRead, LastRead, Provided, Removing, Providing, Creating, Deploying, Ops
  <2>5. Quiet(c, k)
    BY <1>1, <1>3, <2>1, <2>2, <2>3, <2>4 DEF Quiet, CommandGoes, Still, WantedBy, At
  <2> QED BY <2>1, <2>5, QuietKeeps
<1> QED BY <1>2, <1>3 DEF CheckNameAvailability

(* The share is there already, or is to be made. *)
LEMMA GetShareKeeps == ASSUME NEW c \in Clients, GroupsInv, GetShare(c) PROVE GroupsInv'
<1>1. /\ IsJob(job[c]) /\ Flow(job[c]) /\ Reads(job[c]) /\ RelyOnGroups(job[c]) /\ RelyOnAccounts(job[c])
      /\ job[c].cmd \in AciCommand /\ job[c].cmd.op \in Ops
  BY OwnFacts
<1>2. CASE At(c, "share") /\ Finish(c, "exists") /\ UNCHANGED <<groups, accounts>>
  BY <1>2, FinishKeeps, <1>1 DEF NoError, At, Cmd, Ops
<1>3. CASE At(c, "share") /\ Jump(c, "new share") /\ UNCHANGED <<groups, accounts>>
  <2>1. PICK k : CommandGoes(c, k, "new share", job[c].todo, job[c].seen, job[c].out, job[c].error)
    BY <1>1, <1>3, JumpFields
  <2>2. Flow(k) /\ Reads(k)
    <3>1. Flow(k)
      BY <1>1, <1>3, <2>1 DEF At, Cmd, CommandGoes, Flow, Removing, Creating, Listing, Ops
    <3>2. Reads(k)
      BY <1>1, <1>3, <2>1, ReadsOn DEF At, Cmd, CommandGoes, Ops, Listing
    <3> QED BY <3>1, <3>2
  <2>3. RelyOnGroups(k)
    BY <1>1, <1>3, <2>1 DEF At, Cmd, CommandGoes, RelyOnGroups, Current, Unused, NewName, StoppedRead, Removing, Listing, Ops
  <2>4. RelyOnAccounts(k)
    BY <1>1, <1>3, <2>1 DEF At, Cmd, CommandGoes, RelyOnAccounts, TagRead, LastRead, Provided, Removing, Providing, Creating, Deploying, Ops
  <2>5. Quiet(c, k)
    BY <1>1, <1>3, <2>1, <2>2, <2>3, <2>4 DEF Quiet, CommandGoes, Still, WantedBy, At
  <2> QED BY <2>1, <2>5, QuietKeeps
<1> QED BY <1>2, <1>3 DEF GetShare

(* The last share of an account, or not: what the next call relies on. *)
LEMMA ListSharesKeeps == ASSUME NEW c \in Clients, GroupsInv, ListShares(c) PROVE GroupsInv'
<1>1. /\ IsJob(job[c]) /\ Flow(job[c]) /\ Reads(job[c]) /\ RelyOnGroups(job[c]) /\ RelyOnAccounts(job[c])
      /\ job[c].cmd \in AciCommand /\ job[c].cmd.op \in Ops
  BY OwnFacts
<1>2. CASE At(c, "shares") /\ Finish(c, "account") /\ UNCHANGED <<groups, accounts>>
  BY <1>2, FinishKeeps, <1>1 DEF NoError, At, Cmd, Ops
<1>3. CASE At(c, "shares") /\ UNCHANGED <<groups, accounts>>
           /\ \E b \in BOOLEAN : /\ Becomes(c, [job[c] EXCEPT !.pc = "tag", !.blind = b])
                               /\ b = (job[c].blind \/ accounts[Cmd(c).volume[1]].shares # {Cmd(c).volume[2]})
  <2>0. PICK b \in BOOLEAN : /\ Becomes(c, [job[c] EXCEPT !.pc = "tag", !.blind = b])
                            /\ b = (job[c].blind \/ accounts[Cmd(c).volume[1]].shares # {Cmd(c).volume[2]})
    BY <1>3
  <2>1. PICK k : /\ CommandGoes(c, k, "tag", job[c].todo, job[c].seen, job[c].out, job[c].error)
                 /\ ~k.blind => accounts[Cmd(c).volume[1]].shares = {Cmd(c).volume[2]}
    <3> DEFINE q == [job[c] EXCEPT !.pc = "tag"]
               n == [q EXCEPT !.blind = b]
    <3>1. IsJob(q) /\ q.cmd = job[c].cmd /\ q.pc = "tag" /\ q.todo = job[c].todo /\ q.seen = job[c].seen /\ q.out = job[c].out /\ q.error = job[c].error
      BY <1>1 DEF IsJob
    <3>2. Becomes(c, n)
      BY <2>0
    <3> HIDE DEF q
    <3>3. IsJob(n) /\ n.cmd = q.cmd /\ n.pc = q.pc /\ n.todo = q.todo /\ n.seen = q.seen /\ n.out = q.out /\ n.error = q.error /\ n.blind = b
      BY <3>1 DEF IsJob
    <3> HIDE DEF n
    <3>4. CommandGoes(c, n, "tag", job[c].todo, job[c].seen, job[c].out, job[c].error)
      BY <2>0, <3>1, <3>2, <3>3 DEF CommandGoes
    <3> QED BY <2>0, <3>3, <3>4
  <2>2. Flow(k) /\ Reads(k)
    <3>1. Flow(k)
      BY <1>1, <1>3, <2>1 DEF At, Cmd, CommandGoes, Flow, Removing, Creating, Listing, Ops
    <3>2. Reads(k)
      BY <1>1, <1>3, <2>1, ReadsOn DEF At, Cmd, CommandGoes, Ops, Listing
    <3> QED BY <3>1, <3>2
  <2>3. RelyOnGroups(k)
    BY <1>1, <1>3, <2>1 DEF At, Cmd, CommandGoes, RelyOnGroups, Current, Unused, NewName, StoppedRead, Removing, Listing, Ops
  <2>4. RelyOnAccounts(k)
    BY <1>1, <1>3, <2>1 DEF At, Cmd, CommandGoes, RelyOnAccounts, TagRead, LastRead, Provided, Removing, Providing, Creating, Deploying, Ops
  <2>5. Quiet(c, k)
    BY <1>1, <1>3, <2>1, <2>2, <2>3, <2>4 DEF Quiet, CommandGoes, Still, WantedBy, At
  <2> QED BY <2>1, <2>5, QuietKeeps
<1>4. CASE At(c, "shares") /\ Jump(c, "share rm") /\ UNCHANGED <<groups, accounts>> /\ accounts[Cmd(c).volume[1]].shares # {Cmd(c).volume[2]}
  <2>1. PICK k : CommandGoes(c, k, "share rm", job[c].todo, job[c].seen, job[c].out, job[c].error)
    BY <1>1, <1>4, JumpFields
  <2>2. Flow(k) /\ Reads(k)
    <3>1. Flow(k)
      BY <1>1, <1>4, <2>1 DEF At, Cmd, CommandGoes, Flow, Removing, Creating, Listing, Ops
    <3>2. Reads(k)
      BY <1>1, <1>4, <2>1, ReadsOn DEF At, Cmd, CommandGoes, Ops, Listing
    <3> QED BY <3>1, <3>2
  <2>3. RelyOnGroups(k)
    BY <1>1, <1>4, <2>1 DEF At, Cmd, CommandGoes, RelyOnGroups, Current, Unused, NewName, StoppedRead, Removing, Listing, Ops
  <2>4. RelyOnAccounts(k)
    BY <1>1, <1>4, <2>1 DEF At, Cmd, CommandGoes, RelyOnAccounts, TagRead, LastRead, Provided, Removing, Providing, Creating, Deploying, Ops
  <2>5. Quiet(c, k)
    BY <1>1, <1>4, <2>1, <2>2, <2>3, <2>4 DEF Quiet, CommandGoes, Still, WantedBy, At
  <2> QED BY <2>1, <2>5, QuietKeeps
<1>5. At(c, "shares") => Len(Cmd(c).volume) = 2
  BY <1>1 DEF Flow, At, Cmd, Removing
<1>6. ASSUME NEW page, NEW shares, NEW share, page \in FirstPages(shares), shares = {share} PROVE page = {share}
  <2>1. Cardinality(shares) = 1 /\ IsFiniteSet(shares)
    BY <1>6, FS_Singleton
  <2>2. page \subseteq {share} /\ Cardinality(page) = 1
    <3>0. PageSize \in Nat \ {0}
      BY PlansAssumption
    <3>1. ~(1 < PageSize) => PageSize = 1
      BY <3>0
    <3> QED BY <1>6, <2>1, <3>1 DEF FirstPages
  <2>3. page # {}
    BY <2>2, FS_EmptySet
  <2> QED BY <2>2, <2>3
<1>7. CASE At(c, "shares") /\ Cmd(c).volume[1] \in DOMAIN accounts
  <2>1. PICK a, share : a = Cmd(c).volume[1] /\ share = Cmd(c).volume[2]
    OBVIOUS
  <2>2. PICK page \in FirstPages(accounts[a].shares) :
            IF page = {share}
              THEN Becomes(c, [job[c] EXCEPT !.pc = "tag", !.blind = @ \/ page # accounts[a].shares])
              ELSE Jump(c, "share rm")
    BY <1>5, <1>7, <2>1 DEF ListShares, getStorageAccountAndFileshare, LastShare
  <2>3. UNCHANGED <<groups, accounts>>
    BY DEF ListShares
  <2>4. CASE page = {share}
    <3>1. PICK b \in BOOLEAN : b = (job[c].blind \/ page # accounts[a].shares)
      OBVIOUS
    <3>2. Becomes(c, [job[c] EXCEPT !.pc = "tag", !.blind = b])
      BY <2>2, <2>4, <3>1
    <3> QED BY <1>3, <1>7, <2>1, <2>3, <2>4, <3>1, <3>2
  <2>5. CASE page # {share}
    <3>1. accounts[a].shares # {share}
      BY <1>6, <2>2, <2>5
    <3> QED BY <1>4, <1>7, <2>1, <2>2, <2>3, <2>5, <3>1
  <2> QED BY <2>4, <2>5
<1>8. CASE At(c, "shares") /\ Cmd(c).volume[1] \notin DOMAIN accounts
  <2>1. Finish(c, "account") /\ UNCHANGED <<groups, accounts>>
    BY <1>5, <1>8 DEF ListShares, getStorageAccountAndFileshare
  <2> QED BY <1>2, <1>8, <2>1
<1> QED BY <1>7, <1>8 DEF ListShares

(* An account goes with its last share only with the tag. *)
LEMMA GetAccountTagKeeps == ASSUME NEW c \in Clients, GroupsInv, GetAccountTag(c) PROVE GroupsInv'
<1>1. /\ IsJob(job[c]) /\ Flow(job[c]) /\ Reads(job[c]) /\ RelyOnGroups(job[c]) /\ RelyOnAccounts(job[c])
      /\ job[c].cmd \in AciCommand /\ job[c].cmd.op \in Ops
  BY OwnFacts
<1>2. CASE At(c, "tag") /\ Finish(c, "account") /\ UNCHANGED <<groups, accounts>>
  BY <1>2, FinishKeeps, <1>1 DEF NoError, At, Cmd, Ops
<1>3. CASE At(c, "tag") /\ Jump(c, "account rm") /\ UNCHANGED <<groups, accounts>> /\ accounts[Cmd(c).volume[1]].tagged
  <2>1. PICK k : CommandGoes(c, k, "account rm", job[c].todo, job[c].seen, job[c].out, job[c].error)
    BY <1>1, <1>3, JumpFields
  <2>2. Flow(k) /\ Reads(k)
    <3>1. Flow(k)
      BY <1>1, <1>3, <2>1 DEF At, Cmd, CommandGoes, Flow, Removing, Creating, Listing, Ops
    <3>2. Reads(k)
      BY <1>1, <1>3, <2>1, ReadsOn DEF At, Cmd, CommandGoes, Ops, Listing
    <3> QED BY <3>1, <3>2
  <2>3. RelyOnGroups(k)
    BY <1>1, <1>3, <2>1 DEF At, Cmd, CommandGoes, RelyOnGroups, Current, Unused, NewName, StoppedRead, Removing, Listing, Ops
  <2>4. RelyOnAccounts(k)
    BY <1>1, <1>3, <2>1 DEF At, Cmd, CommandGoes, RelyOnAccounts, TagRead, LastRead, Provided, Removing, Providing, Creating, Deploying, Ops
  <2>5. Quiet(c, k)
    BY <1>1, <1>3, <2>1, <2>2, <2>3, <2>4 DEF Quiet, CommandGoes, Still, WantedBy, At
  <2> QED BY <2>1, <2>5, QuietKeeps
<1>4. CASE At(c, "tag") /\ Jump(c, "share rm") /\ UNCHANGED <<groups, accounts>> /\ ~accounts[Cmd(c).volume[1]].tagged
  <2>1. PICK k : CommandGoes(c, k, "share rm", job[c].todo, job[c].seen, job[c].out, job[c].error)
    BY <1>1, <1>4, JumpFields
  <2>2. Flow(k) /\ Reads(k)
    <3>1. Flow(k)
      BY <1>1, <1>4, <2>1 DEF At, Cmd, CommandGoes, Flow, Removing, Creating, Listing, Ops
    <3>2. Reads(k)
      BY <1>1, <1>4, <2>1, ReadsOn DEF At, Cmd, CommandGoes, Ops, Listing
    <3> QED BY <3>1, <3>2
  <2>3. RelyOnGroups(k)
    BY <1>1, <1>4, <2>1 DEF At, Cmd, CommandGoes, RelyOnGroups, Current, Unused, NewName, StoppedRead, Removing, Listing, Ops
  <2>4. RelyOnAccounts(k)
    BY <1>1, <1>4, <2>1 DEF At, Cmd, CommandGoes, RelyOnAccounts, TagRead, LastRead, Provided, Removing, Providing, Creating, Deploying, Ops
  <2>5. Quiet(c, k)
    BY <1>1, <1>4, <2>1, <2>2, <2>3, <2>4 DEF Quiet, CommandGoes, Still, WantedBy, At
  <2> QED BY <2>1, <2>5, QuietKeeps
<1> QED BY <1>2, <1>3, <1>4 DEF GetAccountTag

(* A run with a name of several parts ends. *)
LEMMA RunKeeps == ASSUME NEW c \in Clients, GroupsInv, Run(c) PROVE GroupsInv'
<1>1. /\ IsJob(job[c]) /\ Flow(job[c]) /\ Reads(job[c]) /\ RelyOnGroups(job[c]) /\ RelyOnAccounts(job[c])
      /\ job[c].cmd \in AciCommand /\ job[c].cmd.op \in Ops
  BY OwnFacts
<1>2. CASE At(c, "run") /\ Finish(c, "name") /\ UNCHANGED <<groups, accounts>>
  BY <1>2, FinishKeeps, <1>1 DEF NoError, At, Cmd, Ops
<1>3. CASE At(c, "run") /\ Jump(c, "define") /\ UNCHANGED <<groups, accounts>> /\ Len(Cmd(c).id) = 1 /\ Cmd(c).op = "run"
  <2>1. PICK k : CommandGoes(c, k, "define", job[c].todo, job[c].seen, job[c].out, job[c].error)
    BY <1>1, <1>3, JumpFields
  <2>2. Flow(k) /\ Reads(k)
    <3>1. Flow(k)
      BY <1>1, <1>3, <2>1 DEF At, Cmd, CommandGoes, Flow, Removing, Creating, Listing, Ops
    <3>2. Reads(k)
      BY <1>1, <1>3, <2>1, ReadsOn DEF At, Cmd, CommandGoes, Ops, Listing
    <3> QED BY <3>1, <3>2
  <2>3. RelyOnGroups(k)
    BY <1>1, <1>3, <2>1 DEF At, Cmd, CommandGoes, RelyOnGroups, Current, Unused, NewName, StoppedRead, Removing, Listing, Ops
  <2>4. RelyOnAccounts(k)
    BY <1>1, <1>3, <2>1 DEF At, Cmd, CommandGoes, RelyOnAccounts, TagRead, LastRead, Provided, Removing, Providing, Creating, Deploying, Ops
  <2>5. Quiet(c, k)
    BY <1>1, <1>3, <2>1, <2>2, <2>3, <2>4 DEF Quiet, CommandGoes, Still, WantedBy, At
  <2> QED BY <2>1, <2>5, QuietKeeps
<1>4. Len(Cmd(c).id) > 1 \/ Len(Cmd(c).id) = 1
  <2>1. Cmd(c).id \in Seq(STRING) /\ Cmd(c).id # <<>>
    BY <1>1 DEF Cmd, AciCommand, Name
  <2>2. PICK n \in Nat \ {0} : n = Len(Cmd(c).id)
    BY <2>1, EmptySeq
  <2>3. n > 1 \/ n = 1
    OBVIOUS
  <2> QED BY <2>2, <2>3
<1>5. At(c, "run") => Cmd(c).op = "run"
  BY <1>1 DEF Flow, At, Cmd, Ops
<1> QED BY <1>2, <1>3, <1>4, <1>5 DEF Run

(* The keys of the accounts are there, or the command ends. *)
LEMMA DefineKeeps == ASSUME NEW c \in Clients, GroupsInv, Define(c) PROVE GroupsInv'
<1>1. /\ IsJob(job[c]) /\ Flow(job[c]) /\ Reads(job[c]) /\ RelyOnGroups(job[c]) /\ RelyOnAccounts(job[c])
      /\ job[c].cmd \in AciCommand /\ job[c].cmd.op \in Ops
  BY OwnFacts
<1>2. CASE At(c, "define") /\ Finish(c, "key") /\ UNCHANGED <<groups, accounts>>
  BY <1>2, FinishKeeps, <1>1 DEF NoError, At, Cmd, Ops
<1>3. CASE At(c, "define") /\ Jump(c, "new") /\ UNCHANGED <<groups, accounts>> /\ Cmd(c).op = "run"
  <2>1. PICK k : CommandGoes(c, k, "new", job[c].todo, job[c].seen, job[c].out, job[c].error)
    BY <1>1, <1>3, JumpFields
  <2>2. Flow(k) /\ Reads(k)
    <3>1. Flow(k)
      BY <1>1, <1>3, <2>1 DEF At, Cmd, CommandGoes, Flow, Removing, Creating, Listing, Ops
    <3>2. Reads(k)
      BY <1>1, <1>3, <2>1, ReadsOn DEF At, Cmd, CommandGoes, Ops, Listing
    <3> QED BY <3>1, <3>2
  <2>3. RelyOnGroups(k)
    BY <1>1, <1>3, <2>1 DEF At, Cmd, CommandGoes, RelyOnGroups, Current, Unused, NewName, StoppedRead, Removing, Listing, Ops
  <2>4. RelyOnAccounts(k)
    BY <1>1, <1>3, <2>1 DEF At, Cmd, CommandGoes, RelyOnAccounts, TagRead, LastRead, Provided, Removing, Providing, Creating, Deploying, Ops
  <2>5. Quiet(c, k)
    BY <1>1, <1>3, <2>1, <2>2, <2>3, <2>4 DEF Quiet, CommandGoes, Still, WantedBy, At
  <2> QED BY <2>1, <2>5, QuietKeeps
<1>4. CASE At(c, "define") /\ Jump(c, "write") /\ UNCHANGED <<groups, accounts>> /\ Cmd(c).op # "run"
  <2>1. PICK k : CommandGoes(c, k, "write", job[c].todo, job[c].seen, job[c].out, job[c].error)
    BY <1>1, <1>4, JumpFields
  <2>2. Flow(k) /\ Reads(k)
    <3>1. Flow(k)
      BY <1>1, <1>4, <2>1 DEF At, Cmd, CommandGoes, Flow, Removing, Creating, Listing, Ops
    <3>2. Reads(k)
      BY <1>1, <1>4, <2>1, ReadsOn DEF At, Cmd, CommandGoes, Ops, Listing
    <3> QED BY <3>1, <3>2
  <2>3. RelyOnGroups(k)
    BY <1>1, <1>4, <2>1 DEF At, Cmd, CommandGoes, RelyOnGroups, Current, Unused, NewName, StoppedRead, Removing, Listing, Ops
  <2>4. RelyOnAccounts(k)
    BY <1>1, <1>4, <2>1 DEF At, Cmd, CommandGoes, RelyOnAccounts, TagRead, LastRead, Provided, Removing, Providing, Creating, Deploying, Ops
  <2>5. Quiet(c, k)
    BY <1>1, <1>4, <2>1, <2>2, <2>3, <2>4 DEF Quiet, CommandGoes, Still, WantedBy, At
  <2> QED BY <2>1, <2>5, QuietKeeps
<1> QED BY <1>2, <1>3, <1>4 DEF Define

(* A run finds its name free, or ends. *)
LEMMA createACIContainersKeeps == ASSUME NEW c \in Clients, GroupsInv, createACIContainers(c) PROVE GroupsInv'
<1>1. /\ IsJob(job[c]) /\ Flow(job[c]) /\ Reads(job[c]) /\ RelyOnGroups(job[c]) /\ RelyOnAccounts(job[c])
      /\ job[c].cmd \in AciCommand /\ job[c].cmd.op \in Ops
  BY OwnFacts
<1>2. CASE At(c, "new") /\ Finish(c, "exists") /\ UNCHANGED <<groups, accounts>>
  BY <1>2, FinishKeeps, <1>1 DEF NoError, At, Cmd, Ops
<1>3. CASE At(c, "new") /\ Jump(c, "write") /\ UNCHANGED <<groups, accounts>> /\ Cmd(c).id \notin DOMAIN groups /\ Cmd(c).op = "run"
  <2>1. PICK k : CommandGoes(c, k, "write", job[c].todo, job[c].seen, job[c].out, job[c].error)
    BY <1>1, <1>3, JumpFields
  <2>2. Flow(k) /\ Reads(k)
    <3>1. Flow(k)
      BY <1>1, <1>3, <2>1 DEF At, Cmd, CommandGoes, Flow, Removing, Creating, Listing, Ops
    <3>2. Reads(k)
      BY <1>1, <1>3, <2>1, ReadsOn DEF At, Cmd, CommandGoes, Ops, Listing
    <3> QED BY <3>1, <3>2
  <2>3. RelyOnGroups(k)
    BY <1>1, <1>3, <2>1 DEF At, Cmd, CommandGoes, RelyOnGroups, Current, Unused, NewName, StoppedRead, Removing, Listing, Ops
  <2>4. RelyOnAccounts(k)
    BY <1>1, <1>3, <2>1 DEF At, Cmd, CommandGoes, RelyOnAccounts, TagRead, LastRead, Provided, Removing, Providing, Creating, Deploying, Ops
  <2>5. Quiet(c, k)
    BY <1>1, <1>3, <2>1, <2>2, <2>3, <2>4 DEF Quiet, CommandGoes, Still, WantedBy, At
  <2> QED BY <2>1, <2>5, QuietKeeps
<1>4. At(c, "new") => Cmd(c).op = "run"
  BY <1>1 DEF Flow, At, Cmd
<1> QED BY <1>2, <1>3, <1>4 DEF createACIContainers

(* The group came up, or is gone. *)
LEMMA WaitForCompletionKeeps == ASSUME NEW c \in Clients, GroupsInv, WaitForCompletion(c) PROVE GroupsInv'
<1>1. /\ IsJob(job[c]) /\ Flow(job[c]) /\ Reads(job[c]) /\ RelyOnGroups(job[c]) /\ RelyOnAccounts(job[c])
      /\ job[c].cmd \in AciCommand /\ job[c].cmd.op \in Ops
  BY OwnFacts
<1>2. CASE At(c, "wait") /\ Finish(c, NoError) /\ UNCHANGED <<groups, accounts>>
  BY <1>2, FinishKeeps, <1>1 DEF NoError, At, Cmd, Ops
<1>3. CASE At(c, "wait") /\ Finish(c, "gone") /\ UNCHANGED <<groups, accounts>>
  BY <1>3, FinishKeeps, <1>1 DEF NoError, At, Cmd, Ops
<1> QED BY <1>2, <1>3 DEF WaitForCompletion

(* start, stop, kill and rm of a whole group. *)
LEMMA AddressedKeeps == ASSUME NEW c \in Clients, GroupsInv, Addressed(c) PROVE GroupsInv'
<1>1. /\ IsJob(job[c]) /\ Flow(job[c]) /\ Reads(job[c]) /\ RelyOnGroups(job[c]) /\ RelyOnAccounts(job[c])
      /\ job[c].cmd \in AciCommand /\ job[c].cmd.op \in Ops
  BY OwnFacts
<1>2. CASE At(c, Cmd(c).op) /\ Finish(c, "timeout") /\ UNCHANGED <<groups, accounts>>
  BY <1>2, FinishKeeps, <1>1 DEF NoError, At, Cmd, Ops
<1>3. CASE At(c, Cmd(c).op) /\ Finish(c, "part of an application") /\ UNCHANGED <<groups, accounts>>
  BY <1>3, FinishKeeps, <1>1 DEF NoError, At, Cmd, Ops
<1>4. CASE At(c, Cmd(c).op) /\ Cmd(c).op = "start" /\ Jump(c, "starting") /\ UNCHANGED <<groups, accounts>>
  <2>1. PICK k : CommandGoes(c, k, "starting", job[c].todo, job[c].seen, job[c].out, job[c].error)
    BY <1>1, <1>4, JumpFields
  <2>2. Flow(k) /\ Reads(k)
    <3>1. Flow(k)
      BY <1>1, <1>4, <2>1 DEF At, Cmd, CommandGoes, Flow, Removing, Creating, Listing, Ops
    <3>2. Reads(k)
      BY <1>1, <1>4, <2>1, ReadsOn DEF At, Cmd, CommandGoes, Ops, Listing
    <3> QED BY <3>1, <3>2
  <2>3. RelyOnGroups(k)
    BY <1>1, <1>4, <2>1 DEF At, Cmd, CommandGoes, RelyOnGroups, Current, Unused, NewName, StoppedRead, Removing, Listing, Ops
  <2>4. RelyOnAccounts(k)
    BY <1>1, <1>4, <2>1 DEF At, Cmd, CommandGoes, RelyOnAccounts, TagRead, LastRead, Provided, Removing, Providing, Creating, Deploying, Ops
  <2>5. Quiet(c, k)
    BY <1>1, <1>4, <2>1, <2>2, <2>3, <2>4 DEF Quiet, CommandGoes, Still, WantedBy, At
  <2> QED BY <2>1, <2>5, QuietKeeps
<1>5. CASE At(c, Cmd(c).op) /\ Cmd(c).op \in {"stop", "kill"} /\ Jump(c, "stopping") /\ UNCHANGED <<groups, accounts>>
  <2>1. PICK k : CommandGoes(c, k, "stopping", job[c].todo, job[c].seen, job[c].out, job[c].error)
    BY <1>1, <1>5, JumpFields
  <2>2. Flow(k) /\ Reads(k)
    <3>1. Flow(k)
      BY <1>1, <1>5, <2>1 DEF At, Cmd, CommandGoes, Flow, Removing, Creating, Listing, Ops
    <3>2. Reads(k)
      BY <1>1, <1>5, <2>1, ReadsOn DEF At, Cmd, CommandGoes, Ops, Listing
    <3> QED BY <3>1, <3>2
  <2>3. RelyOnGroups(k)
    BY <1>1, <1>5, <2>1 DEF At, Cmd, CommandGoes, RelyOnGroups, Current, Unused, NewName, StoppedRead, Removing, Listing, Ops
  <2>4. RelyOnAccounts(k)
    BY <1>1, <1>5, <2>1 DEF At, Cmd, CommandGoes, RelyOnAccounts, TagRead, LastRead, Provided, Removing, Providing, Creating, Deploying, Ops
  <2>5. Quiet(c, k)
    BY <1>1, <1>5, <2>1, <2>2, <2>3, <2>4 DEF Quiet, CommandGoes, Still, WantedBy, At
  <2> QED BY <2>1, <2>5, QuietKeeps
<1>6. CASE At(c, Cmd(c).op) /\ Cmd(c).op = "rm" /\ Cmd(c).force /\ Jump(c, "delete") /\ UNCHANGED <<groups, accounts>>
  <2>1. PICK k : CommandGoes(c, k, "delete", job[c].todo, job[c].seen, job[c].out, job[c].error)
    BY <1>1, <1>6, JumpFields
  <2>2. Flow(k) /\ Reads(k)
    <3>1. Flow(k)
      BY <1>1, <1>6, <2>1 DEF At, Cmd, CommandGoes, Flow, Removing, Creating, Listing, Ops
    <3>2. Reads(k)
      BY <1>1, <1>6, <2>1, ReadsOn DEF At, Cmd, CommandGoes, Ops, Listing
    <3> QED BY <3>1, <3>2
  <2>3. RelyOnGroups(k)
    BY <1>1, <1>6, <2>1 DEF At, Cmd, CommandGoes, RelyOnGroups, Current, Unused, NewName, StoppedRead, Removing, Listing, Ops
  <2>4. RelyOnAccounts(k)
    BY <1>1, <1>6, <2>1 DEF At, Cmd, CommandGoes, RelyOnAccounts, TagRead, LastRead, Provided, Removing, Providing, Creating, Deploying, Ops
  <2>5. Quiet(c, k)
    BY <1>1, <1>6, <2>1, <2>2, <2>3, <2>4 DEF Quiet, CommandGoes, Still, WantedBy, At
  <2> QED BY <2>1, <2>5, QuietKeeps
<1>7. CASE At(c, Cmd(c).op) /\ Cmd(c).op = "rm" /\ Jump(c, "status") /\ UNCHANGED <<groups, accounts>>
  <2>1. PICK k : CommandGoes(c, k, "status", job[c].todo, job[c].seen, job[c].out, job[c].error)
    BY <1>1, <1>7, JumpFields
  <2>2. Flow(k) /\ Reads(k)
    <3>1. Flow(k)
      BY <1>1, <1>7, <2>1 DEF At, Cmd, CommandGoes, Flow, Removing, Creating, Listing, Ops
    <3>2. Reads(k)
      BY <1>1, <1>7, <2>1, ReadsOn DEF At, Cmd, CommandGoes, Ops, Listing
    <3> QED BY <3>1, <3>2
  <2>3. RelyOnGroups(k)
    BY <1>1, <1>7, <2>1 DEF At, Cmd, CommandGoes, RelyOnGroups, Current, Unused, NewName, StoppedRead, Removing, Listing, Ops
  <2>4. RelyOnAccounts(k)
    BY <1>1, <1>7, <2>1 DEF At, Cmd, CommandGoes, RelyOnAccounts, TagRead, LastRead, Provided, Removing, Providing, Creating, Deploying, Ops
  <2>5. Quiet(c, k)
    BY <1>1, <1>7, <2>1, <2>2, <2>3, <2>4 DEF Quiet, CommandGoes, Still, WantedBy, At
  <2> QED BY <2>1, <2>5, QuietKeeps
<1> QED BY <1>2, <1>3, <1>4, <1>5, <1>6, <1>7 DEF Addressed

(* An rm that is not forced found the group stopped, or ends. *)
LEMMA CheckStoppedKeeps == ASSUME NEW c \in Clients, GroupsInv, CheckStopped(c) PROVE GroupsInv'
<1>1. /\ IsJob(job[c]) /\ Flow(job[c]) /\ Reads(job[c]) /\ RelyOnGroups(job[c]) /\ RelyOnAccounts(job[c])
      /\ job[c].cmd \in AciCommand /\ job[c].cmd.op \in Ops
  BY OwnFacts
<1>2. CASE At(c, "status") /\ Finish(c, "not found") /\ UNCHANGED <<groups, accounts>>
  BY <1>2, FinishKeeps, <1>1 DEF NoError, At, Cmd, Ops
<1>3. CASE At(c, "status") /\ Finish(c, "forbidden") /\ UNCHANGED <<groups, accounts>>
  BY <1>3, FinishKeeps, <1>1 DEF NoError, At, Cmd, Ops
<1>4. CASE At(c, "status") /\ Jump(c, "delete") /\ UNCHANGED <<groups, accounts>> /\ \A i \in DOMAIN groups[Cmd(c).id].containers : groups[Cmd(c).id].containers[i].state # Running
  <2>1. PICK k : CommandGoes(c, k, "delete", job[c].todo, job[c].seen, job[c].out, job[c].error)
    BY <1>1, <1>4, JumpFields
  <2>2. Flow(k) /\ Reads(k)
    <3>1. Flow(k)
      BY <1>1, <1>4, <2>1 DEF At, Cmd, CommandGoes, Flow, Removing, Creating, Listing, Ops
    <3>2. Reads(k)
      BY <1>1, <1>4, <2>1, ReadsOn DEF At, Cmd, CommandGoes, Ops, Listing
    <3> QED BY <3>1, <3>2
  <2>3. RelyOnGroups(k)
    BY <1>1, <1>4, <2>1 DEF At, Cmd, CommandGoes, RelyOnGroups, Current, Unused, NewName, StoppedRead, Removing, Listing, Ops
  <2>4. RelyOnAccounts(k)
    BY <1>1, <1>4, <2>1 DEF At, Cmd, CommandGoes, RelyOnAccounts, TagRead, LastRead, Provided, Removing, Providing, Creating, Deploying, Ops
  <2>5. Quiet(c, k)
    BY <1>1, <1>4, <2>1, <2>2, <2>3, <2>4 DEF Quiet, CommandGoes, Still, WantedBy, At
  <2> QED BY <2>1, <2>5, QuietKeeps
<1> QED BY <1>2, <1>3, <1>4 DEF CheckStopped, Runs, GetStatus, Running, NoView

(* down finds the group, or ends. *)
LEMMA warnKeepVolumeOnDownKeeps == ASSUME NEW c \in Clients, GroupsInv, warnKeepVolumeOnDown(c) PROVE GroupsInv'
<1>1. /\ IsJob(job[c]) /\ Flow(job[c]) /\ Reads(job[c]) /\ RelyOnGroups(job[c]) /\ RelyOnAccounts(job[c])
      /\ job[c].cmd \in AciCommand /\ job[c].cmd.op \in Ops
  BY OwnFacts
<1>2. CASE At(c, "down") /\ Finish(c, "not found") /\ UNCHANGED <<groups, accounts>>
  BY <1>2, FinishKeeps, <1>1 DEF NoError, At, Cmd, Ops
<1>3. CASE At(c, "down") /\ Jump(c, "delete") /\ UNCHANGED <<groups, accounts>> /\ Cmd(c).op = "down"
  <2>1. PICK k : CommandGoes(c, k, "delete", job[c].todo, job[c].seen, job[c].out, job[c].error)
    BY <1>1, <1>3, JumpFields
  <2>2. Flow(k) /\ Reads(k)
    <3>1. Flow(k)
      BY <1>1, <1>3, <2>1 DEF At, Cmd, CommandGoes, Flow, Removing, Creating, Listing, Ops
    <3>2. Reads(k)
      BY <1>1, <1>3, <2>1, ReadsOn DEF At, Cmd, CommandGoes, Ops, Listing
    <3> QED BY <3>1, <3>2
  <2>3. RelyOnGroups(k)
    BY <1>1, <1>3, <2>1 DEF At, Cmd, CommandGoes, RelyOnGroups, Current, Unused, NewName, StoppedRead, Removing, Listing, Ops
  <2>4. RelyOnAccounts(k)
    BY <1>1, <1>3, <2>1 DEF At, Cmd, CommandGoes, RelyOnAccounts, TagRead, LastRead, Provided, Removing, Providing, Creating, Deploying, Ops
  <2>5. Quiet(c, k)
    BY <1>1, <1>3, <2>1, <2>2, <2>3, <2>4 DEF Quiet, CommandGoes, Still, WantedBy, At
  <2> QED BY <2>1, <2>5, QuietKeeps
<1>4. At(c, "down") => Cmd(c).op = "down"
  BY <1>1 DEF Flow, At, Cmd, Ops
<1> QED BY <1>2, <1>3, <1>4 DEF warnKeepVolumeOnDown

(* No group that was read mounts the volume: no group does. *)
LEMMA checkVolumeUsageKeeps == ASSUME NEW c \in Clients, GroupsInv, checkVolumeUsage(c) PROVE GroupsInv'
<1>1. /\ IsJob(job[c]) /\ Flow(job[c]) /\ Reads(job[c]) /\ RelyOnGroups(job[c]) /\ RelyOnAccounts(job[c])
      /\ job[c].cmd \in AciCommand /\ job[c].cmd.op \in Ops
  BY OwnFacts
<1>2. CASE At(c, "listed") /\ Finish(c, "used") /\ UNCHANGED <<groups, accounts>>
  BY <1>2, FinishKeeps, <1>1 DEF NoError, At, Cmd, Ops
<1>3. CASE At(c, "listed") /\ Finish(c, "id") /\ UNCHANGED <<groups, accounts>>
  BY <1>3, FinishKeeps, <1>1 DEF NoError, At, Cmd, Ops
<1>4. CASE At(c, "listed") /\ Cmd(c).op = "volume rm" /\ Len(Cmd(c).volume) = 2 /\ Jump(c, "shares") /\ UNCHANGED <<groups, accounts>>
           /\ (~job[c].blind => \A n \in DOMAIN groups : Cmd(c).volume \notin groups[n].volumes)
  <2>1. PICK k : CommandGoes(c, k, "shares", job[c].todo, job[c].seen, job[c].out, job[c].error)
    BY <1>1, <1>4, JumpFields
  <2>2. Flow(k) /\ Reads(k)
    <3>1. Flow(k)
      BY <1>1, <1>4, <2>1 DEF At, Cmd, CommandGoes, Flow, Removing, Creating, Listing, Ops
    <3>2. Reads(k)
      BY <1>1, <1>4, <2>1, ReadsOn DEF At, Cmd, CommandGoes, Ops, Listing
    <3> QED BY <3>1, <3>2
  <2>3. RelyOnGroups(k)
    BY <1>1, <1>4, <2>1 DEF At, Cmd, CommandGoes, RelyOnGroups, Current, Unused, NewName, StoppedRead, Removing, Listing, Ops
  <2>4. RelyOnAccounts(k)
    BY <1>1, <1>4, <2>1 DEF At, Cmd, CommandGoes, RelyOnAccounts, TagRead, LastRead, Provided, Removing, Providing, Creating, Deploying, Ops
  <2>5. Quiet(c, k)
    BY <1>1, <1>4, <2>1, <2>2, <2>3, <2>4 DEF Quiet, CommandGoes, Still, WantedBy, At
  <2> QED BY <2>1, <2>5, QuietKeeps
<1>5. ASSUME At(c, "listed"), Cmd(c).op = "volume rm", ~job[c].blind, NEW n \in DOMAIN groups,
            ~\E i \in DOMAIN job[c].seen : hasVolume(job[c].seen[i][2].volumes, Cmd(c).volume)
      PROVE  Cmd(c).volume \notin groups[n].volumes
  <2>0. Current(job[c], groups) /\ job[c].todo = <<>>
    BY <1>1, <1>5 DEF RelyOnGroups, Reads, Listing, At, Cmd
  <2>1. Current(job[c], groups) /\ DOMAIN job[c].todo = {}
    BY <2>0
  <2>2. PICK i \in DOMAIN job[c].seen : job[c].seen[i][1] = n
    BY <1>5, <2>1 DEF Current, Listing, At, Cmd
  <2>3. groups[n] = job[c].seen[i][2]
    BY <1>5, <2>1, <2>2 DEF Current, Listing, At, Cmd
  <2> QED BY <1>5, <2>3 DEF hasVolume
<1> QED BY <1>2, <1>3, <1>4, <1>5 DEF checkVolumeUsage, getStorageAccountAndFileshare

(* An up begins with its volumes, if it has any. *)
LEMMA UpKeeps == ASSUME NEW c \in Clients, GroupsInv, Up(c) PROVE GroupsInv'
<1>1. /\ IsJob(job[c]) /\ Flow(job[c]) /\ Reads(job[c]) /\ RelyOnGroups(job[c]) /\ RelyOnAccounts(job[c])
      /\ job[c].cmd \in AciCommand /\ job[c].cmd.op \in Ops
  BY OwnFacts
<1>3. CASE At(c, "up") /\ Cmd(c).op = "up" /\ Cmd(c).volumes = <<>> /\ Jump(c, "define") /\ UNCHANGED <<groups, accounts>>
  <2>1. PICK k : CommandGoes(c, k, "define", job[c].todo, job[c].seen, job[c].out, job[c].error)
    BY <1>1, <1>3, JumpFields
  <2>2. Flow(k) /\ Reads(k)
    <3>1. Flow(k)
      BY <1>1, <1>3, <2>1 DEF At, Cmd, CommandGoes, Flow, Removing, Creating, Listing, Ops
    <3>2. Reads(k)
      BY <1>1, <1>3, <2>1, ReadsOn DEF At, Cmd, CommandGoes, Ops, Listing
    <3> QED BY <3>1, <3>2
  <2>3. RelyOnGroups(k)
    BY <1>1, <1>3, <2>1 DEF At, Cmd, CommandGoes, RelyOnGroups, Current, Unused, NewName, StoppedRead, Removing, Listing, Ops
  <2>4. RelyOnAccounts(k)
    BY <1>1, <1>3, <2>1 DEF At, Cmd, CommandGoes, RelyOnAccounts, TagRead, LastRead, Provided, Removing, Providing, Creating, Deploying, Ops, Range
  <2>5. Quiet(c, k)
    BY <1>1, <1>3, <2>1, <2>2, <2>3, <2>4 DEF Quiet, CommandGoes, Still, WantedBy, At
  <2> QED BY <2>1, <2>5, QuietKeeps
<1>4. CASE At(c, "up") /\ Cmd(c).op = "up" /\ Cmd(c).volumes # <<>> /\ Becomes(c, [job[c] EXCEPT !.todo = Cmd(c).volumes, !.pc = "volume"]) /\ UNCHANGED <<groups, accounts>>
  <2> DEFINE q1 == [job[c] EXCEPT !.todo = Cmd(c).volumes]
             q2 == [q1 EXCEPT !.pc = "volume"]
  <2>1. Becomes(c, q2)
    BY <1>4
  <2>2. IsJob(q1) /\ q1.cmd = job[c].cmd /\ q1.blind = job[c].blind /\ q1.pc = job[c].pc /\ q1.todo = Cmd(c).volumes /\ q1.seen = job[c].seen /\ q1.out = job[c].out /\ q1.error = job[c].error
    BY <1>1 DEF IsJob
  <2> HIDE DEF q1
  <2>3. IsJob(q2) /\ q2.cmd = job[c].cmd /\ q2.blind = job[c].blind /\ q2.pc = "volume" /\ q2.todo = Cmd(c).volumes /\ q2.seen = job[c].seen /\ q2.out = job[c].out /\ q2.error = job[c].error
    BY <1>1, <2>2 DEF IsJob
  <2> HIDE DEF q2
  <2>4. PICK k : CommandGoes(c, k, "volume", Cmd(c).volumes, job[c].seen, job[c].out, job[c].error)
    BY <2>1, <2>3 DEF CommandGoes
  <2>v. Cmd(c).volumes \in Seq(Volume)
    BY <1>1 DEF Cmd, AciCommand
  <2>f. Flow(k)
    BY <1>1, <1>4, <2>4 DEF At, Cmd, CommandGoes, Flow, Removing, Creating, Listing, Ops
  <2>r. Reads(k)
    BY <1>1, <1>4, <2>4 DEF At, Cmd, CommandGoes, Reads, Listing, Ops
  <2>g. RelyOnGroups(k)
    BY <1>1, <1>4, <2>4 DEF At, Cmd, CommandGoes, RelyOnGroups, Current, Unused, NewName, StoppedRead, Removing, Listing, Ops
  <2>a. RelyOnAccounts(k)
    BY <1>1, <1>4, <2>4, <2>v DEF At, Cmd, CommandGoes, RelyOnAccounts, TagRead, LastRead, Provided, Removing, Providing, Creating, Deploying, Ops
  <2>q. Quiet(c, k)
    BY <1>1, <1>4, <2>4, <2>f, <2>r, <2>g, <2>a DEF Quiet, CommandGoes, Still, WantedBy, At, Cmd
  <2> QED BY <2>4, <2>q, QuietKeeps
<1>5. At(c, "up") => Cmd(c).op = "up"
  BY <1>1 DEF Flow, At, Cmd, Ops
<1> QED BY <1>3, <1>4, <1>5 DEF Up

(* The next volume of an up is one of the driver of Azure, or the command ends. *)
LEMMA CheckDriverKeeps == ASSUME NEW c \in Clients, GroupsInv, CheckDriver(c) PROVE GroupsInv'
<1>1. /\ IsJob(job[c]) /\ Flow(job[c]) /\ Reads(job[c]) /\ RelyOnGroups(job[c]) /\ RelyOnAccounts(job[c])
      /\ job[c].cmd \in AciCommand /\ job[c].cmd.op \in Ops
  BY OwnFacts
<1>2. CASE At(c, "volume") /\ Finish(c, "driver") /\ UNCHANGED <<groups, accounts>>
  BY <1>2, FinishKeeps, <1>1 DEF NoError, At, Cmd, Ops
<1>3. CASE At(c, "volume") /\ Jump(c, "inspect") /\ UNCHANGED <<groups, accounts>>
  <2>1. PICK k : CommandGoes(c, k, "inspect", job[c].todo, job[c].seen, job[c].out, job[c].error)
    BY <1>1, <1>3, JumpFields
  <2>2. Flow(k) /\ Reads(k)
    <3>1. Flow(k)
      BY <1>1, <1>3, <2>1 DEF At, Cmd, CommandGoes, Flow, Removing, Creating, Listing, Ops
    <3>2. Reads(k)
      BY <1>1, <1>3, <2>1, ReadsOn DEF At, Cmd, CommandGoes, Ops, Listing
    <3> QED BY <3>1, <3>2
  <2>3. RelyOnGroups(k)
    BY <1>1, <1>3, <2>1 DEF At, Cmd, CommandGoes, RelyOnGroups, Current, Unused, NewName, StoppedRead, Removing, Listing, Ops
  <2>4. RelyOnAccounts(k)
    BY <1>1, <1>3, <2>1 DEF At, Cmd, CommandGoes, RelyOnAccounts, TagRead, LastRead, Provided, Removing, Providing, Creating, Deploying, Ops
  <2>5. Quiet(c, k)
    BY <1>1, <1>3, <2>1, <2>2, <2>3, <2>4 DEF Quiet, CommandGoes, Still, WantedBy, At
  <2> QED BY <2>1, <2>5, QuietKeeps
<1> QED BY <1>2, <1>3 DEF CheckDriver

(* The names of a finite set, each of them once. *)
LEMMA NamesOnce ==
    ASSUME NEW S, IsFiniteSet(S)
    PROVE  /\ SetToSeq(S) \in Seq(S) /\ IsInjective(SetToSeq(S))
           /\ \A n \in S : \E i \in DOMAIN SetToSeq(S) : SetToSeq(S)[i] = n
<1> DEFINE q == SetToSeq(S)
           m == Cardinality(S)
<1>1. m \in Nat /\ ExistsBijection(1..m, S)
  BY FS_CardinalityType
<1>2. \E f \in [1..m -> S] : IsInjective(f)
  BY <1>1, Zenon DEF ExistsBijection, Bijection, Injection
<1>3. q \in [1..m -> S] /\ IsInjective(q)
  BY <1>2, Zenon DEF SetToSeq
<1> HIDE DEF q, m
<1>4. q \in Injection(1..m, S)
  BY <1>3, Zenon DEF Injection
<1>5. Cardinality(1..m) = m
  <2>1. 1 \in Int /\ m \in Int /\ m >= 0
    BY <1>1
  <2>2. Cardinality(1..m) = IF 1 > m THEN 0 ELSE m - 1 + 1
    BY <2>1, FS_Interval
  <2> QED BY <2>1, <2>2
<1>6. q \in Surjection(1..m, S)
  <2>1. Cardinality(1..m) = Cardinality(S)
    BY <1>5 DEF m
  <2> QED BY <1>4, <2>1, FS_Injection
<1>7. \A n \in S : \E i \in 1..m : q[i] = n
  BY <1>6, Zenon DEF Surjection
<1>8. q \in Seq(S) /\ DOMAIN q = 1..m
  BY <1>1, <1>3
<1> QED BY <1>3, <1>7, <1>8 DEF q

(* The next group is read: it goes from the ones to read to the ones read. *)
Advance(todo, seen, e, rest, more) ==
    /\ rest \in Seq(Name) /\ more \in Seq(Name \X ContainerGroup) /\ Once(more, rest)
    /\ (rest = <<>>) <=> (Len(todo) = 1)
    /\ \A i \in DOMAIN more : more[i] = e \/ (i \in DOMAIN seen /\ more[i] = seen[i])
    /\ \A i \in DOMAIN todo : (\E k \in DOMAIN more : more[k][1] = todo[i]) \/ (\E k \in DOMAIN rest : rest[k] = todo[i])
    /\ \A i \in DOMAIN seen : \E k \in DOMAIN more : more[k][1] = seen[i][1]

(* A group is read: the next name moves from one sequence to the other. *)
LEMMA ReadNext ==
    ASSUME NEW todo \in Seq(Name), todo # <<>>, NEW seen \in Seq(Name \X ContainerGroup), NEW g \in ContainerGroup, Once(seen, todo)
    PROVE  Advance(todo, seen, <<Head(todo), g>>, Tail(todo), Append(seen, <<Head(todo), g>>))
<1> DEFINE e == <<Head(todo), g>>
           more == Append(seen, e)
           rest == Tail(todo)
<1>1. PICK m \in Nat : m = Len(todo) /\ m # 0 /\ DOMAIN todo = 1..m
  OBVIOUS
<1>2. PICK n \in Nat : n = Len(seen) /\ DOMAIN seen = 1..n
  OBVIOUS
<1>3. Head(todo) \in Name /\ Head(todo) = todo[1] /\ rest \in Seq(Name) /\ Len(rest) = m - 1 /\ (\A i \in 1..(m - 1) : rest[i] = todo[i + 1])
  BY <1>1, HeadTailProperties
<1>4. e \in Name \X ContainerGroup /\ e[1] = todo[1]
  BY <1>3
<1> HIDE DEF e
<1>5. more \in Seq(Name \X ContainerGroup) /\ Len(more) = n + 1 /\ (\A i \in 1..n : more[i] = seen[i]) /\ more[n + 1] = e
  BY <1>2, <1>4, AppendProperties
<1> HIDE DEF more, rest
<1>6. DOMAIN more = 1..(n + 1) /\ DOMAIN rest = 1..(m - 1)
  BY <1>1, <1>2, <1>3, <1>5
<1>7. Once(more, rest)
  <2>1. ASSUME NEW i \in 1..(n + 1), NEW k \in 1..(n + 1), more[i][1] = more[k][1] PROVE i = k
    <3>0. 1 \in DOMAIN todo
      BY <1>1
    <3>1. \A x \in 1..n : seen[x][1] # todo[1]
      BY <1>2, <3>0 DEF Once
    <3>2. i = n + 1 \/ i \in 1..n
      OBVIOUS
    <3>3. k = n + 1 \/ k \in 1..n
      OBVIOUS
    <3> QED BY <1>2, <1>4, <1>5, <2>1, <3>1, <3>2, <3>3 DEF Once
  <2>2. ASSUME NEW i \in 1..(m - 1), NEW k \in 1..(m - 1), rest[i] = rest[k] PROVE i = k
    <3>1. todo[i + 1] = todo[k + 1] /\ i + 1 \in 1..m /\ k + 1 \in 1..m
      BY <1>3, <2>2
    <3>2. i + 1 = k + 1
      BY <1>1, <3>1 DEF Once
    <3> QED BY <3>2
  <2>3. ASSUME NEW i \in 1..(n + 1), NEW k \in 1..(m - 1) PROVE more[i][1] # rest[k]
    <3>1. rest[k] = todo[k + 1] /\ k + 1 \in 1..m /\ k + 1 # 1
      BY <1>3
    <3>2. todo[k + 1] # todo[1]
      BY <1>1, <3>1 DEF Once
    <3>3. i = n + 1 \/ i \in 1..n
      OBVIOUS
    <3>4. CASE i = n + 1
      BY <1>4, <1>5, <3>1, <3>2, <3>4
    <3>5. CASE i \in 1..n
      <4>1. seen[i][1] # todo[k + 1]
        BY <1>1, <1>2, <3>1, <3>5 DEF Once
      <4> QED BY <1>5, <3>1, <3>5, <4>1
    <3> QED BY <3>3, <3>4, <3>5
  <2> QED BY <1>6, <2>1, <2>2, <2>3 DEF Once
<1>8. (rest = <<>>) <=> (Len(todo) = 1)
  <2>1. (rest = <<>>) <=> (Len(rest) = 0)
    BY <1>3, EmptySeq
  <2>2. (m - 1 = 0) <=> (m = 1)
    OBVIOUS
  <2> QED BY <1>1, <1>3, <2>1, <2>2
<1>9. \A i \in DOMAIN more : more[i] = e \/ (i \in DOMAIN seen /\ more[i] = seen[i])
  BY <1>2, <1>5, <1>6
<1>10. ASSUME NEW i \in DOMAIN todo PROVE (\E k \in DOMAIN more : more[k][1] = todo[i]) \/ (\E k \in DOMAIN rest : rest[k] = todo[i])
  <2>1. CASE i = 1
    BY <1>4, <1>5, <1>6, <2>1
  <2>2. CASE i # 1
    <3>1. i - 1 \in 1..(m - 1) /\ rest[i - 1] = todo[i]
      <4>1. i - 1 \in 1..(m - 1) /\ (i - 1) + 1 = i
        BY <1>1, <2>2
      <4> QED BY <1>3, <4>1
    <3> QED BY <1>6, <3>1
  <2> QED BY <2>1, <2>2
<1>11. \A i \in DOMAIN seen : \E k \in DOMAIN more : more[k][1] = seen[i][1]
  BY <1>2, <1>5, <1>6
<1>12. Advance(todo, seen, e, rest, more)
  BY <1>3, <1>5, <1>7, <1>8, <1>9, <1>10, <1>11 DEF Advance
<1> QED BY <1>12 DEF more, rest, e

(* A group that was looked at is not looked at again. *)
LEMMA ReadDrop ==
    ASSUME NEW seen \in Seq(Name \X ContainerGroup), seen # <<>>, NEW todo, Once(seen, todo)
    PROVE  /\ Tail(seen) \in Seq(Name \X ContainerGroup) /\ Head(seen) \in Name \X ContainerGroup /\ Once(Tail(seen), todo)
           /\ 1 \in DOMAIN seen /\ Head(seen) = seen[1]
           /\ \A i \in DOMAIN Tail(seen) : /\ \E k \in DOMAIN seen : Tail(seen)[i] = seen[k]
                                           /\ Tail(seen)[i][1] # Head(seen)[1]
<1> DEFINE rest == Tail(seen)
<1>1. PICK m \in Nat : m = Len(seen) /\ m # 0 /\ DOMAIN seen = 1..m
  OBVIOUS
<1>2. Head(seen) \in Name \X ContainerGroup /\ Head(seen) = seen[1] /\ rest \in Seq(Name \X ContainerGroup) /\ Len(rest) = m - 1
      /\ (\A i \in 1..(m - 1) : rest[i] = seen[i + 1])
  BY <1>1, HeadTailProperties
<1> HIDE DEF rest
<1>3. DOMAIN rest = 1..(m - 1)
  BY <1>1, <1>2
<1>4. ASSUME NEW i \in 1..(m - 1) PROVE i + 1 \in 1..m /\ rest[i] = seen[i + 1] /\ rest[i][1] # seen[1][1]
  <2>1. i + 1 \in 1..m /\ 1 \in 1..m /\ i + 1 # 1 /\ rest[i] = seen[i + 1]
    BY <1>1, <1>2
  <2> QED BY <1>1, <2>1 DEF Once
<1>5. Once(rest, todo)
  <2>1. ASSUME NEW i \in 1..(m - 1), NEW k \in 1..(m - 1), rest[i][1] = rest[k][1] PROVE i = k
    <3>1. i + 1 \in 1..m /\ k + 1 \in 1..m /\ seen[i + 1][1] = seen[k + 1][1]
      BY <1>4, <2>1
    <3>2. \A a, b \in 1..m : seen[a][1] = seen[b][1] => a = b
      BY <1>1 DEF Once
    <3>3. i + 1 = k + 1
      BY <3>1, <3>2
    <3> QED BY <3>3
  <2>2. ASSUME NEW i \in 1..(m - 1), NEW k \in DOMAIN todo PROVE rest[i][1] # todo[k]
    BY <1>1, <1>4 DEF Once
  <2>3. \A i, k \in DOMAIN todo : todo[i] = todo[k] => i = k
    BY DEF Once
  <2> QED BY <1>3, <2>1, <2>2, <2>3 DEF Once
<1> QED BY <1>1, <1>2, <1>3, <1>4, <1>5 DEF rest

(* Two and three fields of a command. *)
LEMMA TodoFields ==
    ASSUME NEW c \in Clients, NEW todo, NEW p, IsJob(job[c]), Becomes(c, [job[c] EXCEPT !.todo = todo, !.pc = p])
    PROVE  \E k : CommandGoes(c, k, p, todo, job[c].seen, job[c].out, job[c].error)
<1> DEFINE q == [job[c] EXCEPT !.todo = todo]
           k == [q EXCEPT !.pc = p]
<1>1. IsJob(q) /\ q.cmd = job[c].cmd /\ q.blind = job[c].blind /\ q.todo = todo /\ q.seen = job[c].seen /\ q.out = job[c].out /\ q.error = job[c].error
  BY DEF IsJob
<1>2. Becomes(c, k)
  OBVIOUS
<1> HIDE DEF q
<1>3. CommandGoes(c, k, p, todo, job[c].seen, job[c].out, job[c].error)
  BY <1>1, <1>2 DEF CommandGoes, IsJob
<1> QED BY <1>3

(* A command that ends with what it shows. *)
LEMMA OutFields ==
    ASSUME NEW c \in Clients, NEW out, IsJob(job[c]), Becomes(c, [job[c] EXCEPT !.pc = "done", !.out = out])
    PROVE  \E k : CommandGoes(c, k, "done", job[c].todo, job[c].seen, out, job[c].error)
<1> DEFINE q == [job[c] EXCEPT !.pc = "done"]
           k == [q EXCEPT !.out = out]
<1>1. IsJob(q) /\ q.cmd = job[c].cmd /\ q.blind = job[c].blind /\ q.pc = "done" /\ q.todo = job[c].todo /\ q.seen = job[c].seen /\ q.error = job[c].error
  BY DEF IsJob
<1>2. Becomes(c, k)
  OBVIOUS
<1> HIDE DEF q
<1>3. CommandGoes(c, k, "done", job[c].todo, job[c].seen, out, job[c].error)
  BY <1>1, <1>2 DEF CommandGoes, IsJob
<1> QED BY <1>3

(* A command that read a group. *)
LEMMA SeenFields ==
    ASSUME NEW c \in Clients, NEW todo, NEW seen, NEW p, IsJob(job[c]), Becomes(c, [job[c] EXCEPT !.todo = todo, !.seen = seen, !.pc = p])
    PROVE  \E k : CommandGoes(c, k, p, todo, seen, job[c].out, job[c].error)
<1> DEFINE q == [job[c] EXCEPT !.todo = todo]
           r == [q EXCEPT !.seen = seen]
           k == [r EXCEPT !.pc = p]
<1>1. IsJob(q) /\ q.cmd = job[c].cmd /\ q.blind = job[c].blind /\ q.todo = todo /\ q.out = job[c].out /\ q.error = job[c].error
  BY DEF IsJob
<1>2. Becomes(c, k)
  OBVIOUS
<1> HIDE DEF q
<1>3. IsJob(r) /\ r.cmd = job[c].cmd /\ r.blind = job[c].blind /\ r.todo = todo /\ r.seen = seen /\ r.out = job[c].out /\ r.error = job[c].error
  BY <1>1 DEF IsJob
<1> HIDE DEF r
<1>4. CommandGoes(c, k, p, todo, seen, job[c].out, job[c].error)
  BY <1>2, <1>3 DEF CommandGoes, IsJob
<1> QED BY <1>4

(* A listing begins with the names of all groups. *)
LEMMA ListGroupNamesKeeps == ASSUME NEW c \in Clients, GroupsInv, ListGroupNames(c) PROVE GroupsInv'
<1>1. /\ IsJob(job[c]) /\ Flow(job[c]) /\ Reads(job[c]) /\ RelyOnGroups(job[c]) /\ RelyOnAccounts(job[c])
      /\ job[c].cmd \in AciCommand /\ job[c].cmd.op \in Ops
  BY OwnFacts
<1>2. At(c, Cmd(c).op) /\ Cmd(c).op \in Listing /\ UNCHANGED <<groups, accounts>>
  BY DEF ListGroupNames, Listing
<1>3. PICK names : names = SetToSeq(DOMAIN groups)
  OBVIOUS
<1>4. PICK p : p = IF names = <<>> THEN "listed" ELSE "group"
  OBVIOUS
<1>5. PICK k : CommandGoes(c, k, p, names, job[c].seen, job[c].out, job[c].error)
  <2>1. Becomes(c, [job[c] EXCEPT !.todo = names, !.pc = p])
    BY <1>3, <1>4 DEF ListGroupNames
  <2> QED BY <1>1, <2>1, TodoFields
<1>6. names \in Seq(Name) /\ IsInjective(names) /\ \A n \in DOMAIN groups : \E i \in DOMAIN names : names[i] = n
  <2>1. IsFiniteSet(DOMAIN groups) /\ DOMAIN groups \subseteq Name
    BY DEF GroupsInv, GroupsDeployed
  <2>2. names \in Seq(DOMAIN groups) /\ IsInjective(names) /\ \A n \in DOMAIN groups : \E i \in DOMAIN names : names[i] = n
    BY <1>3, <2>1, NamesOnce
  <2> QED BY <2>1, <2>2
<1>7. job[c].seen = <<>> /\ job[c].pc = job[c].cmd.op
  BY <1>1, <1>2 DEF Reads, At, Cmd
<1>8. Flow(k)
  BY <1>1, <1>2, <1>4, <1>5, <1>7 DEF CommandGoes, Flow, Removing, Creating, Listing, Ops, Cmd
<1>9. Reads(k)
  <2>1. Once(<<>>, names)
    BY <1>6 DEF Once, IsInjective
  <2>2. job[c].out = <<>> \/ job[c].cmd.op \in {"ps", "prune"}
    BY <1>1, <1>2, <1>7 DEF Reads, Listing, Cmd
  <2>3. job[c].cmd.op = "prune" => job[c].out \in Seq(Name)
    BY <1>1, <1>2 DEF Reads, Cmd
  <2>4. p # job[c].cmd.op /\ p # "done" /\ (p = "group" => names # <<>>) /\ (p = "listed" => names = <<>>)
    BY <1>2, <1>4 DEF Listing, Cmd
  <2>5. job[c].cmd.op = "ls" => DOMAIN job[c].out = {}
    BY <2>2
  <2>6. <<>> \in Seq(Name \X ContainerGroup)
    OBVIOUS
  <2> QED BY <1>5, <1>6, <1>7, <2>1, <2>2, <2>3, <2>4, <2>5, <2>6 DEF CommandGoes, Reads
<1>10. RelyOnGroups(k)
  <2>1. DOMAIN k.seen = {}
    BY <1>5, <1>7 DEF CommandGoes
  <2>2. Current(k, groups)
    BY <1>5, <1>6, <2>1 DEF CommandGoes, Current
  <2> QED BY <1>2, <1>4, <1>5, <2>2 DEF CommandGoes, RelyOnGroups, Unused, NewName, StoppedRead, Removing, Listing, Cmd
<1>11. RelyOnAccounts(k)
  BY <1>2, <1>4, <1>5 DEF Cmd, CommandGoes, RelyOnAccounts, TagRead, LastRead, Provided, Removing, Providing, Creating, Deploying, Listing
<1>12. Quiet(c, k)
  BY <1>2, <1>5, <1>7, <1>8, <1>9, <1>10, <1>11 DEF Quiet, CommandGoes, Still, Listing, Cmd
<1> QED BY <1>5, <1>12, QuietKeeps

(* Each group is read in turn, or is gone. *)
LEMMA getACIContainerGroupsKeeps == ASSUME NEW c \in Clients, GroupsInv, getACIContainerGroups(c) PROVE GroupsInv'
<1>1. /\ IsJob(job[c]) /\ Flow(job[c]) /\ Reads(job[c]) /\ RelyOnGroups(job[c]) /\ RelyOnAccounts(job[c])
      /\ job[c].cmd \in AciCommand /\ job[c].cmd.op \in Ops
  BY OwnFacts
<1>2. At(c, "group") /\ job[c].cmd.op \in Listing /\ UNCHANGED <<groups, accounts>>
  BY <1>1 DEF getACIContainerGroups, Flow, At
<1>3. job[c].todo \in Seq(Name) /\ job[c].todo # <<>> /\ job[c].seen \in Seq(Name \X ContainerGroup) /\ Once(job[c].seen, job[c].todo)
  BY <1>1, <1>2 DEF Reads, At
<1>4. PICK name : name = Head(job[c].todo)
  OBVIOUS
<1>5. CASE name \notin DOMAIN groups
  <2>1. Finish(c, "gone") /\ job[c].pc # "done"
    BY <1>2, <1>4, <1>5 DEF getACIContainerGroups, At
  <2> QED BY <1>2, <2>1, FinishKeeps DEF NoError
<1>6. CASE name \in DOMAIN groups
  <2>1. groups[name] \in ContainerGroup
    BY <1>6 DEF GroupsInv, GroupsDeployed
  <2> DEFINE rest == Tail(job[c].todo)
             more == Append(job[c].seen, <<name, groups[name]>>)
  <2>3. Advance(job[c].todo, job[c].seen, <<name, groups[name]>>, rest, more)
    <3>1. PICK todo \in Seq(Name) : todo = job[c].todo
      BY <1>3
    <3>2. PICK seen \in Seq(Name \X ContainerGroup) : seen = job[c].seen
      BY <1>3
    <3>3. PICK g \in ContainerGroup : g = groups[name]
      BY <2>1
    <3>4. todo # <<>> /\ Once(seen, todo)
      BY <1>3, <3>1, <3>2
    <3>5. Advance(todo, seen, <<Head(todo), g>>, Tail(todo), Append(seen, <<Head(todo), g>>))
      BY <3>4, ReadNext
    <3> QED BY <1>4, <3>1, <3>2, <3>3, <3>5
  <2>5. PICK p : p = IF Len(job[c].todo) = 1 THEN "listed" ELSE "group"
    OBVIOUS
  <2>6. PICK k : CommandGoes(c, k, p, rest, more, job[c].out, job[c].error)
    <3>1. Becomes(c, [job[c] EXCEPT !.todo = rest, !.seen = more, !.pc = p])
      BY <1>4, <1>6, <2>5 DEF getACIContainerGroups
    <3> QED BY <1>1, <3>1, SeenFields
  <2> HIDE DEF rest, more
  <2>4. /\ rest \in Seq(Name) /\ more \in Seq(Name \X ContainerGroup) /\ Once(more, rest) /\ ((rest = <<>>) <=> (Len(job[c].todo) = 1))
        /\ \A i \in DOMAIN more : more[i] = <<name, groups[name]>> \/ (i \in DOMAIN job[c].seen /\ more[i] = job[c].seen[i])
        /\ \A i \in DOMAIN job[c].todo : (\E x \in DOMAIN more : more[x][1] = job[c].todo[i]) \/ (\E x \in DOMAIN rest : rest[x] = job[c].todo[i])
        /\ \A i \in DOMAIN job[c].seen : \E x \in DOMAIN more : more[x][1] = job[c].seen[i][1]
    BY <2>3 DEF Advance
  <2>7. Flow(k)
    BY <1>1, <1>2, <2>5, <2>6 DEF CommandGoes, Flow, Removing, Creating, Listing, Ops, At
  <2>8. Reads(k)
    <3>1. job[c].out = <<>> \/ job[c].cmd.op \in {"ps", "prune"}
      BY <1>1, <1>2 DEF Reads, At
    <3>2. (p = "group" => rest # <<>>) /\ (p = "listed" => rest = <<>>)
      BY <2>4, <2>5
    <3>3. job[c].cmd.op = "prune" => job[c].out \in Seq(Name)
      BY <1>1, <1>2 DEF Reads
    <3>4. p # job[c].cmd.op /\ p # "done"
      BY <1>2, <2>5 DEF Listing
    <3>5. job[c].cmd.op = "ls" => DOMAIN job[c].out = {}
      BY <3>1
    <3> QED BY <1>2, <2>4, <2>6, <3>1, <3>2, <3>3, <3>4, <3>5 DEF CommandGoes, Reads
  <2>9. Current(k, groups)
    <3> SUFFICES ASSUME ~job[c].blind
                 PROVE  /\ \A i \in DOMAIN more : more[i][1] \in DOMAIN groups /\ groups[more[i][1]] = more[i][2]
                        /\ job[c].cmd.op = "volume rm" => \A n \in DOMAIN groups : (\E i \in DOMAIN more : more[i][1] = n) \/ (\E i \in DOMAIN rest : rest[i] = n)
      BY <2>6 DEF CommandGoes, Current
    <3>1. /\ \A i \in DOMAIN job[c].seen : job[c].seen[i][1] \in DOMAIN groups /\ groups[job[c].seen[i][1]] = job[c].seen[i][2]
          /\ job[c].cmd.op = "volume rm" => \A n \in DOMAIN groups : (\E i \in DOMAIN job[c].seen : job[c].seen[i][1] = n) \/ (\E i \in DOMAIN job[c].todo : job[c].todo[i] = n)
      BY <1>1, <1>2 DEF RelyOnGroups, Current, At
    <3>2. ASSUME NEW i \in DOMAIN more PROVE more[i][1] \in DOMAIN groups /\ groups[more[i][1]] = more[i][2]
      <4>1. CASE more[i] = <<name, groups[name]>>
        BY <1>6, <4>1
      <4>2. CASE i \in DOMAIN job[c].seen /\ more[i] = job[c].seen[i]
        BY <3>1, <4>2
      <4> QED BY <2>4, <4>1, <4>2
    <3>3. ASSUME job[c].cmd.op = "volume rm", NEW n \in DOMAIN groups PROVE (\E i \in DOMAIN more : more[i][1] = n) \/ (\E i \in DOMAIN rest : rest[i] = n)
      <4>1. CASE \E i \in DOMAIN job[c].seen : job[c].seen[i][1] = n
        BY <2>4, <4>1
      <4>2. CASE \E i \in DOMAIN job[c].todo : job[c].todo[i] = n
        BY <2>4, <4>2
      <4> QED BY <3>1, <3>3, <4>1, <4>2
    <3> QED BY <3>2, <3>3
  <2>10. RelyOnGroups(k)
    BY <1>2, <2>5, <2>6, <2>9 DEF CommandGoes, RelyOnGroups, Unused, NewName, StoppedRead, Removing, Listing
  <2>11. RelyOnAccounts(k)
    BY <1>2, <2>5, <2>6 DEF CommandGoes, RelyOnAccounts, TagRead, LastRead, Provided, Removing, Providing, Creating, Deploying, Listing
  <2>12. Quiet(c, k)
    BY <1>2, <2>6, <2>7, <2>8, <2>10, <2>11 DEF Quiet, CommandGoes, Still, At
  <2> QED BY <2>6, <2>12, QuietKeeps
<1> QED BY <1>5, <1>6

(* The volumes of a sequence: the first and the others. *)
LEMMA RangeTail ==
    ASSUME NEW s \in Seq(Volume), s # <<>>
    PROVE  Head(s) \in Volume /\ Tail(s) \in Seq(Volume) /\ \A v \in Range(s) : v = Head(s) \/ v \in Range(Tail(s))
<1>1. PICK m \in Nat : m = Len(s) /\ m # 0 /\ DOMAIN s = 1..m
  OBVIOUS
<1>2. Head(s) \in Volume /\ Head(s) = s[1] /\ Tail(s) \in Seq(Volume) /\ Len(Tail(s)) = m - 1 /\ (\A i \in 1..(m - 1) : Tail(s)[i] = s[i + 1])
  BY <1>1, HeadTailProperties
<1>3. ASSUME NEW i \in 1..m, i # 1 PROVE s[i] \in Range(Tail(s))
  <2>1. i - 1 \in 1..(m - 1) /\ (i - 1) + 1 = i
    BY <1>3
  <2>2. Tail(s)[i - 1] = s[i] /\ DOMAIN Tail(s) = 1..(m - 1)
    BY <1>1, <1>2, <2>1
  <2> QED BY <2>1, <2>2 DEF Range
<1> QED BY <1>1, <1>2, <1>3 DEF Range

(* What comes after a share. *)
Rest(todo) == IF todo = <<>> THEN <<>> ELSE Tail(todo)
NextPc(op, rest) == IF op # "up" THEN "done" ELSE IF rest = <<>> THEN "define" ELSE "volume"
(* The fields of a command after a share. *)
LEMMA AfterFields ==
    ASSUME NEW c \in Clients, IsJob(job[c])
    PROVE  /\ IsJob(AfterShare(c)) /\ AfterShare(c).cmd = job[c].cmd /\ AfterShare(c).blind = job[c].blind
           /\ AfterShare(c).todo = Rest(job[c].todo) /\ AfterShare(c).pc = NextPc(job[c].cmd.op, Rest(job[c].todo))
           /\ AfterShare(c).seen = job[c].seen /\ AfterShare(c).out = job[c].out /\ AfterShare(c).error = job[c].error
<1>1. PICK rest : rest = Rest(job[c].todo)
  OBVIOUS
<1>2. PICK p : p = NextPc(job[c].cmd.op, rest)
  OBVIOUS
<1> DEFINE q == [job[c] EXCEPT !.todo = rest]
           k == [q EXCEPT !.pc = p]
<1>3. IsJob(q) /\ q.cmd = job[c].cmd /\ q.blind = job[c].blind /\ q.todo = rest /\ q.seen = job[c].seen /\ q.out = job[c].out /\ q.error = job[c].error
  BY DEF IsJob
<1>4. AfterShare(c) = k
  <2>1. (CASE Cmd(c).op # "up" -> "done" [] Cmd(c).op = "up" /\ rest = <<>> -> "define" [] OTHER -> "volume") = p
    <3>1. CASE Cmd(c).op # "up"
      BY <1>2, <3>1 DEF NextPc, Cmd
    <3>2. CASE Cmd(c).op = "up" /\ rest = <<>>
      BY <1>2, <3>2 DEF NextPc, Cmd
    <3>3. CASE Cmd(c).op = "up" /\ rest # <<>>
      BY <1>2, <3>3 DEF NextPc, Cmd
    <3> QED BY <3>1, <3>2, <3>3
  <2> QED BY <1>1, <2>1 DEF AfterShare, Rest
<1> HIDE DEF q
<1>5. IsJob(k) /\ k.cmd = job[c].cmd /\ k.blind = job[c].blind /\ k.todo = rest /\ k.pc = p /\ k.seen = job[c].seen /\ k.out = job[c].out /\ k.error = job[c].error
  BY <1>3 DEF IsJob
<1> HIDE DEF k
<1> QED BY <1>1, <1>2, <1>4, <1>5

(* The shares of the project are there or still to be made, when one more is there. *)
LEMMA AfterProvided ==
    ASSUME NEW c \in Clients, NEW as, IsJob(job[c]), Flow(job[c]), Provided(job[c], accounts), job[c].pc \in Providing,
           IsShare(Wanted(c), as), \A v \in Volume : IsShare(v, accounts) => IsShare(v, as)
    PROVE  Provided(AfterShare(c), as)
<1>1. CASE job[c].cmd.op # "up"
  BY <1>1, AfterFields DEF Provided
<1>2. CASE job[c].cmd.op = "up"
  <2>1. job[c].todo \in Seq(Volume) /\ job[c].todo # <<>> /\ Wanted(c) = Head(job[c].todo) /\ Rest(job[c].todo) = Tail(job[c].todo)
    BY <1>2 DEF Provided, Wanted, Rest
  <2>2. PICK rest : rest = Tail(job[c].todo)
    OBVIOUS
  <2>3. rest \in Seq(Volume) /\ \A v \in Range(job[c].todo) : v = Wanted(c) \/ v \in Range(rest)
    BY <2>1, <2>2, RangeTail
  <2>4. ASSUME ~job[c].blind, NEW v \in Range(job[c].cmd.volumes) PROVE IsShare(v, as) \/ v \in Range(rest)
    <3>1. IsShare(v, accounts) \/ v \in Range(job[c].todo)
      BY <1>2, <2>4 DEF Provided
    <3>2. v \in Volume
      <4>1. PICK s \in Seq(Volume) : s = job[c].cmd.volumes
        BY DEF Flow, AciCommand
      <4> QED BY <4>1 DEF Range
    <3> QED BY <2>3, <3>1, <3>2
  <2>5. PICK k : k = AfterShare(c)
    OBVIOUS
  <2>6. k.cmd = job[c].cmd /\ k.blind = job[c].blind /\ k.todo = rest /\ k.pc = IF rest = <<>> THEN "define" ELSE "volume"
    BY <1>2, <2>1, <2>2, <2>5, AfterFields DEF NextPc
  <2>7. rest = <<>> => Range(rest) = {}
    BY DEF Range
  <2>8. Provided(k, as)
    BY <1>2, <2>3, <2>4, <2>6, <2>7 DEF Provided, Providing, Creating, Deploying
  <2> QED BY <2>5, <2>8
<1> QED BY <1>1, <1>2

(* So what the command relies on holds after a share. *)
LEMMA AfterOwn ==
    ASSUME NEW c \in Clients, NEW gs, NEW as, GroupsInv, job[c].pc \in Providing, job[c].cmd.op \in {"up", "volume create"},
           IsShare(Wanted(c), as), \A v \in Volume : IsShare(v, accounts) => IsShare(v, as)
    PROVE  OwnInv(AfterShare(c), gs, as)
<1>1. /\ IsJob(job[c]) /\ Flow(job[c]) /\ Reads(job[c]) /\ RelyOnGroups(job[c]) /\ RelyOnAccounts(job[c])
      /\ job[c].cmd \in AciCommand /\ job[c].cmd.op \in Ops
  BY OwnFacts
<1>2. PICK k : k = AfterShare(c)
  OBVIOUS
<1>3. /\ IsJob(k) /\ k.cmd = job[c].cmd /\ k.blind = job[c].blind /\ k.error = job[c].error
      /\ (k.pc = "done" \/ (k.cmd.op = "up" /\ k.pc \in {"define", "volume"}))
      /\ (k.cmd.op = "volume create" => k.todo = <<>>)
  <2>1. job[c].cmd.op = "volume create" => job[c].todo = <<>>
    BY <1>1 DEF Flow
  <2> QED BY <1>1, <1>2, <2>1, AfterFields DEF NextPc, Rest
<1>4. Flow(k)
  BY <1>1, <1>3 DEF Flow, Removing, Creating, Providing, Ops
<1>5. Reads(k)
  BY <1>3 DEF Reads, Listing
<1>6. Current(k, gs) /\ Unused(k, gs) /\ NewName(k, gs) /\ StoppedRead(k, gs)
  BY <1>3 DEF Current, Unused, NewName, StoppedRead, Removing
<1>7. TagRead(k, as) /\ LastRead(k, as)
  BY <1>3 DEF TagRead, LastRead, Removing
<1>8. Provided(k, as)
  BY <1>1, <1>2, AfterProvided DEF RelyOnAccounts
<1> QED BY <1>2, <1>3, <1>4, <1>5, <1>6, <1>7, <1>8 DEF OwnInv

(* inspect: the share is there, is to be made, or the command ends. *)
LEMMA VolumeInspectKeeps == ASSUME NEW c \in Clients, GroupsInv, VolumeInspect(c) PROVE GroupsInv'
<1>1. /\ IsJob(job[c]) /\ Flow(job[c]) /\ Reads(job[c]) /\ RelyOnGroups(job[c]) /\ RelyOnAccounts(job[c])
      /\ job[c].cmd \in AciCommand /\ job[c].cmd.op \in Ops
  BY OwnFacts
<1>2. CASE At(c, "inspect") /\ Finish(c, "id") /\ UNCHANGED <<groups, accounts>>
  BY <1>2, FinishKeeps, <1>1 DEF NoError, At, Cmd, Ops
<1>3. CASE At(c, "inspect") /\ Finish(c, NoError) /\ UNCHANGED <<groups, accounts>>
  BY <1>3, FinishKeeps, <1>1 DEF NoError, At, Cmd, Ops
<1>4. CASE At(c, "inspect") /\ Finish(c, "not found") /\ UNCHANGED <<groups, accounts>>
  BY <1>4, FinishKeeps, <1>1 DEF NoError, At, Cmd, Ops
<1>5. CASE At(c, "inspect") /\ Cmd(c).op = "up" /\ Jump(c, "volume create") /\ UNCHANGED <<groups, accounts>>
  <2>1. PICK k : CommandGoes(c, k, "volume create", job[c].todo, job[c].seen, job[c].out, job[c].error)
    BY <1>1, <1>5, JumpFields
  <2>2. Flow(k) /\ Reads(k)
    <3>1. Flow(k)
      BY <1>1, <1>5, <2>1 DEF At, Cmd, CommandGoes, Flow, Removing, Creating, Listing, Ops
    <3>2. Reads(k)
      BY <1>1, <1>5, <2>1, ReadsOn DEF At, Cmd, CommandGoes, Ops, Listing
    <3> QED BY <3>1, <3>2
  <2>3. RelyOnGroups(k)
    BY <1>1, <1>5, <2>1 DEF At, Cmd, CommandGoes, RelyOnGroups, Current, Unused, NewName, StoppedRead, Removing, Listing, Ops
  <2>4. RelyOnAccounts(k)
    BY <1>1, <1>5, <2>1 DEF At, Cmd, CommandGoes, RelyOnAccounts, TagRead, LastRead, Provided, Removing, Providing, Creating, Deploying, Ops
  <2>5. Quiet(c, k)
    BY <1>1, <1>5, <2>1, <2>2, <2>3, <2>4 DEF Quiet, CommandGoes, Still, WantedBy, At
  <2> QED BY <2>1, <2>5, QuietKeeps
<1>6. CASE At(c, "inspect") /\ Cmd(c).op = "up" /\ HasShare(Wanted(c)[1], Wanted(c)[2]) /\ Becomes(c, AfterShare(c)) /\ UNCHANGED <<groups, accounts>>
  <2>1. job[c].pc \in Providing /\ job[c].cmd.op \in {"up", "volume create"} /\ IsShare(Wanted(c), accounts)
    BY <1>6 DEF At, Cmd, Providing, HasShare, IsShare
  <2>2. OwnInv(AfterShare(c), groups, accounts)
    BY <2>1, AfterOwn
  <2>3. PICK k : k = AfterShare(c)
    OBVIOUS
  <2>4. CommandGoes(c, k, k.pc, k.todo, k.seen, k.out, k.error) /\ k.out = job[c].out /\ k.error = job[c].error
    BY <1>1, <1>6, <2>3, AfterFields DEF CommandGoes
  <2>5. Quiet(c, k)
    BY <1>6, <2>2, <2>3, <2>4 DEF Quiet, OwnInv, RelyOnGroups, RelyOnAccounts, Still, At
  <2> QED BY <2>4, <2>5, QuietKeeps
<1> QED BY <1>2, <1>3, <1>4, <1>5, <1>6 DEF VolumeInspect

(* A command that ends with what it read, or goes on to list shares. *)
LEMMA ListingKeeps ==
    ASSUME NEW c \in Clients, GroupsInv, UNCHANGED <<groups, accounts>>, NEW k, NEW p, NEW todo, NEW seen, NEW out,
           CommandGoes(c, k, p, todo, seen, out, job[c].error), p = "done" \/ (p = "its shares" /\ job[c].cmd.op = "volume ls"),
           job[c].pc \notin {"share", "new share", "done"}, job[c].cmd.op \in Listing \cup {"volume ls", "compose ps", "container inspect"},
           Reads(k), job[c].cmd.op = "prune" => out = job[c].out
    PROVE  GroupsInv'
<1>1. /\ IsJob(job[c]) /\ Flow(job[c]) /\ Reads(job[c]) /\ RelyOnGroups(job[c]) /\ RelyOnAccounts(job[c])
      /\ job[c].cmd \in AciCommand /\ job[c].cmd.op \in Ops
  BY OwnFacts
<1>2. Flow(k)
  BY <1>1 DEF CommandGoes, Flow, Removing, Creating, Listing, Ops
<1>3. RelyOnGroups(k)
  BY <1>1 DEF CommandGoes, RelyOnGroups, Current, Unused, NewName, StoppedRead, Removing
<1>4. RelyOnAccounts(k)
  BY <1>1 DEF CommandGoes, RelyOnAccounts, TagRead, LastRead, Provided, Removing, Providing, Creating, Deploying
<1>5. Quiet(c, k)
  BY <1>2, <1>3, <1>4 DEF Quiet, CommandGoes, Still
<1> QED BY <1>5, QuietKeeps

(* volume ls reads the names of the accounts. *)
LEMMA VolumeListKeeps == ASSUME NEW c \in Clients, GroupsInv, VolumeList(c) PROVE GroupsInv'
<1>1. /\ IsJob(job[c]) /\ Flow(job[c]) /\ Reads(job[c]) /\ RelyOnGroups(job[c]) /\ RelyOnAccounts(job[c])
      /\ job[c].cmd \in AciCommand /\ job[c].cmd.op \in Ops
  BY OwnFacts
<1>2. job[c].pc = "volume ls" /\ job[c].cmd.op = "volume ls" /\ UNCHANGED <<groups, accounts>>
  BY <1>1 DEF VolumeList, At, Flow, Ops
<1>3. PICK names : names = SetToSeq(DOMAIN accounts)
  OBVIOUS
<1>4. PICK p : p = IF names = <<>> THEN "done" ELSE "its shares"
  OBVIOUS
<1>5. PICK k : CommandGoes(c, k, p, names, job[c].seen, job[c].out, job[c].error)
  <2>1. Becomes(c, [job[c] EXCEPT !.todo = names, !.pc = p])
    BY <1>3, <1>4 DEF VolumeList
  <2> QED BY <1>1, <2>1, TodoFields
<1>6. Reads(k)
  BY <1>2, <1>5 DEF CommandGoes, Reads, Listing
<1> QED BY <1>2, <1>4, <1>5, <1>6, ListingKeeps

(* A command that read the shares of an account. *)
LEMMA ListedFields ==
    ASSUME NEW c \in Clients, NEW todo, NEW out, NEW p, IsJob(job[c]), Becomes(c, [job[c] EXCEPT !.todo = todo, !.out = out, !.pc = p])
    PROVE  \E k : CommandGoes(c, k, p, todo, job[c].seen, out, job[c].error)
<1> DEFINE q == [job[c] EXCEPT !.todo = todo]
           r == [q EXCEPT !.out = out]
           k == [r EXCEPT !.pc = p]
<1>1. IsJob(q) /\ q.cmd = job[c].cmd /\ q.blind = job[c].blind /\ q.todo = todo /\ q.seen = job[c].seen /\ q.error = job[c].error
  BY DEF IsJob
<1>2. Becomes(c, k)
  OBVIOUS
<1> HIDE DEF q
<1>3. IsJob(r) /\ r.cmd = job[c].cmd /\ r.blind = job[c].blind /\ r.todo = todo /\ r.seen = job[c].seen /\ r.out = out /\ r.error = job[c].error
  BY <1>1 DEF IsJob
<1> HIDE DEF r
<1>4. CommandGoes(c, k, p, todo, job[c].seen, out, job[c].error)
  BY <1>2, <1>3 DEF CommandGoes, IsJob
<1> QED BY <1>4

(* volume ls reads the shares of each account, or the account is gone. *)
LEMMA ListAccountSharesKeeps == ASSUME NEW c \in Clients, GroupsInv, ListAccountShares(c) PROVE GroupsInv'
<1>1. /\ IsJob(job[c]) /\ Flow(job[c]) /\ Reads(job[c]) /\ RelyOnGroups(job[c]) /\ RelyOnAccounts(job[c])
      /\ job[c].cmd \in AciCommand /\ job[c].cmd.op \in Ops
  BY OwnFacts
<1>2. job[c].pc = "its shares" /\ job[c].cmd.op = "volume ls" /\ UNCHANGED <<groups, accounts>>
  BY <1>1 DEF ListAccountShares, At, Flow
<1>3. PICK name : name = Head(job[c].todo)
  OBVIOUS
<1>4. CASE name \in DOMAIN accounts
  <2>1. PICK p : p = IF Len(job[c].todo) = 1 THEN "done" ELSE "its shares"
    OBVIOUS
  <2>2. PICK out : out = job[c].out \o SetToSeq({name} \X accounts[name].shares)
    OBVIOUS
  <2>3. PICK k : CommandGoes(c, k, p, Tail(job[c].todo), job[c].seen, out, job[c].error)
    <3>1. Becomes(c, [job[c] EXCEPT !.todo = Tail(job[c].todo), !.out = out, !.pc = p])
      BY <1>3, <1>4, <2>1, <2>2 DEF ListAccountShares
    <3> QED BY <1>1, <3>1, ListedFields
  <2>4. Reads(k)
    BY <1>2, <2>3 DEF CommandGoes, Reads, Listing
  <2> QED BY <1>2, <2>1, <2>3, <2>4, ListingKeeps
<1>5. CASE name \notin DOMAIN accounts
  <2>1. Finish(c, "gone")
    BY <1>3, <1>5 DEF ListAccountShares
  <2> QED BY <1>2, <2>1, FinishKeeps DEF NoError
<1> QED BY <1>4, <1>5

(* The listings end with what they show. *)
LEMMA ShowKeeps ==
    ASSUME NEW c \in Clients, GroupsInv, NEW out, Becomes(c, [job[c] EXCEPT !.pc = "done", !.out = out]), UNCHANGED <<groups, accounts>>,
           job[c].pc # "done", job[c].cmd.op \in {"ps", "compose ps", "container inspect"}
    PROVE  GroupsInv'
<1>1. /\ IsJob(job[c]) /\ Flow(job[c]) /\ Reads(job[c]) /\ RelyOnGroups(job[c]) /\ RelyOnAccounts(job[c])
      /\ job[c].cmd \in AciCommand /\ job[c].cmd.op \in Ops
  BY OwnFacts
<1>2. PICK k : CommandGoes(c, k, "done", job[c].todo, job[c].seen, out, job[c].error)
  BY <1>1, OutFields
<1>3. Reads(k)
  BY <1>1, <1>2 DEF CommandGoes, Reads, Listing
<1>4. job[c].pc \notin {"share", "new share", "done"}
  BY <1>1 DEF Flow, Creating
<1> QED BY <1>2, <1>3, <1>4, ListingKeeps DEF Listing

(* docker ps. *)
LEMMA ListKeeps == ASSUME NEW c \in Clients, GroupsInv, List(c) PROVE GroupsInv'
<1>1. job[c].pc = "listed" /\ job[c].cmd.op = "ps" /\ UNCHANGED <<groups, accounts>>
  BY DEF List, At, Cmd
<1>2. CASE Finish(c, "empty")
  BY <1>1, <1>2, FinishKeeps DEF NoError
<1>3. CASE Becomes(c, [job[c] EXCEPT !.pc = "done", !.out = FlattenSeq(Listed(c))])
  BY <1>1, <1>3, ShowKeeps
<1> QED BY <1>2, <1>3 DEF List

(* docker compose ps. *)
LEMMA PsKeeps == ASSUME NEW c \in Clients, GroupsInv, Ps(c) PROVE GroupsInv'
<1>1. /\ IsJob(job[c]) /\ Flow(job[c]) /\ Reads(job[c]) /\ RelyOnGroups(job[c]) /\ RelyOnAccounts(job[c])
      /\ job[c].cmd \in AciCommand /\ job[c].cmd.op \in Ops
  BY OwnFacts
<1>2. job[c].pc = "compose ps" /\ job[c].cmd.op = "compose ps" /\ UNCHANGED <<groups, accounts>>
  BY <1>1 DEF Ps, At, Flow, Ops
<1>3. CASE Finish(c, "empty") \/ Finish(c, "not found")
  BY <1>2, <1>3, FinishKeeps DEF NoError
<1>4. CASE Becomes(c, [job[c] EXCEPT !.pc = "done", !.out = Shown(Cmd(c).id, groups[Cmd(c).id], FALSE)])
  BY <1>2, <1>4, ShowKeeps
<1> QED BY <1>3, <1>4 DEF Ps

(* docker inspect. *)
LEMMA InspectKeeps == ASSUME NEW c \in Clients, GroupsInv, Inspect(c) PROVE GroupsInv'
<1>1. /\ IsJob(job[c]) /\ Flow(job[c]) /\ Reads(job[c]) /\ RelyOnGroups(job[c]) /\ RelyOnAccounts(job[c])
      /\ job[c].cmd \in AciCommand /\ job[c].cmd.op \in Ops
  BY OwnFacts
<1>2. job[c].pc = "container inspect" /\ job[c].cmd.op = "container inspect" /\ UNCHANGED <<groups, accounts>>
  BY <1>1 DEF Inspect, At, Flow, Ops
<1>3. CASE Finish(c, "not found")
  BY <1>2, <1>3, FinishKeeps DEF NoError
<1>4. CASE Becomes(c, [job[c] EXCEPT !.pc = "done", !.out = <<Cmd(c).id>>])
  BY <1>2, <1>4, ShowKeeps
<1> QED BY <1>3, <1>4 DEF Inspect

(* docker compose ls shows the state of each application that was read. *)
LEMMA ComposeListKeeps == ASSUME NEW c \in Clients, GroupsInv, ComposeList(c) PROVE GroupsInv'
<1>1. /\ IsJob(job[c]) /\ Flow(job[c]) /\ Reads(job[c]) /\ RelyOnGroups(job[c]) /\ RelyOnAccounts(job[c])
      /\ job[c].cmd \in AciCommand /\ job[c].cmd.op \in Ops
  BY OwnFacts
<1>2. job[c].pc = "listed" /\ job[c].cmd.op = "ls" /\ UNCHANGED <<groups, accounts>>
  BY DEF ComposeList, At, Cmd
<1>3. PICK seen : seen = job[c].seen
  OBVIOUS
<1>4. PICK apps : apps = { i \in DOMAIN seen : "compose" \in seen[i][2].tags }
  OBVIOUS
<1>5. PICK out : out = [i \in apps |-> <<seen[i][1], GroupState(seen[i][2])>>]
  OBVIOUS
<1>6. PICK k : CommandGoes(c, k, "done", job[c].todo, seen, out, job[c].error)
  <2>1. Becomes(c, [job[c] EXCEPT !.pc = "done", !.out = out])
    BY <1>3, <1>4, <1>5 DEF ComposeList
  <2> QED BY <1>1, <1>3, <2>1, OutFields
<1>7. \A i \in DOMAIN out : i \in DOMAIN seen /\ out[i] = <<seen[i][1], GroupState(seen[i][2])>>
  BY <1>4, <1>5
<1>8. Reads(k)
  BY <1>1, <1>2, <1>3, <1>6, <1>7 DEF CommandGoes, Reads, Listing
<1> QED BY <1>2, <1>6, <1>8, ListingKeeps DEF Listing

(* A call that fails ends the command. *)
LEMMA CallFailsKeeps == ASSUME NEW c \in Clients, GroupsInv, CallFails(c) PROVE GroupsInv'
  BY FinishKeeps DEF CallFails, Local, NoError

(* A group that was looked at. *)
PrunedFields(c, k, out, error) == CommandGoes(c, k, job[c].pc, job[c].todo, Tail(job[c].seen), out, error) /\ k.blind = job[c].blind

(* A group that prune spares. *)
LEMMA SparedFields ==
    ASSUME NEW c \in Clients, IsJob(job[c]), Becomes(c, [job[c] EXCEPT !.seen = Tail(@)])
    PROVE  \E k : PrunedFields(c, k, job[c].out, job[c].error)
<1>1. PICK seen : seen = Tail(job[c].seen)
  OBVIOUS
<1> DEFINE k == [job[c] EXCEPT !.seen = seen]
<1>2. IsJob(k) /\ k.cmd = job[c].cmd /\ k.blind = job[c].blind /\ k.pc = job[c].pc /\ k.todo = job[c].todo /\ k.seen = seen
      /\ k.out = job[c].out /\ k.error = job[c].error
  BY DEF IsJob
<1>3. Becomes(c, k)
  BY <1>1
<1> HIDE DEF k
<1>4. PrunedFields(c, k, job[c].out, job[c].error)
  BY <1>1, <1>2, <1>3 DEF PrunedFields, CommandGoes
<1> QED BY <1>4

Drops(j, k, seen, out, error) == k = [j EXCEPT !.seen = seen, !.out = out, !.error = error]

(* The fields of a prune after a group. *)
LEMMA PrunedRecord ==
    ASSUME NEW j, NEW seen, NEW out, NEW error, IsJob(j), NEW m, Drops(j, m, seen, out, error)
    PROVE  /\ IsJob(m) /\ m.cmd = j.cmd /\ m.blind = j.blind /\ m.pc = j.pc /\ m.todo = j.todo
           /\ m.seen = seen /\ m.out = out /\ m.error = error
<1> DEFINE q == [j EXCEPT !.seen = seen]
           r == [q EXCEPT !.out = out]
           k == [r EXCEPT !.error = error]
<1>1. IsJob(q) /\ q.cmd = j.cmd /\ q.blind = j.blind /\ q.pc = j.pc /\ q.todo = j.todo /\ q.seen = seen
  BY DEF IsJob
<1>2. k = m
  BY DEF Drops
<1> HIDE DEF q
<1>3. IsJob(r) /\ r.cmd = j.cmd /\ r.blind = j.blind /\ r.pc = j.pc /\ r.todo = j.todo /\ r.seen = seen /\ r.out = out
  BY <1>1 DEF IsJob
<1> HIDE DEF r
<1>4. IsJob(k) /\ k.cmd = j.cmd /\ k.blind = j.blind /\ k.pc = j.pc /\ k.todo = j.todo /\ k.seen = seen /\ k.out = out /\ k.error = error
  BY <1>3 DEF IsJob
<1> HIDE DEF k
<1> QED BY <1>2, <1>4

(* What is left to look at is as it was. *)
LEMMA PrunedReads ==
    ASSUME NEW j, NEW k, IsJob(j), Flow(j), Reads(j), j.pc = "listed", j.cmd.op = "prune", j.seen # <<>>,
           IsJob(k), k.cmd = j.cmd, k.blind = j.blind, k.pc = j.pc, k.todo = j.todo, k.seen = Tail(j.seen), k.out \in Seq(Name)
    PROVE  /\ Flow(k) /\ Reads(k) /\ Head(j.seen)[1] \in Name
           /\ \A gs : Current(j, gs) => \A hs : (\A n \in DOMAIN gs : n # Head(j.seen)[1] => n \in DOMAIN hs /\ hs[n] = gs[n]) => Current(k, hs)
<1>1. j.seen \in Seq(Name \X ContainerGroup) /\ j.todo \in Seq(Name) /\ Once(j.seen, j.todo) /\ j.todo = <<>>
  BY DEF Reads, Listing
<1>2. PICK seen \in Seq(Name \X ContainerGroup) : seen = j.seen
  BY <1>1
<1>3. PICK todo : todo = j.todo
  OBVIOUS
<1>4. seen # <<>> /\ Once(seen, todo)
  BY <1>1, <1>2, <1>3
<1>5. PICK rest : rest = Tail(seen)
  OBVIOUS
<1>6. /\ rest \in Seq(Name \X ContainerGroup) /\ Head(seen) \in Name \X ContainerGroup /\ Once(rest, todo)
      /\ \A i \in DOMAIN rest : (\E x \in DOMAIN seen : rest[i] = seen[x]) /\ rest[i][1] # Head(seen)[1]
  BY <1>4, <1>5, ReadDrop
<1>7. Flow(k)
  BY DEF Flow, Removing, Creating, Listing, Ops
<1>8. Reads(k)
  <2>1. k.seen = rest /\ k.todo = todo /\ todo = <<>> /\ todo \in Seq(Name)
    BY <1>1, <1>2, <1>3, <1>5
  <2> QED BY <1>6, <2>1 DEF Reads, Listing
<1>9. ASSUME NEW gs, NEW hs, Current(j, gs), \A n \in DOMAIN gs : n # Head(j.seen)[1] => n \in DOMAIN hs /\ hs[n] = gs[n]
      PROVE  Current(k, hs)
  <2> SUFFICES ASSUME ~j.blind, NEW i \in DOMAIN rest PROVE rest[i][1] \in DOMAIN hs /\ hs[rest[i][1]] = rest[i][2]
    BY <1>2, <1>5 DEF Current, Listing
  <2>1. PICK x \in DOMAIN seen : rest[i] = seen[x]
    BY <1>6
  <2>2. seen[x][1] \in DOMAIN gs /\ gs[seen[x][1]] = seen[x][2]
    BY <1>2, <1>9 DEF Current, Listing
  <2>3. rest[i][1] # Head(j.seen)[1]
    BY <1>2, <1>6
  <2> QED BY <1>9, <2>1, <2>2, <2>3
<1>10. Head(j.seen)[1] \in Name
  BY <1>2, <1>6
<1> QED BY <1>7, <1>8, <1>9, <1>10

(* A prune that goes on without a change: the group is spared, only listed, or its deletion failed. *)
LEMMA PrunedQuiet ==
    ASSUME NEW c \in Clients, GroupsInv, job[c].pc = "listed", job[c].cmd.op = "prune", job[c].seen # <<>>, UNCHANGED <<groups, accounts>>,
           NEW k, NEW out, NEW error, PrunedFields(c, k, out, error), out \in Seq(Name), error = NoError => job[c].error = NoError,
           out = job[c].out \/ job[c].cmd.dryRun \/ error # NoError
    PROVE  GroupsInv'
<1>1. /\ IsJob(job[c]) /\ Flow(job[c]) /\ Reads(job[c]) /\ RelyOnGroups(job[c]) /\ RelyOnAccounts(job[c])
      /\ job[c].cmd \in AciCommand /\ job[c].cmd.op \in Ops
  BY OwnFacts
<1>2. /\ IsJob(k) /\ k.cmd = job[c].cmd /\ k.blind = job[c].blind /\ k.pc = job[c].pc /\ k.todo = job[c].todo
      /\ k.seen = Tail(job[c].seen) /\ k.out = out /\ k.error = error
  BY DEF PrunedFields, CommandGoes
<1>3. Flow(k) /\ Reads(k) /\ Current(k, groups)
  <2>1. PICK j : j = job[c]
    OBVIOUS
  <2>2. Current(j, groups)
    BY <1>1, <2>1 DEF RelyOnGroups
  <2>3. /\ Flow(k) /\ Reads(k)
        /\ \A gs : Current(j, gs) => \A hs : (\A n \in DOMAIN gs : n # Head(j.seen)[1] => n \in DOMAIN hs /\ hs[n] = gs[n]) => Current(k, hs)
    BY <1>1, <1>2, <2>1, PrunedReads
  <2> QED BY <2>2, <2>3
<1>4. RelyOnGroups(k)
  BY <1>2, <1>3 DEF RelyOnGroups, Unused, NewName, StoppedRead, Removing
<1>5. RelyOnAccounts(k)
  BY <1>2 DEF RelyOnAccounts, TagRead, LastRead, Provided, Removing, Providing, Creating, Deploying
<1>6. Quiet(c, k)
  BY <1>2, <1>3, <1>4, <1>5 DEF Quiet, Still
<1> QED BY <1>6, QuietKeeps DEF PrunedFields

(* prune ends, or spares a group. *)
LEMMA PruneKeeps == ASSUME NEW c \in Clients, GroupsInv, Prune(c) PROVE GroupsInv'
<1>1. /\ IsJob(job[c]) /\ Flow(job[c]) /\ Reads(job[c]) /\ RelyOnGroups(job[c]) /\ RelyOnAccounts(job[c])
      /\ job[c].cmd \in AciCommand /\ job[c].cmd.op \in Ops
  BY OwnFacts
<1>2. job[c].pc = "listed" /\ job[c].cmd.op = "prune" /\ UNCHANGED <<groups, accounts>>
  BY DEF Prune, At, Cmd
<1>3. CASE Jump(c, "done")
  <2>1. PICK k : CommandGoes(c, k, "done", job[c].todo, job[c].seen, job[c].out, job[c].error)
    BY <1>1, <1>3, JumpFields
  <2>2. Reads(k)
    BY <1>1, <1>2, <2>1 DEF CommandGoes, Reads, Listing
  <2> QED BY <1>2, <2>1, <2>2, ListingKeeps DEF Listing
<1>4. CASE job[c].seen # <<>> /\ Becomes(c, [job[c] EXCEPT !.seen = Tail(@)])
  <2>1. PICK k : PrunedFields(c, k, job[c].out, job[c].error)
    BY <1>1, <1>4, SparedFields
  <2>2. job[c].out \in Seq(Name)
    BY <1>1, <1>2 DEF Reads, Listing
  <2> QED BY <1>2, <1>4, <2>1, <2>2, PrunedQuiet
<1> QED BY <1>3, <1>4 DEF Prune

-----------------------------------------------------------------------------
(* A command that changes something: what it becomes, and what is marked. *)
Follows(j, k) == IsJob(k) /\ k.cmd = j.cmd /\ k.blind = j.blind /\ k.todo = j.todo

(* The fields of a command at another place. *)
LEMMA PcRecord ==
    ASSUME NEW j, NEW p, IsJob(j)
    PROVE  LET k == [j EXCEPT !.pc = p]
           IN  Follows(j, k) /\ k.pc = p /\ k.seen = j.seen /\ k.out = j.out /\ k.error = j.error
  BY DEF Follows, IsJob

(* The fields of a command that ends. *)
LEMMA DoneRecord ==
    ASSUME NEW j, NEW e, IsJob(j)
    PROVE  LET k == [j EXCEPT !.pc = "done", !.error = e]
           IN  Follows(j, k) /\ k.pc = "done" /\ k.seen = j.seen /\ k.out = j.out /\ k.error = e
<1> DEFINE q == [j EXCEPT !.pc = "done"]
           k == [q EXCEPT !.error = e]
<1>1. Follows(j, q) /\ q.pc = "done" /\ q.seen = j.seen /\ q.out = j.out
  BY DEF Follows, IsJob
<1>2. k = [j EXCEPT !.pc = "done", !.error = e]
  OBVIOUS
<1> HIDE DEF q
<1>3. Follows(j, k) /\ k.pc = "done" /\ k.seen = j.seen /\ k.out = j.out /\ k.error = e
  BY <1>1 DEF Follows, IsJob
<1> HIDE DEF k
<1> QED BY <1>2, <1>3

(* All commands keep what the frames above ask for. *)
LEMMA ChangedFrame ==
    ASSUME NEW c \in Clients, NEW mine, GroupsInv, Changed(c, mine), mine.cmd = job[c].cmd, mine.blind = job[c].blind,
           mine.error = NoError => job[c].error = NoError
    PROVE  job'[c] = mine /\ Framed(Clients \ {c})
<1>1. /\ job' = [d \in Clients |-> job'[d]] /\ job'[c] = mine
      /\ \A d \in Clients \ {c} : NoticedBy(d, job[d].pc \notin {"done", Cmd(d).op})
  BY ChangedFields
<1>2. ASSUME NEW d \in Clients \ {c}
      PROVE  /\ job'[d].cmd = job[d].cmd /\ (job[d].blind => job'[d].blind) /\ job'[d].error = job[d].error
             /\ job'[d].pc = job[d].pc /\ job'[d].todo = job[d].todo /\ job'[d].out = job[d].out
  BY <1>1, <1>2 DEF NoticedBy
<1> QED BY <1>1, <1>2 DEF Framed

(* A change keeps the invariant when the client's own part and the common parts hold after it. *)
LEMMA MutationKeeps ==
    ASSUME NEW c \in Clients, NEW mine, GroupsInv, Changed(c, mine), OwnInv(mine, groups', accounts'), TagsKept(accounts, accounts'),
           GroupsDeployed(groups'), AccountsInv', PruneInv'
    PROVE  GroupsInv'
<1>1. /\ job' = [d \in Clients |-> job'[d]] /\ job'[c] = mine
      /\ \A d \in Clients \ {c} : NoticedBy(d, job[d].pc \notin {"done", Cmd(d).op})
  BY ChangedFields
<1>2. ASSUME NEW d \in Clients PROVE OwnInv(job'[d], groups', accounts')
  <2>1. CASE d = c
    BY <1>1, <2>1
  <2>2. CASE d # c
    <3>1. PICK r : r = (job[d].pc \notin {"done", Cmd(d).op})
      OBVIOUS
    <3>2. NoticedBy(d, r)
      BY <1>1, <2>2, <3>1
    <3>3. OwnInv(job[d], groups, accounts) /\ (job[d].pc \notin {"done", Cmd(d).op} => r)
      BY <3>1 DEF GroupsInv
    <3>4. PICK gs, as : gs = groups' /\ as = accounts'
      OBVIOUS
    <3>5. TagsKept(accounts, as)
      BY <3>4
    <3>6. OwnInv(job'[d], gs, as)
      BY <3>2, <3>3, <3>5, NoticedKeeps
    <3> QED BY <3>4, <3>6
  <2> QED BY <2>1, <2>2
<1> QED BY <1>1, <1>2 DEF GroupsInv

(* One that changes the groups. *)
LEMMA GroupMutation ==
    ASSUME NEW c \in Clients, NEW mine, GroupsInv, Changed(c, mine), accounts' = accounts, OwnInv(mine, groups', accounts),
           mine.cmd = job[c].cmd, mine.blind = job[c].blind, mine.error = NoError => job[c].error = NoError, Still(job[c], mine), GroupsDeployed(groups'),
           DOMAIN groups' \subseteq DOMAIN groups \/ job[c].cmd.op \in {"run", "up"},
           mine.error = NoError /\ ~job[c].cmd.dryRun /\ job[c].cmd.op = "prune"
               => \A n \in Range(mine.out) : n \in Range(job[c].out) \/ n \notin DOMAIN groups'
    PROVE  GroupsInv'
<1>1. job'[c] = mine /\ Framed(Clients \ {c})
  BY ChangedFrame
<1>2. AccountsInv'
  <2>1. \A d \in Clients \ (Clients \ {c}) : Still(job[d], job'[d])
    BY <1>1
  <2> QED BY <1>1, <2>1, AccountsFrame
<1>3. PruneInv'
  <2>1. \A d \in Clients \ (Clients \ {c}) : job'[d].error = NoError /\ ~job[d].cmd.dryRun /\ job[d].cmd.op = "prune"
             => \A n \in Range(job'[d].out) : n \in Range(job[d].out) \/ n \notin DOMAIN groups'
    BY <1>1
  <2> QED BY <1>1, <2>1, PruneFrame
<1>4. TagsKept(accounts, accounts') /\ OwnInv(mine, groups', accounts')
  BY DEF TagsKept
<1> QED BY <1>2, <1>3, <1>4, MutationKeeps

(* One that changes the accounts: an account that holds no share is awaited, was there before or is disturbed. *)
LEMMA AccountMutation ==
    ASSUME NEW c \in Clients, NEW mine, GroupsInv, Changed(c, mine), groups' = groups, OwnInv(mine, groups, accounts'), TagsKept(accounts, accounts'),
           mine.cmd = job[c].cmd, mine.blind = job[c].blind, mine.error = NoError => job[c].error = NoError,
           job[c].cmd.op = "prune" => mine.out = job[c].out, accounts' \in [DOMAIN accounts' -> StorageAccount],
           \A a \in DOMAIN accounts' : accounts'[a].shares = {} =>
               \/ a \in DOMAIN accounts /\ accounts[a].shares = {} /\ ~(job[c].pc \in {"share", "new share"} /\ WantedBy(job[c])[1] = a)
               \/ mine.blind \/ (\A d \in Clients : a \in job[d].cmd.before)
               \/ mine.pc \in {"share", "new share"} /\ WantedBy(mine)[1] = a
    PROVE  GroupsInv'
<1>1. job'[c] = mine /\ Framed(Clients \ {c})
  BY ChangedFrame
<1>2. AccountsInv
  BY DEF GroupsInv
<1>3. \A a \in DOMAIN accounts' : ~accounts'[a].tagged => \A d \in Clients : a \in job'[d].cmd.before
  BY <1>1, <1>2 DEF AccountsInv, Framed, TagsKept
<1>4. ASSUME NobodyDisturbed', NEW b \in Clients, NEW a \in DOMAIN accounts' \ job'[b].cmd.before, accounts'[a].shares = {}
      PROVE  \E d \in Clients : job'[d].pc \in {"share", "new share"} /\ WantedBy(job'[d])[1] = a
  <2>1. NobodyDisturbed /\ a \notin job[b].cmd.before /\ ~mine.blind
    BY <1>1, <1>4 DEF Framed, NobodyDisturbed
  <2>2. CASE a \in DOMAIN accounts /\ accounts[a].shares = {} /\ ~(job[c].pc \in {"share", "new share"} /\ WantedBy(job[c])[1] = a)
    <3>1. PICK d \in Clients : job[d].pc \in {"share", "new share"} /\ WantedBy(job[d])[1] = a
      BY <1>2, <2>1, <2>2, ZenonT(60) DEF AccountsInv
    <3>2. d \in Clients \ {c}
      BY <2>2, <3>1
    <3> QED BY <1>1, <3>1, <3>2 DEF Framed, WantedBy
  <2>3. CASE mine.pc \in {"share", "new share"} /\ WantedBy(mine)[1] = a
    BY <1>1, <2>3
  <2> QED BY <1>4, <2>1, <2>2, <2>3
<1>5. AccountsInv'
  BY <1>3, <1>4 DEF AccountsInv
<1>6. PruneInv'
  <2>1. \A d \in Clients \ (Clients \ {c}) : job'[d].error = NoError /\ ~job[d].cmd.dryRun /\ job[d].cmd.op = "prune"
             => \A n \in Range(job'[d].out) : n \in Range(job[d].out) \/ n \notin DOMAIN groups'
    BY <1>1
  <2> QED BY <1>1, <2>1, PruneFrame
<1>7. GroupsDeployed(groups') /\ OwnInv(mine, groups', accounts')
  BY DEF GroupsInv
<1> QED BY <1>5, <1>6, <1>7, MutationKeeps

(* What a command relies on once it has made its change. *)
LEMMA EndedOwn ==
    ASSUME NEW j, NEW k, NEW gs, NEW as, Flow(j), Reads(j), Follows(j, k), k.seen = j.seen, k.out = j.out, k.pc = "done", j.pc # "done"
    PROVE  OwnInv(k, gs, as)
<1>1. Flow(k)
  BY DEF Follows, Flow, Removing, Creating, Ops
<1>2. Reads(k)
  BY DEF Follows, Reads, Listing
<1>3. Current(k, gs) /\ Unused(k, gs) /\ NewName(k, gs) /\ StoppedRead(k, gs)
  BY DEF Current, Unused, NewName, StoppedRead, Removing
<1>4. TagRead(k, as) /\ LastRead(k, as) /\ Provided(k, as)
  BY DEF TagRead, LastRead, Provided, Removing, Providing, Creating, Deploying
<1> QED BY <1>1, <1>2, <1>3, <1>4 DEF OwnInv, Follows

(* A group was asked for: the command waits for it. *)
LEMMA DeployedOwn ==
    ASSUME NEW j, NEW k, NEW gs, NEW as, Flow(j), Provided(j, as), Follows(j, k), k.error = j.error, k.pc = "wait", j.pc \in {"write", "starting"}
    PROVE  OwnInv(k, gs, as)
<1>1. Flow(k)
  BY DEF Follows, Flow, Removing, Creating, Ops
<1>2. Reads(k)
  BY DEF Follows, Reads, Listing, Flow
<1>3. Current(k, gs) /\ Unused(k, gs) /\ NewName(k, gs) /\ StoppedRead(k, gs)
  BY DEF Current, Unused, NewName, StoppedRead, Removing
<1>4. TagRead(k, as) /\ LastRead(k, as)
  BY DEF TagRead, LastRead, Removing
<1>5. Provided(k, as)
  BY DEF Follows, Provided, Providing, Creating, Deploying, Flow
<1> QED BY <1>1, <1>2, <1>3, <1>4, <1>5 DEF OwnInv, Follows

(* The account was made: the share is next. *)
LEMMA SharedOwn ==
    ASSUME NEW j, NEW k, NEW gs, NEW as, NEW bs, Flow(j), Provided(j, as), Follows(j, k), k.error = j.error, k.pc = "share", j.pc = "account",
           \A v : IsShare(v, as) => IsShare(v, bs)
    PROVE  OwnInv(k, gs, bs)
<1>1. Flow(k)
  BY DEF Follows, Flow, Removing, Creating, Ops
<1>2. Reads(k)
  BY DEF Follows, Reads, Listing, Flow, Creating
<1>3. Current(k, gs) /\ Unused(k, gs) /\ NewName(k, gs) /\ StoppedRead(k, gs)
  BY DEF Current, Unused, NewName, StoppedRead, Removing
<1>4. TagRead(k, bs) /\ LastRead(k, bs)
  BY DEF TagRead, LastRead, Removing
<1>5. Provided(k, bs)
  BY DEF Follows, Provided, Providing, Creating, Deploying
<1> QED BY <1>1, <1>2, <1>3, <1>4, <1>5 DEF OwnInv, Follows

-----------------------------------------------------------------------------
(* The groups after a change. *)
LEMMA WithoutDeployed ==
    ASSUME NEW gs, NEW n, GroupsDeployed(gs)
    PROVE  GroupsDeployed(Without(gs, n)) /\ DOMAIN Without(gs, n) = DOMAIN gs \ {n} /\ \A m \in DOMAIN gs \ {n} : Without(gs, n)[m] = gs[m]
<1>1. PICK hs : hs = Without(gs, n)
  OBVIOUS
<1>2. DOMAIN hs = DOMAIN gs \ {n} /\ hs = [m \in DOMAIN gs \ {n} |-> gs[m]] /\ \A m \in DOMAIN hs : hs[m] = gs[m]
  BY <1>1 DEF Without
<1>3. IsFiniteSet(DOMAIN hs)
  BY <1>2, FS_Subset DEF GroupsDeployed
<1>4. hs \in [DOMAIN hs -> ContainerGroup]
  BY <1>2 DEF GroupsDeployed
<1>5. GroupsDeployed(hs)
  BY <1>2, <1>3, <1>4 DEF GroupsDeployed
<1> QED BY <1>1, <1>2, <1>5

(* A group whose containers all have one state. *)
LEMMA WithStateIs ==
    ASSUME NEW g \in ContainerGroup, NEW st \in State, NEW nd \in State
    PROVE  /\ WithState(g, st, nd) \in ContainerGroup /\ WithState(g, st, nd).node = nd /\ WithState(g, st, nd).tags = g.tags
           /\ WithState(g, st, nd).volumes = g.volumes
           /\ DOMAIN WithState(g, st, nd).containers = DOMAIN g.containers
           /\ \A i \in DOMAIN g.containers : /\ WithState(g, st, nd).containers[i].state = st
                                             /\ WithState(g, st, nd).containers[i].name = g.containers[i].name
<1>1. PICK cs \in Seq(ContainerOfGroup) : cs = g.containers
  BY DEF ContainerGroup
<1>2. PICK ds : ds = [i \in DOMAIN cs |-> [cs[i] EXCEPT !.state = st]]
  OBVIOUS
<1>3. PICK m \in Nat : m = Len(cs) /\ DOMAIN cs = 1..m
  OBVIOUS
<1>4. ASSUME NEW i \in 1..m PROVE ds[i] \in ContainerOfGroup /\ ds[i].state = st /\ ds[i].name = cs[i].name
  <2>1. PICK k \in ContainerOfGroup : k = cs[i]
    BY <1>3
  <2>2. ds[i] = [k EXCEPT !.state = st]
    BY <1>2, <1>3, <2>1
  <2> QED BY <2>1, <2>2 DEF ContainerOfGroup
<1>5. ds \in Seq(ContainerOfGroup) /\ DOMAIN ds = 1..m
  <2>1. ds = [i \in 1..m |-> ds[i]]
    BY <1>2, <1>3
  <2> QED BY <1>4, <2>1
<1> DEFINE q == [g EXCEPT !.containers = ds]
           r == [q EXCEPT !.node = nd]
<1>6. WithState(g, st, nd) = r
  BY <1>1, <1>2 DEF WithState
<1>7. q \in ContainerGroup /\ q.containers = ds /\ q.tags = g.tags /\ q.volumes = g.volumes
  BY <1>5 DEF ContainerGroup
<1> HIDE DEF q
<1>8. r \in ContainerGroup /\ r.containers = ds /\ r.tags = g.tags /\ r.volumes = g.volumes /\ r.node = nd
  BY <1>7 DEF ContainerGroup
<1> HIDE DEF r
<1> QED BY <1>1, <1>3, <1>4, <1>5, <1>6, <1>8

(* Such a group is deployed as the others are. *)
LEMMA WithStateDeployed ==
    ASSUME NEW gs, NEW n \in DOMAIN gs, GroupsDeployed(gs), NEW st \in State, NEW nd \in State, st = Running => nd = Running
    PROVE  LET hs == [gs EXCEPT ![n] = WithState(@, st, nd)]
           IN  GroupsDeployed(hs) /\ DOMAIN hs = DOMAIN gs
<1>1. PICK g : g = gs[n]
  OBVIOUS
<1>2. g \in ContainerGroup /\ \A i \in DOMAIN g.containers : "single" \in g.tags => g.containers[i].name = n
  BY <1>1 DEF GroupsDeployed
<1>3. PICK w : w = WithState(g, st, nd)
  OBVIOUS
<1>4. /\ w \in ContainerGroup /\ w.node = nd /\ w.tags = g.tags /\ DOMAIN w.containers = DOMAIN g.containers
      /\ \A i \in DOMAIN g.containers : w.containers[i].state = st /\ w.containers[i].name = g.containers[i].name
  BY <1>2, <1>3, WithStateIs
<1>5. PICK hs : hs = [gs EXCEPT ![n] = w]
  OBVIOUS
<1>6. gs \in [DOMAIN gs -> ContainerGroup]
  BY DEF GroupsDeployed
<1>7. hs \in [DOMAIN gs -> ContainerGroup] /\ hs[n] = w /\ \A m \in DOMAIN gs \ {n} : hs[m] = gs[m]
  BY <1>4, <1>5, <1>6
<1>8. DOMAIN hs = DOMAIN gs
  BY <1>7
<1>9. GroupsDeployed(hs)
  BY <1>2, <1>4, <1>7, <1>8 DEF GroupsDeployed
<1> QED BY <1>1, <1>3, <1>5, <1>8, <1>9

(* The group that a run or an up asks for. *)
LEMMA DefinedIs ==
    ASSUME NEW c, job[c].cmd \in AciCommand, job[c].cmd.op = "run" => Len(job[c].cmd.id) = 1
    PROVE  /\ Defined(c) \in ContainerGroup
           /\ \A i \in DOMAIN Defined(c).containers : /\ Defined(c).containers[i].state # Running
                                                      /\ "single" \in Defined(c).tags => Defined(c).containers[i].name = job[c].cmd.id
<1>1. PICK names : names = IF Cmd(c).op = "run" THEN <<Cmd(c).id>> ELSE Cmd(c).services
  OBVIOUS
<1>2. names \in Seq(Part)
  <2>1. CASE Cmd(c).op = "run"
    <3>1. PICK id \in Part : id = Cmd(c).id
      BY <2>1 DEF Part, Name, AciCommand, Cmd
    <3>2. names = <<id>>
      BY <1>1, <2>1, <3>1
    <3> QED BY <3>2
  <2>2. CASE Cmd(c).op # "run"
    <3>1. names = Cmd(c).services
      BY <1>1, <2>2
    <3> QED BY <3>1 DEF AciCommand, Cmd
  <2> QED BY <2>1, <2>2
<1>3. PICK all : all = IF Len(names) > 1 THEN Append(names, ComposeDNSSidecarName) ELSE names
  OBVIOUS
<1>4. all \in Seq(Part \cup {ComposeDNSSidecarName})
  <2>1. PICK dns : dns = ComposeDNSSidecarName
    OBVIOUS
  <2>2. names \in Seq(Part \cup {dns})
    BY <1>2
  <2>3. Append(names, dns) \in Seq(Part \cup {dns})
    BY <2>2
  <2> QED BY <1>3, <2>1, <2>2, <2>3
<1>5. Cmd(c).op = "run" => all = <<Cmd(c).id>>
  <2> SUFFICES ASSUME Cmd(c).op = "run" PROVE all = <<Cmd(c).id>>
    OBVIOUS
  <2>1. names = <<Cmd(c).id>>
    BY <1>1
  <2>2. Len(names) = 1
    BY <2>1
  <2> QED BY <1>3, <2>1, <2>2
<1>6. PICK m \in Nat : m = Len(all) /\ DOMAIN all = 1..m
  BY <1>4
<1>7. PICK cs : cs = [i \in DOMAIN all |-> Waiting(all[i])]
  OBVIOUS
<1>8. ASSUME NEW i \in 1..m PROVE cs[i] \in ContainerOfGroup /\ cs[i].state = "Waiting" /\ cs[i].name = all[i]
  <2>1. PICK n \in Part \cup {ComposeDNSSidecarName} : n = all[i]
    BY <1>4, <1>6
  <2>2. cs[i] = [name |-> n, state |-> "Waiting"]
    BY <1>6, <1>7, <2>1 DEF Waiting
  <2> QED BY <2>1, <2>2 DEF ContainerOfGroup, State
<1>9. cs \in Seq(ContainerOfGroup) /\ DOMAIN cs = 1..m
  <2>1. cs = [i \in 1..m |-> cs[i]]
    BY <1>6, <1>7
  <2> QED BY <1>8, <2>1
<1>10. PICK vs : vs = Range(Cmd(c).volumes)
  OBVIOUS
<1>11. vs \subseteq Volume
  <2>1. PICK v \in Seq(Volume) : v = Cmd(c).volumes
    BY DEF AciCommand, Cmd
  <2> QED BY <1>10, <2>1 DEF Range
<1>12. PICK tag \in {"single", "compose"} : tag = IF Cmd(c).op = "run" THEN "single" ELSE "compose"
  OBVIOUS
<1>13. Defined(c) = addTag([containers |-> cs, tags |-> {}, volumes |-> vs, node |-> "Pending"], tag)
  BY <1>1, <1>3, <1>7, <1>10, <1>12 DEF Defined, Group
<1>14. PICK g : g = Defined(c)
  OBVIOUS
<1>15. g = [containers |-> cs, tags |-> {tag}, volumes |-> vs, node |-> "Pending"]
  BY <1>13, <1>14 DEF addTag
<1>16. g \in ContainerGroup /\ g.containers = cs /\ g.tags = {tag}
  BY <1>9, <1>11, <1>15 DEF ContainerGroup, State
<1>17. ASSUME NEW i \in 1..m, "single" \in g.tags PROVE cs[i].name = job[c].cmd.id
  <2>1. all = <<Cmd(c).id>>
    BY <1>5, <1>12, <1>16, <1>17
  <2>2. Len(all) = 1 /\ all[1] = Cmd(c).id
    BY <2>1
  <2>3. i = 1
    BY <1>6, <2>2
  <2> QED BY <1>8, <2>2, <2>3 DEF Cmd
<1>18. \A i \in DOMAIN g.containers : g.containers[i].state # Running /\ ("single" \in g.tags => g.containers[i].name = job[c].cmd.id)
  BY <1>8, <1>9, <1>16, <1>17 DEF Running
<1> QED BY <1>14, <1>16, <1>18

(* A group is written. *)
LEMMA CreateOrUpdateKeeps == ASSUME NEW c \in Clients, GroupsInv, CreateOrUpdate(c) PROVE GroupsInv'
<1>1. /\ IsJob(job[c]) /\ Flow(job[c]) /\ Reads(job[c]) /\ RelyOnGroups(job[c]) /\ RelyOnAccounts(job[c])
      /\ job[c].cmd \in AciCommand /\ job[c].cmd.op \in Ops
  BY OwnFacts
<1>2. job[c].pc = "write" /\ job[c].cmd.op \in {"run", "up"} /\ (job[c].cmd.op = "run" => Len(job[c].cmd.id) = 1) /\ job[c].cmd.id \in Name
  BY <1>1 DEF CreateOrUpdate, At, Flow, AciCommand
<1>3. PICK g, id, D : g = Defined(c) /\ id = job[c].cmd.id /\ D = DOMAIN groups \cup {id}
  OBVIOUS
<1>4. /\ g \in ContainerGroup
      /\ \A i \in DOMAIN g.containers : g.containers[i].state # Running /\ ("single" \in g.tags => g.containers[i].name = id)
  BY <1>1, <1>2, <1>3, DefinedIs
<1>5. PICK hs : hs = [n \in D |-> IF n = id THEN g ELSE groups[n]]
  OBVIOUS
<1>6. groups' = hs
  BY <1>3, <1>5 DEF CreateOrUpdate, Cmd
<1>7. GroupsDeployed(groups)
  BY DEF GroupsInv
<1>8. DOMAIN hs = D /\ hs[id] = g /\ \A n \in DOMAIN groups \ {id} : hs[n] = groups[n]
  BY <1>3, <1>5
<1>9. IsFiniteSet(DOMAIN hs) /\ DOMAIN hs \subseteq Name
  BY <1>2, <1>3, <1>7, <1>8, FS_AddElement DEF GroupsDeployed
<1>10. ASSUME NEW n \in DOMAIN hs PROVE hs[n] \in ContainerGroup /\ ((n = id /\ hs[n] = g) \/ (n \in DOMAIN groups /\ hs[n] = groups[n]))
  <2>1. CASE n = id
    BY <1>4, <1>8, <2>1
  <2>2. CASE n # id
    BY <1>3, <1>7, <1>8, <2>2 DEF GroupsDeployed
  <2> QED BY <2>1, <2>2
<1>11. hs \in [DOMAIN hs -> ContainerGroup]
  BY <1>5, <1>8, <1>10
<1>12. GroupsDeployed(hs)
  <2>1. ASSUME NEW n \in DOMAIN hs, NEW i \in DOMAIN hs[n].containers
        PROVE  /\ hs[n].containers[i].state = Running => hs[n].node = Running
               /\ "single" \in hs[n].tags => hs[n].containers[i].name = n
    <3>1. CASE n = id /\ hs[n] = g
      BY <1>4, <2>1, <3>1
    <3>2. CASE n \in DOMAIN groups /\ hs[n] = groups[n]
      BY <1>7, <2>1, <3>2 DEF GroupsDeployed
    <3> QED BY <1>10, <3>1, <3>2
  <2> QED BY <1>9, <1>11, <2>1 DEF GroupsDeployed
<1>13. PICK k : k = [job[c] EXCEPT !.pc = "wait"]
  OBVIOUS
<1>14. Follows(job[c], k) /\ k.pc = "wait" /\ k.out = job[c].out /\ k.error = job[c].error
  BY <1>1, <1>13, PcRecord
<1>15. OwnInv(k, groups', accounts)
  <2>1. OwnInv(k, hs, accounts)
    BY <1>1, <1>2, <1>14, DeployedOwn DEF RelyOnAccounts
  <2> QED BY <1>6, <2>1
<1>16. Changed(c, k) /\ accounts' = accounts /\ GroupsDeployed(groups')
  BY <1>6, <1>12, <1>13 DEF CreateOrUpdate
<1> QED BY <1>2, <1>14, <1>15, <1>16, GroupMutation DEF Follows, Still

(* A change of one group's state, or its removal. *)
LEMMA StateMutation ==
    ASSUME NEW c \in Clients, NEW mine, GroupsInv, Changed(c, mine), accounts' = accounts, OwnInv(mine, groups', accounts), Follows(job[c], mine),
           GroupsDeployed(groups'), DOMAIN groups' \subseteq DOMAIN groups, job[c].pc \in {"starting", "stopping", "delete"}, mine.out = job[c].out,
           mine.error = NoError => job[c].error = NoError
    PROVE  GroupsInv'
  BY GroupMutation DEF Follows, Still

(* A group is started, or is gone. *)
LEMMA StartGroupKeeps == ASSUME NEW c \in Clients, GroupsInv, StartGroup(c) PROVE GroupsInv'
<1>1. /\ IsJob(job[c]) /\ Flow(job[c]) /\ Reads(job[c]) /\ RelyOnGroups(job[c]) /\ RelyOnAccounts(job[c])
      /\ job[c].cmd \in AciCommand /\ job[c].cmd.op \in Ops
  BY OwnFacts
<1>2. job[c].pc = "starting" /\ accounts' = accounts
  BY DEF StartGroup, At
<1>3. CASE Cmd(c).id \in DOMAIN groups
  <2>1. groups' = [groups EXCEPT ![Cmd(c).id] = WithState(@, "Waiting", "Pending")] /\ Changed(c, [job[c] EXCEPT !.pc = "wait"])
    BY <1>3 DEF StartGroup
  <2>2. GroupsDeployed(groups) /\ "Waiting" \in State /\ "Pending" \in State /\ "Waiting" # Running
    BY DEF GroupsInv, State, Running
  <2>3. GroupsDeployed(groups') /\ DOMAIN groups' = DOMAIN groups
    BY <1>3, <2>1, <2>2, WithStateDeployed
  <2>4. PICK k : k = [job[c] EXCEPT !.pc = "wait"]
    OBVIOUS
  <2>5. Follows(job[c], k) /\ k.pc = "wait" /\ k.out = job[c].out /\ k.error = job[c].error
    BY <1>1, <2>4, PcRecord
  <2>6. PICK gs : gs = groups'
    OBVIOUS
  <2>7. OwnInv(k, gs, accounts)
    BY <1>1, <1>2, <2>5, DeployedOwn DEF RelyOnAccounts
  <2>8. OwnInv(k, groups', accounts) /\ Changed(c, k)
    BY <2>1, <2>4, <2>6, <2>7
  <2> QED BY <1>2, <2>3, <2>5, <2>8, StateMutation
<1>4. CASE Cmd(c).id \notin DOMAIN groups
  <2>1. Finish(c, "not found") /\ UNCHANGED <<groups, accounts>>
    BY <1>4 DEF StartGroup
  <2> QED BY <1>2, <2>1, FinishKeeps DEF NoError
<1> QED BY <1>3, <1>4

(* A group is stopped, or is gone. *)
LEMMA stopACIContainerGroupKeeps == ASSUME NEW c \in Clients, GroupsInv, stopACIContainerGroup(c) PROVE GroupsInv'
<1>1. /\ IsJob(job[c]) /\ Flow(job[c]) /\ Reads(job[c]) /\ RelyOnGroups(job[c]) /\ RelyOnAccounts(job[c])
      /\ job[c].cmd \in AciCommand /\ job[c].cmd.op \in Ops
  BY OwnFacts
<1>2. job[c].pc = "stopping" /\ accounts' = accounts
  BY DEF stopACIContainerGroup, At
<1>3. CASE Cmd(c).id \in DOMAIN groups
  <2>1. groups' = [groups EXCEPT ![Cmd(c).id] = WithState(@, "Terminated", "Stopped")] /\ Changed(c, [job[c] EXCEPT !.pc = "done"])
    BY <1>3 DEF stopACIContainerGroup
  <2>2. GroupsDeployed(groups) /\ "Terminated" \in State /\ "Stopped" \in State /\ "Terminated" # Running
    BY DEF GroupsInv, State, Running
  <2>3. GroupsDeployed(groups') /\ DOMAIN groups' = DOMAIN groups
    BY <1>3, <2>1, <2>2, WithStateDeployed
  <2>4. PICK k : k = [job[c] EXCEPT !.pc = "done"]
    OBVIOUS
  <2>5. Follows(job[c], k) /\ k.pc = "done" /\ k.seen = job[c].seen /\ k.out = job[c].out /\ k.error = job[c].error
    BY <1>1, <2>4, PcRecord
  <2>6. PICK gs : gs = groups'
    OBVIOUS
  <2>7. OwnInv(k, gs, accounts)
    BY <1>1, <1>2, <2>5, EndedOwn
  <2>8. OwnInv(k, groups', accounts) /\ Changed(c, k)
    BY <2>1, <2>4, <2>6, <2>7
  <2> QED BY <1>2, <2>3, <2>5, <2>8, StateMutation
<1>4. CASE Cmd(c).id \notin DOMAIN groups
  <2>1. Finish(c, "not found") /\ UNCHANGED <<groups, accounts>>
    BY <1>4 DEF stopACIContainerGroup
  <2> QED BY <1>2, <2>1, FinishKeeps DEF NoError
<1> QED BY <1>3, <1>4

(* A group is deleted, whether the answer comes too early or not, or is gone. *)
LEMMA deleteACIContainerGroupKeeps == ASSUME NEW c \in Clients, GroupsInv, deleteACIContainerGroup(c) PROVE GroupsInv'
<1>1. /\ IsJob(job[c]) /\ Flow(job[c]) /\ Reads(job[c]) /\ RelyOnGroups(job[c]) /\ RelyOnAccounts(job[c])
      /\ job[c].cmd \in AciCommand /\ job[c].cmd.op \in Ops
  BY OwnFacts
<1>2. job[c].pc = "delete" /\ accounts' = accounts
  BY DEF deleteACIContainerGroup, At
<1>3. CASE Cmd(c).id \in DOMAIN groups
  <2>1. PICK e \in {NoError, "incomplete"} : groups' = Without(groups, Cmd(c).id) /\ Changed(c, [job[c] EXCEPT !.pc = "done", !.error = e])
    BY <1>3 DEF deleteACIContainerGroup
  <2>2. GroupsDeployed(groups)
    BY DEF GroupsInv
  <2>3. GroupsDeployed(groups') /\ DOMAIN groups' \subseteq DOMAIN groups
    <3>1. PICK id, gs : id = Cmd(c).id /\ gs = groups
      OBVIOUS
    <3>2. GroupsDeployed(Without(gs, id)) /\ DOMAIN Without(gs, id) = DOMAIN gs \ {id}
      BY <2>2, <3>1, WithoutDeployed
    <3>3. groups' = Without(gs, id)
      BY <2>1, <3>1
    <3> QED BY <3>1, <3>2, <3>3
  <2>4. PICK k : k = [job[c] EXCEPT !.pc = "done", !.error = e]
    OBVIOUS
  <2>5. Follows(job[c], k) /\ k.pc = "done" /\ k.seen = job[c].seen /\ k.out = job[c].out /\ k.error = e
    BY <1>1, <2>4, DoneRecord
  <2>6. PICK gs : gs = groups'
    OBVIOUS
  <2>7. OwnInv(k, gs, accounts)
    BY <1>1, <1>2, <2>5, EndedOwn
  <2>8. OwnInv(k, groups', accounts) /\ Changed(c, k)
    BY <2>1, <2>4, <2>6, <2>7
  <2>9. job[c].error = NoError
    BY <1>1, <1>2 DEF Flow
  <2> QED BY <1>2, <2>3, <2>5, <2>8, <2>9, StateMutation
<1>4. CASE Cmd(c).id \notin DOMAIN groups
  <2>1. Finish(c, "not found") /\ UNCHANGED <<groups, accounts>>
    BY <1>4 DEF deleteACIContainerGroup
  <2> QED BY <1>2, <2>1, FinishKeeps DEF NoError
<1> QED BY <1>3, <1>4

(* Prune takes away a group that it read. *)
Told(j, error) == IF j.error = NoError THEN error ELSE j.error
Dropped(j, error) == [j EXCEPT !.seen = Tail(j.seen), !.out = Append(j.out, Head(j.seen)[1]), !.error = Told(j, error)]

(* The fields of such a prune, and that what it names are names. *)
LEMMA DroppedFields ==
    ASSUME NEW c \in Clients, NEW error, GroupsInv, job[c].pc = "listed", job[c].cmd.op = "prune", job[c].seen # <<>>
    PROVE  /\ IsJob(Dropped(job[c], error)) /\ Dropped(job[c], error).cmd = job[c].cmd /\ Dropped(job[c], error).blind = job[c].blind
           /\ Dropped(job[c], error).pc = job[c].pc /\ Dropped(job[c], error).todo = job[c].todo
           /\ Dropped(job[c], error).seen = Tail(job[c].seen) /\ Dropped(job[c], error).out = Append(job[c].out, Head(job[c].seen)[1])
           /\ Dropped(job[c], error).error = Told(job[c], error)
           /\ Head(job[c].seen)[1] \in Name /\ job[c].out \in Seq(Name) /\ Append(job[c].out, Head(job[c].seen)[1]) \in Seq(Name)
           /\ job[c].seen \in Seq(Name \X ContainerGroup) /\ Once(job[c].seen, job[c].todo)
<1>1. /\ IsJob(job[c]) /\ Flow(job[c]) /\ Reads(job[c]) /\ RelyOnGroups(job[c]) /\ RelyOnAccounts(job[c])
      /\ job[c].cmd \in AciCommand /\ job[c].cmd.op \in Ops
  BY OwnFacts
<1>2. job[c].out \in Seq(Name) /\ job[c].seen \in Seq(Name \X ContainerGroup) /\ Once(job[c].seen, job[c].todo)
  BY <1>1 DEF Reads, Listing
<1>3. Head(job[c].seen)[1] \in Name
  <2>1. PICK seen \in Seq(Name \X ContainerGroup) : seen = job[c].seen
    BY <1>2
  <2>2. seen # <<>> /\ Once(seen, job[c].todo)
    BY <1>2, <2>1
  <2>3. Head(seen) \in Name \X ContainerGroup
    BY <2>2, ReadDrop
  <2> QED BY <2>1, <2>3
<1>4. Append(job[c].out, Head(job[c].seen)[1]) \in Seq(Name)
  BY <1>2, <1>3
<1>5. PICK j, seen, out, e : j = job[c] /\ seen = Tail(job[c].seen) /\ out = Append(job[c].out, Head(job[c].seen)[1]) /\ e = Told(job[c], error)
  OBVIOUS
<1>6. PICK k : Drops(j, k, seen, out, e)
  BY DEF Drops
<1>7. IsJob(k) /\ k.cmd = j.cmd /\ k.blind = j.blind /\ k.pc = j.pc /\ k.todo = j.todo /\ k.seen = seen /\ k.out = out /\ k.error = e
  <2>1. IsJob(j)
    BY <1>1, <1>5
  <2> QED BY <1>6, <2>1, PrunedRecord
<1>8. Dropped(job[c], error) = k
  BY <1>5, <1>6 DEF Dropped, Drops
<1> QED BY <1>2, <1>3, <1>4, <1>5, <1>7, <1>8

(* prune lists a group, deletes it or fails to: the groups it has still to look at are as they were. *)
LEMMA PruneGroupKeeps == ASSUME NEW c \in Clients, GroupsInv, PruneGroup(c) PROVE GroupsInv'
<1>1. /\ IsJob(job[c]) /\ Flow(job[c]) /\ Reads(job[c]) /\ RelyOnGroups(job[c]) /\ RelyOnAccounts(job[c])
      /\ job[c].cmd \in AciCommand /\ job[c].cmd.op \in Ops
  BY OwnFacts
<1>2. job[c].pc = "listed" /\ job[c].cmd.op = "prune" /\ job[c].seen # <<>> /\ accounts' = accounts
  BY DEF PruneGroup, At, Cmd
<1>3. PICK name : name = Head(job[c].seen)[1]
  OBVIOUS
<1>4. \/ Cmd(c).dryRun /\ Becomes(c, Dropped(job[c], NoError)) /\ groups' = groups
      \/ ~Cmd(c).dryRun /\ groups' = Without(groups, name) /\ \E error \in {NoError, "incomplete"} : Changed(c, Dropped(job[c], error))
      \/ ~Cmd(c).dryRun /\ Becomes(c, Dropped(job[c], "api")) /\ groups' = groups
  BY <1>3 DEF PruneGroup, Dropped, Told
<1>5. CASE Cmd(c).dryRun /\ Becomes(c, Dropped(job[c], NoError)) /\ groups' = groups
  <2>1. PICK k : k = Dropped(job[c], NoError)
    OBVIOUS
  <2>2. PICK out : out = Append(job[c].out, Head(job[c].seen)[1])
    OBVIOUS
  <2>3. PrunedFields(c, k, out, job[c].error) /\ out \in Seq(Name)
    BY <1>2, <1>5, <2>1, <2>2, DroppedFields DEF PrunedFields, CommandGoes, Told
  <2> QED BY <1>2, <1>5, <2>3, PrunedQuiet DEF Cmd
<1>6. CASE Becomes(c, Dropped(job[c], "api")) /\ groups' = groups
  <2>1. PICK k : k = Dropped(job[c], "api")
    OBVIOUS
  <2>2. PICK out : out = Append(job[c].out, Head(job[c].seen)[1])
    OBVIOUS
  <2>3. PICK error : error = Told(job[c], "api") /\ error # NoError
    BY DEF Told, NoError
  <2>4. PrunedFields(c, k, out, error) /\ out \in Seq(Name)
    BY <1>2, <1>6, <2>1, <2>2, <2>3, DroppedFields DEF PrunedFields, CommandGoes
  <2> QED BY <1>2, <1>6, <2>3, <2>4, PrunedQuiet
<1>7. CASE groups' = Without(groups, name) /\ \E error \in {NoError, "incomplete"} : Changed(c, Dropped(job[c], error))
  <2>1. PICK error \in {NoError, "incomplete"} : Changed(c, Dropped(job[c], error))
    BY <1>7
  <2>2. PICK k : k = Dropped(job[c], error)
    OBVIOUS
  <2>3. PICK out : out = Append(job[c].out, name)
    OBVIOUS
  <2>4. /\ IsJob(k) /\ k.cmd = job[c].cmd /\ k.blind = job[c].blind /\ k.pc = job[c].pc /\ k.todo = job[c].todo /\ k.seen = Tail(job[c].seen)
        /\ k.out = out /\ k.error = Told(job[c], error) /\ name \in Name /\ job[c].out \in Seq(Name) /\ out \in Seq(Name)
    BY <1>2, <1>3, <2>2, <2>3, DroppedFields
  <2>5. GroupsDeployed(groups)
    BY DEF GroupsInv
  <2>6. GroupsDeployed(groups') /\ DOMAIN groups' = DOMAIN groups \ {name} /\ \A n \in DOMAIN groups \ {name} : groups'[n] = groups[n]
    BY <1>7, <2>5, WithoutDeployed
  <2>7. Flow(k) /\ Reads(k) /\ Current(k, groups')
    <3>1. PICK j, hs : j = job[c] /\ hs = groups'
      OBVIOUS
    <3>2. Current(j, groups)
      BY <1>1, <3>1 DEF RelyOnGroups
    <3>3. /\ Flow(k) /\ Reads(k)
          /\ \A gs : Current(j, gs) => \A fs : (\A n \in DOMAIN gs : n # Head(j.seen)[1] => n \in DOMAIN fs /\ fs[n] = gs[n]) => Current(k, fs)
      BY <1>1, <1>2, <2>4, <3>1, PrunedReads
    <3>4. \A n \in DOMAIN groups : n # Head(j.seen)[1] => n \in DOMAIN hs /\ hs[n] = groups[n]
      BY <1>3, <2>6, <3>1
    <3> QED BY <3>1, <3>2, <3>3, <3>4
  <2>8. PICK gs : gs = groups'
    OBVIOUS
  <2>9. Unused(k, gs) /\ NewName(k, gs) /\ StoppedRead(k, gs)
    BY <1>2, <2>4 DEF Unused, NewName, StoppedRead, Removing
  <2>10. TagRead(k, accounts) /\ LastRead(k, accounts) /\ Provided(k, accounts)
    BY <1>2, <2>4 DEF TagRead, LastRead, Provided, Removing
  <2>11. OwnInv(k, groups', accounts)
    BY <2>4, <2>7, <2>8, <2>9, <2>10 DEF OwnInv
  <2>12. \A n \in Range(k.out) : n \in Range(job[c].out) \/ n \notin DOMAIN groups'
    <3>1. PICK s \in Seq(Name) : s = job[c].out
      BY <2>4
    <3>2. PICK m \in Nat : m = Len(s) /\ DOMAIN s = 1..m
      OBVIOUS
    <3>3. DOMAIN out = 1..(m + 1) /\ out[m + 1] = name /\ \A i \in 1..m : out[i] = s[i]
      BY <2>3, <2>4, <3>1, <3>2, AppendProperties
    <3>4. ASSUME NEW i \in 1..(m + 1) PROVE i = m + 1 \/ i \in 1..m
      OBVIOUS
    <3> QED BY <2>4, <2>6, <3>1, <3>2, <3>3, <3>4 DEF Range
  <2>13. (k.error = NoError => job[c].error = NoError) /\ Still(job[c], k) /\ Changed(c, k)
    BY <1>2, <2>1, <2>2, <2>4 DEF Told, Still
  <2> QED BY <1>2, <2>4, <2>6, <2>11, <2>12, <2>13, GroupMutation
<1> QED BY <1>4, <1>5, <1>6, <1>7

-----------------------------------------------------------------------------
(* An account is made, or gets the tag: the client awaits its share. *)
LEMMA CreateAccountKeeps == ASSUME NEW c \in Clients, GroupsInv, CreateAccount(c) PROVE GroupsInv'
<1>1. /\ IsJob(job[c]) /\ Flow(job[c]) /\ Reads(job[c]) /\ RelyOnGroups(job[c]) /\ RelyOnAccounts(job[c])
      /\ job[c].cmd \in AciCommand /\ job[c].cmd.op \in Ops
  BY OwnFacts
<1>2. job[c].pc = "account" /\ groups' = groups
  BY DEF CreateAccount, At
<1>3. PICK name : name = Wanted(c)[1]
  OBVIOUS
<1>4. PICK had : had = IF name \in DOMAIN accounts THEN accounts[name].shares ELSE {}
  OBVIOUS
<1>5. accounts \in [DOMAIN accounts -> StorageAccount]
  BY DEF GroupsInv, AccountsInv
<1>6. had \in SUBSET STRING
  BY <1>4, <1>5 DEF StorageAccount
<1>7. PICK as : as = [a \in DOMAIN accounts \cup {name} |-> IF a = name THEN [tagged |-> TRUE, shares |-> had] ELSE accounts[a]]
  OBVIOUS
<1>8. accounts' = as
  BY <1>3, <1>4, <1>7 DEF CreateAccount
<1>9. /\ DOMAIN as = DOMAIN accounts \cup {name} /\ as[name].tagged /\ as[name].shares = had
      /\ \A a \in DOMAIN accounts \ {name} : as[a] = accounts[a]
  BY <1>7
<1>10. as \in [DOMAIN as -> StorageAccount]
  BY <1>5, <1>6, <1>7 DEF StorageAccount
<1>11. TagsKept(accounts, as) /\ \A v : IsShare(v, accounts) => IsShare(v, as)
  BY <1>4, <1>9 DEF TagsKept, IsShare
<1>12. PICK k : k = [job[c] EXCEPT !.pc = "share"]
  OBVIOUS
<1>13. Follows(job[c], k) /\ k.pc = "share" /\ k.out = job[c].out /\ k.error = job[c].error
  BY <1>1, <1>12, PcRecord
<1>14. OwnInv(k, groups, as)
  BY <1>1, <1>2, <1>11, <1>13, SharedOwn DEF RelyOnAccounts
<1>15. WantedBy(k)[1] = name
  BY <1>3, <1>13 DEF Follows, WantedBy, Wanted, Cmd
<1>16. \A a \in DOMAIN as : as[a].shares = {} => \/ a \in DOMAIN accounts /\ accounts[a].shares = {}
                                                \/ a = name
  BY <1>9
<1>17. Changed(c, k)
  BY <1>12 DEF CreateAccount
<1> QED BY <1>2, <1>8, <1>10, <1>11, <1>13, <1>14, <1>15, <1>16, <1>17, AccountMutation DEF Follows

(* A share is made, or its account is gone. *)
LEMMA CreateShareKeeps == ASSUME NEW c \in Clients, GroupsInv, CreateShare(c) PROVE GroupsInv'
<1>1. /\ IsJob(job[c]) /\ Flow(job[c]) /\ Reads(job[c]) /\ RelyOnGroups(job[c]) /\ RelyOnAccounts(job[c])
      /\ job[c].cmd \in AciCommand /\ job[c].cmd.op \in Ops
  BY OwnFacts
<1>2. job[c].pc = "new share" /\ groups' = groups /\ job[c].cmd.op \in {"up", "volume create"}
  BY <1>1 DEF CreateShare, At, Flow, Creating
<1>3. PICK name, share : name = Wanted(c)[1] /\ share = Wanted(c)[2]
  OBVIOUS
<1>4. CASE name \notin DOMAIN accounts
  <2>1. Finish(c, "account gone") /\ UNCHANGED <<groups, accounts>>
    BY <1>3, <1>4 DEF CreateShare
  <2> QED BY <1>2, <2>1, FinishKeeps DEF NoError
<1>5. CASE name \in DOMAIN accounts
  <2>1. accounts \in [DOMAIN accounts -> StorageAccount]
    BY DEF GroupsInv, AccountsInv
  <2>2. share \in STRING
    <3>1. CASE job[c].cmd.op = "volume create"
      <4>1. PICK v \in Seq(STRING) : v = job[c].cmd.volume
        BY <1>1 DEF AciCommand
      <4>2. Len(v) = 2 /\ share = v[2]
        BY <1>1, <1>3, <3>1, <4>1 DEF Flow, Wanted, Cmd
      <4>3. v[2] \in STRING
        BY <4>2
      <4> QED BY <4>2, <4>3
    <3>2. CASE job[c].cmd.op = "up"
      <4>1. PICK todo \in Seq(Volume) : todo = job[c].todo /\ todo # <<>>
        BY <1>1, <1>2, <3>2 DEF RelyOnAccounts, Provided, Providing, Creating
      <4>2. Head(todo) \in Volume /\ share = Head(todo)[2]
        BY <1>3, <4>1, RangeTail DEF Wanted
      <4> QED BY <4>2 DEF Volume
    <3> QED BY <1>2, <3>1, <3>2
  <2>3. PICK old \in StorageAccount : old = accounts[name]
    BY <1>5, <2>1
  <2>4. PICK new : new = [old EXCEPT !.shares = old.shares \cup {share}]
    OBVIOUS
  <2>5. new \in StorageAccount /\ new.tagged = old.tagged /\ new.shares = old.shares \cup {share}
    BY <2>2, <2>3, <2>4 DEF StorageAccount
  <2>6. PICK as : as = [accounts EXCEPT ![name] = new]
    OBVIOUS
  <2>7. accounts' = as /\ Changed(c, AfterShare(c))
    BY <1>3, <1>5, <2>3, <2>4, <2>6 DEF CreateShare
  <2>8. as \in [DOMAIN accounts -> StorageAccount] /\ as[name] = new /\ \A a \in DOMAIN accounts \ {name} : as[a] = accounts[a]
    BY <1>5, <2>1, <2>5, <2>6
  <2>9. DOMAIN as = DOMAIN accounts
    BY <2>8
  <2>10. TagsKept(accounts, as) /\ IsShare(Wanted(c), as) /\ \A v \in Volume : IsShare(v, accounts) => IsShare(v, as)
    BY <1>3, <1>5, <2>3, <2>5, <2>8, <2>9 DEF TagsKept, IsShare
  <2>11. PICK k : k = AfterShare(c)
    OBVIOUS
  <2>12. k.cmd = job[c].cmd /\ k.blind = job[c].blind /\ k.out = job[c].out /\ k.error = job[c].error
    BY <1>1, <2>11, AfterFields
  <2>13. OwnInv(k, groups, as)
    BY <1>2, <2>10, <2>11, AfterOwn DEF Providing, Creating
  <2>14. WantedBy(job[c])[1] = name
    BY <1>3 DEF WantedBy, Wanted, Cmd
  <2>15. \A a \in DOMAIN as : as[a].shares = {} => a \in DOMAIN accounts /\ accounts[a].shares = {} /\ a # name
    BY <2>5, <2>8, <2>9
  <2>16. Changed(c, k) /\ OwnInv(k, groups, accounts') /\ TagsKept(accounts, accounts') /\ accounts' \in [DOMAIN accounts' -> StorageAccount]
    BY <2>7, <2>8, <2>9, <2>10, <2>11, <2>13
  <2>17. ASSUME NEW a \in DOMAIN accounts', accounts'[a].shares = {}
         PROVE  \/ a \in DOMAIN accounts /\ accounts[a].shares = {} /\ ~(job[c].pc \in {"share", "new share"} /\ WantedBy(job[c])[1] = a)
                \/ k.blind \/ (\A d \in Clients : a \in job[d].cmd.before)
                \/ k.pc \in {"share", "new share"} /\ WantedBy(k)[1] = a
    BY <2>7, <2>14, <2>15, <2>17
  <2> QED BY <1>2, <2>12, <2>16, <2>17, AccountMutation
<1> QED BY <1>4, <1>5

(* An account is deleted, or is gone. *)
LEMMA DeleteAccountKeeps == ASSUME NEW c \in Clients, GroupsInv, DeleteAccount(c) PROVE GroupsInv'
<1>1. /\ IsJob(job[c]) /\ Flow(job[c]) /\ Reads(job[c]) /\ RelyOnGroups(job[c]) /\ RelyOnAccounts(job[c])
      /\ job[c].cmd \in AciCommand /\ job[c].cmd.op \in Ops
  BY OwnFacts
<1>2. job[c].pc = "account rm" /\ groups' = groups
  BY DEF DeleteAccount, At
<1>3. PICK name : name = Cmd(c).volume[1]
  OBVIOUS
<1>4. CASE name \notin DOMAIN accounts
  <2>1. Finish(c, "not found") /\ UNCHANGED <<groups, accounts>>
    BY <1>3, <1>4 DEF DeleteAccount
  <2> QED BY <1>2, <2>1, FinishKeeps DEF NoError
<1>5. CASE name \in DOMAIN accounts
  <2>1. PICK as : as = Without(accounts, name)
    OBVIOUS
  <2>2. accounts' = as /\ Changed(c, [job[c] EXCEPT !.pc = "done"])
    BY <1>3, <1>5, <2>1 DEF DeleteAccount
  <2>3. DOMAIN as = DOMAIN accounts \ {name} /\ as = [a \in DOMAIN accounts \ {name} |-> accounts[a]] /\ \A a \in DOMAIN as : as[a] = accounts[a]
    BY <2>1 DEF Without
  <2>4. as \in [DOMAIN as -> StorageAccount]
    BY <2>3 DEF GroupsInv, AccountsInv
  <2>5. TagsKept(accounts, as)
    BY <2>3 DEF TagsKept
  <2>6. PICK k : k = [job[c] EXCEPT !.pc = "done"]
    OBVIOUS
  <2>7. Follows(job[c], k) /\ k.pc = "done" /\ k.seen = job[c].seen /\ k.out = job[c].out /\ k.error = job[c].error
    BY <1>1, <2>6, PcRecord
  <2>8. OwnInv(k, groups, as)
    BY <1>1, <1>2, <2>7, EndedOwn
  <2> QED BY <1>2, <2>2, <2>3, <2>4, <2>5, <2>6, <2>7, <2>8, AccountMutation DEF Follows
<1> QED BY <1>4, <1>5

(* A share is deleted: an account that is left without one was there before, or somebody came between. *)
LEMMA DeleteShareKeeps == ASSUME NEW c \in Clients, GroupsInv, DeleteShare(c) PROVE GroupsInv'
<1>1. /\ IsJob(job[c]) /\ Flow(job[c]) /\ Reads(job[c]) /\ RelyOnGroups(job[c]) /\ RelyOnAccounts(job[c])
      /\ job[c].cmd \in AciCommand /\ job[c].cmd.op \in Ops
  BY OwnFacts
<1>2. job[c].pc = "share rm" /\ groups' = groups
  BY DEF DeleteShare, At
<1>3. PICK name, share : name = Cmd(c).volume[1] /\ share = Cmd(c).volume[2]
  OBVIOUS
<1>4. CASE ~HasShare(name, share)
  <2>1. Finish(c, "not found") /\ UNCHANGED <<groups, accounts>>
    BY <1>3, <1>4 DEF DeleteShare
  <2> QED BY <1>2, <2>1, FinishKeeps DEF NoError
<1>5. CASE HasShare(name, share)
  <2>1. accounts \in [DOMAIN accounts -> StorageAccount] /\ name \in DOMAIN accounts /\ share \in accounts[name].shares
    BY <1>5 DEF GroupsInv, AccountsInv, HasShare
  <2>2. PICK old \in StorageAccount : old = accounts[name]
    BY <2>1
  <2>3. PICK new : new = [old EXCEPT !.shares = old.shares \ {share}]
    OBVIOUS
  <2>4. new \in StorageAccount /\ new.tagged = old.tagged /\ new.shares = old.shares \ {share}
    BY <2>2, <2>3 DEF StorageAccount
  <2>5. PICK as : as = [accounts EXCEPT ![name] = new]
    OBVIOUS
  <2>6. accounts' = as /\ Changed(c, [job[c] EXCEPT !.pc = "done"])
    BY <1>3, <1>5, <2>2, <2>3, <2>5 DEF DeleteShare
  <2>7. as \in [DOMAIN accounts -> StorageAccount] /\ as[name] = new /\ \A a \in DOMAIN accounts \ {name} : as[a] = accounts[a]
    BY <2>1, <2>4, <2>5
  <2>8. DOMAIN as = DOMAIN accounts
    BY <2>7
  <2>9. TagsKept(accounts, as)
    BY <2>1, <2>2, <2>4, <2>7, <2>8 DEF TagsKept
  <2>10. PICK k : k = [job[c] EXCEPT !.pc = "done"]
    OBVIOUS
  <2>11. Follows(job[c], k) /\ k.pc = "done" /\ k.seen = job[c].seen /\ k.out = job[c].out /\ k.error = job[c].error
    BY <1>1, <2>10, PcRecord
  <2>12. OwnInv(k, groups, as)
    BY <1>1, <1>2, <2>11, EndedOwn
  <2>13. new.shares = {} => job[c].blind \/ \A d \in Clients : name \in job[d].cmd.before
    <3> SUFFICES ASSUME new.shares = {}, ~job[c].blind PROVE \A d \in Clients : name \in job[d].cmd.before
      OBVIOUS
    <3>1. accounts[name].shares = {share}
      BY <2>1, <2>2, <2>4
    <3>2. ~accounts[name].tagged
      BY <1>1, <1>2, <1>3, <2>1, <3>1 DEF RelyOnAccounts, LastRead, Removing, Cmd
    <3> QED BY <2>1, <3>2 DEF GroupsInv, AccountsInv
  <2>14. \A a \in DOMAIN as : as[a].shares = {} => \/ a \in DOMAIN accounts /\ accounts[a].shares = {}
                                                  \/ job[c].blind \/ \A d \in Clients : a \in job[d].cmd.before
    BY <2>7, <2>8, <2>13
  <2>16. Changed(c, k) /\ OwnInv(k, groups, accounts') /\ TagsKept(accounts, accounts') /\ accounts' \in [DOMAIN accounts' -> StorageAccount]
    BY <2>6, <2>7, <2>8, <2>9, <2>10, <2>12
  <2>17. ASSUME NEW a \in DOMAIN accounts', accounts'[a].shares = {}
         PROVE  \/ a \in DOMAIN accounts /\ accounts[a].shares = {} /\ ~(job[c].pc \in {"share", "new share"} /\ WantedBy(job[c])[1] = a)
                \/ k.blind \/ (\A d \in Clients : a \in job[d].cmd.before)
                \/ k.pc \in {"share", "new share"} /\ WantedBy(k)[1] = a
    BY <1>2, <2>6, <2>11, <2>14, <2>17 DEF Follows
  <2> QED BY <1>2, <2>11, <2>16, <2>17, AccountMutation DEF Follows
<1> QED BY <1>4, <1>5

(* Azure brings a group up. *)
LEMMA ProvisionedKeeps == ASSUME NEW n \in DOMAIN groups, GroupsInv, Provisioned(n) PROVE GroupsInv'
<1>1. accounts' = accounts /\ groups' = [groups EXCEPT ![n] = WithState(@, Running, Running)]
  BY DEF Provisioned
<1>2. GroupsDeployed(groups') /\ DOMAIN groups' = DOMAIN groups
  <2>1. GroupsDeployed(groups) /\ Running \in State
    BY DEF GroupsInv, State
  <2> QED BY <1>1, <2>1, WithStateDeployed
<1>3. job' = [d \in Clients |-> job'[d]]
  BY DEF Provisioned
<1>4. ASSUME NEW d \in Clients PROVE \E r : NoticedBy(d, r) /\ (job[d].pc \notin {"done", "wait", Cmd(d).op} => r)
  <2>1. IsJob(job[d])
    BY DEF GroupsInv, OwnInv
  <2>2. PICK r \in BOOLEAN : r = (job[d].pc \notin {"done", "wait", Cmd(d).op})
    OBVIOUS
  <2>3. PICK q \in BOOLEAN : q = (job[d].blind \/ r)
    OBVIOUS
  <2>4. job'[d] = [job[d] EXCEPT !.blind = q]
    BY <2>2, <2>3 DEF Provisioned
  <2>5. NoticedBy(d, r)
    BY <2>1, <2>3, <2>4 DEF NoticedBy, IsJob
  <2> QED BY <2>2, <2>5
<1>5. ASSUME NEW d \in Clients PROVE OwnInv(job'[d], groups', accounts')
  <2>1. PICK r : NoticedBy(d, r) /\ (job[d].pc \notin {"done", "wait", Cmd(d).op} => r)
    BY <1>4
  <2>2. OwnInv(job[d], groups, accounts) /\ TagsKept(accounts, accounts)
    BY DEF GroupsInv, TagsKept
  <2>3. PICK gs, as : gs = groups' /\ as = accounts
    OBVIOUS
  <2>4. TagsKept(accounts, as)
    BY <2>2, <2>3
  <2>5. OwnInv(job'[d], gs, as)
    BY <2>1, <2>2, <2>3, <2>4, NoticedKeeps
  <2> QED BY <1>1, <2>3, <2>5
<1>6. Framed(Clients)
  <2>1. ASSUME NEW d \in Clients
        PROVE  /\ job'[d].cmd = job[d].cmd /\ (job[d].blind => job'[d].blind) /\ job'[d].error = job[d].error
               /\ job'[d].pc = job[d].pc /\ job'[d].todo = job[d].todo /\ job'[d].out = job[d].out
    BY <1>4 DEF NoticedBy
  <2> QED BY <1>3, <2>1 DEF Framed
<1>7. AccountsInv'
  BY <1>1, <1>6, AccountsFrame
<1>8. PruneInv'
  BY <1>2, <1>6, PruneFrame
<1> QED BY <1>2, <1>3, <1>5, <1>7, <1>8 DEF GroupsInv

(* At the beginning no command has done anything. *)
LEMMA GroupsInvInit == GroupsInit => GroupsInv
<1> SUFFICES ASSUME GroupsInit PROVE GroupsInv
  OBVIOUS
<1>1. PICK plan \in Plans : /\ groups = plan.groups /\ accounts = plan.accounts
                            /\ job = [c \in Clients |-> Fresh(plan.commands[c])]
  BY DEF GroupsInit
<1>2. GroupsDeployed(groups) /\ accounts \in [DOMAIN accounts -> StorageAccount]
  BY <1>1, PlansAssumption
<1>3. ASSUME NEW c \in Clients
      PROVE  /\ job[c] = Fresh(plan.commands[c]) /\ plan.commands[c] \in AciCommand
             /\ plan.commands[c].op = "volume create" => Len(plan.commands[c].volume) = 2
             /\ DOMAIN accounts \subseteq plan.commands[c].before
  BY <1>1, PlansAssumption
<1>4. ASSUME NEW c \in Clients
      PROVE  /\ IsJob(job[c]) /\ job[c].cmd \in AciCommand /\ job[c].pc = job[c].cmd.op /\ job[c].todo = <<>> /\ job[c].seen = <<>> /\ job[c].out = <<>>
             /\ job[c].error = NoError /\ job[c].cmd = plan.commands[c]
  <2>1. PICK cmd : cmd = plan.commands[c]
    OBVIOUS
  <2>2. job[c] = [cmd |-> cmd, pc |-> cmd.op, todo |-> <<>>, seen |-> <<>>, out |-> <<>>, error |-> NoError, blind |-> FALSE] /\ cmd \in AciCommand
    BY <1>3, <2>1 DEF Fresh
  <2> QED BY <2>1, <2>2 DEF IsJob
<1>5. ASSUME NEW c \in Clients PROVE OwnInv(job[c], groups, accounts)
  <2>1. job[c].cmd.op \in Ops
    BY <1>4 DEF AciCommand
  <2>2. PICK k : k = job[c]
    OBVIOUS
  <2>3. /\ IsJob(k) /\ k.cmd \in AciCommand /\ k.pc = k.cmd.op /\ k.todo = <<>> /\ k.seen = <<>> /\ k.out = <<>> /\ k.error = NoError
        /\ k.cmd.op \in Ops /\ (k.cmd.op = "volume create" => Len(k.cmd.volume) = 2)
    BY <1>3, <1>4, <2>1, <2>2
  <2>4. Flow(k)
    BY <2>3 DEF Flow, Removing, Creating, Listing, Ops
  <2>5. Reads(k)
    <3>1. <<>> \in Seq(Name) /\ <<>> \in Seq(Name \X ContainerGroup)
      OBVIOUS
    <3>2. Once(<<>>, <<>>)
      BY DEF Once
    <3>3. DOMAIN k.out = {}
      <4>1. k.out = <<>>
        BY <2>3
      <4>2. DOMAIN <<>> = {}
        OBVIOUS
      <4> QED BY <4>1, <4>2
    <3>4. Once(k.seen, k.todo)
      BY <2>3, <3>2
    <3> QED BY <2>3, <3>1, <3>3, <3>4 DEF Reads, Listing
  <2>6. Current(k, groups) /\ Unused(k, groups) /\ NewName(k, groups) /\ StoppedRead(k, groups)
    BY <2>3 DEF Current, Unused, NewName, StoppedRead, Removing, Ops
  <2>7. TagRead(k, accounts) /\ LastRead(k, accounts) /\ Provided(k, accounts)
    BY <2>3 DEF TagRead, LastRead, Provided, Removing, Providing, Creating, Deploying, Ops
  <2> QED BY <2>2, <2>3, <2>4, <2>5, <2>6, <2>7 DEF OwnInv
<1>6. AccountsInv
  <2>1. \A a \in DOMAIN accounts : \A c \in Clients : a \in job[c].cmd.before
    BY <1>3, <1>4
  <2> QED BY <1>2, <2>1 DEF AccountsInv
<1>7. PruneInv
  <2>1. ASSUME NEW c \in Clients PROVE Range(job[c].out) = {}
    BY <1>4 DEF Range
  <2> QED BY <2>1 DEF PruneInv
<1>8. job = [c \in Clients |-> job[c]]
  BY <1>1
<1> QED BY <1>2, <1>5, <1>6, <1>7, <1>8 DEF GroupsInv

(* Every step keeps it. *)
LEMMA GroupsInvNext == GroupsInv /\ [GroupsNext]_aciVars => GroupsInv'
<1> SUFFICES ASSUME GroupsInv, [GroupsNext]_aciVars PROVE GroupsInv'
  OBVIOUS
<1>1. ASSUME NEW c \in Clients, VolumeStep(c) PROVE GroupsInv'
  BY <1>1, ListGroupNamesKeeps, getACIContainerGroupsKeeps, VolumeCreateKeeps, CheckNameAvailabilityKeeps, CreateAccountKeeps, GetShareKeeps,
     CreateShareKeeps, CheckDriverKeeps, VolumeInspectKeeps, VolumeListKeeps, ListAccountSharesKeeps, checkVolumeUsageKeeps, ListSharesKeeps, GetAccountTagKeeps,
     DeleteAccountKeeps, DeleteShareKeeps DEF VolumeStep
<1>2. ASSUME NEW c \in Clients, GroupStep(c) PROVE GroupsInv'
  BY <1>2, RunKeeps, UpKeeps, DefineKeeps, createACIContainersKeeps, CreateOrUpdateKeeps, WaitForCompletionKeeps, AddressedKeeps, StartGroupKeeps,
     stopACIContainerGroupKeeps, CheckStoppedKeeps, warnKeepVolumeOnDownKeeps, deleteACIContainerGroupKeeps, ListKeeps, PsKeeps, InspectKeeps,
     ComposeListKeeps, PruneKeeps, PruneGroupKeeps DEF GroupStep
<1>3. CASE UNCHANGED aciVars
  <2>1. UNCHANGED <<groups, accounts, job>>
    BY <1>3 DEF aciVars
  <2>2. AccountsInv'
    BY <2>1, ZenonT(60) DEF GroupsInv, AccountsInv, NobodyDisturbed
  <2>3. PruneInv'
    BY <2>1 DEF GroupsInv, PruneInv
  <2> QED BY <2>1, <2>2, <2>3 DEF GroupsInv
<1> QED BY <1>1, <1>2, <1>3, CallFailsKeeps, ProvisionedKeeps DEF GroupsNext

-----------------------------------------------------------------------------
(* The first of the containers that do not run. *)
LEMMA MinIn ==
    ASSUME NEW S, S \subseteq Nat, S # {}
    PROVE  Min(S) \in S
<1>1. PICK x \in S : \A y \in S : ~(<<y, x>> \in OpToRel(<, Nat))
  BY NatLessThanWellFounded, WFMin
<1>2. ASSUME NEW y \in S PROVE x <= y
  <2>1. x \in Nat /\ y \in Nat
    OBVIOUS
  <2>2. ~(y < x)
    BY <1>1, <2>1 DEF OpToRel
  <2> QED BY <2>1, <2>2
<1> QED BY <1>2 DEF Min

(* An application listed as running has no container that does not run. *)
LEMMA RunningGroup ==
    ASSUME NEW g \in ContainerGroup, GroupState(g) = <<Running>>, NEW k \in Range(g.containers)
    PROVE  Runs(k, g)
<1>1. PICK cs \in Seq(ContainerOfGroup) : cs = g.containers
  BY DEF ContainerGroup
<1>2. PICK m \in Nat : m = Len(cs) /\ DOMAIN cs = 1..m
  OBVIOUS
<1>3. PICK other : other = { i \in DOMAIN cs : ~Runs(cs[i], g) }
  OBVIOUS
<1>4. other \subseteq Nat
  BY <1>2, <1>3
<1>5. CASE other = {}
  BY <1>1, <1>3, <1>5 DEF Range
<1>6. CASE other # {}
  <2>1. GetStatus(cs[Min(other)], g) = <<Running>>
    BY <1>1, <1>3, <1>6 DEF GroupState
  <2>2. Min(other) \in other
    BY <1>4, <1>6, MinIn
  <2> QED BY <1>3, <2>1, <2>2 DEF Runs
<1> QED BY <1>5, <1>6

(* Each group was read once, so the state that is listed is that of the group that was seen. *)
LEMMA SeenOnce ==
    ASSUME NEW c \in Clients, GroupsInv, Ended(c), Cmd(c).op = "ls", NEW i \in DOMAIN job[c].out, NEW s \in Range(job[c].seen),
           s[1] = job[c].out[i][1], job[c].out[i][2] = <<Running>>, NEW k \in Range(s[2].containers)
    PROVE  Runs(k, s[2])
<1>1. /\ IsJob(job[c]) /\ Flow(job[c]) /\ Reads(job[c]) /\ RelyOnGroups(job[c]) /\ RelyOnAccounts(job[c])
      /\ job[c].cmd \in AciCommand /\ job[c].cmd.op \in Ops
  BY OwnFacts
<1>2. PICK seen, out : seen = job[c].seen /\ out = job[c].out
  OBVIOUS
<1>3. /\ seen \in Seq(Name \X ContainerGroup) /\ Once(seen, job[c].todo)
      /\ \A x \in DOMAIN out : x \in DOMAIN seen /\ out[x] = <<seen[x][1], GroupState(seen[x][2])>>
  BY <1>1, <1>2 DEF Reads, Cmd, Listing
<1>4. i \in DOMAIN seen /\ out[i] = <<seen[i][1], GroupState(seen[i][2])>>
  BY <1>2, <1>3
<1>5. PICK x \in DOMAIN seen : s = seen[x]
  BY <1>2 DEF Range
<1>6. x = i
  <2>1. seen[x][1] = seen[i][1]
    BY <1>2, <1>4, <1>5
  <2> QED BY <1>3, <1>4, <1>5, <2>1 DEF Once
<1>7. PICK g : g = s[2]
  OBVIOUS
<1>8. g \in ContainerGroup /\ GroupState(g) = <<Running>>
  <2>1. s \in Name \X ContainerGroup
    BY <1>3, <1>5
  <2>2. GroupState(s[2]) = <<Running>>
    BY <1>2, <1>4, <1>5, <1>6
  <2> QED BY <1>7, <2>1, <2>2
<1> QED BY <1>7, <1>8, RunningGroup

(* The parts of an id. *)
LEMMA IdOf ==
    ASSUME NEW n \in Name, NEW k \in Part
    PROVE  getGroupAndContainerName(n \o k) = [group |-> n, container |-> k]
<1>1. PICK a \in Nat \ {0} : a = Len(n) /\ DOMAIN n = 1..a
  BY EmptySeq DEF Name
<1>2. n \in Seq(STRING) /\ k \in Seq(STRING) /\ Len(k) = 1
  BY DEF Name, Part
<1>3. PICK id : id = n \o k
  OBVIOUS
<1>4. id \in Seq(STRING) /\ Len(id) = a + 1 /\ \A i \in 1..(a + 1) : id[i] = IF i <= a THEN n[i] ELSE k[i - a]
  <2>1. /\ n \o k \in Seq(STRING)
        /\ Len(n \o k) = Len(n) + Len(k)
        /\ \A i \in 1..(Len(n) + Len(k)) : (n \o k)[i] = IF i <= Len(n) THEN n[i] ELSE k[i - Len(n)]
    BY ONLY <1>2, ConcatProperties
  <2> QED BY <1>1, <1>2, <1>3, <2>1
<1>5. Last(id) = k[1]
  <2>1. a + 1 \in 1..(a + 1) /\ ~(a + 1 <= a) /\ (a + 1) - a = 1
    OBVIOUS
  <2> QED BY <1>4, <2>1 DEF Last
<1>6. k = <<k[1]>>
  BY <1>2
<1>7. Front(id) = n
  <2>1. Front(id) = SubSeq(id, 1, a)
    BY <1>4 DEF Front
  <2>2. SubSeq(id, 1, a) \in Seq(STRING) /\ Len(SubSeq(id, 1, a)) = a /\ \A i \in 1..a : SubSeq(id, 1, a)[i] = id[i]
    BY <1>4
  <2>3. \A i \in 1..a : SubSeq(id, 1, a)[i] = n[i]
    BY <1>4, <2>2
  <2>4. PICK f \in Seq(STRING) : f = SubSeq(id, 1, a)
    BY <2>2
  <2>5. Len(f) = a /\ \A i \in 1..a : f[i] = n[i]
    BY <2>2, <2>3, <2>4
  <2>6. f = n
    BY <1>1, <1>2, <2>5, SeqEqual
  <2> QED BY <2>1, <2>4, <2>6
<1>8. Len(id) # 1
  BY <1>4
<1> QED BY <1>3, <1>5, <1>6, <1>7, <1>8 DEF getGroupAndContainerName

(* The id of a container is split in the name of its group and its own. *)
LEMMA IdFound ==
    ASSUME GroupsDeployed(groups), NEW n \in DOMAIN groups, NEW i \in DOMAIN groups[n].containers,
           groups[n].containers[i].name # ComposeDNSSidecarName
    PROVE  LET id == getGroupAndContainerName(getContainerID(n, groups[n], groups[n].containers[i]))
           IN  id.group = n /\ id.container = groups[n].containers[i].name
<1>1. PICK g \in ContainerGroup : g = groups[n]
  BY DEF GroupsDeployed
<1>2. PICK cs \in Seq(ContainerOfGroup) : cs = g.containers
  BY DEF ContainerGroup
<1>3. PICK k \in ContainerOfGroup : k = cs[i]
  BY <1>1, <1>2
<1>4. n \in Name /\ k.name \in Part /\ ("single" \in g.tags => k.name = n)
  BY <1>1, <1>2, <1>3 DEF GroupsDeployed, ContainerOfGroup
<1>5. PICK id : id = getGroupAndContainerName(getContainerID(n, g, k))
  OBVIOUS
<1>6. id.group = n /\ id.container = k.name
  <2>1. CASE "single" \in g.tags
    <3>1. Len(n) = 1
      BY <1>4, <2>1 DEF Part
    <3> QED BY <1>4, <1>5, <2>1, <3>1 DEF getContainerID, getGroupAndContainerName
  <2>2. CASE "single" \notin g.tags
    <3>1. PICK name \in Part : name = k.name
      BY <1>4
    <3>2. id = [group |-> n, container |-> name]
      BY <1>4, <1>5, <2>2, <3>1, IdOf DEF getContainerID
    <3> QED BY <3>1, <3>2
  <2> QED BY <2>1, <2>2
<1> QED BY <1>1, <1>2, <1>3, <1>5, <1>6

(* The invariant says what the commands tell. *)
LEMMA GroupsToldHolds == GroupsInv => GroupsTold
<1> SUFFICES ASSUME GroupsInv PROVE GroupsTold
  OBVIOUS
<1>1. DOMAIN job = Clients
  BY DEF GroupsInv
<1>2. PruneTells
  BY <1>1 DEF PruneTells, GroupsInv, PruneInv, Cmd
<1>3. SharesProvided
  <2> SUFFICES ASSUME NEW c \in Clients, At(c, "wait"), Cmd(c).op = "up", ~job[c].blind, NEW v \in Range(Cmd(c).volumes)
               PROVE  v \in AllShares
    BY <1>1 DEF SharesProvided
  <2>1. IsShare(v, accounts)
    BY OwnFacts DEF RelyOnAccounts, Provided, Deploying, At, Cmd
  <2>2. v \in Volume
    <3>1. PICK vs \in Seq(Volume) : vs = Cmd(c).volumes
      BY OwnFacts DEF AciCommand, Cmd
    <3> QED BY <3>1 DEF Range
  <2> QED BY <2>1, <2>2 DEF IsShare, AllShares, Volume
<1>4. NoAccountLeft
  <2> SUFFICES ASSUME \A c \in Clients : Ended(c) /\ ~job[c].blind /\ job[c].error = NoError,
                      NEW c \in Clients, NEW a \in DOMAIN accounts \ Cmd(c).before
               PROVE  accounts[a].shares # {}
    BY <1>1 DEF NoAccountLeft
  <2> QED BY DEF GroupsInv, AccountsInv, NobodyDisturbed, Ended, At, Cmd
<1>5. IdsResolve
  BY IdFound DEF IdsResolve, GroupsInv
<1>6. ListedRunning
  BY <1>1, SeenOnce DEF ListedRunning
<1> QED BY <1>2, <1>3, <1>4, <1>5, <1>6 DEF GroupsTold

(***************************************************************************)
(* A command of the ACI backend that ends well leaves what it says, for    *)
(* every number of clients, every project and every interleaving.          *)
(***************************************************************************)
THEOREM GroupsAreTold == GroupsSpec => []GroupsTold
  BY GroupsInvInit, GroupsInvNext, GroupsToldHolds, PTL DEF GroupsSpec

-----------------------------------------------------------------------------
(* What a step of the commands may take away. *)
StepKept ==
    /\ \A a \in DOMAIN accounts : ~accounts[a].tagged => a \in DOMAIN accounts'
    /\ AllShares \subseteq AllShares' \/ \E c \in DOMAIN job :
          /\ Cmd(c).op = "volume rm" /\ ~Ended(c) /\ Ended(c)'
          /\ LET gone == AllShares \ AllShares'
                 a    == Cmd(c).volume[1]
             IN  gone = {Cmd(c).volume} \/ (job[c].blind /\ accounts[a].tagged /\ gone = {a} \X accounts[a].shares)
    /\ (\E g \in DOMAIN groups : groups[g].volumes \cap (AllShares \ AllShares') # {})
          => \E c \in DOMAIN job : Cmd(c).op = "volume rm" /\ ~Ended(c) /\ Ended(c)' /\ job[c].blind
    /\ \A c \in DOMAIN job : (~job'[c].blind /\ Cmd(c).op = "run" /\ job'[c] # job[c])
                              => \A n \in DOMAIN groups : groups'[n] = groups[n]
    /\ \A c \in DOMAIN job : (~job'[c].blind /\ Cmd(c).op \in {"rm", "prune"} /\ ~Cmd(c).force /\ job'[c] # job[c])
          => \A n \in DOMAIN groups \ DOMAIN groups' :
                \A i \in DOMAIN groups[n].containers : groups[n].containers[i].state # Running

(* A step that changes neither groups nor accounts takes nothing. *)
LEMMA NothingTaken ==
    ASSUME groups' = groups, accounts' = accounts
    PROVE  StepKept
<1>1. AllShares' = AllShares
  BY DEF AllShares
<1> QED BY <1>1 DEF StepKept

(* Who did not make the change knows of it, or is as before. *)
LEMMA OthersKnow ==
    ASSUME NEW c \in Clients, NEW mine, GroupsInv, Changed(c, mine), NEW d \in Clients, d # c, job'[d] # job[d]
    PROVE  job'[d].blind
<1>1. PICK r : NoticedBy(d, r)
  BY ChangedFields
<1>2. IsJob(job[d])
  BY DEF GroupsInv, OwnInv
<1> QED BY <1>1, <1>2 DEF NoticedBy, IsJob

(* The accounts as they are: only the client itself has groups to keep. *)
LEMMA GroupsTaken ==
    ASSUME NEW c \in Clients, NEW mine, GroupsInv, Changed(c, mine), accounts' = accounts,
           (~job[c].blind /\ job[c].cmd.op = "run") => \A n \in DOMAIN groups : groups'[n] = groups[n],
           (~job[c].blind /\ job[c].cmd.op \in {"rm", "prune"} /\ ~job[c].cmd.force) => \A n \in DOMAIN groups \ DOMAIN groups' :
                \A i \in DOMAIN groups[n].containers : groups[n].containers[i].state # Running,
           job[c].blind => mine.blind
    PROVE  StepKept
<1>1. AllShares' = AllShares /\ DOMAIN job = Clients /\ job'[c] = mine
  BY ChangedFields DEF AllShares, GroupsInv
<1>2. ASSUME NEW d \in Clients, ~job'[d].blind, job'[d] # job[d] PROVE d = c /\ ~job[c].blind
  BY <1>1, <1>2, OthersKnow
<1> QED BY <1>1, <1>2 DEF StepKept, Cmd

(* The groups as they are, and all accounts and shares stay. *)
LEMMA SharesStay ==
    ASSUME groups' = groups, DOMAIN accounts \subseteq DOMAIN accounts', AllShares \ AllShares' = {}
    PROVE  StepKept
  BY DEF StepKept

(* A run writes under a name that is free; no group goes. *)
LEMMA CreateOrUpdateTakes == ASSUME NEW c \in Clients, GroupsInv, CreateOrUpdate(c) PROVE StepKept
<1>1. /\ IsJob(job[c]) /\ Flow(job[c]) /\ Reads(job[c]) /\ RelyOnGroups(job[c]) /\ RelyOnAccounts(job[c])
      /\ job[c].cmd \in AciCommand /\ job[c].cmd.op \in Ops
  BY OwnFacts
<1>2. job[c].pc = "write" /\ accounts' = accounts /\ Changed(c, [job[c] EXCEPT !.pc = "wait"])
  BY DEF CreateOrUpdate, At
<1>3. [job[c] EXCEPT !.pc = "wait"].blind = job[c].blind
  BY <1>1 DEF IsJob
<1>4. /\ DOMAIN groups \subseteq DOMAIN groups'
      /\ \A n \in DOMAIN groups : n # job[c].cmd.id => groups'[n] = groups[n]
  BY DEF CreateOrUpdate, Cmd
<1>5. (~job[c].blind /\ job[c].cmd.op = "run") => job[c].cmd.id \notin DOMAIN groups
  BY <1>1, <1>2 DEF RelyOnGroups, NewName
<1> QED BY <1>2, <1>3, <1>4, <1>5, GroupsTaken

(* A start takes nothing away. *)
LEMMA StartGroupTakes == ASSUME NEW c \in Clients, GroupsInv, StartGroup(c) PROVE StepKept
<1>1. /\ IsJob(job[c]) /\ Flow(job[c]) /\ Reads(job[c]) /\ RelyOnGroups(job[c]) /\ RelyOnAccounts(job[c])
      /\ job[c].cmd \in AciCommand /\ job[c].cmd.op \in Ops
  BY OwnFacts
<1>2. job[c].pc = "starting" /\ accounts' = accounts /\ job[c].cmd.op = "start"
  BY <1>1 DEF StartGroup, At, Flow
<1>3. CASE groups' = groups
  BY <1>2, <1>3, NothingTaken
<1>4. CASE Changed(c, [job[c] EXCEPT !.pc = "wait"])
  <2>1. [job[c] EXCEPT !.pc = "wait"].blind = job[c].blind
    BY <1>1 DEF IsJob
  <2> QED BY <1>2, <1>4, <2>1, GroupsTaken
<1> QED BY <1>3, <1>4 DEF StartGroup

(* A stop takes nothing away. *)
LEMMA stopACIContainerGroupTakes == ASSUME NEW c \in Clients, GroupsInv, stopACIContainerGroup(c) PROVE StepKept
<1>1. /\ IsJob(job[c]) /\ Flow(job[c]) /\ Reads(job[c]) /\ RelyOnGroups(job[c]) /\ RelyOnAccounts(job[c])
      /\ job[c].cmd \in AciCommand /\ job[c].cmd.op \in Ops
  BY OwnFacts
<1>2. job[c].pc = "stopping" /\ accounts' = accounts /\ job[c].cmd.op \in {"stop", "kill"}
  BY <1>1 DEF stopACIContainerGroup, At, Flow
<1>3. CASE groups' = groups
  BY <1>2, <1>3, NothingTaken
<1>4. CASE Changed(c, [job[c] EXCEPT !.pc = "done"])
  <2>1. [job[c] EXCEPT !.pc = "done"].blind = job[c].blind
    BY <1>1 DEF IsJob
  <2> QED BY <1>2, <1>4, <2>1, GroupsTaken
<1> QED BY <1>3, <1>4 DEF stopACIContainerGroup

(* A deletion takes its group, which an rm found stopped. *)
LEMMA deleteACIContainerGroupTakes == ASSUME NEW c \in Clients, GroupsInv, deleteACIContainerGroup(c) PROVE StepKept
<1>1. /\ IsJob(job[c]) /\ Flow(job[c]) /\ Reads(job[c]) /\ RelyOnGroups(job[c]) /\ RelyOnAccounts(job[c])
      /\ job[c].cmd \in AciCommand /\ job[c].cmd.op \in Ops
  BY OwnFacts
<1>2. job[c].pc = "delete" /\ accounts' = accounts /\ job[c].cmd.op \in {"rm", "down"}
  BY <1>1 DEF deleteACIContainerGroup, At, Flow
<1>3. CASE groups' = groups
  BY <1>2, <1>3, NothingTaken
<1>4. CASE groups' # groups
  <2>1. PICK e : groups' = Without(groups, Cmd(c).id) /\ Cmd(c).id \in DOMAIN groups /\ Changed(c, [job[c] EXCEPT !.pc = "done", !.error = e])
    BY <1>4 DEF deleteACIContainerGroup
  <2>2. PICK k : k = [job[c] EXCEPT !.pc = "done", !.error = e]
    OBVIOUS
  <2>3. k.blind = job[c].blind /\ Changed(c, k)
    BY <1>1, <2>1, <2>2, DoneRecord DEF Follows
  <2>4. \A n \in DOMAIN groups \ DOMAIN groups' : n = job[c].cmd.id
    BY <2>1 DEF Without, Cmd
  <2>5. (~job[c].blind /\ job[c].cmd.op = "rm" /\ ~job[c].cmd.force) =>
          \A i \in DOMAIN groups[job[c].cmd.id].containers : groups[job[c].cmd.id].containers[i].state # Running
    BY <1>1, <1>2, <2>1 DEF RelyOnGroups, StoppedRead, Cmd
  <2> QED BY <1>2, <2>3, <2>4, <2>5, GroupsTaken
<1> QED BY <1>3, <1>4

(* prune takes the group it read, which did not run. *)
LEMMA PruneGroupTakes == ASSUME NEW c \in Clients, GroupsInv, PruneGroup(c) PROVE StepKept
<1>1. /\ IsJob(job[c]) /\ Flow(job[c]) /\ Reads(job[c]) /\ RelyOnGroups(job[c]) /\ RelyOnAccounts(job[c])
      /\ job[c].cmd \in AciCommand /\ job[c].cmd.op \in Ops
  BY OwnFacts
<1>2. /\ job[c].pc = "listed" /\ job[c].cmd.op = "prune" /\ job[c].seen # <<>> /\ accounts' = accounts
      /\ ~Spared(c, Head(job[c].seen)[2])
  BY DEF PruneGroup, At, Cmd
<1>3. CASE groups' = groups
  BY <1>2, <1>3, NothingTaken
<1>4. CASE groups' # groups
  <2>1. PICK name : name = Head(job[c].seen)[1]
    OBVIOUS
  <2>2. PICK error \in {NoError, "incomplete"} : groups' = Without(groups, name) /\ Changed(c, Dropped(job[c], error))
    BY <1>4, <2>1 DEF PruneGroup, Dropped, Told
  <2>3. PICK k : k = Dropped(job[c], error)
    OBVIOUS
  <2>4. k.blind = job[c].blind /\ Changed(c, k)
    BY <1>2, <2>2, <2>3, DroppedFields
  <2>5. \A n \in DOMAIN groups \ DOMAIN groups' : n = name
    BY <2>2 DEF Without
  <2>6. ASSUME ~job[c].blind, ~job[c].cmd.force
        PROVE  name \in DOMAIN groups /\ \A i \in DOMAIN groups[name].containers : groups[name].containers[i].state # Running
    <3>1. PICK seen \in Seq(Name \X ContainerGroup) : seen = job[c].seen
      BY <1>2, DroppedFields
    <3>2. seen # <<>> /\ Once(seen, job[c].todo)
      BY <1>2, <3>1, DroppedFields
    <3>3. 1 \in DOMAIN seen /\ Head(seen) = seen[1]
      BY <3>2, ReadDrop
    <3>4. name \in DOMAIN groups /\ groups[name] = Head(seen)[2]
      BY <1>1, <1>2, <2>1, <2>6, <3>1, <3>3 DEF RelyOnGroups, Current, Listing
    <3>5. groups[name].node # Running
      BY <1>2, <2>6, <3>1, <3>4 DEF Spared, GetGroupStatus, Running, NoView, Cmd
    <3> QED BY <3>4, <3>5 DEF GroupsInv, GroupsDeployed
  <2> QED BY <1>2, <2>4, <2>5, <2>6, GroupsTaken
<1> QED BY <1>3, <1>4

(* Azure takes nothing away. *)
LEMMA ProvisionedTakes == ASSUME NEW n \in DOMAIN groups, GroupsInv, Provisioned(n) PROVE StepKept
<1>1. accounts' = accounts /\ DOMAIN groups' = DOMAIN groups
  BY DEF Provisioned
<1>2. AllShares' = AllShares /\ DOMAIN job = Clients
  BY <1>1 DEF AllShares, GroupsInv
<1>3. ASSUME NEW d \in Clients, ~job'[d].blind, job'[d] # job[d] PROVE FALSE
  <2>1. IsJob(job[d])
    BY DEF GroupsInv, OwnInv
  <2>2. PICK q \in BOOLEAN : q = (job[d].blind \/ (job[d].pc \notin {"done", "wait", Cmd(d).op}))
    OBVIOUS
  <2>3. job'[d] = [job[d] EXCEPT !.blind = q]
    BY <2>2 DEF Provisioned
  <2> QED BY <1>3, <2>1, <2>2, <2>3 DEF IsJob
<1> QED BY <1>1, <1>2, <1>3 DEF StepKept

(* A new account, or the tag: all shares stay. *)
LEMMA CreateAccountTakes == ASSUME NEW c \in Clients, GroupsInv, CreateAccount(c) PROVE StepKept
<1>1. /\ IsJob(job[c]) /\ Flow(job[c]) /\ Reads(job[c]) /\ RelyOnGroups(job[c]) /\ RelyOnAccounts(job[c])
      /\ job[c].cmd \in AciCommand /\ job[c].cmd.op \in Ops
  BY OwnFacts
<1>2. groups' = groups
  BY DEF CreateAccount
<1>4. PICK name : name = Wanted(c)[1]
  OBVIOUS
<1>5. /\ DOMAIN accounts \subseteq DOMAIN accounts'
      /\ \A a \in DOMAIN accounts : accounts'[a].shares = accounts[a].shares
  BY <1>4 DEF CreateAccount
<1>6. AllShares \ AllShares' = {}
  BY <1>5 DEF AllShares
<1> QED BY <1>2, <1>5, <1>6, SharesStay

(* A new share: all shares stay. *)
LEMMA CreateShareTakes == ASSUME NEW c \in Clients, GroupsInv, CreateShare(c) PROVE StepKept
<1>1. /\ IsJob(job[c]) /\ Flow(job[c]) /\ Reads(job[c]) /\ RelyOnGroups(job[c]) /\ RelyOnAccounts(job[c])
      /\ job[c].cmd \in AciCommand /\ job[c].cmd.op \in Ops
  BY OwnFacts
<1>2. groups' = groups
  BY DEF CreateShare
<1>3. CASE accounts' = accounts
  BY <1>2, <1>3, NothingTaken
<1>4. CASE accounts' # accounts
  <2>1. PICK name, share : name = Wanted(c)[1] /\ share = Wanted(c)[2]
    OBVIOUS
  <2>2. name \in DOMAIN accounts /\ accounts' = [accounts EXCEPT ![name].shares = @ \cup {share}] /\ Changed(c, AfterShare(c))
    BY <1>4, <2>1 DEF CreateShare
  <2>3. accounts \in [DOMAIN accounts -> StorageAccount]
    BY DEF GroupsInv, AccountsInv
  <2>4. PICK old \in StorageAccount : old = accounts[name]
    BY <2>2, <2>3
  <2>5. PICK new : new = [old EXCEPT !.shares = old.shares \cup {share}]
    OBVIOUS
  <2>6. new.shares = old.shares \cup {share}
    BY <2>4, <2>5 DEF StorageAccount
  <2>7. accounts' = [accounts EXCEPT ![name] = new]
    BY <2>2, <2>4, <2>5
  <2>8. DOMAIN accounts' = DOMAIN accounts /\ \A a \in DOMAIN accounts : accounts[a].shares \subseteq accounts'[a].shares
    BY <2>3, <2>4, <2>6, <2>7
  <2>9. AllShares \ AllShares' = {}
    BY <2>8 DEF AllShares
  <2> QED BY <1>2, <2>8, <2>9, SharesStay
<1> QED BY <1>3, <1>4

(* The volume that is removed goes, or, when the client was blind, its whole account; nobody uses it, when it was not. *)
LEMMA VolumeTaken ==
    ASSUME NEW c \in Clients, NEW mine, GroupsInv, Changed(c, mine), groups' = groups, mine.pc = "done", job[c].pc \in Removing,
           \A a \in DOMAIN accounts : ~accounts[a].tagged => a \in DOMAIN accounts',
           NEW volume, volume = job[c].cmd.volume,
           \/ AllShares \ AllShares' = {volume}
           \/ job[c].blind /\ accounts[volume[1]].tagged /\ AllShares \ AllShares' = {volume[1]} \X accounts[volume[1]].shares
    PROVE  StepKept
<1>1. Flow(job[c]) /\ RelyOnGroups(job[c])
  BY OwnFacts
<1>2. DOMAIN job = Clients /\ job'[c] = mine
  BY ChangedFields DEF GroupsInv
<1>3. Cmd(c).op = "volume rm" /\ ~Ended(c) /\ Ended(c)' /\ Cmd(c).volume = volume
  BY <1>1, <1>2 DEF Flow, Cmd, Ended, At, Removing
<1>4. ~job[c].blind => \A g \in DOMAIN groups : volume \notin groups[g].volumes
  BY <1>1 DEF RelyOnGroups, Unused
<1> QED BY <1>2, <1>3, <1>4 DEF StepKept

(* A share that is gone. *)
LEMMA GoneShare ==
    ASSUME NEW v
    PROVE  v \in AllShares <=> \E a \in DOMAIN accounts : \E x \in accounts[a].shares : v = <<a, x>>
  BY DEF AllShares

(* The volume of a removal is an account and a share. *)
LEMMA VolumeParts ==
    ASSUME NEW c \in Clients, GroupsInv, job[c].pc \in Removing
    PROVE  job[c].cmd.volume = <<job[c].cmd.volume[1], job[c].cmd.volume[2]>>
<1>1. Flow(job[c]) /\ job[c].cmd \in AciCommand
  BY OwnFacts
<1>2. PICK volume \in Seq(STRING) : volume = job[c].cmd.volume
  BY <1>1 DEF AciCommand
<1>3. Len(volume) = 2
  BY <1>1, <1>2 DEF Flow
<1> QED BY <1>2, <1>3

(* An account goes with all its shares, and has the tag. *)
LEMMA DeleteAccountTakes == ASSUME NEW c \in Clients, GroupsInv, DeleteAccount(c) PROVE StepKept
<1>1. IsJob(job[c]) /\ RelyOnAccounts(job[c])
  BY OwnFacts
<1>2. groups' = groups /\ job[c].pc = "account rm" /\ job[c].pc \in Removing
  BY DEF DeleteAccount, At, Removing
<1>3. CASE accounts' = accounts
  BY <1>2, <1>3, NothingTaken
<1>4. CASE accounts' # accounts
  <2>1. PICK volume : volume = job[c].cmd.volume
    OBVIOUS
  <2>2. PICK name, share : name = volume[1] /\ share = volume[2] /\ volume = <<name, share>>
    BY <1>2, <2>1, VolumeParts
  <2>3. name \in DOMAIN accounts /\ accounts' = Without(accounts, name) /\ Changed(c, [job[c] EXCEPT !.pc = "done"])
    BY <1>4, <2>1, <2>2 DEF DeleteAccount, Cmd
  <2>4. DOMAIN accounts' = DOMAIN accounts \ {name} /\ \A a \in DOMAIN accounts \ {name} : accounts'[a] = accounts[a]
    BY <2>3 DEF Without
  <2>5. accounts[name].tagged
    BY <1>1, <1>2, <2>1, <2>2, <2>3 DEF RelyOnAccounts, TagRead
  <2>6. ~job[c].blind => accounts[name].shares = {share}
    BY <1>1, <1>2, <2>1, <2>2, <2>3 DEF RelyOnAccounts, LastRead
  <2>7. AllShares \ AllShares' = {name} \X accounts[name].shares
    <3>1. ASSUME NEW v \in AllShares \ AllShares' PROVE v \in {name} \X accounts[name].shares
      <4>1. PICK a \in DOMAIN accounts : \E x \in accounts[a].shares : v = <<a, x>>
        BY <3>1, GoneShare
      <4>2. PICK x \in accounts[a].shares : v = <<a, x>>
        BY <4>1
      <4>3. a = name
        BY <2>4, <3>1, <4>2 DEF AllShares
      <4> QED BY <4>2, <4>3
    <3>2. ASSUME NEW x \in accounts[name].shares PROVE <<name, x>> \in AllShares \ AllShares'
      BY <2>3, <2>4 DEF AllShares
    <3> QED BY <3>1, <3>2
  <2>8. ~job[c].blind => AllShares \ AllShares' = {volume}
    BY <2>2, <2>6, <2>7
  <2>9. PICK k : k = [job[c] EXCEPT !.pc = "done"]
    OBVIOUS
  <2>10. k.pc = "done" /\ Changed(c, k)
    BY <1>1, <2>3, <2>9 DEF IsJob
  <2>11. \A a \in DOMAIN accounts : ~accounts[a].tagged => a \in DOMAIN accounts'
    BY <2>4, <2>5
  <2>12. \/ AllShares \ AllShares' = {volume}
         \/ job[c].blind /\ accounts[volume[1]].tagged /\ AllShares \ AllShares' = {volume[1]} \X accounts[volume[1]].shares
    BY <2>2, <2>5, <2>7, <2>8
  <2> QED BY <1>2, <2>1, <2>10, <2>11, <2>12, VolumeTaken
<1> QED BY <1>3, <1>4

(* A share goes. *)
LEMMA DeleteShareTakes == ASSUME NEW c \in Clients, GroupsInv, DeleteShare(c) PROVE StepKept
<1>1. IsJob(job[c]) /\ RelyOnAccounts(job[c])
  BY OwnFacts
<1>2. groups' = groups /\ job[c].pc \in Removing
  BY DEF DeleteShare, At, Removing
<1>3. CASE accounts' = accounts
  BY <1>2, <1>3, NothingTaken
<1>4. CASE accounts' # accounts
  <2>1. PICK volume : volume = job[c].cmd.volume
    OBVIOUS
  <2>2. PICK name, share : name = volume[1] /\ share = volume[2] /\ volume = <<name, share>>
    BY <1>2, <2>1, VolumeParts
  <2>3. /\ name \in DOMAIN accounts /\ share \in accounts[name].shares
        /\ accounts' = [accounts EXCEPT ![name].shares = @ \ {share}] /\ Changed(c, [job[c] EXCEPT !.pc = "done"])
    BY <1>4, <2>1, <2>2 DEF DeleteShare, HasShare, Cmd
  <2>4. accounts \in [DOMAIN accounts -> StorageAccount]
    BY DEF GroupsInv, AccountsInv
  <2>5. PICK old \in StorageAccount : old = accounts[name]
    BY <2>3, <2>4
  <2>6. PICK new : new = [old EXCEPT !.shares = old.shares \ {share}]
    OBVIOUS
  <2>7. new.shares = old.shares \ {share}
    BY <2>5, <2>6 DEF StorageAccount
  <2>8. accounts' = [accounts EXCEPT ![name] = new]
    BY <2>3, <2>5, <2>6
  <2>9. DOMAIN accounts' = DOMAIN accounts /\ accounts'[name].shares = accounts[name].shares \ {share}
        /\ \A a \in DOMAIN accounts \ {name} : accounts'[a] = accounts[a]
    BY <2>3, <2>4, <2>5, <2>7, <2>8
  <2>10. AllShares \ AllShares' = {volume}
    <3>1. ASSUME NEW v \in AllShares \ AllShares' PROVE v = volume
      <4>1. PICK a \in DOMAIN accounts : \E x \in accounts[a].shares : v = <<a, x>>
        BY <3>1, GoneShare
      <4>2. PICK x \in accounts[a].shares : v = <<a, x>>
        BY <4>1
      <4>3. ~(x \in accounts'[a].shares)
        BY <2>9, <3>1, <4>2 DEF AllShares
      <4>4. a = name /\ x = share
        BY <2>9, <4>3
      <4> QED BY <2>2, <4>2, <4>4
    <3>2. volume \in AllShares
      BY <2>2, <2>3 DEF AllShares
    <3>3. volume \notin AllShares'
      BY <2>2, <2>9 DEF AllShares
    <3> QED BY <3>1, <3>2, <3>3
  <2>11. PICK k : k = [job[c] EXCEPT !.pc = "done"]
    OBVIOUS
  <2>12. k.pc = "done" /\ Changed(c, k)
    BY <1>1, <2>3, <2>11 DEF IsJob
  <2> QED BY <1>2, <2>1, <2>9, <2>10, <2>12, VolumeTaken
<1> QED BY <1>3, <1>4

(* Every step. *)
LEMMA GroupsStep == GroupsInv /\ [GroupsNext]_aciVars => StepKept
<1> SUFFICES ASSUME GroupsInv, [GroupsNext]_aciVars PROVE StepKept
  OBVIOUS
<1>1. CASE groups' = groups /\ accounts' = accounts
  BY <1>1, NothingTaken
<1>2. ASSUME NEW c \in Clients, VolumeStep(c) PROVE StepKept
  <2>1. \/ CreateAccount(c) \/ CreateShare(c) \/ DeleteAccount(c) \/ DeleteShare(c) \/ (groups' = groups /\ accounts' = accounts)
    BY <1>2 DEF VolumeStep, ListGroupNames, getACIContainerGroups, VolumeCreate, CheckNameAvailability, GetShare, CheckDriver, VolumeInspect, VolumeList,
                ListAccountShares, checkVolumeUsage, ListShares, GetAccountTag
  <2> QED BY <1>1, <2>1, CreateAccountTakes, CreateShareTakes, DeleteAccountTakes, DeleteShareTakes
<1>3. ASSUME NEW c \in Clients, GroupStep(c) PROVE StepKept
  <2>1. \/ CreateOrUpdate(c) \/ StartGroup(c) \/ stopACIContainerGroup(c) \/ deleteACIContainerGroup(c) \/ PruneGroup(c)
        \/ (groups' = groups /\ accounts' = accounts)
    BY <1>3 DEF GroupStep, Run, Up, Define, createACIContainers, WaitForCompletion, Addressed, CheckStopped, warnKeepVolumeOnDown, List, Ps, Inspect,
                ComposeList, Prune
  <2> QED BY <1>1, <2>1, CreateOrUpdateTakes, StartGroupTakes, stopACIContainerGroupTakes, deleteACIContainerGroupTakes, PruneGroupTakes
<1>4. ASSUME NEW c \in Clients, CallFails(c) PROVE StepKept
  BY <1>1, <1>4 DEF CallFails
<1>5. CASE UNCHANGED aciVars
  BY <1>1, <1>5 DEF aciVars
<1> QED BY <1>2, <1>3, <1>4, <1>5, ProvisionedTakes DEF GroupsNext

(***************************************************************************)
(* No command of the ACI backend takes away what was not its own to take,  *)
(* for every number of clients, groups, accounts and faults and every      *)
(* interleaving of their calls, though it decides on what it read several  *)
(* calls before: accounts of the user, other volumes, volumes in use,      *)
(* groups that exist, groups that run. A client that is blind, because     *)
(* somebody came between or because it read one page of a longer list,     *)
(* spares the accounts of the user all the same, and takes no volume but   *)
(* those of the account it was told; nothing is said of groups then.       *)
(***************************************************************************)
THEOREM AzureIsKept == GroupsSpec => AzureKept
<1>1. GroupsInv /\ [GroupsNext]_aciVars => StepKept
  BY GroupsStep
<1> QED BY <1>1, GroupsInvInit, GroupsInvNext, PTL
      DEF GroupsSpec, AzureKept, UntaggedKept, OnlyThisVolume, InUseKept, RunReplacesNothing, RunningKept, StepKept

-----------------------------------------------------------------------------
(***************************************************************************)
(* The token: a logout removes it for good. What is in the token store     *)
(* after it was put there by a login or by a command already under way.    *)
(***************************************************************************)

(* The login, the commands beside it and every interleaving of their steps. *)
LoginSpec == LoginInit /\ [][LoginNext]_loginVars

(* A command holds nothing before it has read the token and after it is over. *)
AtRest == {"begin", "ok", "failed"}

LoggedOut == \E u \in DOMAIN user : user[u].does = "logout" /\ user[u].pc = "ok"
Undisturbed == \A u \in DOMAIN user : ~user[u].raced

(* The fields of the login, of the commands and of what the browser answers. *)
LoginFields == login = [pc |-> login.pc, case |-> login.case, cancelled |-> login.cancelled,
                        took |-> login.took, result |-> login.result, token |-> login.token]
IsUser(r) == r = [does |-> r.does, pc |-> r.pc, read |-> r.read, raced |-> r.raced] /\ r.raced \in BOOLEAN
UserFields ==
    /\ user = [u \in DOMAIN user |-> user[u]]
    /\ \A u \in DOMAIN user : IsUser(user[u]) /\ (user[u].pc \notin AtRest => user[u].does = "use")
Answers == {"code", "no code", "error"}
BrowserFields ==
    /\ browser = [made |-> browser.made, handlers |-> browser.handlers]
    /\ browser.handlers \in Seq(Answers) /\ queryCh \in Seq(Answers)

(***************************************************************************)
(* The inductive invariant. A login that wrote its token has returned, so  *)
(* that it stays an excuse: its result is one of the errors otherwise,     *)
(* which for what the browser answers is a fact about the channel. While   *)
(* there is no excuse the file is absent and no command is between its     *)
(* read and its write: without that part the next write of a refreshed     *)
(* token would bring the token back.                                       *)
(***************************************************************************)
WroteReturned == login.result = "ok" => login.pc = "returned"
StaysAbsent ==
    (LoggedOut /\ Undisturbed /\ login.pc # "write" /\ login.result # "ok")
        => tokenFile.state = "absent" /\ \A u \in DOMAIN user : user[u].pc \in AtRest
LogoutInv == LoginFields /\ UserFields /\ BrowserFields /\ WroteReturned /\ StaysAbsent

(* Nothing was done at the beginning: no command has ended. *)
LEMMA LogoutInvInit == LoginInit => LogoutInv
<1> SUFFICES ASSUME LoginInit PROVE LogoutInv
  OBVIOUS
<1>1. PICK does \in Users : user = [u \in DOMAIN does |-> [does |-> does[u], pc |-> "begin", read |-> Absent, raced |-> FALSE]]
  BY DEF LoginInit
<1>2. UserFields /\ ~LoggedOut
  BY <1>1 DEF UserFields, IsUser, LoggedOut, AtRest
<1>3. LoginFields /\ WroteReturned
  <2>1. PICK case \in LoginCases : login = StartLogin("begin", case)
    BY DEF LoginInit
  <2> QED BY <2>1 DEF StartLogin, LoginFields, WroteReturned
<1>4. BrowserFields
  BY DEF LoginInit, LoginShared, BrowserFields
<1> QED BY <1>2, <1>3, <1>4 DEF LogoutInv, StaysAbsent

(* What a step that leaves the file and the commands alone keeps, if the login does not write. *)
LEMMA LogoutIdle ==
    ASSUME LogoutInv, UNCHANGED <<tokenFile, user>>, login'.pc = "write" <=> login.pc = "write", login'.result = "ok" <=> login.result = "ok"
    PROVE  UserFields' /\ StaysAbsent'
BY DEF LogoutInv, UserFields, IsUser, StaysAbsent, LoggedOut, Undisturbed

(* A step of a command changes where it is and what it read. *)
Moved(r, pc, read) == [r EXCEPT !.read = read, !.pc = pc]

(* Its other fields stay. *)
LEMMA MovedFacts ==
    ASSUME NEW r, IsUser(r), NEW pc, NEW read
    PROVE  /\ IsUser(Moved(r, pc, read)) /\ Moved(r, pc, read).pc = pc
           /\ Moved(r, pc, read).does = r.does /\ Moved(r, pc, read).raced = r.raced
<1>1. Moved(r, pc, read) = [does |-> r.does, pc |-> pc, read |-> read, raced |-> r.raced]
  <2>1. PICK a, b, c, d : r = [does |-> a, pc |-> b, read |-> c, raced |-> d]
    BY DEF IsUser
  <2>2. PICK m : m = [r EXCEPT !.read = read]
    OBVIOUS
  <2>3. m = [does |-> a, pc |-> b, read |-> read, raced |-> d]
    BY <2>1, <2>2
  <2>4. [m EXCEPT !.pc = pc] = [does |-> a, pc |-> pc, read |-> read, raced |-> d]
    BY <2>3
  <2>5. Moved(r, pc, read) = [m EXCEPT !.pc = pc]
    BY <2>2, Zenon DEF Moved
  <2> QED BY <2>1, <2>4, <2>5
<1> QED BY <1>1 DEF IsUser

(* A command that another one overtakes is marked when it is under way. *)
Marked(r) == [r EXCEPT !.raced = @ \/ r.pc \notin AtRest]

(* Marking changes nothing else, and leaves no mark only on a command at rest. *)
LEMMA MarkedFacts ==
    ASSUME NEW r, IsUser(r)
    PROVE  /\ IsUser(Marked(r)) /\ Marked(r).does = r.does /\ Marked(r).pc = r.pc
           /\ ~Marked(r).raced => ~r.raced /\ r.pc \in AtRest
<1>1. PICK b \in BOOLEAN : b = (r.raced \/ r.pc \notin AtRest)
  OBVIOUS
<1>2. b => r.raced \/ r.pc \notin AtRest
  BY <1>1, Zenon
<1>3. ~b => ~r.raced /\ r.pc \in AtRest
  BY <1>1, Zenon
<1>4. Marked(r) = [r EXCEPT !.raced = b]
  BY <1>1, Zenon DEF Marked
<1>5. Marked(r) = [does |-> r.does, pc |-> r.pc, read |-> r.read, raced |-> b]
  BY <1>4 DEF IsUser
<1>6. Marked(r).does = r.does /\ Marked(r).pc = r.pc /\ Marked(r).raced = b /\ IsUser(Marked(r))
  BY <1>5 DEF IsUser
<1> QED BY <1>3, <1>6, Zenon

(* The steps of the login. Only the write of its token touches the file, and then the login is an excuse. *)
LEMMA LoginStepKeeps == LogoutInv /\ LoginStep => LogoutInv'
<1> SUFFICES ASSUME LogoutInv, LoginStep PROVE LogoutInv'
  OBVIOUS
<1>1. CASE TruncateToken
  <2>1. LoginFields' /\ WroteReturned' /\ StaysAbsent' /\ BrowserFields'
    BY <1>1 DEF TruncateToken, Step, LogoutInv, LoginFields, WroteReturned, StaysAbsent, BrowserFields
  <2>2. user' = [u \in DOMAIN user |-> Marked(user[u])]
    BY <1>1 DEF TruncateToken, Marked, AtRest
  <2>3. UserFields'
    BY <2>2, MarkedFacts DEF LogoutInv, UserFields
  <2> QED BY <2>1, <2>3 DEF LogoutInv
<1>2. CASE writeLoginInfo
  <2>1. LoginFields' /\ WroteReturned' /\ StaysAbsent' /\ BrowserFields'
    BY <1>2 DEF writeLoginInfo, Return, LogoutInv, LoginFields, WroteReturned, StaysAbsent, BrowserFields
  <2>2. UserFields'
    BY <1>2 DEF writeLoginInfo, LogoutInv, UserFields, IsUser
  <2> QED BY <2>1, <2>2 DEF LogoutInv
<1>3. CASE SelectAnswer
  <2>1. queryCh # <<>> => Head(queryCh) \in Answers /\ Tail(queryCh) \in Seq(Answers)
    BY DEF LogoutInv, BrowserFields
  <2>2. LoginFields' /\ WroteReturned' /\ login'.pc # "write" /\ login'.result # "ok" /\ login.pc = "select" /\ login.result # "ok"
    <3>1. CASE login.cancelled /\ Return("cancelled")
      BY <1>3, <3>1 DEF SelectAnswer, Return, LogoutInv, LoginFields, WroteReturned
    <3>2. CASE login' = [login EXCEPT !.pc = "returned", !.result = "device", !.took = "device"]
      BY <1>3, <3>2 DEF SelectAnswer, LogoutInv, LoginFields, WroteReturned
    <3>4. ASSUME NEW e \in {"tenants", "exchange"}, NEW t, login' = [login EXCEPT !.pc = e, !.took = t]
          PROVE  LoginFields' /\ WroteReturned' /\ login'.pc # "write" /\ login'.result # "ok" /\ login.pc = "select" /\ login.result # "ok"
      BY <1>3, <3>4 DEF SelectAnswer, LogoutInv, LoginFields, WroteReturned
    <3>3. CASE queryCh # <<>> /\ login' = [login EXCEPT !.pc = "returned", !.result = Head(queryCh), !.took = "query"]
      BY <1>3, <2>1, <3>3 DEF SelectAnswer, Answers, LogoutInv, LoginFields, WroteReturned
    <3> QED BY <1>3, <3>1, <3>2, <3>3, <3>4 DEF SelectAnswer
  <2>3. BrowserFields'
    BY <1>3, <2>1 DEF SelectAnswer, LogoutInv, BrowserFields
  <2> QED BY <1>3, <2>2, <2>3, LogoutIdle DEF SelectAnswer, LogoutInv
<1>4. CASE Begin \/ LoginServicePrincipal \/ Login \/ ExchangeCode \/ getTenantAndValidateLogin \/ RefreshForTenant
  <2>1. UNCHANGED <<tokenFile, user>> /\ UNCHANGED <<browser, queryCh>> /\ login.pc \notin {"write", "returned"}
    BY <1>4 DEF Begin, LoginServicePrincipal, Login, ExchangeCode, getTenantAndValidateLogin, RefreshForTenant
  <2>2. login.result # "ok"
    BY <2>1 DEF LogoutInv, WroteReturned
  <2>3. ASSUME NEW e, e # "ok", Return(e) PROVE LoginFields' /\ login'.pc # "write" /\ login'.result # "ok"
    BY <2>3 DEF Return, LogoutInv, LoginFields
  <2>4. ASSUME NEW e, e # "write", Step(e) PROVE LoginFields' /\ login'.pc # "write" /\ login'.result # "ok"
    BY <2>2, <2>4 DEF Step, LogoutInv, LoginFields
  <2>5. ASSUME NEW e, NEW t, e # "write", login' = [login EXCEPT !.pc = e, !.token = t]
        PROVE  LoginFields' /\ login'.pc # "write" /\ login'.result # "ok"
    BY <2>2, <2>5 DEF LogoutInv, LoginFields
  <2>6. LoginFields' /\ login'.pc # "write" /\ login'.result # "ok"
    <3>1. CASE Begin
      BY <2>3, <2>4, <3>1 DEF Begin
    <3>2. CASE Login \/ ExchangeCode \/ RefreshForTenant
      BY <2>3, <2>4, <3>2 DEF Login, ExchangeCode, RefreshForTenant
    <3>3. CASE LoginServicePrincipal
      BY <2>3, <2>5, <3>3 DEF LoginServicePrincipal
    <3>4. CASE getTenantAndValidateLogin
      BY <2>3, <2>5, <3>4 DEF getTenantAndValidateLogin
    <3> QED BY <1>4, <3>1, <3>2, <3>3, <3>4
  <2>7. WroteReturned' /\ BrowserFields'
    BY <2>1, <2>6 DEF WroteReturned, LogoutInv, BrowserFields
  <2> QED BY <2>1, <2>2, <2>6, <2>7, LogoutIdle DEF LogoutInv
<1> QED BY <1>1, <1>2, <1>3, <1>4 DEF LoginStep

(* The browser, the server, the device code and the cancellation leave the token alone. *)
LEMMA GoroutinesKeep ==
    LogoutInv /\ (GoroutineStep \/ CancelLogin \/ Request \/ getDeviceCodeFlowToken \/ (LoginOver /\ UNCHANGED loginVars)) => LogoutInv'
<1> SUFFICES ASSUME LogoutInv, GoroutineStep \/ CancelLogin \/ Request \/ getDeviceCodeFlowToken \/ (LoginOver /\ UNCHANGED loginVars)
             PROVE  LogoutInv'
  OBVIOUS
<1>1. UNCHANGED <<tokenFile, user>> /\ (UNCHANGED login \/ login' = [login EXCEPT !.cancelled = TRUE])
  BY DEF GoroutineStep, Handler, Serve, startDeviceCodeFlow, CancelLogin, Request, getDeviceCodeFlowToken, loginVars
<1>2. LoginFields' /\ WroteReturned' /\ login'.pc = login.pc /\ login'.result = login.result
  BY <1>1 DEF LogoutInv, LoginFields, WroteReturned
<1>3. BrowserFields'
  <2>1. CASE Handler
    <3>1. Head(browser.handlers) \in Answers /\ Tail(browser.handlers) \in Seq(Answers) /\ queryCh \in Seq(Answers)
      BY <2>1 DEF Handler, LogoutInv, BrowserFields
    <3>2. browser' = [made |-> browser.made, handlers |-> Tail(browser.handlers)] /\ queryCh' = Append(queryCh, Head(browser.handlers))
      BY <2>1 DEF Handler, LogoutInv, BrowserFields
    <3>3. queryCh' \in Seq(Answers)
      BY <3>1, <3>2, AppendProperties
    <3> QED BY <3>1, <3>2, <3>3 DEF BrowserFields
  <2>2. CASE Serve
    <3>1. queryCh' = Append(queryCh, "error") /\ "error" \in Answers /\ queryCh \in Seq(Answers) /\ UNCHANGED browser
      BY <2>2 DEF Serve, LogoutInv, BrowserFields, Answers
    <3>2. queryCh' \in Seq(Answers)
      BY <3>1, AppendProperties
    <3> QED BY <3>1, <3>2 DEF LogoutInv, BrowserFields
  <2>3. CASE Request
    <3>1. PICK reply \in Answers : browser' = [made |-> browser.made + 1, handlers |-> Append(browser.handlers, reply)]
      BY <2>3 DEF Request, Answers
    <3>2. Append(browser.handlers, reply) \in Seq(Answers)
      BY AppendProperties DEF LogoutInv, BrowserFields
    <3> QED BY <2>3, <3>1, <3>2 DEF Request, LogoutInv, BrowserFields
  <2>4. CASE startDeviceCodeFlow \/ CancelLogin \/ getDeviceCodeFlowToken \/ UNCHANGED loginVars
    BY <2>4 DEF startDeviceCodeFlow, CancelLogin, getDeviceCodeFlowToken, loginVars, LogoutInv, BrowserFields
  <2> QED BY <2>1, <2>2, <2>3, <2>4 DEF GoroutineStep
<1> QED BY <1>1, <1>2, <1>3, LogoutIdle DEF LogoutInv

(* A command that reads the token after the logout finds none, and one under way is marked. *)
LEMMA UsersKeep == LogoutInv /\ UserSteps => LogoutInv'
<1> SUFFICES ASSUME LogoutInv, UserSteps PROVE LogoutInv'
  OBVIOUS
<1>1. PICK u \in DOMAIN user : readToken(u) \/ refreshToken(u) \/ TruncateRefreshed(u) \/ WriteRefreshed(u) \/ Logout(u)
  BY DEF UserSteps
<1>2. UNCHANGED <<login, browser, queryCh>>
  BY <1>1 DEF readToken, refreshToken, TruncateRefreshed, WriteRefreshed, Logout, OnlyUser
<1>3. LoginFields' /\ BrowserFields' /\ WroteReturned'
  BY <1>2 DEF LogoutInv, LoginFields, BrowserFields, WroteReturned
<1>4. PICK r : r = user[u]
  OBVIOUS
<1>5. IsUser(r) /\ DOMAIN user' = DOMAIN user
  BY <1>1, <1>4 DEF LogoutInv, UserFields, readToken, refreshToken, TruncateRefreshed, WriteRefreshed, Logout, Others, UserStep
<1>6. \A v \in DOMAIN user : IsUser(user[v])
  BY DEF LogoutInv, UserFields
<1>7. ASSUME NEW s, IsUser(s), s.pc \notin AtRest => s.does = "use", user' = [user EXCEPT ![u] = s]
      PROVE  UserFields' /\ user'[u] = s /\ \A v \in DOMAIN user \ {u} : user'[v] = user[v]
  BY <1>6, <1>7 DEF LogoutInv, UserFields
<1>8. CASE readToken(u)
  <2>1. r.pc = "begin" /\ r.does = "use" /\ UNCHANGED tokenFile
    BY <1>4, <1>8 DEF readToken
  <2>2. PICK pc : /\ user' = [user EXCEPT ![u] = Moved(r, pc, tokenFile)]
                  /\ tokenFile.state = "absent" => pc = "failed"
    BY <1>4, <1>8 DEF readToken, Moved
  <2>3. PICK s : s = Moved(r, pc, tokenFile)
    OBVIOUS
  <2>4. IsUser(s) /\ s.pc = pc /\ s.does = "use" /\ s.raced = r.raced
    BY <1>5, <2>1, <2>3, MovedFacts
  <2>5. UserFields' /\ user'[u] = s /\ \A v \in DOMAIN user \ {u} : user'[v] = user[v]
    BY <1>7, <2>2, <2>3, <2>4
  <2>6. LoggedOut' => LoggedOut
    BY <1>5, <2>4, <2>5 DEF LoggedOut
  <2>7. Undisturbed' => Undisturbed
    BY <1>4, <1>5, <2>4, <2>5 DEF Undisturbed
  <2>8. StaysAbsent'
    BY <1>2, <1>5, <2>1, <2>2, <2>4, <2>5, <2>6, <2>7 DEF LogoutInv, StaysAbsent, AtRest
  <2> QED BY <1>3, <2>5, <2>8 DEF LogoutInv
<1>9. CASE refreshToken(u) \/ WriteRefreshed(u)
  <2>1. r.pc \notin AtRest /\ r.does = "use"
    BY <1>4, <1>9 DEF refreshToken, WriteRefreshed, AtRest, LogoutInv, UserFields
  <2>2. PICK pc, read : user' = [user EXCEPT ![u] = Moved(r, pc, read)]
    <3>1. UserStep(u, "failed") => user' = [user EXCEPT ![u] = Moved(r, "failed", r.read)]
      BY <1>4, <1>5 DEF UserStep, IsUser, Moved
    <3>2. UserStep(u, "ok") => user' = [user EXCEPT ![u] = Moved(r, "ok", r.read)]
      BY <1>4, <1>5 DEF UserStep, IsUser, Moved
    <3> QED BY <1>4, <1>9, <3>1, <3>2 DEF refreshToken, WriteRefreshed, Moved
  <2>3. PICK s : s = Moved(r, pc, read)
    OBVIOUS
  <2>4. IsUser(s) /\ s.does = "use" /\ s.raced = r.raced
    BY <1>5, <2>1, <2>3, MovedFacts
  <2>5. UserFields' /\ user'[u] = s /\ \A v \in DOMAIN user \ {u} : user'[v] = user[v]
    BY <1>7, <2>2, <2>3, <2>4
  <2>6. LoggedOut' => LoggedOut
    BY <1>5, <2>4, <2>5 DEF LoggedOut
  <2>7. Undisturbed' => Undisturbed
    BY <1>4, <1>5, <2>4, <2>5 DEF Undisturbed
  <2>8. StaysAbsent'
    BY <1>2, <1>4, <2>1, <2>6, <2>7 DEF LogoutInv, StaysAbsent
  <2> QED BY <1>3, <2>5, <2>8 DEF LogoutInv
<1>10. CASE TruncateRefreshed(u) \/ Logout(u)
  <2>1. PICK pc : /\ user' = [v \in DOMAIN user |-> IF v = u THEN [r EXCEPT !.pc = pc] ELSE Marked(user[v])]
                  /\ \/ TruncateRefreshed(u) /\ pc = "write"
                     \/ Logout(u) /\ pc \in {"ok", "failed"} /\ tokenFile' = Absent
    BY <1>4, <1>10 DEF TruncateRefreshed, Logout, Others, Marked, AtRest
  <2>2. PICK s : s = Moved(r, pc, r.read)
    OBVIOUS
  <2>3. s = [r EXCEPT !.pc = pc]
    BY <1>5, <2>2 DEF Moved, IsUser
  <2>4. IsUser(s) /\ s.pc = pc /\ s.does = r.does /\ s.raced = r.raced
    BY <1>5, <2>2, MovedFacts
  <2>5. user'[u] = s /\ \A v \in DOMAIN user \ {u} : user'[v] = Marked(user[v])
    BY <2>1, <2>3
  <2>6. ASSUME NEW v \in DOMAIN user, v # u
        PROVE  /\ IsUser(user'[v]) /\ user'[v].does = user[v].does /\ user'[v].pc = user[v].pc
               /\ ~user'[v].raced => ~user[v].raced /\ user[v].pc \in AtRest
    BY <1>6, <2>5, <2>6, MarkedFacts
  <2>7. s.pc \notin AtRest => s.does = "use"
    BY <1>4, <2>1, <2>4 DEF TruncateRefreshed, AtRest, LogoutInv, UserFields
  <2>8. UserFields'
    <3>1. user' = [v \in DOMAIN user' |-> user'[v]]
      BY <2>1
    <3>2. ASSUME NEW v \in DOMAIN user, v # u
          PROVE  IsUser(user'[v]) /\ (user'[v].pc \notin AtRest => user'[v].does = "use")
      BY <2>6, <3>2 DEF LogoutInv, UserFields
    <3>3. \A v \in DOMAIN user : IsUser(user'[v]) /\ (user'[v].pc \notin AtRest => user'[v].does = "use")
      BY <2>4, <2>5, <2>7, <3>2
    <3> QED BY <1>5, <3>1, <3>3 DEF UserFields, IsUser
  <2>9. StaysAbsent'
    <3>1. CASE Logout(u)
      <4>1. tokenFile'.state = "absent" /\ s.pc \in AtRest
        BY <2>1, <2>4, <3>1 DEF Logout, TruncateRefreshed, Absent, AtRest
      <4>2. ASSUME Undisturbed', NEW v \in DOMAIN user, v # u PROVE user'[v].pc \in AtRest
        BY <1>5, <2>6, <4>2 DEF Undisturbed
      <4> QED BY <1>5, <2>5, <4>1, <4>2 DEF StaysAbsent
    <3>2. CASE TruncateRefreshed(u)
      <4>1. r.pc = "truncate" /\ s.does = "use" /\ r.pc \notin AtRest
        BY <1>4, <2>4, <3>2 DEF TruncateRefreshed, AtRest, LogoutInv, UserFields
      <4>2. LoggedOut' => LoggedOut
        <5> SUFFICES ASSUME NEW v \in DOMAIN user, user'[v].does = "logout", user'[v].pc = "ok" PROVE LoggedOut
          BY <1>5 DEF LoggedOut
        <5>1. v # u
          BY <2>5, <4>1
        <5> QED BY <2>6, <5>1 DEF LoggedOut
      <4>3. Undisturbed' => Undisturbed
        <5> SUFFICES ASSUME Undisturbed', NEW v \in DOMAIN user PROVE ~user[v].raced
          BY DEF Undisturbed
        <5>1. CASE v = u
          BY <1>4, <1>5, <2>4, <2>5, <5>1 DEF Undisturbed
        <5>2. CASE v # u
          BY <1>5, <2>6, <5>2 DEF Undisturbed
        <5> QED BY <5>1, <5>2
      <4> QED BY <1>2, <1>4, <4>1, <4>2, <4>3 DEF LogoutInv, StaysAbsent
    <3> QED BY <1>10, <3>1, <3>2
  <2> QED BY <1>3, <2>8, <2>9 DEF LogoutInv
<1> QED BY <1>1, <1>8, <1>9, <1>10

(* A token that expires was there. *)
LEMMA ExpireKeeps == LogoutInv /\ Expire => LogoutInv'
<1> SUFFICES ASSUME LogoutInv, Expire PROVE LogoutInv'
  OBVIOUS
<1>1. UNCHANGED <<login, browser, queryCh, user>> /\ tokenFile.state # "absent"
  BY DEF Expire, OnlyUser
<1>2. LoginFields' /\ BrowserFields' /\ WroteReturned' /\ UserFields'
  BY <1>1 DEF LogoutInv, LoginFields, BrowserFields, WroteReturned, UserFields, IsUser
<1>3. StaysAbsent'
  BY <1>1 DEF LogoutInv, StaysAbsent, LoggedOut, Undisturbed
<1> QED BY <1>2, <1>3 DEF LogoutInv

(***************************************************************************)
(* A logout is final (Logout, TokenStore.removeData): after it, a token is *)
(* in the store only if a login wrote it, or if a command was between its  *)
(* read and its write when the file changed under it.                      *)
(***************************************************************************)
THEOREM LogoutIsFinal == LoginSpec => []LogoutHolds
<1>1. LogoutInv /\ [LoginNext]_loginVars => LogoutInv'
  <2> SUFFICES ASSUME LogoutInv, [LoginNext]_loginVars PROVE LogoutInv'
    OBVIOUS
  <2>1. CASE UNCHANGED loginVars
    <3>1. UNCHANGED <<login, browser, queryCh, user, tokenFile>>
      BY <2>1 DEF loginVars
    <3> QED BY <3>1, LogoutIdle DEF LogoutInv, LoginFields, BrowserFields, WroteReturned
  <2> QED BY <2>1, LoginStepKeeps, GoroutinesKeep, UsersKeep, ExpireKeeps DEF LoginNext
<1>2. LogoutInv => LogoutHolds
  BY DEF LogoutInv, StaysAbsent, LogoutHolds, LoggedOut, Undisturbed
<1> QED BY LogoutInvInit, <1>1, <1>2, PTL DEF LoginSpec

-----------------------------------------------------------------------------
(***************************************************************************)
(* The Kubernetes backend: the types first, then the sums.                 *)
(***************************************************************************)
(* The clusters of a case. *)
Clusters == DOMAIN kubeCase.releases

(* Which command a client at a step has, and the types of what is shared. *)
CommandAt(c) ==
    /\ client[c] \in {"convert", "up", "installing"} => Operation(c) = "up"
    /\ client[c] \in {"down", "uninstall"} => Operation(c) = "down"
    /\ client[c] = "ls" => Operation(c) = "ls"
    /\ client[c] = "init" => Operation(c) \in {"up", "down", "ls"}
BackendInv ==
    /\ kubeCase \in KubeCases
    /\ releases \in [Clusters -> [ReleaseNames -> Statuses]]
    /\ client = [c \in KubeClients |-> client[c]] /\ answer = [c \in KubeClients |-> answer[c]]
    /\ kubeCase.commands = <<>> => \A c \in KubeClients : client[c] = "idle"
    /\ kubeCase.commands # <<>> => \A c \in KubeClients : CommandAt(c)

(* A client that is not idle has a command on a release of a cluster. *)
LEMMA Commanded ==
    ASSUME BackendInv, NEW c \in KubeClients, client[c] # "idle"
    PROVE  kubeCase.commands # <<>> /\ ClusterOf(c) \in Clusters /\ Release(c) \in ReleaseNames
<1>1. kubeCase.commands # <<>> /\ kubeCase \in KubeCases
  BY DEF BackendInv
<1>2. /\ kubeCase.commands[c].environment \in DOMAIN kubeCase.releases
      /\ kubeCase.commands[c].project \in ReleaseNames
  BY <1>1, KubeCasesAssumption
<1> QED BY <1>1, <1>2 DEF ClusterOf, Release, Clusters

(* One status of one cluster is replaced. *)
LEMMA StatusSet ==
    ASSUME BackendInv, NEW k \in Clusters, NEW n \in ReleaseNames, NEW status \in Statuses,
           releases' = [releases EXCEPT ![k][n] = status], UNCHANGED kubeCase
    PROVE  /\ releases' \in [Clusters -> [ReleaseNames -> Statuses]]
           /\ releases'[k][n] = status
           /\ \A j \in Clusters, m \in ReleaseNames : <<j, m>> # <<k, n>> => releases'[j][m] = releases[j][m]
  BY DEF BackendInv, Statuses

(* What a step of a client does: to its own step, and to the one release it works on. *)
Creates(c) ==
    /\ client[c] = "up" /\ client'[c] = "installing" /\ ~Installed(c)
    /\ ReleaseIs(c, "pending") /\ answer' = answer
Marks(c) ==
    /\ Installed(c) /\ answer' = answer
    /\ \/ client[c] = "installing" /\ client'[c] = "ok" /\ ReleaseIs(c, "deployed")
       \/ client[c] = "installing" /\ client'[c] = "error" /\ ReleaseIs(c, "failed")
       \/ client[c] = "uninstall" /\ client'[c] = "error" /\ ReleaseIs(c, "uninstalling")
Removes(c) ==
    /\ client[c] = "uninstall" /\ client'[c] \in {"ok", "error"} /\ Installed(c)
    /\ ReleaseIs(c, NoRelease) /\ answer' = answer
Lists(c) ==
    /\ client[c] = "ls" /\ client'[c] = "ok" /\ releases' = releases
    /\ answer' = [answer EXCEPT ![c] = ListedReleases(c)]
Looks(c) ==
    /\ releases' = releases /\ answer' = answer
    /\ client[c] = "installing" => client'[c] \in {"ok", "error"}
    /\ client[c] # "installing" => client'[c] \notin {"installing", "ok"}

(* A step of one client is one of these. *)
LEMMA StepOfClient ==
    ASSUME BackendInv, NEW c \in KubeClients, ClientStep(c)
    PROVE  /\ client[c] \notin BackendEnded /\ kubeCase' = kubeCase
           /\ client' = [client EXCEPT ![c] = client'[c]]
           /\ CommandAt(c)' /\ client'[c] # "idle"
           /\ Creates(c) \/ Marks(c) \/ Removes(c) \/ Lists(c) \/ Looks(c)
<1> USE DEF Goes, Ends, Fine, Fault, BackendEnded
<1>0. client = [d \in KubeClients |-> client[d]]
  BY DEF BackendInv
<1>a. kubeCase.commands # <<>> => CommandAt(c)
  BY DEF BackendInv
<1>b. client[c] # "idle" => kubeCase.commands # <<>> /\ kubeCase.commands[c].chart \in {"ok", "error", "panic"}
  <2> SUFFICES ASSUME client[c] # "idle" PROVE kubeCase.commands # <<>> /\ kubeCase.commands[c].chart \in {"ok", "error", "panic"}
    OBVIOUS
  <2>1. kubeCase \in KubeCases /\ kubeCase.commands # <<>>
    BY DEF BackendInv
  <2> QED BY <2>1, KubeCasesAssumption
<1>1. CASE service(c)
  BY <1>0, <1>1 DEF service, Looks, CommandAt, Operation
<1>2. CASE Install(c)
  <2>1. client[c] = "convert" /\ client' = [client EXCEPT ![c] = IF kubeCase.commands[c].chart = "ok" THEN "init" ELSE kubeCase.commands[c].chart]
        /\ releases' = releases /\ answer' = answer /\ kubeCase' = kubeCase
    BY <1>2 DEF Install
  <2>2. client'[c] \in {"init", "error", "panic"} /\ Operation(c) = "up"
    BY <1>0, <1>a, <1>b, <2>1 DEF CommandAt
  <2> QED BY <1>0, <2>1, <2>2 DEF Looks, CommandAt, Operation
<1>3. CASE initKubeClient(c)
  BY <1>0, <1>a, <1>b, <1>3 DEF initKubeClient, Looks, CommandAt, Operation
<1>4. CASE InstallChart(c)
  BY <1>0, <1>a, <1>b, <1>4 DEF InstallChart, Looks, Creates, CommandAt, Operation
<1>5. CASE Applied(c)
  <2>1. PICK end \in {<<"ok", "deployed">>, <<"error", "failed">>} :
           /\ client[c] = "installing" /\ client' = [client EXCEPT ![c] = end[1]]
           /\ IF Installed(c) THEN ReleaseIs(c, end[2]) ELSE releases' = releases
    BY <1>5 DEF Applied
  <2>2. kubeCase' = kubeCase /\ answer' = answer
    BY <1>5 DEF Applied
  <2> QED BY <1>0, <1>a, <1>b, <2>1, <2>2 DEF Looks, Marks, CommandAt, Operation
<1>6. CASE Get(c)
  BY <1>0, <1>a, <1>b, <1>6 DEF Get, Looks, CommandAt, Operation
<1>7. CASE Uninstall(c)
  BY <1>0, <1>a, <1>b, <1>7 DEF Uninstall, Looks, Removes, Marks, CommandAt, Operation
<1>8. CASE ListReleases(c)
  BY <1>0, <1>a, <1>b, <1>8 DEF ListReleases, Lists, Looks, CommandAt, Operation
<1> QED BY <1>1, <1>2, <1>3, <1>4, <1>5, <1>6, <1>7, <1>8 DEF ClientStep

(* The creation of a context, and the stutter at the end, leave the clients alone. *)
LEMMA ContextAlone ==
    ASSUME ContextStep \/ UNCHANGED backendVars
    PROVE  UNCHANGED <<kubeCase, releases, client, answer>>
<1>1. CASE CreateContextData
  BY <1>1 DEF CreateContextData, ContextGoes
<1>2. CASE SelectKubeContext
  BY <1>2 DEF SelectKubeContext, ContextGoes
<1>3. CASE ListAvailableKubeConfigContexts
  BY <1>3, Zenon DEF ListAvailableKubeConfigContexts, ContextGoes
<1>4. CASE selectContext
  BY <1>4 DEF selectContext, ContextGoes
<1>5. CASE UNCHANGED backendVars
  BY <1>5 DEF backendVars
<1> QED BY <1>1, <1>2, <1>3, <1>4, <1>5 DEF ContextStep

(* What the step does to the releases: only its own may change. *)
LEMMA ReleasesAfter ==
    ASSUME BackendInv, NEW c \in KubeClients, ClientStep(c)
    PROVE  /\ releases' \in [Clusters -> [ReleaseNames -> Statuses]]
           /\ \A j \in Clusters, m \in ReleaseNames :
                releases'[j][m] # releases[j][m] => j = ClusterOf(c) /\ m = Release(c)
           /\ Creates(c) => releases'[ClusterOf(c)][Release(c)] = "pending"
           /\ Marks(c) => /\ client[c] = "installing" => releases'[ClusterOf(c)][Release(c)] \in {"deployed", "failed"}
                          /\ releases'[ClusterOf(c)][Release(c)] # NoRelease
           /\ Removes(c) => releases'[ClusterOf(c)][Release(c)] = NoRelease
<1>1. /\ client[c] \notin BackendEnded /\ kubeCase' = kubeCase
      /\ Creates(c) \/ Marks(c) \/ Removes(c) \/ Lists(c) \/ Looks(c)
  BY StepOfClient
<1>2. ClusterOf(c) \in Clusters /\ Release(c) \in ReleaseNames
  BY <1>1, Commanded DEF BackendEnded
<1>3. ASSUME NEW s \in Statuses, ReleaseIs(c, s)
      PROVE  /\ releases' \in [Clusters -> [ReleaseNames -> Statuses]]
             /\ releases'[ClusterOf(c)][Release(c)] = s
             /\ \A j \in Clusters, m \in ReleaseNames :
                  releases'[j][m] # releases[j][m] => j = ClusterOf(c) /\ m = Release(c)
  <2>1. releases' = [releases EXCEPT ![ClusterOf(c)][Release(c)] = s]
    BY <1>3 DEF ReleaseIs
  <2>2. /\ releases' \in [Clusters -> [ReleaseNames -> Statuses]]
        /\ releases'[ClusterOf(c)][Release(c)] = s
        /\ \A j \in Clusters, m \in ReleaseNames : <<j, m>> # <<ClusterOf(c), Release(c)>> => releases'[j][m] = releases[j][m]
    BY <1>1, <1>2, <2>1, StatusSet
  <2> QED BY <2>2
<1>4. {"pending", "deployed", "failed", "uninstalling", NoRelease} \subseteq Statuses /\ NoRelease \notin {"pending", "deployed", "failed", "uninstalling"}
  BY DEF Statuses, NoRelease
<1>5. Creates(c) => releases'[ClusterOf(c)][Release(c)] = "pending"
  BY <1>3, <1>4 DEF Creates
<1>6. Marks(c) => /\ client[c] = "installing" => releases'[ClusterOf(c)][Release(c)] \in {"deployed", "failed"}
                  /\ releases'[ClusterOf(c)][Release(c)] # NoRelease
  BY <1>3, <1>4 DEF Marks
<1>7. Removes(c) => releases'[ClusterOf(c)][Release(c)] = NoRelease
  BY <1>3, <1>4 DEF Removes
<1>8. (\E s \in Statuses : ReleaseIs(c, s)) \/ releases' = releases
  BY <1>1, <1>4 DEF Creates, Marks, Removes, Lists, Looks
<1>9. /\ releases' \in [Clusters -> [ReleaseNames -> Statuses]]
      /\ \A j \in Clusters, m \in ReleaseNames : releases'[j][m] # releases[j][m] => j = ClusterOf(c) /\ m = Release(c)
  BY <1>3, <1>8 DEF BackendInv
<1> QED BY <1>5, <1>6, <1>7, <1>9

(* The type part of the invariant holds at the beginning and of every step. *)
LEMMA BackendInvInit == KubeBackendInit => BackendInv
<1> SUFFICES ASSUME KubeBackendInit PROVE BackendInv
  OBVIOUS
<1>1. kubeCase \in KubeCases /\ releases = kubeCase.releases
  BY DEF KubeBackendInit
<1>2. releases \in [Clusters -> [ReleaseNames -> Statuses]]
  BY <1>1, KubeCasesAssumption DEF Clusters
<1>3. client = [c \in KubeClients |-> IF kubeCase.commands = <<>> THEN "idle" ELSE "service"] /\ answer = [c \in KubeClients |-> {}]
  BY DEF KubeBackendInit
<1> QED BY <1>1, <1>2, <1>3 DEF BackendInv, CommandAt

(* Every step keeps it. *)
LEMMA BackendInvNext == BackendInv /\ [KubeBackendNext]_backendVars => BackendInv'
<1> SUFFICES ASSUME BackendInv, [KubeBackendNext]_backendVars PROVE BackendInv'
  OBVIOUS
<1>1. ASSUME NEW c \in KubeClients, ClientStep(c) PROVE BackendInv'
  <2>1. /\ client[c] \notin BackendEnded /\ kubeCase' = kubeCase
        /\ client' = [client EXCEPT ![c] = client'[c]]
        /\ CommandAt(c)'
        /\ Creates(c) \/ Marks(c) \/ Removes(c) \/ Lists(c) \/ Looks(c)
    BY <1>1, StepOfClient
  <2>2. kubeCase.commands # <<>>
    BY <2>1, Commanded DEF BackendEnded
  <2>3. releases' \in [Clusters -> [ReleaseNames -> Statuses]]
    BY <1>1, ReleasesAfter
  <2>4. answer' = [d \in KubeClients |-> answer'[d]]
    BY <2>1 DEF BackendInv, Creates, Marks, Removes, Lists, Looks
  <2>5. client' = [d \in KubeClients |-> client'[d]] /\ \A d \in KubeClients : d # c => client'[d] = client[d]
    BY <2>1 DEF BackendInv
  <2>6. ASSUME NEW d \in KubeClients PROVE CommandAt(d)'
    BY <2>1, <2>2, <2>5 DEF BackendInv, CommandAt, Operation
  <2> QED BY <2>1, <2>2, <2>3, <2>4, <2>5, <2>6 DEF BackendInv, Clusters
<1>2. ASSUME UNCHANGED <<kubeCase, releases, client, answer>> PROVE BackendInv'
  BY <1>2 DEF BackendInv, Clusters, CommandAt, Operation
<1> QED BY <1>1, <1>2, ContextAlone DEF KubeBackendNext, KubeBackendDone

(* Sets that differ in one element at most are counted alike without it. *)
LEMMA CountedWithout ==
    ASSUME NEW S, NEW T, NEW c, IsFiniteSet(S), IsFiniteSet(T), S \ {c} = T \ {c}
    PROVE  \E rest \in Nat : /\ Cardinality(S) = rest + (IF c \in S THEN 1 ELSE 0)
                            /\ Cardinality(T) = rest + (IF c \in T THEN 1 ELSE 0)
<1> DEFINE U == S \ {c}
<1>1. IsFiniteSet(U) /\ Cardinality(U) \in Nat
  BY FS_RemoveElement, FS_CardinalityType
<1>2. Cardinality(S) = Cardinality(U) + (IF c \in S THEN 1 ELSE 0)
  <2>1. CASE c \in S
    <3>1. S = U \cup {c} /\ c \notin U
      BY <2>1
    <3> HIDE DEF U
    <3> QED BY <1>1, <2>1, <3>1, FS_AddElement
  <2>2. CASE c \notin S
    <3>1. S = U
      BY <2>2
    <3> HIDE DEF U
    <3> QED BY <1>1, <2>2, <3>1
  <2> QED BY <2>1, <2>2
<1>3. Cardinality(T) = Cardinality(U) + (IF c \in T THEN 1 ELSE 0)
  <2>1. CASE c \in T
    <3>1. T = U \cup {c} /\ c \notin U
      BY <2>1
    <3> HIDE DEF U
    <3> QED BY <1>1, <2>1, <3>1, FS_AddElement
  <2>2. CASE c \notin T
    <3>1. T = U
      BY <2>2
    <3> HIDE DEF U
    <3> QED BY <1>1, <2>2, <3>1
  <2> QED BY <2>1, <2>2
<1> HIDE DEF U
<1> QED BY <1>1, <1>2, <1>3

(* A step counts its own client in or out, and no other. *)
IsOne(c, op, states, at, k, n) == IF Operation(c) = op /\ at \in states /\ ClusterOf(c) = k /\ Release(c) = n THEN 1 ELSE 0

(* Of the clients of a kind, one step moves one. *)
LEMMA OneMoves ==
    ASSUME BackendInv, NEW c \in KubeClients, client' = [client EXCEPT ![c] = client'[c]], kubeCase' = kubeCase,
           NEW CONSTANT op, NEW CONSTANT states, NEW CONSTANT k, NEW CONSTANT n
    PROVE  \E rest \in Nat : /\ Cardinality(ClientsOf(op, states, k, n)) = rest + IsOne(c, op, states, client[c], k, n)
                            /\ Cardinality(ClientsOf(op, states, k, n))' = rest + IsOne(c, op, states, client'[c], k, n)
<1> DEFINE S == ClientsOf(op, states, k, n)
           T == { d \in KubeClients : Operation(d) = op /\ client'[d] \in states /\ ClusterOf(d) = k /\ Release(d) = n }
<1>1. S' = T
  BY DEF ClientsOf, Operation, ClusterOf, Release
<1>2. \A d \in KubeClients : d # c => client'[d] = client[d]
  BY DEF BackendInv
<1>3. S \ {c} = T \ {c}
  BY <1>2 DEF ClientsOf
<1>4. S \subseteq KubeClients /\ T \subseteq KubeClients
  BY DEF ClientsOf
<1>5. IsFiniteSet(S) /\ IsFiniteSet(T)
  BY <1>4, FS_Subset, KubeCasesAssumption
<1>6. (c \in S <=> Operation(c) = op /\ client[c] \in states /\ ClusterOf(c) = k /\ Release(c) = n)
      /\ (c \in T <=> Operation(c) = op /\ client'[c] \in states /\ ClusterOf(c) = k /\ Release(c) = n)
  BY DEF ClientsOf
<1>7. Cardinality(S)' = Cardinality(T)
  BY <1>1
<1> HIDE DEF S, T
<1>8. PICK rest \in Nat : /\ Cardinality(S) = rest + (IF c \in S THEN 1 ELSE 0)
                         /\ Cardinality(T) = rest + (IF c \in T THEN 1 ELSE 0)
  BY <1>3, <1>5, CountedWithout
<1>9. /\ Cardinality(S) = rest + IsOne(c, op, states, client[c], k, n)
      /\ Cardinality(S)' = rest + IsOne(c, op, states, client'[c], k, n)
  BY <1>6, <1>7, <1>8 DEF IsOne
<1> QED BY <1>9 DEF S

(* What was there and what was tried agree with what is there. *)
SumsAt(k, n) ==
    /\ Cardinality(ClientsOf("down", {"ok"}, k, n)) + There(releases[k][n])
         <= There(kubeCase.releases[k][n]) + Cardinality(ClientsOf("up", {"installing", "ok", "error"}, k, n))
    /\ There(kubeCase.releases[k][n]) + Cardinality(ClientsOf("up", {"installing", "ok"}, k, n))
         <= There(releases[k][n]) + Cardinality(ClientsOf("down", {"ok", "error"}, k, n))

(* A step keeps the sums, of its own release and of the others. *)
LEMMA SumsKept ==
    ASSUME BackendInv, NEW c \in KubeClients, ClientStep(c),
           NEW CONSTANT k, NEW CONSTANT n, k \in Clusters, n \in ReleaseNames, SumsAt(k, n)
    PROVE  SumsAt(k, n)'
<1>1. /\ client[c] \notin BackendEnded /\ kubeCase' = kubeCase /\ client' = [client EXCEPT ![c] = client'[c]]
      /\ CommandAt(c)'
      /\ Creates(c) \/ Marks(c) \/ Removes(c) \/ Lists(c) \/ Looks(c)
  BY StepOfClient
<1>2. kubeCase.commands # <<>> /\ CommandAt(c)
  BY <1>1, Commanded DEF BackendInv, BackendEnded
<1> DEFINE now == There(releases[k][n])
           later == There(releases'[k][n])
           before == There(kubeCase.releases[k][n])
           at == client[c]
           then == client'[c]
           mine == ClusterOf(c) = k /\ Release(c) = n
<1>3. now \in Nat /\ later \in Nat /\ before \in Nat
  BY DEF There
<1>4. PICK a \in Nat : /\ Cardinality(ClientsOf("down", {"ok"}, k, n)) = a + IsOne(c, "down", {"ok"}, at, k, n)
                       /\ Cardinality(ClientsOf("down", {"ok"}, k, n))' = a + IsOne(c, "down", {"ok"}, then, k, n)
  BY <1>1, OneMoves
<1>5. PICK b \in Nat : /\ Cardinality(ClientsOf("up", {"installing", "ok", "error"}, k, n)) = b + IsOne(c, "up", {"installing", "ok", "error"}, at, k, n)
                       /\ Cardinality(ClientsOf("up", {"installing", "ok", "error"}, k, n))' = b + IsOne(c, "up", {"installing", "ok", "error"}, then, k, n)
  BY <1>1, OneMoves
<1>6. PICK d \in Nat : /\ Cardinality(ClientsOf("up", {"installing", "ok"}, k, n)) = d + IsOne(c, "up", {"installing", "ok"}, at, k, n)
                       /\ Cardinality(ClientsOf("up", {"installing", "ok"}, k, n))' = d + IsOne(c, "up", {"installing", "ok"}, then, k, n)
  BY <1>1, OneMoves
<1>7. PICK e \in Nat : /\ Cardinality(ClientsOf("down", {"ok", "error"}, k, n)) = e + IsOne(c, "down", {"ok", "error"}, at, k, n)
                       /\ Cardinality(ClientsOf("down", {"ok", "error"}, k, n))' = e + IsOne(c, "down", {"ok", "error"}, then, k, n)
  BY <1>1, OneMoves
<1>8. /\ a + IsOne(c, "down", {"ok"}, at, k, n) + now <= before + b + IsOne(c, "up", {"installing", "ok", "error"}, at, k, n)
      /\ before + d + IsOne(c, "up", {"installing", "ok"}, at, k, n) <= now + e + IsOne(c, "down", {"ok", "error"}, at, k, n)
  BY <1>3, <1>4, <1>5, <1>6, <1>7 DEF SumsAt, IsOne
<1>9. ~mine => later = now
  BY ReleasesAfter
<1>10. (mine /\ Creates(c)) => (now = 0 /\ later = 1)
  BY ReleasesAfter DEF Creates, Installed, There, NoRelease
<1>11. (mine /\ Removes(c)) => (now = 1 /\ later = 0)
  BY ReleasesAfter DEF Removes, Installed, There, NoRelease
<1>12. (mine /\ Marks(c)) => (now = 1 /\ later = 1)
  BY ReleasesAfter DEF Marks, Installed, There, NoRelease
<1>13. Lists(c) \/ Looks(c) => later = now
  BY DEF Lists, Looks
<1> HIDE DEF now, later, before
<1>14. /\ a + IsOne(c, "down", {"ok"}, then, k, n) + later <= before + b + IsOne(c, "up", {"installing", "ok", "error"}, then, k, n)
       /\ before + d + IsOne(c, "up", {"installing", "ok"}, then, k, n) <= later + e + IsOne(c, "down", {"ok", "error"}, then, k, n)
  <2>1. CASE ~mine
    BY <1>3, <1>8, <1>9, <2>1 DEF IsOne
  <2>2. CASE mine /\ Creates(c)
    BY <1>2, <1>3, <1>8, <1>10, <2>2 DEF IsOne, Creates, CommandAt
  <2>3. CASE mine /\ Removes(c)
    BY <1>2, <1>3, <1>8, <1>11, <2>3 DEF IsOne, Removes, CommandAt
  <2>4. CASE mine /\ Marks(c)
    BY <1>2, <1>3, <1>8, <1>12, <2>4 DEF IsOne, Marks, CommandAt
  <2>5. CASE mine /\ Lists(c)
    BY <1>2, <1>3, <1>8, <1>13, <2>5 DEF IsOne, Lists, CommandAt
  <2>6. CASE mine /\ Looks(c)
    <3>1. CASE at = "installing"
      <4>1. Operation(c) = "up" /\ then \in {"ok", "error"} /\ later = now
        BY <1>2, <1>13, <2>6, <3>1 DEF Looks, CommandAt
      <4> QED BY <1>3, <1>8, <2>6, <3>1, <4>1 DEF IsOne
    <3>2. CASE at # "installing"
      <4>1. at \notin {"installing", "ok", "error"} /\ then \notin {"installing", "ok"} /\ later = now
        BY <1>1, <1>13, <2>6, <3>2 DEF Looks, BackendEnded
      <4> HIDE DEF at, then, mine
      <4> QED BY <1>3, <1>8, <4>1 DEF IsOne
    <3> QED BY <3>1, <3>2
  <2> QED BY <1>1, <2>1, <2>2, <2>3, <2>4, <2>5, <2>6
<1> QED BY <1>1, <1>3, <1>4, <1>5, <1>6, <1>7, <1>14 DEF SumsAt, IsOne, now, later, before

(* Who tried to take a release down, or may have installed it: nobody is forgotten. *)
Downs(k, n) == ClientsOf("down", {"ok", "error"}, k, n)
Ups(k, n) == ClientsOf("up", {"installing", "ok", "error"}, k, n)

(* What a listing would show now. *)
ShownAt(k, n) ==
    /\ kubeCase.releases[k][n] \in {"deployed", "failed"} /\ Downs(k, n) = {} => releases[k][n] \in {"deployed", "failed"}
    /\ releases[k][n] # NoRelease => There(kubeCase.releases[k][n]) = 1 \/ Ups(k, n) # {}

(* What a listing showed. *)
Answered(d, n) ==
    Operation(d) = "ls" /\ client[d] = "ok" =>
        /\ kubeCase.releases[ClusterOf(d)][n] \in {"deployed", "failed"} /\ Downs(ClusterOf(d), n) = {} => n \in answer[d]
        /\ n \in answer[d] => There(kubeCase.releases[ClusterOf(d)][n]) = 1 \/ Ups(ClusterOf(d), n) # {}

(* A client that tried stays one that tried. *)
LEMMA TriesStay ==
    ASSUME BackendInv, NEW c \in KubeClients, ClientStep(c), NEW k, NEW n
    PROVE  /\ \A d \in Downs(k, n) : Operation(d) = "down" /\ client'[d] \in {"ok", "error"} /\ ClusterOf(d) = k /\ Release(d) = n
           /\ \A d \in Ups(k, n) : Operation(d) = "up" /\ client'[d] \in {"installing", "ok", "error"} /\ ClusterOf(d) = k /\ Release(d) = n
<1>1. /\ client[c] \notin BackendEnded /\ client' = [client EXCEPT ![c] = client'[c]]
      /\ Creates(c) \/ Marks(c) \/ Removes(c) \/ Lists(c) \/ Looks(c)
  BY StepOfClient
<1>2. \A d \in KubeClients : d # c => client'[d] = client[d]
  BY <1>1 DEF BackendInv
<1>3. client[c] = "installing" => client'[c] \in {"ok", "error"}
  BY <1>1 DEF Creates, Marks, Removes, Lists, Looks
<1> QED BY <1>1, <1>2, <1>3 DEF Downs, Ups, ClientsOf, BackendEnded

(* What a client that takes a step may have done counts for it from then on. *)
LEMMA TriesCount ==
    ASSUME BackendInv, NEW c \in KubeClients, ClientStep(c), NEW CONSTANT k, NEW CONSTANT n
    PROVE  /\ Downs(k, n) # {} => Downs(k, n)' # {}
           /\ Ups(k, n) # {} => Ups(k, n)' # {}
           /\ Operation(c) = "down" /\ client'[c] \in {"ok", "error"} /\ ClusterOf(c) = k /\ Release(c) = n => Downs(k, n)' # {}
           /\ Operation(c) = "up" /\ client'[c] \in {"installing", "ok", "error"} /\ ClusterOf(c) = k /\ Release(c) = n => Ups(k, n)' # {}
<1>1. kubeCase' = kubeCase
  BY StepOfClient
<1>2. /\ Downs(k, n)' = { d \in KubeClients : Operation(d) = "down" /\ client'[d] \in {"ok", "error"} /\ ClusterOf(d) = k /\ Release(d) = n }
      /\ Ups(k, n)' = { d \in KubeClients : Operation(d) = "up" /\ client'[d] \in {"installing", "ok", "error"} /\ ClusterOf(d) = k /\ Release(d) = n }
  BY <1>1 DEF Downs, Ups, ClientsOf, Operation, ClusterOf, Release
<1>3. Downs(k, n) \subseteq KubeClients /\ Ups(k, n) \subseteq KubeClients
  BY DEF Downs, Ups, ClientsOf
<1> QED BY <1>2, <1>3, TriesStay

(* A step keeps what a listing would show. *)
LEMMA ShownKept ==
    ASSUME BackendInv, NEW c \in KubeClients, ClientStep(c),
           NEW CONSTANT k, NEW CONSTANT n, k \in Clusters, n \in ReleaseNames, ShownAt(k, n)
    PROVE  ShownAt(k, n)'
<1>1. /\ client[c] \notin BackendEnded /\ kubeCase' = kubeCase
      /\ Creates(c) \/ Marks(c) \/ Removes(c) \/ Lists(c) \/ Looks(c)
  BY StepOfClient
<1>2. kubeCase.commands # <<>> /\ CommandAt(c)
  BY <1>1, Commanded DEF BackendInv, BackendEnded
<1> DEFINE before == kubeCase.releases[k][n]
           now == releases[k][n]
           later == releases'[k][n]
           mine == ClusterOf(c) = k /\ Release(c) = n
<1>3. /\ before \in {"deployed", "failed"} /\ Downs(k, n) = {} => now \in {"deployed", "failed"}
      /\ now # NoRelease => There(before) = 1 \/ Ups(k, n) # {}
  BY DEF ShownAt
<1>4. (Lists(c) \/ Looks(c) \/ ~mine) => later = now
  BY ReleasesAfter DEF Lists, Looks
<1>5. mine /\ Creates(c) => now = NoRelease /\ Ups(k, n)' # {}
  BY <1>2, TriesCount DEF Creates, Installed, CommandAt
<1>6. mine /\ Marks(c) => now # NoRelease /\ (later \in {"deployed", "failed"} \/ Downs(k, n)' # {})
  <2>1. CASE client[c] = "installing"
    BY <2>1, ReleasesAfter DEF Marks, Installed
  <2>2. CASE client[c] # "installing"
    <3>1. Marks(c) => client[c] = "uninstall" /\ client'[c] = "error" /\ Installed(c)
      BY <2>2 DEF Marks
    <3> QED BY <1>2, <3>1, TriesCount DEF CommandAt, Installed
  <2> QED BY <2>1, <2>2
<1>7. mine /\ Removes(c) => later = NoRelease /\ Downs(k, n)' # {}
  BY <1>2, TriesCount, ReleasesAfter DEF Removes, CommandAt
<1>8. (Downs(k, n)' = {} => Downs(k, n) = {}) /\ (Ups(k, n) # {} => Ups(k, n)' # {})
  BY TriesCount
<1>9. NoRelease \notin {"deployed", "failed"}
  BY DEF NoRelease
<1> HIDE DEF before, now, later, mine
<1>10. /\ before \in {"deployed", "failed"} /\ Downs(k, n)' = {} => later \in {"deployed", "failed"}
       /\ later # NoRelease => There(before) = 1 \/ Ups(k, n)' # {}
  BY <1>1, <1>3, <1>4, <1>5, <1>6, <1>7, <1>8, <1>9
<1>11. before' = before /\ now' = later
  BY <1>1 DEF before, now, later
<1> QED BY <1>1, <1>10, <1>11 DEF ShownAt, before, now, later, There

(* A step keeps what listings showed, and adds what it shows itself. *)
LEMMA AnsweredKept ==
    ASSUME BackendInv, NEW c \in KubeClients, ClientStep(c),
           NEW CONSTANT d, NEW CONSTANT n, d \in KubeClients, n \in ReleaseNames,
           Answered(d, n), \A k \in Clusters : ShownAt(k, n)
    PROVE  Answered(d, n)'
<1>1. /\ client[c] \notin BackendEnded /\ kubeCase' = kubeCase /\ client' = [client EXCEPT ![c] = client'[c]]
      /\ Creates(c) \/ Marks(c) \/ Removes(c) \/ Lists(c) \/ Looks(c)
  BY StepOfClient
<1>2. kubeCase.commands # <<>> /\ CommandAt(c) /\ ClusterOf(c) \in Clusters
  BY <1>1, Commanded DEF BackendInv, BackendEnded
<1>3. PICK k : k = ClusterOf(d)
  OBVIOUS
<1>4. ClusterOf(d)' = k /\ Operation(d)' = Operation(d)
  BY <1>1, <1>3 DEF ClusterOf, Operation
<1>5. (Downs(k, n)' = {} => Downs(k, n) = {}) /\ (Ups(k, n) # {} => Ups(k, n)' # {})
  BY TriesCount
<1>6. CASE client'[d] = client[d] /\ answer'[d] = answer[d]
  BY <1>1, <1>3, <1>4, <1>5, <1>6 DEF Answered
<1>7. CASE d = c /\ Lists(c)
  <2>1. answer'[c] = ListedReleases(c)
    BY <1>7 DEF Lists, BackendInv
  <2>2. n \in answer'[c] <=> releases[k][n] \in {"deployed", "failed"}
    BY <1>3, <1>7, <2>1 DEF ListedReleases
  <2>3. ShownAt(k, n)
    BY <1>2, <1>3, <1>7
  <2>4. NoRelease \notin {"deployed", "failed"}
    BY DEF NoRelease
  <2> QED BY <1>1, <1>4, <1>5, <1>7, <2>2, <2>3, <2>4 DEF Answered, ShownAt
<1>8. CASE d = c /\ ~Lists(c)
  <2>1. Operation(c) = "ls" => client'[c] # "ok"
    BY <1>1, <1>2, <1>8 DEF Creates, Marks, Removes, Looks, CommandAt
  <2> QED BY <1>4, <1>8, <2>1 DEF Answered
<1>9. d # c => client'[d] = client[d] /\ answer'[d] = answer[d]
  BY <1>1 DEF BackendInv, Creates, Marks, Removes, Lists, Looks
<1> QED BY <1>6, <1>7, <1>8, <1>9

(***************************************************************************)
(* The inductive invariant: the types; for every release, the two sums and *)
(* what a listing would show; and what each listing showed.                *)
(***************************************************************************)
ReleasesInv ==
    /\ BackendInv
    /\ kubeCase.commands # <<>> =>
         /\ \A k \in Clusters, n \in ReleaseNames : SumsAt(k, n) /\ ShownAt(k, n)
         /\ \A d \in KubeClients, n \in ReleaseNames : Answered(d, n)

(* It holds at the beginning: nobody tried anything. *)
LEMMA ReleasesInvInit == KubeBackendInit => ReleasesInv
<1> SUFFICES ASSUME KubeBackendInit, kubeCase.commands # <<>>
             PROVE  /\ \A k \in Clusters, n \in ReleaseNames : SumsAt(k, n) /\ ShownAt(k, n)
                    /\ \A d \in KubeClients, n \in ReleaseNames : Answered(d, n)
  BY BackendInvInit DEF ReleasesInv
<1>1. releases = kubeCase.releases /\ \A c \in KubeClients : client[c] = "service"
  BY DEF KubeBackendInit
<1>2. ASSUME NEW op, NEW states \in {{"ok"}, {"ok", "error"}, {"installing", "ok"}, {"installing", "ok", "error"}}, NEW k, NEW n
      PROVE  ClientsOf(op, states, k, n) = {} /\ Cardinality(ClientsOf(op, states, k, n)) = 0
  <2>1. ClientsOf(op, states, k, n) = {}
    BY <1>1, <1>2 DEF ClientsOf
  <2> QED BY <2>1, FS_EmptySet
<1>3. ASSUME NEW k \in Clusters, NEW n \in ReleaseNames PROVE SumsAt(k, n) /\ ShownAt(k, n)
  BY <1>1, <1>2 DEF SumsAt, ShownAt, There
<1>4. ASSUME NEW d \in KubeClients, NEW n \in ReleaseNames PROVE Answered(d, n)
  BY <1>1 DEF Answered
<1> QED BY <1>3, <1>4

(* Every step keeps it. *)
LEMMA ReleasesInvNext == ReleasesInv /\ [KubeBackendNext]_backendVars => ReleasesInv'
<1> SUFFICES ASSUME ReleasesInv, [KubeBackendNext]_backendVars PROVE ReleasesInv'
  OBVIOUS
<1>0. BackendInv /\ BackendInv'
  BY BackendInvNext DEF ReleasesInv
<1>1. ASSUME NEW c \in KubeClients, ClientStep(c) PROVE ReleasesInv'
  <2>1. kubeCase' = kubeCase /\ kubeCase.commands # <<>> /\ Clusters' = Clusters
    BY <1>0, <1>1, StepOfClient, Commanded DEF Clusters, BackendEnded
  <2>2. ASSUME NEW CONSTANT k, NEW CONSTANT n, k \in Clusters, n \in ReleaseNames PROVE SumsAt(k, n)' /\ ShownAt(k, n)'
    BY <1>0, <1>1, <2>1, <2>2, SumsKept, ShownKept DEF ReleasesInv
  <2>3. ASSUME NEW CONSTANT d, NEW CONSTANT n, d \in KubeClients, n \in ReleaseNames PROVE Answered(d, n)'
    BY <1>0, <1>1, <2>1, <2>3, AnsweredKept DEF ReleasesInv
  <2> QED BY <1>0, <2>1, <2>2, <2>3 DEF ReleasesInv
<1>2. ASSUME UNCHANGED <<kubeCase, releases, client, answer>> PROVE ReleasesInv'
  <2>1. ASSUME NEW op, NEW states, NEW k, NEW n PROVE ClientsOf(op, states, k, n)' = ClientsOf(op, states, k, n)
    BY <1>2 DEF ClientsOf, Operation, ClusterOf, Release
  <2> QED BY <1>0, <1>2, <2>1 DEF ReleasesInv, SumsAt, ShownAt, Answered, Ups, Downs, Clusters, Operation, ClusterOf
<1> QED BY <1>1, <1>2, ContextAlone DEF KubeBackendNext, KubeBackendDone

(***************************************************************************)
(* What the clients that meet at the name of a release are told adds up to *)
(* what is in the cluster, for every number of clients, clusters and       *)
(* releases, every interleaving and any calls failing: no release is       *)
(* removed twice, none is installed over another, and ls misses none.      *)
(***************************************************************************)
THEOREM ReleasesAreKept == KubeBackendSpec => []ReleasesKept
<1>1. ReleasesInv => ReleasesKept
  <2> SUFFICES ASSUME ReleasesInv PROVE ReleasesKept
    OBVIOUS
  <2>1. DOMAIN releases = Clusters
    BY DEF ReleasesInv, BackendInv
  <2>2. RemovedOnce /\ InstalledApart
    BY <2>1 DEF ReleasesInv, SumsAt, RemovedOnce, InstalledApart
  <2>3. ListedRight
    BY DEF ReleasesInv, Answered, ListedRight, Downs, Ups
  <2> QED BY <2>2, <2>3 DEF ReleasesKept
<1> QED BY <1>1, ReleasesInvInit, ReleasesInvNext, PTL DEF KubeBackendSpec

-----------------------------------------------------------------------------
(* A set of numbers that has 0 and with each the next is that of all numbers. *)
LEMMA NatSetInduction ==
  ASSUME NEW T, T \subseteq Nat, 0 \in T, \A n \in T : n + 1 \in T
  PROVE  T = Nat
<1> SUFFICES ASSUME Nat \ T # {} PROVE FALSE
  OBVIOUS
<1>1. PICK x \in Nat \ T : \A y \in Nat \ T : ~(<<y, x>> \in OpToRel(<, Nat))
  <2>1. Nat \ T \subseteq Nat
    OBVIOUS
  <2> QED BY <2>1, NatLessThanWellFounded, WFMin
<1>2. x # 0 /\ x - 1 \in Nat /\ (x - 1) + 1 = x
  <2>1. x \in Nat /\ x # 0
    OBVIOUS
  <2> QED BY <2>1
<1>3. x - 1 \in T
  <2>1. SUFFICES ASSUME x - 1 \in Nat \ T PROVE FALSE
    BY <1>2
  <2>2. x - 1 < x /\ x \in Nat /\ x - 1 \in Nat
    BY <1>2
  <2>3. <<x - 1, x>> \in OpToRel(<, Nat)
    BY <2>2 DEF OpToRel
  <2> QED BY <1>1, <2>1, <2>3
<1> QED BY <1>1, <1>2, <1>3

-----------------------------------------------------------------------------
(***************************************************************************)
(* The choice of a resource group.  What has been read is what the pages   *)
(* up to the one reached hold; the recursion over the pages is first shown *)
(* to define something.                                                    *)
(***************************************************************************)
PageRead(f, pages, n) == IF n = 0 THEN <<>> ELSE f[n - 1] \o pages[n]

(* There is a function of the kind that Items defines, for the first pages and so for all of them. *)
LEMMA ItemsExist ==
  ASSUME NEW S, NEW pages \in Seq(Seq(S))
  PROVE  \E f \in [0 .. Len(pages) -> Seq(S)] : f = [n \in 0 .. Len(pages) |-> PageRead(f, pages, n)]
<1> DEFINE Is(f, m) == f \in [0 .. m -> Seq(S)] /\ \A n \in 0 .. m : f[n] = PageRead(f, pages, n)
<1> DEFINE T == {m \in Nat : m <= Len(pages) => \E f : Is(f, m)}
<1>0. Len(pages) \in Nat /\ \A n \in 1 .. Len(pages) : pages[n] \in Seq(S)
  OBVIOUS
<1>1. 0 \in T
  <2> DEFINE f == [n \in 0 .. 0 |-> <<>>]
  <2>1. f \in [0 .. 0 -> Seq(S)]
    OBVIOUS
  <2>2. \A n \in 0 .. 0 : f[n] = PageRead(f, pages, n)
    BY DEF PageRead
  <2> QED BY <2>1, <2>2
<1>2. \A m \in T : m + 1 \in T
  <2>0. \A m \in Nat : (m + 1 <= Len(pages) => \E f : Is(f, m + 1)) => m + 1 \in T
    <3> HIDE DEF Is
    <3> QED OBVIOUS
  <2>1. SUFFICES ASSUME NEW m \in T, m + 1 <= Len(pages) PROVE \E f : Is(f, m + 1)
    <3> HIDE DEF Is
    <3> QED BY <2>0
  <2>2. m \in Nat /\ m <= Len(pages)
    BY <1>0, <2>1
  <2>3. PICK f : Is(f, m)
    <3> HIDE DEF Is
    <3> QED BY <2>1, <2>2
  <2> DEFINE g == [n \in 0 .. m + 1 |-> IF n = m + 1 THEN f[m] \o pages[m + 1] ELSE f[n]]
  <2>4. f[m] \in Seq(S) /\ pages[m + 1] \in Seq(S)
    BY <1>0, <2>1, <2>2, <2>3
  <2>4a. f[m] \o pages[m + 1] \in Seq(S)
    BY <2>4, ConcatProperties
  <2>5. g \in [0 .. m + 1 -> Seq(S)]
    <3>1. ASSUME NEW n \in 0 .. m + 1 PROVE (IF n = m + 1 THEN f[m] \o pages[m + 1] ELSE f[n]) \in Seq(S)
      BY <2>2, <2>3, <2>4a
    <3> QED BY <3>1
  <2>6. ASSUME NEW n \in 0 .. m + 1 PROVE g[n] = PageRead(g, pages, n)
    <3>1. CASE n = m + 1
      <4>1. n # 0 /\ n - 1 = m /\ m \in 0 .. m + 1 /\ m # m + 1
        BY <2>2, <3>1
      <4>2. g[n] = f[m] \o pages[m + 1] /\ g[m] = f[m]
        BY <3>1, <4>1
      <4>3. PageRead(g, pages, n) = g[m] \o pages[n]
        BY <4>1 DEF PageRead
      <4> QED BY <3>1, <4>2, <4>3
    <3>2. CASE n # m + 1
      <4>1. n \in 0 .. m
        BY <2>2, <3>2
      <4>2. g[n] = f[n] /\ f[n] = PageRead(f, pages, n)
        BY <2>3, <3>2, <4>1
      <4>3. CASE n = 0
        BY <4>2, <4>3 DEF PageRead
      <4>4. CASE n # 0
        <5>1. n - 1 \in 0 .. m + 1 /\ n - 1 # m + 1
          BY <2>2, <4>1, <4>4
        <5>2. g[n - 1] = f[n - 1]
          BY <5>1
        <5> QED BY <4>2, <4>4, <5>2 DEF PageRead
      <4> QED BY <4>3, <4>4
    <3> QED BY <3>1, <3>2
  <2> HIDE DEF g
  <2>7. Is(g, m + 1)
    BY <2>5, <2>6
  <2> QED BY <2>7
<1>3. T = Nat
  <2> HIDE DEF T
  <2>1. T \subseteq Nat
    BY DEF T
  <2> QED BY <1>1, <1>2, <2>1, NatSetInduction
<1>4. PICK f : Is(f, Len(pages))
  <2> HIDE DEF Is
  <2>1. Len(pages) \in T
    <3> HIDE DEF T
    <3> QED BY <1>0, <1>3
  <2> QED BY <1>0, <2>1
<1>5. f = [n \in 0 .. Len(pages) |-> f[n]]
  BY <1>4
<1>6. f = [n \in 0 .. Len(pages) |-> PageRead(f, pages, n)]
  BY <1>4, <1>5
<1> QED BY <1>4, <1>6

(* What is read after n pages: nothing at first, then one page more each time. *)
LEMMA ItemsRead ==
  ASSUME NEW S, NEW pages \in Seq(Seq(S))
  PROVE  /\ Items(pages) \in [0 .. Len(pages) -> Seq(S)]
         /\ Items(pages)[0] = <<>>
         /\ \A n \in 0 .. Len(pages) - 1 : Items(pages)[n + 1] = Items(pages)[n] \o pages[n + 1]
<1>1. Items(pages) = CHOOSE f : f = [n \in 0 .. Len(pages) |-> PageRead(f, pages, n)]
  BY DEF Items, PageRead
<1>2. PICK f \in [0 .. Len(pages) -> Seq(S)] : f = [n \in 0 .. Len(pages) |-> PageRead(f, pages, n)]
  BY ItemsExist
<1>3. Items(pages) = [n \in 0 .. Len(pages) |-> PageRead(Items(pages), pages, n)]
  BY <1>1, <1>2
<1> DEFINE h == Items(pages)
<1>4. h = [n \in 0 .. Len(pages) |-> PageRead(h, pages, n)] /\ Len(pages) \in Nat
  <2>1. Len(pages) \in Nat
    OBVIOUS
  <2> QED BY <1>3, <2>1
<1> HIDE DEF h
<1>5. h[0] = <<>>
  BY <1>4 DEF PageRead
<1>6. \A n \in 0 .. Len(pages) - 1 : h[n + 1] = h[n] \o pages[n + 1]
  <2>1. SUFFICES ASSUME NEW n \in 0 .. Len(pages) - 1 PROVE h[n + 1] = h[n] \o pages[n + 1]
    OBVIOUS
  <2>2. n + 1 \in 0 .. Len(pages) /\ n + 1 # 0 /\ (n + 1) - 1 = n
    BY <1>4
  <2>3. h[n + 1] = PageRead(h, pages, n + 1)
    BY <1>4, <2>2
  <2> QED BY <2>2, <2>3 DEF PageRead
<1>7. \A n \in 0 .. Len(pages) : h[n] \in Seq(S)
  <2> DEFINE T == {m \in Nat : m <= Len(pages) => h[m] \in Seq(S)}
  <2>1. 0 \in T
    <3>1. <<>> \in Seq(S)
      OBVIOUS
    <3> QED BY <1>5, <3>1
  <2>2. \A m \in T : m + 1 \in T
    <3>1. SUFFICES ASSUME NEW m \in T, m + 1 <= Len(pages) PROVE h[m + 1] \in Seq(S)
      OBVIOUS
    <3>2. m \in 0 .. Len(pages) - 1 /\ h[m] \in Seq(S) /\ m + 1 \in 1 .. Len(pages)
      BY <1>4, <3>1
    <3>3. pages[m + 1] \in Seq(S)
      BY <3>2
    <3> QED BY <1>6, <3>2, <3>3, ConcatProperties
  <2>3. T = Nat
    <3> HIDE DEF T
    <3>1. T \subseteq Nat
      BY DEF T
    <3> QED BY <2>1, <2>2, <3>1, NatSetInduction
  <2>4. SUFFICES ASSUME NEW n \in 0 .. Len(pages) PROVE h[n] \in Seq(S)
    OBVIOUS
  <2>5. n \in Nat /\ n <= Len(pages)
    BY <1>4
  <2>6. n \in T
    <3> HIDE DEF T
    <3> QED BY <2>3, <2>5
  <2> QED BY <2>5, <2>6
<1>8. h \in [0 .. Len(pages) -> Seq(S)]
  <2>1. h = [n \in 0 .. Len(pages) |-> h[n]]
    BY <1>4
  <2> QED BY <1>7, <2>1
<1> QED BY <1>5, <1>6, <1>8 DEF h

(* A page added at the end adds what it holds. *)
LEMMA ItemsAppended ==
  ASSUME NEW S, NEW pages \in Seq(Seq(S)), NEW page \in Seq(S)
  PROVE  AllItems(Append(pages, page)) = AllItems(pages) \o page
<1> DEFINE more == Append(pages, page)
           h == Items(pages)
           k == Items(more)
<1>1. more \in Seq(Seq(S)) /\ Len(more) = Len(pages) + 1 /\ Len(pages) \in Nat /\ more[Len(pages) + 1] = page
  OBVIOUS
<1>2. \A n \in 1 .. Len(pages) : more[n] = pages[n]
  OBVIOUS
<1> HIDE DEF more
<1>3. h[0] = <<>> /\ \A n \in 0 .. Len(pages) - 1 : h[n + 1] = h[n] \o pages[n + 1]
  BY ItemsRead
<1>4. k[0] = <<>> /\ \A n \in 0 .. Len(more) - 1 : k[n + 1] = k[n] \o more[n + 1]
  BY <1>1, ItemsRead
<1> HIDE DEF h, k
<1> DEFINE T == {n \in Nat : n <= Len(pages) => k[n] = h[n]}
<1>5. 0 \in T
  BY <1>3, <1>4
<1>6. \A n \in T : n + 1 \in T
  <2>1. SUFFICES ASSUME NEW n \in T, n + 1 <= Len(pages) PROVE k[n + 1] = h[n + 1]
    OBVIOUS
  <2>2. n \in 0 .. Len(pages) - 1 /\ n \in 0 .. Len(more) - 1 /\ n + 1 \in 1 .. Len(pages) /\ k[n] = h[n]
    BY <1>1, <2>1
  <2> QED BY <1>2, <1>3, <1>4, <2>2
<1>7. T = Nat
  <2> HIDE DEF T
  <2>1. T \subseteq Nat
    BY DEF T
  <2> QED BY <1>5, <1>6, <2>1, NatSetInduction
<1>8. k[Len(pages)] = h[Len(pages)]
  BY <1>1, <1>7
<1>9. k[Len(pages) + 1] = k[Len(pages)] \o more[Len(pages) + 1]
  <2>1. Len(pages) \in 0 .. Len(more) - 1
    BY <1>1
  <2> QED BY <1>4, <2>1
<1> QED BY <1>1, <1>8, <1>9 DEF AllItems, h, k, more

(* What Azure answers, and what the user has said and read so far. *)
FoundGroup == [name : STRING \cup {"uuid"}, location : STRING \cup {"eastus"}]
GivenOptions == [subscription : STRING, group : STRING, location : STRING]
ChoiceSteps == {"subscriptions", "subscription", "group", "groups", "choose", "create", "over"}
ChoiceErrors == {Unset, "api", "no subscription", "subscription", "exit", "group", "cancelled"}

AccountType ==
    /\ account = [subscriptions |-> account.subscriptions, groups |-> account.groups]
    /\ account.subscriptions \in Seq(Seq(DOMAIN account.groups)) \ {<<>>}
    /\ account.groups \in [DOMAIN account.groups -> Seq(Seq(FoundGroup)) \ {<<>>}]

MakingType ==
    making \in [pc : ChoiceSteps, options : GivenOptions, page : Nat, subs : Seq(DOMAIN account.groups), shown : Seq(FoundGroup),
                sub : DOMAIN account.groups \cup {Unset}, picked : FoundGroup \cup {NoneChosen},
                result : FoundGroup \cup {NoneChosen}, error : ChoiceErrors]

(* What was read is what the pages reached hold. *)
PagesRead ==
    /\ making.pc = "subscriptions" => making.page < Len(account.subscriptions) /\ making.subs = Items(account.subscriptions)[making.page]
    /\ making.pc = "subscription" => making.subs = AllItems(account.subscriptions)
    /\ making.pc \in {"subscription", "group"} => making.page = 0
    /\ making.pc \in {"subscriptions", "subscription"} => making.shown = <<>>
    /\ making.pc = "groups" => making.page < Len(Groups) /\ making.shown = Items(Groups)[making.page]
    /\ making.pc \in {"choose", "create"} => making.shown = AllItems(Groups)

(* What was chosen follows the options. *)
ChoiceFollows ==
    /\ making.pc \in {"group", "groups", "choose", "create"} =>
          making.sub \in DOMAIN account.groups /\ making.options.subscription \in {Unset, making.sub}
    /\ making.pc \in {"groups", "choose", "create"} => making.options.group = Unset
    /\ making.pc # "over" => making.picked = NoneChosen /\ making.error = Unset

ChoiceInv == AccountType /\ MakingType /\ PagesRead /\ ChoiceFollows /\ ContextRight

(* What has been read of pages is a sequence of what they hold, and a page at a time is added. *)
LEMMA PageAdded ==
  ASSUME NEW S, NEW pages \in Seq(Seq(S)) \ {<<>>}, NEW n \in Nat, n < Len(pages)
  PROVE  /\ Items(pages)[n] \in Seq(S) /\ Items(pages)[n] \o pages[n + 1] \in Seq(S)
         /\ Items(pages)[n + 1] = Items(pages)[n] \o pages[n + 1]
         /\ n + 1 < Len(pages) \/ Items(pages)[n + 1] = AllItems(pages)
<1>1. pages \in Seq(Seq(S)) /\ Len(pages) \in Nat
  OBVIOUS
<1>2. n \in 0 .. Len(pages) - 1 /\ n \in 0 .. Len(pages) /\ n + 1 \in 0 .. Len(pages)
  BY <1>1
<1>3. Items(pages)[n] \in Seq(S) /\ Items(pages)[n + 1] \in Seq(S) /\ Items(pages)[n + 1] = Items(pages)[n] \o pages[n + 1]
  BY <1>1, <1>2, ItemsRead
<1>4. n + 1 < Len(pages) \/ n + 1 = Len(pages)
  BY <1>1
<1> QED BY <1>3, <1>4 DEF AllItems

(* A sequence over a set is one over a larger set. *)
LEMMA SeqGrows ==
  ASSUME NEW S, NEW R, S \subseteq R
  PROVE  Seq(S) \subseteq Seq(R)
<1>1. SUFFICES ASSUME NEW p \in Seq(S) PROVE p \in Seq(R)
  OBVIOUS
<1>2. p \in [1 .. Len(p) -> S] /\ Len(p) \in Nat
  OBVIOUS
<1>3. p \in [1 .. Len(p) -> R]
  BY <1>2
<1> QED BY <1>2, <1>3, SeqDef

(* The creation of a context begins with nothing read and nothing chosen. *)
LEMMA ChoiceInitially == AciContextInit => ChoiceInv
<1>1. SUFFICES ASSUME NEW case \in ContextCases, account = case[1], making = Making("subscriptions", case[2]) PROVE ChoiceInv
  BY DEF AciContextInit
<1>2. AccountType
  <2>1. \A s \in DOMAIN account.groups : account.groups[s] \in Seq(Seq([name : STRING, location : STRING])) \ {<<>>}
    BY <1>1, ContextCasesAssumption
  <2>2. \A p \in Seq(Seq([name : STRING, location : STRING])) : p \in Seq(Seq(FoundGroup))
    <3>1. [name : STRING, location : STRING] \subseteq FoundGroup
      BY DEF FoundGroup
    <3>2. Seq([name : STRING, location : STRING]) \subseteq Seq(FoundGroup)
      BY <3>1, SeqGrows
    <3> QED BY <3>2, SeqGrows
  <2>3. account.groups = [s \in DOMAIN account.groups |-> account.groups[s]]
    BY <1>1, ContextCasesAssumption
  <2>4. account.groups \in [DOMAIN account.groups -> Seq(Seq(FoundGroup)) \ {<<>>}]
    <3>1. \A s \in DOMAIN account.groups : account.groups[s] \in Seq(Seq(FoundGroup)) \ {<<>>}
      BY <2>1, <2>2
    <3> QED BY <2>3, <3>1
  <2>5. /\ account = [subscriptions |-> account.subscriptions, groups |-> account.groups]
        /\ account.subscriptions \in Seq(Seq(DOMAIN account.groups)) \ {<<>>}
    BY <1>1, ContextCasesAssumption
  <2> QED BY <2>4, <2>5 DEF AccountType
<1>3. MakingType
  <2>1. case[2] \in GivenOptions
    BY ContextCasesAssumption DEF GivenOptions
  <2> QED BY <1>1, <2>1 DEF MakingType, Making, ChoiceSteps, ChoiceErrors
<1>4. Items(account.subscriptions)[0] = <<>> /\ 0 < Len(account.subscriptions)
  <2>1. account.subscriptions \in Seq(Seq(DOMAIN account.groups)) /\ account.subscriptions # <<>>
    BY <1>2 DEF AccountType
  <2>2. 0 < Len(account.subscriptions)
    BY <2>1
  <2> QED BY <2>1, <2>2, ItemsRead
<1>5. PagesRead /\ ChoiceFollows /\ ContextRight
  BY <1>1, <1>4 DEF PagesRead, ChoiceFollows, ContextRight, Making
<1> QED BY <1>2, <1>3, <1>5 DEF ChoiceInv

(* A command that stops with an error has nothing more to show. *)
LEMMA StopChoice ==
  ASSUME ChoiceInv, NEW e \in ChoiceErrors \ {Unset}, Stop(e), UNCHANGED account
  PROVE  ChoiceInv'
<1>1. MakingType' /\ making'.pc = "over" /\ making'.error = e
  BY DEF ChoiceInv, MakingType, Stop, ChoiceSteps, ChoiceErrors
<1>2. AccountType'
  BY DEF ChoiceInv, AccountType
<1>3. PagesRead' /\ ChoiceFollows' /\ ContextRight'
  BY <1>1 DEF PagesRead, ChoiceFollows, ContextRight
<1> QED BY <1>1, <1>2, <1>3 DEF ChoiceInv

(* Reading the pages of subscriptions. *)
LEMMA SubscriptionsStep == ChoiceInv /\ GetSubscriptionIDs => ChoiceInv'
<1> SUFFICES ASSUME ChoiceInv, GetSubscriptionIDs PROVE ChoiceInv'
  OBVIOUS
<1>1. making.pc = "subscriptions" /\ UNCHANGED account
  BY DEF GetSubscriptionIDs
<1>2. CASE Stop("api")
  BY <1>1, <1>2, StopChoice DEF ChoiceErrors, Unset
<1>3. CASE Stop("no subscription")
  BY <1>1, <1>3, StopChoice DEF ChoiceErrors, Unset
<1>4. ASSUME making' = [making EXCEPT !.subs = ReadPage(account.subscriptions, making.subs),
                                      !.page = IF More(account.subscriptions) THEN making.page + 1 ELSE 0,
                                      !.pc = IF More(account.subscriptions) THEN "subscriptions" ELSE "subscription"]
      PROVE  ChoiceInv'
  <2>1. PICK pages : pages = account.subscriptions
    OBVIOUS
  <2>2. PICK n : n = making.page
    OBVIOUS
  <2>3. PICK S : S = DOMAIN account.groups
    OBVIOUS
  <2>4. pages \in Seq(Seq(S)) \ {<<>>} /\ n \in Nat /\ n < Len(pages) /\ making.subs = Items(pages)[n]
    BY <1>1, <2>1, <2>2, <2>3 DEF ChoiceInv, AccountType, MakingType, PagesRead
  <2>5. PICK got : got = Items(pages)[n] \o pages[n + 1]
    OBVIOUS
  <2>6. got \in Seq(S) /\ got = Items(pages)[n + 1] /\ (n + 1 < Len(pages) \/ got = AllItems(pages))
    BY <2>4, <2>5, PageAdded
  <2>7. PICK more : more = (n + 1 < Len(pages))
    OBVIOUS
  <2>7a. PICK page, step : page = (IF more THEN n + 1 ELSE 0) /\ step = (IF more THEN "subscriptions" ELSE "subscription")
    OBVIOUS
  <2>7b. page \in Nat /\ step \in ChoiceSteps
    BY <2>4, <2>7a DEF ChoiceSteps
  <2>8. making' = [making EXCEPT !.subs = got, !.page = page, !.pc = step]
    BY <1>4, <2>1, <2>2, <2>4, <2>5, <2>7, <2>7a DEF ReadPage, More
  <2>9. /\ making' \in [pc : ChoiceSteps, options : GivenOptions, page : Nat, subs : Seq(S), shown : Seq(FoundGroup),
                        sub : S \cup {Unset}, picked : FoundGroup \cup {NoneChosen},
                        result : FoundGroup \cup {NoneChosen}, error : ChoiceErrors]
        /\ making'.subs = got /\ making'.page = page /\ making'.shown = making.shown
        /\ making'.pc = step /\ making'.picked = making.picked /\ making'.error = making.error
    BY <2>3, <2>6, <2>7b, <2>8 DEF ChoiceInv, MakingType
  <2>10. AccountType' /\ MakingType' /\ account' = account
    BY <1>1, <2>3, <2>9 DEF ChoiceInv, AccountType, MakingType
  <2>11. PagesRead'
    BY <1>1, <2>1, <2>4, <2>6, <2>7, <2>7a, <2>9 DEF ChoiceInv, PagesRead
  <2>12. ChoiceFollows' /\ ContextRight'
    BY <1>1, <2>7a, <2>9 DEF ChoiceInv, ChoiceFollows, ContextRight
  <2> QED BY <2>10, <2>11, <2>12 DEF ChoiceInv
<1> QED BY <1>2, <1>3, <1>4 DEF GetSubscriptionIDs

(* The choice of a subscription. *)
LEMMA SubscriptionStep == ChoiceInv /\ chooseSub => ChoiceInv'
<1> SUFFICES ASSUME ChoiceInv, chooseSub PROVE ChoiceInv'
  OBVIOUS
<1>1. making.pc = "subscription" /\ UNCHANGED account
  BY DEF chooseSub
<1>2. CASE Stop("subscription")
  BY <1>1, <1>2, StopChoice DEF ChoiceErrors, Unset
<1>3. CASE Stop("exit")
  BY <1>1, <1>3, StopChoice DEF ChoiceErrors, Unset
<1>4. ASSUME NEW i \in DOMAIN making.subs, making.options.subscription \in {Unset, making.subs[i]}, UseSubscription(making.subs[i])
      PROVE  ChoiceInv'
  <2>1. PICK s : s = making.subs[i]
    OBVIOUS
  <2>2. s \in DOMAIN account.groups
    BY <2>1 DEF ChoiceInv, MakingType
  <2>3. PICK step : step = IF making.options.group = Unset THEN "groups" ELSE "group"
    OBVIOUS
  <2>4. making' = [making EXCEPT !.sub = s, !.pc = step] /\ step \in ChoiceSteps
    BY <1>4, <2>1, <2>3 DEF UseSubscription, ChoiceSteps
  <2>5. /\ MakingType' /\ AccountType' /\ making'.sub = s /\ making'.pc = step /\ making'.page = making.page /\ making'.shown = making.shown
        /\ making'.options = making.options /\ making'.picked = making.picked /\ making'.error = making.error
    BY <1>1, <2>2, <2>4 DEF ChoiceInv, MakingType, AccountType
  <2>6. making.page = 0 /\ making.shown = <<>>
    BY <1>1 DEF ChoiceInv, PagesRead
  <2>7. PICK pages : pages = account.groups[s]
    OBVIOUS
  <2>8. 0 < Len(pages) /\ Items(pages)[0] = <<>>
    <3>1. pages \in Seq(Seq(FoundGroup)) /\ pages # <<>>
      BY <2>2, <2>7 DEF ChoiceInv, AccountType
    <3>2. 0 < Len(pages)
      BY <3>1
    <3> QED BY <3>1, <3>2, ItemsRead
  <2>9. Groups' = pages
    BY <1>1, <2>5, <2>7 DEF Groups
  <2>10. PagesRead'
    BY <2>3, <2>5, <2>6, <2>8, <2>9 DEF PagesRead
  <2>11. ChoiceFollows' /\ ContextRight'
    BY <1>1, <1>4, <2>1, <2>2, <2>3, <2>5 DEF ChoiceInv, ChoiceFollows, ContextRight
  <2> QED BY <2>5, <2>10, <2>11 DEF ChoiceInv
<1> QED BY <1>2, <1>3, <1>4 DEF chooseSub

(* All groups of a subscription are a sequence of groups. *)
LEMMA GroupsType ==
  ASSUME ChoiceInv, making.sub \in DOMAIN account.groups
  PROVE  Groups \in Seq(Seq(FoundGroup)) \ {<<>>} /\ Len(Groups) \in Nat /\ AllItems(Groups) \in Seq(FoundGroup)
<1>1. Groups \in Seq(Seq(FoundGroup)) \ {<<>>}
  BY DEF ChoiceInv, AccountType, Groups
<1>2. PICK pages : pages = Groups
  OBVIOUS
<1>3. pages \in Seq(Seq(FoundGroup)) /\ Len(pages) \in Nat /\ Len(pages) \in 0 .. Len(pages)
  <2>1. pages \in Seq(Seq(FoundGroup))
    BY <1>1, <1>2
  <2>2. Len(pages) \in Nat
    BY <2>1
  <2> QED BY <2>1, <2>2
<1>4. Items(pages)[Len(pages)] \in Seq(FoundGroup)
  BY <1>3, ItemsRead
<1> QED BY <1>1, <1>2, <1>3, <1>4 DEF AllItems

(* The group that is asked for by its name. *)
LEMMA GroupStepTaken == ChoiceInv /\ GetGroup => ChoiceInv'
<1> SUFFICES ASSUME ChoiceInv, GetGroup PROVE ChoiceInv'
  OBVIOUS
<1>1. making.pc = "group" /\ UNCHANGED account
  BY DEF GetGroup
<1>2. CASE Stop("group")
  BY <1>1, <1>2, StopChoice DEF ChoiceErrors, Unset
<1>3. ASSUME NEW i \in DOMAIN AllItems(Groups), AllItems(Groups)[i].name = making.options.group, Result(AllItems(Groups)[i])
      PROVE  ChoiceInv'
  <2>1. making.sub \in DOMAIN account.groups /\ making.options.subscription \in {Unset, making.sub} /\ making.picked = NoneChosen
    BY <1>1 DEF ChoiceInv, ChoiceFollows
  <2>2. PICK all : all = AllItems(Groups)
    OBVIOUS
  <2>3. all \in Seq(FoundGroup)
    BY <2>1, <2>2, GroupsType
  <2>4. PICK g : g = all[i]
    OBVIOUS
  <2>5. g \in FoundGroup /\ g \in Range(all)
    BY <1>3, <2>2, <2>3, <2>4 DEF Range
  <2>6. making' = [making EXCEPT !.pc = "over", !.result = g]
    BY <1>3, <2>2, <2>4 DEF Result
  <2>7. /\ MakingType' /\ AccountType' /\ making'.pc = "over" /\ making'.result = g
        /\ making'.sub = making.sub /\ making'.options = making.options /\ making'.picked = making.picked
    BY <1>1, <2>5, <2>6 DEF ChoiceInv, MakingType, AccountType, ChoiceSteps
  <2>8. Groups' = Groups
    BY <1>1, <2>7 DEF Groups
  <2>9. ContextRight'
    BY <1>3, <2>1, <2>2, <2>4, <2>5, <2>7, <2>8 DEF ContextRight
  <2>10. PagesRead' /\ ChoiceFollows'
    BY <2>7 DEF PagesRead, ChoiceFollows
  <2> QED BY <2>7, <2>9, <2>10 DEF ChoiceInv
<1> QED BY <1>2, <1>3 DEF GetGroup

(* Reading the pages of groups. *)
LEMMA GroupsStepTaken == ChoiceInv /\ ListGroups => ChoiceInv'
<1> SUFFICES ASSUME ChoiceInv, ListGroups PROVE ChoiceInv'
  OBVIOUS
<1>1. making.pc = "groups" /\ UNCHANGED account
  BY DEF ListGroups
<1>2. CASE Stop("api")
  BY <1>1, <1>2, StopChoice DEF ChoiceErrors, Unset
<1>3. ASSUME making' = [making EXCEPT !.shown = ReadPage(Groups, making.shown),
                                      !.page = IF More(Groups) THEN making.page + 1 ELSE 0,
                                      !.pc = IF More(Groups) THEN "groups" ELSE "choose"]
      PROVE  ChoiceInv'
  <2>0. making.sub \in DOMAIN account.groups
    BY <1>1 DEF ChoiceInv, ChoiceFollows
  <2>1. PICK pages : pages = Groups
    OBVIOUS
  <2>2. PICK n : n = making.page
    OBVIOUS
  <2>4. pages \in Seq(Seq(FoundGroup)) \ {<<>>} /\ n \in Nat /\ n < Len(pages) /\ making.shown = Items(pages)[n]
    <3>1. pages \in Seq(Seq(FoundGroup)) \ {<<>>}
      BY <2>0, <2>1, GroupsType
    <3>2. n \in Nat /\ n < Len(pages) /\ making.shown = Items(pages)[n]
      BY <1>1, <2>1, <2>2 DEF ChoiceInv, MakingType, PagesRead
    <3> QED BY <3>1, <3>2
  <2>5. PICK got : got = Items(pages)[n] \o pages[n + 1]
    OBVIOUS
  <2>6. got \in Seq(FoundGroup) /\ got = Items(pages)[n + 1] /\ (n + 1 < Len(pages) \/ got = AllItems(pages))
    BY <2>4, <2>5, PageAdded
  <2>7. PICK more : more = (n + 1 < Len(pages))
    OBVIOUS
  <2>7a. PICK page, step : page = (IF more THEN n + 1 ELSE 0) /\ step = (IF more THEN "groups" ELSE "choose")
    OBVIOUS
  <2>7b. page \in Nat /\ step \in ChoiceSteps
    BY <2>4, <2>7a DEF ChoiceSteps
  <2>8. making' = [making EXCEPT !.shown = got, !.page = page, !.pc = step]
    BY <1>3, <2>1, <2>2, <2>4, <2>5, <2>7, <2>7a DEF ReadPage, More
  <2>9. /\ MakingType' /\ AccountType'
        /\ making'.shown = got /\ making'.page = page /\ making'.sub = making.sub /\ making'.options = making.options
        /\ making'.pc = step /\ making'.picked = making.picked /\ making'.error = making.error
    BY <1>1, <2>6, <2>7b, <2>8 DEF ChoiceInv, MakingType, AccountType
  <2>10. Groups' = pages
    BY <1>1, <2>1, <2>9 DEF Groups
  <2>11. PagesRead'
    BY <2>4, <2>6, <2>7, <2>7a, <2>9, <2>10 DEF PagesRead
  <2>12. ChoiceFollows' /\ ContextRight'
    BY <1>1, <2>7a, <2>9 DEF ChoiceInv, ChoiceFollows, ContextRight
  <2> QED BY <2>9, <2>11, <2>12 DEF ChoiceInv
<1> QED BY <1>2, <1>3 DEF ListGroups

(* The choice among the groups that are shown. *)
LEMMA ChooseStep == ChoiceInv /\ chooseGroup => ChoiceInv'
<1> SUFFICES ASSUME ChoiceInv, chooseGroup PROVE ChoiceInv'
  OBVIOUS
<1>1. making.pc = "choose" /\ UNCHANGED account
  BY DEF chooseGroup
<1>2. /\ making.sub \in DOMAIN account.groups /\ making.options.subscription \in {Unset, making.sub}
      /\ making.options.group = Unset /\ making.picked = NoneChosen /\ making.error = Unset /\ making.shown = AllItems(Groups)
  BY <1>1 DEF ChoiceInv, ChoiceFollows, PagesRead
<1>3. CASE Stop("cancelled")
  BY <1>1, <1>3, StopChoice DEF ChoiceErrors, Unset
<1>4. CASE To("create")
  <2>1. /\ MakingType' /\ AccountType' /\ making'.pc = "create" /\ making'.shown = making.shown /\ making'.sub = making.sub
        /\ making'.options = making.options /\ making'.picked = making.picked /\ making'.error = making.error
    BY <1>1, <1>4 DEF ChoiceInv, MakingType, AccountType, To, ChoiceSteps
  <2>2. Groups' = Groups
    BY <1>1, <2>1 DEF Groups
  <2>3. PagesRead' /\ ChoiceFollows' /\ ContextRight'
    BY <1>1, <1>2, <2>1, <2>2 DEF PagesRead, ChoiceFollows, ContextRight
  <2> QED BY <2>1, <2>3 DEF ChoiceInv
<1>5. ASSUME NEW i \in DOMAIN making.shown, making' = [making EXCEPT !.pc = "over", !.result = ChosenGroup(i), !.picked = making.shown[i]]
      PROVE  ChoiceInv'
  <2>1. PICK g : g = making.shown[i]
    OBVIOUS
  <2>2. g \in FoundGroup /\ g \in Range(making.shown)
    BY <2>1 DEF ChoiceInv, MakingType, Range
  <2>3. making' = [making EXCEPT !.pc = "over", !.result = g, !.picked = g]
    BY <1>5, <2>1 DEF ChosenGroup
  <2>4. /\ MakingType' /\ AccountType' /\ making'.pc = "over" /\ making'.result = g /\ making'.picked = g
        /\ making'.sub = making.sub /\ making'.options = making.options
    BY <1>1, <2>2, <2>3 DEF ChoiceInv, MakingType, AccountType, ChoiceSteps
  <2>5. Groups' = Groups
    BY <1>1, <2>4 DEF Groups
  <2>6. PagesRead' /\ ChoiceFollows' /\ ContextRight'
    BY <1>2, <2>2, <2>4, <2>5 DEF PagesRead, ChoiceFollows, ContextRight
  <2> QED BY <2>4, <2>6 DEF ChoiceInv
<1> QED BY <1>3, <1>4, <1>5 DEF chooseGroup

(* A new group comes after those there are. *)
LEMMA CreateStep == ChoiceInv /\ createGroup => ChoiceInv'
<1> SUFFICES ASSUME ChoiceInv, createGroup PROVE ChoiceInv'
  OBVIOUS
<1>1. making.pc = "create"
  BY DEF createGroup
<1>2. /\ making.sub \in DOMAIN account.groups /\ making.options.subscription \in {Unset, making.sub} /\ making.options.group = Unset
  BY <1>1 DEF ChoiceInv, ChoiceFollows
<1>3. CASE Stop("api") /\ UNCHANGED account
  BY <1>3, StopChoice DEF ChoiceErrors, Unset
<1>4. PICK g : g = [name |-> "uuid", location |-> IF making.options.location = Unset THEN "eastus" ELSE making.options.location]
  OBVIOUS
<1>5. ASSUME account' = [account EXCEPT !.groups[making.sub] = Append(@, <<g>>)],
             making' = [making EXCEPT !.pc = "over", !.result = g, !.picked = g]
      PROVE  ChoiceInv'
  <2>1. g \in FoundGroup
    BY <1>4 DEF FoundGroup, ChoiceInv, MakingType, GivenOptions
  <2>2. PICK s : s = making.sub
    OBVIOUS
  <2>3. PICK pages : pages = account.groups[s]
    OBVIOUS
  <2>4. pages \in Seq(Seq(FoundGroup)) /\ s \in DOMAIN account.groups
    BY <1>2, <2>2, <2>3 DEF ChoiceInv, AccountType
  <2>5. PICK more : more = Append(pages, <<g>>)
    OBVIOUS
  <2>6. more \in Seq(Seq(FoundGroup)) /\ more # <<>> /\ <<g>> \in Seq(FoundGroup)
    <3>1. <<g>> \in Seq(FoundGroup)
      BY <2>1
    <3> QED BY <2>4, <2>5, <3>1
  <2>7. PICK after : after = [account.groups EXCEPT ![s] = more]
    OBVIOUS
  <2>8. account' = [account EXCEPT !.groups = after]
    BY <1>5, <2>2, <2>3, <2>5, <2>7
  <2>9. /\ account'.subscriptions = account.subscriptions /\ account'.groups = after
        /\ account' = [subscriptions |-> account'.subscriptions, groups |-> account'.groups]
    BY <2>8 DEF ChoiceInv, AccountType
  <2>10. after \in [DOMAIN account.groups -> Seq(Seq(FoundGroup)) \ {<<>>}] /\ DOMAIN after = DOMAIN account.groups /\ after[s] = more
    BY <2>4, <2>6, <2>7 DEF ChoiceInv, AccountType
  <2>11. AccountType'
    BY <2>9, <2>10 DEF ChoiceInv, AccountType
  <2>12. /\ making'.pc = "over" /\ making'.result = g /\ making'.picked = g
         /\ making'.sub = making.sub /\ making'.options = making.options
    BY <1>5 DEF ChoiceInv, MakingType
  <2>13. MakingType'
    <3>1. DOMAIN account'.groups = DOMAIN account.groups
      BY <2>9, <2>10
    <3> QED BY <1>5, <2>1, <3>1 DEF ChoiceInv, MakingType, ChoiceSteps
  <2>14. g \in Range(AllItems(more))
    <3>1. PICK all : all = AllItems(pages)
      OBVIOUS
    <3>2. AllItems(more) = all \o <<g>>
      BY <2>4, <2>5, <2>6, <3>1, ItemsAppended
    <3>3. all \in Seq(FoundGroup)
      <4>1. Groups = pages
        BY <2>2, <2>3 DEF Groups
      <4> QED BY <1>2, <3>1, <4>1, GroupsType
    <3>4. Len(all) + 1 \in DOMAIN (all \o <<g>>) /\ (all \o <<g>>)[Len(all) + 1] = g
      <4>1. <<g>> \in Seq(FoundGroup) /\ Len(<<g>>) = 1 /\ <<g>>[1] = g
        BY <2>1
      <4> QED BY <3>3, <4>1
    <3> QED BY <3>2, <3>4 DEF Range
  <2>15. Groups' = more
    BY <2>2, <2>9, <2>10, <2>12 DEF Groups
  <2>16. PagesRead' /\ ChoiceFollows' /\ ContextRight'
    BY <1>2, <2>12, <2>14, <2>15 DEF PagesRead, ChoiceFollows, ContextRight
  <2> QED BY <2>11, <2>13, <2>16 DEF ChoiceInv
<1> QED BY <1>3, <1>4, <1>5 DEF createGroup

(***************************************************************************)
(* A context names the group that was asked for or picked, out of all that *)
(* there are, for every account, any number of pages and all options.      *)
(***************************************************************************)
THEOREM GroupsAreChosen == AciContextSpec => []GroupChosen
<1>1. ChoiceInv /\ [AciContextNext]_aciContextVars => ChoiceInv'
  <2>1. ASSUME ChoiceInv, UNCHANGED aciContextVars PROVE ChoiceInv'
    BY <2>1 DEF ChoiceInv, AccountType, MakingType, PagesRead, ChoiceFollows, ContextRight, Groups, aciContextVars
  <2> QED BY <2>1, SubscriptionsStep, SubscriptionStep, GroupStepTaken, GroupsStepTaken, ChooseStep, CreateStep DEF AciContextNext
<1>2. ChoiceInv => GroupChosen
  BY DEF ChoiceInv, PagesRead, GroupChosen, AllOffered
<1> QED BY <1>1, <1>2, ChoiceInitially, PTL DEF AciContextSpec

-----------------------------------------------------------------------------
(***************************************************************************)
(* The logs and exec of ACI (AciLogs).  The rows of the lines and their    *)
(* number are made in loops: a step that keeps to a set defines a function *)
(* of the number of turns, and the code counts the rows that are there, or *)
(* one more for a line whose rows are all full.                            *)
(***************************************************************************)
IsStep(G, X, N) == G \in [X \X (1 .. N) -> X]
IsLoop(f, z, G, X, N) == f \in [0 .. N -> X] /\ f[0] = z /\ \A n \in 1 .. N : f[n] = G[<<f[n - 1], n>>]

(* A recursion over numbers defines something. *)
LEMMA LoopDefined ==
  ASSUME NEW X, NEW z \in X, NEW N \in Nat, NEW G, IsStep(G, X, N)
  PROVE  \E f : IsLoop(f, z, G, X, N)
<1>0. G \in [X \X (1 .. N) -> X]
  BY DEF IsStep
<1> DEFINE Is(f, m) == f \in [0 .. m -> X] /\ f[0] = z /\ \A n \in 1 .. m : f[n] = G[<<f[n - 1], n>>]
<1> DEFINE T == {m \in Nat : m <= N => \E f : Is(f, m)}
<1>1. 0 \in T
  <2>1. Is([n \in 0 .. 0 |-> z], 0)
    OBVIOUS
  <2> QED BY <2>1
<1>2. \A m \in T : m + 1 \in T
  <2>0. \A m \in Nat : (m + 1 <= N => \E f : Is(f, m + 1)) => m + 1 \in T
    <3> HIDE DEF Is
    <3> QED OBVIOUS
  <2>1. SUFFICES ASSUME NEW m \in T, m + 1 <= N PROVE \E f : Is(f, m + 1)
    <3> HIDE DEF Is
    <3> QED BY <2>0
  <2>2. m \in Nat /\ m <= N
    BY <2>1
  <2>3. PICK f : Is(f, m)
    <3> HIDE DEF Is
    <3> QED BY <2>1, <2>2
  <2>4. f[m] \in X /\ m + 1 \in 1 .. N
    BY <2>1, <2>2, <2>3
  <2>5. PICK y : y = G[<<f[m], m + 1>>] /\ y \in X
    BY <1>0, <2>4
  <2> DEFINE g == [n \in 0 .. m + 1 |-> IF n = m + 1 THEN y ELSE f[n]]
  <2>6. g \in [0 .. m + 1 -> X] /\ g[0] = z
    BY <2>2, <2>3, <2>5
  <2>7. ASSUME NEW n \in 1 .. m + 1 PROVE g[n] = G[<<g[n - 1], n>>]
    <3>1. n - 1 \in 0 .. m /\ n - 1 # m + 1 /\ g[n - 1] = f[n - 1]
      BY <2>2
    <3>2. CASE n = m + 1
      <4>1. n - 1 = m /\ g[n] = y
        BY <2>2, <3>2
      <4> QED BY <2>5, <3>1, <3>2, <4>1
    <3>3. CASE n # m + 1
      <4>1. n \in 1 .. m /\ g[n] = f[n]
        BY <2>2, <3>3
      <4> QED BY <2>3, <3>1, <4>1
    <3> QED BY <3>2, <3>3
  <2> HIDE DEF g
  <2>8. Is(g, m + 1)
    BY <2>6, <2>7
  <2> QED BY <2>8
<1>3. T = Nat
  <2> HIDE DEF T
  <2>1. T \subseteq Nat
    BY DEF T
  <2> QED BY <1>1, <1>2, <2>1, NatSetInduction
<1>4. PICK f : Is(f, N)
  <2> HIDE DEF Is
  <2>1. N \in T
    <3> HIDE DEF T
    <3> QED BY <1>3
  <2> QED BY <2>1
<1> QED BY <1>4 DEF IsLoop

(* A loop goes one way: what makes the same turns has the same values. *)
LEMMA LoopsAgree ==
  ASSUME NEW X, NEW z \in X, NEW N \in Nat, NEW G, NEW f, NEW g, IsLoop(f, z, G, X, N),
         g[0] = z, \A n \in 1 .. N : g[n - 1] \in X => g[n] = G[<<g[n - 1], n>>]
  PROVE  \A n \in 0 .. N : g[n] = f[n]
<1>0. f \in [0 .. N -> X] /\ f[0] = z /\ \A n \in 1 .. N : f[n] = G[<<f[n - 1], n>>]
  BY DEF IsLoop
<1> DEFINE T == {m \in Nat : m <= N => g[m] = f[m]}
<1>1. 0 \in T
  BY <1>0
<1>2. ASSUME NEW m \in T PROVE m + 1 \in T
  <2>1. SUFFICES ASSUME m + 1 <= N PROVE g[m + 1] = f[m + 1]
    OBVIOUS
  <2>2. m \in Nat /\ m \in 0 .. N /\ m + 1 \in 1 .. N /\ (m + 1) - 1 = m /\ g[m] = f[m]
    BY <2>1
  <2>3. f[m] \in X
    BY <1>0, <2>2
  <2>4. g[m + 1] = G[<<g[m], m + 1>>]
    BY <2>2, <2>3
  <2>5. f[m + 1] = G[<<f[m], m + 1>>]
    BY <1>0, <2>2
  <2> QED BY <2>2, <2>4, <2>5
<1>3. T = Nat
  <2> HIDE DEF T
  <2>1. T \subseteq Nat
    BY DEF T
  <2> QED BY <1>1, <1>2, <2>1, NatSetInduction
<1> QED BY <1>3

(* The quotient is the one number that leaves a remainder less than the divisor. *)
LEMMA OneQuotient ==
  ASSUME NEW w \in Nat, NEW k \in Nat, NEW m \in Nat, NEW r \in Nat, NEW s \in Nat, r < w, s < w, w * k + r = w * m + s
  PROVE  k = m
<1>1. ASSUME NEW a \in Nat, NEW b \in Nat, a < b PROVE w * b >= w * a + w
  <2>1. PICK d \in Nat : b = a + 1 + d
    <3>1. b - a - 1 \in Nat /\ b = a + 1 + (b - a - 1)
      BY <1>1
    <3> QED BY <3>1
  <2>2. w * b = w * a + w + w * d
    BY <2>1
  <2>3. w * d \in Nat /\ w * a \in Nat
    OBVIOUS
  <2> QED BY <2>2, <2>3
<1>2. w * k \in Nat /\ w * m \in Nat
  OBVIOUS
<1>3. CASE k < m
  <2>1. w * m >= w * k + w
    BY <1>1, <1>3
  <2> QED BY <1>2, <2>1
<1>4. CASE m < k
  <2>1. w * k >= w * m + w
    BY <1>1, <1>4
  <2> QED BY <1>2, <2>1
<1> QED BY <1>3, <1>4

(* A line that does not end with a full row has one row more than full ones. *)
LEMMA NextQuotient ==
  ASSUME NEW l \in Nat, NEW w \in Nat \ {0}, l % w # 0
  PROVE  (l + w - 1) \div w = l \div w + 1 /\ l \div w \in Nat
<1>1. PICK q \in Nat, r \in Nat : q = l \div w /\ r = l % w
  OBVIOUS
<1>2. l = w * q + r /\ r < w /\ r # 0
  BY <1>1
<1>3. PICK p \in Nat, s \in Nat : p = (l + w - 1) \div w /\ s = (l + w - 1) % w
  <2>1. l + w - 1 \in Nat
    OBVIOUS
  <2> QED BY <2>1
<1>4. l + w - 1 = w * p + s /\ s < w
  <2>1. l + w - 1 \in Nat
    OBVIOUS
  <2> QED BY <1>3, <2>1
<1>5. w * (q + 1) = w * q + w /\ w * q \in Nat
  OBVIOUS
<1>6. r - 1 \in Nat /\ r - 1 < w /\ w * (q + 1) + (r - 1) = w * p + s
  BY <1>2, <1>4, <1>5
<1>7. q + 1 = p
  BY <1>4, <1>6, OneQuotient
<1> QED BY <1>1, <1>3, <1>7

Line == [number : Nat, length : Lengths]
RowSeq == Seq(Nat \X Nat)
RowsOf(lines) == CHOOSE f : f = [n \in 0 .. Len(lines) |-> IF n = 0 THEN <<>> ELSE f[n - 1] \o Rows(lines[n])]
CountsOf(lines) == CHOOSE f : f = [n \in 0 .. Len(lines) |-> IF n = 0 THEN 0 ELSE f[n - 1] + Counts(lines[n])]

(* A line whose rows are all full has as many as there are full ones. *)
LEMMA FullQuotient ==
  ASSUME NEW l \in Nat, NEW w \in Nat \ {0}, l % w = 0
  PROVE  (l + w - 1) \div w = l \div w /\ l \div w \in Nat
<1>1. PICK q \in Nat : q = l \div w
  OBVIOUS
<1>2. l = w * q
  BY <1>1
<1>3. l + w - 1 \in Nat /\ w - 1 \in Nat
  OBVIOUS
<1>4. PICK p \in Nat, s \in Nat : p = (l + w - 1) \div w /\ s = (l + w - 1) % w
  BY <1>3
<1>5. l + w - 1 = w * p + s /\ s < w
  BY <1>3, <1>4
<1>6. w - 1 < w /\ w * q + (w - 1) = w * p + s
  BY <1>2, <1>3, <1>5
<1>7. q = p
  BY <1>3, <1>5, <1>6, OneQuotient
<1> QED BY <1>1, <1>4, <1>7

(* The rows of a line are as many as the code counts, or one less. *)
Fills(line) == line.length > Width /\ line.length % Width = 0
LEMMA RowsCounted ==
  ASSUME NEW line \in Line
  PROVE  /\ Rows(line) \in RowSeq /\ Counts(line) \in Nat /\ Len(Rows(line)) \in Nat
         /\ Counts(line) = Len(Rows(line)) + (IF Fills(line) THEN 1 ELSE 0)
         /\ ~(line.length > Width) => Len(Rows(line)) = 1
<1>1. PICK l \in Nat, w \in Nat \ {0}, m \in Nat : l = line.length /\ w = Width /\ m = line.number
  BY LogsAssumption DEF Line
<1>2. PICK p : p = IF l <= w THEN 1 ELSE (l + w - 1) \div w
  OBVIOUS
<1>3. p \in Nat /\ Counts(line) \in Nat /\ Counts(line) = p + (IF Fills(line) THEN 1 ELSE 0) /\ (~(l > w) => p = 1)
  <2>1. CASE l <= w
    BY <1>1, <1>2, <2>1 DEF Counts, Fills
  <2>2. CASE l > w /\ l % w # 0
    <3>1. (l + w - 1) \div w = l \div w + 1 /\ l \div w \in Nat
      BY <1>1, <2>2, NextQuotient
    <3>2. p = l \div w + 1
      BY <2>2, <1>2, <3>1
    <3>3. Counts(line) = 1 + l \div w /\ ~Fills(line)
      BY <2>2, <1>1 DEF Counts, Fills
    <3> QED BY <2>2, <3>1, <3>2, <3>3
  <2>3. CASE l > w /\ l % w = 0
    <3>1. (l + w - 1) \div w = l \div w /\ l \div w \in Nat
      BY <1>1, <2>3, FullQuotient
    <3>2. p = l \div w
      BY <2>3, <1>2, <3>1
    <3>3. Counts(line) = 1 + l \div w /\ Fills(line)
      BY <2>3, <1>1 DEF Counts, Fills
    <3> QED BY <2>3, <3>1, <3>2, <3>3
  <2> QED BY <2>1, <2>2, <2>3
<1>4. Rows(line) = [k \in 1 .. p |-> <<m, k>>]
  BY <1>1, <1>2 DEF Rows
<1>5. [k \in 1 .. p |-> <<m, k>>] \in RowSeq /\ Len([k \in 1 .. p |-> <<m, k>>]) = p
  BY <1>3 DEF RowSeq
<1> QED BY <1>1, <1>3, <1>4, <1>5

(* What the loop that makes the rows holds at each turn. *)
LEMMA RowsLoop ==
  ASSUME NEW lines \in Seq(Line)
  PROVE  /\ RowsOf(lines) \in [0 .. Len(lines) -> RowSeq] /\ RowsOf(lines)[0] = <<>> /\ AllRows(lines) = RowsOf(lines)[Len(lines)]
         /\ \A n \in 1 .. Len(lines) : RowsOf(lines)[n] = RowsOf(lines)[n - 1] \o Rows(lines[n])
<1> DEFINE N == Len(lines)
           G == [q \in RowSeq \X (1 .. N) |-> q[1] \o Rows(lines[q[2]])]
           f == RowsOf(lines)
<1>1. N \in Nat /\ \A n \in 1 .. N : Rows(lines[n]) \in RowSeq
  BY RowsCounted
<1>2. <<>> \in RowSeq
  BY DEF RowSeq
<1>3. \A s, t \in RowSeq : s \o t \in RowSeq
  BY ConcatProperties DEF RowSeq
<1>4. IsStep(G, RowSeq, N)
  <2>1. ASSUME NEW q \in RowSeq \X (1 .. N) PROVE q[1] \o Rows(lines[q[2]]) \in RowSeq
    BY <1>1, <1>3
  <2> QED BY <2>1 DEF IsStep
<1>5. PICK g : IsLoop(g, <<>>, G, RowSeq, N)
  <2> HIDE DEF G, N
  <2> QED BY <1>1, <1>2, <1>4, LoopDefined
<1>6. g \in [0 .. N -> RowSeq] /\ g[0] = <<>> /\ \A n \in 1 .. N : g[n] = g[n - 1] \o Rows(lines[n])
  <2>1. g \in [0 .. N -> RowSeq] /\ g[0] = <<>> /\ \A n \in 1 .. N : g[n] = G[<<g[n - 1], n>>]
    BY <1>5 DEF IsLoop
  <2>2. ASSUME NEW n \in 1 .. N PROVE g[n] = g[n - 1] \o Rows(lines[n])
    <3>1. n - 1 \in 0 .. N /\ g[n - 1] \in RowSeq
      BY <1>1, <2>1
    <3> QED BY <2>1, <3>1
  <2> QED BY <2>1, <2>2
<1>7. g = [n \in 0 .. N |-> IF n = 0 THEN <<>> ELSE g[n - 1] \o Rows(lines[n])]
  <2>1. ASSUME NEW n \in 0 .. N PROVE g[n] = IF n = 0 THEN <<>> ELSE g[n - 1] \o Rows(lines[n])
    <3>1. n # 0 => n \in 1 .. N
      BY <1>1
    <3> QED BY <1>6, <3>1
  <2> QED BY <1>6, <2>1
<1>8. f = [n \in 0 .. N |-> IF n = 0 THEN <<>> ELSE f[n - 1] \o Rows(lines[n])]
  BY <1>7 DEF RowsOf
<1>9. AllRows(lines) = f[N]
  BY DEF AllRows, RowsOf
<1> HIDE DEF f
<1>10. f[0] = <<>> /\ \A n \in 1 .. N : f[n] = f[n - 1] \o Rows(lines[n])
  <2>1. 0 \in 0 .. N /\ \A n \in 1 .. N : n \in 0 .. N /\ n # 0
    BY <1>1
  <2> HIDE DEF N
  <2> QED BY <1>8, <2>1
<1>11. \A n \in 0 .. N : f[n] = g[n]
  <2>1. ASSUME NEW n \in 1 .. N, f[n - 1] \in RowSeq PROVE f[n] = G[<<f[n - 1], n>>]
    BY <1>10, <2>1
  <2> HIDE DEF G, N
  <2> QED BY <1>1, <1>2, <1>5, <1>10, <2>1, LoopsAgree
<1>12. f \in [0 .. N -> RowSeq]
  <2>1. f = g
    <3>1. DOMAIN f = 0 .. N /\ f = [n \in 0 .. N |-> f[n]]
      BY <1>8
    <3>2. g = [n \in 0 .. N |-> g[n]]
      BY <1>6
    <3> HIDE DEF N
    <3> QED BY <1>11, <3>1, <3>2
  <2> QED BY <1>6, <2>1
<1> QED BY <1>9, <1>10, <1>12 DEF f

(* A line more is its rows more. *)
LEMMA RowsGrow ==
  ASSUME NEW lines \in Seq(Line), NEW l \in Line
  PROVE  /\ AllRows(lines) \in RowSeq /\ AllRows(Append(lines, l)) = AllRows(lines) \o Rows(l)
         /\ Len(AllRows(Append(lines, l))) = Len(AllRows(lines)) + Len(Rows(l))
<1> DEFINE N == Len(lines)
           G == [q \in RowSeq \X (1 .. N) |-> q[1] \o Rows(lines[q[2]])]
<1>1. PICK t : t = Append(lines, l)
  OBVIOUS
<1>2. t \in Seq(Line) /\ Len(t) = N + 1 /\ N \in Nat /\ t[N + 1] = l /\ \A n \in 1 .. N : t[n] = lines[n]
  BY <1>1, AppendProperties
<1>3. PICK f : /\ f \in [0 .. N -> RowSeq] /\ f[0] = <<>> /\ AllRows(lines) = f[N]
               /\ \A n \in 1 .. N : f[n] = f[n - 1] \o Rows(lines[n])
  BY RowsLoop
<1>4. PICK g : /\ g[0] = <<>> /\ AllRows(t) = g[N + 1]
               /\ \A n \in 1 .. N + 1 : g[n] = g[n - 1] \o Rows(t[n])
  <2>1. /\ RowsOf(t)[0] = <<>> /\ AllRows(t) = RowsOf(t)[Len(t)]
        /\ \A n \in 1 .. Len(t) : RowsOf(t)[n] = RowsOf(t)[n - 1] \o Rows(t[n])
    BY <1>2, RowsLoop
  <2> QED BY <1>2, <2>1
<1>5. <<>> \in RowSeq
  BY DEF RowSeq
<1>6. IsLoop(f, <<>>, G, RowSeq, N)
  <2>1. ASSUME NEW n \in 1 .. N PROVE f[n] = G[<<f[n - 1], n>>]
    <3>1. n - 1 \in 0 .. N /\ f[n - 1] \in RowSeq
      BY <1>2, <1>3
    <3> QED BY <1>3, <3>1
  <2> QED BY <1>3, <2>1 DEF IsLoop
<1>7. ASSUME NEW n \in 1 .. N, g[n - 1] \in RowSeq PROVE g[n] = G[<<g[n - 1], n>>]
  <2>1. n \in 1 .. N + 1 /\ t[n] = lines[n]
    BY <1>2
  <2> QED BY <1>4, <1>7, <2>1
<1>8. \A n \in 0 .. N : g[n] = f[n]
  <2> HIDE DEF G, N
  <2>1. N \in Nat /\ g[0] = <<>> /\ \A n \in 1 .. N : g[n - 1] \in RowSeq => g[n] = G[<<g[n - 1], n>>]
    BY <1>2, <1>4, <1>7
  <2> QED BY <1>5, <1>6, <2>1, LoopsAgree
<1>9. g[N + 1] = g[N] \o Rows(l) /\ g[N] = f[N] /\ f[N] \in RowSeq
  <2>1. N + 1 \in 1 .. N + 1 /\ (N + 1) - 1 = N /\ N \in 0 .. N
    BY <1>2
  <2> QED BY <1>2, <1>3, <1>4, <1>8, <2>1
<1>10. Rows(l) \in RowSeq
  BY RowsCounted
<1>11. Len(f[N] \o Rows(l)) = Len(f[N]) + Len(Rows(l))
  BY <1>9, <1>10, ConcatProperties DEF RowSeq
<1> QED BY <1>1, <1>3, <1>4, <1>9, <1>11

(* What the loop that counts the rows holds at each turn, and one line more. *)
LEMMA CountsLoop ==
  ASSUME NEW lines \in Seq(Line)
  PROVE  /\ CountsOf(lines) \in [0 .. Len(lines) -> Nat] /\ CountsOf(lines)[0] = 0 /\ Counted(lines) = CountsOf(lines)[Len(lines)]
         /\ \A n \in 1 .. Len(lines) : CountsOf(lines)[n] = CountsOf(lines)[n - 1] + Counts(lines[n])
<1> DEFINE N == Len(lines)
           G == [q \in Nat \X (1 .. N) |-> q[1] + Counts(lines[q[2]])]
           f == CountsOf(lines)
<1>1. N \in Nat /\ \A n \in 1 .. N : Counts(lines[n]) \in Nat
  BY RowsCounted
<1>4. IsStep(G, Nat, N)
  <2>1. ASSUME NEW q \in Nat \X (1 .. N) PROVE q[1] + Counts(lines[q[2]]) \in Nat
    BY <1>1
  <2> QED BY <2>1 DEF IsStep
<1>5. PICK g : IsLoop(g, 0, G, Nat, N)
  <2> HIDE DEF G, N
  <2> QED BY <1>1, <1>4, LoopDefined
<1>6. g \in [0 .. N -> Nat] /\ g[0] = 0 /\ \A n \in 1 .. N : g[n] = g[n - 1] + Counts(lines[n])
  <2>1. g \in [0 .. N -> Nat] /\ g[0] = 0 /\ \A n \in 1 .. N : g[n] = G[<<g[n - 1], n>>]
    BY <1>5 DEF IsLoop
  <2>2. ASSUME NEW n \in 1 .. N PROVE g[n] = g[n - 1] + Counts(lines[n])
    <3>1. n - 1 \in 0 .. N /\ g[n - 1] \in Nat
      BY <1>1, <2>1
    <3> QED BY <2>1, <3>1
  <2> QED BY <2>1, <2>2
<1>7. g = [n \in 0 .. N |-> IF n = 0 THEN 0 ELSE g[n - 1] + Counts(lines[n])]
  <2>1. ASSUME NEW n \in 0 .. N PROVE g[n] = IF n = 0 THEN 0 ELSE g[n - 1] + Counts(lines[n])
    <3>1. n # 0 => n \in 1 .. N
      BY <1>1
    <3> QED BY <1>6, <3>1
  <2> QED BY <1>6, <2>1
<1>8. f = [n \in 0 .. N |-> IF n = 0 THEN 0 ELSE f[n - 1] + Counts(lines[n])]
  BY <1>7 DEF CountsOf
<1>9. Counted(lines) = f[N]
  BY DEF Counted, CountsOf
<1> HIDE DEF f
<1>10. f[0] = 0 /\ \A n \in 1 .. N : f[n] = f[n - 1] + Counts(lines[n])
  <2>1. 0 \in 0 .. N /\ \A n \in 1 .. N : n \in 0 .. N /\ n # 0
    BY <1>1
  <2> HIDE DEF N
  <2> QED BY <1>8, <2>1
<1>11. \A n \in 0 .. N : f[n] = g[n]
  <2>1. ASSUME NEW n \in 1 .. N, f[n - 1] \in Nat PROVE f[n] = G[<<f[n - 1], n>>]
    BY <1>10, <2>1
  <2> HIDE DEF G, N
  <2>0. PICK X : X = Nat
    OBVIOUS
  <2>2. N \in Nat /\ f[0] = 0 /\ \A n \in 1 .. N : f[n - 1] \in X => f[n] = G[<<f[n - 1], n>>]
    BY <1>1, <1>10, <2>0, <2>1
  <2>3. 0 \in X /\ IsLoop(g, 0, G, X, N)
    BY <1>5, <2>0
  <2> QED BY <2>2, <2>3, LoopsAgree
<1>12. f \in [0 .. N -> Nat]
  <2>1. f = g
    <3>1. DOMAIN f = 0 .. N /\ f = [n \in 0 .. N |-> f[n]]
      BY <1>8
    <3>2. g = [n \in 0 .. N |-> g[n]]
      BY <1>6
    <3> HIDE DEF N
    <3> QED BY <1>11, <3>1, <3>2
  <2> QED BY <1>6, <2>1
<1> QED BY <1>9, <1>10, <1>12 DEF f

(* A line more is counted with its rows. *)
LEMMA CountsGrow ==
  ASSUME NEW lines \in Seq(Line), NEW l \in Line
  PROVE  Counted(lines) \in Nat /\ Counted(Append(lines, l)) = Counted(lines) + Counts(l)
<1> DEFINE N == Len(lines)
           G == [q \in Nat \X (1 .. N) |-> q[1] + Counts(lines[q[2]])]
<1>1. PICK t : t = Append(lines, l)
  OBVIOUS
<1>2. t \in Seq(Line) /\ Len(t) = N + 1 /\ N \in Nat /\ t[N + 1] = l /\ \A n \in 1 .. N : t[n] = lines[n]
  BY <1>1, AppendProperties
<1>3. PICK f : /\ f \in [0 .. N -> Nat] /\ f[0] = 0 /\ Counted(lines) = f[N]
               /\ \A n \in 1 .. N : f[n] = f[n - 1] + Counts(lines[n])
  BY CountsLoop
<1>4. PICK g : /\ g[0] = 0 /\ Counted(t) = g[N + 1]
               /\ \A n \in 1 .. N + 1 : g[n] = g[n - 1] + Counts(t[n])
  <2>1. /\ CountsOf(t)[0] = 0 /\ Counted(t) = CountsOf(t)[Len(t)]
        /\ \A n \in 1 .. Len(t) : CountsOf(t)[n] = CountsOf(t)[n - 1] + Counts(t[n])
    BY <1>2, CountsLoop
  <2> QED BY <1>2, <2>1
<1>6. IsLoop(f, 0, G, Nat, N)
  <2>1. ASSUME NEW n \in 1 .. N PROVE f[n] = G[<<f[n - 1], n>>]
    <3>1. n - 1 \in 0 .. N /\ f[n - 1] \in Nat
      BY <1>2, <1>3
    <3> QED BY <1>3, <3>1
  <2> QED BY <1>3, <2>1 DEF IsLoop
<1>7. ASSUME NEW n \in 1 .. N, g[n - 1] \in Nat PROVE g[n] = G[<<g[n - 1], n>>]
  <2>1. n \in 1 .. N + 1 /\ t[n] = lines[n]
    BY <1>2
  <2> QED BY <1>4, <1>7, <2>1
<1>8. \A n \in 0 .. N : g[n] = f[n]
  <2> HIDE DEF G, N
  <2>0. PICK X : X = Nat
    OBVIOUS
  <2>1. N \in Nat /\ g[0] = 0 /\ \A n \in 1 .. N : g[n - 1] \in X => g[n] = G[<<g[n - 1], n>>]
    BY <1>2, <1>4, <1>7, <2>0
  <2>2. 0 \in X /\ IsLoop(f, 0, G, X, N)
    BY <1>6, <2>0
  <2> QED BY <2>1, <2>2, LoopsAgree
<1>9. g[N + 1] = g[N] + Counts(l) /\ g[N] = f[N] /\ f[N] \in Nat
  <2>1. N + 1 \in 1 .. N + 1 /\ (N + 1) - 1 = N /\ N \in 0 .. N
    BY <1>2
  <2> QED BY <1>2, <1>3, <1>4, <1>8, <2>1
<1> QED BY <1>1, <1>3, <1>4, <1>9

(* No lines make no rows, and none are counted. *)
LEMMA NoRows ==
  AllRows(<<>>) = <<>> /\ Counted(<<>>) = 0
<1>1. <<>> \in Seq(Line) /\ Len(<<>>) = 0
  OBVIOUS
<1>2. AllRows(<<>>) = RowsOf(<<>>)[Len(<<>>)] /\ RowsOf(<<>>)[0] = <<>>
  BY <1>1, RowsLoop
<1>3. Counted(<<>>) = CountsOf(<<>>)[Len(<<>>)] /\ CountsOf(<<>>)[0] = 0
  BY <1>1, CountsLoop
<1> QED BY <1>1, <1>2, <1>3

(* Rows printed from below the prompt are all that is below it, if they are not fewer than before. *)
LEMMA PrintedOver ==
  ASSUME NEW a \in RowSeq, NEW b \in RowSeq, Len(a) <= Len(b)
  PROVE  /\ Printed(Prompt \o a, 1, b) = Prompt \o b /\ Prompt \o b \in RowSeq
         /\ Len(Prompt) = 1
<1>1. Prompt \in RowSeq /\ Len(Prompt) = 1
  BY DEF Prompt, RowSeq
<1>2. PICK R : R = Nat \X Nat
  OBVIOUS
<1>3. PICK p : p = Prompt
  OBVIOUS
<1>4. p \in Seq(R) /\ a \in Seq(R) /\ b \in Seq(R) /\ Len(p) = 1
  BY <1>1, <1>2, <1>3 DEF RowSeq
<1>5. p \o a \in Seq(R) /\ Len(p \o a) = 1 + Len(a) /\ \A i \in 1 .. Len(p) + Len(a) : (p \o a)[i] = IF i <= Len(p) THEN p[i] ELSE a[i - Len(p)]
  BY <1>4, ConcatProperties
<1>6. p \o b \in Seq(R) /\ Len(p \o b) = 1 + Len(b) /\ \A i \in 1 .. Len(p) + Len(b) : (p \o b)[i] = IF i <= Len(p) THEN p[i] ELSE b[i - Len(p)]
  BY <1>4, ConcatProperties
<1>7. Len(a) \in Nat /\ Len(b) \in Nat /\ Len(a) <= Len(b)
  BY <1>4
<1>8. PICK ra : ra = p \o a
  OBVIOUS
<1>9. PICK rb : rb = p \o b
  OBVIOUS
<1>10. rb = [i \in 1 .. 1 + Len(b) |-> rb[i]]
  <2>1. rb \in Seq(R) /\ Len(rb) = 1 + Len(b)
    BY <1>6, <1>9
  <2> QED BY <2>1
<1>11. ASSUME NEW i \in 1 .. 1 + Len(b) PROVE rb[i] = IF i > 1 /\ i <= 1 + Len(b) THEN b[i - 1] ELSE ra[i]
  <2>1. CASE i > 1
    BY <1>4, <1>6, <1>7, <1>9, <2>1
  <2>2. CASE i = 1
    <3>1. ra[1] = p[1] /\ rb[1] = p[1]
      BY <1>4, <1>5, <1>6, <1>7, <1>8, <1>9
    <3> QED BY <2>2, <3>1
  <2> QED BY <1>7, <2>1, <2>2
<1>12. Printed(ra, 1, b) = [i \in 1 .. 1 + Len(b) |-> IF i > 1 /\ i <= 1 + Len(b) THEN b[i - 1] ELSE ra[i]]
  <2>1. Len(ra) = 1 + Len(a)
    BY <1>5, <1>8
  <2>2. (IF 1 + Len(b) > Len(ra) THEN 1 + Len(b) ELSE Len(ra)) = 1 + Len(b)
    BY <1>7, <2>1
  <2> QED BY <2>2 DEF Printed
<1>13. Printed(ra, 1, b) = rb
  <2> DEFINE F(i) == IF i > 1 /\ i <= 1 + Len(b) THEN b[i - 1] ELSE ra[i]
  <2>1. \A i \in 1 .. 1 + Len(b) : rb[i] = F(i)
    BY <1>11
  <2>2. Printed(ra, 1, b) = [i \in 1 .. 1 + Len(b) |-> F(i)]
    BY <1>12
  <2> HIDE DEF F
  <2> QED BY <1>10, <2>1, <2>2
<1> QED BY <1>1, <1>2, <1>3, <1>6, <1>8, <1>9, <1>13 DEF RowSeq

(***************************************************************************)
(* What is known of the lines of a log: the rows they take, what the code  *)
(* counts for them, and whether one of them wraps.                         *)
(***************************************************************************)
Sized(lines) ==
    /\ lines \in Seq(Line) /\ AllRows(lines) \in RowSeq /\ Len(AllRows(lines)) \in Nat /\ Counted(lines) \in Nat
    /\ ~FillsRows(lines) => Counted(lines) = Len(AllRows(lines))
    /\ FillsRows(lines) => Counted(lines) > Len(AllRows(lines))
    /\ ~Wraps(lines) => Len(AllRows(lines)) = Len(lines)
Widens(old, new) == (FillsRows(old) => FillsRows(new)) /\ (Wraps(old) => Wraps(new))

(* An empty log. *)
LEMMA SizedEmpty == Sized(<<>>)
<1>1. <<>> \in Seq(Line) /\ Len(<<>>) = 0 /\ <<>> \in RowSeq
  BY DEF RowSeq
<1>2. AllRows(<<>>) = <<>> /\ Counted(<<>>) = 0
  BY NoRows
<1>3. ~FillsRows(<<>>) /\ ~Wraps(<<>>)
  BY DEF FillsRows, Wraps
<1> QED BY <1>1, <1>2, <1>3 DEF Sized

(* A line more. *)
LEMMA SizedGrow ==
  ASSUME NEW lines, Sized(lines), NEW e \in Line
  PROVE  /\ Sized(Append(lines, e)) /\ Widens(lines, Append(lines, e))
         /\ Len(AllRows(lines)) <= Len(AllRows(Append(lines, e)))
<1>0. lines \in Seq(Line)
  BY DEF Sized
<1>1. PICK m \in Nat : m = Len(lines) /\ DOMAIN lines = 1 .. m
  BY <1>0
<1>2. PICK t : t = Append(lines, e)
  OBVIOUS
<1>3. t \in Seq(Line) /\ Len(t) = m + 1 /\ t[m + 1] = e /\ DOMAIN t = 1 .. (m + 1) /\ \A n \in 1 .. m : t[n] = lines[n]
  BY <1>0, <1>1, <1>2, AppendProperties
<1>4. FillsRows(t) <=> FillsRows(lines) \/ Fills(e)
  <2>1. FillsRows(t) <=> \E n \in 1 .. (m + 1) : Fills(t[n])
    BY <1>3 DEF FillsRows, Fills
  <2>2. FillsRows(lines) <=> \E n \in 1 .. m : Fills(lines[n])
    BY <1>1 DEF FillsRows, Fills
  <2>3. \A n \in 1 .. (m + 1) : n \in 1 .. m \/ n = m + 1
    OBVIOUS
  <2>4. m + 1 \in 1 .. (m + 1) /\ \A n \in 1 .. m : n \in 1 .. (m + 1)
    OBVIOUS
  <2> QED BY <1>3, <2>1, <2>2, <2>3, <2>4
<1>5. Wraps(t) <=> Wraps(lines) \/ e.length > Width
  <2>1. Wraps(t) <=> \E n \in 1 .. (m + 1) : t[n].length > Width
    BY <1>3 DEF Wraps
  <2>2. Wraps(lines) <=> \E n \in 1 .. m : lines[n].length > Width
    BY <1>1 DEF Wraps
  <2>3. \A n \in 1 .. (m + 1) : n \in 1 .. m \/ n = m + 1
    OBVIOUS
  <2>4. m + 1 \in 1 .. (m + 1) /\ \A n \in 1 .. m : n \in 1 .. (m + 1)
    OBVIOUS
  <2> QED BY <1>3, <2>1, <2>2, <2>3, <2>4
<1>6. PICK r \in Nat, k \in Nat, b \in Nat : r = Len(AllRows(lines)) /\ k = Counted(lines) /\ b = Len(Rows(e))
  BY RowsCounted DEF Sized
<1>7. AllRows(t) = AllRows(lines) \o Rows(e) /\ Len(AllRows(t)) = r + b /\ Counted(t) = k + Counts(e)
  BY <1>0, <1>2, <1>6, RowsGrow, CountsGrow
<1>8. AllRows(t) \in RowSeq
  <2>1. AllRows(lines) \in RowSeq /\ Rows(e) \in RowSeq
    BY RowsCounted DEF Sized
  <2> QED BY <1>7, <2>1, ConcatProperties DEF RowSeq
<1>9. Counts(e) = b + (IF Fills(e) THEN 1 ELSE 0) /\ (~(e.length > Width) => b = 1)
  BY <1>6, RowsCounted
<1>10. (~FillsRows(lines) => k = r) /\ (FillsRows(lines) => k > r) /\ (~Wraps(lines) => r = m)
  BY <1>1, <1>6 DEF Sized
<1>11. Sized(t)
  <2>1. PICK q \in Nat, z \in Nat : q = Counted(t) /\ z = Len(AllRows(t))
    BY <1>6, <1>7, <1>9
  <2>2. q = k + Counts(e) /\ z = r + b
    BY <1>7, <2>1
  <2>3. (~FillsRows(t) => q = z) /\ (FillsRows(t) => q > z)
    BY <1>4, <1>9, <1>10, <2>2
  <2>4. ~Wraps(t) => z = m + 1
    BY <1>5, <1>9, <1>10, <2>2
  <2> QED BY <1>3, <1>8, <2>1, <2>3, <2>4 DEF Sized
<1>12. Widens(lines, t) /\ r <= r + b
  BY <1>4, <1>5 DEF Widens
<1> QED BY <1>2, <1>6, <1>7, <1>11, <1>12

(* What is printed stands where it was printed, and all the terminal has is what it had or what was printed. *)
LEMMA PrintedStands ==
  ASSUME NEW rows \in RowSeq, NEW top \in Nat, NEW text \in RowSeq, top <= Len(rows)
  PROVE  /\ Printed(rows, top, text) \in RowSeq
         /\ Len(Printed(rows, top, text)) = IF top + Len(text) > Len(rows) THEN top + Len(text) ELSE Len(rows)
         /\ \A i \in 1 .. Len(text) : Printed(rows, top, text)[top + i] = text[i]
<1>1. PICK m \in Nat, k \in Nat : m = Len(rows) /\ k = Len(text)
  BY DEF RowSeq
<1>2. PICK R : R = Nat \X Nat
  OBVIOUS
<1>3. rows \in Seq(R) /\ text \in Seq(R)
  BY <1>2 DEF RowSeq
<1>4. (\A i \in 1 .. m : rows[i] \in R) /\ (\A i \in 1 .. k : text[i] \in R)
  BY <1>1, <1>3
<1>5. PICK w \in Nat : w = IF top + k > m THEN top + k ELSE m
  OBVIOUS
<1> DEFINE At0(i) == IF i > top /\ i <= top + k THEN text[i - top] ELSE rows[i]
           new == [i \in 1 .. w |-> At0(i)]
<1>6. Printed(rows, top, text) = new
  BY <1>1, <1>5 DEF Printed
<1>7. ASSUME NEW i \in 1 .. w PROVE At0(i) \in R
  <2>1. CASE i > top /\ i <= top + k
    <3>1. i - top \in 1 .. k
      BY <2>1
    <3> QED BY <1>4, <2>1, <3>1
  <2>2. CASE ~(i > top /\ i <= top + k)
    <3>1. i \in 1 .. m
      BY <1>1, <1>5, <2>2
    <3> QED BY <1>4, <2>2, <3>1
  <2> QED BY <2>1, <2>2
<1>8. ASSUME NEW i \in 1 .. k PROVE new[top + i] = text[i]
  <2>1. top + i \in 1 .. w /\ top + i > top /\ top + i <= top + k /\ (top + i) - top = i
    BY <1>5
  <2> QED BY <2>1
<1> HIDE DEF At0
<1>9. new \in Seq(R) /\ Len(new) = w
  BY <1>7
<1> HIDE DEF new
<1> QED BY <1>1, <1>2, <1>5, <1>6, <1>8, <1>9 DEF RowSeq

Places == {"logs", "exec", "fetch", "check", "sleep", "done", "failed", "cancelled"}
Points == {"start", "select", "refused", "failed", "ok", "error"}
Turns == {"none", "reading", "ended"}
Endings == {"nil", "error"}
Asked == {r[2] : r \in Requests}
FollowType == [pc : Places, request : Asked, first : BOOLEAN, previous : Seq(Line), fetched : Seq(Line), back : Nat, cancelled : BOOLEAN]
BoxType == [log : Seq(Line), running : BOOLEAN, gone : BOOLEAN]
ScreenType == [rows : RowSeq, cursor : Nat]
SessionType == [pc : Points, down : Turns, up : Turns, downCh : Seq(Endings), upCh : Seq(Endings), sent : Nat, shown : Nat, typed : Nat,
                closed : BOOLEAN, broken : BOOLEAN, by : {"none", "down", "up"}]

(***************************************************************************)
(* After a turn the text stands above the cursor. It stands right under    *)
(* the prompt, or over it with at most one row left below, where the lines *)
(* are counted as they are or one too many: the next turn goes back to the *)
(* first row at most, whatever was counted.                                *)
(***************************************************************************)
Stands(s, text) ==
    /\ s \in ScreenType /\ Len(text) <= s.cursor /\ s.cursor <= Len(s.rows)
    /\ \A i \in 1 .. Len(text) : s.rows[(s.cursor - Len(text)) + i] = text[i]
Clean(s, text) == s.rows = Prompt \o text /\ s.cursor = 1 + Len(text)
Over(s, text) == s.cursor = Len(text) /\ Len(s.rows) <= Len(text) + 1

Turned(f, s) ==
    /\ f.back = getBacktrackLines(f.fetched, f.request.width)
    /\ Stands(s, AllRows(f.fetched))
    /\ (f.request.width # 0 \/ ~Wraps(f.fetched)) => Clean(s, AllRows(f.fetched)) \/ Over(s, AllRows(f.fetched))
    /\ (f.request.width # 0 /\ ~FillsRows(f.fetched)) => Clean(s, AllRows(f.fetched))
MissedBy(f) == ~f.first /\ (f.request.width = 0 \/ FillsRows(f.previous))
Compared(f, s) ==
    /\ ~MissedBy(f) => Clean(s, AllRows(f.fetched))
    /\ (MissedBy(f) /\ (f.request.width # 0 \/ ~Wraps(f.previous))) => Over(s, AllRows(f.fetched))

(* Before the first turn, after one, and when the container is looked at. *)
Following(f, s) ==
    /\ (f.pc = "logs" \/ (f.pc = "fetch" /\ f.first)) => f.first /\ f.fetched = <<>> /\ f.back = 0 /\ s.rows = Prompt /\ s.cursor = 1
    /\ f.pc = "sleep" => ~f.first
    /\ (f.pc \in {"check", "sleep", "done"} \/ (f.pc = "fetch" /\ ~f.first)) => Turned(f, s)
    /\ (f.pc \in {"fetch", "sleep"} /\ ~f.first) => f.previous = f.fetched
    /\ f.pc \in {"check", "done"} => Compared(f, s)
FollowInv ==
    /\ follow \in FollowType /\ container \in BoxType
    /\ Sized(container.log) /\ Sized(follow.fetched)
    /\ Widens(follow.previous, follow.fetched) /\ Widens(follow.fetched, container.log)
    /\ Len(AllRows(follow.fetched)) <= Len(AllRows(container.log))
    /\ follow.request.follow => Following(follow, screen)

(* The goroutine that reads ends when all was shown of a command that has ended; the other one is there for an input. *)
ReadToTheEnd(s, interactive) ==
    /\ s \in SessionType
    /\ s.pc = "start" => s.down = "none" /\ s.up = "none" /\ s.downCh = <<>> /\ s.upCh = <<>>
    /\ s.up # "none" => interactive
    /\ s.upCh # <<>> => s.up = "ended"
    /\ s.downCh # <<>> => s.down = "ended"
    /\ s.down = "ended" => s.closed /\ s.shown = s.sent /\ Head(s.downCh) = IF s.broken THEN "error" ELSE "nil"
    /\ s.pc = "ok" => (s.closed /\ s.shown = s.sent /\ ~s.broken) \/ s.up = "ended"
    /\ s.pc = "error" => (s.closed /\ s.broken) \/ s.up = "ended"
LogsInv == FollowInv /\ ReadToTheEnd(session, follow.request.interactive)

(* Nothing is fetched at first, and nothing is in flight. *)
LEMMA LogsInvInit ==
  ASSUME LogsInit
  PROVE  LogsInv
<1>1. PICK r \in Requests : follow = Follow(r[1], r[2])
  BY DEF LogsInit
<1>2. r[2] \in Asked /\ r[1] \in {"logs", "exec"}
  BY LogsAssumption DEF Asked
<1>3. follow \in FollowType /\ follow.fetched = <<>> /\ follow.previous = <<>> /\ follow.back = 0 /\ follow.first /\ follow.pc \in {"logs", "exec"}
  BY <1>1, <1>2 DEF FollowType, Follow, Places
<1>4. container \in BoxType /\ container.log = <<>>
  BY DEF LogsInit, BoxType
<1>5. screen.rows = Prompt /\ screen.cursor = 1
  BY DEF LogsInit, LogsShared, Prompt
<1>7. FollowInv
  <2>1. Sized(<<>>) /\ Widens(<<>>, <<>>)
    BY SizedEmpty DEF Widens
  <2>2. Len(AllRows(<<>>)) <= Len(AllRows(<<>>))
    BY <2>1 DEF Sized
  <2>3. Following(follow, screen)
    BY <1>3, <1>5 DEF Following
  <2> QED BY <1>3, <1>4, <2>1, <2>2, <2>3 DEF FollowInv
<1>8. ReadToTheEnd(session, follow.request.interactive)
  <2>1. <<>> \in Seq(Endings)
    OBVIOUS
  <2>2. PICK Ch : Ch = Seq(Endings) /\ <<>> \in Ch
    BY <2>1
  <2>3. PICK s : s = session
    OBVIOUS
  <2>4. s = [pc |-> "start", down |-> "none", up |-> "none", downCh |-> <<>>, upCh |-> <<>>, sent |-> 0, shown |-> 0, typed |-> 0,
             closed |-> FALSE, broken |-> FALSE, by |-> "none"]
    BY <2>3 DEF LogsInit, Session
  <2>5. s \in [pc : Points, down : Turns, up : Turns, downCh : Ch, upCh : Ch, sent : Nat, shown : Nat, typed : Nat,
               closed : BOOLEAN, broken : BOOLEAN, by : {"none", "down", "up"}]
    BY <2>2, <2>4 DEF Points, Turns
  <2>6. s \in SessionType
    BY <2>2, <2>5 DEF SessionType
  <2>7. s.pc = "start" /\ s.down = "none" /\ s.up = "none" /\ s.downCh = <<>> /\ s.upCh = <<>>
    BY <2>4
  <2> QED BY <2>3, <2>6, <2>7 DEF ReadToTheEnd
<1> QED BY <1>7, <1>8 DEF LogsInv

(* The steps of an exec: nothing is written after the end, so that what was shown then is all. *)
LEMMA SessionKept ==
  ASSUME ReadToTheEnd(session, follow.request.interactive), Exec \/ ReadServerData \/ Select \/ ReadStdin \/ CommandWrites \/ CommandEnds
  PROVE  ReadToTheEnd(session', follow.request.interactive) /\ UNCHANGED <<follow, container, screen>>
<1>1. PICK Ch : Ch = Seq(Endings)
  OBVIOUS
<1>2. \A w \in Ch, x \in Endings : Append(w, x) \in Ch /\ Append(w, x) # <<>> /\ (w = <<>> => Head(Append(w, x)) = x)
  BY <1>1, AppendProperties
<1>v. PICK v : v = follow.request.interactive
  OBVIOUS
<1> DEFINE Ses == [pc : Points, down : Turns, up : Turns, downCh : Ch, upCh : Ch, sent : Nat, shown : Nat, typed : Nat,
                   closed : BOOLEAN, broken : BOOLEAN, by : {"none", "down", "up"}]
           Right(s) ==
              /\ s \in Ses
              /\ s.pc = "start" => s.down = "none" /\ s.up = "none" /\ s.downCh = <<>> /\ s.upCh = <<>>
              /\ s.up # "none" => v
              /\ s.upCh # <<>> => s.up = "ended"
              /\ s.downCh # <<>> => s.down = "ended"
              /\ s.down = "ended" => s.closed /\ s.shown = s.sent /\ Head(s.downCh) = IF s.broken THEN "error" ELSE "nil"
              /\ s.pc = "ok" => (s.closed /\ s.shown = s.sent /\ ~s.broken) \/ s.up = "ended"
              /\ s.pc = "error" => (s.closed /\ s.broken) \/ s.up = "ended"
<1>3. PICK s : s = session
  OBVIOUS
<1>4. PICK n : n = session'
  OBVIOUS
<1>5. Right(s)
  BY <1>1, <1>3, <1>v DEF ReadToTheEnd, SessionType
<1>6. SUFFICES Right(n)
  BY <1>1, <1>4, <1>v DEF ReadToTheEnd, SessionType, Exec, ReadServerData, Select, ReadStdin, CommandWrites, CommandEnds
<1>7. CASE Exec
  <2>1. CASE \E p \in {"refused", "failed"} : n = [s EXCEPT !.pc = p]
    BY <1>5, <2>1 DEF Points, Turns
  <2>2. CASE \E u \in {"reading", "none"} : n = [s EXCEPT !.pc = "select", !.down = "reading", !.up = u] /\ (u = "reading" => v)
    <3>1. s.pc = "start"
      BY <1>3, <1>7 DEF Exec
    <3> QED BY <1>5, <2>2, <3>1 DEF Points, Turns
  <2> QED BY <1>3, <1>4, <1>7, <1>v, <2>1, <2>2 DEF Exec, Turns
<1>8. CASE ReadServerData
  <2>0. s.down = "reading" /\ s.downCh \in Ch /\ s.downCh = <<>>
    BY <1>3, <1>5, <1>8 DEF ReadServerData
  <2>1. CASE s.shown < s.sent /\ n = [s EXCEPT !.shown = s.shown + 1]
    BY <1>5, <2>0, <2>1 DEF Points, Turns
  <2>2. CASE \E d \in Ch : s.shown = s.sent /\ s.closed /\ n = [s EXCEPT !.down = "ended", !.downCh = d] /\ Head(d) = IF s.broken THEN "error" ELSE "nil"
    BY <1>5, <2>0, <2>2 DEF Points, Turns
  <2>3. PICK x \in Endings : x = IF s.broken THEN "error" ELSE "nil"
    BY DEF Endings
  <2>4. PICK d \in Ch : d = Append(s.downCh, x) /\ Head(d) = x
    BY <1>2, <2>0
  <2>5. \/ s.shown < s.sent /\ n = [s EXCEPT !.shown = s.shown + 1]
        \/ s.shown = s.sent /\ s.closed /\ n = [s EXCEPT !.down = "ended", !.downCh = d]
    <3>1. \/ session.shown < session.sent /\ session' = [session EXCEPT !.shown = @ + 1]
          \/ session.shown = session.sent /\ session.closed
             /\ session' = [session EXCEPT !.down = "ended", !.downCh = Append(session.downCh, IF session.broken THEN "error" ELSE "nil")]
      BY <1>8 DEF ReadServerData
    <3>2. d = Append(session.downCh, IF session.broken THEN "error" ELSE "nil")
      BY <1>3, <2>3, <2>4
    <3>3. CASE session.shown < session.sent /\ session' = [session EXCEPT !.shown = @ + 1]
      <4>1. s.shown < s.sent
        BY <1>3, <3>3
      <4>2. n = [s EXCEPT !.shown = s.shown + 1]
        BY <1>3, <1>4, <3>3
      <4> QED BY <4>1, <4>2
    <3>4. CASE session.shown = session.sent /\ session.closed /\ session' = [session EXCEPT !.down = "ended", !.downCh = d]
      BY <1>3, <1>4, <3>4
    <3> QED BY <3>1, <3>2, <3>3, <3>4
  <2> QED BY <2>1, <2>2, <2>3, <2>4, <2>5
<1>9. CASE Select
  <2>0. s.pc = "select"
    BY <1>3, <1>9 DEF Select
  <2>1. CASE s.downCh # <<>> /\ n = [s EXCEPT !.pc = IF Head(s.downCh) = "nil" THEN "ok" ELSE "error", !.by = "down"]
    BY <1>5, <2>0, <2>1 DEF Points, Turns
  <2>2. CASE s.upCh # <<>> /\ \E p \in {"ok", "error"} : n = [s EXCEPT !.pc = p, !.by = "up"]
    BY <1>5, <2>0, <2>2 DEF Points, Turns
  <2> QED BY <1>3, <1>4, <1>9, <2>1, <2>2 DEF Select
<1>10. CASE ReadStdin
  <2>0. s.up = "reading"
    BY <1>3, <1>10 DEF ReadStdin
  <2>1. CASE n = [s EXCEPT !.typed = @ + 1]
    BY <1>5, <2>1 DEF Points, Turns
  <2>2. CASE \E c \in Ch : n = [s EXCEPT !.up = "ended", !.upCh = c]
    BY <1>5, <2>0, <2>2 DEF Points, Turns
  <2>3. Append(s.upCh, "error") \in Ch /\ Append(s.upCh, "nil") \in Ch
    BY <1>2, <1>5 DEF Endings
  <2> QED BY <1>3, <1>4, <1>10, <2>1, <2>2, <2>3 DEF ReadStdin
<1>11. CASE CommandWrites
  <2>1. ~s.closed /\ s.down # "none" /\ n = [s EXCEPT !.sent = @ + 1]
    BY <1>3, <1>4, <1>11 DEF CommandWrites
  <2> QED BY <1>5, <2>1 DEF Points, Turns
<1>12. CASE CommandEnds
  <2>1. PICK b \in BOOLEAN : ~s.closed /\ s.down # "none" /\ n = [s EXCEPT !.closed = TRUE, !.broken = b]
    BY <1>3, <1>4, <1>12 DEF CommandEnds
  <2> QED BY <1>5, <2>1 DEF Points, Turns
<1> QED BY <1>7, <1>8, <1>9, <1>10, <1>11, <1>12

(* What is printed from the first row, or from under the prompt. *)
LEMMA TurnPrints ==
  ASSUME NEW s \in ScreenType, NEW top \in Nat, NEW text \in RowSeq, top <= Len(s.rows), NEW n,
         n = [rows |-> Printed(s.rows, top, text), cursor |-> top + Len(text)]
  PROVE  /\ Stands(n, text) /\ (top = 0 => n.cursor = Len(text))
         /\ Len(n.rows) = IF top + Len(text) > Len(s.rows) THEN top + Len(text) ELSE Len(s.rows)
<1>1. PICK rows \in RowSeq : rows = s.rows
  BY DEF ScreenType
<1>2. PICK new : new = Printed(rows, top, text)
  OBVIOUS
<1>3. /\ new \in RowSeq /\ Len(new) = IF top + Len(text) > Len(rows) THEN top + Len(text) ELSE Len(rows)
      /\ \A i \in 1 .. Len(text) : new[top + i] = text[i]
  BY <1>1, <1>2, PrintedStands
<1>4. PICK m \in Nat, k \in Nat : m = Len(rows) /\ k = Len(text)
  BY DEF RowSeq
<1>5. n = [rows |-> new, cursor |-> top + k]
  BY <1>1, <1>2, <1>4
<1>6. n \in ScreenType /\ n.rows = new /\ n.cursor = top + k
  BY <1>3, <1>5 DEF ScreenType
<1>7. k <= n.cursor /\ n.cursor <= Len(new) /\ n.cursor - k = top /\ (top = 0 => n.cursor = k)
  BY <1>3, <1>4, <1>6
<1>8. Stands(n, text)
  BY <1>3, <1>4, <1>6, <1>7 DEF Stands
<1> QED BY <1>1, <1>3, <1>4, <1>6, <1>7, <1>8

(***************************************************************************)
(* A turn of streamLogs. It goes back to the prompt exactly where all rows *)
(* were counted as they are, and to the first row of the terminal where    *)
(* one too many was; it prints no fewer rows than there were.              *)
(***************************************************************************)
LEMMA FetchKept ==
  ASSUME FollowInv, streamLogs
  PROVE  FollowInv' /\ UNCHANGED session /\ follow'.request = follow.request
<1>1. follow \in FollowType /\ container \in BoxType /\ UNCHANGED <<container, session>> /\ follow.pc = "fetch"
  BY DEF FollowInv, streamLogs
<1>2. CASE \E pc \in {"cancelled", "failed"} : Go(pc) /\ UNCHANGED screen
  <2>1. PICK pc \in {"cancelled", "failed"} : follow' = [follow EXCEPT !.pc = pc] /\ UNCHANGED screen
    BY <1>2 DEF Go
  <2>2. /\ follow' \in FollowType /\ follow'.request = follow.request /\ follow'.fetched = follow.fetched
        /\ follow'.previous = follow.previous /\ follow'.pc = pc
    BY <1>1, <2>1 DEF FollowType, Places
  <2>3. Following(follow', screen')
    BY <2>2 DEF Following
  <2> QED BY <1>1, <2>1, <2>2, <2>3 DEF FollowInv
<1>3. ASSUME NEW back, NEW top, NEW text,
             back = IF follow.back > screen.cursor THEN screen.cursor ELSE follow.back,
             top = screen.cursor - back, text = AllRows(container.log),
             screen' = [rows |-> Printed(screen.rows, top, text), cursor |-> top + Len(text)],
             follow' = [follow EXCEPT !.back = getBacktrackLines(container.log, follow.request.width), !.fetched = container.log, !.pc = "check"]
      PROVE  FollowInv' /\ follow'.request = follow.request
  <2>1. PICK log \in Seq(Line) : log = container.log /\ Sized(log)
    BY <1>1 DEF BoxType, FollowInv
  <2>2. PICK old \in Seq(Line) : old = follow.fetched /\ Sized(old)
    BY <1>1 DEF FollowType, FollowInv
  <2>3. PICK r0 \in Nat, r1 \in Nat : r0 = Len(AllRows(old)) /\ r1 = Len(AllRows(log)) /\ r0 <= r1
    BY <2>1, <2>2 DEF Sized, FollowInv
  <2>4. PICK width : width = follow.request.width
    OBVIOUS
  <2>5. PICK k \in Nat : k = getBacktrackLines(log, width)
    <3>1. Counted(log) \in Nat /\ Len(log) + 1 \in Nat
      BY <2>1 DEF Sized
    <3> QED BY <3>1 DEF getBacktrackLines
  <2>6. /\ follow' \in FollowType /\ follow'.request = follow.request /\ follow'.fetched = log /\ follow'.back = k
        /\ follow'.pc = "check" /\ follow'.first = follow.first /\ follow'.previous = follow.previous
    <3>1. PICK L : L = Seq(Line)
      OBVIOUS
    <3>2. PICK f \in [pc : Places, request : Asked, first : BOOLEAN, previous : L, fetched : L, back : Nat, cancelled : BOOLEAN] : f = follow
      BY <1>1, <3>1 DEF FollowType
    <3>4. PICK n : n = [f EXCEPT !.back = k, !.fetched = log, !.pc = "check"]
      OBVIOUS
    <3>5. n = follow' /\ log \in L
      BY <1>3, <2>1, <2>4, <2>5, <3>1, <3>2, <3>4
    <3>6. /\ n \in [pc : Places, request : Asked, first : BOOLEAN, previous : L, fetched : L, back : Nat, cancelled : BOOLEAN]
          /\ n.request = f.request /\ n.fetched = log /\ n.back = k /\ n.pc = "check" /\ n.first = f.first /\ n.previous = f.previous
      BY <3>2, <3>4, <3>5 DEF Places
    <3> QED BY <3>1, <3>2, <3>5, <3>6 DEF FollowType
  <2>7. Widens(old, log) /\ Widens(follow.previous, old) /\ Widens(follow.previous, log) /\ Widens(log, log)
    BY <2>1, <2>2 DEF FollowInv, Widens
  <2>8. ASSUME follow.request.follow PROVE Following(follow', screen')
    <3>1. Following(follow, screen)
      BY <2>8 DEF FollowInv
    <3>2. text \in RowSeq /\ Len(text) = r1 /\ text = AllRows(log)
      BY <1>3, <2>1, <2>3 DEF Sized
    <3>3. CASE follow.first
      <4>1. follow.fetched = <<>> /\ follow.back = 0 /\ screen.rows = Prompt /\ screen.cursor = 1
        BY <1>1, <3>1, <3>3 DEF Following
      <4>2. top = 1
        BY <1>3, <4>1
      <4>3. <<>> \in RowSeq /\ Len(<<>>) = 0 /\ Prompt = Prompt \o <<>> /\ Prompt \in RowSeq /\ Len(Prompt) = 1
        BY DEF RowSeq, Prompt
      <4>4. Printed(Prompt, 1, text) = Prompt \o text /\ Prompt \o text \in RowSeq
        <5>1. PICK e \in RowSeq : e = <<>> /\ Len(e) = 0
          BY <4>3
        <5>2. Len(e) <= Len(text)
          BY <2>3, <3>2, <5>1
        <5> QED BY <3>2, <4>3, <5>1, <5>2, PrintedOver
      <4>5. Clean(screen', text)
        BY <1>3, <4>1, <4>2, <4>4 DEF Clean
      <4>6. Stands(screen', text)
        <5>1. PICK s \in ScreenType : s = [rows |-> Prompt, cursor |-> 1]
          BY <4>3 DEF ScreenType
        <5>2. s.rows = Prompt /\ s.rows = screen.rows
          BY <4>1, <5>1
        <5>3. top \in Nat /\ top <= Len(s.rows)
          <6>1. Len(s.rows) = 1
            BY <4>3, <5>2, Zenon
          <6> QED BY <4>2, <6>1
        <5>4. screen' = [rows |-> Printed(s.rows, top, text), cursor |-> top + Len(text)]
          BY <1>3, <5>2
        <5> QED BY <3>2, <5>3, <5>4, TurnPrints
      <4>7. Turned(follow', screen')
        BY <2>4, <2>5, <2>6, <3>2, <4>5, <4>6 DEF Turned
      <4>8. Compared(follow', screen')
        BY <2>6, <3>2, <3>3, <4>5 DEF Compared, MissedBy
      <4> QED BY <2>6, <4>7, <4>8 DEF Following
    <3>4. CASE ~follow.first
      <4>1. Turned(follow, screen) /\ follow.previous = old
        BY <1>1, <2>2, <3>1, <3>4 DEF Following
      <4>2. PICK s \in ScreenType : s = screen /\ Stands(s, AllRows(old))
        BY <2>2, <4>1 DEF Turned, Stands
      <4>3. PICK c \in Nat, m \in Nat : c = s.cursor /\ m = Len(s.rows) /\ c <= m /\ r0 <= c
        BY <2>3, <4>2 DEF Stands, ScreenType, RowSeq
      <4>4. PICK b \in Nat : b = follow.back /\ b = getBacktrackLines(old, width)
        BY <1>1, <2>2, <2>4, <4>1 DEF Turned, FollowType
      <4>5. top \in Nat /\ top <= m /\ (b >= c => top = 0) /\ (b <= c => top = c - b)
        BY <1>3, <4>2, <4>3, <4>4
      <4>6. /\ Stands(screen', text) /\ (top = 0 => screen'.cursor = r1)
            /\ Len(screen'.rows) = IF top + r1 > m THEN top + r1 ELSE m
        BY <1>3, <3>2, <4>2, <4>3, <4>5, TurnPrints
      <4>7. ASSUME width # 0, ~FillsRows(old) PROVE Clean(screen', text)
        <5>1. s.rows = Prompt \o AllRows(old) /\ c = 1 + r0
          BY <2>2, <2>3, <2>4, <4>1, <4>2, <4>3, <4>7 DEF Turned, Clean
        <5>2. b = r0
          BY <2>2, <2>3, <4>4, <4>7 DEF getBacktrackLines, Sized
        <5>3. top = 1
          BY <4>5, <5>1, <5>2
        <5>4. Printed(Prompt \o AllRows(old), 1, text) = Prompt \o text
          <6>1. PICK a \in RowSeq : a = AllRows(old)
            BY <2>2 DEF Sized
          <6>2. Len(a) <= Len(text)
            BY <2>3, <3>2, <6>1
          <6> QED BY <3>2, <6>1, <6>2, PrintedOver
        <5> QED BY <1>3, <4>2, <5>1, <5>3, <5>4 DEF Clean
      <4>8. ASSUME width = 0 \/ FillsRows(old), width # 0 \/ ~Wraps(old) PROVE Over(screen', text)
        <5>1. Clean(s, AllRows(old)) \/ Over(s, AllRows(old))
          BY <2>2, <2>4, <4>1, <4>2, <4>8 DEF Turned
        <5>2. b > r0
          <6>1. CASE width # 0
            BY <2>2, <2>3, <4>4, <4>8, <6>1 DEF getBacktrackLines, Sized
          <6>2. CASE width = 0
            <7>1. b = Len(old) + 1 /\ r0 = Len(old)
              BY <2>2, <2>3, <4>4, <4>8, <6>2 DEF getBacktrackLines, Sized
            <7> QED BY <7>1
          <6> QED BY <6>1, <6>2
        <5>3. m <= r0 + 1 /\ c <= r0 + 1
          <6>1. CASE Clean(s, AllRows(old))
            <7>1. PICK a \in RowSeq : a = AllRows(old) /\ Len(a) = r0
              BY <2>2, <2>3 DEF Sized
            <7>2. Len(Prompt \o a) = 1 + r0
              <8>1. Prompt \in RowSeq /\ Len(Prompt) = 1
                BY DEF Prompt, RowSeq
              <8> QED BY <7>1, <8>1, ConcatProperties DEF RowSeq
            <7> QED BY <2>3, <4>3, <6>1, <7>1, <7>2 DEF Clean
          <6>2. CASE Over(s, AllRows(old))
            BY <2>3, <4>3, <6>2 DEF Over
          <6> QED BY <5>1, <6>1, <6>2
        <5>4. top = 0
          BY <4>5, <5>2, <5>3
        <5>5. Len(screen'.rows) <= r1 + 1
          BY <2>3, <4>6, <5>3, <5>4
        <5> QED BY <3>2, <4>6, <5>4, <5>5 DEF Over
      <4>9. Compared(follow', screen')
        BY <2>4, <2>6, <3>2, <3>4, <4>1, <4>7, <4>8 DEF Compared, MissedBy
      <4>10. Turned(follow', screen')
        <5>1. follow'.back = getBacktrackLines(log, width)
          BY <2>5, <2>6
        <5>2. (width # 0 /\ ~FillsRows(log)) => Clean(screen', text)
          BY <2>7, <4>7 DEF Widens
        <5>3. (width # 0 \/ ~Wraps(log)) => Clean(screen', text) \/ Over(screen', text)
          BY <2>7, <4>7, <4>8 DEF Widens
        <5> QED BY <2>4, <2>6, <3>2, <4>6, <5>1, <5>2, <5>3 DEF Turned
      <4> QED BY <2>6, <3>4, <4>9, <4>10 DEF Following
    <3>5. follow.first \in BOOLEAN
      BY <1>1 DEF FollowType
    <3> QED BY <3>3, <3>4
  <2>9. r1 <= r1
    OBVIOUS
  <2> QED BY <1>1, <2>1, <2>3, <2>6, <2>7, <2>8, <2>9 DEF FollowInv
<1>4. CASE follow.cancelled \/ container.gone
  <2>1. (Go("cancelled") \/ Go("failed")) /\ UNCHANGED screen
    BY <1>1, <1>4 DEF streamLogs, FollowType, BoxType
  <2> QED BY <1>1, <1>2, <2>1, <1>4 DEF Go, FollowType
<1>5. CASE ~follow.cancelled /\ ~container.gone
  BY <1>1, <1>3, <1>5 DEF streamLogs
<1> QED BY <1>4, <1>5

(* A step of the loop that prints nothing. *)
LEMMA LoopKept ==
  ASSUME FollowInv, Logs \/ CheckEnded \/ Sleep \/ CancelFollow
  PROVE  FollowInv' /\ UNCHANGED session /\ follow'.request = follow.request
<1>1. follow \in FollowType /\ UNCHANGED <<container, session>> /\ (follow.request.follow => Following(follow, screen))
  BY DEF FollowInv, Logs, CheckEnded, Sleep, CancelFollow
<1>2. ASSUME follow' \in FollowType, follow'.request = follow.request, follow'.fetched = follow.fetched, follow'.previous \in {follow.previous, follow.fetched},
             follow.request.follow => Following(follow', screen')
      PROVE  FollowInv' /\ UNCHANGED session /\ follow'.request = follow.request
  <2>1. Widens(follow'.previous, follow'.fetched)
    BY <1>2 DEF FollowInv, Widens
  <2> QED BY <1>1, <1>2, <2>1 DEF FollowInv
<1>3. ASSUME NEW pc \in Places, Go(pc)
      PROVE  /\ follow' \in FollowType /\ follow'.pc = pc /\ follow'.first = follow.first
             /\ follow'.request = follow.request /\ follow'.fetched = follow.fetched /\ follow'.back = follow.back /\ follow'.previous = follow.previous
  BY <1>1, <1>3 DEF FollowType, Go
<1>4. CASE Logs
  <2>1. CASE follow.request.follow
    <3>1. Go("fetch") /\ UNCHANGED screen /\ follow.pc = "logs"
      BY <1>4, <2>1 DEF Logs
    <3>2. /\ follow' \in FollowType /\ follow'.pc = "fetch" /\ follow'.first = follow.first
          /\ follow'.request = follow.request /\ follow'.fetched = follow.fetched /\ follow'.back = follow.back /\ follow'.previous = follow.previous
      BY <1>3, <3>1 DEF Places
    <3>3. Following(follow', screen')
      BY <1>1, <2>1, <3>1, <3>2 DEF Following
    <3> QED BY <1>2, <3>2, <3>3
  <2>2. CASE ~follow.request.follow
    <3>1. Go("failed") \/ Go("done")
      BY <1>4, <2>2 DEF Logs
    <3>2. /\ follow' \in FollowType /\ follow'.request = follow.request /\ follow'.fetched = follow.fetched /\ follow'.previous = follow.previous
      BY <1>3, <3>1 DEF Places
    <3> QED BY <1>2, <2>2, <3>2
  <2> QED BY <2>1, <2>2
<1>5. CASE CheckEnded
  <2>0. follow.pc = "check" /\ UNCHANGED screen
    BY <1>5 DEF CheckEnded
  <2>1. CASE follow' = [follow EXCEPT !.pc = "done"]
    <3>1. /\ follow' \in FollowType /\ follow'.pc = "done" /\ follow'.first = follow.first
          /\ follow'.request = follow.request /\ follow'.fetched = follow.fetched /\ follow'.back = follow.back /\ follow'.previous = follow.previous
      BY <1>3, <2>1 DEF Places, Go
    <3>2. follow.request.follow => Following(follow', screen')
      BY <1>1, <2>0, <3>1 DEF Following, Turned, Compared, MissedBy
    <3> QED BY <1>2, <3>1, <3>2
  <2>2. CASE follow' = [follow EXCEPT !.first = FALSE, !.previous = follow.fetched, !.pc = "sleep"]
    <3>1. /\ follow' \in FollowType /\ follow'.pc = "sleep" /\ follow'.first = FALSE
          /\ follow'.request = follow.request /\ follow'.fetched = follow.fetched /\ follow'.back = follow.back /\ follow'.previous = follow.fetched
      <4>1. PICK L : L = Seq(Line)
        OBVIOUS
      <4>2. PICK f \in [pc : Places, request : Asked, first : BOOLEAN, previous : L, fetched : L, back : Nat, cancelled : BOOLEAN] : f = follow
        BY <1>1, <4>1 DEF FollowType
      <4>3. PICK g \in L : g = f.fetched
        BY <4>2
      <4>4. PICK n : n = [f EXCEPT !.first = FALSE, !.previous = g, !.pc = "sleep"]
        OBVIOUS
      <4>5. n = follow'
        BY <2>2, <4>2, <4>3, <4>4
      <4>6. /\ n \in [pc : Places, request : Asked, first : BOOLEAN, previous : L, fetched : L, back : Nat, cancelled : BOOLEAN]
            /\ n.request = f.request /\ n.fetched = f.fetched /\ n.back = f.back /\ n.previous = f.fetched /\ n.pc = "sleep" /\ n.first = FALSE
        BY <4>2, <4>3, <4>4 DEF Places
      <4> QED BY <4>1, <4>2, <4>5, <4>6 DEF FollowType
    <3>2. follow.request.follow => Following(follow', screen')
      BY <1>1, <2>0, <3>1 DEF Following, Turned
    <3> QED BY <1>2, <3>1, <3>2
  <2> QED BY <1>5, <2>1, <2>2 DEF CheckEnded
<1>6. CASE Sleep
  <2>1. PICK pc \in {"cancelled", "fetch"} : Go(pc) /\ UNCHANGED screen /\ follow.pc = "sleep"
    BY <1>6 DEF Sleep
  <2>2. /\ follow' \in FollowType /\ follow'.pc = pc /\ follow'.first = follow.first
        /\ follow'.request = follow.request /\ follow'.fetched = follow.fetched /\ follow'.back = follow.back /\ follow'.previous = follow.previous
    BY <1>3, <2>1 DEF Places
  <2>3. follow.request.follow => Following(follow', screen')
    BY <1>1, <2>1, <2>2 DEF Following, Turned
  <2> QED BY <1>2, <2>2, <2>3
<1>7. CASE CancelFollow
  <2>1. /\ follow' \in FollowType /\ follow'.pc = follow.pc /\ follow'.first = follow.first /\ UNCHANGED screen
        /\ follow'.request = follow.request /\ follow'.fetched = follow.fetched /\ follow'.back = follow.back /\ follow'.previous = follow.previous
    BY <1>1, <1>7 DEF FollowType, CancelFollow
  <2>2. follow.request.follow => Following(follow', screen')
    BY <1>1, <2>1 DEF Following, Turned, Compared, MissedBy
  <2> QED BY <1>2, <2>1, <2>2
<1> QED BY <1>4, <1>5, <1>6, <1>7

(* The container writes only at the end of its log. *)
LEMMA LogKept ==
  ASSUME FollowInv, WriteLine \/ ContainerEnds \/ GroupDisappears
  PROVE  FollowInv' /\ UNCHANGED <<follow, session>>
<1>1. follow \in FollowType /\ container \in BoxType /\ UNCHANGED <<follow, screen, session>>
  BY DEF FollowInv, WriteLine, ContainerEnds, GroupDisappears
<1>2. PICK log \in Seq(Line) : log = container.log
  BY <1>1 DEF BoxType
<1>3. CASE WriteLine
  <2>1. PICK l \in Lengths : container' = [container EXCEPT !.log = Append(@, [number |-> Len(@) + 1, length |-> l])]
    BY <1>3 DEF WriteLine
  <2>2. PICK e \in Line : e = [number |-> Len(log) + 1, length |-> l]
    <3>1. Len(log) + 1 \in Nat
      OBVIOUS
    <3> QED BY <3>1 DEF Line
  <2>3. PICK more \in Seq(Line) : more = Append(log, e)
    BY AppendProperties
  <2>4. container' \in BoxType /\ container'.log = more
    <3>1. PICK L : L = Seq(Line)
      OBVIOUS
    <3>2. container \in [log : L, running : BOOLEAN, gone : BOOLEAN] /\ more \in L
      BY <1>1, <3>1 DEF BoxType
    <3>3. container' = [container EXCEPT !.log = more]
      BY <1>2, <2>1, <2>2, <2>3
    <3>4. container' \in [log : L, running : BOOLEAN, gone : BOOLEAN] /\ container'.log = more
      BY <3>2, <3>3
    <3> QED BY <3>1, <3>4 DEF BoxType
  <2>5. Sized(more) /\ Widens(log, more) /\ Len(AllRows(log)) <= Len(AllRows(more)) /\ Sized(log)
    <3>1. Sized(log)
      BY <1>2 DEF FollowInv
    <3> QED BY <2>3, <3>1, SizedGrow
  <2>6. PICK a \in Nat, b \in Nat, c \in Nat : a = Len(AllRows(follow.fetched)) /\ b = Len(AllRows(log)) /\ c = Len(AllRows(more))
    BY <2>5 DEF FollowInv, Sized
  <2>7. a <= c
    BY <1>2, <2>5, <2>6 DEF FollowInv
  <2>8. Widens(follow.fetched, more)
    BY <1>2, <2>5 DEF FollowInv, Widens
  <2> QED BY <1>1, <2>4, <2>5, <2>6, <2>7, <2>8 DEF FollowInv
<1>4. CASE ContainerEnds \/ GroupDisappears
  <2>1. container' \in BoxType /\ container'.log = container.log
    BY <1>1, <1>4 DEF ContainerEnds, GroupDisappears, BoxType
  <2> QED BY <1>1, <2>1 DEF FollowInv
<1> QED BY <1>1, <1>3, <1>4

(* Every step keeps what is on the screen and what the reader knows. *)
LEMMA LogsInvNext ==
  ASSUME LogsInv, [LogsNext]_logVars
  PROVE  LogsInv'
<1>1. FollowInv /\ ReadToTheEnd(session, follow.request.interactive)
  BY DEF LogsInv
<1>2. ASSUME FollowInv', UNCHANGED session, follow'.request = follow.request PROVE LogsInv'
  BY <1>1, <1>2 DEF LogsInv
<1>3. ASSUME ReadToTheEnd(session', follow.request.interactive), UNCHANGED <<follow, container, screen>> PROVE LogsInv'
  BY <1>1, <1>3 DEF LogsInv, FollowInv
<1>4. CASE Exec \/ ReadServerData \/ Select \/ ReadStdin \/ CommandWrites \/ CommandEnds
  BY <1>1, <1>3, <1>4, SessionKept
<1>5. CASE streamLogs
  BY <1>1, <1>2, <1>5, FetchKept
<1>6. CASE Logs \/ CheckEnded \/ Sleep \/ CancelFollow
  BY <1>1, <1>2, <1>6, LoopKept
<1>7. CASE WriteLine \/ ContainerEnds \/ GroupDisappears
  BY <1>1, <1>2, <1>7, LogKept
<1>8. CASE UNCHANGED logVars
  BY <1>1, <1>3, <1>8 DEF logVars
<1> QED BY <1>4, <1>5, <1>6, <1>7, <1>8 DEF LogsNext, LogsStep

(* The invariant says what the terminal shows and what exec tells. *)
LEMMA LogsToldHolds ==
  ASSUME LogsInv
  PROVE  LogsRight
<1>1. FollowInv /\ ReadToTheEnd(session, follow.request.interactive)
  BY DEF LogsInv
<1>2. ScreenRight
  <2> SUFFICES ASSUME follow.pc \in {"check", "done"}, follow.request.follow, NEW text, text = AllRows(follow.fetched), NEW top, top = screen.cursor - Len(text)
               PROVE  /\ top >= 0 /\ Len(screen.rows) >= screen.cursor /\ \A i \in 1 .. Len(text) : screen.rows[top + i] = text[i]
                      /\ ~Misses => screen.rows = Prompt \o text
                      /\ (Misses /\ (follow.request.width # 0 \/ ~Wraps(follow.previous))) => top = 0 /\ Len(screen.rows) <= Len(text) + 1
    BY DEF ScreenRight
  <2>1. Turned(follow, screen) /\ Compared(follow, screen)
    BY <1>1 DEF FollowInv, Following
  <2>2. PICK r \in Nat, c \in Nat, m \in Nat : r = Len(text) /\ c = screen.cursor /\ m = Len(screen.rows)
    BY <1>1, <2>1 DEF FollowInv, Sized, Turned, Stands, ScreenType, RowSeq
  <2>3. r <= c /\ c <= m /\ \A i \in 1 .. r : screen.rows[(c - r) + i] = text[i]
    BY <2>1, <2>2 DEF Turned, Stands
  <2>4. Misses <=> MissedBy(follow)
    BY DEF Misses, MissedBy
  <2>5. ~Misses => screen.rows = Prompt \o text
    BY <2>1, <2>4 DEF Compared, Clean
  <2>6. (Misses /\ (follow.request.width # 0 \/ ~Wraps(follow.previous))) => c = r /\ m <= r + 1
    BY <2>1, <2>2, <2>4 DEF Compared, Over
  <2> QED BY <2>2, <2>3, <2>5, <2>6
<1>3. ExecTold
  <2>1. session.shown = session.sent => ~(session.shown < session.sent)
    BY <1>1 DEF ReadToTheEnd, SessionType
  <2> QED BY <1>1, <2>1 DEF ReadToTheEnd, ExecTold
<1> QED BY <1>2, <1>3 DEF LogsRight

(***************************************************************************)
(* Following a log shows all that was fetched at every turn, however the   *)
(* log grows between the turns and whenever the container ends or its      *)
(* group goes, and leaves the terminal as it was, but for the row above    *)
(* the command where a line has two or more rows that are all full, or the *)
(* width is not known; exec tells how the command ended, or that its input *)
(* did. For every terminal and all lines; how far the cursor is off where  *)
(* the width is not known and a line wraps is not said.                    *)
(***************************************************************************)
THEOREM LogsAreRight == LogsSpec => []LogsRight
<1>1. LogsInit => LogsInv
  BY LogsInvInit
<1>2. LogsInv /\ [LogsNext]_logVars => LogsInv'
  BY LogsInvNext
<1>3. LogsInv => LogsRight
  BY LogsToldHolds
<1> QED BY <1>1, <1>2, <1>3, PTL DEF LogsSpec
=============================================================================
