----------------------------- MODULE AciVolumes -----------------------------
(***************************************************************************)
(* The resource group of an ACI context and the volumes in it: storage     *)
(* accounts and their file shares. Several clients work in the group, each *)
(* call of the Azure API is a step, and any call may fail.                 *)
(*                                                                         *)
(* A client is blind when it goes by less than what is there: another one  *)
(* changed something since it began, or it read one page of a longer list. *)
(***************************************************************************)
EXTENDS Naturals, Sequences, FiniteSets, SequencesExt

CONSTANTS Clients,      \* the commands under way
          Plans,        \* what each client does, and what the group holds before
          PageSize      \* shares on a page of their list; the service decides

VARIABLES groups,       \* the container groups, by name
          accounts,     \* the storage accounts, by name: their tag and their shares
          job,          \* each client's command, where it is and what it has read
          faults        \* the calls that may still fail

aciVars == <<groups, accounts, job, faults>>

NoError == "none"
NoView == "unknown"     \* a group or a container whose state Azure does not tell
Running == "Running"
ComposeDNSSidecarName == <<"dns-sidecar">>

(***************************************************************************)
(* What is asked for and what Azure holds. A name is the sequence of its   *)
(* parts between separators, a volume the name of an account and that of a *)
(* share.                                                                  *)
(***************************************************************************)
Name == Seq(STRING) \ {<<>>}
Part == { n \in Seq(STRING) : Len(n) = 1 }
Volume == STRING \X STRING
Ops == {"run", "up", "start", "stop", "kill", "rm", "down", "ps", "compose ps", "container inspect", "ls", "prune",
        "volume create", "inspect", "volume ls", "volume rm"}
AciCommand == [op : Ops, id : Name, volume : Seq(STRING), volumes : Seq(Volume), services : Seq(Part), driver : SUBSET Volume, taken : BOOLEAN,
            timeout : Nat, force : BOOLEAN, all : BOOLEAN, dryRun : BOOLEAN, before : SUBSET STRING]
State == {Running, "Waiting", "Terminated", "Pending", "Stopped", "Succeeded", "Failed", NoView}
ContainerOfGroup == [name : Part \cup {ComposeDNSSidecarName}, state : State]
ContainerGroup == [containers : Seq(ContainerOfGroup), tags : SUBSET {"single", "compose"}, volumes : SUBSET Volume, node : State]
StorageAccount == [tagged : BOOLEAN, shares : SUBSET STRING]

(* A container runs only on a node that runs, and the one of a run has the name of its group. *)
GroupsDeployed(gs) ==
    /\ IsFiniteSet(DOMAIN gs) /\ DOMAIN gs \subseteq Name /\ gs \in [DOMAIN gs -> ContainerGroup]
    /\ \A n \in DOMAIN gs : \A i \in DOMAIN gs[n].containers :
          /\ gs[n].containers[i].state = Running => gs[n].node = Running
          /\ "single" \in gs[n].tags => gs[n].containers[i].name = n

(* The volume to create is given by an account and a share; the volumes of a project come in any order, *)
(* "driver" are those of the driver of Azure; "before" are the accounts before the commands.            *)
ASSUME PlansAssumption ==
    /\ PageSize \in Nat \ {0}
    /\ \A plan \in Plans :
        /\ GroupsDeployed(plan.groups)
        /\ plan.accounts \in [DOMAIN plan.accounts -> StorageAccount]
        /\ \A c \in Clients : /\ plan.commands[c] \in AciCommand
                              /\ plan.commands[c].op = "volume create" => Len(plan.commands[c].volume) = 2
                              /\ DOMAIN plan.accounts \subseteq plan.commands[c].before

Without(function, key) == [k \in DOMAIN function \ {key} |-> function[k]]

(* A group holds its containers, its tags, its volumes and the state of its node. *)
Group(containers, tags, volumes, node) ==
    [containers |-> containers, tags |-> tags, volumes |-> volumes, node |-> node]
Fresh(command) == [cmd |-> command, pc |-> command.op, todo |-> <<>>, seen |-> <<>>, out |-> <<>>, error |-> NoError, blind |-> FALSE]

At(c, pc) == job[c].pc = pc
Cmd(c) == job[c].cmd
Ended(c) == At(c, "done")
Becomes(c, mine) == job' = [job EXCEPT ![c] = mine]
Jump(c, pc) == Becomes(c, [job[c] EXCEPT !.pc = pc])
Finish(c, error) == Becomes(c, [job[c] EXCEPT !.pc = "done", !.error = error])

(* A change that other clients under way may not have seen. *)
Changed(c, mine) == job' = [d \in Clients |-> IF d = c THEN mine
                                              ELSE [job[d] EXCEPT !.blind = @ \/ (job[d].pc \notin {"done", Cmd(d).op})]]

(* The steps that call nothing: the command's own checks, and what is done with the groups that were read. *)
Local == {"run", "up", "volume", "start", "stop", "kill", "rm", "listed", "done"}

(* A call of the API that fails, whatever it is. *)
CallFails(c) ==
    /\ faults > 0 /\ job[c].pc \notin Local
    /\ faults' = faults - 1
    /\ Finish(c, "api")
    /\ UNCHANGED <<groups, accounts>>

-----------------------------------------------------------------------------
(* getACIContainerGroups, which several commands begin with: the names,    *)
(* then each group; one that is gone by then fails them all.               *)

ListGroupNames(c) ==
    /\ At(c, Cmd(c).op) /\ Cmd(c).op \in {"ps", "ls", "prune", "volume rm"}
    /\ LET names == SetToSeq(DOMAIN groups)
       IN  Becomes(c, [job[c] EXCEPT !.todo = names, !.pc = IF names = <<>> THEN "listed" ELSE "group"])
    /\ UNCHANGED <<groups, accounts, faults>>

getACIContainerGroups(c) ==
    /\ At(c, "group")
    /\ LET name == Head(job[c].todo)
       IN  IF name \in DOMAIN groups
             THEN Becomes(c, [job[c] EXCEPT !.todo = Tail(@), !.seen = Append(@, <<name, groups[name]>>),
                                            !.pc = IF Len(job[c].todo) = 1 THEN "listed" ELSE "group"])
             ELSE Finish(c, "gone")
    /\ UNCHANGED <<groups, accounts, faults>>

-----------------------------------------------------------------------------
(* Volumes. An id is split in an account and a share.                      *)

getStorageAccountAndFileshare(id) == [ok |-> Len(id) = 2, account |-> id[1], share |-> id[Len(id)]]
HasShare(account, share) == account \in DOMAIN accounts /\ share \in accounts[account].shares

(* The share the client is to create: its own, or the next one of the project. *)
Wanted(c) == IF job[c].todo = <<>> THEN Cmd(c).volume ELSE Head(job[c].todo)

VolumeCreate(c) ==
    /\ At(c, "volume create")
    /\ Jump(c, IF Wanted(c)[1] \in DOMAIN accounts THEN "share" ELSE "name")
    /\ UNCHANGED <<groups, accounts, faults>>

(* An account of the same name may exist in another subscription. *)
CheckNameAvailability(c) ==
    /\ At(c, "name")
    /\ IF Cmd(c).taken THEN Finish(c, "name") ELSE Jump(c, "account")
    /\ UNCHANGED <<groups, accounts, faults>>

CreateAccount(c) ==
    /\ At(c, "account")
    /\ LET name == Wanted(c)[1]
           had  == IF name \in DOMAIN accounts THEN accounts[name].shares ELSE {}
       IN  accounts' = [a \in DOMAIN accounts \cup {name} |->
                          IF a = name THEN [tagged |-> TRUE, shares |-> had] ELSE accounts[a]]
    /\ Changed(c, [job[c] EXCEPT !.pc = "share"])
    /\ UNCHANGED <<groups, faults>>

GetShare(c) ==
    /\ At(c, "share")
    /\ IF HasShare(Wanted(c)[1], Wanted(c)[2]) THEN Finish(c, "exists") ELSE Jump(c, "new share")
    /\ UNCHANGED <<groups, accounts, faults>>

(* Mutant: the first volume that had to be created is the last looked at. *)
AfterShare_Once(c) == [job[c] EXCEPT !.todo = <<>>, !.pc = IF Cmd(c).op = "up" THEN "define" ELSE "done"]

(* After a share comes the next volume of the project, or the group. *)
AfterShare(c) ==
    LET rest == IF job[c].todo = <<>> THEN <<>> ELSE Tail(job[c].todo)
    IN  [job[c] EXCEPT !.todo = rest,
                       !.pc = CASE Cmd(c).op # "up"                 -> "done"
                                [] Cmd(c).op = "up" /\ rest = <<>> -> "define"
                                [] OTHER                           -> "volume"]

CreateShare(c) ==
    /\ At(c, "new share")
    /\ IF Wanted(c)[1] \in DOMAIN accounts
         THEN /\ accounts' = [accounts EXCEPT ![Wanted(c)[1]].shares = @ \cup {Wanted(c)[2]}]
              /\ Changed(c, AfterShare(c))
         ELSE Finish(c, "account gone") /\ UNCHANGED accounts
    /\ UNCHANGED <<groups, faults>>

(* autocreateFileshares, for one volume after the other: a volume of another driver ends *)
(* the command, when shares may have been made already; one that is not found is created. *)
CheckDriver(c) ==
    /\ At(c, "volume")
    /\ IF Wanted(c) \in Cmd(c).driver THEN Jump(c, "inspect") ELSE Finish(c, "driver")
    /\ UNCHANGED <<groups, accounts, faults>>

VolumeInspect(c) ==
    /\ At(c, "inspect")
    /\ IF ~getStorageAccountAndFileshare(Wanted(c)).ok THEN Finish(c, "id")
       ELSE IF HasShare(Wanted(c)[1], Wanted(c)[2])
         THEN IF Cmd(c).op = "up" THEN Becomes(c, AfterShare(c)) ELSE Finish(c, NoError)
         ELSE IF Cmd(c).op = "up" THEN Jump(c, "volume create") ELSE Finish(c, "not found")
    /\ UNCHANGED <<groups, accounts, faults>>

VolumeList(c) ==
    /\ At(c, "volume ls")
    /\ LET names == SetToSeq(DOMAIN accounts)
       IN  Becomes(c, [job[c] EXCEPT !.todo = names, !.pc = IF names = <<>> THEN "done" ELSE "its shares"])
    /\ UNCHANGED <<groups, accounts, faults>>

ListAccountShares(c) ==
    /\ At(c, "its shares")
    /\ LET name == Head(job[c].todo)
       IN  IF name \in DOMAIN accounts
             THEN Becomes(c, [job[c] EXCEPT !.todo = Tail(@), !.out = @ \o SetToSeq({name} \X accounts[name].shares),
                                            !.pc = IF Len(job[c].todo) = 1 THEN "done" ELSE "its shares"])
             ELSE Finish(c, "gone")
    /\ UNCHANGED <<groups, accounts, faults>>

hasVolume(volumes, id) == id \in volumes

checkVolumeUsage(c) ==
    /\ At(c, "listed") /\ Cmd(c).op = "volume rm"
    /\ LET used == \E i \in DOMAIN job[c].seen : hasVolume(job[c].seen[i][2].volumes, Cmd(c).volume)
           id   == getStorageAccountAndFileshare(Cmd(c).volume)
       IN  CASE used             -> Finish(c, "used")
             [] ~used /\ ~id.ok  -> Finish(c, "id")
             [] OTHER            -> Jump(c, "shares")
    /\ UNCHANGED <<groups, accounts, faults>>

(* The first page of a list, the only one that is read. *)
FirstPages(shares) == { page \in SUBSET shares : Cardinality(page) = IF Cardinality(shares) < PageSize THEN Cardinality(shares) ELSE PageSize }
LastShare(page, share) == page = {share}

(* The last share of an account, by the page that was read: the account is looked at too. *)
ListShares(c) ==
    /\ At(c, "shares")
    /\ LET id == getStorageAccountAndFileshare(Cmd(c).volume)
       IN  \/ id.account \notin DOMAIN accounts /\ Finish(c, "account")
           \/ /\ id.account \in DOMAIN accounts
              /\ \E page \in FirstPages(accounts[id.account].shares) :
                    IF LastShare(page, id.share)
                      THEN Becomes(c, [job[c] EXCEPT !.pc = "tag", !.blind = @ \/ page # accounts[id.account].shares])
                      ELSE Jump(c, "share rm")
    /\ UNCHANGED <<groups, accounts, faults>>

(* Mutant: accounts that were not made for a volume go too. *)
GetAccountTag_Any(c) ==
    /\ At(c, "tag")
    /\ IF Cmd(c).volume[1] \in DOMAIN accounts THEN Jump(c, "account rm") ELSE Finish(c, "account")
    /\ UNCHANGED <<groups, accounts, faults>>

GetAccountTag(c) ==
    /\ At(c, "tag")
    /\ LET a == Cmd(c).volume[1]
       IN  IF a \notin DOMAIN accounts THEN Finish(c, "account")
           ELSE Jump(c, IF accounts[a].tagged THEN "account rm" ELSE "share rm")
    /\ UNCHANGED <<groups, accounts, faults>>

DeleteAccount(c) ==
    /\ At(c, "account rm")
    /\ IF Cmd(c).volume[1] \in DOMAIN accounts
         THEN accounts' = Without(accounts, Cmd(c).volume[1]) /\ Changed(c, [job[c] EXCEPT !.pc = "done"])
         ELSE Finish(c, "not found") /\ UNCHANGED accounts
    /\ UNCHANGED <<groups, faults>>

DeleteShare(c) ==
    /\ At(c, "share rm")
    /\ IF HasShare(Cmd(c).volume[1], Cmd(c).volume[2])
         THEN /\ accounts' = [accounts EXCEPT ![Cmd(c).volume[1]].shares = @ \ {Cmd(c).volume[2]}]
              /\ Changed(c, [job[c] EXCEPT !.pc = "done"])
         ELSE Finish(c, "not found") /\ UNCHANGED accounts
    /\ UNCHANGED <<groups, faults>>

VolumeStep(c) == \/ ListGroupNames(c) \/ getACIContainerGroups(c)
                 \/ VolumeCreate(c) \/ CheckNameAvailability(c) \/ CreateAccount(c) \/ GetShare(c) \/ CreateShare(c)
                 \/ CheckDriver(c) \/ VolumeInspect(c) \/ VolumeList(c) \/ ListAccountShares(c)
                 \/ checkVolumeUsage(c) \/ ListShares(c) \/ GetAccountTag(c) \/ DeleteAccount(c) \/ DeleteShare(c)

-----------------------------------------------------------------------------
AllShares == UNION { {a} \X accounts[a].shares : a \in DOMAIN accounts }

(***************************************************************************)
(* Delete removes an account with its last share only when Create made it: *)
(* an account the user brought along is never deleted, whatever the order  *)
(* of the commands.                                                        *)
(***************************************************************************)
UntaggedKept ==
    [][\A a \in DOMAIN accounts : ~accounts[a].tagged => a \in DOMAIN accounts']_aciVars

(***************************************************************************)
(* And it removes no other share but in one way: the account was made for  *)
(* volumes, and the client was blind, because a share came after its       *)
(* listing or stands on a page it did not read. Then all shares of the     *)
(* account go with it.                                                     *)
(***************************************************************************)
OnlyThisVolume ==
    [][AllShares \subseteq AllShares' \/ \E c \in DOMAIN job :
          /\ Cmd(c).op = "volume rm" /\ ~Ended(c) /\ Ended(c)'
          /\ LET gone == AllShares \ AllShares'
                 a    == Cmd(c).volume[1]
             IN  gone = {Cmd(c).volume} \/ (job[c].blind /\ accounts[a].tagged /\ gone = {a} \X accounts[a].shares)]_aciVars

(* A volume in use goes only at the hand of a client that was blind. *)
InUseKept ==
    [][(\E g \in DOMAIN groups : groups[g].volumes \cap (AllShares \ AllShares') # {})
          => \E c \in DOMAIN job : Cmd(c).op = "volume rm" /\ ~Ended(c) /\ Ended(c)' /\ job[c].blind]_aciVars

(***************************************************************************)
(* An account made for volumes does not outlive them: when every command   *)
(* has ended, none of them disturbed and none of them failed, an account   *)
(* that was not there before holds a share.                                *)
(***************************************************************************)
NoAccountLeft ==
    (\A c \in DOMAIN job : Ended(c) /\ ~job[c].blind /\ job[c].error = NoError)
        => \A c \in DOMAIN job : \A a \in DOMAIN accounts \ Cmd(c).before : accounts[a].shares # {}
=============================================================================
