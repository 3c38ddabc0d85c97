----------------------------- MODULE AciContext -----------------------------
(***************************************************************************)
(* docker context create aci: a subscription, then a resource group of it, *)
(* given as options or chosen from what Azure lists page by page, or       *)
(* created.                                                                *)
(***************************************************************************)
EXTENDS Naturals, Sequences, FiniteSets, SequencesExt

CONSTANTS ContextCases  \* the options, and what the account holds

VARIABLES account,      \* the pages of subscriptions, and of resource groups by subscription
          making        \* the options, the program counter, the pages read, the choices and the result

aciContextVars == <<account, making>>

Unset == "unset"        \* an empty option, and no error

(* Azure answers with one page at least, and lists the groups of every subscription it names. *)
ASSUME ContextCasesAssumption ==
    \A case \in ContextCases :
        /\ case[1].subscriptions \in Seq(Seq(DOMAIN case[1].groups)) \ {<<>>}
        /\ case[1] = [subscriptions |-> case[1].subscriptions, groups |-> case[1].groups]
        /\ case[1].groups \in [DOMAIN case[1].groups -> Seq(Seq([name : STRING, location : STRING])) \ {<<>>}]
        /\ case[2] \in [subscription : STRING, group : STRING, location : STRING]

To(pc) == making' = [making EXCEPT !.pc = pc]
Stop(error) == making' = [making EXCEPT !.pc = "over", !.error = error]

(* All that the pages hold, and what the first n of them do. *)
Items(pages) == LET upTo[n \in 0 .. Len(pages)] == IF n = 0 THEN <<>> ELSE upTo[n - 1] \o pages[n] IN upTo
AllItems(pages) == Items(pages)[Len(pages)]

(* Mutant: the loop ends before the last page is added. *)
ReadPage_ButLast(pages, got) == got \o (IF making.page + 1 < Len(pages) THEN pages[making.page + 1] ELSE <<>>)

(* The values of a page are added as it is reached. *)
ReadPage(pages, got) == got \o pages[making.page + 1]
More(pages) == making.page + 1 < Len(pages)

(* GetSubscriptionIDs: an account without any is an error, which the first page tells. *)
GetSubscriptionIDs ==
    /\ making.pc = "subscriptions"
    /\ LET pages == account.subscriptions
           none  == making.page = 0 /\ pages[1] = <<>>
       IN  \/ Stop("api")
           \/ none /\ Stop("no subscription")
           \/ ~none /\ making' = [making EXCEPT !.subs = ReadPage(pages, making.subs),
                                                !.page = IF More(pages) THEN making.page + 1 ELSE 0,
                                                !.pc = IF More(pages) THEN "subscriptions" ELSE "subscription"]
    /\ UNCHANGED account

UseSubscription(sub) ==
    making' = [making EXCEPT !.sub = sub, !.pc = IF making.options.group = Unset THEN "groups" ELSE "group"]

(* The one that was asked for, the only one, or the one that is chosen. *)
chooseSub ==
    /\ making.pc = "subscription"
    /\ LET asked == making.options.subscription
           chosen == { i \in DOMAIN making.subs : asked \in {Unset, making.subs[i]} }
       IN  \/ \E i \in chosen : UseSubscription(making.subs[i])
           \/ asked # Unset /\ chosen = {} /\ Stop("subscription")
           \/ asked = Unset /\ Len(making.subs) # 1 /\ Stop("exit")
    /\ UNCHANGED account

Groups == account.groups[making.sub]
Result(g) == making' = [making EXCEPT !.pc = "over", !.result = g]

GetGroup ==
    /\ making.pc = "group"
    /\ \/ Stop("group")
       \/ \E i \in DOMAIN AllItems(Groups) : AllItems(Groups)[i].name = making.options.group /\ Result(AllItems(Groups)[i])
    /\ UNCHANGED account

ListGroups ==
    /\ making.pc = "groups"
    /\ \/ Stop("api")
       \/ making' = [making EXCEPT !.shown = ReadPage(Groups, making.shown),
                                   !.page = IF More(Groups) THEN making.page + 1 ELSE 0,
                                   !.pc = IF More(Groups) THEN "groups" ELSE "choose"]
    /\ UNCHANGED account

ChosenGroup(index) == making.shown[index]

(* The first entry of the list creates a group, the others are the groups. *)
chooseGroup ==
    /\ making.pc = "choose"
    /\ \/ To("create")
       \/ Stop("cancelled")
       \/ \E i \in DOMAIN making.shown :
             making' = [making EXCEPT !.pc = "over", !.result = ChosenGroup(i), !.picked = making.shown[i]]
    /\ UNCHANGED account

(* A new group has a random name, and the default location when none is given. *)
createGroup ==
    /\ making.pc = "create"
    /\ \/ Stop("api") /\ UNCHANGED account
       \/ LET g == [name |-> "uuid", location |-> IF making.options.location = Unset THEN "eastus" ELSE making.options.location]
          IN  /\ account' = [account EXCEPT !.groups[making.sub] = Append(@, <<g>>)]
              /\ making' = [making EXCEPT !.pc = "over", !.result = g, !.picked = g]

-----------------------------------------------------------------------------
NoneChosen == [name |-> Unset, location |-> Unset]
Making(pc, options) == [pc |-> pc, options |-> options, page |-> 0, subs |-> <<>>, shown |-> <<>>, sub |-> Unset,
                        picked |-> NoneChosen, result |-> NoneChosen, error |-> Unset]
NoAnswer == [subscriptions |-> <<>>, groups |-> << >>]
AciContextIdle == account = NoAnswer /\ making = Making("idle", NoneChosen)
AciContextInit == \E case \in ContextCases : account = case[1] /\ making = Making("subscriptions", case[2])

AciContextNext == \/ GetSubscriptionIDs \/ chooseSub \/ GetGroup \/ ListGroups \/ chooseGroup \/ createGroup
                  \/ making.pc = "over" /\ UNCHANGED aciContextVars

AciContextSpec == AciContextInit /\ [][AciContextNext]_aciContextVars

-----------------------------------------------------------------------------
(***************************************************************************)
(* The context that is created names a resource group that exists in its   *)
(* subscription, at its location: the one that was asked for, or picked.   *)
(***************************************************************************)
ContextRight ==
    (making.pc = "over" /\ making.error = Unset)
        => /\ making.options.subscription \in {Unset, making.sub}
           /\ making.result \in Range(AllItems(Groups))
           /\ making.options.group \in {Unset, making.result.name}
           /\ making.picked \in {NoneChosen, making.result}

(***************************************************************************)
(* The choice is between all the subscriptions, and all the groups of the  *)
(* one chosen, however many pages they take.                               *)
(***************************************************************************)
AllOffered ==
    /\ making.pc = "subscription" => making.subs = AllItems(account.subscriptions)
    /\ making.pc \in {"choose", "create"} => making.shown = AllItems(Groups)

(***************************************************************************)
(* The context names the group the user asked for or picked, out of all    *)
(* there are (createContextData, chooseGroup).                             *)
(***************************************************************************)
GroupChosen == ContextRight /\ AllOffered
=============================================================================
