----------------------------- MODULE EcsQueries -----------------------------
(***************************************************************************)
(* What the ECS backend asks of AWS: the listings of sdk.go, page by page, *)
(* and the commands made of them: compose ps, ls and logs, the secrets and *)
(* the volumes. A token is the number of pages read so far; nil is 0.      *)
(***************************************************************************)
EXTENDS Naturals, Sequences, FiniteSets, SequencesExt

CONSTANTS Questions,    \* pairs of what the account holds and a command
          MaxFetches,   \* bound: pages read by one listing
          ChunkSize,    \* services asked for in one call
          LogPage,      \* lines in a page of the log
          MaxLines,     \* bound: lines written
          MaxTime       \* bound: the time log events happen at

VARIABLES aws,          \* the account, as [collection -> pages of items], and its log
          asked,        \* the command, its program counter and its loop
          call,         \* the listing under way: the token and the pages read
          answer        \* the result so far; of a log, how often each line was shown

queryVars == <<aws, asked, call, answer>>

NoCall == [token |-> 0, fetched |-> <<>>]

Goto(pc) == asked' = [asked EXCEPT !.pc = pc]
Fail == Goto("failed") /\ call' = NoCall /\ UNCHANGED answer
Answer(a) == answer' = a /\ Goto("done")

(* What a listing that has read these pages returns. *)
Got(collection, Keep(_), fetched) ==
    SelectSeq(FlattenSeq([i \in DOMAIN fetched |-> aws[collection][fetched[i]]]), Keep)

(***************************************************************************)
(* Most listings compare the pointer of the new token with that of the old *)
(* one, which are the same only when both are nil; the others end when the *)
(* new one is nil.                                                         *)
(***************************************************************************)
LastPage(next, compares) == next = 0 /\ (compares => call.token = 0)

(* One turn of a listing's loop; some never send the token. *)
Turn(collection, sends, compares) ==
    LET page == IF sends THEN call.token + 1 ELSE 1
        next == IF page < Len(aws[collection]) THEN page ELSE 0
    IN  [token |-> next, fetched |-> Append(call.fetched, page), last |-> LastPage(next, compares)]

(* The turn is not the last one, or AWS does not answer. *)
GoesOn(turn) ==
    /\ Len(call.fetched) < MaxFetches /\ ~turn.last
    /\ call' = [token |-> turn.token, fetched |-> turn.fetched]
    /\ UNCHANGED <<aws, answer, asked>>
Fetch(turn) == GoesOn(turn) \/ (aws.unreliable /\ Fail /\ UNCHANGED aws)

(* The turn is the last one, and its listing returns. *)
Fetched(turn) == Len(call.fetched) < MaxFetches /\ turn.last /\ call' = NoCall /\ UNCHANGED aws

Every(item) == TRUE
Listing(collection, sends, compares, Keep(_)) ==
    LET turn == Turn(collection, sends, compares)
    IN  Fetch(turn) \/ (Fetched(turn) /\ Answer(Got(collection, Keep, turn.fetched)))

-----------------------------------------------------------------------------
(* Listings that are the whole command. *)

GetSubNets == asked.pc = "GetSubNets" /\ Listing("subnets", TRUE, TRUE, Every)
ListSecrets == asked.pc = "ListSecrets" /\ Listing("secrets", FALSE, TRUE, Every)
ListTasks == asked.pc = "ListTasks" /\ Listing("tasks", FALSE, TRUE, LAMBDA t : t.service = asked.given)
GetPublicIPs == asked.pc = "GetPublicIPs" /\ Listing("interfaces", FALSE, TRUE, LAMBDA n : n.public)
DescribeStackEvents == asked.pc = "DescribeStackEvents" /\ Listing("events", TRUE, FALSE, Every)

containsAll(tags, required) == required \subseteq tags
ListFileSystems ==
    /\ asked.pc = "ListFileSystems"
    /\ Listing("filesystems", TRUE, TRUE, LAMBDA v : containsAll(v.tags, asked.given))

-----------------------------------------------------------------------------
(* Ps: the cluster, the services, then service by service. *)

IsCluster(r) == r.type = "AWS::ECS::Cluster"
IsService(r) == r.type = "AWS::ECS::Service"

(* The cluster of the stack, or the one in the metadata of its template. *)
GetStackClusterID ==
    /\ asked.pc = "ps"
    /\ LET turn  == Turn("resources", FALSE, TRUE)
           found == SelectSeq(aws.resources[1], IsCluster) # <<>>
       IN  \/ found /\ call' = NoCall /\ Goto("services") /\ UNCHANGED <<answer, aws>>
           \/ ~found /\ Fetch(turn)
           \/ ~found /\ Fetched(turn) /\ Goto(IF aws.metadata = "" THEN "failed" ELSE "services") /\ UNCHANGED answer

(* Mutant: only the last page counts. *)
ListStackServices_LastPage ==
    /\ asked.pc = "services"
    /\ LET turn     == Turn("resources", TRUE, FALSE)
           services == Got("resources", LAMBDA r : IsService(r) /\ r.arn # "", <<Last(turn.fetched)>>)
       IN  \/ Fetch(turn)
           \/ /\ Fetched(turn)
              /\ asked' = [asked EXCEPT !.todo = [i \in DOMAIN services |-> services[i].arn],
                                        !.pc = IF services = <<>> THEN "done" ELSE "service"]
              /\ UNCHANGED answer

(* Services that AWS has not created yet have no ARN. *)
ListStackServices ==
    /\ asked.pc = "services"
    /\ LET turn     == Turn("resources", TRUE, FALSE)
           services == Got("resources", LAMBDA r : IsService(r) /\ r.arn # "", turn.fetched)
       IN  \/ Fetch(turn)
           \/ /\ Fetched(turn)
              /\ asked' = [asked EXCEPT !.todo = [i \in DOMAIN services |-> services[i].arn],
                                        !.pc = IF services = <<>> THEN "done" ELSE "service"]
              /\ UNCHANGED answer

Service(arn) == CHOOSE s \in aws.services : s.arn = arn
Described(arn) == \E s \in aws.services : s.arn = arn /\ s.tag # ""

(* The ports of the load balancers that still exist. *)
getURLWithPortMapping(groups) ==
    FlattenSeq([i \in DOMAIN groups |->
                  LET lbs == SelectSeq(groups[i].lbs, LAMBDA lb : lb \in aws.balancers)
                  IN  [j \in DOMAIN lbs |-> [lb |-> lbs[j], port |-> groups[i].port]]])

(* An ARN that AWS does not know, or without its tag, ends the command. *)
DescribeService ==
    /\ asked.pc = "service"
    /\ \/ Described(Head(asked.todo)) /\ Goto("tasks") /\ UNCHANGED <<answer, call>>
       \/ (~Described(Head(asked.todo)) \/ aws.unreliable) /\ Fail
    /\ UNCHANGED aws

Summary(task, publishers) == [arn |-> task.arn, service |-> task.service, state |-> task.state, publishers |-> publishers]

(* A page without tasks ends the listing early. *)
DescribeServiceTasks ==
    /\ asked.pc = "tasks"
    /\ LET service == Service(Head(asked.todo))
           Mine(t) == t.service = service.tag
           empty   == SelectSeq(aws.tasks[call.token + 1], Mine) = <<>>
           turn    == Turn("tasks", TRUE, TRUE)
           found   == Got("tasks", Mine, IF empty THEN call.fetched ELSE turn.fetched)
       IN  \/ ~empty /\ Fetch(turn)
           \/ /\ IF empty THEN call' = NoCall /\ UNCHANGED aws ELSE Fetched(turn)
              /\ answer' = answer \o [i \in DOMAIN found |-> Summary(found[i], getURLWithPortMapping(service.groups))]
              /\ asked' = [asked EXCEPT !.todo = Tail(@), !.pc = IF Len(asked.todo) = 1 THEN "done" ELSE "service"]

-----------------------------------------------------------------------------
(* Ls: the stacks of Compose projects; those that start are looked into. *)

Status(s) == CASE s = "CREATE_IN_PROGRESS" -> "Starting"
               [] s = "DELETE_IN_PROGRESS" -> "Removing"
               [] s = "UPDATE_IN_PROGRESS" -> "Updating"
               [] OTHER -> "Running"

ListStacks ==
    /\ asked.pc = "ls"
    /\ LET turn  == Turn("stacks", FALSE, TRUE)
           found == Got("stacks", LAMBDA s : s.project, turn.fetched)
       IN  \/ Fetch(turn)
           \/ /\ Fetched(turn)
              /\ answer' = [i \in DOMAIN found |-> [name |-> found[i].name, status |-> Status(found[i].status)]]
              /\ asked' = [asked EXCEPT !.todo = answer', !.pc = "list"]

(* The loop looks into each stack that starts, and keeps nothing of it. *)
List ==
    /\ asked.pc = "list"
    /\ asked' = IF asked.todo = <<>> THEN [asked EXCEPT !.pc = "done"]
                ELSE IF Head(asked.todo).status = "Starting" THEN [asked EXCEPT !.pc = "resources"]
                ELSE [asked EXCEPT !.todo = Tail(@)]
    /\ UNCHANGED <<aws, answer, call>>

NextStack(verdict) == asked' = [asked EXCEPT !.pc = "list", !.todo = Tail(@), !.verdict = Append(@, verdict),
                                                 !.checked = {}, !.service = <<>>]

(* An error while a stack is looked into is the verdict on that stack. *)
StackFails == aws.unreliable /\ NextStack("error") /\ call' = NoCall /\ UNCHANGED <<aws, answer>>

(* checkStackState: the services of the stack, and its cluster if it has one. *)
ListStackResources ==
    /\ asked.pc = "resources"
    /\ LET turn     == Turn("resources", FALSE, TRUE)
           services == Got("resources", LAMBDA r : IsService(r) /\ r.arn # "", turn.fetched)
       IN  \/ GoesOn(turn)
           \/ /\ Fetched(turn)
              /\ IF services = <<>> THEN NextStack("ok")
                 ELSE asked' = [asked EXCEPT !.pc = "definitions", !.services = [i \in DOMAIN services |-> services[i].arn],
                                             !.cluster = Got("resources", IsCluster, turn.fetched) # <<>>]
              /\ UNCHANGED answer
           \/ StackFails

(* The services are asked for by the chunk: of ten in the code. *)
GetServiceTaskDefinition(arns, size) ==
    UNION { {arns[i] : i \in (size * k + 1)..(size * k + size) \cap DOMAIN arns} : k \in 0..((Len(arns) - 1) \div size) }

(* The definitions are asked for first. They come as a map, which is walked in
   any order. Without a cluster of the stack's own that of no name is asked, which
   has none of the services. *)
checkStackState ==
    /\ asked.pc = "definitions"
    /\ LET known == {s \in aws.services : asked.cluster /\ s.arn \in GetServiceTaskDefinition(asked.services, ChunkSize)}
                      \ asked.checked
       IN  \/ known = {} /\ NextStack("ok") /\ UNCHANGED <<aws, answer, call>>
           \/ \E s \in known : /\ asked' = [asked EXCEPT !.pc = "running", !.service = <<s>>, !.checked = @ \cup {s}]
                               /\ UNCHANGED <<aws, answer, call>>
           \/ asked.checked = {} /\ StackFails

(* The tasks of the service in this state, among the ones read. *)
GetServiceTasks(state, fetched) ==
    Got("tasks", LAMBDA t : t.service = asked.service[1].tag /\ t.state = state, fetched)

(* A service with a task that runs is well; else one that stopped tells why. *)
RunningTasks ==
    /\ asked.pc = "running"
    /\ LET turn == Turn("tasks", FALSE, TRUE)
       IN  \/ GoesOn(turn) \/ StackFails
           \/ /\ Fetched(turn) /\ UNCHANGED answer
              /\ Goto(IF GetServiceTasks("Running", turn.fetched) # <<>> THEN "definitions" ELSE "stopped")

checkServiceState ==
    /\ asked.pc = "stopped"
    /\ LET turn    == Turn("tasks", FALSE, TRUE)
           current == SelectSeq(GetServiceTasks("Stopped", turn.fetched), LAMBDA t : t.definition = asked.service[1].definition)
       IN  \/ GoesOn(turn) \/ StackFails
           \/ /\ Fetched(turn) /\ UNCHANGED answer
              /\ IF current = <<>> THEN Goto("definitions") ELSE NextStack("failed")

-----------------------------------------------------------------------------
(* Logs: the events of the group from a time on, twice a second, page by page. *)

(* A line is written now, or was a moment ago and is only stored now. *)
WriteLog ==
    /\ asked.name = "logs"
    /\ Len(aws.log) < MaxLines
    /\ \E late \in BOOLEAN, svc \in {"web", "db"} :
         /\ late => aws.now > 1
         /\ aws' = [aws EXCEPT !.log = Append(@, [service |-> svc, ingested |-> aws.now,
                                                  timestamp |-> IF late THEN aws.now - 1 ELSE aws.now])]
    /\ UNCHANGED <<asked, call, answer>>

Clock ==
    /\ asked.name = "logs"
    /\ aws.now < MaxTime
    /\ aws' = [aws EXCEPT !.now = @ + 1]
    /\ UNCHANGED <<asked, call, answer>>

(* Lines are numbered as they are stored, and listed by their time. *)
Before(i, j) == \/ aws.log[i].timestamp < aws.log[j].timestamp
                \/ aws.log[i].timestamp = aws.log[j].timestamp /\ i < j

(* What is left to list from a time on, after the line the token stands for. *)
FilterLogEvents(start, token) ==
    SetToSortSeq({i \in DOMAIN aws.log : aws.log[i].timestamp >= start /\ (token = 0 \/ Before(token, i))}, Before)

(* Mutant: from just after the last event. *)
Since_After(start) == start + 1

Since(start) == start

allowListLogConsumer(e) == asked.given = {} \/ e.service \in asked.given

(* How often each line was shown; more than twice is twice. *)
Times(i) == IF i \in DOMAIN answer THEN answer[i] ELSE 0
Consumed(page) ==
    [i \in DOMAIN aws.log |->
       IF Contains(page, i) /\ allowListLogConsumer(aws.log[i]) /\ Times(i) < 2 THEN Times(i) + 1 ELSE Times(i)]

(* One page. The start time, of the next page too, is when the last line seen,
   shown or not, was stored. *)
GetLogs ==
    /\ asked.pc = "logs"
    /\ \/ LET rest == FilterLogEvents(Since(asked.start), call.token)
              page == SubSeq(rest, 1, IF Len(rest) < LogPage THEN Len(rest) ELSE LogPage)
          IN  /\ answer' = Consumed(page)
              /\ call' = [call EXCEPT !.token = IF Len(rest) > LogPage THEN Last(page) ELSE 0]
              /\ asked' = [asked EXCEPT !.start = IF page = <<>> THEN @ ELSE aws.log[Last(page)].ingested]
       \/ aws.unreliable /\ Fail
    /\ UNCHANGED aws

(* The context is looked at between two rounds. *)
LogsCancelled ==
    /\ asked.pc = "logs" /\ call.token = 0
    /\ Goto("done")
    /\ UNCHANGED <<aws, call, answer>>

-----------------------------------------------------------------------------
(* Secrets and volumes: one call each, on what the account holds. *)

(* Of several labels, one is kept: each replaces the tags made so far. *)
CreateSecret ==
    /\ asked.pc = "CreateSecret"
    /\ \/ \E tags \in {{l} : l \in asked.given} \cup (IF asked.given = {} THEN {{}} ELSE {}) :
            /\ aws' = [aws EXCEPT !.secrets[1] = Append(@, [name |-> "new", tags |-> tags])]
            /\ Goto("InspectSecret") /\ UNCHANGED answer
       \/ aws.unreliable /\ Goto("failed") /\ UNCHANGED <<aws, answer>>
    /\ UNCHANGED call

InspectSecret ==
    /\ asked.pc = "InspectSecret"
    /\ LET found == SelectSeq(aws.secrets[1], LAMBDA s : s.name = "new")
       IN  IF found = <<>> THEN Goto("failed") /\ UNCHANGED answer
           ELSE answer' = <<Last(found).tags>> /\ Goto("DeleteSecret")
    /\ UNCHANGED <<aws, call>>

DeleteSecret ==
    /\ asked.pc = "DeleteSecret"
    /\ aws' = [aws EXCEPT !.secrets[1] = SelectSeq(@, LAMBDA s : s.name # "new")]
    /\ Goto("done")
    /\ UNCHANGED <<answer, call>>

(* A throughput of one or less is not sent. *)
CreateFileSystem(throughput) == [tags |-> {"Name"}, throughput |-> IF throughput > 1 THEN throughput ELSE 0]
ResolveFileSystem == SelectSeq(aws.filesystems[1], LAMBDA v : v.tags = {"Name"})

(* A failure is a nil dereference. *)
CreateVolume ==
    /\ asked.pc = "CreateVolume"
    /\ \/ /\ aws' = [aws EXCEPT !.filesystems[1] = Append(@, CreateFileSystem(asked.given))]
          /\ Goto("InspectVolume")
       \/ aws.unreliable /\ Goto("panic") /\ UNCHANGED aws
    /\ UNCHANGED <<answer, call>>

InspectVolume ==
    /\ asked.pc = "InspectVolume"
    /\ \/ ResolveFileSystem # <<>> /\ Goto("DeleteVolume")
       \/ (ResolveFileSystem = <<>> \/ aws.unreliable) /\ Goto("panic")
    /\ UNCHANGED <<aws, answer, call>>

DeleteVolume ==
    /\ asked.pc = "DeleteVolume"
    /\ aws' = [aws EXCEPT !.filesystems[1] = SelectSeq(@, LAMBDA v : v.tags # {"Name"})]
    /\ Goto("done")
    /\ UNCHANGED <<answer, call>>

-----------------------------------------------------------------------------
(* A command with the name of its first program counter. *)
Question(name, pc, given) ==
    [name |-> name, pc |-> pc, given |-> given, todo |-> <<>>, services |-> <<>>, checked |-> {}, service |-> <<>>,
     cluster |-> FALSE, verdict |-> <<>>, start |-> 0]

QueriesInit ==
    /\ \E q \in Questions : aws = q[1] /\ asked = q[2]
    /\ call = NoCall
    /\ answer = <<>>

QueriesIdle ==
    /\ aws = (CHOOSE r \in Questions : TRUE)[1]
    /\ asked = Question("none", "done", {}) /\ call = NoCall /\ answer = <<>>

Ps == GetStackClusterID \/ ListStackServices \/ DescribeService \/ DescribeServiceTasks

QuerySteps ==
    \/ GetSubNets
    \/ ListSecrets
    \/ ListTasks
    \/ GetPublicIPs
    \/ DescribeStackEvents
    \/ ListFileSystems
    \/ Ps
    \/ ListStacks
    \/ List
    \/ ListStackResources
    \/ checkStackState
    \/ RunningTasks
    \/ checkServiceState
    \/ GetLogs
    \/ CreateSecret
    \/ InspectSecret
    \/ DeleteSecret
    \/ CreateVolume
    \/ InspectVolume
    \/ DeleteVolume

QueriesNext == QuerySteps \/ WriteLog \/ Clock \/ LogsCancelled

(* A command goes on; nobody has to write a line or to cancel. *)
QueriesFairness == WF_queryVars(QuerySteps)
QueriesSpec == QueriesInit /\ [][QueriesNext]_queryVars /\ QueriesFairness

-----------------------------------------------------------------------------
(* Properties. *)

Listings == [GetSubNets |-> "subnets", ListSecrets |-> "secrets", DescribeStackEvents |-> "events",
             ListTasks |-> "tasks", GetPublicIPs |-> "interfaces", ListFileSystems |-> "filesystems", ls |-> "stacks"]
Whole == {"GetSubNets", "ListSecrets", "DescribeStackEvents"}

(***************************************************************************)
(* A listing that ends has read every page, each once, whichever way it    *)
(* ends: what it returns is what the account holds, in its order. Of more  *)
(* than one page only that of the events of a stack ends: the others       *)
(* compare their tokens as pointers, and read pages again for ever         *)
(* (ListStacks and the like in sdk.go).                                    *)
(***************************************************************************)
ListedOnce ==
    asked.name \in DOMAIN Listings =>
        LET pages == aws[Listings[asked.name]]
        IN  IF Len(pages) = 1 \/ asked.name = "DescribeStackEvents"
            THEN /\ asked.pc = asked.name => Len(call.fetched) < Len(pages)
                 /\ asked.pc = "done" /\ asked.name \in Whole => answer = FlattenSeq(pages)
            ELSE asked.pc \in {asked.name, "failed"}

(***************************************************************************)
(* Ps lists every task of every service the stack has, once, each with the *)
(* ports of its own service, though the services come in several pages.    *)
(***************************************************************************)
PsComplete ==
    asked.name = "ps" /\ asked.pc = "done" /\ Len(aws.tasks) = 1
      => \A r \in Range(FlattenSeq(aws.resources)) :
           IsService(r) /\ r.arn # ""
             => LET s == Service(r.arn)
                IN  SelectSeq(answer, LAMBDA t : t.service = s.tag)
                      = LET mine == SelectSeq(aws.tasks[1], LAMBDA t : t.service = s.tag)
                        IN  [i \in DOMAIN mine |-> Summary(mine[i], getURLWithPortMapping(s.groups))]

Failing(arn) == \E s \in aws.services, t \in Range(FlattenSeq(aws.tasks)) :
                  /\ s.arn = arn /\ t.service = s.tag /\ t.state = "Stopped" /\ t.definition = s.definition
                  /\ \A u \in Range(FlattenSeq(aws.tasks)) : ~(u.service = s.tag /\ u.state = "Running")

(***************************************************************************)
(* checkStackState, which up asks as well as ls, finds that a stack has    *)
(* failed exactly when it has a cluster of its own and one of its services,*)
(* in whatever chunk it is asked for, has stopped tasks of its definition  *)
(* and none that runs. In a cluster of the user's own nothing is found.    *)
(***************************************************************************)
VerdictRight ==
    asked.verdict # <<>> /\ Last(asked.verdict) # "error"
      => (Last(asked.verdict) = "failed")
           <=> /\ \E r \in Range(FlattenSeq(aws.resources)) : IsCluster(r)
               /\ \E r \in Range(FlattenSeq(aws.resources)) : IsService(r) /\ Failing(r.arn)

(***************************************************************************)
(* Ls shows every stack of a project with the status CloudFormation gives  *)
(* it. A stack found to have failed is shown as starting all the same: the *)
(* loop of List changes its own copy.                                      *)
(***************************************************************************)
StacksShown ==
    asked.name = "ls" /\ asked.pc = "done" =>
        LET mine == SelectSeq(aws.stacks[1], LAMBDA s : s.project)
        IN  answer = [i \in DOMAIN mine |-> [name |-> mine[i].name, status |-> Status(mine[i].status)]]

(* A line is overtaken if one stored after its time is listed before it, and a
   page ends between the two. *)
Overtaken(i) ==
    /\ Len(aws.log) > LogPage
    /\ \E j \in DOMAIN aws.log : j # i /\ Before(j, i) /\ aws.log[j].ingested > aws.log[i].timestamp

(***************************************************************************)
(* Following the log misses no line, on time or late, that is stored       *)
(* before GetLogs has seen one stored after its time, however lines, polls *)
(* and pages interleave; unless it is overtaken. A line that comes later   *)
(* than that is lost.                                                      *)
(***************************************************************************)
LinesFollowed ==
    \A i \in 1..MaxLines :
        /\ asked.name = "logs" /\ Len(aws.log) >= i
        /\ asked.start <= aws.log[i].timestamp /\ allowListLogConsumer(aws.log[i])
        ~> asked.pc # "logs" \/ Times(i) > 0 \/ (Len(aws.log) >= i /\ Overtaken(i))

(***************************************************************************)
(* A listing that ends is whole, each page read once, and so is what ps,   *)
(* ls and the check of a stack make of several listings.                   *)
(***************************************************************************)
AnswersRight == ListedOnce /\ PsComplete /\ VerdictRight /\ StacksShown
=============================================================================
