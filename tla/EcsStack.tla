------------------------------ MODULE EcsStack ------------------------------
(***************************************************************************)
(* Compose up and down on ECS: an up command, interrupted or not, and a    *)
(* down command in another terminal, on one CloudFormation stack. A stack  *)
(* is known by its name while it exists, and by its id for ever: stack 1   *)
(* is there from an earlier deployment or not, up creates stack 2. Thread  *)
(* "int" is the one up starts to handle a signal.                          *)
(***************************************************************************)
EXTENDS Naturals, Sequences, FiniteSets

CONSTANTS Scenarios    \* what was deployed before, what the commands are given, whether AWS may
                       \* fail, and whether the user may interrupt up

(* The statuses of a stack and of its resources. *)
StackStatus == {"none"} \cup {"CREATE_IN_PROGRESS", "CREATE_COMPLETE", "CREATE_FAILED"}
                   \cup {"UPDATE_IN_PROGRESS", "UPDATE_COMPLETE", "UPDATE_FAILED"}
                   \cup {"DELETE_IN_PROGRESS", "DELETE_COMPLETE", "DELETE_FAILED"}

ASSUME ScenariosAssumption ==
    \A s \in Scenarios : /\ s.earlier \in Seq(StackStatus)
                         /\ {s.capacity, s.large, s.detach, s.other, s.failures} \subseteq BOOLEAN
                         /\ {s.paged, s.ownCluster, s.interrupted} \subseteq BOOLEAN

VARIABLES current,     \* the id of the stack that has, or had last, the name
          status,      \* per id
          events,      \* per id: the statuses of its events, oldest first
          tasks,       \* the tasks of the stack's service
          capacity,    \* has the stack machines that down removes first?
          shape,       \* are its resources listed in pages, is its cluster the user's own, may
                       \* the user press a key?
          bucket,      \* the S3 bucket for a large template
          signal,      \* who has still to see the signal
          live,        \* is the context of the up command not cancelled?
          failures,    \* may AWS calls fail?
          proc         \* up, its signal handler, and down

stackVars == <<current, status, events, tasks, capacity, shape, bucket, signal, live, failures, proc>>

Proc == {"up", "int", "down"}
Ended == {"off", "done", "failed"}
Place == {"start", "exists", "bucket", "upload", "call", "execute"} \cup {"list", "capacity", "previous", "delete"}
           \cup {"wait", "loop", "check"} \cup Ended
Settled == {"CREATE_COMPLETE", "UPDATE_COMPLETE"}
Gone == {"none", "DELETE_COMPLETE"}

Exists == status[current] \notin Gone

(* A call with the context fails once it is cancelled, or because AWS does. *)
CanCall(p) == p = "down" \/ live
MayFail(p) == ~CanCall(p) \/ failures

Step(p, pc) == proc' = [proc EXCEPT ![p].pc = pc]
Idle(p) == proc[p].pc \in Ended

(* When up returns its process ends, and the thread with it. *)
Stopped(r, pc) == [r EXCEPT !.pc = pc, !.waiter = "off"]
Return(p, pc) ==
    proc' = [q \in Proc |-> CASE q = p                  -> Stopped(proc[q], pc)
                              [] q = "int" /\ p = "up"  -> Stopped(proc[q], IF proc[q].pc = "off" THEN "off" ELSE "failed")
                              [] OTHER                  -> proc[q]]

Enter(id, s) == /\ status' = [status EXCEPT ![id] = s]
                /\ events' = [events EXCEPT ![id] = Append(@, s)]

-----------------------------------------------------------------------------
(* Up: the requirements, the template, the stack. *)

CheckRequirements ==
    /\ proc["up"].pc = "start"
    /\ \/ CanCall("up") /\ Step("up", "exists")
       \/ MayFail("up") /\ Return("up", "failed")
    /\ UNCHANGED <<current, status, events, tasks, capacity, shape, bucket, signal, live, failures>>

(* A failed call counts as a stack that does not exist. *)
StackExists ==
    /\ proc["up"].pc = "exists"
    /\ \E found \in (IF CanCall("up") THEN {Exists} ELSE {}) \cup (IF MayFail("up") THEN {FALSE} ELSE {}) :
         proc' = [proc EXCEPT !["up"].operation = IF found THEN "update" ELSE "create",
                              !["up"].pc = IF proc["up"].large THEN "bucket" ELSE "call"]
    /\ UNCHANGED <<current, status, events, tasks, capacity, shape, bucket, signal, live, failures>>

(* withTemplate: a template that is too large goes through S3. *)
CreateBucket ==
    /\ proc["up"].pc = "bucket"
    /\ \/ bucket' = "empty" /\ Step("up", "upload")
       \/ failures /\ Return("up", "failed") /\ UNCHANGED bucket
    /\ UNCHANGED <<current, status, events, tasks, capacity, shape, signal, live, failures>>

Upload ==
    /\ proc["up"].pc = "upload"
    /\ \/ CanCall("up") /\ bucket' = "full" /\ Step("up", "call")
       \/ MayFail("up") /\ Return("up", "failed") /\ UNCHANGED bucket
    /\ UNCHANGED <<current, status, events, tasks, capacity, shape, signal, live, failures>>

(* The deferred removal, whatever the call returned; its errors are logged. *)
AfterCall(ok) == IF bucket # "full" THEN {bucket}
                 ELSE (IF CanCall("up") THEN {"none"} ELSE {}) \cup (IF MayFail("up") THEN {"full"} ELSE {})

(* A stack that cannot be created is deleted (OnFailure). *)
CreateStack ==
    /\ proc["up"].pc = "call"
    /\ proc["up"].operation = "create"
    /\ \/ /\ CanCall("up") /\ ~Exists
          /\ current' = 2
          /\ Enter(2, "CREATE_IN_PROGRESS")
          /\ bucket' \in AfterCall(TRUE)
          /\ IF proc["up"].detach THEN Return("up", "done") ELSE Step("up", "wait")
       \/ /\ MayFail("up") \/ Exists
          /\ bucket' \in AfterCall(FALSE)
          /\ Return("up", "failed")
          /\ UNCHANGED <<current, status, events>>
    /\ UNCHANGED <<tasks, capacity, shape, signal, live, failures>>

(***************************************************************************)
(* The change set is refused when the stack is being changed, and has the  *)
(* status FAILED when nothing would change, which is an error too.         *)
(***************************************************************************)
CreateChangeSet ==
    /\ proc["up"].pc = "call"
    /\ proc["up"].operation = "update"
    /\ \/ /\ CanCall("up") /\ status[current] \in Settled
          /\ bucket' \in AfterCall(TRUE)
          /\ Step("up", "execute") \/ Return("up", "failed")
       \/ /\ MayFail("up") \/ status[current] \notin Settled
          /\ bucket' \in AfterCall(FALSE)
          /\ Return("up", "failed")
    /\ UNCHANGED <<current, status, events, tasks, capacity, shape, signal, live, failures>>

UpdateStack ==
    /\ proc["up"].pc = "execute"
    /\ \/ /\ CanCall("up") /\ status[current] \in Settled
          /\ Enter(current, "UPDATE_IN_PROGRESS")
          /\ IF proc["up"].detach THEN Return("up", "done") ELSE Step("up", "wait")
       \/ /\ MayFail("up") \/ status[current] \notin Settled
          /\ Return("up", "failed")
          /\ UNCHANGED <<status, events>>
    /\ UNCHANGED <<current, tasks, capacity, shape, bucket, signal, live, failures>>

-----------------------------------------------------------------------------
(* Down: the machines, the events so far, the stack. *)

BeginDown(p) == proc' = [proc EXCEPT ![p].pc = "list", ![p].operation = "delete"]

(***************************************************************************)
(* ListStackResources compares the token of a page with that of the next,  *)
(* as pointers, and never sends one: a second page ends it only when a     *)
(* call fails. Until then it gets the first page again, which changes      *)
(* nothing.                                                                *)
(***************************************************************************)
Listed(p) == CanCall(p) /\ ~shape.paged

FindCapacity(p) ==
    /\ proc[p].pc = "list"
    /\ \/ Listed(p) /\ Exists /\ Step(p, IF capacity THEN "capacity" ELSE "previous")
       \/ (MayFail(p) \/ ~Exists) /\ Return(p, "failed")
    /\ UNCHANGED <<current, status, events, tasks, capacity, shape, bucket, signal, live, failures>>

(* Capacity provider and autoscaling group; these calls take no context. *)
DeleteCapacity(p) ==
    /\ proc[p].pc = "capacity"
    /\ \/ capacity' = FALSE /\ Step(p, "previous")
       \/ failures /\ Return(p, "failed") /\ UNCHANGED capacity
    /\ UNCHANGED <<current, status, events, tasks, shape, bucket, signal, live, failures>>

previousStackEvents(p) ==
    /\ proc[p].pc = "previous"
    /\ \/ /\ CanCall(p) /\ Exists
          /\ proc' = [proc EXCEPT ![p].pc = "delete", ![p].known[current] = Len(events[current])]
       \/ (MayFail(p) \/ ~Exists) /\ Return(p, "failed")
    /\ UNCHANGED <<current, status, events, tasks, capacity, shape, bucket, signal, live, failures>>

(* Deleting a stack that is gone, or being deleted, does nothing. *)
Delete == IF Exists /\ status[current] # "DELETE_IN_PROGRESS" THEN Enter(current, "DELETE_IN_PROGRESS")
          ELSE UNCHANGED <<status, events>>

DeleteStack(p) ==
    /\ proc[p].pc = "delete"
    /\ \/ CanCall(p) /\ Delete /\ Step(p, "wait")
       \/ MayFail(p) /\ Return(p, "failed") /\ UNCHANGED <<status, events>>
    /\ UNCHANGED <<current, tasks, capacity, shape, bucket, signal, live, failures>>

-----------------------------------------------------------------------------
(* WaitStackCompletion: a waiter in the background, the events meanwhile. *)

GetStackID(p) ==
    /\ proc[p].pc = "wait"
    /\ \/ /\ CanCall(p) /\ Exists
          /\ proc' = [proc EXCEPT ![p].pc = "loop", ![p].id = current, ![p].waiter = proc[p].operation]
       \/ (MayFail(p) \/ ~Exists) /\ Return(p, "failed")
    /\ UNCHANGED <<current, status, events, tasks, capacity, shape, bucket, signal, live, failures>>

(* Mutant: only a wait that succeeds is signalled. *)
WaitStackComplete_OnSuccess(p) ==
    /\ proc[p].waiter \in {"create", "update", "delete"}
    /\ \/ proc[p].waiter = "create" /\ status[proc[p].id] = "CREATE_COMPLETE"
       \/ proc[p].waiter = "delete" /\ status[proc[p].id] = "DELETE_COMPLETE"
    /\ proc' = [proc EXCEPT ![p].waiter = "done"]
    /\ UNCHANGED <<current, status, events, tasks, capacity, shape, bucket, signal, live, failures>>

(***************************************************************************)
(* The waiter of the SDK: it polls until the stack is complete or cannot   *)
(* be any more. It gives up after 120 polls, which is as good as done. For *)
(* an update there is none, and the wait is over at once.                  *)
(***************************************************************************)
WaitStackComplete(p) ==
    /\ proc[p].waiter \in {"create", "update", "delete"}
    /\ \/ /\ \/ proc[p].waiter = "update"
             \/ ~CanCall(p)
             \/ proc[p].waiter = "create" /\ status[proc[p].id] \in {"CREATE_COMPLETE", "DELETE_COMPLETE", "DELETE_FAILED"}
             \/ proc[p].waiter = "delete" /\ status[proc[p].id] \in {"DELETE_COMPLETE", "DELETE_FAILED"}
          /\ proc' = [proc EXCEPT ![p].waiter = "done"]
       \/ proc' = [proc EXCEPT ![p].waiter = "done", ![p].gaveUp = TRUE]
    /\ UNCHANGED <<current, status, events, tasks, capacity, shape, bucket, signal, live, failures>>

New(p) == LET id == proc[p].id IN SubSeq(events[id], proc[p].known[id] + 1, Len(events[id]))
Failed(s) == s \in {"CREATE_FAILED", "UPDATE_FAILED", "DELETE_FAILED"}

(* Mutant: the loop ends as soon as the waiter does. *)
CollectEvents_Early(p) ==
    /\ proc[p].pc = "loop"
    /\ IF proc[p].waiter = "done" THEN Return(p, "done")
       ELSE proc' = [proc EXCEPT ![p].known[proc[p].id] = Len(events[proc[p].id]), ![p].pc = "check",
                                 ![p].failed = @ \/ \E i \in DOMAIN New(p) : Failed(New(p)[i])]
    /\ UNCHANGED <<current, status, events, tasks, capacity, shape, bucket, signal, live, failures>>

(***************************************************************************)
(* One round: at a tick, or when the waiter is done (a tick with nothing   *)
(* to see is left out, as it changes nothing). Events that are new are     *)
(* shown; the first failure is the result, and the stack is being deleted  *)
(* from then on.                                                           *)
(***************************************************************************)
CollectEvents(p) ==
    /\ proc[p].pc = "loop"
    /\ \/ /\ CanCall(p)
          /\ New(p) # <<>> \/ proc[p].waiter = "done" \/ (proc[p].operation = "create" /\ tasks = "stopped")
          /\ LET failed == \E i \in DOMAIN New(p) : Failed(New(p)[i])
             IN  proc' = [proc EXCEPT ![p].known[proc[p].id] = Len(events[proc[p].id]),
                                      ![p].failed = @ \/ failed,
                                      ![p].operation = IF failed THEN "delete" ELSE @,
                                      ![p].completed = proc[p].waiter = "done",
                                      ![p].pc = "check"]
       \/ MayFail(p) /\ Return(p, "failed")
    /\ UNCHANGED <<current, status, events, tasks, capacity, shape, bucket, signal, live, failures>>

Again(p) == IF ~proc[p].completed THEN Step(p, "loop")
            ELSE Return(p, IF proc[p].failed THEN "failed" ELSE "done")

(***************************************************************************)
(* A service with no task that runs and one, of its current definition,    *)
(* that has stopped will never be stable: the stack is deleted. The        *)
(* services are looked for in the cluster of the stack; of a stack in a    *)
(* cluster of the user's own none is found.                                *)
(***************************************************************************)
Unstable == tasks = "stopped" /\ ~shape.ownCluster

DeleteUnstable(p) ==
    /\ proc[p].pc = "check"
    /\ IF proc[p].operation # "create" \/ proc[p].failed
         THEN Again(p) /\ UNCHANGED <<status, events>>
       ELSE \/ Listed(p) /\ ~Unstable /\ Again(p) /\ UNCHANGED <<status, events>>
            \/ /\ (Listed(p) /\ Unstable) \/ (CanCall(p) /\ failures)
               /\ Delete
               /\ IF proc[p].completed THEN Return(p, "failed")
                  ELSE proc' = [proc EXCEPT ![p].failed = TRUE, ![p].operation = "delete", ![p].pc = "loop"]
            \/ MayFail(p) /\ Return(p, "failed") /\ UNCHANGED <<status, events>>
    /\ UNCHANGED <<current, tasks, capacity, shape, bucket, signal, live, failures>>

-----------------------------------------------------------------------------
(* Signals. The process has two handlers: main's cancels the context, and *)
(* the one of up, once it waits, deletes the stack.                       *)

Interrupt ==
    /\ shape.interrupted /\ signal = {}
    /\ live
    /\ ~Idle("up")
    /\ signal' = {"main"} \cup (IF proc["up"].pc \in {"wait", "loop", "check"} THEN {"up"} ELSE {})
    /\ UNCHANGED <<current, status, events, tasks, capacity, shape, bucket, live, failures, proc>>

CancelContext ==
    /\ "main" \in signal
    /\ ~Idle("up")
    /\ live' = FALSE
    /\ signal' = signal \ {"main"}
    /\ UNCHANGED <<current, status, events, tasks, capacity, shape, bucket, failures, proc>>

HandleSignal ==
    /\ "up" \in signal
    /\ ~Idle("up")
    /\ proc["int"].pc = "off"
    /\ BeginDown("int")
    /\ signal' = signal \ {"up"}
    /\ UNCHANGED <<current, status, events, tasks, capacity, shape, bucket, live, failures>>

DownStarts ==
    /\ proc["down"].pc = "start"
    /\ BeginDown("down")
    /\ UNCHANGED <<current, status, events, tasks, capacity, shape, bucket, signal, live, failures>>

-----------------------------------------------------------------------------
(* AWS. *)

CreationEnds(id) ==
    /\ status[id] = "CREATE_IN_PROGRESS"
    /\ tasks # "stopped"      \* such a service is never stable
    /\ \/ Enter(id, "CREATE_COMPLETE")
       \/ /\ status' = [status EXCEPT ![id] = "DELETE_IN_PROGRESS"]
          /\ events' = [events EXCEPT ![id] = @ \o <<"CREATE_FAILED", "DELETE_IN_PROGRESS">>]
    /\ UNCHANGED <<current, tasks, capacity, shape, bucket, signal, live, failures, proc>>

UpdateEnds(id) ==
    /\ status[id] = "UPDATE_IN_PROGRESS"
    /\ \/ Enter(id, "UPDATE_COMPLETE")
       \/ /\ status' = [status EXCEPT ![id] = "UPDATE_COMPLETE"]     \* rolled back
          /\ events' = [events EXCEPT ![id] = @ \o <<"UPDATE_FAILED", "UPDATE_COMPLETE">>]
    /\ UNCHANGED <<current, tasks, capacity, shape, bucket, signal, live, failures, proc>>

DeletionEnds(id) ==
    /\ status[id] = "DELETE_IN_PROGRESS"
    /\ Enter(id, "DELETE_COMPLETE") \/ (failures /\ Enter(id, "DELETE_FAILED"))
    /\ tasks' = "none"
    /\ UNCHANGED <<current, capacity, shape, bucket, signal, live, failures, proc>>

(* The tasks of the stack being created start, and may stop. *)
TaskChanges ==
    /\ status[2] = "CREATE_IN_PROGRESS"
    /\ \/ tasks = "none" /\ tasks' = "running"
       \/ tasks = "running" /\ tasks' = "stopped"
    /\ UNCHANGED <<current, status, events, capacity, shape, bucket, signal, live, failures, proc>>

-----------------------------------------------------------------------------
Process == [pc : Place, large : BOOLEAN, detach : BOOLEAN, operation : {"none", "create", "update", "delete"},
            waiter : {"off", "create", "update", "delete", "done"}, known : [1..2 -> Nat], id : 1..2,
            failed : BOOLEAN, completed : BOOLEAN, gaveUp : BOOLEAN]

NewProcess(pc, large, detach) ==
    [pc |-> pc, large |-> large, detach |-> detach, operation |-> "none", waiter |-> "off", known |-> [i \in 1..2 |-> 0],
     id |-> 1, failed |-> FALSE, completed |-> FALSE, gaveUp |-> FALSE]

(* An earlier deployment was created, and perhaps failed to be updated. *)
StackInit ==
    /\ current = 1
    /\ tasks = "none"
    /\ bucket = "none"
    /\ signal = {}
    /\ live = TRUE
    /\ \E s \in Scenarios :
         /\ status = [i \in 1..2 |-> IF i = 1 /\ s.earlier # <<>> THEN "CREATE_COMPLETE" ELSE "none"]
         /\ events = [i \in 1..2 |-> IF i = 1 THEN s.earlier ELSE <<>>]
         /\ capacity = s.capacity
         /\ shape = [paged |-> s.paged, ownCluster |-> s.ownCluster, interrupted |-> s.interrupted]
         /\ failures = s.failures
         /\ proc = [p \in Proc |-> CASE p = "up"   -> NewProcess("start", s.large, s.detach)
                                      [] p = "int"  -> NewProcess("off", FALSE, FALSE)
                                      [] p = "down" -> NewProcess(IF s.other THEN "start" ELSE "off", FALSE, FALSE)]

StackIdle ==
    /\ current = 1 /\ tasks = "none" /\ bucket = "none" /\ signal = {} /\ live = TRUE
    /\ status = [i \in 1..2 |-> "none"] /\ events = [i \in 1..2 |-> <<>>] /\ capacity = FALSE /\ failures = FALSE
    /\ shape = [paged |-> FALSE, ownCluster |-> FALSE, interrupted |-> FALSE]
    /\ proc = [p \in Proc |-> NewProcess("off", FALSE, FALSE)]

Up == \/ CheckRequirements
      \/ StackExists
      \/ CreateBucket
      \/ Upload
      \/ CreateStack
      \/ CreateChangeSet
      \/ UpdateStack

DownStack(p) == FindCapacity(p) \/ DeleteCapacity(p) \/ previousStackEvents(p) \/ DeleteStack(p)

WaitStackCompletion(p) == GetStackID(p) \/ CollectEvents(p) \/ DeleteUnstable(p)

Aws == \E id \in 1..2 : CreationEnds(id) \/ UpdateEnds(id) \/ DeletionEnds(id)

StackNext == \/ Up \/ CancelContext \/ HandleSignal \/ DownStarts \/ Interrupt
             \/ \E p \in Proc : DownStack(p) \/ WaitStackCompletion(p) \/ WaitStackComplete(p)
             \/ Aws \/ TaskChanges

(***************************************************************************)
(* Programs and AWS go on; a waiter that is not done gives up in the end.  *)
(* Nobody has to press a key, and no task has to change.                   *)
(***************************************************************************)
StackFairness ==
    /\ WF_stackVars(Aws) /\ WF_stackVars(CancelContext) /\ WF_stackVars(HandleSignal)
    /\ WF_stackVars(Up \/ DownStarts)
    /\ \A p \in Proc : WF_stackVars(DownStack(p) \/ WaitStackCompletion(p)) /\ WF_stackVars(WaitStackComplete(p))

StackSpec == StackInit /\ [][StackNext]_stackVars /\ StackFairness

-----------------------------------------------------------------------------
(* Properties. *)

(***************************************************************************)
(* Up that waited for a creation and ends without an error leaves a stack  *)
(* that was created, whatever order the waiter, the ticks and the events   *)
(* came in: the events are read once more after the waiter is done. Except *)
(* when the waiter gave up, or somebody deleted the stack meanwhile.       *)
(***************************************************************************)
SuccessIsCreated ==
    proc["up"].pc = "done" /\ proc["up"].operation = "create" /\ ~proc["up"].detach /\ ~proc["up"].gaveUp
      => \/ \E i \in DOMAIN events[2] : events[2][i] = "CREATE_COMPLETE"
         \/ proc["down"].operation = "delete" \/ proc["int"].operation = "delete"

(* Down that ends without an error leaves no stack, unless the waiter gave up. *)
SuccessIsDeleted ==
    proc["down"].pc = "done" /\ ~proc["down"].gaveUp => status[proc["down"].id] = "DELETE_COMPLETE"

(***************************************************************************)
(* A bucket that was filled is removed whether the call that reads it      *)
(* succeeds or not; it stays when AWS refuses, or the context is cancelled.*)
(***************************************************************************)
BucketRemoved == Idle("up") /\ bucket # "none" => failures \/ ~live

(***************************************************************************)
(* Up and down end, even when the other one, or a signal, gets in between; *)
(* unless they list, in Down or in checkStackState, the resources of a     *)
(* stack with more than a page of them.                                    *)
(***************************************************************************)
CommandsFinish ==
    <>[](\A p \in {"up", "down"} : Idle(p) \/ (shape.paged /\ proc[p].pc \in {"list", "check"}))

(***************************************************************************)
(* A stack whose tasks stop while up waits for it is not left half created:*)
(* up deletes it, even when its waiter gives up just then, unless up is    *)
(* interrupted or AWS fails, the listing of its resources does not end, or *)
(* it runs in a cluster of the user's own: then the stopped tasks are not  *)
(* seen, and up waits as long as the waiter does.                          *)
(***************************************************************************)
NothingHalfCreated ==
    tasks = "stopped" /\ proc["up"].pc = "loop" /\ proc["up"].operation = "create" /\ ~failures
      ~> status[2] # "CREATE_IN_PROGRESS" \/ ~live \/ shape.paged \/ shape.ownCluster

(***************************************************************************)
(* An up or a down that ends without an error tells the state of the       *)
(* stack, and leaves no bucket behind, in whatever order the waiter, the   *)
(* ticks, the events and a signal come (WaitStackCompletion).              *)
(***************************************************************************)
StackResult == SuccessIsCreated /\ SuccessIsDeleted /\ BucketRemoved

(***************************************************************************)
(* Up and down end whatever gets in between, if the resources of the stack *)
(* fit in a page, and a stack of our own cluster whose tasks do not start  *)
(* is taken back (WaitStackCompletion, checkStackState).                   *)
(***************************************************************************)
StackSettles == CommandsFinish /\ NothingHalfCreated
=============================================================================
