----------------------------- MODULE Ecs_proofs -----------------------------
(***************************************************************************)
(* What up and down on ECS report is so (EcsStack): for every earlier      *)
(* deployment, and whatever order the waiter, the ticks, the events, the   *)
(* other command and a signal come in. What the creation of a context      *)
(* saves is what a session uses (EcsContext), and the local simulation and *)
(* the side-car of the secrets do what they promise (EcsLocal).            *)
(***************************************************************************)
EXTENDS EcsStack, EcsContext, EcsLocal, TLAPS, SequenceTheorems, FiniteSetTheorems

(* Where up is: before it changed anything or knows whether to, and while it waits. *)
Before == {"start", "exists", "bucket", "upload", "call"}
Undecided == {"start", "exists"}
Waiting == {"wait", "loop", "check"}
UpPlaces == Before \cup {"execute"} \cup Waiting \cup Ended
DownPlaces == {"start", "list", "capacity", "previous", "delete"} \cup Waiting \cup Ended

StacksType == status \in [1..2 -> StackStatus] /\ events \in [1..2 -> Seq(StackStatus)]
StackType ==
    /\ current \in 1..2
    /\ StacksType
    /\ live \in BOOLEAN /\ failures \in BOOLEAN
    /\ proc \in [Proc -> Process]

(* Each process does its own command; that of a down or an interrupt deletes. *)
Roles ==
    /\ proc["up"].pc \in UpPlaces
    /\ \A p \in {"int", "down"} : /\ proc[p].pc \in DownPlaces
                                  /\ proc[p].pc \in {"off", "start"} \/ proc[p].operation = "delete"
    /\ proc["int"].pc # "start"
    /\ proc["down"].waiter \in {"off", "delete", "done"}
    /\ proc["up"].pc = "execute" => proc["up"].operation = "update"
    /\ proc["up"].operation # "none" \/ proc["up"].pc \in Undecided \cup Ended

(* The second stack is there once up has created it, and nobody knows of it before. *)
Ids ==
    /\ proc["up"].pc \in Before => current = 1 /\ proc["up"].known[2] = 0 /\ ~proc["up"].failed
    /\ current = 1 => status[2] = "none" /\ proc["down"].id = 1
    /\ \A p \in Proc, i \in 1..2 : proc[p].known[i] <= Len(events[i])

Happened(id, s) == \E i \in DOMAIN events[id] : events[id][i] = s
Unseen(p, id, s) == \E i \in DOMAIN events[id] : proc[p].known[id] < i /\ events[id][i] = s
DeletedByOther == proc["down"].operation = "delete" \/ proc["int"].operation = "delete"

(***************************************************************************)
(* While up waits for the creation: its creation is under way, or its end  *)
(* is in the events, or somebody deletes the stack; and it has seen no     *)
(* failure yet, or it would not wait for a creation any more.              *)
(***************************************************************************)
Creating == proc["up"].operation = "create" /\ proc["up"].pc \in Waiting
Over == DeletedByOther \/ Happened(2, "CREATE_COMPLETE") \/ Unseen("up", 2, "CREATE_FAILED")
CreationIds == Creating => /\ current = 2
                           /\ ~proc["up"].failed
                           /\ proc["up"].pc # "wait" => proc["up"].id = 2 /\ proc["up"].waiter \in {"create", "done"}
CreationKnown == Creating => status[2] = "CREATE_IN_PROGRESS" \/ Over
WaiterTells == Creating /\ proc["up"].pc # "wait" /\ proc["up"].waiter = "done" /\ live /\ ~proc["up"].gaveUp => Over
CheckTells == Creating /\ proc["up"].pc = "check" /\ proc["up"].completed /\ ~proc["up"].gaveUp
                => DeletedByOther \/ Happened(2, "CREATE_COMPLETE")

(***************************************************************************)
(* While down waits: a deletion that failed is among the events it has not *)
(* seen, or it has seen a failure.                                         *)
(***************************************************************************)
Told(id) == proc["down"].failed \/ Unseen("down", id, "DELETE_FAILED")
DeletionKnown ==
    /\ proc["down"].pc = "wait" /\ status[current] = "DELETE_FAILED" => Told(current)
    /\ proc["down"].pc \in {"loop", "check"} /\ status[proc["down"].id] = "DELETE_FAILED" => Told(proc["down"].id)
DeletionOver ==
    proc["down"].pc \in {"loop", "check"} /\ proc["down"].waiter = "done" /\ ~proc["down"].gaveUp
        => status[proc["down"].id] = "DELETE_COMPLETE" \/ Told(proc["down"].id)
DeletionSeen ==
    proc["down"].pc = "check" /\ proc["down"].completed /\ ~proc["down"].gaveUp /\ ~proc["down"].failed
        => status[proc["down"].id] = "DELETE_COMPLETE"

(* The bucket at each step of up. *)
BucketHeld ==
    /\ proc["up"].pc \in {"start", "exists", "bucket"} => bucket = "none"
    /\ proc["up"].pc = "call" => bucket \in {"none", "full"}
    /\ proc["up"].pc \notin Before /\ bucket # "none" => failures \/ ~live

Structure == StackType /\ Roles /\ Ids
CreationInv == CreationIds /\ CreationKnown /\ WaiterTells /\ CheckTells /\ SuccessIsCreated
DeletionInv == DeletionKnown /\ DeletionOver /\ DeletionSeen /\ SuccessIsDeleted
StackInv == Structure /\ CreationInv /\ DeletionInv /\ BucketHeld

-----------------------------------------------------------------------------
(* What a step of a process changes. *)

(* The fields of a process but the two that Step and Return set. *)
Alike(s, r) ==
    /\ s.large = r.large /\ s.detach = r.detach /\ s.operation = r.operation /\ s.known = r.known /\ s.id = r.id
    /\ s.failed = r.failed /\ s.completed = r.completed /\ s.gaveUp = r.gaveUp

(* A process that moves on is one still, and no other field changes. *)
LEMMA MovedProcess ==
    ASSUME NEW r \in Process, NEW pc \in Place
    PROVE  LET s == [r EXCEPT !.pc = pc] IN s \in Process /\ s.pc = pc /\ s.waiter = r.waiter /\ Alike(s, r)
BY DEF Process, Alike

(* So is one that ends, whose waiter is gone. *)
LEMMA StoppedProcess ==
    ASSUME NEW r \in Process, NEW pc \in Place
    PROVE  Stopped(r, pc) \in Process /\ Stopped(r, pc).pc = pc /\ Stopped(r, pc).waiter = "off" /\ Alike(Stopped(r, pc), r)
BY DEF Process, Alike, Stopped

(* Step moves one process. *)
LEMMA StepFacts ==
    ASSUME StackType, NEW p \in Proc, NEW pc \in Place, Step(p, pc)
    PROVE  /\ proc' \in [Proc -> Process] /\ \A q \in Proc \ {p} : proc'[q] = proc[q]
           /\ proc'[p].pc = pc /\ proc'[p].waiter = proc[p].waiter /\ Alike(proc'[p], proc[p])
<1>1. PICK r \in Process : r = proc[p]
  BY DEF StackType
<1> DEFINE s == [r EXCEPT !.pc = pc]
<1>2. s \in Process /\ s.pc = pc /\ s.waiter = r.waiter /\ Alike(s, r)
  BY MovedProcess
<1>3. proc' = [proc EXCEPT ![p] = s]
  BY <1>1 DEF Step
<1> HIDE DEF s
<1> QED BY <1>1, <1>2, <1>3 DEF StackType

(* Return ends a process and, if it is up, the thread that handles the signal. *)
LEMMA ReturnFacts ==
    ASSUME StackType, NEW p \in Proc, NEW pc \in Place, Return(p, pc)
    PROVE  /\ proc' \in [Proc -> Process]
           /\ \A q \in Proc : Alike(proc'[q], proc[q])
           /\ proc'[p].pc = pc /\ proc'[p].waiter = "off"
           /\ \A q \in Proc \ {p} : q # "int" \/ p # "up" => proc'[q] = proc[q]
           /\ p = "up" => proc'["int"].pc = IF proc["int"].pc = "off" THEN "off" ELSE "failed"
<1> DEFINE a == IF proc["int"].pc = "off" THEN "off" ELSE "failed"
<1>1. "int" \in Proc /\ a \in Place /\ \A q \in Proc : proc[q] \in Process
  <2>1. a = "off" \/ a = "failed"
    OBVIOUS
  <2> HIDE DEF a
  <2>2. a \in Place
    BY <2>1 DEF Place, Ended
  <2>3. "int" \in Proc
    BY DEF Proc
  <2> QED BY <2>2, <2>3 DEF StackType
<1>2. \A q \in Proc : proc'[q] = IF q = p THEN Stopped(proc[q], pc) ELSE IF q = "int" /\ p = "up" THEN Stopped(proc[q], a) ELSE proc[q]
  BY DEF Return
<1> HIDE DEF a
<1>3. \A q \in Proc : proc'[q] \in Process /\ Alike(proc'[q], proc[q])
  <2> SUFFICES ASSUME NEW q \in Proc PROVE proc'[q] \in Process /\ Alike(proc'[q], proc[q])
    OBVIOUS
  <2>1. CASE q = p
    BY <1>1, <1>2, <2>1, StoppedProcess
  <2>2. CASE q # p /\ q = "int" /\ p = "up"
    BY <1>1, <1>2, <2>2, StoppedProcess
  <2>3. CASE q # p /\ (q # "int" \/ p # "up")
    BY <1>1, <1>2, <2>3 DEF Alike
  <2> QED BY <2>1, <2>2, <2>3
<1>4. proc' \in [Proc -> Process]
  BY <1>3 DEF Return
<1>5. proc'[p].pc = pc /\ proc'[p].waiter = "off"
  BY <1>1, <1>2, StoppedProcess
<1>6. p = "up" => proc'["int"].pc = a
  BY <1>1, <1>2, StoppedProcess
<1>7. \A q \in Proc \ {p} : q # "int" \/ p # "up" => proc'[q] = proc[q]
  BY <1>2
<1> QED BY <1>3, <1>4, <1>5, <1>6, <1>7 DEF a

-----------------------------------------------------------------------------
(* What any step does to the stacks. *)

Grows(id) == Len(events[id]) <= Len(events'[id]) /\ \A i \in 1..Len(events[id]) : events'[id][i] = events[id][i]

(* Events are only added, a stack that was deleted stays so, and a deletion that fails is an event. *)
Ages(id) ==
    /\ Grows(id)
    /\ status'[id] = status[id] \/ (status[id] # "DELETE_COMPLETE" /\ Len(events[id]) < Len(events'[id]))
    /\ status'[id] = "DELETE_FAILED" /\ status[id] # "DELETE_FAILED" => events'[id][Len(events'[id])] = "DELETE_FAILED"

(* A stack whose status and events are left alone. *)
LEMMA AgesIdle == ASSUME StacksType, NEW id \in 1..2, status'[id] = status[id], events'[id] = events[id] PROVE Ages(id)
BY DEF Ages, Grows, StacksType

(* A stack that enters another status. *)
LEMMA EnterFacts ==
    ASSUME StacksType, NEW id \in 1..2, NEW s \in StackStatus, Enter(id, s), status[id] # "DELETE_COMPLETE"
    PROVE  /\ StacksType' /\ \A i \in 1..2 : Ages(i)
           /\ status'[id] = s /\ \A i \in 1..2 \ {id} : status'[i] = status[i] /\ events'[i] = events[i]
           /\ Len(events'[id]) = Len(events[id]) + 1 /\ events'[id][Len(events[id]) + 1] = s
<1>1. events[id] \in Seq(StackStatus)
  BY DEF StacksType
<1>2. PICK t : t = Append(events[id], s)
  OBVIOUS
<1>3. t \in Seq(StackStatus) /\ Len(t) = Len(events[id]) + 1 /\ t[Len(t)] = s /\ \A i \in 1..Len(events[id]) : t[i] = events[id][i]
  BY <1>1, <1>2
<1>4. status' = [status EXCEPT ![id] = s] /\ events' = [events EXCEPT ![id] = t]
  BY <1>2 DEF Enter
<1>5. StacksType' /\ status'[id] = s /\ events'[id] = t /\ \A i \in 1..2 \ {id} : status'[i] = status[i] /\ events'[i] = events[i]
  BY <1>3, <1>4 DEF StacksType
<1>6. Len(events[id]) \in Nat
  BY <1>1
<1>7. Ages(id)
  BY <1>3, <1>5, <1>6 DEF Ages, Grows
<1>8. \A i \in 1..2 \ {id} : Ages(i)
  BY <1>5, AgesIdle
<1> QED BY <1>3, <1>5, <1>7, <1>8

(* A stack that enters two, the first as an event only. *)
LEMMA TwoEventsFacts ==
    ASSUME StacksType, NEW id \in 1..2, NEW s \in StackStatus, NEW e \in StackStatus, status[id] # "DELETE_COMPLETE", s # "DELETE_FAILED",
           status' = [status EXCEPT ![id] = s], events' = [events EXCEPT ![id] = @ \o <<e, s>>]
    PROVE  /\ StacksType' /\ \A i \in 1..2 : Ages(i)
           /\ status'[id] = s /\ \A i \in 1..2 \ {id} : status'[i] = status[i] /\ events'[i] = events[i]
           /\ Len(events'[id]) = Len(events[id]) + 2 /\ events'[id][Len(events[id]) + 1] = e
<1>1. events[id] \in Seq(StackStatus) /\ Len(events[id]) \in Nat
  BY DEF StacksType
<1>2. PICK t : t = events[id] \o <<e, s>>
  OBVIOUS
<1>3. t \in Seq(StackStatus) /\ Len(t) = Len(events[id]) + 2 /\ \A i \in 1..Len(events[id]) : t[i] = events[id][i]
  BY <1>1, <1>2
<1>4. t[Len(events[id]) + 1] = e
  BY <1>1, <1>2
<1>5. StacksType' /\ status'[id] = s /\ events'[id] = t /\ \A i \in 1..2 \ {id} : status'[i] = status[i] /\ events'[i] = events[i]
  BY <1>2, <1>3 DEF StacksType
<1>6. Ages(id)
  BY <1>1, <1>3, <1>5 DEF Ages, Grows
<1>7. \A i \in 1..2 \ {id} : Ages(i)
  BY <1>5, AgesIdle
<1> QED BY <1>3, <1>4, <1>5, <1>6, <1>7

(* What has happened stays so, and what a process has not seen stays unseen until it looks. *)
LEMMA GrowsFacts ==
    ASSUME StacksType, StacksType', NEW id \in 1..2, Grows(id), NEW s
    PROVE  /\ Happened(id, s) => Happened(id, s)'
           /\ \A p \in Proc : proc'[p].known = proc[p].known /\ Unseen(p, id, s) => Unseen(p, id, s)'
<1>1. events[id] \in Seq(StackStatus) /\ events'[id] \in Seq(StackStatus)
  BY DEF StacksType
<1>2. DOMAIN events[id] \subseteq DOMAIN events'[id] /\ \A i \in DOMAIN events[id] : events'[id][i] = events[id][i]
  BY <1>1 DEF Grows
<1> QED BY <1>2 DEF Happened, Unseen

-----------------------------------------------------------------------------
(* What a step keeps that leaves a command alone. *)

(* Up is where it was: then nothing took its stack away unnoticed. *)
LEMMA CreationFrame ==
    ASSUME StackInv, StackType', Ages(2), proc'["up"] = proc["up"], DeletedByOther => DeletedByOther',
           current' = current, live' => live,
           status[2] = "CREATE_IN_PROGRESS" => status'[2] = "CREATE_IN_PROGRESS" \/ Over'
    PROVE  CreationInv'
<1>1. StacksType /\ StacksType' /\ 2 \in 1..2 /\ "up" \in Proc
  BY DEF StackInv, Structure, StackType, Proc
<1>2. Happened(2, "CREATE_COMPLETE") => Happened(2, "CREATE_COMPLETE")'
  BY <1>1, GrowsFacts DEF Ages
<1>3. Unseen("up", 2, "CREATE_FAILED") => Unseen("up", 2, "CREATE_FAILED")'
  BY <1>1, GrowsFacts DEF Ages
<1>4. Over => Over'
  BY <1>2, <1>3 DEF Over
<1>5. CreationIds'
  BY DEF StackInv, CreationInv, CreationIds, Creating
<1>6. CreationKnown' /\ WaiterTells'
  BY <1>4 DEF StackInv, CreationInv, CreationKnown, WaiterTells, Creating
<1>7. CheckTells'
  BY <1>2 DEF StackInv, CreationInv, CheckTells, Creating
<1>8. SuccessIsCreated'
  BY <1>2 DEF StackInv, CreationInv, SuccessIsCreated, Happened, DeletedByOther
<1> QED BY <1>5, <1>6, <1>7, <1>8 DEF CreationInv

(* Down is where it was: a deletion that ended is as it was, or one that failed is an event it has not seen. *)
LEMMA DeletionFrame ==
    ASSUME StackInv, StackType', \A i \in 1..2 : Ages(i), proc'["down"] = proc["down"],
           current' = current \/ status'[current'] # "DELETE_FAILED"
    PROVE  DeletionInv'
<1>1. StacksType /\ StacksType' /\ "down" \in Proc
  BY DEF StackInv, Structure, StackType, Proc
<1>2. ASSUME NEW id \in 1..2 PROVE Told(id) => Told(id)'
  BY <1>1, GrowsFacts DEF Ages, Told
<1>3. ASSUME NEW id \in 1..2, status'[id] = "DELETE_FAILED", status[id] # "DELETE_FAILED" PROVE Told(id)'
  <2>1. PICK n : n = Len(events'[id])
    OBVIOUS
  <2>2. events'[id] \in Seq(StackStatus) /\ events[id] \in Seq(StackStatus)
    BY <1>1 DEF StacksType
  <2>3. n \in Nat /\ Len(events[id]) < n /\ events'[id][n] = "DELETE_FAILED"
    BY <1>3, <2>1, <2>2 DEF Ages
  <2>4. n \in DOMAIN events'[id]
    BY <2>1, <2>2, <2>3
  <2>5. proc["down"].known[id] \in Nat /\ proc["down"].known[id] <= Len(events[id])
    BY <1>1 DEF StackInv, Structure, Ids, StackType, Process
  <2> QED BY <2>2, <2>3, <2>4, <2>5 DEF Told, Unseen
<1>4. current \in 1..2 /\ proc["down"].id \in 1..2
  BY <1>1 DEF StackInv, Structure, StackType, Process
<1>5. \A id \in 1..2 : status[id] = "DELETE_COMPLETE" => status'[id] = "DELETE_COMPLETE"
  BY DEF Ages
<1>6. DeletionKnown'
  BY <1>2, <1>3, <1>4 DEF StackInv, DeletionInv, DeletionKnown
<1>7. DeletionOver'
  BY <1>2, <1>4, <1>5 DEF StackInv, DeletionInv, DeletionOver
<1>8. DeletionSeen' /\ SuccessIsDeleted'
  BY <1>4, <1>5 DEF StackInv, DeletionInv, DeletionSeen, SuccessIsDeleted
<1> QED BY <1>6, <1>7, <1>8 DEF DeletionInv

(* The events known to a process stay among those there are. *)
LEMMA KnownFrame ==
    ASSUME StackInv, StackType', \A i \in 1..2 : Ages(i), NEW p \in Proc, NEW i \in 1..2, proc'[p].known = proc[p].known
    PROVE  proc'[p].known[i] <= Len(events'[i])
<1>1. proc[p].known[i] \in Nat /\ proc[p].known[i] <= Len(events[i])
  BY DEF StackInv, Structure, Ids, StackType, Process
<1>2. Len(events[i]) \in Nat /\ Len(events'[i]) \in Nat /\ Len(events[i]) <= Len(events'[i])
  BY DEF StackInv, Structure, StackType, StacksType, Ages, Grows
<1> QED BY <1>1, <1>2

(* And of all processes when one alone looks. *)
LEMMA OthersKnown ==
    ASSUME StackInv, StackType', \A i \in 1..2 : Ages(i), NEW p \in Proc, \A q \in Proc \ {p} : proc'[q] = proc[q],
           \A i \in 1..2 : proc'[p].known[i] <= Len(events'[i])
    PROVE  \A q \in Proc, i \in 1..2 : proc'[q].known[i] <= Len(events'[i])
BY KnownFrame

-----------------------------------------------------------------------------
(* Up. *)

(* The name stays with its stack, or goes to the second one, which is not created before. *)
NameKept ==
    \/ current' = current /\ (current = 2 \/ status'[2] = status[2])
    \/ current' = 2 /\ status'[2] # "DELETE_FAILED"

(* Up returns: nothing is known of a creation, unless it says that it succeeded. *)
LEMMA UpReturns ==
    ASSUME StackInv, StacksType', \A i \in 1..2 : Ages(i), NEW pc \in {"done", "failed"}, Return("up", pc),
           NameKept,
           live' = live, failures' = failures, pc = "done" => SuccessIsCreated'
    PROVE  Structure' /\ CreationInv' /\ DeletionInv' /\ proc'["up"].pc = pc
<1>1. "up" \in Proc /\ "int" \in Proc /\ "down" \in Proc /\ pc \in Place
  BY DEF Proc, Place, Ended
<1>2. /\ proc' \in [Proc -> Process]
      /\ \A q \in Proc : Alike(proc'[q], proc[q])
      /\ proc'["up"].pc = pc
      /\ proc'["down"] = proc["down"]
      /\ proc'["int"].pc = IF proc["int"].pc = "off" THEN "off" ELSE "failed"
  BY <1>1, ReturnFacts DEF StackInv, Structure
<1>3. StackType'
  BY <1>2 DEF StackInv, Structure, StackType, NameKept
<1>4. Roles'
  <2>1. proc'["int"].pc \in DownPlaces /\ proc'["int"].operation = proc["int"].operation
        /\ (proc'["int"].pc = "off" \/ proc["int"].operation = "delete")
    <3>1. CASE proc["int"].pc = "off"
      BY <1>1, <1>2, <3>1 DEF Alike, DownPlaces, Ended
    <3>2. CASE proc["int"].pc # "off"
      <4>1. proc["int"].operation = "delete"
        BY <3>2 DEF StackInv, Structure, Roles
      <4>2. proc'["int"].operation = proc["int"].operation
        BY <1>1, <1>2 DEF Alike
      <4>3. proc'["int"].pc = "failed"
        BY <1>2, <3>2
      <4> QED BY <4>1, <4>2, <4>3 DEF DownPlaces, Ended
    <3> QED BY <3>1, <3>2
  <2>2. proc'["up"].pc \in UpPlaces /\ proc'["up"].pc # "execute" /\ proc'["up"].pc \in Ended
    BY <1>2 DEF UpPlaces, Ended
  <2> QED BY <1>2, <2>1, <2>2 DEF StackInv, Structure, Roles
<1>5. Ids'
  <2>1. proc'["up"].pc \notin Before
    BY <1>2 DEF Before
  <2>2. current' = 1 => status'[2] = "none" /\ proc'["down"].id = 1
    BY <1>2 DEF StackInv, Structure, Ids, NameKept
  <2>3. \A p \in Proc, i \in 1..2 : proc'[p].known[i] <= Len(events'[i])
    BY <1>2, <1>3, KnownFrame DEF Alike
  <2> QED BY <2>1, <2>2, <2>3 DEF Ids
<1>6. CreationInv'
  <2>1. proc'["up"].pc \notin Waiting
    BY <1>2 DEF Waiting
  <2>2. SuccessIsCreated'
    BY <1>2 DEF SuccessIsCreated
  <2> QED BY <2>1, <2>2 DEF CreationInv, CreationIds, CreationKnown, WaiterTells, CheckTells, Creating, Waiting
<1>7. DeletionInv'
  BY <1>2, <1>3, DeletionFrame DEF NameKept
<1> QED BY <1>2, <1>3, <1>4, <1>5, <1>6, <1>7 DEF Structure

(* Up goes on. *)
LEMMA UpMoves ==
    ASSUME StackInv, StacksType', \A i \in 1..2 : Ages(i), NEW pc \in UpPlaces \ Ended, proc' \in [Proc -> Process],
           proc'["up"].pc = pc, \A q \in Proc \ {"up"} : proc'[q] = proc[q],
           \A i \in 1..2 : proc'["up"].known[i] <= Len(events'[i]), live' = live, failures' = failures,
           pc = "execute" => proc'["up"].operation = "update", proc'["up"].operation # "none" \/ pc \in Undecided,
           pc \in Before => /\ proc["up"].pc \in Before /\ current' = current
                            /\ proc'["up"].known = proc["up"].known /\ proc'["up"].failed = proc["up"].failed,
           NameKept
    PROVE  Structure' /\ DeletionInv' /\ (pc \notin Waiting \/ proc'["up"].operation # "create" => CreationInv')
<1>1. "up" \in Proc /\ "int" \in Proc /\ "down" \in Proc
  BY DEF Proc
<1>2. StackType'
  <2>1. current' \in 1..2
    <3>1. current' = current \/ current' = 2
      BY DEF NameKept
    <3>2. current \in 1..2
      BY DEF StackInv, Structure, StackType
    <3> QED BY <3>1, <3>2
  <2> QED BY <2>1 DEF StackInv, Structure, StackType
<1>3. Roles'
  BY <1>1 DEF StackInv, Structure, Roles
<1>4. Ids'
  <2>1. \A p \in Proc, i \in 1..2 : proc'[p].known[i] <= Len(events'[i])
    BY <1>1, <1>2, OthersKnown
  <2>2. current' = 1 => status'[2] = "none" /\ proc'["down"].id = 1
    <3>1. current' = 1 => current = 1 /\ status'[2] = status[2]
      BY DEF NameKept
    <3>2. proc'["down"] = proc["down"]
      BY <1>1
    <3>3. current = 1 => status[2] = "none" /\ proc["down"].id = 1
      BY DEF StackInv, Structure, Ids
    <3> QED BY <3>1, <3>2, <3>3
  <2>3. pc \in Before => current' = 1 /\ proc'["up"].known[2] = 0 /\ ~proc'["up"].failed
    BY DEF StackInv, Structure, Ids
  <2> QED BY <2>1, <2>2, <2>3 DEF Ids
<1>5. DeletionInv'
  BY <1>1, <1>2, DeletionFrame DEF NameKept
<1>6. pc \notin Waiting \/ proc'["up"].operation # "create" => CreationInv'
  BY DEF CreationInv, CreationIds, CreationKnown, WaiterTells, CheckTells, SuccessIsCreated, Creating, UpPlaces, Waiting, Before, Ended
<1> QED BY <1>2, <1>3, <1>4, <1>5, <1>6 DEF Structure

(* A step that touches no stack. *)
LEMMA StacksIdle == ASSUME StackInv, UNCHANGED <<status, events>> PROVE StacksType' /\ \A i \in 1..2 : Ages(i)
<1>1. StacksType /\ StacksType'
  BY DEF StackInv, Structure, StackType, StacksType
<1> QED BY <1>1, AgesIdle

(* Up fails without having touched a stack, where its bucket may stay. *)
LEMMA UpFails ==
    ASSUME StackInv, Return("up", "failed"), UNCHANGED <<current, status, events, live, failures>>,
           bucket' = "none" \/ failures \/ ~live
    PROVE  StackInv'
<1>1. Structure' /\ CreationInv' /\ DeletionInv' /\ proc'["up"].pc = "failed"
  <2>1. StacksType' /\ (\A i \in 1..2 : Ages(i)) /\ NameKept
    BY StacksIdle DEF NameKept
  <2>2. "failed" \in {"done", "failed"} /\ "failed" # "done"
    OBVIOUS
  <2> QED BY <2>1, <2>2, UpReturns
<1>2. BucketHeld'
  BY <1>1 DEF BucketHeld, Before
<1> QED BY <1>1, <1>2 DEF StackInv

(* Up moves on without having touched a stack. *)
LEMMA UpGoesOn ==
    ASSUME StackInv, NEW pc \in (Before \cup {"execute"}), Step("up", pc), UNCHANGED <<current, status, events, live, failures>>,
           proc["up"].pc \in Before, BucketHeld', pc = "execute" => proc["up"].operation = "update",
           pc \in Undecided \/ proc["up"].pc \notin Undecided
    PROVE  StackInv'
<1>1. "up" \in Proc /\ pc \in Place /\ pc \in UpPlaces \ Ended /\ pc \notin Waiting
  BY DEF Proc, Place, UpPlaces, Before, Ended, Waiting
<1>2. /\ proc' \in [Proc -> Process] /\ \A q \in Proc \ {"up"} : proc'[q] = proc[q]
      /\ proc'["up"].pc = pc /\ Alike(proc'["up"], proc["up"])
  BY <1>1, StepFacts DEF StackInv, Structure
<1>3. Structure' /\ DeletionInv' /\ CreationInv'
  <2>1. StacksType' /\ (\A i \in 1..2 : Ages(i)) /\ NameKept
    BY StacksIdle DEF NameKept
  <2>2. proc'["up"].known = proc["up"].known /\ proc'["up"].operation = proc["up"].operation /\ proc'["up"].failed = proc["up"].failed
    BY <1>2 DEF Alike
  <2>3. StackType' /\ (proc'["up"].operation # "none" \/ pc \in Undecided)
    BY <1>2, <2>1, <2>2 DEF StackInv, Structure, StackType, Roles, Before, Ended
  <2>4. \A i \in 1..2 : proc'["up"].known[i] <= Len(events'[i])
    BY <1>1, <2>1, <2>2, <2>3, KnownFrame
  <2> QED BY <1>1, <1>2, <2>1, <2>2, <2>3, <2>4, UpMoves
<1> QED BY <1>3 DEF StackInv

(* The calls before the stack is touched, and what becomes of the bucket. *)
LEMMA UpPrepares ==
    ASSUME StackInv, CheckRequirements \/ StackExists \/ CreateBucket \/ Upload \/ CreateChangeSet
    PROVE  StackInv'
<1>1. CASE CheckRequirements
  <2>1. bucket' = "none" /\ proc["up"].pc = "start" /\ UNCHANGED <<current, status, events, live, failures>>
    BY <1>1 DEF CheckRequirements, StackInv, BucketHeld
  <2>2. CASE Step("up", "exists")
    <3>1. proc'["up"].pc = "exists"
      BY <2>2, StepFacts DEF StackInv, Structure, Proc, Place
    <3>2. BucketHeld'
      BY <2>1, <3>1 DEF BucketHeld, Before
    <3> QED BY <2>1, <2>2, <3>2, UpGoesOn DEF Before, Undecided
  <2>3. CASE Return("up", "failed")
    BY <2>1, <2>3, UpFails
  <2> QED BY <1>1, <2>2, <2>3 DEF CheckRequirements
<1>2. CASE StackExists
  <2>1. bucket' = "none" /\ proc["up"].pc = "exists" /\ UNCHANGED <<current, status, events, live, failures>>
    BY <1>2 DEF StackExists, StackInv, BucketHeld
  <2>2. PICK pc \in {"bucket", "call"}, o \in {"create", "update"} : proc' = [proc EXCEPT !["up"].operation = o, !["up"].pc = pc]
    BY <1>2 DEF StackExists
  <2>3. PICK r \in Process : r = proc["up"]
    BY DEF StackInv, Structure, StackType, Proc
  <2> DEFINE s == [r EXCEPT !.operation = o, !.pc = pc]
  <2>4. s \in Process /\ s.pc = pc /\ s.known = r.known /\ s.failed = r.failed /\ s.operation # "none"
    BY DEF Process, Place
  <2>5. proc' = [proc EXCEPT !["up"] = s]
    BY <2>2, <2>3
  <2> HIDE DEF s
  <2>6. proc' \in [Proc -> Process] /\ proc'["up"] = s /\ \A q \in Proc \ {"up"} : proc'[q] = proc[q]
    BY <2>4, <2>5 DEF StackInv, Structure, StackType, Proc
  <2>7. pc \in UpPlaces \ Ended /\ pc \in Before /\ pc \notin Waiting /\ pc # "execute" /\ proc["up"].pc \in Before
    BY <2>1 DEF UpPlaces, Before, Ended, Waiting
  <2>8. Structure' /\ DeletionInv' /\ CreationInv'
    <3>1. StacksType' /\ (\A i \in 1..2 : Ages(i)) /\ NameKept
      BY <2>1, StacksIdle DEF NameKept
    <3>2. proc'["up"].known = proc["up"].known /\ proc'["up"].pc = pc /\ proc'["up"].failed = proc["up"].failed /\ proc'["up"].operation # "none"
      BY <2>3, <2>4, <2>6
    <3>3. StackType' /\ "up" \in Proc
      BY <2>1, <2>6, <3>1 DEF StackInv, Structure, StackType, Proc
    <3>4. \A i \in 1..2 : proc'["up"].known[i] <= Len(events'[i])
      BY <3>1, <3>2, <3>3, KnownFrame
    <3> QED BY <2>1, <2>6, <2>7, <3>1, <3>2, <3>4, UpMoves
  <2>9. BucketHeld'
    BY <2>1, <2>4, <2>6, <2>7 DEF BucketHeld
  <2> QED BY <2>8, <2>9 DEF StackInv
<1>3. CASE CreateBucket
  <2>1. proc["up"].pc = "bucket" /\ UNCHANGED <<current, status, events, live, failures>> /\ bucket = "none"
    BY <1>3 DEF CreateBucket, StackInv, BucketHeld
  <2>2. CASE Step("up", "upload")
    <3>1. proc'["up"].pc = "upload"
      BY <2>2, StepFacts DEF StackInv, Structure, Proc, Place
    <3>2. BucketHeld'
      BY <3>1 DEF BucketHeld, Before
    <3> QED BY <2>1, <2>2, <3>2, UpGoesOn DEF Before, Undecided
  <2>3. CASE failures /\ Return("up", "failed")
    BY <2>1, <2>3, UpFails
  <2> QED BY <1>3, <2>2, <2>3 DEF CreateBucket
<1>4. CASE Upload
  <2>1. proc["up"].pc = "upload" /\ UNCHANGED <<current, status, events, live, failures>>
    BY <1>4 DEF Upload
  <2>2. CASE bucket' = "full" /\ Step("up", "call")
    <3>1. proc'["up"].pc = "call"
      BY <2>2, StepFacts DEF StackInv, Structure, Proc, Place
    <3>2. BucketHeld'
      BY <2>2, <3>1 DEF BucketHeld, Before
    <3> QED BY <2>1, <2>2, <3>2, UpGoesOn DEF Before, Undecided
  <2>3. CASE MayFail("up") /\ Return("up", "failed")
    BY <2>1, <2>3, UpFails DEF MayFail, CanCall
  <2> QED BY <1>4, <2>2, <2>3 DEF Upload
<1>5. CASE CreateChangeSet
  <2>1. proc["up"].pc = "call" /\ proc["up"].operation = "update" /\ UNCHANGED <<current, status, events, live, failures>>
    BY <1>5 DEF CreateChangeSet
  <2>2. bucket' = "none" \/ failures \/ ~live
    BY <1>5, <2>1 DEF CreateChangeSet, AfterCall, MayFail, CanCall, StackInv, BucketHeld
  <2>3. CASE Step("up", "execute")
    <3>1. proc'["up"].pc = "execute"
      BY <2>3, StepFacts DEF StackInv, Structure, Proc, Place
    <3>2. BucketHeld'
      BY <2>1, <2>2, <3>1 DEF BucketHeld, Before
    <3> QED BY <2>1, <2>3, <3>2, UpGoesOn DEF Before, Undecided
  <2>4. CASE Return("up", "failed")
    BY <2>1, <2>2, <2>4, UpFails
  <2> QED BY <1>5, <2>3, <2>4 DEF CreateChangeSet
<1> QED BY <1>1, <1>2, <1>3, <1>4, <1>5

(* The call that creates the stack: the name is its from now on. *)
LEMMA UpCreates == ASSUME StackInv, CreateStack PROVE StackInv'
<1>1. proc["up"].pc = "call" /\ proc["up"].operation = "create" /\ UNCHANGED <<live, failures>>
  BY DEF CreateStack
<1>2. bucket' = "none" \/ failures \/ ~live
  BY <1>1 DEF CreateStack, AfterCall, MayFail, CanCall, StackInv, BucketHeld
<1>3. CASE Return("up", "failed") /\ UNCHANGED <<current, status, events>>
  BY <1>1, <1>2, <1>3, UpFails
<1>4. CASE /\ current' = 2 /\ Enter(2, "CREATE_IN_PROGRESS")
           /\ IF proc["up"].detach THEN Return("up", "done") ELSE Step("up", "wait")
  <2>1. "up" \in Proc /\ 2 \in 1..2 /\ StacksType /\ "CREATE_IN_PROGRESS" \in StackStatus
    BY DEF Proc, StackInv, Structure, StackType, StackStatus
  <2>2. status[2] = "none"
    BY <1>1 DEF StackInv, Structure, Ids, Before
  <2>3. StacksType' /\ (\A i \in 1..2 : Ages(i)) /\ status'[2] = "CREATE_IN_PROGRESS"
    BY <1>4, <2>1, <2>2, EnterFacts
  <2>4. NameKept
    BY <1>4, <2>3 DEF NameKept
  <2>5. CASE proc["up"].detach
    <3>1. Return("up", "done") /\ "done" \in {"done", "failed"}
      BY <1>4, <2>5
    <3>2. proc'["up"].detach = proc["up"].detach
      BY <2>1, <3>1, ReturnFacts DEF StackInv, Structure, Place, Ended, Alike
    <3>3. SuccessIsCreated'
      BY <2>5, <3>2 DEF SuccessIsCreated
    <3>4. Structure' /\ CreationInv' /\ DeletionInv' /\ proc'["up"].pc = "done"
      BY <1>1, <2>3, <2>4, <3>1, <3>3, UpReturns
    <3>5. BucketHeld'
      BY <1>1, <1>2, <3>4 DEF BucketHeld, Before
    <3> QED BY <3>4, <3>5 DEF StackInv
  <2>6. CASE ~proc["up"].detach
    <3>1. /\ proc' \in [Proc -> Process] /\ \A q \in Proc \ {"up"} : proc'[q] = proc[q]
          /\ proc'["up"].pc = "wait" /\ Alike(proc'["up"], proc["up"])
      BY <1>4, <2>1, <2>6, StepFacts DEF StackInv, Structure, Place
    <3>2. "wait" \in UpPlaces \ Ended /\ "wait" \notin Before
      BY DEF UpPlaces, Waiting, Ended, Before
    <3>3. StackType' /\ proc'["up"].known = proc["up"].known /\ ~proc'["up"].failed /\ proc'["up"].operation # "none"
      BY <1>1, <1>4, <2>1, <2>3, <3>1 DEF StackInv, Structure, StackType, Ids, Before, Alike
    <3>4. \A i \in 1..2 : proc'["up"].known[i] <= Len(events'[i])
      BY <2>1, <2>3, <3>3, KnownFrame
    <3>5. Structure' /\ DeletionInv'
      BY <1>1, <2>3, <2>4, <3>1, <3>2, <3>3, <3>4, UpMoves
    <3>6. CreationInv'
      BY <1>4, <2>3, <3>1, <3>3 DEF CreationInv, CreationIds, CreationKnown, WaiterTells, CheckTells, SuccessIsCreated
    <3>7. BucketHeld'
      BY <1>1, <1>2, <3>1 DEF BucketHeld, Before
    <3> QED BY <3>5, <3>6, <3>7 DEF StackInv
  <2> QED BY <2>5, <2>6
<1> QED BY <1>3, <1>4 DEF CreateStack

(* The call that updates it. *)
LEMMA UpUpdates == ASSUME StackInv, UpdateStack PROVE StackInv'
<1>1. proc["up"].pc = "execute" /\ proc["up"].operation = "update" /\ UNCHANGED <<current, bucket, live, failures>>
  BY DEF UpdateStack, StackInv, Structure, Roles
<1>2. bucket' = "none" \/ failures \/ ~live
  BY <1>1 DEF StackInv, BucketHeld, Before
<1>3. CASE Return("up", "failed") /\ UNCHANGED <<status, events>>
  BY <1>1, <1>2, <1>3, UpFails
<1>4. CASE /\ status[current] \in Settled /\ Enter(current, "UPDATE_IN_PROGRESS")
           /\ IF proc["up"].detach THEN Return("up", "done") ELSE Step("up", "wait")
  <2>1. "up" \in Proc /\ current \in 1..2 /\ StacksType /\ "UPDATE_IN_PROGRESS" \in StackStatus
    BY DEF Proc, StackInv, Structure, StackType, StackStatus
  <2>2. status[current] # "DELETE_COMPLETE"
    BY <1>4 DEF Settled
  <2>3. StacksType' /\ (\A i \in 1..2 : Ages(i)) /\ \A i \in 1..2 \ {current} : status'[i] = status[i]
    BY <1>4, <2>1, <2>2, EnterFacts
  <2>4. NameKept
    BY <1>1, <2>1, <2>3 DEF NameKept
  <2>5. CASE proc["up"].detach
    <3>1. Return("up", "done") /\ "done" \in {"done", "failed"}
      BY <1>4, <2>5
    <3>2. proc'["up"].detach = proc["up"].detach
      BY <2>1, <3>1, ReturnFacts DEF StackInv, Structure, Place, Ended, Alike
    <3>3. SuccessIsCreated'
      BY <2>5, <3>2 DEF SuccessIsCreated
    <3>4. Structure' /\ CreationInv' /\ DeletionInv' /\ proc'["up"].pc = "done"
      BY <1>1, <2>3, <2>4, <3>1, <3>3, UpReturns
    <3>5. BucketHeld'
      BY <1>1, <1>2, <3>4 DEF BucketHeld, Before
    <3> QED BY <3>4, <3>5 DEF StackInv
  <2>6. CASE ~proc["up"].detach
    <3>1. /\ proc' \in [Proc -> Process] /\ \A q \in Proc \ {"up"} : proc'[q] = proc[q]
          /\ proc'["up"].pc = "wait" /\ Alike(proc'["up"], proc["up"])
      BY <1>4, <2>1, <2>6, StepFacts DEF StackInv, Structure, Place
    <3>2. "wait" \in UpPlaces \ Ended /\ "wait" \notin Before /\ "wait" # "execute"
      BY DEF UpPlaces, Waiting, Ended, Before
    <3>3. StackType' /\ proc'["up"].known = proc["up"].known /\ proc'["up"].operation = "update"
      BY <1>1, <2>1, <2>3, <3>1 DEF StackInv, Structure, StackType, Alike
    <3>4. \A i \in 1..2 : proc'["up"].known[i] <= Len(events'[i])
      BY <2>1, <2>3, <3>3, KnownFrame
    <3>5. Structure' /\ DeletionInv' /\ CreationInv'
      BY <1>1, <2>3, <2>4, <3>1, <3>2, <3>3, <3>4, UpMoves
    <3>6. BucketHeld'
      BY <1>1, <1>2, <3>1 DEF BucketHeld, Before
    <3> QED BY <3>5, <3>6 DEF StackInv
  <2> QED BY <2>5, <2>6
<1> QED BY <1>3, <1>4 DEF UpdateStack

-----------------------------------------------------------------------------
(* AWS, and the steps that leave the processes alone. *)

(* The creation under way, if any, goes on, ends, or is one that another command deletes. *)
CreationGoesOn == status[2] = "CREATE_IN_PROGRESS" => status'[2] = "CREATE_IN_PROGRESS" \/ Over'

(* No process moves. *)
LEMMA ProcessesIdle ==
    ASSUME StackInv, StacksType', \A i \in 1..2 : Ages(i), UNCHANGED <<current, bucket, failures, proc>>,
           live' \in BOOLEAN, live' => live, current = 1 => status'[2] = "none", CreationGoesOn
    PROVE  StackInv'
<1>1. StackType'
  BY DEF StackInv, Structure, StackType
<1>2. Roles'
  BY DEF StackInv, Structure, Roles
<1>3. Ids'
  <2>1. \A p \in Proc, i \in 1..2 : proc'[p].known[i] <= Len(events'[i])
    BY <1>1, KnownFrame
  <2> QED BY <2>1 DEF StackInv, Structure, Ids
<1>4. CreationInv'
  <2>1. DeletedByOther => DeletedByOther'
    BY DEF DeletedByOther
  <2>2. Ages(2) /\ proc'["up"] = proc["up"] /\ current' = current
    OBVIOUS
  <2> QED BY <1>1, <2>1, <2>2, CreationFrame DEF CreationGoesOn
<1>5. DeletionInv'
  BY <1>1, DeletionFrame
<1>6. BucketHeld'
  BY DEF StackInv, BucketHeld
<1> QED BY <1>1, <1>2, <1>3, <1>4, <1>5, <1>6 DEF StackInv, Structure

(* A signal that comes, or cancels the context, and a task that changes. *)
LEMMA SignalsAndTasks == ASSUME StackInv, Interrupt \/ CancelContext \/ TaskChanges PROVE StackInv'
<1>1. UNCHANGED <<current, status, events, bucket, failures, proc>> /\ live' \in BOOLEAN /\ (live' => live)
  <2>1. CASE CancelContext
    BY <2>1 DEF CancelContext
  <2>2. CASE Interrupt \/ TaskChanges
    <3>1. UNCHANGED <<current, status, events, bucket, failures, proc, live>>
      BY <2>2 DEF Interrupt, TaskChanges
    <3> QED BY <3>1 DEF StackInv, Structure, StackType
  <2> QED BY <2>1, <2>2
<1>2. StacksType' /\ \A i \in 1..2 : Ages(i)
  BY <1>1, StacksIdle
<1>3. (current = 1 => status'[2] = "none") /\ CreationGoesOn
  BY <1>1 DEF CreationGoesOn, StackInv, Structure, Ids
<1> QED BY <1>1, <1>2, <1>3, ProcessesIdle

(* A creation, an update or a deletion that ends. *)
LEMMA AwsEnds == ASSUME StackInv, Aws PROVE StackInv'
<1>1. PICK id \in 1..2 : CreationEnds(id) \/ UpdateEnds(id) \/ DeletionEnds(id)
  BY DEF Aws
<1>2. UNCHANGED <<current, bucket, failures, proc, live>> /\ live' \in BOOLEAN /\ StacksType
  BY <1>1 DEF CreationEnds, UpdateEnds, DeletionEnds, StackInv, Structure, StackType
<1>3. status[id] \in {"CREATE_IN_PROGRESS", "UPDATE_IN_PROGRESS", "DELETE_IN_PROGRESS"}
  BY <1>1 DEF CreationEnds, UpdateEnds, DeletionEnds
<1>4. current = 1 => id = 1
  BY <1>3 DEF StackInv, Structure, Ids
<1>5. ASSUME NEW s \in StackStatus, Enter(id, s), status[id] = "CREATE_IN_PROGRESS" => s = "CREATE_COMPLETE"
      PROVE  StackInv'
  <2>1. /\ StacksType' /\ \A i \in 1..2 : Ages(i)
        /\ \A i \in 1..2 \ {id} : status'[i] = status[i] /\ events'[i] = events[i]
        /\ Len(events'[id]) = Len(events[id]) + 1 /\ events'[id][Len(events[id]) + 1] = s
    BY <1>2, <1>3, <1>5, EnterFacts
  <2>2. current = 1 => status'[2] = "none"
    BY <1>4, <2>1 DEF StackInv, Structure, Ids
  <2>3. CreationGoesOn
    <3>1. CASE id = 1
      BY <2>1, <3>1 DEF CreationGoesOn
    <3>2. CASE id = 2 /\ status[2] = "CREATE_IN_PROGRESS"
      <4>1. events'[2] \in Seq(StackStatus) /\ Len(events[2]) \in Nat
        BY <1>2, <2>1 DEF StacksType
      <4>2. Happened(2, "CREATE_COMPLETE")'
        BY <1>5, <2>1, <3>2, <4>1 DEF Happened
      <4> QED BY <4>2 DEF CreationGoesOn, Over
    <3>3. CASE id = 2 /\ status[2] # "CREATE_IN_PROGRESS"
      BY <3>3 DEF CreationGoesOn
    <3> QED BY <3>1, <3>2, <3>3
  <2> QED BY <1>2, <2>1, <2>2, <2>3, ProcessesIdle
<1>6. ASSUME NEW s \in StackStatus, NEW e \in StackStatus, s # "DELETE_FAILED", status' = [status EXCEPT ![id] = s],
             events' = [events EXCEPT ![id] = @ \o <<e, s>>], status[id] = "CREATE_IN_PROGRESS" => e = "CREATE_FAILED"
      PROVE  StackInv'
  <2>1. /\ StacksType' /\ \A i \in 1..2 : Ages(i)
        /\ \A i \in 1..2 \ {id} : status'[i] = status[i] /\ events'[i] = events[i]
        /\ Len(events'[id]) = Len(events[id]) + 2 /\ events'[id][Len(events[id]) + 1] = e
    BY <1>2, <1>3, <1>6, TwoEventsFacts
  <2>2. current = 1 => status'[2] = "none"
    BY <1>4, <2>1 DEF StackInv, Structure, Ids
  <2>3. CreationGoesOn
    <3>1. CASE id = 1
      BY <2>1, <3>1 DEF CreationGoesOn
    <3>2. CASE id = 2 /\ status[2] = "CREATE_IN_PROGRESS"
      <4>1. events'[2] \in Seq(StackStatus) /\ Len(events[2]) \in Nat
        BY <1>2, <2>1 DEF StacksType
      <4>2. proc["up"].known[2] \in Nat /\ proc["up"].known[2] <= Len(events[2])
        <5>1. "up" \in Proc /\ proc["up"] \in Process
          BY DEF Proc, StackInv, Structure, StackType
        <5>2. proc["up"].known \in [1..2 -> Nat]
          BY <5>1 DEF Process
        <5>3. 2 \in 1..2
          OBVIOUS
        <5> QED BY <5>1, <5>2, <5>3 DEF StackInv, Structure, Ids
      <4>3. PICK n : n = Len(events[2]) + 1
        OBVIOUS
      <4>4. n \in DOMAIN events'[2] /\ events'[2][n] = "CREATE_FAILED" /\ proc["up"].known[2] < n
        BY <1>6, <2>1, <3>2, <4>1, <4>2, <4>3
      <4>5. Unseen("up", 2, "CREATE_FAILED")'
        BY <1>2, <4>4 DEF Unseen
      <4> QED BY <4>5 DEF CreationGoesOn, Over
    <3>3. CASE id = 2 /\ status[2] # "CREATE_IN_PROGRESS"
      BY <3>3 DEF CreationGoesOn
    <3> QED BY <3>1, <3>2, <3>3
  <2> QED BY <1>2, <2>1, <2>2, <2>3, ProcessesIdle
<1>7. {"CREATE_COMPLETE", "CREATE_FAILED", "UPDATE_COMPLETE", "UPDATE_FAILED", "DELETE_IN_PROGRESS", "DELETE_COMPLETE", "DELETE_FAILED"}
        \subseteq StackStatus
  BY DEF StackStatus
<1>8. CASE CreationEnds(id)
  <2>1. CASE Enter(id, "CREATE_COMPLETE")
    BY <1>5, <1>7, <2>1
  <2>2. CASE /\ status' = [status EXCEPT ![id] = "DELETE_IN_PROGRESS"]
             /\ events' = [events EXCEPT ![id] = @ \o <<"CREATE_FAILED", "DELETE_IN_PROGRESS">>]
    BY <1>6, <1>7, <2>2
  <2> QED BY <1>8, <2>1, <2>2 DEF CreationEnds
<1>9. CASE UpdateEnds(id)
  <2> status[id] = "UPDATE_IN_PROGRESS"
    BY <1>9 DEF UpdateEnds
  <2>1. CASE Enter(id, "UPDATE_COMPLETE")
    BY <1>5, <1>7, <2>1
  <2>2. CASE /\ status' = [status EXCEPT ![id] = "UPDATE_COMPLETE"]
             /\ events' = [events EXCEPT ![id] = @ \o <<"UPDATE_FAILED", "UPDATE_COMPLETE">>]
    BY <1>6, <1>7, <2>2
  <2> QED BY <1>9, <2>1, <2>2 DEF UpdateEnds
<1>10. CASE DeletionEnds(id)
  <2>1. status[id] = "DELETE_IN_PROGRESS" /\ (Enter(id, "DELETE_COMPLETE") \/ Enter(id, "DELETE_FAILED"))
    BY <1>10 DEF DeletionEnds
  <2> QED BY <1>5, <1>7, <2>1
<1> QED BY <1>1, <1>8, <1>9, <1>10

-----------------------------------------------------------------------------
(* Down, and the interrupt that does as it does. *)

(* One of them moves: up finds its stack as it was, or deleted by another. *)
LEMMA OtherMoves ==
    ASSUME StackInv, StacksType', \A i \in 1..2 : Ages(i), UNCHANGED <<current, bucket, live, failures>>,
           NEW p \in {"int", "down"}, proc' \in [Proc -> Process], \A q \in Proc \ {p} : proc'[q] = proc[q],
           proc'[p].pc \in DownPlaces, p = "int" => proc'[p].pc # "start",
           proc'[p].pc \in {"off", "start"} \/ proc'[p].operation = "delete",
           proc'[p].operation = "delete" \/ (proc'[p].operation = proc[p].operation /\ status'[2] = status[2]),
           \A i \in 1..2 : proc'[p].known[i] <= Len(events'[i]), current = 1 => status'[2] = "none",
           p = "down" => /\ proc'[p].waiter \in {"off", "delete", "done"}
                         /\ current = 1 => proc'[p].id = 1
                         /\ DeletionInv'
    PROVE  StackInv'
<1>1. "up" \in Proc /\ "int" \in Proc /\ "down" \in Proc /\ p \in Proc /\ proc'["up"] = proc["up"]
  BY DEF Proc
<1>2. StackType'
  BY DEF StackInv, Structure, StackType
<1>3. Roles'
  <2>1. ASSUME NEW q \in {"int", "down"}, q # p PROVE proc'[q] = proc[q]
    BY <1>1, <2>1
  <2>2. CASE p = "int"
    BY <1>1, <2>1, <2>2 DEF StackInv, Structure, Roles
  <2>3. CASE p = "down"
    BY <1>1, <2>1, <2>3 DEF StackInv, Structure, Roles
  <2> QED BY <2>2, <2>3
<1>4. Ids'
  <2>1. \A q \in Proc, i \in 1..2 : proc'[q].known[i] <= Len(events'[i])
    BY <1>1, <1>2, OthersKnown
  <2>2. current = 1 => proc'["down"].id = 1
    BY <1>1 DEF StackInv, Structure, Ids
  <2> QED BY <1>1, <2>1, <2>2 DEF StackInv, Structure, Ids
<1>5. CreationInv'
  <2>1. DeletedByOther => DeletedByOther'
    <3>1. CASE p = "int"
      BY <1>1, <3>1 DEF DeletedByOther
    <3>2. CASE p = "down"
      BY <1>1, <3>2 DEF DeletedByOther
    <3> QED BY <3>1, <3>2
  <2>2. proc'[p].operation = "delete" => Over'
    BY DEF Over, DeletedByOther
  <2>3. status[2] = "CREATE_IN_PROGRESS" => status'[2] = "CREATE_IN_PROGRESS" \/ Over'
    BY <2>2
  <2>4. Ages(2) /\ current' = current /\ (live' => live)
    OBVIOUS
  <2> QED BY <1>1, <1>2, <2>1, <2>3, <2>4, CreationFrame
<1>6. DeletionInv'
  <2>1. CASE p = "int"
    BY <1>1, <1>2, <2>1, DeletionFrame
  <2>2. CASE p = "down"
    BY <2>2
  <2> QED BY <2>1, <2>2
<1>7. BucketHeld'
  BY <1>1 DEF StackInv, BucketHeld
<1> QED BY <1>2, <1>3, <1>4, <1>5, <1>6, <1>7 DEF StackInv, Structure

(* One of them returns. *)
LEMMA OtherReturns ==
    ASSUME StackInv, UNCHANGED <<current, status, events, bucket, live, failures>>, NEW p \in {"int", "down"},
           NEW pc \in {"done", "failed"}, Return(p, pc), proc[p].operation = "delete",
           p = "down" /\ pc = "done" => SuccessIsDeleted'
    PROVE  StackInv'
<1>1. p \in Proc /\ pc \in Place /\ StackType
  BY DEF Proc, Place, Ended, StackInv, Structure
<1>2. /\ proc' \in [Proc -> Process] /\ \A q \in Proc \ {p} : proc'[q] = proc[q]
      /\ proc'[p].pc = pc /\ proc'[p].waiter = "off" /\ Alike(proc'[p], proc[p])
  BY <1>1, ReturnFacts
<1>3. StacksType' /\ (\A i \in 1..2 : Ages(i)) /\ StackType'
  BY <1>2, StacksIdle DEF StackInv, Structure, StackType
<1>4. proc'[p].operation = "delete" /\ proc'[p].known = proc[p].known /\ proc'[p].id = proc[p].id
  BY <1>2 DEF Alike
<1>5. \A i \in 1..2 : proc'[p].known[i] <= Len(events'[i])
  BY <1>1, <1>3, <1>4, KnownFrame
<1>6. pc \in DownPlaces /\ pc # "start" /\ pc \notin {"wait", "loop", "check"}
  BY DEF DownPlaces, Ended
<1>7. (current = 1 => status'[2] = "none") /\ (p = "down" /\ current = 1 => proc'[p].id = 1)
  BY <1>4 DEF StackInv, Structure, Ids
<1>8. p = "down" => DeletionInv'
  BY <1>2, <1>6 DEF DeletionInv, DeletionKnown, DeletionOver, DeletionSeen, SuccessIsDeleted
<1> QED BY <1>2, <1>3, <1>4, <1>5, <1>6, <1>7, <1>8, OtherMoves

(* One of them goes on, and no stack changes. *)
LEMMA OtherGoesOn ==
    ASSUME StackInv, UNCHANGED <<current, status, events, bucket, live, failures>>, NEW p \in {"int", "down"},
           NEW s \in Process, proc' = [proc EXCEPT ![p] = s], s.pc \in DownPlaces \ {"off", "start"}, s.operation = "delete",
           \A i \in 1..2 : s.known[i] <= Len(events[i]),
           p = "down" => s.waiter \in {"off", "delete", "done"} /\ (current = 1 => s.id = 1) /\ DeletionInv'
    PROVE  StackInv'
<1>1. proc' \in [Proc -> Process] /\ proc'[p] = s /\ \A q \in Proc \ {p} : proc'[q] = proc[q]
  BY DEF StackInv, Structure, StackType, Proc
<1>2. StacksType' /\ \A i \in 1..2 : Ages(i)
  BY StacksIdle
<1>3. current = 1 => status'[2] = "none"
  BY DEF StackInv, Structure, Ids
<1> QED BY <1>1, <1>2, <1>3, OtherMoves

(* The fields of one of them at a call of its own. *)
LEMMA OtherFields ==
    ASSUME StackInv, NEW p \in {"int", "down"}
    PROVE  /\ p \in Proc /\ proc[p] \in Process
           /\ \A i \in 1..2 : proc[p].known[i] \in Nat /\ proc[p].known[i] <= Len(events[i])
           /\ proc[p].pc \notin {"off", "start"} => proc[p].operation = "delete"
           /\ p = "down" => proc[p].waiter \in {"off", "delete", "done"} /\ (current = 1 => proc[p].id = 1)
<1>1. p \in Proc /\ proc[p] \in Process
  BY DEF Proc, StackInv, Structure, StackType
<1>2. proc[p].known \in [1..2 -> Nat]
  BY <1>1 DEF Process
<1>3. \A i \in 1..2 : proc[p].known[i] \in Nat /\ proc[p].known[i] <= Len(events[i])
  BY <1>1, <1>2 DEF StackInv, Structure, Ids
<1>4. proc[p].pc \notin {"off", "start"} => proc[p].operation = "delete"
  BY DEF StackInv, Structure, Roles
<1>5. p = "down" => proc[p].waiter \in {"off", "delete", "done"} /\ (current = 1 => proc[p].id = 1)
  BY DEF StackInv, Structure, Roles, Ids
<1> QED BY <1>1, <1>3, <1>4, <1>5

(* A command that begins. *)
LEMMA DownBegins == ASSUME StackInv, HandleSignal \/ DownStarts PROVE StackInv'
<1>1. UNCHANGED <<current, status, events, bucket, live, failures>>
  BY DEF HandleSignal, DownStarts
<1>2. PICK p \in {"int", "down"} : BeginDown(p)
  BY DEF HandleSignal, DownStarts
<1>3. /\ \A i \in 1..2 : proc[p].known[i] <= Len(events[i])
      /\ p = "down" => proc[p].waiter \in {"off", "delete", "done"} /\ (current = 1 => proc[p].id = 1)
  BY OtherFields
<1>4. PICK r \in Process : r = proc[p]
  BY OtherFields
<1> DEFINE s == [r EXCEPT !.pc = "list", !.operation = "delete"]
<1>5. s \in Process /\ s.pc = "list" /\ s.operation = "delete" /\ s.known = r.known /\ s.waiter = r.waiter /\ s.id = r.id
  BY DEF Process, Place
<1>6. proc' = [proc EXCEPT ![p] = s]
  BY <1>2, <1>4 DEF BeginDown
<1> HIDE DEF s
<1>7. p = "down" => DeletionInv'
  <2>1. p = "down" => proc'["down"].pc = "list"
    BY <1>5, <1>6 DEF StackInv, Structure, StackType, Proc
  <2> QED BY <2>1 DEF DeletionInv, DeletionKnown, DeletionOver, DeletionSeen, SuccessIsDeleted
<1>8. "list" \in DownPlaces \ {"off", "start"}
  BY DEF DownPlaces
<1> QED BY <1>1, <1>3, <1>4, <1>5, <1>6, <1>7, <1>8, OtherGoesOn

(* The calls before the deletion. *)
LEMMA DownPrepares ==
    ASSUME StackInv, NEW p \in {"int", "down"}, FindCapacity(p) \/ DeleteCapacity(p) \/ previousStackEvents(p)
    PROVE  StackInv'
<1>1. UNCHANGED <<current, status, events, bucket, live, failures>> /\ proc[p].pc \in {"list", "capacity", "previous"}
  BY DEF FindCapacity, DeleteCapacity, previousStackEvents
<1>2. /\ \A i \in 1..2 : proc[p].known[i] \in Nat /\ proc[p].known[i] <= Len(events[i])
      /\ proc[p].operation = "delete"
      /\ p = "down" => proc[p].waiter \in {"off", "delete", "done"} /\ (current = 1 => proc[p].id = 1)
  BY <1>1, OtherFields
<1>3. PICK r \in Process : r = proc[p]
  BY OtherFields
<1>4. CASE Return(p, "failed")
  <2>1. "failed" \in {"done", "failed"} /\ "failed" # "done"
    OBVIOUS
  <2> QED BY <1>1, <1>2, <1>4, <2>1, OtherReturns
<1>5. ASSUME NEW s \in Process, proc' = [proc EXCEPT ![p] = s], s.pc \in {"capacity", "previous", "delete"}, s.operation = "delete",
             s.waiter = r.waiter, s.id = r.id, \A i \in 1..2 : s.known[i] <= Len(events[i])
      PROVE  StackInv'
  <2>1. p = "down" => DeletionInv'
    <3>1. p = "down" => proc'["down"].pc \in {"capacity", "previous", "delete"}
      BY <1>5 DEF StackInv, Structure, StackType, Proc
    <3> QED BY <3>1 DEF DeletionInv, DeletionKnown, DeletionOver, DeletionSeen, SuccessIsDeleted
  <2>2. s.pc \in DownPlaces \ {"off", "start"}
    BY <1>5 DEF DownPlaces
  <2> QED BY <1>1, <1>2, <1>3, <1>5, <2>1, <2>2, OtherGoesOn
<1>6. ASSUME NEW pc \in {"capacity", "previous"}, Step(p, pc) PROVE StackInv'
  <2> DEFINE s == [r EXCEPT !.pc = pc]
  <2>1. s \in Process /\ s.pc = pc /\ s.operation = r.operation /\ s.waiter = r.waiter /\ s.id = r.id /\ s.known = r.known
    BY DEF Process, Place
  <2>2. proc' = [proc EXCEPT ![p] = s]
    BY <1>3, <1>6 DEF Step
  <2> HIDE DEF s
  <2> QED BY <1>2, <1>3, <1>5, <2>1, <2>2
<1>7. ASSUME proc' = [proc EXCEPT ![p].pc = "delete", ![p].known[current] = Len(events[current])] PROVE StackInv'
  <2>1. current \in 1..2 /\ Len(events[current]) \in Nat /\ r.known \in [1..2 -> Nat]
    <3>1. current \in 1..2 /\ Len(events[current]) \in Nat
      BY DEF StackInv, Structure, StackType, StacksType
    <3>2. r.known \in [1..2 -> Nat]
      BY DEF Process
    <3> QED BY <3>1, <3>2
  <2>2. PICK k \in [1..2 -> Nat] : k = [r.known EXCEPT ![current] = Len(events[current])]
    BY <2>1
  <2>3. \A i \in 1..2 : k[i] <= Len(events[i])
    BY <1>2, <1>3, <2>1, <2>2
  <2> DEFINE s == [r EXCEPT !.pc = "delete", !.known = k]
  <2>4. s \in Process /\ s.pc = "delete" /\ s.operation = r.operation /\ s.waiter = r.waiter /\ s.id = r.id /\ s.known = k
    BY DEF Process, Place
  <2>5. proc' = [proc EXCEPT ![p] = s]
    BY <1>3, <1>7, <2>2 DEF Process
  <2> HIDE DEF s
  <2> QED BY <1>2, <1>3, <1>5, <2>3, <2>4, <2>5
<1>8. CASE FindCapacity(p)
  BY <1>4, <1>6, <1>8 DEF FindCapacity
<1>9. CASE DeleteCapacity(p)
  BY <1>4, <1>6, <1>9 DEF DeleteCapacity
<1>10. CASE previousStackEvents(p)
  BY <1>4, <1>7, <1>10 DEF previousStackEvents
<1> QED BY <1>8, <1>9, <1>10

(* What a deletion does to the stack that has the name. *)
LEMMA DeleteFacts ==
    ASSUME StackInv, Delete
    PROVE  /\ StacksType' /\ \A i \in 1..2 : Ages(i)
           /\ status'[current] # "DELETE_FAILED"
           /\ \A i \in 1..2 \ {current} : status'[i] = status[i]
<1>1. current \in 1..2 /\ StacksType /\ "DELETE_IN_PROGRESS" \in StackStatus
  BY DEF StackInv, Structure, StackType, StackStatus
<1>2. CASE Exists /\ status[current] # "DELETE_IN_PROGRESS"
  <2>1. Enter(current, "DELETE_IN_PROGRESS") /\ status[current] # "DELETE_COMPLETE"
    BY <1>2 DEF Delete, Exists, Gone
  <2> QED BY <1>1, <2>1, EnterFacts
<1>3. CASE ~(Exists /\ status[current] # "DELETE_IN_PROGRESS")
  <2>1. UNCHANGED <<status, events>> /\ status[current] # "DELETE_FAILED"
    BY <1>3 DEF Delete, Exists, Gone
  <2> QED BY <2>1, StacksIdle
<1> QED BY <1>2, <1>3

(* The deletion. *)
LEMMA DownDeletes == ASSUME StackInv, NEW p \in {"int", "down"}, DeleteStack(p) PROVE StackInv'
<1>1. UNCHANGED <<current, bucket, live, failures>> /\ proc[p].pc = "delete"
  BY DEF DeleteStack
<1>2. /\ p \in Proc /\ proc[p].operation = "delete"
      /\ p = "down" => proc[p].waiter \in {"off", "delete", "done"} /\ (current = 1 => proc[p].id = 1)
  BY <1>1, OtherFields
<1>3. CASE Return(p, "failed") /\ UNCHANGED <<status, events>>
  <2>1. "failed" \in {"done", "failed"} /\ "failed" # "done"
    OBVIOUS
  <2> QED BY <1>1, <1>2, <1>3, <2>1, OtherReturns
<1>4. CASE Delete /\ Step(p, "wait")
  <2>1. /\ proc' \in [Proc -> Process] /\ \A q \in Proc \ {p} : proc'[q] = proc[q]
        /\ proc'[p].pc = "wait" /\ proc'[p].waiter = proc[p].waiter /\ Alike(proc'[p], proc[p])
    BY <1>2, <1>4, StepFacts DEF StackInv, Structure, Place
  <2>2. /\ StacksType' /\ \A i \in 1..2 : Ages(i)
        /\ status'[current] # "DELETE_FAILED" /\ \A i \in 1..2 \ {current} : status'[i] = status[i]
    BY <1>4, DeleteFacts
  <2>3. StackType'
    BY <1>1, <2>1, <2>2 DEF StackInv, Structure, StackType
  <2>4. proc'[p].known = proc[p].known /\ proc'[p].operation = "delete" /\ proc'[p].id = proc[p].id
    BY <1>2, <2>1 DEF Alike
  <2>5. \A i \in 1..2 : proc'[p].known[i] <= Len(events'[i])
    BY <1>2, <2>2, <2>3, <2>4, KnownFrame
  <2>6. current = 1 => status'[2] = "none"
    BY <2>2 DEF StackInv, Structure, Ids
  <2>7. p = "down" => DeletionInv'
    BY <1>1, <2>1, <2>2 DEF DeletionInv, DeletionKnown, DeletionOver, DeletionSeen, SuccessIsDeleted
  <2>8. "wait" \in DownPlaces /\ "wait" # "start"
    BY DEF DownPlaces, Waiting
  <2> QED BY <1>1, <1>2, <2>1, <2>2, <2>4, <2>5, <2>6, <2>7, <2>8, OtherMoves
<1> QED BY <1>3, <1>4 DEF DeleteStack

-----------------------------------------------------------------------------
(* WaitStackCompletion. *)

(* An event that was not seen is a new one. *)
LEMMA NewFacts ==
    ASSUME StackInv, NEW p \in Proc, NEW e, Unseen(p, proc[p].id, e)
    PROVE  \E j \in DOMAIN New(p) : New(p)[j] = e
<1>1. PICK id \in 1..2 : id = proc[p].id
  BY DEF StackInv, Structure, StackType, Process
<1>2. PICK t \in Seq(StackStatus) : t = events[id]
  BY DEF StackInv, Structure, StackType, StacksType
<1>3. PICK k \in Nat : k = proc[p].known[id]
  <2>1. proc[p].known \in [1..2 -> Nat]
    BY DEF StackInv, Structure, StackType, Process
  <2> QED BY <2>1
<1>4. PICK i \in DOMAIN t : k < i /\ t[i] = e
  BY <1>1, <1>2, <1>3 DEF Unseen
<1>5. New(p) = SubSeq(t, k + 1, Len(t))
  BY <1>1, <1>2, <1>3 DEF New
<1>6. i - k \in DOMAIN SubSeq(t, k + 1, Len(t)) /\ SubSeq(t, k + 1, Len(t))[i - k] = t[i]
  BY <1>4
<1> QED BY <1>4, <1>5, <1>6

(* Up goes on waiting, and no stack changes. *)
LEMMA UpWaits ==
    ASSUME StackInv, UNCHANGED <<current, status, events, bucket, live, failures>>, proc["up"].pc \in Waiting,
           NEW s \in Process, proc' = [proc EXCEPT !["up"] = s], s.pc \in {"loop", "check"},
           \A i \in 1..2 : s.known[i] <= Len(events[i]), s.operation # "none", s.operation = "create" => CreationInv'
    PROVE  StackInv'
<1>1. "up" \in Proc /\ proc' \in [Proc -> Process] /\ proc'["up"] = s /\ \A q \in Proc \ {"up"} : proc'[q] = proc[q]
  BY DEF StackInv, Structure, StackType, Proc
<1>2. StacksType' /\ (\A i \in 1..2 : Ages(i)) /\ NameKept
  BY StacksIdle DEF NameKept
<1>3. s.pc \in UpPlaces \ Ended /\ s.pc \notin Before /\ s.pc # "execute" /\ proc["up"].pc \notin Before
  BY DEF UpPlaces, Waiting, Ended, Before
<1>4. Structure' /\ DeletionInv' /\ (s.operation # "create" => CreationInv')
  BY <1>1, <1>2, <1>3, UpMoves
<1>5. BucketHeld'
  BY <1>1, <1>3 DEF StackInv, BucketHeld, Before
<1> QED BY <1>4, <1>5 DEF StackInv

(* A process fails while it waits, and no stack changes. *)
LEMMA WaitFails ==
    ASSUME StackInv, NEW p \in Proc, proc[p].pc \in Waiting, Return(p, "failed"),
           UNCHANGED <<current, status, events, bucket, live, failures>>
    PROVE  StackInv'
<1>1. CASE p = "up"
  <2>1. bucket' = "none" \/ failures \/ ~live
    BY <1>1 DEF StackInv, BucketHeld, Before, Waiting
  <2> QED BY <1>1, <2>1, UpFails
<1>2. CASE p \in {"int", "down"}
  <2>1. "failed" \in {"done", "failed"} /\ "failed" # "done"
    OBVIOUS
  <2>2. proc[p].operation = "delete"
    BY <1>2, OtherFields DEF Waiting
  <2> QED BY <1>2, <2>1, <2>2, OtherReturns
<1> QED BY <1>1, <1>2 DEF Proc

(* The id of the stack, and its waiter. *)
LEMMA WaitBegins == ASSUME StackInv, NEW p \in Proc, GetStackID(p) PROVE StackInv'
<1>1. UNCHANGED <<current, status, events, bucket, live, failures>> /\ proc[p].pc = "wait"
  BY DEF GetStackID
<1>2. CASE Return(p, "failed")
  BY <1>1, <1>2, WaitFails DEF Waiting
<1>3. ASSUME proc' = [proc EXCEPT ![p].pc = "loop", ![p].id = current, ![p].waiter = proc[p].operation],
             proc[p].operation \in {"create", "update", "delete"}
      PROVE  StackInv'
  <2>1. PICK r \in Process : r = proc[p]
    BY DEF StackInv, Structure, StackType
  <2> DEFINE s == [r EXCEPT !.pc = "loop", !.id = current, !.waiter = r.operation]
  <2>2. /\ s \in Process /\ s.pc = "loop" /\ s.id = current /\ s.waiter = r.operation /\ s.operation = r.operation
        /\ s.known = r.known /\ s.failed = r.failed
    BY <1>3, <2>1 DEF Process, Place, StackInv, Structure, StackType
  <2>3. proc' = [proc EXCEPT ![p] = s]
    BY <1>3, <2>1
  <2> HIDE DEF s
  <2>4. proc'[p] = s /\ \A q \in Proc \ {p} : proc'[q] = proc[q]
    BY <2>2, <2>3 DEF StackInv, Structure, StackType
  <2>5. \A i \in 1..2 : s.known[i] <= Len(events[i])
    BY <2>1, <2>2 DEF StackInv, Structure, Ids
  <2>6. CASE p = "up"
    <3>1. s.operation = "create" => CreationInv'
      <4>1. SUFFICES ASSUME s.operation = "create" PROVE CreationInv'
        OBVIOUS
      <4>2. Creating /\ proc'["up"] = s /\ current = 2 /\ ~r.failed
        BY <1>1, <2>1, <2>2, <2>4, <2>6, <4>1 DEF Creating, Waiting, StackInv, CreationInv, CreationIds
      <4>3. Over => Over'
        BY <1>1, <2>1, <2>2, <2>4, <2>6 DEF Over, DeletedByOther, Happened, Unseen, Proc
      <4>4. CreationIds' /\ WaiterTells' /\ CheckTells' /\ SuccessIsCreated'
        BY <1>1, <2>1, <2>2, <4>1, <4>2 DEF CreationIds, WaiterTells, CheckTells, SuccessIsCreated
      <4>5. CreationKnown'
        BY <1>1, <4>2, <4>3 DEF StackInv, CreationInv, CreationKnown
      <4> QED BY <4>4, <4>5 DEF CreationInv
    <3>2. s.operation # "none"
      BY <1>3, <2>1, <2>2
    <3> QED BY <1>1, <2>2, <2>3, <2>5, <2>6, <3>1, <3>2, UpWaits DEF Waiting
  <2>7. CASE p \in {"int", "down"}
    <3>1. r.operation = "delete"
      BY <1>1, <2>1, <2>7, OtherFields
    <3>2. p = "down" => DeletionInv'
      <4>1. SUFFICES ASSUME p = "down" PROVE DeletionInv'
        OBVIOUS
      <4>2. Told(current) => Told(current)'
        BY <1>1, <2>1, <2>2, <2>4, <4>1 DEF Told, Unseen
      <4>3. DeletionKnown'
        BY <1>1, <2>1, <2>2, <2>4, <4>1, <4>2 DEF StackInv, DeletionInv, DeletionKnown
      <4>4. DeletionOver' /\ DeletionSeen' /\ SuccessIsDeleted'
        BY <2>2, <2>4, <3>1, <4>1 DEF DeletionOver, DeletionSeen, SuccessIsDeleted
      <4> QED BY <4>3, <4>4 DEF DeletionInv
    <3>3. "loop" \in DownPlaces \ {"off", "start"}
      BY DEF DownPlaces, Waiting, Ended
    <3> QED BY <1>1, <2>2, <2>3, <2>5, <2>7, <3>1, <3>2, <3>3, OtherGoesOn
  <2> QED BY <2>6, <2>7 DEF Proc
<1>4. CASE proc' = [proc EXCEPT ![p].pc = "loop", ![p].id = current, ![p].waiter = proc[p].operation]
  <2>1. proc[p].operation # "none"
    <3>1. CASE p = "up"
      BY <1>1, <3>1 DEF StackInv, Structure, Roles, Undecided, Ended
    <3>2. CASE p \in {"int", "down"}
      BY <1>1, <3>2, OtherFields
    <3> QED BY <3>1, <3>2 DEF Proc
  <2>2. proc[p].operation \in {"none", "create", "update", "delete"}
    BY DEF StackInv, Structure, StackType, Process
  <2> QED BY <1>3, <1>4, <2>1, <2>2
<1> QED BY <1>2, <1>4 DEF GetStackID

(* The process after a round: it has seen all events, and a failure among those that were new is its result. *)
LEMMA RoundFacts ==
    ASSUME StackInv, NEW p \in Proc, NEW b \in BOOLEAN,
           proc' = [proc EXCEPT ![p].known[proc[p].id] = Len(events[proc[p].id]),
                                ![p].failed = @ \/ b,
                                ![p].operation = IF b THEN "delete" ELSE @,
                                ![p].completed = proc[p].waiter = "done",
                                ![p].pc = "check"]
    PROVE  \E s \in Process :
             /\ proc' = [proc EXCEPT ![p] = s] /\ s.pc = "check"
             /\ \A i \in 1..2 : s.known[i] <= Len(events[i])
             /\ s.failed = (proc[p].failed \/ b) /\ s.operation = IF b THEN "delete" ELSE proc[p].operation
             /\ s.completed = (proc[p].waiter = "done")
             /\ s.id = proc[p].id /\ s.waiter = proc[p].waiter /\ s.gaveUp = proc[p].gaveUp
<1>1. PICK r \in Process : r = proc[p]
  BY DEF StackInv, Structure, StackType
<1>2. r.id \in 1..2 /\ Len(events[r.id]) \in Nat /\ r.known \in [1..2 -> Nat]
  BY DEF StackInv, Structure, StackType, StacksType, Process
<1>3. \A i \in 1..2 : r.known[i] <= Len(events[i])
  BY <1>1 DEF StackInv, Structure, Ids
<1>4. PICK k \in [1..2 -> Nat] : k = [r.known EXCEPT ![r.id] = Len(events[r.id])]
  BY <1>2
<1>5. \A i \in 1..2 : k[i] <= Len(events[i])
  BY <1>2, <1>3, <1>4
<1>6. PICK f \in BOOLEAN : f = (r.failed \/ b)
  BY DEF Process
<1>7. PICK c \in BOOLEAN : c = (r.waiter = "done")
  OBVIOUS
<1>8. PICK o \in {"none", "create", "update", "delete"} : o = IF b THEN "delete" ELSE r.operation
  BY DEF Process
<1> DEFINE s == [r EXCEPT !.known = k, !.failed = f, !.operation = o, !.completed = c, !.pc = "check"]
<1>9. s \in Process /\ s.pc = "check" /\ s.known = k /\ s.operation = o /\ s.id = r.id /\ s.waiter = r.waiter
  BY DEF Process, Place
<1>10. s.failed = f /\ s.completed = c /\ s.gaveUp = r.gaveUp
  BY DEF Process
<1>11. proc' = [proc EXCEPT ![p] = s]
  BY <1>1, <1>4, <1>6, <1>7, <1>8 DEF Process, StackInv, Structure, StackType
<1> HIDE DEF s
<1> QED BY <1>1, <1>5, <1>6, <1>7, <1>8, <1>9, <1>10, <1>11

(* A round reads what happened: no failure is missed by a process whose waiter is done. *)
LEMMA RoundReads == ASSUME StackInv, NEW p \in Proc, CollectEvents(p) PROVE StackInv'
<1>1. UNCHANGED <<current, status, events, bucket, live, failures>> /\ proc[p].pc = "loop"
  BY DEF CollectEvents
<1>2. CASE Return(p, "failed")
  BY <1>1, <1>2, WaitFails DEF Waiting
<1>3. CASE ~Return(p, "failed")
  <2> DEFINE b == \E j \in DOMAIN New(p) : Failed(New(p)[j])
  <2>1. b \in BOOLEAN /\ CanCall(p)
    BY <1>3 DEF CollectEvents
  <2>2. \A e \in {"CREATE_FAILED", "DELETE_FAILED"} : Unseen(p, proc[p].id, e) => b
    <3>1. ASSUME NEW e \in {"CREATE_FAILED", "DELETE_FAILED"}, Unseen(p, proc[p].id, e) PROVE b
      <4>1. \E j \in DOMAIN New(p) : New(p)[j] = e
        BY <3>1, NewFacts
      <4> QED BY <4>1 DEF Failed
    <3> HIDE DEF b
    <3> QED BY <3>1
  <2>3. proc' = [proc EXCEPT ![p].known[proc[p].id] = Len(events[proc[p].id]), ![p].failed = @ \/ b,
                             ![p].operation = IF b THEN "delete" ELSE @, ![p].completed = proc[p].waiter = "done", ![p].pc = "check"]
    BY <1>3 DEF CollectEvents
  <2> HIDE DEF b
  <2>4. PICK s \in Process :
          /\ proc' = [proc EXCEPT ![p] = s] /\ s.pc = "check"
          /\ \A i \in 1..2 : s.known[i] <= Len(events[i])
          /\ s.failed = (proc[p].failed \/ b) /\ s.operation = IF b THEN "delete" ELSE proc[p].operation
          /\ s.completed = (proc[p].waiter = "done")
          /\ s.id = proc[p].id /\ s.waiter = proc[p].waiter /\ s.gaveUp = proc[p].gaveUp
    BY <2>1, <2>3, RoundFacts
  <2>5. proc'[p] = s /\ \A q \in Proc \ {p} : proc'[q] = proc[q]
    BY <2>4 DEF StackInv, Structure, StackType
  <2>6. CASE p = "up"
    <3>1. s.operation # "none"
      BY <1>1, <2>4, <2>6 DEF StackInv, Structure, Roles, Undecided, Ended
    <3>2. ASSUME s.operation = "create" PROVE CreationInv'
      <4>1. ~b /\ proc["up"].operation = "create" /\ proc'["up"] = s
        BY <2>4, <2>5, <2>6, <3>2
      <4>2. /\ Creating /\ current = 2 /\ ~proc["up"].failed
            /\ proc["up"].id = 2 /\ proc["up"].waiter \in {"create", "done"}
        BY <1>1, <2>6, <4>1 DEF Creating, Waiting, StackInv, CreationInv, CreationIds
      <4>3. ~Unseen("up", 2, "CREATE_FAILED")
        BY <2>2, <2>6, <4>1, <4>2
      <4>4. DeletedByOther \/ Happened(2, "CREATE_COMPLETE") => (DeletedByOther \/ Happened(2, "CREATE_COMPLETE"))'
        BY <1>1, <2>5, <2>6 DEF DeletedByOther, Happened, Proc
      <4>5. Over => Over' /\ (DeletedByOther \/ Happened(2, "CREATE_COMPLETE"))'
        BY <4>3, <4>4 DEF Over
      <4>6. CreationIds'
        BY <1>1, <2>4, <2>6, <4>1, <4>2 DEF CreationIds
      <4>7. CreationKnown'
        BY <1>1, <4>2, <4>5 DEF StackInv, CreationInv, CreationKnown
      <4>8. proc["up"].waiter = "done" /\ ~proc["up"].gaveUp => Over
        BY <1>1, <2>1, <2>6, <4>2 DEF StackInv, CreationInv, WaiterTells, CanCall
      <4>9. WaiterTells' /\ CheckTells'
        BY <2>4, <2>6, <4>1, <4>5, <4>8 DEF WaiterTells, CheckTells
      <4>10. SuccessIsCreated'
        BY <2>4, <4>1 DEF SuccessIsCreated
      <4> QED BY <4>6, <4>7, <4>9, <4>10 DEF CreationInv
    <3> QED BY <1>1, <2>4, <2>6, <3>1, <3>2, UpWaits DEF Waiting
  <2>7. CASE p \in {"int", "down"}
    <3>1. /\ proc[p].operation = "delete" /\ s.operation = "delete"
          /\ p = "down" => s.waiter \in {"off", "delete", "done"} /\ (current = 1 => s.id = 1)
      BY <1>1, <2>4, <2>7, OtherFields
    <3>2. ASSUME p = "down" PROVE DeletionInv'
      <4>1. proc'["down"] = s /\ s.id = proc["down"].id /\ s.waiter = proc["down"].waiter /\ s.gaveUp = proc["down"].gaveUp
        BY <2>4, <2>5, <3>2
      <4>2. Told(s.id) => s.failed
        BY <2>2, <2>4, <3>2, <4>1 DEF Told
      <4>3. DeletionKnown'
        BY <1>1, <2>4, <3>2, <4>1, <4>2 DEF StackInv, DeletionInv, DeletionKnown, Told
      <4>4. s.waiter = "done" /\ ~s.gaveUp => status[s.id] = "DELETE_COMPLETE" \/ s.failed
        BY <1>1, <3>2, <4>1, <4>2 DEF StackInv, DeletionInv, DeletionOver
      <4>5. DeletionOver'
        BY <1>1, <4>1, <4>4 DEF DeletionOver, Told
      <4>6. s.completed => s.waiter = "done"
        BY <2>4
      <4>7. DeletionSeen' /\ SuccessIsDeleted'
        BY <1>1, <2>4, <4>1, <4>4, <4>6 DEF DeletionSeen, SuccessIsDeleted
      <4> QED BY <4>3, <4>5, <4>7 DEF DeletionInv
    <3>3. "check" \in DownPlaces \ {"off", "start"}
      BY DEF DownPlaces, Waiting, Ended
    <3> QED BY <1>1, <2>4, <2>7, <3>1, <3>2, <3>3, OtherGoesOn
  <2> QED BY <2>6, <2>7 DEF Proc
<1> QED BY <1>2, <1>3

(* The end of a round: the process ends when its waiter was done before it looked, else there is another. *)
LEMMA RoundEnds ==
    ASSUME StackInv, NEW p \in Proc, proc[p].pc = "check", Again(p), UNCHANGED <<current, status, events, bucket, live, failures>>
    PROVE  StackInv'
<1>1. CASE proc[p].completed /\ proc[p].failed
  BY <1>1, WaitFails DEF Again, Waiting
<1>2. CASE proc[p].completed /\ ~proc[p].failed
  <2>1. Return(p, "done") /\ "done" \in {"done", "failed"}
    BY <1>2 DEF Again
  <2>2. /\ \A q \in Proc : Alike(proc'[q], proc[q])
        /\ proc'[p].pc = "done"
    BY <2>1, ReturnFacts DEF StackInv, Structure, Place, Ended
  <2>3. CASE p = "up"
    <3>1. /\ proc'["up"].operation = proc["up"].operation /\ proc'["up"].gaveUp = proc["up"].gaveUp
          /\ DeletedByOther => DeletedByOther'
      BY <2>2 DEF Alike, DeletedByOther, Proc
    <3>2. Happened(2, "CREATE_COMPLETE") => Happened(2, "CREATE_COMPLETE")'
      BY DEF Happened
    <3>3. SuccessIsCreated'
      <4>1. SUFFICES ASSUME proc["up"].operation = "create", ~proc["up"].gaveUp
                     PROVE  (DeletedByOther \/ Happened(2, "CREATE_COMPLETE"))'
        BY <3>1 DEF SuccessIsCreated, DeletedByOther, Happened
      <4>2. DeletedByOther \/ Happened(2, "CREATE_COMPLETE")
        BY <1>2, <2>3, <4>1 DEF StackInv, CreationInv, CheckTells, Creating, Waiting
      <4> QED BY <3>1, <3>2, <4>2
    <3>4. StacksType' /\ (\A i \in 1..2 : Ages(i)) /\ NameKept
      BY StacksIdle DEF NameKept
    <3>5. Structure' /\ CreationInv' /\ DeletionInv' /\ proc'["up"].pc = "done"
      BY <2>1, <2>3, <3>3, <3>4, UpReturns
    <3>6. BucketHeld'
      BY <2>3, <3>5 DEF StackInv, BucketHeld, Before
    <3> QED BY <3>5, <3>6 DEF StackInv
  <2>4. CASE p \in {"int", "down"}
    <3>1. proc[p].operation = "delete"
      BY <2>4, OtherFields
    <3>2. p = "down" => SuccessIsDeleted'
      BY <1>2, <2>2 DEF StackInv, DeletionInv, DeletionSeen, SuccessIsDeleted, Alike
    <3> QED BY <2>1, <2>4, <3>1, <3>2, OtherReturns
  <2> QED BY <2>3, <2>4 DEF Proc
<1>3. CASE ~proc[p].completed
  <2>1. PICK r \in Process : r = proc[p]
    BY DEF StackInv, Structure, StackType
  <2> DEFINE s == [r EXCEPT !.pc = "loop"]
  <2>2. s \in Process /\ s.pc = "loop" /\ s.waiter = r.waiter /\ Alike(s, r)
    BY MovedProcess DEF Place
  <2>3. proc' = [proc EXCEPT ![p] = s]
    BY <1>3, <2>1 DEF Again, Step
  <2> HIDE DEF s
  <2>4. proc'[p] = s /\ \A q \in Proc \ {p} : proc'[q] = proc[q]
    BY <2>2, <2>3 DEF StackInv, Structure, StackType
  <2>5. \A i \in 1..2 : s.known[i] <= Len(events[i])
    BY <2>1, <2>2 DEF StackInv, Structure, Ids, Alike
  <2>6. CASE p = "up"
    <3>1. s.operation # "none"
      BY <2>1, <2>2, <2>6 DEF StackInv, Structure, Roles, Undecided, Ended, Alike
    <3>2. ASSUME s.operation = "create" PROVE CreationInv'
      <4>1. proc'["up"] = s /\ Creating
        BY <2>1, <2>2, <2>4, <2>6, <3>2 DEF Creating, Waiting, Alike
      <4>2. Over => Over'
        BY <2>1, <2>2, <2>4, <2>6 DEF Over, DeletedByOther, Happened, Unseen, Proc, Alike
      <4>3. CreationIds'
        BY <2>1, <2>2, <2>6, <4>1 DEF StackInv, CreationInv, CreationIds, Alike
      <4>4. CreationKnown'
        BY <4>1, <4>2 DEF StackInv, CreationInv, CreationKnown
      <4>5. WaiterTells'
        BY <2>1, <2>2, <2>6, <4>1, <4>2 DEF StackInv, CreationInv, WaiterTells, Alike
      <4>6. CheckTells' /\ SuccessIsCreated'
        BY <2>2, <4>1 DEF CheckTells, SuccessIsCreated
      <4> QED BY <4>3, <4>4, <4>5, <4>6 DEF CreationInv
    <3> QED BY <2>2, <2>3, <2>5, <2>6, <3>1, <3>2, UpWaits DEF Waiting
  <2>7. CASE p \in {"int", "down"}
    <3>1. /\ s.operation = "delete"
          /\ p = "down" => s.waiter \in {"off", "delete", "done"} /\ (current = 1 => s.id = 1)
      BY <2>1, <2>2, <2>7, OtherFields DEF Alike
    <3>2. ASSUME p = "down" PROVE DeletionInv'
      <4>1. /\ proc'["down"] = s /\ s.id = proc["down"].id /\ s.waiter = proc["down"].waiter /\ s.gaveUp = proc["down"].gaveUp
            /\ s.failed = proc["down"].failed /\ s.known = proc["down"].known
        BY <2>1, <2>2, <2>4, <3>2 DEF Alike
      <4>2. \A id : Told(id) => Told(id)'
        BY <4>1 DEF Told, Unseen
      <4>3. DeletionKnown'
        BY <2>2, <3>2, <4>1, <4>2 DEF StackInv, DeletionInv, DeletionKnown
      <4>4. DeletionOver'
        BY <2>2, <3>2, <4>1, <4>2 DEF StackInv, DeletionInv, DeletionOver
      <4>5. DeletionSeen' /\ SuccessIsDeleted'
        BY <2>2, <4>1 DEF DeletionSeen, SuccessIsDeleted
      <4> QED BY <4>3, <4>4, <4>5 DEF DeletionInv
    <3>3. "loop" \in DownPlaces \ {"off", "start"}
      BY DEF DownPlaces, Waiting, Ended
    <3> QED BY <2>2, <2>3, <2>5, <2>7, <3>1, <3>2, <3>3, OtherGoesOn
  <2> QED BY <2>6, <2>7 DEF Proc
<1> QED BY <1>1, <1>2, <1>3

(* The check of the tasks: a stack that will not be stable is deleted, and up does not say that it was created. *)
LEMMA UnstableIsDeleted == ASSUME StackInv, NEW p \in Proc, DeleteUnstable(p) PROVE StackInv'
<1>1. UNCHANGED <<current, bucket, live, failures>> /\ proc[p].pc = "check"
  BY DEF DeleteUnstable
<1>2. CASE Again(p) /\ UNCHANGED <<status, events>>
  BY <1>1, <1>2, RoundEnds
<1>3. CASE Return(p, "failed") /\ UNCHANGED <<status, events>>
  BY <1>1, <1>3, WaitFails DEF Waiting
<1>4. ASSUME Delete, proc[p].operation = "create" PROVE StacksType' /\ (\A i \in 1..2 : Ages(i)) /\ NameKept /\ p = "up" /\ p \in Proc
  <2>1. p \notin {"int", "down"}
    BY <1>1, <1>4, OtherFields
  <2>2. current \in 1..2
    BY DEF StackInv, Structure, StackType
  <2> QED BY <1>1, <1>4, <2>1, <2>2, DeleteFacts DEF NameKept, Proc
<1>5. CASE Delete /\ proc[p].operation = "create" /\ Return(p, "failed")
  <2>1. StacksType' /\ (\A i \in 1..2 : Ages(i)) /\ NameKept /\ p = "up"
    BY <1>4, <1>5
  <2>2. "failed" \in {"done", "failed"} /\ "failed" # "done"
    OBVIOUS
  <2>3. Structure' /\ CreationInv' /\ DeletionInv' /\ proc'["up"].pc = "failed"
    BY <1>1, <1>5, <2>1, <2>2, UpReturns
  <2>4. BucketHeld'
    BY <1>1, <2>1, <2>3 DEF StackInv, BucketHeld, Before
  <2> QED BY <2>3, <2>4 DEF StackInv
<1>6. CASE /\ Delete /\ proc[p].operation = "create"
           /\ proc' = [proc EXCEPT ![p].failed = TRUE, ![p].operation = "delete", ![p].pc = "loop"]
  <2>1. StacksType' /\ (\A i \in 1..2 : Ages(i)) /\ NameKept /\ p = "up"
    BY <1>4, <1>6
  <2>2. PICK r \in Process : r = proc[p]
    BY DEF StackInv, Structure, StackType
  <2> DEFINE s == [r EXCEPT !.failed = TRUE, !.operation = "delete", !.pc = "loop"]
  <2>3. s \in Process /\ s.pc = "loop" /\ s.operation = "delete" /\ s.known = r.known
    BY DEF Process, Place
  <2>4. proc' = [proc EXCEPT ![p] = s]
    BY <1>6, <2>2
  <2> HIDE DEF s
  <2>5. proc' \in [Proc -> Process] /\ proc'["up"] = s /\ \A q \in Proc \ {"up"} : proc'[q] = proc[q]
    BY <2>1, <2>3, <2>4 DEF StackInv, Structure, StackType, Proc
  <2>6. StackType' /\ proc'["up"].known = proc["up"].known
    BY <1>1, <2>1, <2>2, <2>3, <2>5 DEF StackInv, Structure, StackType
  <2>7. \A i \in 1..2 : proc'["up"].known[i] <= Len(events'[i])
    BY <2>1, <2>6, KnownFrame DEF Proc
  <2>8. "loop" \in UpPlaces \ Ended /\ "loop" \notin Before /\ "loop" # "execute" /\ "delete" # "none" /\ "delete" # "create"
    BY DEF UpPlaces, Waiting, Ended, Before
  <2>9. Structure' /\ DeletionInv' /\ CreationInv'
    BY <1>1, <2>1, <2>3, <2>5, <2>7, <2>8, UpMoves
  <2>10. BucketHeld'
    BY <1>1, <2>1, <2>3, <2>5 DEF StackInv, BucketHeld, Before
  <2> QED BY <2>9, <2>10 DEF StackInv
<1> QED BY <1>2, <1>3, <1>5, <1>6 DEF DeleteUnstable

(* A waiter that is done has seen the end, unless it gave up or was cancelled. *)
LEMMA WaiterEnds == ASSUME StackInv, NEW p \in Proc, WaitStackComplete(p) PROVE StackInv'
<1>1. UNCHANGED <<current, status, events, bucket, live, failures>>
  BY DEF WaitStackComplete
<1>2. PICK r \in Process : r = proc[p]
  BY DEF StackInv, Structure, StackType
<1>3. PICK s \in Process :
        /\ proc' = [proc EXCEPT ![p] = s] /\ s.waiter = "done" /\ s.pc = r.pc /\ s.operation = r.operation /\ s.known = r.known
        /\ s.id = r.id /\ s.detach = r.detach /\ s.failed = r.failed /\ s.completed = r.completed
        /\ \/ s.gaveUp
           \/ /\ s.gaveUp = r.gaveUp
              /\ \/ r.waiter = "update"
                 \/ ~CanCall(p)
                 \/ r.waiter = "create" /\ status[r.id] \in {"CREATE_COMPLETE", "DELETE_COMPLETE", "DELETE_FAILED"}
                 \/ r.waiter = "delete" /\ status[r.id] \in {"DELETE_COMPLETE", "DELETE_FAILED"}
  <2>1. CASE proc' = [proc EXCEPT ![p].waiter = "done", ![p].gaveUp = TRUE]
    <3> DEFINE s == [r EXCEPT !.waiter = "done", !.gaveUp = TRUE]
    <3>1. /\ s \in Process /\ s.waiter = "done" /\ s.pc = r.pc /\ s.operation = r.operation /\ s.known = r.known
          /\ s.id = r.id /\ s.detach = r.detach /\ s.failed = r.failed /\ s.completed = r.completed /\ s.gaveUp
      BY DEF Process
    <3>2. proc' = [proc EXCEPT ![p] = s]
      BY <1>2, <2>1
    <3> HIDE DEF s
    <3> QED BY <3>1, <3>2
  <2>2. CASE proc' # [proc EXCEPT ![p].waiter = "done", ![p].gaveUp = TRUE]
    <3> DEFINE s == [r EXCEPT !.waiter = "done"]
    <3>1. /\ s \in Process /\ s.waiter = "done" /\ s.pc = r.pc /\ s.operation = r.operation /\ s.known = r.known
          /\ s.id = r.id /\ s.detach = r.detach /\ s.failed = r.failed /\ s.completed = r.completed /\ s.gaveUp = r.gaveUp
      BY DEF Process
    <3>2. proc' = [proc EXCEPT ![p] = s]
      BY <1>2, <2>2 DEF WaitStackComplete
    <3> HIDE DEF s
    <3>3. \/ r.waiter = "update"
          \/ ~CanCall(p)
          \/ r.waiter = "create" /\ status[r.id] \in {"CREATE_COMPLETE", "DELETE_COMPLETE", "DELETE_FAILED"}
          \/ r.waiter = "delete" /\ status[r.id] \in {"DELETE_COMPLETE", "DELETE_FAILED"}
      BY <1>2, <2>2 DEF WaitStackComplete
    <3> QED BY <3>1, <3>2, <3>3
  <2> QED BY <2>1, <2>2
<1>4. proc' \in [Proc -> Process] /\ proc'[p] = s /\ \A q \in Proc \ {p} : proc'[q] = proc[q]
  BY <1>3 DEF StackInv, Structure, StackType
<1>5. StackType' /\ StacksType' /\ \A i \in 1..2 : Ages(i)
  BY <1>1, <1>4, StacksIdle DEF StackInv, Structure, StackType
<1>6. \A i \in 1..2 : proc'[p].known[i] <= Len(events'[i])
  BY <1>2, <1>3, <1>4, <1>5, KnownFrame
<1>7. CASE p = "up"
  <2>1. proc'["up"] = s /\ r = proc["up"] /\ proc'["down"] = proc["down"] /\ proc'["int"] = proc["int"]
    BY <1>2, <1>4, <1>7 DEF Proc
  <2>2. Roles'
    BY <1>3, <2>1 DEF StackInv, Structure, Roles
  <2>3. Ids'
    <3>1. \A q \in Proc, i \in 1..2 : proc'[q].known[i] <= Len(events'[i])
      BY <1>4, <1>5, <1>6, OthersKnown
    <3> QED BY <1>1, <1>3, <2>1, <3>1 DEF StackInv, Structure, Ids
  <2>4. Over => Over'
    BY <1>1, <1>3, <2>1 DEF Over, DeletedByOther, Happened, Unseen
  <2>5. Creating' => Creating
    BY <1>3, <2>1 DEF Creating
  <2>6. CreationIds'
    BY <1>1, <1>3, <2>1, <2>5 DEF StackInv, CreationInv, CreationIds
  <2>7. CreationKnown'
    BY <1>1, <2>4, <2>5 DEF StackInv, CreationInv, CreationKnown
  <2>8. WaiterTells'
    <3>1. SUFFICES ASSUME Creating, r.pc # "wait", live, ~s.gaveUp PROVE Over'
      BY <1>1, <1>3, <2>1, <2>5 DEF WaiterTells
    <3>2. r.id = 2 /\ r.waiter \in {"create", "done"}
      BY <2>1, <3>1 DEF StackInv, CreationInv, CreationIds
    <3>3. status[2] # "CREATE_IN_PROGRESS"
      BY <1>3, <1>7, <3>1, <3>2 DEF CanCall
    <3> QED BY <2>4, <3>1, <3>3 DEF StackInv, CreationInv, CreationKnown
  <2>9. ~s.gaveUp => ~r.gaveUp
    BY <1>3
  <2>10. (DeletedByOther \/ Happened(2, "CREATE_COMPLETE")) => (DeletedByOther \/ Happened(2, "CREATE_COMPLETE"))'
    BY <1>1, <2>1 DEF DeletedByOther, Happened
  <2>11. CheckTells'
    BY <1>3, <2>1, <2>5, <2>9, <2>10 DEF StackInv, CreationInv, CheckTells
  <2>12. SuccessIsCreated'
    BY <1>1, <1>3, <2>1, <2>9 DEF StackInv, CreationInv, SuccessIsCreated
  <2>13. DeletionInv'
    BY <1>1, <1>5, <2>1, DeletionFrame
  <2>14. BucketHeld'
    BY <1>1, <1>3, <2>1 DEF StackInv, BucketHeld
  <2> QED BY <1>5, <2>2, <2>3, <2>6, <2>7, <2>8, <2>11, <2>12, <2>13, <2>14 DEF StackInv, Structure, CreationInv
<1>8. CASE p \in {"int", "down"}
  <2>1. s.pc \in DownPlaces /\ (p = "int" => s.pc # "start") /\ (s.pc \in {"off", "start"} \/ s.operation = "delete")
    BY <1>2, <1>3, <1>8 DEF StackInv, Structure, Roles
  <2>2. current = 1 => status'[2] = "none" /\ (p = "down" => s.id = 1)
    BY <1>1, <1>2, <1>3 DEF StackInv, Structure, Ids
  <2>3. ASSUME p = "down" PROVE DeletionInv'
    <3>1. proc'["down"] = s /\ r = proc["down"]
      BY <1>2, <1>4, <2>3
    <3>2. Told(r.id) => Told(r.id)'
      BY <1>1, <1>3, <3>1 DEF Told, Unseen
    <3>3. Told(current) => Told(current)'
      BY <1>1, <1>3, <3>1 DEF Told, Unseen
    <3>4. DeletionKnown'
      BY <1>1, <1>3, <3>1, <3>2, <3>3 DEF StackInv, DeletionInv, DeletionKnown
    <3>5. DeletionOver'
      <4>1. SUFFICES ASSUME r.pc \in {"loop", "check"}, ~s.gaveUp PROVE status[r.id] = "DELETE_COMPLETE" \/ Told(r.id)'
        BY <1>1, <1>3, <3>1 DEF DeletionOver
      <4>2. r.waiter \in {"off", "delete", "done"} /\ CanCall(p)
        BY <2>3, <3>1 DEF StackInv, Structure, Roles, CanCall
      <4>3. status[r.id] \in {"DELETE_COMPLETE", "DELETE_FAILED"}
        BY <1>3, <4>1, <4>2
      <4> QED BY <3>1, <3>2, <4>1, <4>3 DEF StackInv, DeletionInv, DeletionKnown
    <3>6. ~s.gaveUp => ~r.gaveUp
      BY <1>3
    <3>7. DeletionSeen' /\ SuccessIsDeleted'
      BY <1>1, <1>3, <3>1, <3>6 DEF StackInv, DeletionInv, DeletionSeen, SuccessIsDeleted
    <3> QED BY <3>4, <3>5, <3>7 DEF DeletionInv
  <2>4. s.operation = proc[p].operation /\ status'[2] = status[2]
    BY <1>1, <1>2, <1>3
  <2> QED BY <1>1, <1>3, <1>4, <1>5, <1>6, <1>8, <2>1, <2>2, <2>3, <2>4, OtherMoves
<1> QED BY <1>7, <1>8 DEF Proc

-----------------------------------------------------------------------------
(* The initial states, and the result. *)

(* A process that has done nothing. *)
Fresh(n, pc) ==
    /\ n \in Process /\ n.pc = pc /\ n.operation = "none" /\ n.waiter = "off" /\ n.id = 1 /\ n.failed = FALSE
    /\ n.known = [i \in 1..2 |-> 0]

(* Before anything happened. *)
LEMMA StackStarts == ASSUME StackInit PROVE StackInv
<1>1. PICK sc \in Scenarios :
        /\ status = [i \in 1..2 |-> IF i = 1 /\ sc.earlier # <<>> THEN "CREATE_COMPLETE" ELSE "none"]
        /\ events = [i \in 1..2 |-> IF i = 1 THEN sc.earlier ELSE <<>>]
        /\ failures = sc.failures
        /\ proc = [p \in Proc |-> CASE p = "up"   -> NewProcess("start", sc.large, sc.detach)
                                     [] p = "int"  -> NewProcess("off", FALSE, FALSE)
                                     [] p = "down" -> NewProcess(IF sc.other THEN "start" ELSE "off", FALSE, FALSE)]
  BY DEF StackInit
<1>2. sc.earlier \in Seq(StackStatus) /\ sc.large \in BOOLEAN /\ sc.detach \in BOOLEAN /\ sc.failures \in BOOLEAN
  BY ScenariosAssumption
<1>3. current = 1 /\ live = TRUE /\ bucket = "none"
  BY DEF StackInit
<1>4. ASSUME NEW pc \in {"start", "off"}, NEW l \in BOOLEAN, NEW d \in BOOLEAN PROVE Fresh(NewProcess(pc, l, d), pc)
  BY DEF Fresh, NewProcess, Process, Place, Ended
<1>5. PICK d \in {"start", "off"} : d = IF sc.other THEN "start" ELSE "off"
  OBVIOUS
<1>6. /\ proc["up"] = NewProcess("start", sc.large, sc.detach) /\ proc["int"] = NewProcess("off", FALSE, FALSE)
      /\ proc["down"] = NewProcess(d, FALSE, FALSE)
  BY <1>1, <1>5 DEF Proc
<1>7. Fresh(proc["up"], "start") /\ Fresh(proc["int"], "off") /\ Fresh(proc["down"], d)
  BY <1>2, <1>4, <1>6
<1>8. proc["up"].pc = "start" /\ proc["int"].pc = "off" /\ proc["down"].pc \in {"off", "start"}
  BY <1>7 DEF Fresh
<1>9. StackType
  <2>1. status \in [1..2 -> StackStatus]
    BY <1>1 DEF StackStatus
  <2>2. events \in [1..2 -> Seq(StackStatus)]
    BY <1>1, <1>2
  <2>3. proc \in [Proc -> Process]
    BY <1>1, <1>7 DEF Fresh, Proc
  <2>4. current \in 1..2
    BY <1>3
  <2>5. live \in BOOLEAN /\ failures \in BOOLEAN
    BY <1>1, <1>2, <1>3
  <2> QED BY <2>1, <2>2, <2>3, <2>4, <2>5 DEF StackType, StacksType
<1>10. Roles
  BY <1>7, <1>8 DEF Fresh, Roles, UpPlaces, DownPlaces, Before, Undecided, Ended, Proc
<1>11. Ids
  <2>1. status[2] = "none" /\ \A i \in 1..2 : Len(events[i]) \in Nat
    BY <1>1, <1>9 DEF StackType, StacksType
  <2>2. \A p \in Proc, i \in 1..2 : proc[p].known[i] <= Len(events[i])
    BY <1>7, <2>1 DEF Fresh, Proc
  <2>3. proc["up"].known[2] = 0 /\ ~proc["up"].failed /\ proc["down"].id = 1
    BY <1>7 DEF Fresh
  <2> QED BY <1>3, <2>1, <2>2, <2>3 DEF Ids
<1>12. CreationInv
  BY <1>8 DEF CreationInv, CreationIds, CreationKnown, WaiterTells, CheckTells, SuccessIsCreated, Creating, Waiting
<1>13. DeletionInv
  BY <1>8 DEF DeletionInv, DeletionKnown, DeletionOver, DeletionSeen, SuccessIsDeleted
<1>14. BucketHeld
  BY <1>3, <1>8 DEF BucketHeld, Before
<1> QED BY <1>9, <1>10, <1>11, <1>12, <1>13, <1>14 DEF StackInv, Structure

(* Every step keeps the invariant; one that changes nothing does. *)
LEMMA StackSteps == ASSUME StackInv, [StackNext]_stackVars PROVE StackInv'
<1>1. CASE Up
  BY <1>1, UpPrepares, UpCreates, UpUpdates DEF Up
<1>2. CASE CancelContext \/ Interrupt \/ TaskChanges
  BY <1>2, SignalsAndTasks
<1>3. CASE HandleSignal \/ DownStarts
  BY <1>3, DownBegins
<1>4. ASSUME NEW p \in Proc, DownStack(p) PROVE StackInv'
  <2>1. p \in {"int", "down"}
    <3>1. proc[p].pc \in {"list", "capacity", "previous", "delete"}
      BY <1>4 DEF DownStack, FindCapacity, DeleteCapacity, previousStackEvents, DeleteStack
    <3>2. p # "up"
      BY <3>1 DEF StackInv, Structure, Roles, UpPlaces, Before, Waiting, Ended
    <3> QED BY <3>2 DEF Proc
  <2> QED BY <1>4, <2>1, DownPrepares, DownDeletes DEF DownStack
<1>5. ASSUME NEW p \in Proc, WaitStackCompletion(p) PROVE StackInv'
  BY <1>5, WaitBegins, RoundReads, UnstableIsDeleted DEF WaitStackCompletion
<1>6. ASSUME NEW p \in Proc, WaitStackComplete(p) PROVE StackInv'
  BY <1>6, WaiterEnds
<1>7. CASE Aws
  BY <1>7, AwsEnds
<1>8. CASE UNCHANGED stackVars
  <2>1. UNCHANGED <<current, status, events, bucket, live, failures, proc>>
    BY <1>8 DEF stackVars
  <2>2. StacksType' /\ \A i \in 1..2 : Ages(i)
    BY <2>1, StacksIdle
  <2>3. (current = 1 => status'[2] = "none") /\ CreationGoesOn /\ live' \in BOOLEAN /\ (live' => live)
    BY <2>1 DEF CreationGoesOn, StackInv, Structure, Ids, StackType
  <2> QED BY <2>1, <2>2, <2>3, ProcessesIdle
<1> QED BY <1>1, <1>2, <1>3, <1>4, <1>5, <1>6, <1>7, <1>8 DEF StackNext

(***************************************************************************)
(* An up that waited for a creation and says that it succeeded leaves a    *)
(* stack that was created, a down that says so leaves none, and no bucket  *)
(* stays behind: in whatever order the waiter of the SDK, the ticks, the   *)
(* events, the other command and a signal come (WaitStackCompletion), for  *)
(* every earlier deployment.                                               *)
(***************************************************************************)
THEOREM CommandsTellTheStack == StackSpec => []StackResult
<1>1. StackInit => StackInv
  BY StackStarts
<1>2. StackInv /\ [StackNext]_stackVars => StackInv'
  BY StackSteps
<1>3. StackInv => StackResult
  <2>1. ASSUME StackInv PROVE BucketRemoved
    BY <2>1 DEF BucketRemoved, StackInv, BucketHeld, Idle, Ended, Before
  <2> QED BY <2>1 DEF StackInv, CreationInv, DeletionInv, StackResult
<1> QED BY <1>1, <1>2, <1>3, PTL DEF StackSpec

-----------------------------------------------------------------------------
(* Contexts (EcsContext). *)

CreatePlaces == {"flags", "start", "select", "profile", "keys", "region", "save", "saveRegion", "context", "created", "used", "refused", "failed"}
ContextOptions == [fromEnv : BOOLEAN, keys : KeyFiles \cup {"asked"}, profile : Profiles \cup {None}, region : Regions \cup {None}]
IsCreation(r) == r = [pc |-> r.pc, opts |-> r.opts, before |-> r.before] /\ r.pc \in CreatePlaces /\ r.opts \in ContextOptions

HasKeys == create.opts.keys \in {"given", "asked"}

(* The keys of the options are those of the profile "default". *)
KeysSaved == /\ files["credentials"] # <<>>
             /\ <<"default">> \in DOMAIN Load("credentials")
             /\ Load("credentials")[<<"default">>] = create.opts.keys

(* What each place of the creation relies on: which way it came, and what is saved by then. *)
WayTaken ==
    /\ create.pc \in {"flags", "start"} => create.opts.keys # "asked"
    /\ create.pc = "start" => (create.opts.keys = "given" => create.opts.profile = None)
    /\ create.pc \in {"select", "profile", "keys"} => ~create.opts.fromEnv /\ ~HasKeys /\ create.opts.profile = None
    /\ create.pc \in {"region", "save"} => ~create.opts.fromEnv /\ HasKeys /\ create.opts.profile = None
    /\ create.pc = "saveRegion" => ~create.opts.fromEnv /\ HasKeys /\ create.opts.profile = "default"
    /\ create.pc = "refused" => create.opts.fromEnv
SavedSoFar ==
    /\ create.pc = "saveRegion" => KeysSaved
    /\ create.pc \in {"context", "created", "used"} /\ ~create.opts.fromEnv
         => /\ create.opts.profile \in getProfiles
            /\ HasKeys => KeysSaved /\ create.opts.profile = "default"
ContextMade ==
    IF create.pc \in {"created", "used", "refused"}
    THEN ecsCtx = << [fromEnv |-> create.opts.fromEnv, profile |-> create.opts.profile] >>
    ELSE ecsCtx = <<>>
SessionMade == IF create.pc = "used" THEN SavedIsUsed ELSE used = <<>>

(* Of the file in the home directory only [profile default] changes. *)
HomeKept == \A s : s # <<"profile", "default">> => getProfileRegion(files, s) = getProfileRegion(create.before, s)

ContextInv ==
    /\ files = [f \in FileNames |-> files[f]]
    /\ IsCreation(create)
    /\ OthersKept /\ HomeKept
    /\ WayTaken /\ SavedSoFar /\ ContextMade /\ SessionMade

(* Nothing is saved or made yet. *)
LEMMA ContextInvInit == ContextInit => ContextInv
<1> SUFFICES ASSUME ContextInit PROVE ContextInv
  OBVIOUS
<1>1. PICK o \in Options : create = [pc |-> "flags", opts |-> o, before |-> files]
  BY DEF ContextInit
<1>2. o \in ContextOptions /\ o.keys # "asked"
  BY ContextAssumption DEF ContextOptions, KeyFiles, None
<1>3. IsCreation(create) /\ create.pc = "flags" /\ create.opts.keys # "asked" /\ create.before = files
  BY <1>1, <1>2 DEF IsCreation, CreatePlaces
<1>4. files = [f \in FileNames |-> files[f]]
  BY DEF ContextInit
<1>5. OthersKept /\ HomeKept
  BY <1>3 DEF OthersKept, HomeKept
<1> QED BY <1>3, <1>4, <1>5 DEF ContextInit, ContextInv, WayTaken, SavedSoFar, ContextMade, SessionMade

(* A step to another place. *)
LEMMA ToPlace ==
    ASSUME NEW pc \in CreatePlaces, IsCreation(create), To(pc)
    PROVE  IsCreation(create)' /\ create'.pc = pc /\ create'.opts = create.opts /\ create'.before = create.before
BY DEF To, IsCreation

(* While no file is written, all that is said of them stays. *)
LEMMA SameFiles ==
    ASSUME UNCHANGED <<files, environ>>, create'.before = create.before
    PROVE  /\ getProfiles' = getProfiles
           /\ OthersKept' = OthersKept /\ HomeKept' = HomeKept
           /\ create'.opts.keys = create.opts.keys => KeysSaved' = KeysSaved
<1>1. getProfiles' = getProfiles
  BY DEF getProfiles, loadIniFile, Load, getAWSConfigFile
<1>2. OthersKept' = OthersKept
  BY DEF OthersKept, getAWSConfigFile
<1>3. HomeKept' = HomeKept
  BY DEF HomeKept, getProfileRegion
<1>4. create'.opts.keys = create.opts.keys => KeysSaved' = KeysSaved
  BY DEF KeysSaved, Load
<1> QED BY <1>1, <1>2, <1>3, <1>4

(* A step that writes no file, to a place where nothing is made: what is left to show. *)
LEMMA NothingYet ==
    ASSUME ContextInv, UNCHANGED <<files, environ, ecsCtx, used>>, IsCreation(create)', create'.before = create.before,
           create.pc \notin {"created", "used", "refused"}, create'.pc \notin {"created", "used", "refused"},
           WayTaken', SavedSoFar'
    PROVE  ContextInv'
BY SameFiles DEF ContextInv, ContextMade, SessionMade

(* Profiles that the files have are profiles. *)
LEMMA ProfilesKnown == getProfiles \subseteq Profiles
BY ContextAssumption DEF getProfiles, loadIniFile

(* The flags that exclude one another are refused. *)
LEMMA createEcsCommandKeeps == ContextInv /\ createEcsCommand => ContextInv'
<1> SUFFICES ASSUME ContextInv, createEcsCommand PROVE ContextInv'
  OBVIOUS
<1>1. IsCreation(create) /\ create.pc = "flags" /\ create.opts.keys # "asked"
  BY DEF ContextInv, createEcsCommand, At, WayTaken
<1>2. UNCHANGED <<files, environ, ecsCtx, used>>
  BY DEF createEcsCommand
<1>3. CASE To("failed")
  <2>1. IsCreation(create)' /\ create'.pc = "failed" /\ create'.before = create.before
    BY <1>1, <1>3, ToPlace DEF CreatePlaces
  <2> QED BY <1>1, <1>2, <2>1, NothingYet DEF WayTaken, SavedSoFar
<1>4. CASE To("start") /\ ~(create.opts.keys # None /\ create.opts.profile # None)
  <2>1. IsCreation(create)' /\ create'.pc = "start" /\ create'.opts = create.opts /\ create'.before = create.before
    BY <1>1, <1>4, ToPlace DEF CreatePlaces
  <2>2. create.opts.keys = "given" => create.opts.profile = None
    BY <1>4 DEF None
  <2> QED BY <1>1, <1>2, <2>1, <2>2, NothingYet DEF WayTaken, SavedSoFar
<1> QED BY <1>3, <1>4 DEF createEcsCommand

(* createContextData takes one of the four ways. *)
LEMMA createContextDataKeeps == ContextInv /\ createContextData => ContextInv'
<1> SUFFICES ASSUME ContextInv, createContextData PROVE ContextInv'
  OBVIOUS
<1>1. /\ IsCreation(create) /\ create.pc = "start" /\ create.opts.keys # "asked"
      /\ create.opts.keys = "given" => create.opts.profile = None
  BY DEF ContextInv, createContextData, At, WayTaken
<1>2. UNCHANGED <<files, environ, ecsCtx, used>>
  BY DEF createContextData
<1>3. CASE ByEnvironment /\ To("context")
  <2>1. IsCreation(create)' /\ create'.pc = "context" /\ create'.opts = create.opts /\ create'.before = create.before
    BY <1>1, <1>3, ToPlace DEF CreatePlaces
  <2> QED BY <1>1, <1>2, <1>3, <2>1, NothingYet DEF ByEnvironment, WayTaken, SavedSoFar
<1>4. CASE ByKeys /\ To("region")
  <2>1. IsCreation(create)' /\ create'.pc = "region" /\ create'.opts = create.opts /\ create'.before = create.before
    BY <1>1, <1>4, ToPlace DEF CreatePlaces
  <2> QED BY <1>1, <1>2, <1>4, <2>1, NothingYet DEF ByEnvironment, ByKeys, HasKeys, WayTaken, SavedSoFar
<1>5. CASE ByProfile /\ To(IF create.opts.profile \in getProfiles THEN "context" ELSE "failed")
  <2>1. CASE create.opts.profile \in getProfiles
    <3>1. IsCreation(create)' /\ create'.pc = "context" /\ create'.opts = create.opts /\ create'.before = create.before
      BY <1>1, <1>5, <2>1, ToPlace DEF CreatePlaces
    <3>2. create'.opts.profile \in getProfiles'
      BY <1>2, <2>1, <3>1, SameFiles
    <3>3. ~HasKeys'
      BY <1>1, <1>5, <3>1 DEF HasKeys, ByKeys, ByProfile
    <3> QED BY <1>1, <1>2, <3>1, <3>2, <3>3, NothingYet DEF WayTaken, SavedSoFar
  <2>2. CASE create.opts.profile \notin getProfiles
    <3>1. IsCreation(create)' /\ create'.pc = "failed" /\ create'.before = create.before
      BY <1>1, <1>5, <2>2, ToPlace DEF CreatePlaces
    <3> QED BY <1>1, <1>2, <3>1, NothingYet DEF WayTaken, SavedSoFar
  <2> QED BY <2>1, <2>2
<1>6. CASE ~ByEnvironment /\ ~ByKeys /\ ~ByProfile /\ To("select")
  <2>1. IsCreation(create)' /\ create'.pc = "select" /\ create'.opts = create.opts /\ create'.before = create.before
    BY <1>1, <1>6, ToPlace DEF CreatePlaces
  <2> QED BY <1>1, <1>2, <1>6, <2>1, NothingYet DEF ByEnvironment, ByKeys, ByProfile, HasKeys, WayTaken, SavedSoFar
<1> QED BY <1>3, <1>4, <1>5, <1>6 DEF createContextData

(* The question leads to a profile, to keys or to the environment. *)
LEMMA SelectKeeps == ContextInv /\ Select => ContextInv'
<1> SUFFICES ASSUME ContextInv, Select PROVE ContextInv'
  OBVIOUS
<1>1. IsCreation(create) /\ create.pc = "select" /\ create.opts \in ContextOptions
      /\ ~create.opts.fromEnv /\ ~HasKeys /\ create.opts.profile = None
  BY DEF ContextInv, Select, At, IsCreation, WayTaken
<1>2. UNCHANGED <<files, environ, ecsCtx, used>>
  BY DEF Select
<1>3. ASSUME NEW pc \in {"profile", "keys", "failed"}, To(pc) PROVE ContextInv'
  <2>1. IsCreation(create)' /\ create'.pc = pc /\ create'.opts = create.opts /\ create'.before = create.before
    BY <1>1, <1>3, ToPlace DEF CreatePlaces
  <2>2. WayTaken' /\ SavedSoFar'
    BY <1>1, <2>1 DEF WayTaken, SavedSoFar, HasKeys
  <2> QED BY <1>1, <1>2, <1>3, <2>1, <2>2, NothingYet
<1>4. CASE create' = [create EXCEPT !.opts.fromEnv = TRUE, !.pc = "context"]
  <2>1. IsCreation(create)' /\ create'.pc = "context" /\ create'.opts = [create.opts EXCEPT !.fromEnv = TRUE] /\ create'.before = create.before
    BY <1>1, <1>4 DEF IsCreation, CreatePlaces, ContextOptions
  <2>2. create'.opts.fromEnv = TRUE
    BY <1>1, <2>1 DEF ContextOptions
  <2> QED BY <1>1, <1>2, <2>1, <2>2, NothingYet DEF WayTaken, SavedSoFar
<1> QED BY <1>3, <1>4 DEF Select

(* A profile is chosen among those of the files. *)
LEMMA chooseProfileKeeps == ContextInv /\ chooseProfile => ContextInv'
<1> SUFFICES ASSUME ContextInv, chooseProfile PROVE ContextInv'
  OBVIOUS
<1>1. IsCreation(create) /\ create.pc = "profile" /\ create.opts \in ContextOptions /\ ~create.opts.fromEnv /\ ~HasKeys
  BY DEF ContextInv, chooseProfile, At, IsCreation, WayTaken
<1>2. UNCHANGED <<files, environ, ecsCtx, used>>
  BY DEF chooseProfile
<1>3. CASE To("failed")
  <2>1. IsCreation(create)' /\ create'.pc = "failed" /\ create'.before = create.before
    BY <1>1, <1>3, ToPlace DEF CreatePlaces
  <2> QED BY <1>1, <1>2, <2>1, NothingYet DEF WayTaken, SavedSoFar
<1>4. ASSUME NEW p \in getProfiles, create' = [create EXCEPT !.opts.profile = p, !.pc = "context"] PROVE ContextInv'
  <2>1. p \in Profiles
    BY ProfilesKnown
  <2>2. IsCreation(create)' /\ create'.pc = "context" /\ create'.opts = [create.opts EXCEPT !.profile = p] /\ create'.before = create.before
    BY <1>1, <1>4, <2>1 DEF IsCreation, CreatePlaces, ContextOptions
  <2>3. create'.opts.profile = p /\ ~HasKeys'
    BY <1>1, <2>2 DEF ContextOptions, HasKeys
  <2>4. p \in getProfiles'
    BY <1>2, <2>2, SameFiles
  <2> QED BY <1>1, <1>2, <2>2, <2>3, <2>4, NothingYet DEF WayTaken, SavedSoFar
<1> QED BY <1>3, <1>4 DEF chooseProfile

(* Keys that are asked for are some. *)
LEMMA askCredentialsKeeps == ContextInv /\ askCredentials => ContextInv'
<1> SUFFICES ASSUME ContextInv, askCredentials PROVE ContextInv'
  OBVIOUS
<1>1. IsCreation(create) /\ create.pc = "keys" /\ create.opts \in ContextOptions /\ ~create.opts.fromEnv /\ create.opts.profile = None
  BY DEF ContextInv, askCredentials, At, IsCreation, WayTaken
<1>2. UNCHANGED <<files, environ, ecsCtx, used>>
  BY DEF askCredentials
<1>3. CASE To("failed")
  <2>1. IsCreation(create)' /\ create'.pc = "failed" /\ create'.before = create.before
    BY <1>1, <1>3, ToPlace DEF CreatePlaces
  <2> QED BY <1>1, <1>2, <2>1, NothingYet DEF WayTaken, SavedSoFar
<1>4. CASE create' = [create EXCEPT !.opts.keys = "asked", !.pc = "region"]
  <2>0. PICK k \in KeyFiles \cup {"asked"} : k = "asked"
    OBVIOUS
  <2>1. IsCreation(create)' /\ create'.pc = "region" /\ create'.opts = [create.opts EXCEPT !.keys = k] /\ create'.before = create.before
    BY <1>1, <1>4, <2>0 DEF IsCreation, CreatePlaces, ContextOptions
  <2>2. HasKeys' /\ ~create'.opts.fromEnv /\ create'.opts.profile = None
    BY <1>1, <2>0, <2>1 DEF ContextOptions, HasKeys
  <2> QED BY <1>1, <1>2, <2>1, <2>2, NothingYet DEF WayTaken, SavedSoFar
<1> QED BY <1>3, <1>4 DEF askCredentials

(* The region is chosen among those of AWS. *)
LEMMA chooseRegionKeeps == ContextInv /\ chooseRegion => ContextInv'
<1> SUFFICES ASSUME ContextInv, chooseRegion PROVE ContextInv'
  OBVIOUS
<1>1. IsCreation(create) /\ create.pc = "region" /\ create.opts \in ContextOptions /\ ~create.opts.fromEnv /\ HasKeys /\ create.opts.profile = None
  BY DEF ContextInv, chooseRegion, At, IsCreation, WayTaken
<1>2. UNCHANGED <<files, environ, ecsCtx, used>>
  BY DEF chooseRegion
<1>3. CASE To("failed")
  <2>1. IsCreation(create)' /\ create'.pc = "failed" /\ create'.before = create.before
    BY <1>1, <1>3, ToPlace DEF CreatePlaces
  <2> QED BY <1>1, <1>2, <2>1, NothingYet DEF WayTaken, SavedSoFar
<1>4. ASSUME NEW r \in Regions, create' = [create EXCEPT !.opts.region = r, !.pc = "save"] PROVE ContextInv'
  <2>1. IsCreation(create)' /\ create'.pc = "save" /\ create'.opts = [create.opts EXCEPT !.region = r] /\ create'.before = create.before
    BY <1>1, <1>4 DEF IsCreation, CreatePlaces, ContextOptions
  <2>2. HasKeys' /\ ~create'.opts.fromEnv /\ create'.opts.profile = None
    BY <1>1, <2>1 DEF ContextOptions, HasKeys
  <2> QED BY <1>1, <1>2, <2>1, <2>2, NothingYet DEF WayTaken, SavedSoFar
<1> QED BY <1>3, <1>4 DEF chooseRegion

(* What is saved in a file is found there; its other sections and the other files stay. *)
LEMMA Saved ==
    ASSUME ContextInv, NEW f \in FileNames, NEW section, NEW value, Save(f, section, value)
    PROVE  /\ files' = [g \in FileNames |-> files'[g]]
           /\ files'[f] # <<>> /\ section \in DOMAIN files'[f][1] /\ files'[f][1][section] = value
           /\ \A s \in DOMAIN Load(f) : s \in DOMAIN files'[f][1] /\ (s # section => files'[f][1][s] = Load(f)[s])
           /\ \A s \in DOMAIN files'[f][1] : s \in DOMAIN Load(f) \/ s = section
           /\ \A g \in FileNames \ {f} : files'[g] = files[g]
<1> DEFINE new == [s \in DOMAIN Load(f) \cup {section} |-> IF s = section THEN value ELSE Load(f)[s]]
<1>1. /\ section \in DOMAIN new /\ new[section] = value
      /\ \A s \in DOMAIN Load(f) : s \in DOMAIN new /\ (s # section => new[s] = Load(f)[s])
      /\ \A s \in DOMAIN new : s \in DOMAIN Load(f) \/ s = section
  OBVIOUS
<1>2. files' = [files EXCEPT ![f] = <<new>>] /\ files = [g \in FileNames |-> files[g]]
  BY DEF Save, ContextInv
<1> HIDE DEF new
<1>3. files' = [g \in FileNames |-> files'[g]] /\ files'[f] = <<new>> /\ \A g \in FileNames \ {f} : files'[g] = files[g]
  BY <1>2
<1>4. files'[f] # <<>> /\ files'[f][1] = new
  BY <1>3
<1> QED BY <1>1, <1>3, <1>4

(* A file whose section may change keeps the others. *)
LEMMA SaveKeeps ==
    ASSUME ContextInv, NEW f \in FileNames, NEW section, NEW value, Save(f, section, value),
           UNCHANGED environ, create'.before = create.before,
           \/ f = "credentials" /\ section = <<"default">>
           \/ f = getAWSConfigFile /\ section = <<"profile", "default">>
    PROVE  OthersKept'
<1> PICK b : b = create.before
  OBVIOUS
<1>1. OthersKept /\ b = create'.before /\ getAWSConfigFile' = getAWSConfigFile
  BY DEF ContextInv, getAWSConfigFile
<1>2. SUFFICES ASSUME NEW g \in FileNames, b[g] # <<>>
      PROVE  /\ files'[g] # <<>>
             /\ \A s \in DOMAIN b[g][1] :
                  /\ s \in DOMAIN files'[g][1]
                  /\ files'[g][1][s] # b[g][1][s] =>
                       \/ g = "credentials" /\ s = <<"default">>
                       \/ g = getAWSConfigFile /\ s = <<"profile", "default">>
  BY <1>1, <1>2 DEF OthersKept
<1>3. /\ files[g] # <<>>
      /\ \A s \in DOMAIN b[g][1] :
           /\ s \in DOMAIN files[g][1]
           /\ files[g][1][s] # b[g][1][s] =>
                \/ g = "credentials" /\ s = <<"default">>
                \/ g = getAWSConfigFile /\ s = <<"profile", "default">>
  BY <1>1, <1>2 DEF OthersKept
<1>4. CASE g # f
  <2>1. files'[g] = files[g]
    BY <1>4, Saved
  <2> QED BY <1>3, <2>1
<1>5. CASE g = f
  <2>1. Load(f) = files[f][1]
    BY <1>3, <1>5 DEF Load
  <2>2. /\ files'[f] # <<>>
        /\ \A s \in DOMAIN Load(f) : s \in DOMAIN files'[f][1] /\ (s # section => files'[f][1][s] = Load(f)[s])
    BY Saved
  <2>3. ASSUME NEW s \in DOMAIN b[f][1]
        PROVE  /\ s \in DOMAIN files'[f][1]
               /\ files'[f][1][s] # b[f][1][s] =>
                    \/ f = "credentials" /\ s = <<"default">>
                    \/ f = getAWSConfigFile /\ s = <<"profile", "default">>
    <3>1. s \in DOMAIN Load(f)
      BY <1>3, <1>5, <2>1
    <3>2. CASE s # section
      BY <1>3, <1>5, <2>1, <2>2, <3>1, <3>2
    <3>3. CASE s = section
      BY <2>2, <3>1, <3>3
    <3> QED BY <3>2, <3>3
  <2> QED BY <1>5, <2>2, <2>3
<1> QED BY <1>4, <1>5

(* The keys are saved for the profile "default". *)
LEMMA saveCredentialsKeeps == ContextInv /\ saveCredentials => ContextInv'
<1> SUFFICES ASSUME ContextInv, saveCredentials PROVE ContextInv'
  OBVIOUS
<1>1. IsCreation(create) /\ create.pc = "save" /\ ecsCtx = <<>> /\ used = <<>> /\ create.opts \in ContextOptions
      /\ ~create.opts.fromEnv /\ HasKeys /\ create.opts.profile = None /\ HomeKept
  BY DEF ContextInv, saveCredentials, At, ContextMade, SessionMade, IsCreation, WayTaken
<1>2. UNCHANGED <<environ, ecsCtx, used>>
  BY DEF saveCredentials
<1>3. CASE To("failed") /\ UNCHANGED files
  <2>1. IsCreation(create)' /\ create'.pc = "failed" /\ create'.before = create.before
    BY <1>1, <1>3, ToPlace DEF CreatePlaces
  <2> QED BY <1>1, <1>2, <1>3, <2>1, NothingYet DEF WayTaken, SavedSoFar
<1>4. CASE Save("credentials", <<Profile>>, create.opts.keys) /\ create' = [create EXCEPT !.opts.profile = Profile, !.pc = "saveRegion"]
  <2>1. PICK p \in Profiles : p = Profile /\ p = "default"
    BY <1>1, ContextAssumption DEF Profile
  <2>2. IsCreation(create)' /\ create'.pc = "saveRegion" /\ create'.opts = [create.opts EXCEPT !.profile = p] /\ create'.before = create.before
    BY <1>1, <1>4, <2>1 DEF IsCreation, CreatePlaces, ContextOptions
  <2>3. create'.opts.profile = p /\ create'.opts.keys = create.opts.keys /\ ~create'.opts.fromEnv /\ HasKeys'
    BY <1>1, <2>2 DEF ContextOptions, HasKeys
  <2>4. Save("credentials", <<"default">>, create.opts.keys)
    BY <1>4, <2>1
  <2>5. "credentials" \in FileNames /\ "home" \in FileNames \ {"credentials"}
    BY DEF FileNames
  <2>6. /\ files' = [g \in FileNames |-> files'[g]]
        /\ files'["credentials"] # <<>> /\ <<"default">> \in DOMAIN files'["credentials"][1]
        /\ files'["credentials"][1][<<"default">>] = create.opts.keys
        /\ files'["home"] = files["home"]
    BY <2>4, <2>5, Saved
  <2>7. KeysSaved'
    BY <2>3, <2>6 DEF KeysSaved, Load
  <2>8. HomeKept'
    BY <1>1, <2>2, <2>6 DEF HomeKept, getProfileRegion
  <2>9. OthersKept'
    BY <1>2, <2>2, <2>4, <2>5, SaveKeeps
  <2> QED BY <1>1, <1>2, <2>1, <2>2, <2>3, <2>6, <2>7, <2>8, <2>9 DEF ContextInv, WayTaken, SavedSoFar, ContextMade, SessionMade
<1> QED BY <1>3, <1>4 DEF saveCredentials

(* The region is saved in another file than the keys, where only [profile default] changes. *)
LEMMA saveRegionKeeps == ContextInv /\ saveRegion => ContextInv'
<1> SUFFICES ASSUME ContextInv, saveRegion PROVE ContextInv'
  OBVIOUS
<1>1. IsCreation(create) /\ create.pc = "saveRegion" /\ ecsCtx = <<>> /\ used = <<>>
      /\ ~create.opts.fromEnv /\ HasKeys /\ create.opts.profile = "default" /\ KeysSaved /\ HomeKept
  BY DEF ContextInv, saveRegion, At, ContextMade, SessionMade, IsCreation, WayTaken, SavedSoFar
<1>2. UNCHANGED <<environ, ecsCtx, used>>
  BY DEF saveRegion
<1>3. CASE To("failed") /\ UNCHANGED files
  <2>1. IsCreation(create)' /\ create'.pc = "failed" /\ create'.before = create.before
    BY <1>1, <1>3, ToPlace DEF CreatePlaces
  <2> QED BY <1>1, <1>2, <1>3, <2>1, NothingYet DEF WayTaken, SavedSoFar
<1>4. CASE Save(getAWSConfigFile, RegionSection(create.opts.profile), create.opts.region) /\ To("context")
  <2>1. IsCreation(create)' /\ create'.pc = "context" /\ create'.opts = create.opts /\ create'.before = create.before
    BY <1>1, <1>4, ToPlace DEF CreatePlaces
  <2>2. PICK f \in {"home", "env"} : f = getAWSConfigFile
    BY DEF getAWSConfigFile
  <2>3. f \in FileNames /\ "credentials" \in FileNames \ {f} /\ "home" \in FileNames
    BY <2>2 DEF FileNames
  <2>4. PICK value : value = create.opts.region
    OBVIOUS
  <2>5. Save(f, <<"profile", "default">>, value)
    BY <1>1, <1>4, <2>2, <2>4 DEF RegionSection
  <2>6. files' = [g \in FileNames |-> files'[g]] /\ files'["credentials"] = files["credentials"]
    BY <2>3, <2>5, Saved
  <2>7. KeysSaved'
    BY <1>1, <2>1, <2>6 DEF KeysSaved, Load
  <2>8. create'.opts.profile \in getProfiles'
    BY <1>1, <2>1, <2>7, ContextAssumption DEF KeysSaved, getProfiles, loadIniFile
  <2>9. OthersKept'
    BY <1>2, <2>1, <2>2, <2>3, <2>5, SaveKeeps
  <2>10. HomeKept'
    <3>1. SUFFICES ASSUME NEW s, s # <<"profile", "default">> PROVE getProfileRegion(files', s) = getProfileRegion(files, s)
      BY <1>1, <2>1, <3>1 DEF HomeKept
    <3>2. CASE f # "home"
      <4>1. files'["home"] = files["home"]
        BY <2>3, <2>5, <3>2, Saved
      <4> QED BY <4>1 DEF getProfileRegion
    <3>3. CASE f = "home"
      <4>1. /\ files'["home"] # <<>>
            /\ \A t \in DOMAIN Load("home") : t \in DOMAIN files'["home"][1] /\ (t # <<"profile", "default">> => files'["home"][1][t] = Load("home")[t])
            /\ \A t \in DOMAIN files'["home"][1] : t \in DOMAIN Load("home") \/ t = <<"profile", "default">>
        BY <2>3, <2>5, <3>3, Saved
      <4>2. CASE files["home"] = <<>>
        <5>1. s \notin DOMAIN Load("home")
          BY <4>2 DEF Load
        <5> QED BY <3>1, <4>1, <4>2, <5>1 DEF getProfileRegion
      <4>3. CASE files["home"] # <<>>
        <5>1. Load("home") = files["home"][1]
          BY <4>3 DEF Load
        <5> QED BY <3>1, <4>1, <4>3, <5>1 DEF getProfileRegion
      <4> QED BY <4>2, <4>3
    <3> QED BY <3>2, <3>3
  <2> QED BY <1>1, <1>2, <2>1, <2>6, <2>7, <2>8, <2>9, <2>10 DEF ContextInv, WayTaken, SavedSoFar, ContextMade, SessionMade
<1> QED BY <1>3, <1>4 DEF saveRegion

(* The context is made of the options. *)
LEMMA createContextKeeps == ContextInv /\ createContext => ContextInv'
<1> SUFFICES ASSUME ContextInv, createContext PROVE ContextInv'
  OBVIOUS
<1>1. IsCreation(create) /\ create.pc = "context" /\ used = <<>> /\ SavedSoFar /\ files' = [f \in FileNames |-> files'[f]] /\ OthersKept /\ HomeKept
  BY DEF ContextInv, createContext, At, SessionMade
<1>2. /\ UNCHANGED <<files, environ, used>> /\ To("created")
      /\ ecsCtx' = << [fromEnv |-> create.opts.fromEnv, profile |-> create.opts.profile] >>
  BY DEF createContext
<1>3. IsCreation(create)' /\ create'.pc = "created" /\ create'.opts = create.opts /\ create'.before = create.before
  BY <1>1, <1>2, ToPlace DEF CreatePlaces
<1>4. SavedSoFar' /\ OthersKept' /\ HomeKept'
  BY <1>1, <1>2, <1>3, SameFiles DEF SavedSoFar, HasKeys
<1> QED BY <1>1, <1>2, <1>3, <1>4 DEF ContextInv, WayTaken, ContextMade, SessionMade

(* The session uses the keys that were saved. *)
LEMMA getEcsAPIServiceKeeps == ContextInv /\ getEcsAPIService => ContextInv'
<1> SUFFICES ASSUME ContextInv, getEcsAPIService PROVE ContextInv'
  OBVIOUS
<1> DEFINE ctx == ecsCtx[1]
           p == IF ctx.fromEnv THEN getEnvVars.profile ELSE ctx.profile
           region == IF ctx.fromEnv THEN getEnvVars.region ELSE getRegion(p)
<1>1. /\ IsCreation(create) /\ create.pc = "created" /\ used = <<>> /\ SavedSoFar /\ files' = [f \in FileNames |-> files'[f]] /\ OthersKept /\ HomeKept
      /\ ecsCtx = << [fromEnv |-> create.opts.fromEnv, profile |-> create.opts.profile] >>
  BY DEF ContextInv, getEcsAPIService, At, SessionMade, ContextMade
<1>2. UNCHANGED <<files, environ, ecsCtx>>
  BY DEF getEcsAPIService
<1>3. ctx.fromEnv = create.opts.fromEnv /\ ctx.profile = create.opts.profile
  BY <1>1
<1>4. CASE To("refused") /\ UNCHANGED used /\ ctx.fromEnv
  <2>1. IsCreation(create)' /\ create'.pc = "refused" /\ create'.opts = create.opts /\ create.opts.fromEnv /\ create'.before = create.before
    BY <1>1, <1>3, <1>4, ToPlace DEF CreatePlaces
  <2>2. OthersKept' /\ HomeKept'
    BY <1>1, <1>2, <2>1, SameFiles
  <2> QED BY <1>1, <1>2, <1>4, <2>1, <2>2 DEF ContextInv, WayTaken, SavedSoFar, ContextMade, SessionMade
<1>5. CASE To("used") /\ used' = << [profile |-> p, region |-> region] >>
  <2>1. IsCreation(create)' /\ create'.pc = "used" /\ create'.opts = create.opts /\ create'.before = create.before
    BY <1>1, <1>5, ToPlace DEF CreatePlaces
  <2>2. SavedSoFar' /\ OthersKept' /\ HomeKept'
    BY <1>1, <1>2, <2>1, SameFiles DEF SavedSoFar, HasKeys
  <2>3. used'[1].profile = p
    BY <1>5
  <2>4. ASSUME HasKeys, ~create.opts.fromEnv
        PROVE  p = "default" /\ files'["credentials"][1][<<"default">>] = create.opts.keys
    <3>1. KeysSaved /\ p = create.opts.profile /\ create.opts.profile = "default"
      BY <1>1, <1>3, <2>4 DEF SavedSoFar
    <3> QED BY <1>2, <3>1 DEF KeysSaved, Load
  <2>5. SavedIsUsed'
    BY <1>2, <2>1, <2>3, <2>4 DEF SavedIsUsed, At, HasKeys
  <2> QED BY <1>1, <1>2, <2>1, <2>2, <2>5 DEF ContextInv, WayTaken, ContextMade, SessionMade
<1> QED BY <1>4, <1>5 DEF getEcsAPIService

(***************************************************************************)
(* Whatever the files hold and whatever fails, a creation with keys ends   *)
(* with these keys as those of the profile used, takes nothing else from   *)
(* the files and changes no profile's region.                              *)
(***************************************************************************)
THEOREM ContextsAreUsable == ContextSpec => []ContextUsable
<1>1. ContextInv /\ [ContextNext]_contextVars => ContextInv'
  <2> SUFFICES ASSUME ContextInv, [ContextNext]_contextVars PROVE ContextInv'
    OBVIOUS
  <2>1. CASE UNCHANGED contextVars
    <3>1. UNCHANGED <<files, environ, create, ecsCtx, used>>
      BY <2>1 DEF contextVars
    <3>2. KeysSaved' = KeysSaved /\ OthersKept' = OthersKept /\ HomeKept' = HomeKept /\ getProfiles' = getProfiles
      BY <3>1, SameFiles
    <3> QED BY <3>1, <3>2 DEF ContextInv, IsCreation, WayTaken, SavedSoFar, ContextMade, SessionMade, SavedIsUsed, At, HasKeys
  <2> QED BY <2>1, createEcsCommandKeeps, createContextDataKeeps, SelectKeeps, chooseProfileKeeps, askCredentialsKeeps, chooseRegionKeeps,
             saveCredentialsKeeps, saveRegionKeeps, createContextKeeps, getEcsAPIServiceKeeps DEF ContextNext
<1>2. ContextInv => ContextUsable
  <2> SUFFICES ASSUME ContextInv PROVE ContextUsable
    OBVIOUS
  <2>1. SavedIsUsed /\ OthersKept
    BY DEF ContextInv, SessionMade, SavedIsUsed, At
  <2>2. ProfileExists
    <3>1. CASE create.pc \in {"created", "used"}
      BY <3>1 DEF ContextInv, ContextMade, SavedSoFar, ProfileExists
    <3>2. CASE create.pc = "refused"
      BY <3>2 DEF ContextInv, ContextMade, WayTaken, ProfileExists
    <3> QED BY <3>1, <3>2 DEF ContextInv, ContextMade, ProfileExists
  <2>3. ASSUME NEW q PROVE RegionIn(files, q) = RegionIn(create.before, q)
    <3>1. <<"default">> # <<"profile", "default">>
      OBVIOUS
    <3>2. getProfileRegion(files, <<"default">>) = getProfileRegion(create.before, <<"default">>)
      BY <3>1 DEF ContextInv, HomeKept
    <3>3. CASE q \in {None, "default"}
      BY <3>2, <3>3 DEF RegionIn
    <3>4. CASE q \notin {None, "default"}
      <4>1. <<"profile", q>> # <<"profile", "default">>
        BY <3>4
      <4>2. getProfileRegion(files, <<"profile", q>>) = getProfileRegion(create.before, <<"profile", q>>)
        BY <4>1 DEF ContextInv, HomeKept
      <4> QED BY <3>2, <3>4, <4>2 DEF RegionIn
    <3> QED BY <3>3, <3>4
  <2>4. RegionsStay
    BY <2>3 DEF RegionsStay, getRegion
  <2> QED BY <2>1, <2>2, <2>4 DEF ContextUsable
<1> QED BY <1>1, <1>2, ContextInvInit, PTL DEF ContextSpec

-----------------------------------------------------------------------------
(* The local simulation and the side-car (EcsLocal). *)

(* A project with the endpoints: they have the second address and come last, the others wait for them. *)
Enhanced(services) ==
    \E n \in Nat :
      /\ DOMAIN services = 1..(n + 1) /\ n + 2 <= LastAddress
      /\ \A i \in 1..n : services[i].address = i + 2 /\ Endpoints \in services[i].deps
      /\ services[n + 1].address = 2 /\ services[n + 1].name = Endpoints /\ services[n + 1].scale = 1
      /\ \A i \in 1..(n + 1) : services[i].scale \in Nat

AppRecord == app = [services |-> app.services, own |-> app.own, networks |-> app.networks, home |-> app.home, format |-> app.format, pc |-> app.pc]
EndpointsRun == \E i \in DOMAIN app.services : app.services[i].name = Endpoints /\ <<i, 1>> \in simulated.started
OneEach == \A c, d \in simulated.started : c # d => app.services[c[1]].address # app.services[d[1]].address

AppInv ==
    /\ AppRecord
    /\ simulated = [created |-> simulated.created, started |-> simulated.started]
    /\ app.pc \in {"none", "create", "convert", "start", "up", "down", "shown", "failed"}
    /\ app.pc \in {"create", "convert"} => app.services \in LocalProjects /\ simulated.started = {}
    /\ app.pc \in {"start", "up", "shown"} => Enhanced(app.services)
    /\ app.pc \in {"start", "up"} => /\ simulated.started \subseteq ContainersOf(app.services)
                                     /\ simulated.started # {} => EndpointsRun
                                     /\ OneEach
    /\ RefusedForReplicas

(* Of the secrets asked for, those that are not left are written; nothing else is. *)
SecretType == [name : STRING, keys : Seq(STRING)]
Places == {"off", "main", "loop", "next", "key", "done", "failed"}
IsSideCar(r) ==
    r = [arg |-> r.arg, secrets |-> r.secrets, asked |-> r.asked, env |-> r.env, keys |-> r.keys, dirs |-> r.dirs, files |-> r.files,
         broken |-> r.broken, pc |-> r.pc]
SideCarType ==
    /\ IsSideCar(sidecar)
    /\ sidecar.asked \subseteq SecretType /\ sidecar.secrets \in Seq(sidecar.asked) /\ sidecar.keys \in Seq(STRING)
    /\ \A n \in DOMAIN sidecar.env : sidecar.env[n] \in [json : BOOLEAN, dict : SUBSET STRING] /\ IsFiniteSet(sidecar.env[n].dict)
    /\ sidecar.pc \in Places
(* Within a secret: its keys are still to write, or written. *)
InSecret ==
    LET s == Head(sidecar.secrets)
    IN  /\ s.keys # <<>> /\ s.name \in DOMAIN sidecar.env
        /\ \A k \in KeysOf(s) : k \in Range(sidecar.keys) \/ <<s.name, k>> \in sidecar.files
        /\ Range(sidecar.keys) \subseteq KeysOf(s)
DirsAsked == \A d \in sidecar.dirs : \E s \in sidecar.asked : s.name = d /\ s.keys # <<>>
LeftOrWritten == \A s \in sidecar.asked : s \in Range(sidecar.secrets) \/ FilesOf(s) \subseteq sidecar.files
SideCarInv ==
    /\ SideCarType
    /\ sidecar.pc \in {"next", "key"} => sidecar.secrets # <<>>
    /\ sidecar.pc = "key" => InSecret
    /\ sidecar.pc = "done" => sidecar.secrets = <<>>
    /\ DirsAsked /\ LeftOrWritten /\ NothingElse /\ FailsForCause

LocalInv == AppInv /\ SideCarInv

(* The keys of a dictionary as a sequence are its keys. *)
LEMMA KeysListed ==
    ASSUME NEW S, IsFiniteSet(S)
    PROVE  DOMAIN SetToSeq(S) = 1..Cardinality(S) /\ Range(SetToSeq(S)) = S /\ Cardinality(S) \in Nat /\ SetToSeq(S) \in [1..Cardinality(S) -> S]
<1>1. PICK n \in Nat : n = Cardinality(S) /\ ExistsBijection(1..n, S)
  BY FS_CardinalityType
<1>2. PICK f \in Bijection(1..n, S) : TRUE
  BY <1>1 DEF ExistsBijection
<1>3. f \in [1..n -> S] /\ IsInjective(f)
  BY <1>2 DEF Bijection, Injection, Surjection, IsInjective
<1>4. PICK g : g = SetToSeq(S)
  OBVIOUS
<1>5. g \in [1..n -> S] /\ IsInjective(g)
  BY <1>1, <1>3, <1>4 DEF SetToSeq
<1>6. g \in Injection(1..n, S)
  BY <1>5 DEF Injection, IsInjective
<1>7. Cardinality(1..n) = n /\ IsFiniteSet(1..n)
  BY <1>1, FS_Interval
<1>8. g \in Surjection(1..n, S)
  BY <1>1, <1>6, <1>7, FS_Injection
<1>9. Range(g) = S
  BY <1>5, <1>8 DEF Surjection, Range
<1> QED BY <1>1, <1>4, <1>5, <1>9

(* The rest of a sequence, and its first element, are all there is. *)
LEMMA RangeParts ==
    ASSUME NEW S, NEW q \in Seq(S), q # <<>>
    PROVE  Range(q) = {Head(q)} \cup Range(Tail(q)) /\ Tail(q) \in Seq(S) /\ Head(q) \in S
<1>1. PICK m \in Nat : m = Len(q) /\ m > 0 /\ DOMAIN q = 1..m
  BY EmptySeq
<1>2. DOMAIN Tail(q) = 1..(m - 1) /\ \A i \in 1..(m - 1) : Tail(q)[i] = q[i + 1]
  BY <1>1
<1>3. ASSUME NEW i \in 1..m PROVE q[i] = Head(q) \/ q[i] \in Range(Tail(q))
  <2>1. CASE i = 1
    BY <2>1
  <2>2. CASE i # 1
    <3>1. i - 1 \in 1..(m - 1) /\ (i - 1) + 1 = i
      BY <2>2
    <3> QED BY <1>2, <3>1 DEF Range
  <2> QED BY <2>1, <2>2
<1>4. ASSUME NEW i \in 1..(m - 1) PROVE Tail(q)[i] \in Range(q)
  <2>1. i + 1 \in DOMAIN q
    BY <1>1
  <2> QED BY <1>2, <2>1 DEF Range
<1>5. Head(q) \in Range(q)
  BY <1>1 DEF Range
<1>6. Range(q) = { q[i] : i \in 1..m } /\ Range(Tail(q)) = { Tail(q)[i] : i \in 1..(m - 1) }
  BY <1>1, <1>2 DEF Range
<1> QED BY <1>1, <1>3, <1>4, <1>5, <1>6

(* The addresses and the dependency that enhanceForLocalSimulation gives. *)
LEMMA EnhancedBy ==
    ASSUME NEW p \in LocalProjects
    PROVE  Enhanced(enhanceForLocalSimulation(p))
<1>1. p \in Seq([name : STRING, deps : SUBSET STRING, address : {0}, scale : Nat]) /\ Len(p) + 2 <= LastAddress /\ LastAddress \in Nat
  BY LocalAssumption
<1>2. PICK n \in Nat : n = Len(p) /\ DOMAIN p = 1..n
  BY <1>1
<1> DEFINE q == [i \in DOMAIN p |-> [p[i] EXCEPT !.deps = @ \cup {Endpoints}, !.address = Address(i)]]
           e == [name |-> Endpoints, deps |-> {}, address |-> 2, scale |-> 1]
<1>3. ASSUME NEW i \in 1..n PROVE q[i].address = i + 2 /\ Endpoints \in q[i].deps /\ q[i].scale \in Nat
  <2>1. p[i] \in [name : STRING, deps : SUBSET STRING, address : {0}, scale : Nat]
    BY <1>1, <1>2, ElementOfSeq
  <2>2. PICK s : s = p[i] /\ s = [name |-> s.name, deps |-> s.deps, address |-> s.address, scale |-> s.scale] /\ s.scale \in Nat
    BY <2>1
  <2>3. PICK d, a : d = s.deps \cup {Endpoints} /\ a = i + 2
    OBVIOUS
  <2>4. q[i] = [s EXCEPT !.deps = d, !.address = a]
    BY <1>2, <2>2, <2>3 DEF Address
  <2> HIDE DEF q
  <2>5. q[i].deps = d /\ q[i].address = a /\ q[i].scale = s.scale
    BY <2>2, <2>4
  <2> QED BY <2>2, <2>3, <2>5
<1>4. e.address = 2 /\ e.name = Endpoints /\ e.scale = 1
  OBVIOUS
<1>5. q = [i \in 1..n |-> q[i]]
  BY <1>2
<1>6. enhanceForLocalSimulation(p) = Append(q, e)
  BY DEF enhanceForLocalSimulation
<1> HIDE DEF q, e
<1>7. q \in Seq({q[i] : i \in 1..n} \cup {e}) /\ Len(q) = n
  BY <1>5
<1>8. DOMAIN Append(q, e) = 1..(n + 1) /\ Append(q, e)[n + 1] = e /\ \A i \in 1..n : Append(q, e)[i] = q[i]
  BY <1>7
<1>9. PICK r : r = Append(q, e)
  OBVIOUS
<1>10. /\ DOMAIN r = 1..(n + 1) /\ n + 2 <= LastAddress
       /\ \A i \in 1..n : r[i].address = i + 2 /\ Endpoints \in r[i].deps /\ r[i].scale \in Nat
       /\ r[n + 1].address = 2 /\ r[n + 1].name = Endpoints /\ r[n + 1].scale = 1
  BY <1>1, <1>2, <1>3, <1>4, <1>8, <1>9
<1>11. \A i \in 1..(n + 1) : r[i].scale \in Nat
  <2>1. ASSUME NEW i \in 1..(n + 1) PROVE i \in 1..n \/ i = n + 1
    OBVIOUS
  <2> QED BY <1>10, <2>1
<1>12. Enhanced(r)
  BY <1>10, <1>11 DEF Enhanced
<1> QED BY <1>6, <1>9, <1>12

(* Two services of such a project have two addresses. *)
LEMMA AddressesDiffer ==
    ASSUME NEW p, Enhanced(p), NEW i \in DOMAIN p, NEW j \in DOMAIN p
    PROVE  (i # j => p[i].address # p[j].address) /\ p[i].address \in 2..LastAddress
<1>1. PICK n \in Nat : /\ DOMAIN p = 1..(n + 1) /\ n + 2 <= LastAddress
                       /\ \A m \in 1..n : p[m].address = m + 2
                       /\ p[n + 1].address = 2
  BY DEF Enhanced
<1>2. LastAddress \in Nat
  BY LocalAssumption
<1>3. PICK a \in 1..(n + 1), b \in 1..(n + 1) : a = i /\ b = j
  BY <1>1
<1>4. p[a].address = IF a = n + 1 THEN 2 ELSE a + 2
  BY <1>1
<1>5. p[b].address = IF b = n + 1 THEN 2 ELSE b + 2
  BY <1>1
<1> QED BY <1>1, <1>2, <1>3, <1>4, <1>5

(* Without a home directory nothing is made. *)
LEMMA NoHomeKeeps ==
    ASSUME AppInv, NoHome, ~app.home
    PROVE  AppInv'
<1>1. PICK ns : ns = app.networks \cup {"credentials_network"}
  OBVIOUS
<1>2. app' = [services |-> app.services, own |-> app.own, networks |-> ns, home |-> app.home, format |-> app.format, pc |-> "failed"]
  BY <1>1 DEF AppInv, AppRecord, NoHome
<1>3. UNCHANGED simulated
  BY DEF NoHome
<1> QED BY <1>2, <1>3 DEF AppInv, AppRecord, RefusedForReplicas

(* Create changes the project that start sees. *)
LEMMA CreateLocalKeeps == AppInv /\ Create => AppInv'
<1> SUFFICES ASSUME AppInv, Create PROVE AppInv'
  OBVIOUS
<1>1. CASE ~app.home
  BY <1>1, NoHomeKeeps DEF Create
<1>2. CASE app.home
  <2>1. PICK e, ns : e = enhanceForLocalSimulation(app.services) /\ ns = app.networks \cup {"credentials_network"}
    OBVIOUS
  <2>2. Enhanced(e) /\ simulated.started = {} /\ app.pc = "create"
    BY <2>1, EnhancedBy DEF AppInv, Create
  <2>3. app' = [services |-> e, own |-> app.own, networks |-> ns, home |-> app.home, format |-> app.format, pc |-> "start"]
    BY <1>2, <2>1 DEF AppInv, AppRecord, Create
  <2>4. simulated' = [created |-> simulated'.created, started |-> {}]
    BY <1>2, <2>2 DEF AppInv, Create
  <2> QED BY <2>2, <2>3, <2>4 DEF AppInv, AppRecord, RefusedForReplicas, OneEach
<1> QED BY <1>1, <1>2

(* What is started first depends on nothing: it is the endpoints. An address is taken by a replica only. *)
LEMMA StartLocalKeeps == AppInv /\ Start => AppInv'
<1> SUFFICES ASSUME AppInv, Start PROVE AppInv'
  OBVIOUS
<1>1. /\ app.pc = "start" /\ Enhanced(app.services) /\ (simulated.started # {} => EndpointsRun)
      /\ simulated.started \subseteq ContainersOf(app.services) /\ OneEach /\ AppRecord
      /\ simulated = [created |-> simulated.created, started |-> simulated.started]
  BY DEF AppInv, Start
<1>2. ASSUME NEW i \in DOMAIN app.services, NEW n \in 1..app.services[i].scale, <<i, n>> \notin simulated.started, Ready(i),
             ~Taken(i), simulated' = [simulated EXCEPT !.started = @ \cup {<<i, n>>}], UNCHANGED app
      PROVE  AppInv'
  <2>1. simulated' = [created |-> simulated.created, started |-> simulated.started \cup {<<i, n>>}]
    BY <1>1, <1>2
  <2>2. <<i, n>> \in ContainersOf(app.services)
    BY <1>2 DEF ContainersOf
  <2>3. EndpointsRun'
    <3>1. PICK m \in Nat : /\ DOMAIN app.services = 1..(m + 1)
                           /\ \A x \in 1..m : Endpoints \in app.services[x].deps
                           /\ app.services[m + 1].name = Endpoints /\ app.services[m + 1].scale = 1
      BY <1>1 DEF Enhanced
    <3>2. CASE i = m + 1
      <4>1. n = 1
        BY <3>1, <3>2
      <4> QED BY <1>2, <2>1, <3>1, <3>2, <4>1 DEF EndpointsRun
    <3>3. CASE i # m + 1
      <4>1. i \in 1..m /\ m + 1 \in DOMAIN app.services
        BY <3>1, <3>3
      <4>2. {m + 1} \X (1..1) \subseteq simulated.started
        BY <1>2, <3>1, <4>1 DEF Ready
      <4>3. <<m + 1, 1>> \in simulated.started
        BY <4>2
      <4> QED BY <1>2, <2>1, <3>1, <4>1, <4>3 DEF EndpointsRun
    <3> QED BY <3>2, <3>3
  <2>4. OneEach'
    <3>1. ASSUME NEW c \in simulated.started PROVE app.services[c[1]].address # app.services[i].address
      BY <1>2 DEF Taken
    <3>2. <<i, n>>[1] = i
      OBVIOUS
    <3> QED BY <1>1, <1>2, <2>1, <3>1, <3>2 DEF OneEach
  <2> QED BY <1>1, <1>2, <2>1, <2>2, <2>3, <2>4 DEF AppInv, AppRecord, RefusedForReplicas
<1>3. ASSUME NEW i \in DOMAIN app.services, NEW n \in 1..app.services[i].scale, <<i, n>> \notin simulated.started,
             Taken(i), app' = [app EXCEPT !.pc = "failed"], UNCHANGED simulated
      PROVE  AppInv'
  <2>1. app' = [services |-> app.services, own |-> app.own, networks |-> app.networks, home |-> app.home, format |-> app.format, pc |-> "failed"]
    BY <1>1, <1>3 DEF AppRecord
  <2>2. PICK c \in simulated.started : app.services[c[1]].address = app.services[i].address
    BY <1>3 DEF Taken
  <2>3. PICK j \in DOMAIN app.services : c \in {j} \X (1..app.services[j].scale)
    BY <1>1, <2>2 DEF ContainersOf
  <2>4. PICK m \in 1..app.services[j].scale : c = <<j, m>>
    BY <2>3
  <2>5. j = i
    BY <1>1, <2>2, <2>4, AddressesDiffer
  <2>6. m # n /\ app.services[i].scale \in Nat
    BY <1>1, <1>3, <2>2, <2>4, <2>5 DEF Enhanced
  <2>7. app.services[i].scale > 1
    BY <1>3, <2>4, <2>5, <2>6
  <2> QED BY <1>1, <1>3, <2>1, <2>7 DEF AppInv, AppRecord, RefusedForReplicas
<1>4. CASE app' = [app EXCEPT !.pc = "up"] /\ UNCHANGED simulated
  <2>1. app' = [services |-> app.services, own |-> app.own, networks |-> app.networks, home |-> app.home, format |-> app.format, pc |-> "up"]
    BY <1>1, <1>4 DEF AppRecord
  <2>2. EndpointsRun' = EndpointsRun /\ OneEach' = OneEach
    BY <1>4, <2>1 DEF EndpointsRun, OneEach
  <2> QED BY <1>1, <1>4, <2>1, <2>2 DEF AppInv, AppRecord, RefusedForReplicas
<1> QED BY <1>2, <1>3, <1>4 DEF Start

(* Convert shows the project with the endpoints. *)
LEMMA ConvertLocalKeeps == AppInv /\ Convert => AppInv'
<1> SUFFICES ASSUME AppInv, Convert PROVE AppInv'
  OBVIOUS
<1>1. CASE ~app.home
  BY <1>1, NoHomeKeeps DEF Convert
<1>2. CASE app.home
  <2>1. PICK e, ns : e = enhanceForLocalSimulation(app.services) /\ ns = (app.networks \cup {"credentials_network"}) \ {"default"}
    OBVIOUS
  <2>2. PICK pc \in {"shown", "failed"} : pc = IF app.format THEN "shown" ELSE "failed"
    OBVIOUS
  <2>3. Enhanced(e)
    BY <2>1, EnhancedBy DEF AppInv, Convert
  <2>4. app' = [services |-> e, own |-> app.own, networks |-> ns, home |-> app.home, format |-> app.format, pc |-> pc]
    BY <1>2, <2>1, <2>2 DEF AppInv, AppRecord, Convert
  <2>5. UNCHANGED simulated
    BY <1>2 DEF Convert
  <2> QED BY <2>2, <2>3, <2>4, <2>5 DEF AppInv, AppRecord, RefusedForReplicas
<1> QED BY <1>1, <1>2

(* Down removes all containers. *)
LEMMA DownLocalKeeps == AppInv /\ Down => AppInv'
<1> SUFFICES ASSUME AppInv, Down PROVE AppInv'
  OBVIOUS
<1>1. app' = [services |-> app.services, own |-> app.own, networks |-> app.networks, home |-> app.home, format |-> app.format, pc |-> "down"]
  BY DEF AppInv, AppRecord, Down
<1>2. simulated' = [created |-> {}, started |-> {}]
  BY DEF Down, RemoveOrphans
<1> QED BY <1>1, <1>2 DEF AppInv, AppRecord, RefusedForReplicas, NoContainers

-----------------------------------------------------------------------------
(* While the argument, the environment, the files and the directories stay, and the list too. *)
LEMMA SideCarMoves ==
    ASSUME SideCarInv, IsSideCar(sidecar'), sidecar'.arg = sidecar.arg, sidecar'.asked = sidecar.asked, sidecar'.env = sidecar.env,
           sidecar'.secrets = sidecar.secrets, sidecar'.keys = sidecar.keys, sidecar'.files = sidecar.files, sidecar'.dirs = sidecar.dirs,
           sidecar'.pc \in Places
    PROVE  SideCarType' /\ DirsAsked' /\ LeftOrWritten' /\ NothingElse'
<1>1. SideCarType'
  BY DEF SideCarInv, SideCarType
<1>2. DirsAsked' /\ LeftOrWritten' /\ NothingElse'
  BY DEF SideCarInv, DirsAsked, LeftOrWritten, NothingElse, FilesOf, KeysOf
<1> QED BY <1>1, <1>2

(* The side-car's end, well or for a cause. *)
LEMMA ExitKeeps ==
    ASSUME SideCarInv, NEW ok \in BOOLEAN, Exit(ok),
           IF ok THEN sidecar.secrets = <<>>
           ELSE \/ sidecar.arg # "list"
                \/ \E s \in sidecar.asked : BadSecret(s)
                \/ \E s, t \in sidecar.asked : s.name = t.name /\ s.keys = <<>> /\ t.keys # <<>>
    PROVE  SideCarInv'
<1>1. PICK pc \in {"done", "failed"} : pc = IF ok THEN "done" ELSE "failed"
  OBVIOUS
<1>2. sidecar' = [arg |-> sidecar.arg, secrets |-> sidecar.secrets, asked |-> sidecar.asked, env |-> sidecar.env, keys |-> sidecar.keys,
                  dirs |-> sidecar.dirs, files |-> sidecar.files, broken |-> sidecar.broken, pc |-> pc]
  BY <1>1 DEF SideCarInv, SideCarType, IsSideCar, Exit
<1>3. SideCarType' /\ DirsAsked' /\ LeftOrWritten' /\ NothingElse'
  BY <1>1, <1>2, SideCarMoves DEF IsSideCar, Places
<1>4. FailsForCause'
  BY <1>1, <1>2 DEF FailsForCause, BadSecret, KeysOf
<1> QED BY <1>1, <1>2, <1>3, <1>4 DEF SideCarInv

(* A write that fails is a cause. *)
LEMMA WriteFailsKeeps ==
    ASSUME SideCarInv, WriteFails
    PROVE  SideCarInv'
<1>1. sidecar' = [arg |-> sidecar.arg, secrets |-> sidecar.secrets, asked |-> sidecar.asked, env |-> sidecar.env, keys |-> sidecar.keys,
                  dirs |-> sidecar.dirs, files |-> sidecar.files, broken |-> TRUE, pc |-> "failed"]
  BY DEF SideCarInv, SideCarType, IsSideCar, WriteFails
<1>2. SideCarType' /\ DirsAsked' /\ LeftOrWritten' /\ NothingElse'
  BY <1>1, SideCarMoves DEF IsSideCar, Places
<1> QED BY <1>1, <1>2 DEF SideCarInv, FailsForCause

(* The argument is a list, or it ends. *)
LEMMA SideCarMainKeeps == SideCarInv /\ SideCarMain => SideCarInv'
<1> SUFFICES ASSUME SideCarInv, SideCarMain PROVE SideCarInv'
  OBVIOUS
<1>1. CASE sidecar.arg = "list"
  <2>1. sidecar' = [sidecar EXCEPT !.pc = "loop"]
    BY <1>1 DEF SideCarMain
  <2>2. sidecar' = [arg |-> sidecar.arg, secrets |-> sidecar.secrets, asked |-> sidecar.asked, env |-> sidecar.env, keys |-> sidecar.keys,
                    dirs |-> sidecar.dirs, files |-> sidecar.files, broken |-> sidecar.broken, pc |-> "loop"]
    BY <2>1 DEF SideCarInv, SideCarType, IsSideCar
  <2>3. SideCarType' /\ DirsAsked' /\ LeftOrWritten' /\ NothingElse'
    BY <2>2, SideCarMoves DEF IsSideCar, Places
  <2> QED BY <2>2, <2>3 DEF SideCarInv, FailsForCause
<1>2. CASE sidecar.arg # "list"
  BY <1>2, ExitKeeps DEF SideCarMain
<1> QED BY <1>1, <1>2

(* The next secret, or the end. *)
LEMMA SideCarLoopKeeps == SideCarInv /\ SideCarLoop => SideCarInv'
<1> SUFFICES ASSUME SideCarInv, SideCarLoop PROVE SideCarInv'
  OBVIOUS
<1>1. CASE sidecar.secrets = <<>>
  BY <1>1, ExitKeeps DEF SideCarLoop
<1>2. CASE sidecar.secrets # <<>>
  <2>1. sidecar' = [sidecar EXCEPT !.pc = "next"]
    BY <1>2 DEF SideCarLoop
  <2>2. sidecar' = [arg |-> sidecar.arg, secrets |-> sidecar.secrets, asked |-> sidecar.asked, env |-> sidecar.env, keys |-> sidecar.keys,
                    dirs |-> sidecar.dirs, files |-> sidecar.files, broken |-> sidecar.broken, pc |-> "next"]
    BY <2>1 DEF SideCarInv, SideCarType, IsSideCar
  <2>3. SideCarType' /\ DirsAsked' /\ LeftOrWritten' /\ NothingElse'
    BY <2>2, SideCarMoves DEF IsSideCar, Places
  <2> QED BY <1>2, <2>2, <2>3 DEF SideCarInv, FailsForCause
<1> QED BY <1>1, <1>2

(* A secret that is written is taken off the list. *)
LEMMA NextSecret ==
    ASSUME SideCarInv, sidecar.secrets # <<>>, SideCarType', sidecar'.pc = "loop", sidecar'.secrets = Tail(sidecar.secrets),
           sidecar'.asked = sidecar.asked, sidecar'.env = sidecar.env, sidecar'.dirs = sidecar.dirs,
           sidecar.files \subseteq sidecar'.files, FilesOf(Head(sidecar.secrets)) \subseteq sidecar'.files, NothingElse'
    PROVE  SideCarInv'
<1>1. Range(sidecar.secrets) = {Head(sidecar.secrets)} \cup Range(sidecar'.secrets)
  BY RangeParts DEF SideCarInv, SideCarType
<1>2. ASSUME NEW s \in sidecar.asked PROVE s \in Range(sidecar'.secrets) \/ FilesOf(s)' \subseteq sidecar'.files
  <2>1. s \in Range(sidecar.secrets) \/ FilesOf(s) \subseteq sidecar.files
    BY DEF SideCarInv, LeftOrWritten
  <2>2. FilesOf(s)' = FilesOf(s)
    BY DEF FilesOf, KeysOf
  <2> QED BY <1>1, <2>1, <2>2
<1>3. LeftOrWritten'
  BY <1>2 DEF LeftOrWritten
<1>4. DirsAsked'
  BY DEF SideCarInv, DirsAsked
<1> QED BY <1>3, <1>4 DEF SideCarInv, FailsForCause

(* One secret: its file, or the list of its keys. *)
LEMMA CreateSecretFilesKeeps == SideCarInv /\ CreateSecretFiles => SideCarInv'
<1> SUFFICES ASSUME SideCarInv, CreateSecretFiles PROVE SideCarInv'
  OBVIOUS
<1>1. SideCarType /\ IsSideCar(sidecar) /\ sidecar.pc = "next" /\ sidecar.secrets # <<>> /\ DirsAsked /\ NothingElse
  BY DEF SideCarInv, SideCarType, CreateSecretFiles
<1>2. PICK s : s = Head(sidecar.secrets) /\ s \in sidecar.asked /\ Tail(sidecar.secrets) \in Seq(sidecar.asked)
  BY <1>1, RangeParts DEF SideCarType
<1>3. s.name \in STRING /\ s.keys \in Seq(STRING)
  BY <1>1, <1>2 DEF SideCarType, SecretType
<1>4. CASE s.name \notin DOMAIN sidecar.env /\ Exit(FALSE)
  <2>1. BadSecret(s)
    BY <1>4 DEF BadSecret
  <2> QED BY <1>2, <1>4, <2>1, ExitKeeps
<1>5. CASE s.name \in DOMAIN sidecar.env /\ s.keys = <<>> /\ WriteSecret(s)
  <2>1. CASE s.name \in sidecar.dirs /\ Exit(FALSE)
    <3>1. PICK t \in sidecar.asked : t.name = s.name /\ t.keys # <<>>
      BY <1>1, <2>1 DEF DirsAsked
    <3> QED BY <1>2, <1>5, <2>1, <3>1, ExitKeeps
  <2>2. CASE sidecar' = [sidecar EXCEPT !.files = @ \cup {<<s.name>>}, !.secrets = Tail(@), !.pc = "loop"]
    <3>1. sidecar' = [arg |-> sidecar.arg, secrets |-> Tail(sidecar.secrets), asked |-> sidecar.asked, env |-> sidecar.env, keys |-> sidecar.keys,
                      dirs |-> sidecar.dirs, files |-> sidecar.files \cup {<<s.name>>}, broken |-> sidecar.broken, pc |-> "loop"]
      BY <1>1, <2>2 DEF IsSideCar
    <3>2. IsSideCar(sidecar')
      BY <3>1 DEF IsSideCar
    <3>3. SideCarType'
      BY <1>1, <1>2, <3>1, <3>2 DEF SideCarType, Places
    <3>4. FilesOf(s) = {<<s.name>>} /\ \A t : FilesOf(t)' = FilesOf(t)
      BY <1>5, <3>1 DEF FilesOf, KeysOf
    <3>5. NothingElse'
      BY <1>1, <1>2, <1>5, <3>1, <3>4 DEF NothingElse
    <3> QED BY <1>1, <1>2, <3>1, <3>3, <3>4, <3>5, NextSecret
  <2> QED BY <1>5, <2>1, <2>2, WriteFailsKeeps DEF WriteSecret
<1>6. CASE s.name \in DOMAIN sidecar.env /\ s.keys # <<>> /\ MakeDirectory(s, sidecar.env[s.name])
  <2>1. PICK v : v = sidecar.env[s.name] /\ v \in [json : BOOLEAN, dict : SUBSET STRING] /\ IsFiniteSet(v.dict)
    BY <1>1, <1>6 DEF SideCarType
  <2>2. CASE (~v.json \/ <<s.name>> \in sidecar.files) /\ Exit(FALSE)
    <3>1. CASE ~v.json
      <4>1. BadSecret(s)
        BY <1>6, <2>1, <3>1 DEF BadSecret
      <4> QED BY <1>2, <2>2, <4>1, ExitKeeps
    <3>2. CASE <<s.name>> \in sidecar.files
      <4>1. PICK t \in sidecar.asked : <<s.name>> \in FilesOf(t)
        BY <1>1, <3>2 DEF NothingElse
      <4>2. t.keys = <<>>
        <5>1. \A k : <<s.name>> # <<t.name, k>>
          OBVIOUS
        <5> QED BY <4>1, <5>1 DEF FilesOf
      <4>3. t.name = s.name
        BY <4>1, <4>2 DEF FilesOf
      <4> QED BY <1>2, <1>6, <2>2, <4>2, <4>3, ExitKeeps
    <3> QED BY <2>2, <3>1, <3>2
  <2>3. CASE v.json /\ sidecar' = [sidecar EXCEPT !.dirs = @ \cup {s.name}, !.keys = Wanted(s, v.dict), !.pc = "key"]
    <3>1. PICK ks : ks = Wanted(s, v.dict)
      OBVIOUS
    <3>2. PICK ds : ds = sidecar.dirs \cup {s.name}
      OBVIOUS
    <3>3. ks \in Seq(STRING) /\ Range(ks) = KeysOf(s)
      <4>1. CASE "*" \in Range(s.keys)
        <5>1. DOMAIN SetToSeq(v.dict) = 1..Cardinality(v.dict) /\ Range(SetToSeq(v.dict)) = v.dict /\ Cardinality(v.dict) \in Nat
              /\ SetToSeq(v.dict) \in [1..Cardinality(v.dict) -> v.dict]
          BY <2>1, KeysListed
        <5>2. ks = SetToSeq(v.dict) /\ KeysOf(s) = v.dict
          BY <2>1, <3>1, <4>1 DEF Wanted, KeysOf
        <5>3. PICK n \in Nat : n = Cardinality(v.dict)
          BY <5>1
        <5>4. ks \in [1..n -> v.dict] /\ v.dict \subseteq STRING
          BY <2>1, <5>1, <5>2, <5>3
        <5>5. ks \in Seq(STRING)
          BY <5>4
        <5> QED BY <5>1, <5>2, <5>5
      <4>2. CASE "*" \notin Range(s.keys)
        BY <1>3, <3>1, <4>2 DEF Wanted, KeysOf
      <4> QED BY <4>1, <4>2
    <3>4. sidecar' = [arg |-> sidecar.arg, secrets |-> sidecar.secrets, asked |-> sidecar.asked, env |-> sidecar.env, keys |-> ks,
                      dirs |-> ds, files |-> sidecar.files, broken |-> sidecar.broken, pc |-> "key"]
      BY <1>1, <2>3, <3>1, <3>2 DEF IsSideCar
    <3>5. IsSideCar(sidecar')
      BY <3>4 DEF IsSideCar
    <3>6. SideCarType'
      BY <1>1, <3>3, <3>4, <3>5 DEF SideCarType, Places
    <3>7. \A t : FilesOf(t)' = FilesOf(t) /\ KeysOf(t)' = KeysOf(t)
      BY <3>4 DEF FilesOf, KeysOf
    <3>8. InSecret'
      BY <1>2, <1>6, <3>3, <3>4, <3>7 DEF InSecret
    <3>9. DirsAsked'
      BY <1>1, <1>2, <1>6, <3>2, <3>4 DEF DirsAsked
    <3>10. LeftOrWritten' /\ NothingElse'
      BY <3>4, <3>7 DEF SideCarInv, LeftOrWritten, NothingElse
    <3> QED BY <1>1, <3>4, <3>6, <3>8, <3>9, <3>10 DEF SideCarInv, FailsForCause
  <2> QED BY <1>6, <2>1, <2>2, <2>3, WriteFailsKeeps DEF MakeDirectory
<1> QED BY <1>2, <1>4, <1>5, <1>6 DEF CreateSecretFiles

(* One key of a secret, or the end of them. *)
LEMMA WriteKeyKeeps == SideCarInv /\ WriteKey => SideCarInv'
<1> SUFFICES ASSUME SideCarInv, WriteKey PROVE SideCarInv'
  OBVIOUS
<1>1. SideCarType /\ IsSideCar(sidecar) /\ sidecar.pc = "key" /\ sidecar.secrets # <<>> /\ InSecret /\ DirsAsked /\ NothingElse
  BY DEF SideCarInv, SideCarType, WriteKey
<1>2. PICK s : s = Head(sidecar.secrets) /\ s \in sidecar.asked /\ Tail(sidecar.secrets) \in Seq(sidecar.asked)
  BY <1>1, RangeParts DEF SideCarType
<1>3. /\ s.keys # <<>> /\ s.name \in DOMAIN sidecar.env
      /\ \A x \in KeysOf(s) : x \in Range(sidecar.keys) \/ <<s.name, x>> \in sidecar.files
      /\ Range(sidecar.keys) \subseteq KeysOf(s)
  BY <1>1, <1>2 DEF InSecret
<1>4. FilesOf(s) = { <<s.name, x>> : x \in KeysOf(s) }
  BY <1>3 DEF FilesOf
<1>5. CASE sidecar.keys = <<>> /\ sidecar' = [sidecar EXCEPT !.secrets = Tail(@), !.pc = "loop"]
  <2>1. sidecar' = [arg |-> sidecar.arg, secrets |-> Tail(sidecar.secrets), asked |-> sidecar.asked, env |-> sidecar.env, keys |-> sidecar.keys,
                    dirs |-> sidecar.dirs, files |-> sidecar.files, broken |-> sidecar.broken, pc |-> "loop"]
    BY <1>1, <1>5 DEF IsSideCar
  <2>2. IsSideCar(sidecar')
    BY <2>1 DEF IsSideCar
  <2>3. SideCarType'
    BY <1>1, <1>2, <2>1, <2>2 DEF SideCarType, Places
  <2>4. Range(sidecar.keys) = {}
    <3>1. DOMAIN sidecar.keys = {}
      BY <1>5
    <3> QED BY <3>1 DEF Range
  <2>5. FilesOf(s) \subseteq sidecar'.files
    BY <1>3, <1>4, <2>1, <2>4
  <2>6. NothingElse'
    BY <1>1, <2>1 DEF NothingElse, FilesOf, KeysOf
  <2> QED BY <1>1, <1>2, <2>1, <2>3, <2>5, <2>6, NextSecret
<1>6. CASE sidecar.keys # <<>>
  <2>1. PICK k : k = Head(sidecar.keys)
    OBVIOUS
  <2>2. Range(sidecar.keys) = {k} \cup Range(Tail(sidecar.keys)) /\ Tail(sidecar.keys) \in Seq(STRING) /\ k \in KeysOf(s)
    <3>1. Range(sidecar.keys) = {k} \cup Range(Tail(sidecar.keys)) /\ Tail(sidecar.keys) \in Seq(STRING)
      BY <1>1, <1>6, <2>1, RangeParts DEF SideCarType
    <3> QED BY <1>3, <3>1
  <2>3. CASE (k \notin sidecar.env[s.name].dict \/ k \in NoFileNames) /\ Exit(FALSE)
    <3>1. BadSecret(s)
      BY <1>3, <2>2, <2>3 DEF BadSecret, KeysOf
    <3> QED BY <1>2, <2>3, <3>1, ExitKeeps
  <2>4. CASE sidecar' = [sidecar EXCEPT !.files = @ \cup {<<s.name, k>>}, !.keys = Tail(@)]
    <3>1. sidecar' = [arg |-> sidecar.arg, secrets |-> sidecar.secrets, asked |-> sidecar.asked, env |-> sidecar.env, keys |-> Tail(sidecar.keys),
                      dirs |-> sidecar.dirs, files |-> sidecar.files \cup {<<s.name, k>>}, broken |-> sidecar.broken, pc |-> "key"]
      BY <1>1, <2>4 DEF IsSideCar
    <3>2. IsSideCar(sidecar')
      BY <3>1 DEF IsSideCar
    <3>3. SideCarType'
      BY <1>1, <2>2, <3>1, <3>2 DEF SideCarType
    <3>4. \A t : FilesOf(t)' = FilesOf(t) /\ KeysOf(t)' = KeysOf(t)
      BY <3>1 DEF FilesOf, KeysOf
    <3>5. InSecret'
      BY <1>2, <1>3, <2>2, <3>1, <3>4 DEF InSecret
    <3>6. LeftOrWritten'
      BY <3>1, <3>4 DEF SideCarInv, LeftOrWritten
    <3>7. <<s.name, k>> \in FilesOf(s)
      BY <1>4, <2>2
    <3>8. NothingElse'
      BY <1>1, <1>2, <1>3, <3>1, <3>4, <3>7 DEF NothingElse
    <3>9. DirsAsked'
      BY <1>1, <3>1 DEF DirsAsked
    <3> QED BY <1>1, <3>1, <3>3, <3>5, <3>6, <3>8, <3>9 DEF SideCarInv, FailsForCause
  <2> QED BY <1>2, <1>6, <2>1, <2>3, <2>4, WriteFailsKeeps DEF WriteKey
<1> QED BY <1>2, <1>5, <1>6 DEF WriteKey

(* All secrets are still to write. *)
LEMMA LocalInvInit == LocalInit => LocalInv
<1> SUFFICES ASSUME LocalInit PROVE LocalInv
  OBVIOUS
<1>1. AppInv /\ app.pc \in {"none", "create", "convert"}
  <2>1. simulated = [created |-> {}, started |-> {}]
    BY DEF LocalInit, NoContainers
  <2>2. ASSUME NEW p \in LocalProjects, NEW pc \in {"create", "convert"}, NEW home \in BOOLEAN, NEW format \in BOOLEAN,
               app = [services |-> p, own |-> DOMAIN p, networks |-> {"default"}, home |-> home, format |-> format, pc |-> pc]
        PROVE  AppInv /\ app.pc \in {"none", "create", "convert"}
    <3>1. app.pc = pc /\ app.services = p /\ AppRecord
      BY <2>2 DEF AppRecord
    <3> QED BY <2>1, <2>2, <3>1 DEF AppInv, RefusedForReplicas
  <2>3. CASE app = [services |-> <<>>, own |-> {}, networks |-> {}, home |-> TRUE, format |-> TRUE, pc |-> "none"]
    <3>1. app.pc = "none" /\ AppRecord
      BY <2>3 DEF AppRecord
    <3> QED BY <2>1, <3>1 DEF AppInv, RefusedForReplicas
  <2> QED BY <2>2, <2>3 DEF LocalInit
<1>2. SideCarInv
  <2>0. PICK pc \in {"main", "off"} : pc = IF app.pc = "none" THEN "main" ELSE "off"
    OBVIOUS
  <2>1. PICK i \in SecretInputs : sidecar = [arg |-> i.arg, secrets |-> i.secrets, asked |-> Range(i.secrets), env |-> i.env, keys |-> <<>>,
                                             dirs |-> {}, files |-> {}, broken |-> FALSE, pc |-> pc]
    BY <2>0 DEF LocalInit
  <2>2. i.secrets \in Seq(SecretType) /\ \A n \in DOMAIN i.env : i.env[n] \in [json : BOOLEAN, dict : SUBSET STRING] /\ IsFiniteSet(i.env[n].dict)
    BY LocalAssumption DEF SecretType
  <2>3. Range(i.secrets) \subseteq SecretType /\ i.secrets \in Seq(Range(i.secrets))
    <3>1. PICK m \in Nat : DOMAIN i.secrets = 1..m /\ i.secrets \in [1..m -> SecretType]
      BY <2>2
    <3>2. PICK T : T = Range(i.secrets)
      OBVIOUS
    <3>3. i.secrets \in [1..m -> T] /\ T \subseteq SecretType
      BY <3>1, <3>2 DEF Range
    <3> QED BY <3>2, <3>3
  <2>4. <<>> \in Seq(STRING)
    OBVIOUS
  <2>5. IsSideCar(sidecar)
    BY <2>1 DEF IsSideCar
  <2>6. SideCarType
    BY <2>0, <2>1, <2>2, <2>3, <2>4, <2>5 DEF SideCarType, Places
  <2> QED BY <2>0, <2>1, <2>6 DEF SideCarInv, DirsAsked, LeftOrWritten, NothingElse, FailsForCause
<1> QED BY <1>1, <1>2 DEF LocalInv

(***************************************************************************)
(* A simulated project finds the endpoints at their address before it      *)
(* starts, and only replicas clash; a task finds the files of its secrets, *)
(* whichever write fails, and no others.                                   *)
(***************************************************************************)
THEOREM SimulationIsRight == LocalSpec => []SimulationRight
<1>1. LocalInv /\ [LocalNext]_localVars => LocalInv'
  <2> SUFFICES ASSUME LocalInv, [LocalNext]_localVars PROVE LocalInv'
    OBVIOUS
  <2>1. ASSUME UNCHANGED <<app, simulated>> PROVE AppInv'
    BY <2>1 DEF LocalInv, AppInv, AppRecord, EndpointsRun, OneEach, RefusedForReplicas
  <2>2. ASSUME UNCHANGED sidecar PROVE SideCarInv'
    BY <2>2 DEF LocalInv, SideCarInv, SideCarType, InSecret, DirsAsked, LeftOrWritten, NothingElse, FailsForCause, BadSecret, FilesOf, KeysOf
  <2>3. CASE Create \/ Start \/ Convert \/ Down
    <3>1. UNCHANGED sidecar
      BY <2>3 DEF Create, Start, Convert, Down
    <3> QED BY <2>2, <2>3, <3>1, CreateLocalKeeps, StartLocalKeeps, ConvertLocalKeeps, DownLocalKeeps DEF LocalInv
  <2>4. CASE SideCarMain \/ SideCarLoop \/ CreateSecretFiles \/ WriteKey
    <3>1. UNCHANGED <<app, simulated>>
      BY <2>4 DEF SideCarMain, SideCarLoop, CreateSecretFiles, WriteKey
    <3> QED BY <2>1, <2>4, <3>1, SideCarMainKeeps, SideCarLoopKeeps, CreateSecretFilesKeeps, WriteKeyKeeps DEF LocalInv
  <2>5. CASE UNCHANGED localVars
    BY <2>1, <2>2, <2>5 DEF localVars, LocalInv
  <2> QED BY <2>3, <2>4, <2>5 DEF LocalNext
<1>2. LocalInv => SimulationRight
  <2> SUFFICES ASSUME LocalInv PROVE SimulationRight
    OBVIOUS
  <2>1. EndpointsFirst
    BY AddressesDiffer DEF EndpointsFirst, LocalInv, AppInv, EndpointsRun, OneEach
  <2>2. SecretsWritten
    <3>1. ASSUME sidecar.pc = "done", NEW s \in sidecar.asked PROVE FilesOf(s) \subseteq sidecar.files
      <4>1. sidecar.secrets = <<>>
        BY <3>1 DEF LocalInv, SideCarInv
      <4>2. DOMAIN sidecar.secrets = {}
        BY <4>1
      <4>3. Range(sidecar.secrets) = {}
        BY <4>2 DEF Range
      <4> QED BY <4>3 DEF LocalInv, SideCarInv, LeftOrWritten
    <3> QED BY <3>1 DEF SecretsWritten
  <2> QED BY <2>1, <2>2 DEF SimulationRight, LocalInv, AppInv, SideCarInv
<1> QED BY <1>1, <1>2, LocalInvInit, PTL DEF LocalSpec
=============================================================================
