--------------------------- MODULE ComposeAttach ---------------------------
(***************************************************************************)
(* What a command shows of its containers: up attaches to those of the     *)
(* project, then starts them, and stops them when it is interrupted; run   *)
(* attaches to the one it made; logs follows. A goroutine for each         *)
(* container copies its output. A container writes pieces of text,         *)
(* sequences of letters and ends of line; the engine keeps them all. The   *)
(* order services start in is that of ComposeStart. The engine is external. *)
(***************************************************************************)
EXTENDS Integers, FiniteSets, SequencesExt

CONSTANTS AttachCases

NewLine == "\n"

(* A container has written something if it has ended, and writes no empty piece. *)
ASSUME AttachAssumption ==
    \A case \in AttachCases : \A c \in DOMAIN case.containers :
        /\ case.containers[c].state \in {"created", "running", "exited"}
        /\ case.containers[c].writes \in Seq(Seq(STRING) \ {<<>>}) \ {<<>>}

VARIABLES attachCase,  \* op, the services, the containers and what they write
          cstate,      \* container -> its state
          written,     \* container -> the pieces it has written
          listed,      \* container -> its state when it was listed
          pending,     \* the containers still to be started, or stopped
          asked,       \* those whose start the engine has been asked for and has not done
          inFlight,    \* asked, at the time of the interrupt
          stream,      \* container -> the step of its goroutine
          shown,       \* container -> the pieces copied
          logged,      \* container -> the lines shown
          interrupted,
          groupDone,   \* the context of the goroutines is cancelled
          attachPc

attachVars == <<attachCase, cstate, written, listed, pending, asked, inFlight, stream, shown, logged, interrupted, groupDone, attachPc>>

Conts == attachCase.containers
AttachOp == attachCase.op
Fn == [x \in {} |-> x]

(* What the walks of Start and Stop come to: the containers of the project's services. *)
Selected == { c \in DOMAIN Conts : Conts[c].service \in attachCase.services }
Ended == {"ok", "failed", "panicked"}

AttachStart(case, step) ==
    /\ attachCase = case
    /\ cstate = [c \in DOMAIN case.containers |-> case.containers[c].state]
    /\ written = [c \in DOMAIN case.containers |-> IF case.containers[c].state = "exited" THEN 1 ELSE 0]
    /\ listed = Fn
    /\ pending = {} /\ asked = {} /\ inFlight = {}
    /\ stream = [c \in DOMAIN case.containers |-> "off"]
    /\ shown = [c \in DOMAIN case.containers |-> 0]
    /\ logged = [c \in DOMAIN case.containers |-> <<>>]
    /\ interrupted = FALSE /\ groupDone = FALSE
    /\ attachPc = step

AttachInit == \E case \in AttachCases : AttachStart(case, "list")
AttachIdle == AttachStart([op |-> "none", services |-> {}, containers |-> Fn], "idle")

-----------------------------------------------------------------------------
(* The containers. One that is to be removed is, as soon as it exits. *)
ContainerWrites(c) ==
    /\ cstate[c] = "running" /\ written[c] < Len(Conts[c].writes)
    /\ written' = [written EXCEPT ![c] = @ + 1]
    /\ UNCHANGED <<attachCase, cstate, listed, pending, asked, inFlight, stream, shown, logged, interrupted, groupDone, attachPc>>

ContainerExits(c) ==
    /\ cstate[c] = "running" /\ Conts[c].mayExit
    /\ cstate' = [cstate EXCEPT ![c] = IF Conts[c].autoRemove THEN "removed" ELSE "exited"]
    /\ UNCHANGED <<attachCase, written, listed, pending, asked, inFlight, stream, shown, logged, interrupted, groupDone, attachPc>>

(* Somebody removes a container, where the case says so. *)
ContainerRemoved(c) ==
    /\ attachCase.removes /\ cstate[c] # "running" /\ attachPc \notin Ended \cup {"list"}
    /\ cstate' = [cstate EXCEPT ![c] = "removed"]
    /\ UNCHANGED <<attachCase, written, listed, pending, asked, inFlight, stream, shown, logged, interrupted, groupDone, attachPc>>

-----------------------------------------------------------------------------
(* The services logs has been asked for; all of them when none is named. *)
ignore(c) == AttachOp = "logs" /\ attachCase.services # {} /\ Conts[c].service \notin attachCase.services
Followed == { c \in DOMAIN Conts : cstate[c] # "removed" /\ ~ignore(c) }

(* Whatever Start returns, an up that has been interrupted goes on to Stop. *)
Returns(result) == IF interrupted /\ AttachOp = "up" THEN "stopping" ELSE result

(***************************************************************************)
(* up lists the containers of the project, stopped ones and those of other *)
(* services too, and a goroutine is begun for each; logs inspects them     *)
(* first. run has made one container. A detached command attaches to none. *)
(***************************************************************************)
attach ==
    /\ attachPc = "list"
    /\ \/ /\ ~interrupted
          /\ listed' = [c \in Followed |-> cstate[c]]
          /\ stream' = [c \in DOMAIN Conts |-> IF c \in Followed /\ ~attachCase.detach THEN "begun" ELSE "off"]
          /\ attachPc' = IF AttachOp = "logs" THEN "waiting" ELSE "starting"
          /\ pending' = IF AttachOp = "logs" THEN {} ELSE { c \in Selected : cstate[c] # "running" }
       \/ (attachCase.faulty \/ interrupted) /\ attachPc' = Returns("failed") /\ UNCHANGED <<listed, stream, pending>>
    /\ UNCHANGED <<attachCase, cstate, written, asked, inFlight, shown, logged, interrupted, groupDone>>

Became(c, step) == stream' = [stream EXCEPT ![c] = step]

(* An error cancels the other goroutines, except in run: there is one. *)
StreamFails(c) == Became(c, "failed") /\ groupDone' = (groupDone \/ AttachOp # "run")

(* A container of a service the project has no more, or has been filtered out, ends them all. *)
GetService(c) ==
    /\ stream[c] = "begun"
    /\ IF AttachOp = "up" /\ Conts[c].service \notin attachCase.services THEN StreamFails(c) ELSE Became(c, "service") /\ UNCHANGED groupDone
    /\ UNCHANGED <<attachCase, cstate, written, listed, pending, asked, inFlight, shown, logged, interrupted, attachPc>>

(***************************************************************************)
(* One that was running is followed, the others are attached to: their log *)
(* first. The stream of one that has exited ends after its next start only *)
(* ("kept").                                                               *)
(***************************************************************************)
getContainerStreams(c) ==
    /\ stream[c] = "service" /\ AttachOp # "logs"
    /\ IF groupDone \/ interrupted \/ cstate[c] = "removed" THEN StreamFails(c)
       ELSE /\ UNCHANGED groupDone
            /\ Became(c, IF listed[c] # "running" /\ cstate[c] = "exited" THEN "kept" ELSE "open")
    /\ UNCHANGED <<attachCase, cstate, written, listed, pending, asked, inFlight, shown, logged, interrupted, attachPc>>

(* The reader is closed on return, though the engine may have given none. *)
FollowLogs(c) ==
    /\ stream[c] = "service" /\ AttachOp = "logs"
    /\ IF groupDone \/ interrupted \/ cstate[c] = "removed" THEN attachPc' = "panicked" /\ UNCHANGED stream
       ELSE Became(c, "open") /\ UNCHANGED attachPc
    /\ UNCHANGED <<attachCase, cstate, written, listed, pending, asked, inFlight, shown, logged, interrupted, groupDone>>

(* The lines of a text, the empty ones left out: for each beginning of the text the lines that have *)
(* ended, and the one that has not.                                                                  *)
WithLine(s) == IF s[2] = <<>> THEN s[1] ELSE Append(s[1], s[2])
LinesOf(b) ==
    LET split[n \in 0 .. Len(b)] ==
          IF n = 0 THEN << <<>>, <<>> >>
          ELSE IF b[n] = NewLine THEN << WithLine(split[n - 1]), <<>> >>
               ELSE << split[n - 1][1], Append(split[n - 1][2], b[n]) >>
    IN  WithLine(split[Len(b)])

(* Write of splitBuffer: each piece is split by itself. *)
splitBuffer(b) == LinesOf(b)

(* io.Copy and StdCopy: a piece at a time, until the container has exited. *)
Copy(c) ==
    /\ stream[c] \in {"open", "kept"} /\ ~groupDone /\ ~interrupted
    /\ shown[c] < written[c]
    /\ shown' = [shown EXCEPT ![c] = @ + 1]
    /\ logged' = [logged EXCEPT ![c] = @ \o (IF AttachOp = "run" THEN <<>> ELSE splitBuffer(Conts[c].writes[shown[c] + 1]))]
    /\ UNCHANGED <<attachCase, cstate, written, listed, pending, asked, inFlight, stream, interrupted, groupDone, attachPc>>

CopyEnds(c) ==
    /\ stream[c] = "open" /\ ~groupDone /\ ~interrupted
    /\ shown[c] = written[c]
    /\ cstate[c] \in {"exited", "removed"} \/ (AttachOp = "logs" /\ cstate[c] = "created")
    /\ Became(c, "done")
    /\ UNCHANGED <<attachCase, cstate, written, listed, pending, asked, inFlight, shown, logged, interrupted, groupDone, attachPc>>

(* Once the context is cancelled the stream is closed under the copy. *)
StreamClosed(c) ==
    /\ stream[c] \in {"open", "kept"} /\ (groupDone \/ interrupted)
    /\ StreamFails(c)
    /\ UNCHANGED <<attachCase, cstate, written, listed, pending, asked, inFlight, shown, logged, interrupted, attachPc>>

-----------------------------------------------------------------------------
(* ContainerStart is called, *)
StartContainer(c) ==
    /\ attachPc = "starting" /\ c \in pending /\ ~interrupted
    /\ pending' = pending \ {c} /\ asked' = asked \cup {c}
    /\ UNCHANGED <<attachCase, cstate, written, listed, inFlight, stream, shown, logged, interrupted, groupDone, attachPc>>

(* and the engine does it, perhaps long after the caller has gone. *)
EngineStarts(c) ==
    /\ c \in asked /\ cstate[c] # "removed"
    /\ cstate' = [cstate EXCEPT ![c] = "running"]
    /\ stream' = [stream EXCEPT ![c] = IF @ = "kept" THEN "open" ELSE @]
    /\ asked' = asked \ {c}
    /\ UNCHANGED <<attachCase, written, listed, pending, inFlight, shown, logged, interrupted, groupDone, attachPc>>

(***************************************************************************)
(* A container that cannot be started ends the command: its goroutines are *)
(* not waited for. An interrupt ends every call that is waiting, or yet to *)
(* come: the engine may have heard of it or not.                           *)
(***************************************************************************)
StartFails ==
    /\ attachPc = "starting"
    /\ \/ interrupted /\ pending \cup asked # {}
       \/ \E c \in asked : attachCase.faulty \/ cstate[c] = "removed"
    /\ attachPc' = Returns("failed")
    /\ UNCHANGED <<attachCase, cstate, written, listed, pending, asked, inFlight, stream, shown, logged, interrupted, groupDone>>

(* What the command makes of its goroutines: up, interrupted, stops. *)
Over(c) == stream[c] \in {"off", "done", "failed"}
GroupResult ==
    Returns(IF \E c \in DOMAIN Conts : stream[c] = "failed" THEN "failed" ELSE "ok")

Started ==
    /\ attachPc = "starting" /\ pending = {} /\ asked = {}
    /\ attachPc' = IF attachCase.detach THEN GroupResult ELSE "waiting"
    /\ UNCHANGED <<attachCase, cstate, written, listed, pending, asked, inFlight, stream, shown, logged, interrupted, groupDone>>

(* Mutant: the command returns with the first goroutine. *)
GroupWait_First ==
    /\ attachPc = "waiting"
    /\ \E c \in DOMAIN Conts : stream[c] # "off" /\ Over(c)
    /\ attachPc' = GroupResult
    /\ UNCHANGED <<attachCase, cstate, written, listed, pending, asked, inFlight, stream, shown, logged, interrupted, groupDone>>

(* Start, run and logs return what their group does; an interrupted up stops. *)
GroupWait ==
    /\ attachPc = "waiting"
    /\ \A c \in DOMAIN Conts : Over(c)
    /\ attachPc' = GroupResult
    /\ UNCHANGED <<attachCase, cstate, written, listed, pending, asked, inFlight, stream, shown, logged, interrupted, groupDone>>

Interrupt ==
    /\ attachPc \in {"list", "starting", "waiting"} /\ attachCase.interrupts /\ ~interrupted
    /\ interrupted' = TRUE /\ inFlight' = asked
    /\ UNCHANGED <<attachCase, cstate, written, listed, pending, asked, stream, shown, logged, groupDone, attachPc>>

(* Stop, with a context of its own, lists the containers of the project again, running or not. *)
StopLists ==
    /\ attachPc = "stopping"
    /\ \/ pending' = { c \in Selected : cstate[c] # "removed" } /\ attachPc' = "stop"
       \/ attachCase.faulty /\ attachPc' = "failed" /\ UNCHANGED pending
    /\ UNCHANGED <<attachCase, cstate, written, listed, asked, inFlight, stream, shown, logged, interrupted, groupDone>>

(* Mutant: a container that does not run when it is its turn ends the loop. *)
GracefulStop_Break(c) ==
    /\ attachPc = "stop" /\ c \in pending /\ cstate[c] # "removed"
    /\ cstate' = [cstate EXCEPT ![c] = IF @ = "running" THEN "exited" ELSE @]
    /\ pending' = IF cstate[c] = "running" THEN pending \ {c} ELSE {}
    /\ UNCHANGED <<attachCase, written, listed, asked, inFlight, stream, shown, logged, interrupted, groupDone, attachPc>>

(* To stop one that does not run is no error. *)
GracefulStop(c) ==
    /\ attachPc = "stop" /\ c \in pending /\ cstate[c] # "removed"
    /\ cstate' = [cstate EXCEPT ![c] = IF @ = "running" THEN "exited" ELSE @]
    /\ pending' = pending \ {c}
    /\ UNCHANGED <<attachCase, written, listed, asked, inFlight, stream, shown, logged, interrupted, groupDone, attachPc>>

(* A container that cannot be stopped, or is gone: the command fails, and what it has not come to runs on. *)
StopFails ==
    /\ attachPc = "stop"
    /\ \E c \in pending : attachCase.faulty \/ cstate[c] = "removed"
    /\ attachPc' = "failed"
    /\ UNCHANGED <<attachCase, cstate, written, listed, pending, asked, inFlight, stream, shown, logged, interrupted, groupDone>>

Stopped ==
    /\ attachPc = "stop" /\ pending = {}
    /\ attachPc' = "ok"
    /\ UNCHANGED <<attachCase, cstate, written, listed, pending, asked, inFlight, stream, shown, logged, interrupted, groupDone>>

(* A container may run on without a word, and a command that has ended stays so. *)
AttachRests == attachPc \in Ended \cup {"waiting"} /\ UNCHANGED attachVars

StreamStep(c) == GetService(c) \/ getContainerStreams(c) \/ FollowLogs(c) \/ Copy(c) \/ CopyEnds(c) \/ StreamClosed(c)
ContainerStep(c) == ContainerWrites(c) \/ ContainerExits(c) \/ ContainerRemoved(c)
Live == attachPc \notin Ended \cup {"idle"}

AttachNext ==
    \/ attach \/ StartFails \/ Started \/ GroupWait \/ Interrupt \/ StopLists \/ StopFails \/ Stopped \/ AttachRests
    \/ \E c \in DOMAIN Conts : EngineStarts(c)
    \/ \E c \in DOMAIN Conts : Live /\ (StartContainer(c) \/ StreamStep(c) \/ ContainerStep(c) \/ GracefulStop(c))

AttachSpec == AttachInit /\ [][AttachNext]_attachVars

(* The command and its goroutines run, and the engine answers a caller that waits; the containers need not end. *)
AttachFairness ==
    /\ WF_attachVars(attach \/ Started \/ GroupWait \/ StopLists \/ StopFails \/ Stopped)
    /\ WF_attachVars(\E c \in DOMAIN Conts : Live /\ (StartContainer(c) \/ GracefulStop(c)))
    /\ WF_attachVars(\E c \in DOMAIN Conts : ~interrupted /\ EngineStarts(c))
    /\ WF_attachVars(StartFails)
    /\ WF_attachVars(\E c \in DOMAIN Conts : Live /\ StreamStep(c))

-----------------------------------------------------------------------------
(***************************************************************************)
(* A command that returns without an error, and was not interrupted, has   *)
(* shown everything its containers wrote, from their start on, however     *)
(* late it came to attach, and nothing of the others (attach, Logs,        *)
(* RunOneOffContainer).                                                    *)
(***************************************************************************)
OutputComplete ==
    attachPc = "ok" /\ ~interrupted /\ ~attachCase.detach => \A c \in DOMAIN listed :
        /\ shown[c] = written[c]
        /\ cstate[c] # "running"

(* The text that pieces make, after each of them. *)
TextOf(pieces) == LET text[n \in 0 .. Len(pieces)] == IF n = 0 THEN <<>> ELSE text[n - 1] \o pieces[n] IN text

(***************************************************************************)
(* The lines that up and logs show of a container are those it wrote, if   *)
(* it writes whole lines at a time: a line in two pieces is shown as two   *)
(* (splitBuffer has no buffer).                                            *)
(***************************************************************************)
LinesKept ==
    \A c \in DOMAIN Conts :
        AttachOp \in {"up", "logs"} /\ (\A i \in 1 .. shown[c] - 1 : Last(Conts[c].writes[i]) = NewLine)
          => logged[c] = LinesOf(TextOf(Conts[c].writes)[shown[c]])

(***************************************************************************)
(* An interrupted up that reports no error leaves none of its services'    *)
(* containers running, but one: a start that was in flight when the signal *)
(* came is given up by the command, and the engine may do it after the     *)
(* stop has passed (runCreateStart, Stop). If a container cannot be        *)
(* stopped the error is reported and others may run on.                    *)
(***************************************************************************)
InterruptStops ==
    [][interrupted /\ AttachOp = "up" /\ attachPc' = "ok" => \A c \in Selected : cstate'[c] = "running" => c \in inFlight]_attachVars

(* An up that is interrupted returns, whatever it was at and whatever fails (runCreateStart). *)
InterruptReturns == (interrupted /\ AttachOp = "up") ~> (attachPc \in Ended)

(***************************************************************************)
(* Once its containers run no more the command returns, whatever failed,   *)
(* unless one had exited before the command attached to it: its stream     *)
(* waits for another start.                                                *)
(***************************************************************************)
AttachReturns ==
    (attachPc = "waiting" /\ \A c \in DOMAIN Conts : cstate[c] # "running")
        ~> (attachPc \in Ended \/ \E c \in DOMAIN Conts : stream[c] = "kept")

(***************************************************************************)
(* An attached command ends with its containers, and an interrupted up     *)
(* ends, after it has stopped its containers or says that it has not       *)
(* (attach, runCreateStart).                                               *)
(***************************************************************************)
AttachEnds == AttachReturns /\ InterruptReturns /\ InterruptStops

(***************************************************************************)
(* What is shown of a container is what it wrote, whole and in its lines   *)
(* (attach, Logs, splitBuffer).                                            *)
(***************************************************************************)
OutputRight == OutputComplete /\ LinesKept
=============================================================================
