------------------------------- MODULE AciLogs ------------------------------
(***************************************************************************)
(* docker logs and exec on ACI. Azure has no stream of logs: following     *)
(* them is fetching all of them again, moving the cursor of the terminal   *)
(* up over what was printed and printing it again. Exec is two goroutines  *)
(* on a websocket.                                                         *)
(*                                                                         *)
(* A line is its length and a number; a row of the screen is a line and    *)
(* which part of it the row holds.                                         *)
(***************************************************************************)
EXTENDS Integers, Sequences

CONSTANTS Lengths,      \* of the lines a container writes
          MaxLines,     \* bound: lines it writes
          MaxRows,      \* bound: rows on the terminal; it has more with each turn when the width is not known
          Width,        \* of the terminal
          TailModulus,  \* 2^32 in the code
          Requests,     \* logs and exec commands
          MaxOutput     \* bound: messages of a command, bytes of its input

(* A terminal has a width; a command is logs or exec, and is told the width, or 0 *)
(* when its output is no console.                                                 *)
ASSUME LogsAssumption ==
    /\ Lengths \subseteq Nat /\ MaxRows \in Nat /\ Width \in Nat \ {0} /\ TailModulus \in Nat \ {0}
    /\ \A r \in Requests : /\ r[1] \in {"logs", "exec"} /\ r[2].follow \in BOOLEAN
                          /\ r[2].interactive \in BOOLEAN /\ r[2].width \in {0, Width}

VARIABLES follow,       \* the command and the variables of its loop
          container,    \* its log, and whether it runs
          screen,       \* the rows of the terminal, and the cursor
          session       \* an exec: what is in flight, the two goroutines, the result

logVars == <<follow, container, screen, session>>

Prompt == << <<0, 1>> >>
Rows(line) == LET parts == IF line.length <= Width THEN 1 ELSE (line.length + Width - 1) \div Width
              IN  [k \in 1..parts |-> <<line.number, k>>]
AllRows(lines) ==
    LET rows[n \in 0 .. Len(lines)] == IF n = 0 THEN <<>> ELSE rows[n - 1] \o Rows(lines[n]) IN rows[Len(lines)]

(* Text printed where the cursor is replaces the rows it falls on. *)
Printed(rows, cursor, text) ==
    LET end == cursor + Len(text)
    IN  [i \in 1..(IF end > Len(rows) THEN end ELSE Len(rows)) |->
            IF i > cursor /\ i <= end THEN text[i - cursor] ELSE rows[i]]

(* Mutant: a line that is as wide as the terminal counts twice. *)
getBacktrackLines_Full(lines, width) ==
    LET numLines[n \in 0 .. Len(lines)] ==
            IF n = 0 THEN 0 ELSE numLines[n - 1] + 1 + (IF lines[n].length >= Width THEN lines[n].length \div Width ELSE 0)
    IN  IF width = 0 THEN Len(lines) + 1 ELSE numLines[Len(lines)]

(* The rows that were printed, as the code counts them: one too many for a line *)
(* of two or more full rows. With no width it counts what the log splits into,  *)
(* which is a part more than it has lines.                                      *)
Counts(line) == 1 + (IF line.length > Width THEN line.length \div Width ELSE 0)
Counted(lines) ==
    LET numLines[n \in 0 .. Len(lines)] == IF n = 0 THEN 0 ELSE numLines[n - 1] + Counts(lines[n]) IN numLines[Len(lines)]
getBacktrackLines(lines, width) == IF width = 0 THEN Len(lines) + 1 ELSE Counted(lines)

Go(pc) == follow' = [follow EXCEPT !.pc = pc]

(* The number of lines is cut to 32 bits. *)
Tail32(n) == n % TailModulus

Logs ==
    /\ follow.pc = "logs"
    /\ LET lines == container.log
           n     == Tail32(follow.request.tail)
       IN  CASE follow.request.follow -> Go("fetch") /\ UNCHANGED screen
             [] ~follow.request.follow /\ (container.gone \/ ~follow.request.number) -> Go("failed") /\ UNCHANGED screen
             [] OTHER -> /\ Go("done")
                         /\ screen' = LET some == IF follow.request.all \/ n >= Len(lines) THEN lines
                                                  ELSE SubSeq(lines, Len(lines) - n + 1, Len(lines))
                                      IN  [screen EXCEPT !.rows = Printed(@, screen.cursor, AllRows(some)), !.cursor = @ + Len(AllRows(some))]
    /\ UNCHANGED <<container, session>>

(* One turn of streamLogs: fetch, go back, print; what follows the last line feed is left out. *)
streamLogs ==
    /\ follow.pc = "fetch"
    /\ CASE follow.cancelled -> Go("cancelled") /\ UNCHANGED screen
         [] ~follow.cancelled /\ container.gone -> Go("failed") /\ UNCHANGED screen
         [] OTHER ->
              LET back == IF follow.back > screen.cursor THEN screen.cursor ELSE follow.back
                  top  == screen.cursor - back
                  text == AllRows(container.log)
              IN  /\ screen' = [rows |-> Printed(screen.rows, top, text), cursor |-> top + Len(text)]
                  /\ follow' = [follow EXCEPT !.back = getBacktrackLines(container.log, follow.request.width),
                                              !.fetched = container.log, !.pc = "check"]
    /\ UNCHANGED <<container, session>>

isContainerRunning == ~container.gone /\ container.running

(* It ends when the container does, once nothing new came, or on the first turn. *)
MayStop == (follow.first \/ follow.previous = follow.fetched) /\ ~isContainerRunning

CheckEnded ==
    /\ follow.pc = "check"
    /\ follow' = IF MayStop THEN [follow EXCEPT !.pc = "done"]
                 ELSE [follow EXCEPT !.first = FALSE, !.previous = follow.fetched, !.pc = "sleep"]
    /\ UNCHANGED <<container, screen, session>>

Sleep ==
    /\ follow.pc = "sleep" /\ (follow.cancelled \/ screen.cursor <= MaxRows)
    /\ Go(IF follow.cancelled THEN "cancelled" ELSE "fetch")
    /\ UNCHANGED <<container, screen, session>>

CancelFollow ==
    /\ follow.pc \in {"fetch", "check", "sleep"} /\ ~follow.cancelled
    /\ follow' = [follow EXCEPT !.cancelled = TRUE]
    /\ UNCHANGED <<container, screen, session>>

(* Azure: a line of the log, the end of the container, the deletion of its group. *)
WriteLine ==
    /\ follow.pc \notin {"idle", "exec"} /\ container.running /\ Len(container.log) < MaxLines
    /\ \E l \in Lengths : container' = [container EXCEPT !.log = Append(@, [number |-> Len(@) + 1, length |-> l])]
    /\ UNCHANGED <<follow, screen, session>>

ContainerEnds ==
    /\ follow.pc \notin {"idle", "exec"} /\ container.running
    /\ container' = [container EXCEPT !.running = FALSE]
    /\ UNCHANGED <<follow, screen, session>>

GroupDisappears ==
    /\ follow.pc \notin {"idle", "exec"} /\ ~container.gone
    /\ container' = [container EXCEPT !.gone = TRUE]
    /\ UNCHANGED <<follow, screen, session>>

-----------------------------------------------------------------------------
(* exec: a command with arguments is refused; Azure may not run it, or the *)
(* connection or the password on it may fail.                              *)

verifyExecCommand(request) == ~request.arguments

Exec ==
    /\ follow.pc = "exec" /\ session.pc = "start"
    /\ \/ ~verifyExecCommand(follow.request) /\ session' = [session EXCEPT !.pc = "refused"]
       \/ verifyExecCommand(follow.request) /\ session' = [session EXCEPT !.pc = "failed"]
       \/ verifyExecCommand(follow.request)
            /\ session' = [session EXCEPT !.pc = "select", !.down = "reading",
                                          !.up = IF follow.request.interactive THEN "reading" ELSE "none"]
    /\ UNCHANGED <<follow, container, screen>>

(* The command writes, and ends: with the connection, or the connection breaks. *)
CommandWrites ==
    /\ session.down # "none" /\ ~session.closed /\ session.sent < MaxOutput
    /\ session' = [session EXCEPT !.sent = @ + 1]
    /\ UNCHANGED <<follow, container, screen>>

CommandEnds ==
    /\ session.down # "none" /\ ~session.closed
    /\ \E broken \in BOOLEAN : session' = [session EXCEPT !.closed = TRUE, !.broken = broken]
    /\ UNCHANGED <<follow, container, screen>>

ReadServerData ==
    /\ session.down = "reading"
    /\ \/ session.shown < session.sent /\ session' = [session EXCEPT !.shown = @ + 1]
       \/ /\ session.shown = session.sent /\ session.closed
          /\ session' = [session EXCEPT !.down = "ended", !.downCh = Append(@, IF session.broken THEN "error" ELSE "nil")]
    /\ UNCHANGED <<follow, container, screen>>

(* A byte is read and sent, or the input ends or cannot be read; writing to a closed connection fails. *)
ReadStdin ==
    /\ session.up = "reading"
    /\ \/ /\ session.typed < MaxOutput
          /\ session' = IF session.closed THEN [session EXCEPT !.up = "ended", !.upCh = Append(@, "error")]
                        ELSE [session EXCEPT !.typed = @ + 1]
       \/ \E how \in {"nil", "error"} : session' = [session EXCEPT !.up = "ended", !.upCh = Append(@, how)]
    /\ UNCHANGED <<follow, container, screen>>

(* The first of the two to end decides. *)
Select ==
    /\ session.pc = "select"
    /\ \/ session.downCh # <<>> /\ session' = [session EXCEPT !.pc = IF Head(session.downCh) = "nil" THEN "ok" ELSE "error", !.by = "down"]
       \/ session.upCh # <<>> /\ session' = [session EXCEPT !.pc = IF Head(session.upCh) = "nil" THEN "ok" ELSE "error", !.by = "up"]
    /\ UNCHANGED <<follow, container, screen>>

-----------------------------------------------------------------------------
NoRequest == [follow |-> FALSE, number |-> TRUE, tail |-> 0, all |-> FALSE, interactive |-> FALSE, arguments |-> FALSE, width |-> Width]
Follow(pc, request) == [pc |-> pc, request |-> request, first |-> TRUE, previous |-> <<>>, fetched |-> <<>>, back |-> 0, cancelled |-> FALSE]
Session(pc) == [pc |-> pc, down |-> "none", up |-> "none", downCh |-> <<>>, upCh |-> <<>>, sent |-> 0, shown |-> 0, typed |-> 0,
                closed |-> FALSE, broken |-> FALSE, by |-> "none"]

LogsShared == screen = [rows |-> Prompt, cursor |-> Len(Prompt)]
LogsIdle == LogsShared /\ follow = Follow("idle", NoRequest) /\ session = Session("idle") /\ container = [log |-> <<>>, running |-> FALSE, gone |-> FALSE]
LogsInit == /\ LogsShared /\ session = Session("start") /\ container = [log |-> <<>>, running |-> TRUE, gone |-> FALSE]
            /\ \E r \in Requests : follow = Follow(r[1], r[2])

LogsStep == Logs \/ streamLogs \/ CheckEnded \/ Sleep \/ Exec \/ ReadServerData \/ Select
LogsOver == follow.pc \in {"done", "failed", "cancelled"} \/ session.pc \in {"refused", "failed", "ok", "error"}
LogsNext == LogsStep \/ ReadStdin \/ CancelFollow \/ WriteLine \/ ContainerEnds \/ GroupDisappears \/ CommandWrites \/ CommandEnds
              \/ (LogsOver /\ UNCHANGED logVars)

LogsSpec == LogsInit /\ [][LogsNext]_logVars

-----------------------------------------------------------------------------
(* After a turn: what was gone back over had lines of several rows, or such lines *)
(* with every row full.                                                           *)
Wraps(lines) == \E n \in DOMAIN lines : lines[n].length > Width
FillsRows(lines) == \E n \in DOMAIN lines : lines[n].length > Width /\ lines[n].length % Width = 0
Misses == ~follow.first /\ (follow.request.width = 0 \/ FillsRows(follow.previous))

(***************************************************************************)
(* After every turn of a followed log, all that was fetched stands, each   *)
(* line once, above the cursor. When the width is known and no line that   *)
(* was shown before has two or more rows that are all full, what was on    *)
(* the terminal before the command is still there, and nothing else. If    *)
(* one has, or the width is not known and no line wraps, then the row      *)
(* above the command is written over, and at most one old row is left      *)
(* under the cursor: it never climbs further, however often it goes back.  *)
(***************************************************************************)
ScreenRight ==
    (follow.pc \in {"check", "done"} /\ follow.request.follow) =>
        LET text == AllRows(follow.fetched)
            rows == screen.rows
            top  == screen.cursor - Len(text)
        IN  /\ top >= 0 /\ Len(rows) >= screen.cursor /\ \A i \in 1 .. Len(text) : rows[top + i] = text[i]
            /\ ~Misses => rows = Prompt \o text
            /\ (Misses /\ (follow.request.width # 0 \/ ~Wraps(follow.previous))) => top = 0 /\ Len(rows) <= Len(text) + 1

(***************************************************************************)
(* An exec without input ends well only when the command ended the         *)
(* connection in good order and all its messages are shown, and with an    *)
(* error only when the connection broke. With input, a success that leaves *)
(* messages unread means that the input ended, and an error that the input *)
(* did not end well, also when the command had.                            *)
(***************************************************************************)
ExecTold ==
    /\ (session.pc = "ok" /\ (session.shown < session.sent \/ ~session.closed \/ session.broken))
            => follow.request.interactive /\ session.up = "ended"
    /\ session.pc = "error" => (session.closed /\ session.broken) \/ (follow.request.interactive /\ session.up = "ended")

(***************************************************************************)
(* Logs and exec show what the container wrote, once, though the log is    *)
(* fetched anew at each turn and exec ends with the first of two           *)
(* goroutines (streamLogs, exec).                                          *)
(***************************************************************************)
LogsRight == ScreenRight /\ ExecTold
=============================================================================
