--------------------------- MODULE ProgressWriter ---------------------------
(***************************************************************************)
(* api/progress: the writer that redraws the state of what a command does, *)
(* in a goroutine of its own, while the command runs. Lengths are counted  *)
(* in characters, rows of the terminal from the one the first drawing      *)
(* began at. An event has an id, the length of its id and text (text), and *)
(* the length of its status text (note).                                   *)
(***************************************************************************)
EXTENDS Integers, FiniteSets, SequencesExt

CONSTANTS Width,      \* the width of the terminal
          Timer,      \* characters of the time a line ends with
          NoTimer     \* the same for an event that is over and has no end time

ASSUME WidthAssumption == Width \in Nat \ {0} /\ Timer \in Nat /\ NoTimer \in Nat

VARIABLES eventIDs,   \* in the order they came
          events,     \* the last event of each, whether it has an end time, and whether it began working
          numLines, repeated,
          cursor,     \* the row of the cursor
          top,        \* the row the last drawing began at
          drawn,      \* id -> the status the last drawing shows
          writerPc    \* "off", "loop" or "returned"

writerVars == <<eventIDs, events, numLines, repeated, cursor, top, drawn, writerPc>>

NoEvents == [x \in {} |-> x]
NoParent == "no parent"

WriterInit ==
    /\ eventIDs = <<>> /\ events = NoEvents /\ numLines = 0 /\ repeated = FALSE
    /\ cursor = 0 /\ top = 0 /\ drawn = NoEvents /\ writerPc = "loop"

WriterOff ==
    /\ eventIDs = <<>> /\ events = NoEvents /\ numLines = 0 /\ repeated = FALSE
    /\ cursor = 0 /\ top = 0 /\ drawn = NoEvents /\ writerPc = "off"

NewEvent(id, parent, status, text, note) == [id |-> id, parent |-> parent, status |-> status, text |-> text, note |-> note]

(* What was working, and is done or in error, has an end. *)
Stops(last, e) == e.status \in {"Done", "Error"} /\ last.status # e.status

(* The first event of an id is kept as it is, though it be done: it has no end time. *)
Event(e) ==
    /\ eventIDs' = IF e.id \in DOMAIN events THEN eventIDs ELSE Append(eventIDs, e.id)
    /\ events' = [i \in DOMAIN events \cup {e.id} |->
                    IF i # e.id THEN events[i]
                    ELSE [status |-> e.status, parent |-> e.parent, text |-> e.text, note |-> e.note,
                          ended  |-> i \in DOMAIN events /\ (events[i].ended \/ Stops(events[i], e)),
                          worked |-> IF i \in DOMAIN events THEN events[i].worked ELSE e.status = "Working"]]
    /\ UNCHANGED <<numLines, repeated, cursor, top, drawn, writerPc>>

-----------------------------------------------------------------------------
(* The width of the status column: two less for each event below another. *)
Indent(id) == IF events[id].parent # NoParent THEN 2 ELSE 0
statusPadding ==
    LET pad[n \in 0 .. Len(eventIDs)] ==
            IF n = 0 THEN 0
            ELSE LET id == eventIDs[n] IN (IF pad[n - 1] < events[id].text THEN events[id].text ELSE pad[n - 1]) - Indent(id)
    IN  pad[Len(eventIDs)]

maxStatusLen(id) == Width - events[id].text - statusPadding - 15

statusLen(id) == IF maxStatusLen(id) > 0 /\ events[id].note > maxStatusLen(id) THEN maxStatusLen(id) + 3 ELSE events[id].note

(* The time since it began; there is no end for an event that came when it was over. *)
elapsed(id) == IF events[id].status = "Working" \/ events[id].ended THEN Timer ELSE NoTimer

(* The length of a line: indent, spinner, id and text, padding, status, and the time at the right margin. *)
lineText(id) ==
    LET e == events[id]
        padding == IF statusPadding > e.text THEN statusPadding - e.text ELSE 0
        left == Indent(id) + 3 + e.text + padding + 1 + statusLen(id)
        most == Width - elapsed(id) - 2
    IN  (IF left < most THEN most ELSE left) + 1 + elapsed(id)

Rows(id) == (lineText(id) + Width - 1) \div Width

(* The events that are drawn, each that has no parent and those below it. *)
Below(parent) ==
    LET some[n \in 0 .. Len(eventIDs)] ==
            IF n = 0 THEN <<>>
            ELSE IF events[eventIDs[n]].parent = parent THEN Append(some[n - 1], eventIDs[n]) ELSE some[n - 1]
    IN  some[Len(eventIDs)]
Lines ==
    LET upTo[n \in 0 .. Len(eventIDs)] ==
            IF n = 0 THEN <<>>
            ELSE IF events[eventIDs[n]].parent = NoParent THEN upTo[n - 1] \o (<<eventIDs[n]>> \o Below(eventIDs[n])) ELSE upTo[n - 1]
    IN  upTo[Len(eventIDs)]
Sum(ids) == LET rows[n \in 0 .. Len(ids)] == IF n = 0 THEN 0 ELSE rows[n - 1] + Rows(ids[n]) IN rows[Len(ids)]

LineCount == Len(Lines)

(* The cursor goes up by the lines of the drawing before and its first line. *)
print ==
    IF eventIDs = <<>> THEN UNCHANGED <<numLines, repeated, cursor, top, drawn>>
    ELSE /\ top' = cursor - (numLines + 1) + (IF repeated THEN 0 ELSE 1)
         /\ cursor' = top' + 1 + Sum(Lines)
         /\ numLines' = LineCount
         /\ repeated' = TRUE
         /\ drawn' = [id \in Range(Lines) |-> events[id].status]

Tick ==
    /\ writerPc = "loop"
    /\ print
    /\ UNCHANGED <<eventIDs, events, writerPc>>

(* Start receives what Stop sends. *)
StopReceived ==
    /\ writerPc = "loop"
    /\ print
    /\ writerPc' = "returned"
    /\ UNCHANGED <<eventIDs, events>>

-----------------------------------------------------------------------------
(***************************************************************************)
(* Each drawing replaces the one before (print goes up by the lines it     *)
(* counted), as long as every line has room for some status: a line is     *)
(* then never longer than the terminal is wide (lineText).                 *)
(***************************************************************************)
DrawnInPlace == (\A id \in DOMAIN events : maxStatusLen(id) > 0) => top = 0 /\ \A id \in DOMAIN events : lineText(id) <= Width

(* What worked, and does no more, has an end time (Event). *)
EndsKnown == \A id \in DOMAIN events : events[id].worked /\ events[id].status # "Working" => events[id].ended

(***************************************************************************)
(* When the writer has returned, its last drawing shows the last status of *)
(* every event of the command: none came after it, and none is left out    *)
(* for want of its parent (Run, Start, print).                             *)
(***************************************************************************)
LastIsDrawn == writerPc = "returned" => drawn = [id \in DOMAIN events |-> events[id].status]
=============================================================================
