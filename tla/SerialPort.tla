----------------------------- MODULE SerialPort -----------------------------
(***************************************************************************)
(* The serial tools and `nff monitor` (tools/serial.rs) on one port, which *)
(* the operating system opens for one at a time.  A tool that fails for a  *)
(* passing reason closes the port, sleeps and starts over; its message may *)
(* have reached the board in part.  What a port has accepted is sent later *)
(* and lost if the port is closed first: nobody waits for it.  The port is *)
(* also used by uploads and by other programs, and the board is unplugged  *)
(* and resets.                                                             *)
(***************************************************************************)
EXTENDS Naturals, Sequences

CONSTANTS Writes, Reads, Resets, Monitors,  \* the calls, by kind
          Retries,    \* the length of SERIAL_BACKOFF
          MaxPrints,  \* bound: what the board prints
          None, Other

Tools == Writes \cup Reads \cup Resets
Calls == Tools \cup Monitors

ASSUME SerialAssumption ==
  /\ {Retries, MaxPrints} \subseteq Nat
  /\ None \notin Calls /\ Other \notin Calls /\ None # Other
  /\ Writes \cap (Reads \cup Resets \cup Monitors) = {}
  /\ Reads \cap (Resets \cup Monitors) = {} /\ Resets \cap Monitors = {}

VARIABLES
  pc, tries, answer,
  holder,    \* who has the port open: a call, Other, or None
  plugged,
  dead,      \* the open port is of a device that was unplugged since
  arrived,   \* how many pieces of this attempt's message are at the board
  line,      \* what the board has of a line: the first halves of messages
  handled,   \* per message, the line the board handled it in, if it did
  printed,   \* how much the board has printed
  rx,        \* what of that the open port holds, not read yet
  captured,  \* what each call has read in this attempt
  spoilt,    \* ghost: an attempt that is over left the beginning of that line
  hit        \* ghost: writes during which the board was reset or unplugged

port  == <<holder, dead, rx, arrived>>
board == <<line, handled, printed, spoilt, hit>>
vars  == <<pc, tries, answer, port, plugged, board, captured>>

Init ==
  /\ pc = [c \in Calls |-> "new"] /\ tries = [c \in Calls |-> 0]
  /\ answer = [c \in Calls |-> "none"]
  /\ holder = None /\ plugged \in BOOLEAN /\ dead = FALSE
  /\ arrived = 0 /\ line = <<>> /\ handled = [c \in Writes |-> "no"]
  /\ printed = 0 /\ rx = {} /\ captured = [c \in Calls |-> {}]
  /\ spoilt = FALSE /\ hit = {}

Goto(c, l) == pc' = [pc EXCEPT ![c] = l]

\* The call returns.
Answer(c, a) ==
  /\ answer' = [answer EXCEPT ![c] = a]
  /\ Goto(c, "done")
  /\ tries' = [tries EXCEPT ![c] = 0]

\* The port, if the call has it, is closed, and keeps nothing.
Close(c) ==
  IF holder = c THEN holder' = None /\ dead' = FALSE /\ rx' = {} /\ arrived' = 0
                ELSE UNCHANGED port

\* A loop that counts only the sleeps.
RetryForever(c, transient) ==
  IF c \in Monitors \/ ~transient
  THEN Answer(c, "ERROR")
  ELSE /\ Goto(c, "sleep")
       /\ UNCHANGED <<answer, tries>>

\* One sleep more than the list has.
OneTryMore(c, transient) ==
  IF c \in Monitors \/ ~transient \/ tries[c] > Retries
  THEN Answer(c, "ERROR")
  ELSE /\ Goto(c, "sleep")
       /\ tries' = [tries EXCEPT ![c] = @ + 1]
       /\ UNCHANGED answer

\* with_serial_retry(): a passing fault is tried again while there are retries left.
\* The monitor has no such loop.
Failed(c, transient) ==
  IF c \in Monitors \/ ~transient \/ tries[c] = Retries
  THEN Answer(c, "ERROR")
  ELSE /\ Goto(c, "sleep")
       /\ tries' = [tries EXCEPT ![c] = @ + 1]
       /\ UNCHANGED answer

\* The board starts its line anew.
Blank == line' = <<>> /\ spoilt' = FALSE

-----------------------------------------------------------------------------
(* Opening the port.                                                       *)

\* resolve_port(): none is given and none is configured.
NoPort(c) ==
  /\ pc[c] = "new"
  /\ Answer(c, "ERROR")
  /\ UNCHANGED <<port, captured, board, plugged>>

Begin(c) ==
  /\ pc[c] \in {"new", "sleep"}
  /\ Goto(c, "open")
  /\ UNCHANGED <<tries, answer, port, captured, board, plugged>>

\* On many boards the control lines of an opened port reset the processor.
Open(c) ==
  /\ pc[c] = "open" /\ holder = None /\ plugged
  /\ holder' = c
  /\ Blank \/ UNCHANGED <<line, spoilt>>
  /\ Goto(c, "use")
  /\ UNCHANGED <<tries, answer, dead, rx, arrived, captured, plugged, handled, printed, hit>>

\* "Device or resource busy" and "Access is denied" pass ...
OpenBusy(c) ==
  /\ pc[c] = "open" /\ holder # None
  /\ Failed(c, TRUE)
  /\ UNCHANGED <<port, captured, board, plugged>>

\* ... "No such file or directory" does not.
OpenMissing(c) ==
  /\ pc[c] = "open" /\ ~plugged
  /\ Failed(c, FALSE)
  /\ UNCHANGED <<port, captured, board, plugged>>

-----------------------------------------------------------------------------
(* serial_write(): a message is two pieces, the second with the newline.   *)

\* write_all(): the port accepts the first piece ...
WriteHead(c) ==
  /\ pc[c] = "use" /\ c \in Writes /\ ~dead
  /\ Goto(c, "half")
  /\ UNCHANGED <<tries, answer, port, captured, board, plugged>>

\* ... and the last.
WriteTail(c) ==
  /\ pc[c] = "half" /\ c \in Writes /\ ~dead
  /\ Goto(c, "sent")
  /\ UNCHANGED <<tries, answer, port, captured, board, plugged>>

\* What is sent reaches the board in its own time: the first piece waits there ...
HeadArrives(c) ==
  /\ pc[c] \in {"half", "sent"} /\ c \in Writes /\ ~dead
  /\ arrived = 0 /\ arrived' = 1
  /\ line' = Append(line, c)
  /\ UNCHANGED <<pc, tries, answer, holder, dead, rx, captured, plugged, handled, printed, spoilt, hit>>

\* ... and with the newline the board handles whatever its line has become by then: the
\* message, the message behind halves of others, or only its end.
TailArrives(c) ==
  /\ pc[c] = "sent" /\ c \in Writes /\ ~dead
  /\ arrived = 1 /\ arrived' = 2
  /\ handled' = [handled EXCEPT ![c] = IF @ # "no" THEN "again"
                                       ELSE IF line = <<c>> THEN "intact"
                                       ELSE IF line = <<>> THEN "cut" ELSE "joined"]
  /\ Blank
  /\ UNCHANGED <<pc, tries, answer, holder, dead, rx, captured, plugged, printed, hit>>

\* No flush: the answer is given, and the port closed, wherever the pieces are.
Wrote(c) ==
  /\ pc[c] = "sent" /\ c \in Writes
  /\ Answer(c, "OK") /\ Close(c)
  /\ spoilt' = (line # <<>>)
  /\ UNCHANGED <<captured, plugged, line, handled, printed, hit>>

\* A failure after the last piece was accepted, as of a flush() before the answer.
FlushFails(c) ==
  /\ pc[c] \in {"use", "half", "sent"} /\ c \in Writes
  /\ \E transient \in BOOLEAN : Failed(c, transient)
  /\ Close(c)
  /\ spoilt' = (line # <<>>)
  /\ UNCHANGED <<captured, plugged, line, handled, printed, hit>>

\* A timeout of the port, which passes, or an error of the device, which does not.
WriteBreaks(c) ==
  /\ pc[c] \in {"use", "half"} /\ c \in Writes
  /\ \E transient \in BOOLEAN : Failed(c, transient)
  /\ Close(c)
  /\ spoilt' = (line # <<>>)
  /\ UNCHANGED <<captured, plugged, line, handled, printed, hit>>

-----------------------------------------------------------------------------
(* serial_read() and the monitor.                                          *)

ReadSome(c) ==
  /\ pc[c] = "use" /\ c \in Reads \cup Monitors
  /\ rx # {} /\ rx' = {}
  /\ captured' = [captured EXCEPT ![c] = @ \cup rx]
  /\ UNCHANGED <<pc, tries, answer, holder, dead, arrived, board, plugged>>

\* The duration is over; a port that says nothing, or is gone, is waited for so long.
Deadline(c) ==
  /\ pc[c] = "use" /\ c \in Reads \cup Monitors
  /\ Answer(c, "OK") /\ Close(c)
  /\ UNCHANGED <<captured, board, plugged>>

\* What an attempt has read is kept for the next one.
ReadBreaksKeeps(c) ==
  /\ pc[c] = "use" /\ c \in Reads
  /\ \E transient \in BOOLEAN : Failed(c, transient)
  /\ Close(c)
  /\ UNCHANGED <<captured, board, plugged>>

\* What an attempt has read goes with it.
ReadBreaks(c) ==
  /\ pc[c] = "use" /\ c \in Reads
  /\ \E transient \in BOOLEAN : Failed(c, transient)
  /\ captured' = [captured EXCEPT ![c] = {}]
  /\ Close(c)
  /\ UNCHANGED <<board, plugged>>

\* LineIter takes any other error for the end; so does Ctrl+C.
MonitorEnds(c) ==
  /\ pc[c] = "use" /\ c \in Monitors
  /\ Answer(c, "OK") /\ Close(c)
  /\ UNCHANGED <<captured, board, plugged>>

-----------------------------------------------------------------------------
(* reset_device(): DTR low, 50 ms, DTR high.                               *)

DtrLow(c) ==
  /\ pc[c] = "use" /\ c \in Resets /\ ~dead
  /\ Blank
  /\ Goto(c, "half")
  /\ UNCHANGED <<tries, answer, port, captured, plugged, handled, printed, hit>>

DtrHigh(c) ==
  /\ pc[c] = "half" /\ c \in Resets /\ ~dead
  /\ Answer(c, "OK") /\ Close(c)
  /\ UNCHANGED <<captured, board, plugged>>

ResetBreaks(c) ==
  /\ pc[c] \in {"use", "half"} /\ c \in Resets
  /\ \E transient \in BOOLEAN : Failed(c, transient)
  /\ Close(c)
  /\ UNCHANGED <<captured, board, plugged>>

-----------------------------------------------------------------------------
(* The board, its cable and the other users of the port.                   *)

Hit == hit' = hit \cup ({holder} \cap Writes)

Output ==
  /\ printed < MaxPrints /\ plugged
  /\ printed' = printed + 1
  /\ rx' = IF holder \in Calls /\ ~dead THEN rx \cup {printed} ELSE rx
  /\ UNCHANGED <<pc, tries, answer, holder, dead, arrived, captured, plugged, line, handled, spoilt, hit>>

BoardResets ==
  /\ Blank /\ Hit
  /\ UNCHANGED <<pc, tries, answer, port, captured, plugged, handled, printed>>

Unplug ==
  /\ plugged /\ plugged' = FALSE
  /\ dead' = (holder # None)
  /\ Blank /\ Hit
  /\ UNCHANGED <<pc, tries, answer, holder, rx, arrived, captured, handled, printed>>

Plug ==
  /\ ~plugged /\ plugged' = TRUE
  /\ UNCHANGED <<pc, tries, answer, port, captured, board>>

\* An upload, which resets the board, or another program takes the port; it leaves no
\* half line of its own.
OtherTakes ==
  /\ holder = None /\ plugged
  /\ holder' = Other
  /\ Blank \/ UNCHANGED <<line, spoilt>>
  /\ UNCHANGED <<pc, tries, answer, dead, rx, arrived, captured, plugged, handled, printed, hit>>

OtherLeaves ==
  /\ holder = Other
  /\ holder' = None /\ dead' = FALSE
  /\ UNCHANGED <<pc, tries, answer, rx, arrived, captured, board, plugged>>

Write(c) == WriteHead(c) \/ WriteTail(c) \/ Wrote(c) \/ WriteBreaks(c)
Read(c)  == Deadline(c) \/ ReadBreaks(c)
Reset(c) == DtrLow(c) \/ DtrHigh(c) \/ ResetBreaks(c)
Step(c)  == Begin(c) \/ Open(c) \/ OpenBusy(c) \/ OpenMissing(c) \/ Write(c) \/ Read(c) \/ Reset(c)

Next ==
  \/ \E c \in Calls : NoPort(c) \/ Step(c) \/ ReadSome(c) \/ MonitorEnds(c) \/ HeadArrives(c) \/ TailArrives(c)
  \/ Output \/ BoardResets \/ Unplug \/ Plug \/ OtherTakes \/ OtherLeaves

Spec == Init /\ [][Next]_vars

\* The thread of a call runs, and its port, read or write times out.
FairSpec == Spec /\ \A c \in Tools : WF_vars(Step(c))

-----------------------------------------------------------------------------
\* The variables have their types, and a call in the middle of its work has the port.
TypeOK ==
  /\ pc \in [Calls -> {"new", "open", "use", "half", "sent", "sleep", "done"}]
  /\ tries \in [Calls -> 0..Retries]
  /\ answer \in [Calls -> {"none", "OK", "ERROR"}]
  /\ holder \in Calls \cup {None, Other}
  /\ plugged \in BOOLEAN /\ dead \in BOOLEAN
  /\ arrived \in 0..2 /\ line \in Seq(Writes)
  /\ handled \in [Writes -> {"no", "intact", "joined", "cut", "again"}]
  /\ printed \in 0..MaxPrints /\ rx \subseteq Nat /\ captured \in [Calls -> SUBSET Nat]
  /\ spoilt \in BOOLEAN /\ hit \subseteq Writes
  /\ \A c \in Calls : pc[c] \in {"use", "half", "sent"} <=> holder = c

\* What serial_read answers, and the monitor shows, is one piece of what the board has
\* printed, without a gap where an attempt failed; no two of them share any of it.
ReadsAreWhole ==
  /\ \A c \in Calls : \A i, k \in captured[c] : \A j \in i..k : j \in captured[c]
  /\ \A c, d \in Calls : c # d => captured[c] \cap captured[d] = {}

Promised == INSTANCE Delivery WITH answered <- [c \in Writes |-> answer[c]],
                                   half <- spoilt, excused <- hit

\* However often a write is tried, the board handles its message once or not at all, and
\* never when the call answers ERROR: the caller may repeat it.  The price of starting over
\* is a half message at the board, which the next line is joined to, whoever writes it; it
\* spoils that one line and no more.
ImplementsDelivery == Promised!Spec

\* Every tool call ends, whoever keeps the port.
CallsEnd == \A c \in Tools : pc[c] = "open" ~> pc[c] = "done"
=============================================================================
