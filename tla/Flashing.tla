------------------------------ MODULE Flashing ------------------------------
(***************************************************************************)
(* What a flash promises of the device, without projects, attempts and     *)
(* processes: OK means that the job's own build is on it from that step    *)
(* on, and after an OK or an error nothing the job has started writes to   *)
(* it.  Excused are jobs whose project another one shared, or one of whose *)
(* processes a signal ended.                                               *)
(***************************************************************************)
CONSTANTS Jobs, None

VARIABLES asked,    \* whether each job is to compile, or to upload too
          device,   \* what its device holds: as before, a part, its own build or another one
          said,     \* what it has answered
          excused

Init ==
  /\ asked \in [Jobs -> {"compile", "upload"}]
  /\ device = [j \in Jobs |-> "old"]
  /\ said = [j \in Jobs |-> None]
  /\ excused = {}

Writes(j, d) == asked[j] = "upload" /\ device' = [device EXCEPT ![j] = d]
Answers(j, a) == said[j] = None /\ said' = [said EXCEPT ![j] = a]

\* An upload begins by losing what was there.
Erase(j) == said[j] = None /\ Writes(j, "part") /\ UNCHANGED said

Flash(j) == Answers(j, "ok") /\ Writes(j, "own")

\* A compile has no business with the device.
Compile(j) == asked[j] = "compile" /\ Answers(j, "ok") /\ UNCHANGED device

Fail(j) == (Answers(j, "error") \/ Answers(j, "aborted")) /\ UNCHANGED device

\* OK, with part of a build, or another job's, on the device.
Mislead(j) ==
  /\ j \in excused' /\ Answers(j, "ok")
  /\ Writes(j, "foreign") \/ UNCHANGED device

\* An upload that outlives its job comes to its end.
Linger(j) ==
  /\ said[j] = "aborted" \/ j \in excused
  /\ Writes(j, "own") \/ (j \in excused /\ Writes(j, "foreign"))
  /\ UNCHANGED said

Next ==
  /\ UNCHANGED asked /\ excused \subseteq excused'
  /\ \/ \E j \in Jobs : Erase(j) \/ Flash(j) \/ Compile(j) \/ Fail(j) \/ Mislead(j) \/ Linger(j)
     \/ UNCHANGED <<device, said>>

Spec == Init /\ [][Next]_<<asked, device, said, excused>>
=============================================================================
