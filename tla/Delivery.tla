------------------------------ MODULE Delivery ------------------------------
(***************************************************************************)
(* What serial_write promises its caller, without ports, attempts and      *)
(* pieces: a message is handled at most once, and never if the call        *)
(* answers ERROR.  OK says that the port took it, not that the board did.  *)
(* What a write leaves at the board spoils one line at most.               *)
(***************************************************************************)
EXTENDS Naturals

CONSTANTS Writes     \* the calls of serial_write, one message each

VARIABLES answered,  \* what each call has answered
          handled,   \* the line in which the board has handled its message
          half,      \* a write that is over left the beginning of a line at the board
          excused    \* the calls whose board was reset or unplugged under them

Init ==
  /\ answered = [c \in Writes |-> "none"]
  /\ handled = [c \in Writes |-> "no"]
  /\ half = FALSE
  /\ excused = {}

\* The board handles a message: alone, or behind the half that waited for it, which is
\* used up by that; a board that was reset has perhaps only the end of it.
Handle(c, how) ==
  /\ answered[c] = "none" /\ handled[c] = "no"
  /\ how = "intact" => ~half
  /\ how = "joined" => half
  /\ how = "cut" => c \in excused
  /\ handled' = [handled EXCEPT ![c] = how]
  /\ half' = FALSE
  /\ UNCHANGED <<answered, excused>>

\* An attempt ends before the board has all of it.
Leave(c) ==
  /\ handled[c] = "no"
  /\ half' \in {half, TRUE}
  /\ UNCHANGED <<handled, excused>>

Answers(c, a) ==
  /\ answered[c] = "none"
  /\ answered' = [answered EXCEPT ![c] = a]

Retry(c)  == answered[c] = "none" /\ Leave(c) /\ UNCHANGED answered
Refuse(c) == Answers(c, "ERROR") /\ Leave(c)
Lose(c)   == Answers(c, "OK") /\ Leave(c)
Take(c)   == Answers(c, "OK") /\ handled[c] # "no" /\ UNCHANGED <<handled, half, excused>>

Disturb(c) ==
  /\ answered[c] = "none"
  /\ excused' = excused \cup {c}
  /\ half' = FALSE
  /\ UNCHANGED <<answered, handled>>

\* The board starts its line anew.
Anew == half' = FALSE /\ UNCHANGED <<answered, handled, excused>>

Next ==
  \/ Anew
  \/ \E c \in Writes : \/ \E how \in {"intact", "joined", "cut"} : Handle(c, how)
                       \/ Retry(c) \/ Refuse(c) \/ Lose(c) \/ Take(c) \/ Disturb(c)

Spec == Init /\ [][Next]_<<answered, handled, half, excused>>
=============================================================================
