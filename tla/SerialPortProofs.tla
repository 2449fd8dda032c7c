-------------------------- MODULE SerialPortProofs --------------------------
(***************************************************************************)
(* Proofs of the safety properties of SerialPort.                          *)
(***************************************************************************)
EXTENDS SerialPort, TLAPS

-----------------------------------------------------------------------------
(* The parts of the inductive invariants.                                  *)

\* A message is handled while its call holds the port, all of it sent, and the call then
\* answers OK.
Unanswered ==
  \A c \in Writes : /\ pc[c] = "done" <=> answer[c] # "none"
                    /\ handled[c] # "no" => \/ pc[c] = "sent" /\ arrived = 2
                                            \/ answer[c] = "OK"

\* The line is what writes that are over left, and the beginning of the present one, if the
\* board was not reset since; after its end nothing is left.
LineIsKnown ==
  /\ arrived # 0 => holder \in Writes /\ pc[holder] \in {"half", "sent"}
  /\ arrived = 2 => pc[holder] = "sent"
  /\ spoilt => line # <<>> /\ (arrived = 1 => line # <<holder>>)
  /\ ~spoilt => line = <<>> \/ (arrived = 1 /\ line = <<holder>>)
  /\ arrived = 1 /\ line = <<>> => holder \in hit
  /\ arrived = 2 => line = <<>>

WriteInv == TypeOK /\ Unanswered /\ LineIsKnown

Whole(S) == \A i, k \in S : \A j \in i..k : j \in S

\* What the holder of the port has read in this attempt, or would read now.
Sight(c) == captured[c] \cup rx

\* Nothing is read before it is printed, and nothing is waiting that was read already.
NotYetRead ==
  /\ \A c \in Calls : \A i \in captured[c] : i < printed
  /\ \A i \in rx : i < printed
  /\ \A c \in Calls : captured[c] \cap rx = {}

\* An attempt begins with nothing, and an open port too.
StartsEmpty ==
  /\ \A c \in Calls : pc[c] \in {"new", "open", "sleep"} => captured[c] = {}
  /\ \A c \in Writes \cup Resets : captured[c] = {}
  /\ holder \notin Calls => rx = {}

\* What the holder sees has no gap, and none before the next print unless the device is gone.
SightIsWhole ==
  holder \in Calls => /\ Whole(Sight(holder))
                      /\ ~dead => \A i \in Sight(holder) : \A j \in i..(printed - 1) : j \in Sight(holder)

ReadInv == TypeOK /\ NotYetRead /\ StartsEmpty /\ SightIsWhole /\ ReadsAreWhole

IInv == WriteInv /\ ReadInv

-----------------------------------------------------------------------------
(* Lemmas about the operators, and the type invariant.                     *)

LEMMA Appended ==
  ASSUME NEW s \in Seq(Writes), NEW c \in Writes
  PROVE  /\ Append(s, c) \in Seq(Writes) /\ Append(s, c) # <<>>
         /\ s # <<>> => Append(s, c) # <<c>>
         /\ s = <<>> => Append(s, c) = <<c>>
  <1>1. Append(s, c) \in Seq(Writes) /\ Len(Append(s, c)) = Len(s) + 1 /\ Len(s) \in Nat
    OBVIOUS
  <1>2. s # <<>> => Len(s) # 0
    OBVIOUS
  <1>3. s # <<>> => Append(s, c) # <<c>>
    <2>1. Len(<<c>>) = 1
      OBVIOUS
    <2>2. s # <<>> => Len(Append(s, c)) # 1
      BY <1>1, <1>2
    <2>3. QED
      BY <2>1, <2>2
  <1>4. Append(s, c) # <<>>
    <2>1. Len(<<>>) = 0 /\ Len(Append(s, c)) # 0
      BY <1>1
    <2>2. QED
      BY <2>1
  <1>5. s = <<>> => Append(s, c) = <<c>>
    OBVIOUS
  <1>6. QED
    BY <1>1, <1>3, <1>4, <1>5

LEMMA EmptyLine == <<>> \in Seq(Writes)
  OBVIOUS

LEMMA OneTryMoreIsBounded == \A n \in 0..Retries : n # Retries => n + 1 \in 0..Retries
  BY SerialAssumption

LEMMA OnePrintMore == \A n \in 0..MaxPrints : n < MaxPrints => n + 1 \in 0..MaxPrints /\ n \in Nat
  BY SerialAssumption

\* A call that answers or fails is done or sleeps, and nobody else notices.
Rests(c, l) ==
  /\ l \in {"sleep", "done"} /\ pc' = [pc EXCEPT ![c] = l]
  /\ tries' \in [Calls -> 0..Retries]
  /\ answer' \in [Calls -> {"none", "OK", "ERROR"}]
  /\ \A d \in Calls : d # c => answer'[d] = answer[d]
  /\ IF l = "sleep" THEN answer'[c] = answer[c] ELSE answer'[c] # "none"

LEMMA AnswerRests ==
  ASSUME TypeOK, NEW c \in Calls, NEW a \in {"OK", "ERROR"}, Answer(c, a)
  PROVE  Rests(c, "done") /\ answer'[c] = a
  <1>1. 0 \in 0..Retries
    BY SerialAssumption
  <1>2. tries' \in [Calls -> 0..Retries]
    BY <1>1 DEF TypeOK, Answer
  <1>3. QED
    BY <1>2 DEF TypeOK, Answer, Goto, Rests

LEMMA FailedRests ==
  ASSUME TypeOK, NEW c \in Calls, NEW transient \in BOOLEAN, Failed(c, transient)
  PROVE  \E l \in {"sleep", "done"} : Rests(c, l) /\ (l = "done" => answer'[c] = "ERROR")
  <1>1. CASE Answer(c, "ERROR")
    BY <1>1, AnswerRests
  <1>2. CASE Goto(c, "sleep") /\ tries[c] # Retries /\ tries' = [tries EXCEPT ![c] = @ + 1]
             /\ UNCHANGED answer
    <2>1. tries \in [Calls -> 0..Retries] /\ tries[c] \in 0..Retries
      BY DEF TypeOK
    <2>2. tries' \in [Calls -> 0..Retries]
      BY <1>2, <2>1, OneTryMoreIsBounded
    <2>3. Rests(c, "sleep")
      BY <1>2, <2>2 DEF TypeOK, Goto, Rests
    <2>4. QED
      BY <2>3
  <1>3. QED
    BY <1>1, <1>2 DEF Failed

\* The steps that end an attempt before and after the port is open.
Gives(c)  == NoPort(c) \/ OpenBusy(c) \/ OpenMissing(c)
Leaves(c) == \/ Wrote(c) \/ WriteBreaks(c) \/ Deadline(c) \/ ReadBreaks(c)
             \/ MonitorEnds(c) \/ DtrHigh(c) \/ ResetBreaks(c)

LEMMA Giving ==
  ASSUME TypeOK, NEW c \in Calls, Gives(c)
  PROVE  /\ pc[c] \in {"new", "open"} /\ holder # c
         /\ \E l \in {"sleep", "done"} : Rests(c, l) /\ (l = "done" => answer'[c] = "ERROR")
         /\ UNCHANGED <<port, captured, board, plugged>>
  <1>1. pc[c] \in {"new", "open"} /\ UNCHANGED <<port, captured, board, plugged>>
    BY DEF Gives, NoPort, OpenBusy, OpenMissing
  <1>2. holder # c
    BY <1>1 DEF TypeOK
  <1>3. \E l \in {"sleep", "done"} : Rests(c, l) /\ (l = "done" => answer'[c] = "ERROR")
    BY AnswerRests, FailedRests DEF Gives, NoPort, OpenBusy, OpenMissing
  <1>4. QED
    BY <1>1, <1>2, <1>3

LEMMA Leaving ==
  ASSUME TypeOK, NEW c \in Calls, Leaves(c)
  PROVE  /\ pc[c] \in {"use", "half", "sent"} /\ holder = c
         /\ holder' = None /\ dead' = FALSE /\ rx' = {} /\ arrived' = 0
         /\ \E l \in {"sleep", "done"} : Rests(c, l)
         /\ UNCHANGED <<plugged, line, handled, printed, hit>>
         /\ IF c \in Writes THEN spoilt' = (line # <<>>) ELSE spoilt' = spoilt
  <1>1. /\ pc[c] \in {"use", "half", "sent"} /\ Close(c)
        /\ UNCHANGED <<plugged, line, handled, printed, hit>>
    BY DEF Leaves, Wrote, WriteBreaks, Deadline, ReadBreaks, MonitorEnds, DtrHigh, ResetBreaks, board
  <1>2. holder = c
    BY <1>1 DEF TypeOK
  <1>3. \E l \in {"sleep", "done"} : Rests(c, l)
    <2>1. CASE Wrote(c) \/ Deadline(c) \/ MonitorEnds(c) \/ DtrHigh(c)
      BY <2>1, AnswerRests DEF Wrote, Deadline, MonitorEnds, DtrHigh
    <2>2. CASE WriteBreaks(c) \/ ReadBreaks(c) \/ ResetBreaks(c)
      BY <2>2, FailedRests DEF WriteBreaks, ReadBreaks, ResetBreaks
    <2>3. QED
      BY <2>1, <2>2 DEF Leaves
  <1>4. IF c \in Writes THEN spoilt' = (line # <<>>) ELSE spoilt' = spoilt
    BY SerialAssumption
       DEF Leaves, Wrote, WriteBreaks, Deadline, ReadBreaks, MonitorEnds, DtrHigh, ResetBreaks, board
  <1>5. QED
    BY <1>1, <1>2, <1>3, <1>4 DEF Close

LEMMA TypeInit == Init => TypeOK
  <1> SUFFICES ASSUME Init PROVE TypeOK
    OBVIOUS
  <1>1. 0 \in 0..Retries /\ 0 \in 0..MaxPrints /\ 0 \in 0..2
    BY SerialAssumption
  <1>2. pc \in [Calls -> {"new", "open", "use", "half", "sent", "sleep", "done"}]
        /\ tries \in [Calls -> 0..Retries]
        /\ answer \in [Calls -> {"none", "OK", "ERROR"}]
    BY <1>1 DEF Init
  <1>3. handled \in [Writes -> {"no", "intact", "joined", "cut", "again"}] /\ captured \in [Calls -> SUBSET Nat] /\ line \in Seq(Writes)
        /\ printed \in 0..MaxPrints
    BY <1>1, EmptyLine DEF Init
  <1>4. \A c \in Calls : pc[c] \in {"use", "half", "sent"} <=> holder = c
    BY SerialAssumption DEF Init
  <1>5. QED
    BY <1>1, <1>2, <1>3, <1>4 DEF Init, TypeOK

LEMMA TypeStep == TypeOK /\ [Next]_vars => TypeOK'
  <1> SUFFICES ASSUME TypeOK, [Next]_vars PROVE TypeOK'
    OBVIOUS
  <1>1. ASSUME NEW c \in Calls, Gives(c) PROVE TypeOK'
    <2>1. PICK l \in {"sleep", "done"} : Rests(c, l)
      BY <1>1, Giving
    <2>2. \A d \in Calls : pc'[d] \in {"use", "half", "sent"} <=> holder' = d
      BY <1>1, <2>1, Giving DEF TypeOK, Rests, port
    <2>3. QED
      BY <1>1, <2>1, <2>2, Giving DEF TypeOK, Rests, board, port
  <1>2. ASSUME NEW c \in Calls, Leaves(c) PROVE TypeOK'
    <2>1. PICK l \in {"sleep", "done"} : Rests(c, l)
      BY <1>2, Leaving
    <2>2. captured' \in [Calls -> SUBSET Nat]
      BY <1>2 DEF Leaves, Wrote, WriteBreaks, Deadline, ReadBreaks, MonitorEnds, DtrHigh, ResetBreaks,
                  TypeOK
    <2>3. spoilt' \in BOOLEAN
      BY <1>2, Leaving DEF TypeOK
    <2>4. 0 \in 0..2
      OBVIOUS
    <2>5. \A d \in Calls : pc'[d] \in {"use", "half", "sent"} <=> holder' = d
      <3>1. holder = c /\ holder' = None /\ None \notin Calls
        BY <1>2, Leaving, SerialAssumption
      <3>2. \A d \in Calls : pc'[d] = IF d = c THEN l ELSE pc[d]
        BY <2>1 DEF TypeOK, Rests
      <3>3. \A d \in Calls : d # c => pc[d] \notin {"use", "half", "sent"}
        BY <3>1 DEF TypeOK
      <3>4. QED
        BY <3>1, <3>2, <3>3
    <2>6. QED
      BY <1>2, <2>1, <2>2, <2>3, <2>4, <2>5, Leaving DEF TypeOK, Rests
  <1>3. ASSUME NEW c \in Calls, Begin(c) PROVE TypeOK'
    BY <1>3 DEF TypeOK, Begin, Goto, board, port
  <1>4. ASSUME NEW c \in Calls, Open(c) PROVE TypeOK'
    BY <1>4, EmptyLine, SerialAssumption DEF TypeOK, Open, Goto, Blank
  <1>5. ASSUME NEW c \in Calls, WriteHead(c) \/ WriteTail(c) PROVE TypeOK'
    BY <1>5 DEF TypeOK, WriteHead, WriteTail, Goto, board, port
  <1>6. ASSUME NEW c \in Calls, DtrLow(c) PROVE TypeOK'
    BY <1>6, EmptyLine DEF TypeOK, DtrLow, Goto, Blank, port
  <1>7. ASSUME NEW c \in Calls, ReadSome(c) PROVE TypeOK'
    BY <1>7 DEF TypeOK, ReadSome, board
  <1>8. CASE Output
    BY <1>8, OnePrintMore DEF TypeOK, Output
  <1>9. CASE BoardResets \/ Unplug
    BY <1>9, EmptyLine DEF TypeOK, BoardResets, Unplug, Blank, Hit, port
  <1>10. CASE OtherTakes
    BY <1>10, EmptyLine, SerialAssumption DEF TypeOK, OtherTakes, Blank
  <1>11. CASE Plug \/ OtherLeaves
    BY <1>11, SerialAssumption DEF TypeOK, Plug, OtherLeaves, board, port
  <1>12. CASE UNCHANGED vars
    BY <1>12 DEF TypeOK, vars, board, port
  <1>13. ASSUME NEW c \in Calls, HeadArrives(c) \/ TailArrives(c) PROVE TypeOK'
    <2>1. line' \in Seq(Writes) /\ spoilt' \in BOOLEAN
      BY <1>13, Appended, EmptyLine DEF HeadArrives, TailArrives, Blank, TypeOK
    <2>2. arrived' \in 0..2
      BY <1>13 DEF HeadArrives, TailArrives
    <2>3. handled' \in [Writes -> {"no", "intact", "joined", "cut", "again"}]
      BY <1>13 DEF HeadArrives, TailArrives, TypeOK
    <2>4. QED
      BY <1>13, <2>1, <2>2, <2>3 DEF TypeOK, HeadArrives, TailArrives
  <1>14. QED
    BY <1>1, <1>2, <1>3, <1>4, <1>5, <1>6, <1>7, <1>8, <1>9, <1>10, <1>11, <1>12, <1>13
       DEF Next, Step, Write, Read, Reset, Gives, Leaves

-----------------------------------------------------------------------------
(* What a write answers, and what it leaves.                               *)

\* Whoever has the port is alone with the line.
LEMMA Alone ==
  ASSUME TypeOK, NEW c \in Calls, NEW d \in Calls, holder = c, d # c
  PROVE  pc[d] \notin {"use", "half", "sent"}
  BY DEF TypeOK

\* Steps before and after the use of the port.
LEMMA WritersRest ==
  ASSUME TypeOK, NEW c \in Calls, NEW l \in {"sleep", "done"}, Rests(c, l)
  PROVE  /\ \A d \in Writes : d # c => pc'[d] = pc[d] /\ answer'[d] = answer[d]
         /\ pc'[c] = l
  BY DEF TypeOK, Rests, Calls, Tools

LEMMA AnsweredStep == WriteInv /\ [Next]_vars => Unanswered'
  <1> SUFFICES ASSUME WriteInv, [Next]_vars PROVE Unanswered'
    OBVIOUS
  <1>0. TypeOK /\ Unanswered /\ LineIsKnown
    BY DEF WriteInv
  <1>1. ASSUME NEW c \in Calls, Gives(c) PROVE Unanswered'
    <2>1. PICK l \in {"sleep", "done"} : Rests(c, l)
      BY <1>0, <1>1, Giving
    <2>2. pc[c] \in {"new", "open"} /\ UNCHANGED <<handled, arrived>>
      BY <1>0, <1>1, Giving DEF board, port
    <2>3. IF l = "sleep" THEN answer'[c] = answer[c] ELSE answer'[c] # "none"
      BY <2>1 DEF Rests
    <2>4. c \in Writes => handled[c] = "no" /\ answer[c] = "none"
      BY <1>0, <2>2 DEF Unanswered
    <2>5. QED
      BY <1>0, <2>1, <2>2, <2>3, <2>4, WritersRest DEF Unanswered
  <1>2. ASSUME NEW c \in Calls, Leaves(c) PROVE Unanswered'
    <2>1. PICK l \in {"sleep", "done"} : Rests(c, l)
      BY <1>0, <1>2, Leaving
    <2>2. pc[c] \in {"use", "half", "sent"} /\ holder = c /\ handled' = handled
      BY <1>0, <1>2, Leaving
    <2>3. IF l = "sleep" THEN answer'[c] = answer[c] ELSE answer'[c] # "none"
      BY <2>1 DEF Rests
    <2>4. \A d \in Writes : d # c => (handled[d] # "no" => answer[d] = "OK")
      BY <1>0, <2>2, Alone DEF Unanswered, Calls, Tools
    <2>5. c \in Writes => answer[c] = "none" /\ (handled[c] # "no" => answer'[c] = "OK")
      <3>1. CASE Wrote(c)
        BY <1>0, <2>2, <3>1, AnswerRests DEF Unanswered, Wrote
      <3>2. CASE WriteBreaks(c)
        BY <1>0, <2>2, <3>2 DEF Unanswered, WriteBreaks
      <3>3. CASE c \notin Writes
        BY <3>3
      <3>4. QED
        BY <1>2, <3>1, <3>2, <3>3, SerialAssumption
           DEF Leaves, Deadline, ReadBreaks, MonitorEnds, DtrHigh, ResetBreaks
    <2>6. QED
      BY <1>0, <2>1, <2>2, <2>3, <2>4, <2>5, WritersRest DEF Unanswered
  <1>3. ASSUME NEW c \in Calls, Begin(c) \/ Open(c) \/ WriteHead(c) \/ WriteTail(c) \/ DtrLow(c)
        PROVE  Unanswered'
    <2>1. pc[c] \notin {"done", "sent"} /\ UNCHANGED <<answer, handled, arrived>>
      BY <1>3 DEF Begin, Open, WriteHead, WriteTail, DtrLow, board, port
    <2>2. PICK l \in {"open", "use", "half", "sent"} : pc' = [pc EXCEPT ![c] = l]
      BY <1>3 DEF Begin, Open, WriteHead, WriteTail, DtrLow, Goto
    <2>3. \A d \in Writes : pc'[d] = IF d = c THEN l ELSE pc[d]
      BY <1>0, <2>2 DEF TypeOK, Calls, Tools
    <2>4. QED
      BY <1>0, <2>1, <2>3 DEF Unanswered
  <1>4. ASSUME NEW c \in Calls, HeadArrives(c) PROVE Unanswered'
    <2>1. arrived = 0 /\ UNCHANGED <<pc, answer, handled>>
      BY <1>4 DEF HeadArrives
    <2>2. QED
      BY <1>0, <2>1 DEF Unanswered
  <1>5. ASSUME NEW c \in Calls, TailArrives(c) PROVE Unanswered'
    <2>1. arrived = 1 /\ arrived' = 2 /\ pc[c] = "sent" /\ UNCHANGED <<pc, answer>>
      BY <1>5 DEF TailArrives
    <2>2. \A d \in Writes : d # c => handled'[d] = handled[d]
      BY <1>0, <1>5 DEF TailArrives, TypeOK
    <2>3. QED
      BY <1>0, <2>1, <2>2 DEF Unanswered
  <1>6. CASE (\E c \in Calls : ReadSome(c)) \/ Output \/ BoardResets \/ Unplug \/ Plug \/ OtherTakes
             \/ OtherLeaves \/ UNCHANGED vars
    <2>1. UNCHANGED <<pc, answer, handled, arrived>>
      BY <1>6 DEF ReadSome, Output, BoardResets, Unplug, Plug, OtherTakes, OtherLeaves, vars, board, port
    <2>2. QED
      BY <1>0, <2>1 DEF Unanswered
  <1>7. QED
    BY <1>1, <1>2, <1>3, <1>4, <1>5, <1>6 DEF Next, Step, Write, Read, Reset, Gives, Leaves

LEMMA LineStep == WriteInv /\ [Next]_vars => LineIsKnown'
  <1> SUFFICES ASSUME WriteInv, [Next]_vars PROVE LineIsKnown'
    OBVIOUS
  <1>0. TypeOK /\ Unanswered /\ LineIsKnown
    BY DEF WriteInv
  <1>1. ASSUME NEW c \in Calls, Gives(c) \/ Begin(c) PROVE LineIsKnown'
    <2>1. holder # c /\ UNCHANGED <<holder, arrived, line, spoilt, hit>>
      BY <1>0, <1>1, Giving DEF Begin, board, port, TypeOK
    <2>2. \A d \in Calls : d # c => pc'[d] = pc[d]
      <3>1. CASE Gives(c)
        BY <1>0, <3>1, Giving DEF Rests, TypeOK
      <3>2. CASE Begin(c)
        BY <1>0, <3>2 DEF Begin, Goto, TypeOK
      <3>3. QED
        BY <1>1, <3>1, <3>2
    <2>3. QED
      BY <1>0, <2>1, <2>2 DEF LineIsKnown, Calls, Tools
  <1>2. ASSUME NEW c \in Calls, Leaves(c) PROVE LineIsKnown'
    <2>1. holder = c /\ arrived' = 0 /\ UNCHANGED <<line, hit>>
          /\ IF c \in Writes THEN spoilt' = (line # <<>>) ELSE spoilt' = spoilt
      BY <1>0, <1>2, Leaving
    <2>2. c \notin Writes => arrived = 0
      BY <1>0, <2>1 DEF LineIsKnown
    <2>3. CASE c \in Writes
      <3>1. (spoilt' <=> line' # <<>>) /\ arrived' = 0
        BY <2>1, <2>3
      <3>2. QED
        BY <3>1 DEF LineIsKnown
    <2>4. CASE c \notin Writes
      <3>1. arrived = 0 /\ arrived' = 0 /\ UNCHANGED <<line, spoilt>>
        BY <2>1, <2>2, <2>4
      <3>2. QED
        BY <1>0, <3>1 DEF LineIsKnown
    <2>5. QED
      BY <2>3, <2>4
  <1>3. ASSUME NEW c \in Calls, Open(c) PROVE LineIsKnown'
    <2>1. holder \notin Writes /\ arrived' = arrived /\ (Blank \/ UNCHANGED <<line, spoilt>>)
      BY <1>3, SerialAssumption DEF Open, Calls, Tools
    <2>2. arrived = 0
      BY <1>0, <2>1 DEF LineIsKnown
    <2>3. QED
      BY <1>0, <2>1, <2>2 DEF LineIsKnown, Blank
  <1>4. ASSUME NEW c \in Calls, WriteHead(c) \/ WriteTail(c) PROVE LineIsKnown'
    <2>1. holder = c /\ UNCHANGED <<holder, arrived, line, spoilt, hit>>
      BY <1>0, <1>4 DEF WriteHead, WriteTail, board, port, TypeOK
    <2>2. \/ pc[c] = "use" /\ pc'[c] = "half"
          \/ pc[c] = "half" /\ pc'[c] = "sent"
      BY <1>0, <1>4 DEF WriteHead, WriteTail, Goto, TypeOK
    <2>3. QED
      BY <1>0, <2>1, <2>2 DEF LineIsKnown
  <1>5. ASSUME NEW c \in Calls, HeadArrives(c) PROVE LineIsKnown'
    <2>1. holder = c /\ c \in Writes /\ pc[c] \in {"half", "sent"} /\ arrived = 0 /\ arrived' = 1
          /\ line \in Seq(Writes) /\ line' = Append(line, c) /\ UNCHANGED <<pc, holder, spoilt, hit>>
      BY <1>0, <1>5 DEF HeadArrives, TypeOK
    <2>2. /\ line' # <<>> /\ (line # <<>> => line' # <<c>>)
          /\ line = <<>> => line' = <<c>>
      BY <2>1, Appended
    <2>3. QED
      BY <1>0, <2>1, <2>2 DEF LineIsKnown
  <1>6. ASSUME NEW c \in Calls, TailArrives(c) PROVE LineIsKnown'
    <2>1. holder = c /\ c \in Writes /\ pc[c] = "sent" /\ arrived' = 2 /\ UNCHANGED <<pc, holder>>
      BY <1>0, <1>6 DEF TailArrives, TypeOK
    <2>2. line' = <<>> /\ spoilt' = FALSE
      BY <1>6 DEF TailArrives, Blank
    <2>3. QED
      BY <2>1, <2>2 DEF LineIsKnown
  <1>7. ASSUME NEW c \in Calls, DtrLow(c) PROVE LineIsKnown'
    <2>1. holder = c /\ c \notin Writes /\ UNCHANGED <<holder, arrived>>
      BY <1>0, <1>7, SerialAssumption DEF DtrLow, TypeOK, port
    <2>2. arrived = 0 /\ line' = <<>> /\ spoilt' = FALSE
      BY <1>0, <1>7, <2>1 DEF LineIsKnown, DtrLow, Blank
    <2>3. QED
      BY <2>1, <2>2 DEF LineIsKnown
  <1>8. CASE BoardResets \/ Unplug
    <2>1. line' = <<>> /\ spoilt' = FALSE /\ hit' = hit \cup ({holder} \cap Writes)
          /\ UNCHANGED <<pc, holder, arrived>>
      BY <1>8 DEF BoardResets, Unplug, Blank, Hit, port
    <2>2. QED
      BY <1>0, <2>1 DEF LineIsKnown
  <1>9. CASE OtherTakes \/ OtherLeaves
    <2>1. holder \notin Writes /\ arrived' = arrived /\ (Blank \/ UNCHANGED <<line, spoilt>>)
      BY <1>9, SerialAssumption DEF OtherTakes, OtherLeaves, board, Calls, Tools
    <2>2. arrived = 0
      BY <1>0, <2>1 DEF LineIsKnown
    <2>3. QED
      BY <1>0, <2>1, <2>2 DEF LineIsKnown, Blank
  <1>10. CASE (\E c \in Calls : ReadSome(c)) \/ Output \/ Plug \/ UNCHANGED vars
    <2>1. UNCHANGED <<pc, holder, arrived, line, spoilt, hit>>
      BY <1>10 DEF ReadSome, Output, Plug, vars, board, port
    <2>2. QED
      BY <1>0, <2>1 DEF LineIsKnown
  <1>11. QED
    BY <1>1, <1>2, <1>3, <1>4, <1>5, <1>6, <1>7, <1>8, <1>9, <1>10
       DEF Next, Step, Write, Read, Reset, Gives, Leaves

-----------------------------------------------------------------------------
(* What a read answers.                                                    *)

\* The steps that move nothing that was printed or read.
LEMMA NothingReadStep ==
  ASSUME ReadInv, TypeOK',
         UNCHANGED <<holder, dead, rx, captured, printed>>,
         \A c \in Calls : pc'[c] \in {"new", "open", "sleep"} => pc[c] \in {"new", "open", "sleep"}
  PROVE  ReadInv'
  <1>1. NotYetRead'
    BY DEF ReadInv, NotYetRead
  <1>2. StartsEmpty'
    BY DEF ReadInv, StartsEmpty
  <1>3. SightIsWhole' /\ ReadsAreWhole'
    BY DEF ReadInv, SightIsWhole, Sight, Whole, ReadsAreWhole
  <1>4. QED
    BY <1>1, <1>2, <1>3 DEF ReadInv

\* An attempt that is over: what was read stays, or goes as a whole.
LEMMA LeftStep ==
  ASSUME ReadInv, TypeOK', NEW c \in Calls, Leaves(c)
  PROVE  ReadInv'
  <1>1. TypeOK /\ holder = c /\ holder' = None /\ rx' = {} /\ printed' = printed
    BY Leaving DEF ReadInv
  <1>2. PICK l \in {"sleep", "done"} : Rests(c, l)
    BY <1>1, Leaving
  <1>3. /\ \A d \in Calls : d # c => captured'[d] = captured[d]
        /\ captured'[c] = captured[c] \/ captured'[c] = {}
        /\ l = "sleep" => captured'[c] = {}
    <2>1. CASE Wrote(c) \/ WriteBreaks(c) \/ DtrHigh(c) \/ ResetBreaks(c)
      <3>1. c \in Writes \cup Resets /\ captured' = captured
        BY <2>1 DEF Wrote, WriteBreaks, DtrHigh, ResetBreaks
      <3>2. QED
        BY <3>1 DEF ReadInv, StartsEmpty
    <2>2. CASE Deadline(c) \/ MonitorEnds(c)
      <3>1. captured' = captured /\ pc'[c] = "done"
        BY <1>1, <2>2 DEF Deadline, MonitorEnds, Answer, Goto, TypeOK
      <3>2. QED
        BY <1>1, <1>2, <3>1 DEF Rests, TypeOK
    <2>3. CASE ReadBreaks(c)
      BY <1>1, <2>3 DEF ReadBreaks, TypeOK
    <2>4. QED
      BY <2>1, <2>2, <2>3 DEF Leaves
  <1>4. holder' \notin Calls
    BY <1>1, SerialAssumption
  <1>5. NotYetRead'
    BY <1>1, <1>3 DEF ReadInv, NotYetRead
  <1>6. StartsEmpty'
    <2>1. \A d \in Calls : pc'[d] \in {"new", "open", "sleep"} => captured'[d] = {}
      BY <1>1, <1>2, <1>3 DEF ReadInv, StartsEmpty, Rests, TypeOK
    <2>2. \A d \in Writes \cup Resets : captured'[d] = {}
      BY <1>3 DEF ReadInv, StartsEmpty, Calls, Tools
    <2>3. QED
      BY <1>1, <2>1, <2>2 DEF StartsEmpty
  <1>7. SightIsWhole'
    BY <1>4 DEF SightIsWhole
  <1>8. ReadsAreWhole'
    BY <1>3 DEF ReadInv, ReadsAreWhole
  <1>9. QED
    BY <1>5, <1>6, <1>7, <1>8 DEF ReadInv

\* An attempt that begins sees nothing yet.
LEMMA OpenedStep ==
  ASSUME ReadInv, TypeOK', NEW c \in Calls, Open(c)
  PROVE  ReadInv'
  <1>1. TypeOK /\ holder' = c /\ UNCHANGED <<rx, captured, printed>> /\ pc' = [pc EXCEPT ![c] = "use"]
    BY DEF ReadInv, Open, Goto
  <1>2. rx = {} /\ captured[c] = {}
    BY SerialAssumption DEF ReadInv, StartsEmpty, Open
  <1>3. NotYetRead' /\ ReadsAreWhole'
    BY <1>1 DEF ReadInv, NotYetRead, ReadsAreWhole
  <1>4. StartsEmpty'
    BY <1>1, <1>2 DEF ReadInv, StartsEmpty, TypeOK
  <1>5. Sight(holder)' = {}
    BY <1>1, <1>2 DEF Sight
  <1>6. SightIsWhole'
    BY <1>5 DEF SightIsWhole, Whole
  <1>7. QED
    BY <1>3, <1>4, <1>6 DEF ReadInv

\* Reading moves what is waiting to what was read: together they are what they were.
LEMMA ReadSomeStep ==
  ASSUME ReadInv, TypeOK', NEW c \in Calls, ReadSome(c)
  PROVE  ReadInv'
  <1>1. TypeOK /\ holder = c /\ captured \in [Calls -> SUBSET Nat]
    BY DEF ReadInv, TypeOK, ReadSome
  <1>2. rx' = {} /\ captured' = [captured EXCEPT ![c] = captured[c] \cup rx]
        /\ UNCHANGED <<pc, holder, dead, printed>>
    BY DEF ReadSome, board
  <1>3. captured'[c] = Sight(c) /\ \A d \in Calls : d # c => captured'[d] = captured[d]
    BY <1>1, <1>2 DEF Sight
  <1>4. Sight(c)' = Sight(c)
    BY <1>1, <1>2 DEF Sight
  <1>5. NotYetRead'
    BY <1>2, <1>3 DEF ReadInv, NotYetRead, Sight
  <1>6. StartsEmpty'
    <2>1. pc[c] = "use" /\ c \notin Writes \cup Resets
      BY SerialAssumption DEF ReadSome
    <2>2. QED
      BY <1>1, <1>2, <1>3, <2>1 DEF ReadInv, StartsEmpty, Calls, Tools
  <1>7. SightIsWhole'
    BY <1>1, <1>2, <1>4 DEF ReadInv, SightIsWhole
  <1>8. ReadsAreWhole'
    <2>1. Whole(captured'[c])
      BY <1>1, <1>3 DEF ReadInv, SightIsWhole
    <2>2. \A d \in Calls : d # c => captured'[c] \cap captured'[d] = {}
      BY <1>3 DEF ReadInv, ReadsAreWhole, NotYetRead, Sight
    <2>3. QED
      BY <1>3, <2>1, <2>2 DEF ReadInv, ReadsAreWhole, Whole
  <1>9. QED
    BY <1>5, <1>6, <1>7, <1>8 DEF ReadInv

\* What is printed comes right after all that the holder has seen.
LEMMA OutputStep ==
  ASSUME ReadInv, TypeOK', Output
  PROVE  ReadInv'
  <1>1. TypeOK /\ printed \in Nat /\ printed' = printed + 1 /\ UNCHANGED <<pc, holder, dead, captured>>
    BY OnePrintMore DEF ReadInv, TypeOK, Output
  <1>2. \/ rx' = rx \cup {printed} /\ holder \in Calls /\ ~dead
        \/ rx' = rx /\ (holder \notin Calls \/ dead)
    <2>1. CASE holder \in Calls /\ ~dead
      BY <2>1 DEF Output
    <2>2. CASE ~(holder \in Calls /\ ~dead)
      BY <2>2 DEF Output
    <2>3. QED
      BY <2>1, <2>2
  <1>3. rx \subseteq Nat /\ \A c \in Calls : captured[c] \subseteq Nat
    BY <1>1 DEF TypeOK
  <1>4. NotYetRead'
    <2>1. \A c \in Calls : \A i \in captured'[c] : i < printed'
      BY <1>1, <1>3 DEF ReadInv, NotYetRead
    <2>2. \A i \in rx' : i < printed'
      <3>1. \A i \in rx : i \in Nat /\ i < printed
        BY <1>3 DEF ReadInv, NotYetRead
      <3>2. \A i \in rx' : i \in rx \/ i = printed
        BY <1>2
      <3>3. QED
        BY <1>1, <3>1, <3>2
    <2>3. \A c \in Calls : printed \notin captured[c]
      BY <1>1 DEF ReadInv, NotYetRead
    <2>4. \A c \in Calls : captured'[c] \cap rx' = {}
      BY <1>1, <1>2, <2>3 DEF ReadInv, NotYetRead
    <2>5. QED
      BY <2>1, <2>2, <2>4 DEF NotYetRead
  <1>5. StartsEmpty'
    BY <1>1, <1>2 DEF ReadInv, StartsEmpty
  <1>6. ReadsAreWhole'
    BY <1>1 DEF ReadInv, ReadsAreWhole
  <1>7. SightIsWhole'
    <2>1. CASE rx' = rx /\ (holder \notin Calls \/ dead)
      BY <1>1, <2>1 DEF ReadInv, SightIsWhole, Sight
    <2>2. CASE rx' = rx \cup {printed} /\ holder \in Calls /\ ~dead
      <3>1. Sight(holder)' = Sight(holder) \cup {printed} /\ Sight(holder) \subseteq Nat
        BY <1>1, <1>3, <2>2 DEF Sight
      <3>2. \A i \in Sight(holder) : i < printed /\ \A j \in i..(printed - 1) : j \in Sight(holder)
        BY <2>2 DEF ReadInv, SightIsWhole, NotYetRead, Sight
      <3>3. ASSUME NEW i \in Sight(holder)', NEW j \in i..printed PROVE j \in Sight(holder)'
        BY <1>1, <3>1, <3>2, <3>3
      <3>4. ASSUME NEW i \in Sight(holder)', NEW k \in Sight(holder)', NEW j \in i..k
            PROVE  j \in Sight(holder)'
        <4>1. i \in Nat /\ k \in Nat /\ k <= printed
          BY <1>1, <3>1, <3>2
        <4>2. j \in i..printed
          BY <1>1, <4>1
        <4>3. QED
          BY <3>3, <4>2
      <3>5. printed' - 1 = printed
        BY <1>1
      <3>6. QED
        BY <3>3, <3>4, <3>5 DEF SightIsWhole, Whole
    <2>3. QED
      BY <1>2, <2>1, <2>2
  <1>8. QED
    BY <1>4, <1>5, <1>6, <1>7 DEF ReadInv

\* The cable and the other program change who sees, not what was seen.
LEMMA OthersStep ==
  ASSUME ReadInv, TypeOK', Unplug \/ OtherTakes \/ OtherLeaves
  PROVE  ReadInv'
  <1>1. UNCHANGED <<pc, rx, captured, printed>>
    BY DEF Unplug, OtherTakes, OtherLeaves, board, port
  <1>2. \/ holder' = holder /\ (dead' \/ holder' \notin Calls)
        \/ holder \notin Calls /\ holder' \notin Calls
    <2>1. None \notin Calls /\ Other \notin Calls
      BY SerialAssumption
    <2>2. CASE Unplug
      BY <2>1, <2>2 DEF Unplug
    <2>3. CASE OtherTakes \/ OtherLeaves
      BY <2>1, <2>3 DEF OtherTakes, OtherLeaves
    <2>4. QED
      BY <2>2, <2>3
  <1>3. NotYetRead' /\ ReadsAreWhole'
    BY <1>1 DEF ReadInv, NotYetRead, ReadsAreWhole
  <1>4. StartsEmpty'
    BY <1>1, <1>2 DEF ReadInv, StartsEmpty
  <1>5. SightIsWhole'
    BY <1>1, <1>2 DEF ReadInv, SightIsWhole, Sight, Whole
  <1>6. QED
    BY <1>3, <1>4, <1>5 DEF ReadInv

LEMMA ReadStep == ReadInv /\ [Next]_vars => ReadInv'
  <1> SUFFICES ASSUME ReadInv, [Next]_vars PROVE ReadInv'
    OBVIOUS
  <1>0. TypeOK /\ TypeOK'
    BY TypeStep DEF ReadInv
  <1>1. ASSUME NEW c \in Calls, Gives(c) PROVE ReadInv'
    <2>1. PICK l \in {"sleep", "done"} : Rests(c, l)
      BY <1>0, <1>1, Giving
    <2>2. \A d \in Calls : pc'[d] \in {"new", "open", "sleep"} => pc[d] \in {"new", "open", "sleep"}
      <3>1. pc[c] \in {"new", "open"}
        BY <1>0, <1>1, Giving
      <3>2. \A d \in Calls : d # c => pc'[d] = pc[d]
        BY <1>0, <2>1 DEF TypeOK, Rests
      <3>3. QED
        BY <3>1, <3>2
    <2>3. QED
      BY <1>0, <1>1, <2>2, Giving, NothingReadStep DEF board, port
  <1>2. ASSUME NEW c \in Calls, Leaves(c) PROVE ReadInv'
    BY <1>0, <1>2, LeftStep
  <1>3. ASSUME NEW c \in Calls, Begin(c) \/ WriteHead(c) \/ WriteTail(c) \/ DtrLow(c) PROVE ReadInv'
    <2>1. UNCHANGED <<holder, dead, rx, captured, printed>>
      BY <1>3 DEF Begin, WriteHead, WriteTail, DtrLow, board, port
    <2>2. \A d \in Calls : pc'[d] \in {"new", "open", "sleep"} => pc[d] \in {"new", "open", "sleep"}
      BY <1>0, <1>3 DEF Begin, WriteHead, WriteTail, DtrLow, Goto, TypeOK
    <2>3. QED
      BY <1>0, <2>1, <2>2, NothingReadStep
  <1>4. ASSUME NEW c \in Calls, Open(c) PROVE ReadInv'
    BY <1>0, <1>4, OpenedStep
  <1>5. ASSUME NEW c \in Calls, ReadSome(c) PROVE ReadInv'
    BY <1>0, <1>5, ReadSomeStep
  <1>6. CASE Output
    BY <1>0, <1>6, OutputStep
  <1>7. CASE BoardResets \/ Plug \/ (\E c \in Calls : HeadArrives(c) \/ TailArrives(c)) \/ UNCHANGED vars
    <2>1. UNCHANGED <<pc, holder, dead, rx, captured, printed>>
      BY <1>7 DEF BoardResets, Plug, HeadArrives, TailArrives, board, port, vars
    <2>2. QED
      BY <1>0, <2>1, NothingReadStep
  <1>8. CASE Unplug \/ OtherTakes \/ OtherLeaves
    BY <1>0, <1>8, OthersStep
  <1>9. QED
    BY <1>1, <1>2, <1>3, <1>4, <1>5, <1>6, <1>7, <1>8
       DEF Next, Step, Write, Read, Reset, Gives, Leaves

-----------------------------------------------------------------------------
(* The theorems.                                                           *)

LEMMA InitInv == Init => IInv
  <1> SUFFICES ASSUME Init PROVE IInv
    OBVIOUS
  <1>1. TypeOK
    BY TypeInit
  <1>2. \A c \in Calls : pc[c] = "new" /\ answer[c] = "none" /\ captured[c] = {}
    BY DEF Init
  <1>3. Unanswered /\ LineIsKnown
    BY <1>2 DEF Init, Unanswered, LineIsKnown, Calls, Tools
  <1>4. NotYetRead /\ StartsEmpty /\ ReadsAreWhole
    BY <1>2 DEF Init, NotYetRead, StartsEmpty, ReadsAreWhole, Calls, Tools
  <1>5. SightIsWhole
    BY SerialAssumption DEF Init, SightIsWhole
  <1>6. QED
    BY <1>1, <1>3, <1>4, <1>5 DEF IInv, WriteInv, ReadInv

LEMMA Inductive == Spec => []IInv
  <1>1. IInv /\ [Next]_vars => IInv'
    BY TypeStep, AnsweredStep, LineStep, ReadStep DEF IInv, WriteInv
  <1>2. QED
    BY InitInv, <1>1, PTL DEF Spec

\* Every variable keeps its type, and a call at work has the port, for any constants.
THEOREM TypeCorrect == Spec => []TypeOK
  BY Inductive, PTL DEF IInv, WriteInv

\* A reading has no gap, and no two readings have a piece in common.
THEOREM ReadingsWhole == Spec => []ReadsAreWhole
  BY Inductive, PTL DEF IInv, ReadInv

-----------------------------------------------------------------------------
(* The refinement of Delivery.                                             *)

\* What the caller of a write can see; its answer is the one that Delivery speaks of.
Said == [c \in Writes |-> answer[c]]

\* A step in which nothing is answered is none of Delivery's.
LEMMA NothingSaid ==
  ASSUME UNCHANGED <<handled, spoilt, hit>>, \A c \in Writes : answer'[c] = answer[c]
  PROVE  UNCHANGED <<Said, handled, spoilt, hit>>
  BY DEF Said

\* One write answers.
LEMMA OneSaid ==
  ASSUME TypeOK, Unanswered, NEW c \in Writes, NEW a \in {"OK", "ERROR"},
         pc[c] # "done", Rests(c, "done"), answer'[c] = a
  PROVE  Promised!Answers(c, a)
  <1>1. answer[c] = "none" /\ \A d \in Writes : d # c => answer'[d] = answer[d]
    BY DEF Unanswered, Rests, Calls, Tools
  <1>2. Said[c] = "none" /\ Said' = [Said EXCEPT ![c] = a]
    BY <1>1 DEF Said
  <1>3. QED
    BY <1>2 DEF Promised!Answers, Said

\* A call that fails before it has the port leaves no half; the message was not handled.
LEMMA GivingRefuses ==
  ASSUME WriteInv, NEW c \in Calls, Gives(c)
  PROVE  Promised!Next \/ UNCHANGED <<Said, handled, spoilt, hit>>
  <1>0. TypeOK /\ Unanswered
    BY DEF WriteInv
  <1>1. PICK l \in {"sleep", "done"} : Rests(c, l) /\ (l = "done" => answer'[c] = "ERROR")
    BY <1>0, Giving
  <1>2. pc[c] \in {"new", "open"} /\ UNCHANGED <<handled, spoilt, hit>>
    BY <1>0, Giving DEF board
  <1>3. CASE c \in Writes /\ l = "done"
    <2>1. handled[c] = "no"
      BY <1>0, <1>2, <1>3 DEF Unanswered
    <2>2. Promised!Leave(c)
      BY <1>2, <2>1 DEF Promised!Leave
    <2>3. Promised!Answers(c, "ERROR")
      BY <1>0, <1>1, <1>2, <1>3, OneSaid
    <2>4. QED
      BY <1>3, <2>2, <2>3 DEF Promised!Refuse, Promised!Next
  <1>4. CASE c \notin Writes \/ l = "sleep"
    BY <1>1, <1>2, <1>4, NothingSaid DEF Rests, Calls, Tools
  <1>5. QED
    BY <1>3, <1>4

\* A write that is over before its end has arrived was not handled, and may leave its half.
LEMMA LeavingUnhandled ==
  ASSUME WriteInv, NEW c \in Writes, Wrote(c) \/ WriteBreaks(c), arrived # 2
  PROVE  Promised!Leave(c)
  <1>1. pc[c] # "done" /\ spoilt' = (line # <<>>) /\ UNCHANGED <<handled, hit>>
    BY DEF Wrote, WriteBreaks
  <1>2. handled[c] = "no"
    BY <1>1 DEF WriteInv, Unanswered
  <1>3. spoilt' \in {spoilt, TRUE}
    BY <1>1 DEF WriteInv, TypeOK, LineIsKnown
  <1>4. QED
    BY <1>1, <1>2, <1>3 DEF Promised!Leave

\* An attempt that fails refuses the message or is retried.
LEMMA BreakRetries ==
  ASSUME WriteInv, NEW c \in Calls, WriteBreaks(c)
  PROVE  Promised!Next
  <1>0. TypeOK /\ Unanswered /\ LineIsKnown /\ c \in Writes
    BY DEF WriteInv, WriteBreaks
  <1>1. holder = c /\ pc[c] \in {"use", "half"}
    BY <1>0 DEF WriteBreaks, TypeOK
  <1>2. Promised!Leave(c)
    BY <1>0, <1>1, LeavingUnhandled DEF LineIsKnown
  <1>3. PICK l \in {"sleep", "done"} : Rests(c, l) /\ (l = "done" => answer'[c] = "ERROR")
    BY <1>0, FailedRests DEF WriteBreaks
  <1>4. CASE l = "done"
    <2>1. Promised!Answers(c, "ERROR")
      BY <1>0, <1>1, <1>3, <1>4, OneSaid
    <2>2. QED
      BY <1>0, <1>2, <2>1 DEF Promised!Refuse, Promised!Next
  <1>5. CASE l = "sleep"
    <2>1. answer[c] = "none" /\ Said' = Said
      BY <1>0, <1>1, <1>3, <1>5 DEF Unanswered, Said, Rests, Calls, Tools
    <2>2. Said[c] = "none"
      BY <1>0, <2>1 DEF Said
    <2>3. QED
      BY <1>0, <1>2, <2>1, <2>2 DEF Promised!Retry, Promised!Next, Said
  <1>6. QED
    BY <1>4, <1>5

\* OK is said of a message the board has handled, or of one it may never have.
LEMMA WroteTakes ==
  ASSUME WriteInv, NEW c \in Calls, Wrote(c)
  PROVE  Promised!Next
  <1>0. TypeOK /\ Unanswered /\ LineIsKnown /\ c \in Writes
    BY DEF WriteInv, Wrote
  <1>1. holder = c /\ pc[c] = "sent" /\ spoilt' = (line # <<>>) /\ UNCHANGED <<handled, hit>>
    BY <1>0 DEF Wrote, TypeOK
  <1>2. Promised!Answers(c, "OK")
    BY <1>0, <1>1, AnswerRests, OneSaid DEF Wrote
  <1>3. CASE arrived = 2 /\ handled[c] # "no"
    <2>1. spoilt' = spoilt
      BY <1>0, <1>1, <1>3 DEF LineIsKnown, TypeOK
    <2>2. QED
      BY <1>0, <1>1, <1>2, <1>3, <2>1 DEF Promised!Take, Promised!Next
  <1>4. CASE arrived # 2
    BY <1>0, <1>2, <1>4, LeavingUnhandled DEF Promised!Lose, Promised!Next
  <1>5. CASE arrived = 2 /\ handled[c] = "no"
    <2>1. spoilt' \in {spoilt, TRUE}
      BY <1>0, <1>1, <1>5 DEF LineIsKnown, TypeOK
    <2>2. QED
      BY <1>0, <1>1, <1>2, <1>5, <2>1 DEF Promised!Leave, Promised!Lose, Promised!Next
  <1>6. QED
    BY <1>3, <1>4, <1>5

\* The end of a message arrives once; alone unless a half waited for it, which is gone then.
LEMMA TailHandles ==
  ASSUME WriteInv, NEW c \in Calls, TailArrives(c)
  PROVE  Promised!Next
  <1>0. TypeOK /\ Unanswered /\ LineIsKnown /\ c \in Writes /\ holder = c
    BY DEF WriteInv, TailArrives, TypeOK
  <1>1. pc[c] = "sent" /\ arrived = 1 /\ spoilt' = FALSE /\ UNCHANGED <<answer, hit>>
    BY DEF TailArrives, Blank
  <1>2. answer[c] = "none" /\ handled[c] = "no"
    BY <1>0, <1>1 DEF Unanswered
  <1>3. Said[c] = "none" /\ Said' = Said
    BY <1>0, <1>1, <1>2 DEF Said
  <1> DEFINE How == IF line = <<c>> THEN "intact" ELSE IF line = <<>> THEN "cut" ELSE "joined"
  <1>4. handled' = [handled EXCEPT ![c] = How]
    BY <1>2 DEF TailArrives
  <1>5. /\ How = "intact" => ~spoilt
        /\ How = "joined" => spoilt
        /\ How = "cut" => c \in hit
    BY <1>0, <1>1 DEF LineIsKnown
  <1>6. How \in {"intact", "joined", "cut"}
    OBVIOUS
  <1> HIDE DEF How
  <1>7. Promised!Handle(c, How)
    BY <1>1, <1>2, <1>3, <1>4, <1>5 DEF Promised!Handle, Said
  <1>8. QED
    BY <1>0, <1>6, <1>7 DEF Promised!Next

\* A reset or a pulled cable excuses the write that has the port, and nobody else.
LEMMA BoardExcuses ==
  ASSUME WriteInv, BoardResets \/ Unplug
  PROVE  Promised!Next
  <1>1. UNCHANGED <<answer, handled>> /\ spoilt' = FALSE /\ hit' = hit \cup ({holder} \cap Writes)
    BY DEF BoardResets, Unplug, Hit, Blank
  <1>2. CASE holder \in Writes
    <2>1. answer[holder] = "none"
      BY <1>2 DEF WriteInv, TypeOK, Unanswered, Calls, Tools
    <2>2. Promised!Disturb(holder)
      BY <1>1, <1>2, <2>1 DEF Promised!Disturb
    <2>3. QED
      BY <1>2, <2>2 DEF Promised!Next
  <1>3. CASE holder \notin Writes
    BY <1>1, <1>3 DEF Promised!Anew, Promised!Next
  <1>4. QED
    BY <1>2, <1>3

\* The line that starts anew.
LEMMA BlankIsAnew ==
  ASSUME Blank \/ UNCHANGED <<line, spoilt>>, UNCHANGED <<answer, handled, hit>>
  PROVE  Promised!Next \/ UNCHANGED <<Said, handled, spoilt, hit>>
  BY DEF Blank, Promised!Anew, Promised!Next, Said

LEMMA DeliveryStep ==
  WriteInv /\ [Next]_vars => [Promised!Next]_<<[c \in Writes |-> answer[c]], handled, spoilt, hit>>
  <1> SUFFICES ASSUME WriteInv, [Next]_vars
               PROVE  Promised!Next \/ UNCHANGED <<Said, handled, spoilt, hit>>
    BY DEF Said
  <1> DEFINE Goal == Promised!Next \/ UNCHANGED <<Said, handled, spoilt, hit>>
  <1>1. ASSUME NEW c \in Calls, Gives(c) PROVE Goal
    BY <1>1, GivingRefuses
  <1>2. ASSUME NEW c \in Calls, Wrote(c) \/ WriteBreaks(c) \/ TailArrives(c) PROVE Goal
    BY <1>2, WroteTakes, BreakRetries, TailHandles
  <1>3. ASSUME NEW c \in Calls, Deadline(c) \/ ReadBreaks(c) \/ MonitorEnds(c) \/ DtrHigh(c) \/ ResetBreaks(c)
        PROVE  Goal
    <2>1. PICK l \in {"sleep", "done"} : Rests(c, l)
      BY <1>3, Leaving DEF WriteInv, Leaves
    <2>2. c \notin Writes /\ UNCHANGED <<handled, spoilt, hit>>
      BY <1>3, SerialAssumption DEF Deadline, ReadBreaks, MonitorEnds, DtrHigh, ResetBreaks, board
    <2>3. QED
      BY <2>1, <2>2, NothingSaid DEF Rests, Calls, Tools
  <1>4. CASE BoardResets \/ Unplug
    BY <1>4, BoardExcuses
  <1>5. CASE (\E c \in Calls : Open(c) \/ DtrLow(c)) \/ OtherTakes
    BY <1>5, BlankIsAnew DEF Open, DtrLow, OtherTakes
  <1>6. CASE \/ \E c \in Calls : Begin(c) \/ WriteHead(c) \/ WriteTail(c) \/ HeadArrives(c) \/ ReadSome(c)
             \/ Output \/ Plug \/ OtherLeaves \/ UNCHANGED vars
    <2>1. UNCHANGED <<answer, handled, spoilt, hit>>
      BY <1>6 DEF Begin, WriteHead, WriteTail, HeadArrives, ReadSome, Output, Plug, OtherLeaves, vars, board
    <2>2. QED
      BY <2>1, NothingSaid
  <1>7. QED
    BY <1>1, <1>2, <1>3, <1>4, <1>5, <1>6 DEF Next, Step, Write, Read, Reset, Gives

\* Attempts, sleeps and pieces implement the promise: a message is handled once or not at
\* all, never if its call answers ERROR, and a half that was left spoils one line and no more,
\* for any number of calls of any kind and any number of retries.
THEOREM DeliveredOnce == Spec => ImplementsDelivery
  <1>1. Init => Promised!Init
    BY DEF Init, Promised!Init, Calls, Tools
  <1>2. IInv => WriteInv
    BY DEF IInv
  <1>3. QED
    BY Inductive, <1>1, <1>2, DeliveryStep, PTL DEF Spec, ImplementsDelivery, Promised!Spec
=============================================================================
