---------------------------- MODULE DebugProofs -----------------------------
(***************************************************************************)
(* The debugger: one session's conversation with GDB (GdbChannel), for any *)
(* number of commands, stops and timeouts; and, in the second part, the    *)
(* life of the sessions and their processes (DebugSlot), for any number of *)
(* calls.                                                                  *)
(***************************************************************************)
EXTENDS GdbChannel, DebugSlot, SequenceTheorems, TLAPS

Pending == Len(out) + Len(queue)

\* A block that is k blocks from the end answers a command at most k older than the
\* last one sent: commands and their answers stay in order.
InOrder ==
  /\ \A i \in 1..Len(out) : out[i] <= sent /\ (out[i] # 0 => sent - out[i] <= Pending - i)
  /\ \A j \in 1..Len(queue) :
       queue[j].id <= sent /\ sent - queue[j].id <= Len(queue) - j

IInv == TypeOK /\ LagAccounted /\ InOrder /\ EofOnce /\ StalenessBounded

-----------------------------------------------------------------------------
Request == [kind : Commands, id : Nat]

\* The two ends of a queue, for blocks and for requests.
LEMMA Appending ==
  ASSUME NEW S, NEW s \in Seq(S), NEW e \in S
  PROVE  /\ Append(s, e) \in Seq(S) /\ Append(s, e) # <<>>
         /\ Len(s) \in Nat /\ Len(Append(s, e)) = Len(s) + 1
         /\ \A i \in 1..Len(s) : Append(s, e)[i] = s[i]
         /\ Append(s, e)[Len(s) + 1] = e
  BY AppendProperties, LenProperties

LEMMA Taking ==
  ASSUME NEW S, NEW s \in Seq(S), s # <<>>
  PROVE  /\ Head(s) \in S /\ Head(s) = s[1] /\ Tail(s) \in Seq(S)
         /\ Len(s) \in Nat /\ Len(s) > 0 /\ Len(Tail(s)) = Len(s) - 1
         /\ \A i \in 1..Len(Tail(s)) : Tail(s)[i] = s[i + 1]
  BY HeadTailProperties, LenProperties, EmptySeq

LEMMA ProgramSteps == \A t \in Tools : Programs[t] \in SUBSET Seq(Steps)
  BY DEF Tools, Programs, Steps, Commands

LEMMA InitInv == Init => IInv
  <1> SUFFICES ASSUME Init PROVE IInv
    OBVIOUS
  <1>1. TypeOK
    BY EmptySeq DEF Init, TypeOK
  <1>2. Len(out) = 0 /\ Len(queue) = 0
    BY DEF Init
  <1>3. QED
    BY <1>1, <1>2 DEF Init, IInv, LagAccounted, InOrder, EofOnce, StalenessBounded, Pending

LEMMA TypeStep == TypeOK /\ [Next]_vars => TypeOK'
  <1> SUFFICES ASSUME TypeOK, [Next]_vars PROVE TypeOK'
    OBVIOUS
  <1>0. todo \in Seq(Steps) /\ out \in Seq(Nat) /\ queue \in Seq(Request)
    BY DEF TypeOK, Request
  <1>1. ASSUME NEW t \in Tools, Call(t) PROVE TypeOK'
    BY <1>1, ProgramSteps DEF Call, TypeOK
  <1>2. ASSUME NEW t \in Tools, Refuse(t) PROVE TypeOK'
    BY <1>2 DEF Refuse, TypeOK
  <1>3. CASE Send
    <2>1. sent' \in Nat /\ [kind |-> Head(todo), id |-> sent'] \in Request
      BY <1>3 DEF Send, TypeOK, Request
    <2>2. queue' \in Seq(Request)
      BY <1>0, <1>3, <2>1, Appending DEF Send
    <2>3. QED
      BY <1>3, <2>1, <2>2 DEF Send, TypeOK, Request
  <1>4. CASE SetFlag
    <2>1. Tail(todo) \in Seq(Steps)
      BY <1>0, <1>4, Taking DEF SetFlag
    <2>2. halted' \in BOOLEAN
      BY <1>4 DEF SetFlag, TypeOK
    <2>3. QED
      BY <1>4, <2>1, <2>2 DEF SetFlag, TypeOK
  <1>5. CASE ReadRecord
    BY <1>5 DEF ReadRecord, TypeOK
  <1>6. CASE ReadPrompt
    <2>1. todo # <<>> /\ out # <<>>
      BY <1>6 DEF ReadPrompt, TypeOK
    <2>2. Tail(todo) \in Seq(Steps) /\ Tail(out) \in Seq(Nat) /\ <<>> \in Seq(Steps)
      BY <1>0, <2>1, Taking, EmptySeq
    <2>3. QED
      BY <1>6, <2>2 DEF ReadPrompt, TypeOK
  <1>7. CASE Expire
    <2>1. <<>> \in Seq(Steps)
      BY EmptySeq
    <2>2. QED
      BY <1>7, <2>1 DEF Expire, TypeOK
  <1>8. CASE GdbAnswers
    <2>1. Head(queue) \in Request /\ Tail(queue) \in Seq(Request)
      BY <1>0, <1>8, Taking DEF GdbAnswers
    <2>2. out' \in Seq(Nat) /\ out' # <<>>
      BY <1>0, <1>8, <2>1, Appending DEF GdbAnswers, Request
    <2>3. target' \in {"halted", "running"}
      BY <1>8 DEF GdbAnswers, TypeOK
    <2>4. QED
      BY <1>8, <2>1, <2>2, <2>3 DEF GdbAnswers, TypeOK, Request
  <1>9. CASE TargetStops
    <2>1. out' \in Seq(Nat) /\ out' # <<>>
      BY <1>0, <1>9, Appending DEF TargetStops
    <2>2. QED
      BY <1>9, <2>1 DEF TargetStops, TypeOK
  <1>10. CASE WriteFails
    BY <1>10, EmptySeq DEF WriteFails, TypeOK
  <1>11. CASE ReadEof
    <2>1. Tail(todo) \in Seq(Steps)
      BY <1>0, <1>11, Taking DEF ReadEof, TypeOK
    <2>2. QED
      BY <1>11, <2>1 DEF ReadEof, TypeOK
  <1>12. CASE GdbDies
    BY <1>12 DEF GdbDies, TypeOK
  <1>13. CASE UNCHANGED vars
    BY <1>13 DEF vars, TypeOK
  <1>14. QED
    BY <1>1, <1>2, <1>3, <1>4, <1>5, <1>6, <1>7, <1>8, <1>9, <1>10, <1>11, <1>12, <1>13
    DEF Next, ToolStep

LEMMA LagStep == TypeOK /\ LagAccounted /\ [Next]_vars => LagAccounted'
  <1> SUFFICES ASSUME TypeOK, LagAccounted, [Next]_vars PROVE LagAccounted'
    OBVIOUS
  <1>0. /\ out \in Seq(Nat) /\ queue \in Seq(Request)
        /\ Len(out) \in Nat /\ Len(queue) \in Nat
        /\ cur \in Nat /\ sent \in Nat /\ stops \in Nat /\ expired \in Nat /\ eofs \in Nat
    BY LenProperties DEF TypeOK, Request
  <1>1. ASSUME NEW t \in Tools, Call(t) PROVE LagAccounted'
    BY <1>1 DEF Call, LagAccounted
  <1>2. ASSUME NEW t \in Tools, Refuse(t) PROVE LagAccounted'
    BY <1>2 DEF Refuse, LagAccounted
  <1>3. CASE Send
    <2>1. [kind |-> Head(todo), id |-> sent'] \in Request
      BY <1>3 DEF Send, TypeOK, Request
    <2>2. Len(queue') = Len(queue) + 1
      BY <1>0, <1>3, <2>1, Appending DEF Send
    <2>3. /\ cur = 0 /\ cur' # 0 /\ out' = out
          /\ stops' = stops /\ expired' = expired /\ eofs' = eofs
      BY <1>0, <1>3 DEF Send
    <2>4. QED
      BY <1>0, <2>2, <2>3 DEF LagAccounted
  <1>4. CASE SetFlag
    BY <1>4 DEF SetFlag, LagAccounted
  <1>5. CASE ReadRecord
    BY <1>5 DEF ReadRecord, LagAccounted
  <1>6. CASE ReadPrompt
    <2>1. out # <<>>
      BY <1>6 DEF ReadPrompt, TypeOK
    <2>2. Len(out') = Len(out) - 1
      BY <1>0, <1>6, <2>1, Taking DEF ReadPrompt
    <2>3. cur # 0 /\ cur' = 0 /\ queue' = queue /\ stops' = stops
         /\ expired' = expired /\ eofs' = eofs
      BY <1>6 DEF ReadPrompt
    <2>4. QED
      BY <1>0, <2>2, <2>3 DEF LagAccounted
  <1>7. CASE Expire
    BY <1>0, <1>7 DEF Expire, LagAccounted
  <1>8. CASE GdbAnswers
    <2>1. Head(queue) \in Request /\ Len(queue') = Len(queue) - 1
      BY <1>0, <1>8, Taking DEF GdbAnswers
    <2>2. Head(queue).id \in Nat
      BY <2>1 DEF Request
    <2>3. Len(out') = Len(out) + 1
      BY <1>0, <1>8, <2>2, Appending DEF GdbAnswers
    <2>4. cur' = cur /\ stops' = stops /\ expired' = expired /\ eofs' = eofs
      BY <1>8 DEF GdbAnswers
    <2>5. QED
      BY <1>0, <2>1, <2>3, <2>4 DEF LagAccounted
  <1>9. CASE TargetStops
    <2>1. Len(out') = Len(out) + 1
      BY <1>0, <1>9, Appending DEF TargetStops
    <2>2. QED
      BY <1>0, <1>9, <2>1 DEF TargetStops, LagAccounted
  <1>10. CASE WriteFails \/ GdbDies
    BY <1>10 DEF WriteFails, GdbDies, LagAccounted
  <1>11. CASE ReadEof
    BY <1>0, <1>11 DEF ReadEof, LagAccounted
  <1>12. CASE UNCHANGED vars
    BY <1>12 DEF vars, LagAccounted
  <1>13. QED
    BY <1>1, <1>2, <1>3, <1>4, <1>5, <1>6, <1>7, <1>8, <1>9, <1>10, <1>11, <1>12
    DEF Next, ToolStep

LEMMA OrderStep == IInv /\ [Next]_vars => InOrder'
  <1> SUFFICES ASSUME IInv, [Next]_vars PROVE InOrder'
    OBVIOUS
  <1>a. out \in Seq(Nat) /\ queue \in Seq(Request) /\ sent \in Nat
    BY DEF IInv, TypeOK, Request
  <1>b. Len(out) \in Nat /\ Len(queue) \in Nat
    BY <1>a, LenProperties
  <1>c. \A i \in 1..Len(out) : out[i] \in Nat
    BY <1>a, ElementOfSeq
  <1>d. \A j \in 1..Len(queue) : queue[j] \in Request
    BY <1>a, ElementOfSeq
  <1>e. \A j \in 1..Len(queue) : queue[j].id \in Nat
    BY <1>d DEF Request
  <1>f. \A i \in 1..Len(out) :
           out[i] <= sent /\ (out[i] # 0 => sent - out[i] <= Len(out) + Len(queue) - i)
    BY DEF IInv, InOrder, Pending
  <1>g. \A j \in 1..Len(queue) :
           queue[j].id <= sent /\ sent - queue[j].id <= Len(queue) - j
    BY DEF IInv, InOrder
  <1>h. SUFFICES
          /\ \A i \in 1..Len(out') :
               out'[i] <= sent' /\ (out'[i] # 0 => sent' - out'[i] <= Len(out') + Len(queue') - i)
          /\ \A j \in 1..Len(queue') :
               queue'[j].id <= sent' /\ sent' - queue'[j].id <= Len(queue') - j
    BY DEF InOrder, Pending
  <1>1. CASE out' = out /\ queue' = queue /\ sent' = sent
    BY <1>1, <1>f, <1>g
  <1>2. CASE Send
    <2>1. [kind |-> Head(todo), id |-> sent'] \in Request
      BY <1>2 DEF Send, IInv, TypeOK, Request
    <2>2. /\ Len(queue') = Len(queue) + 1
          /\ \A j \in 1..Len(queue) : queue'[j] = queue[j]
          /\ queue'[Len(queue) + 1].id = sent + 1
      BY <1>a, <1>b, <1>2, <2>1, Appending DEF Send
    <2>3. out' = out /\ sent' = sent + 1
      BY <1>2 DEF Send
    <2>4. ASSUME NEW i \in 1..Len(out')
          PROVE  /\ out'[i] <= sent'
                 /\ out'[i] # 0 => sent' - out'[i] <= Len(out') + Len(queue') - i
      BY <1>a, <1>b, <1>c, <1>f, <2>2, <2>3
    <2>5. ASSUME NEW j \in 1..Len(queue')
          PROVE  queue'[j].id <= sent' /\ sent' - queue'[j].id <= Len(queue') - j
      <3>1. CASE j \in 1..Len(queue)
        BY <1>a, <1>b, <1>e, <1>g, <2>2, <2>3, <3>1
      <3>2. CASE j = Len(queue) + 1
        BY <1>a, <1>b, <2>2, <2>3, <3>2
      <3>3. QED
        BY <1>b, <2>2, <3>1, <3>2
    <2>6. QED
      BY <2>4, <2>5
  <1>3. CASE ReadPrompt
    <2>1. out # <<>>
      BY <1>3 DEF ReadPrompt, IInv, TypeOK
    <2>2. Len(out') = Len(out) - 1 /\ \A i \in 1..Len(out') : out'[i] = out[i + 1]
      BY <1>a, <1>3, <2>1, Taking DEF ReadPrompt
    <2>3. queue' = queue /\ sent' = sent
      BY <1>3 DEF ReadPrompt
    <2>4. ASSUME NEW i \in 1..Len(out')
          PROVE  /\ out'[i] <= sent'
                 /\ out'[i] # 0 => sent' - out'[i] <= Len(out') + Len(queue') - i
      <3>1. i + 1 \in 1..Len(out) /\ out'[i] = out[i + 1]
        BY <1>b, <2>2
      <3>2. QED
        BY <1>a, <1>b, <1>c, <1>f, <2>2, <2>3, <3>1
    <2>5. QED
      BY <1>g, <2>3, <2>4
  <1>4. CASE GdbAnswers
    <2>1. /\ Head(queue) = queue[1] /\ Len(queue) > 0 /\ Len(queue') = Len(queue) - 1
          /\ \A j \in 1..Len(queue') : queue'[j] = queue[j + 1]
      BY <1>a, <1>4, Taking DEF GdbAnswers
    <2>2. 1 \in 1..Len(queue)
      BY <1>b, <2>1
    <2>3. Head(queue).id \in Nat /\ queue[1].id \in Nat
      BY <1>e, <2>1, <2>2
    <2>4. /\ Len(out') = Len(out) + 1 /\ \A i \in 1..Len(out) : out'[i] = out[i]
          /\ out'[Len(out) + 1] = queue[1].id
      BY <1>a, <1>b, <1>4, <2>1, <2>3, Appending DEF GdbAnswers
    <2>5. sent' = sent
      BY <1>4 DEF GdbAnswers
    <2>6. ASSUME NEW i \in 1..Len(out')
          PROVE  /\ out'[i] <= sent'
                 /\ out'[i] # 0 => sent' - out'[i] <= Len(out') + Len(queue') - i
      <3>1. CASE i \in 1..Len(out)
        BY <1>a, <1>b, <1>c, <1>f, <2>1, <2>4, <2>5, <3>1
      <3>2. CASE i = Len(out) + 1
        <4>1. queue[1].id <= sent /\ sent - queue[1].id <= Len(queue) - 1
          BY <1>g, <2>2
        <4>2. out'[i] = queue[1].id
          BY <2>4, <3>2
        <4>3. QED
          BY <1>a, <1>b, <2>1, <2>3, <2>4, <2>5, <3>2, <4>1, <4>2
      <3>3. QED
        BY <1>b, <2>4, <3>1, <3>2
    <2>7. ASSUME NEW j \in 1..Len(queue')
          PROVE  queue'[j].id <= sent' /\ sent' - queue'[j].id <= Len(queue') - j
      <3>1. j + 1 \in 1..Len(queue) /\ queue'[j] = queue[j + 1]
        BY <1>b, <2>1
      <3>2. /\ queue[j + 1].id \in Nat /\ queue[j + 1].id <= sent
            /\ sent - queue[j + 1].id <= Len(queue) - (j + 1)
        BY <1>e, <1>g, <3>1
      <3>3. QED
        BY <1>a, <1>b, <2>1, <2>5, <3>1, <3>2
    <2>8. QED
      BY <2>6, <2>7
  <1>5. CASE TargetStops
    <2>1. /\ Len(out') = Len(out) + 1 /\ \A i \in 1..Len(out) : out'[i] = out[i]
          /\ out'[Len(out) + 1] = 0
      BY <1>a, <1>5, Appending DEF TargetStops
    <2>2. queue' = queue /\ sent' = sent
      BY <1>5 DEF TargetStops
    <2>3. ASSUME NEW i \in 1..Len(out')
          PROVE  /\ out'[i] <= sent'
                 /\ out'[i] # 0 => sent' - out'[i] <= Len(out') + Len(queue') - i
      <3>1. CASE i \in 1..Len(out)
        BY <1>a, <1>b, <1>c, <1>f, <2>1, <2>2, <3>1
      <3>2. CASE i = Len(out) + 1
        BY <1>a, <1>b, <2>1, <2>2, <3>2
      <3>3. QED
        BY <1>b, <2>1, <3>1, <3>2
    <2>4. QED
      BY <1>g, <2>2, <2>3
  <1>6. QED
    BY <1>1, <1>2, <1>3, <1>4, <1>5
    DEF Next, ToolStep, Call, Refuse, SetFlag, ReadRecord, Expire, WriteFails, ReadEof, GdbDies, vars

LEMMA StaleStep == IInv /\ [Next]_vars => StalenessBounded'
  <1> SUFFICES ASSUME IInv, [Next]_vars PROVE StalenessBounded'
    OBVIOUS
  <1>0. /\ out \in Seq(Nat) /\ Len(out) \in Nat /\ Len(queue) \in Nat
        /\ cur \in Nat /\ got \in Nat /\ sent \in Nat /\ stops \in Nat /\ expired \in Nat
    BY LenProperties DEF IInv, TypeOK
  <1>old. got # 0 => got <= sent /\ sent - got <= stops + expired
    BY DEF IInv, StalenessBounded
  <1>1. CASE UNCHANGED <<got, sent, stops, expired>>
    BY <1>1, <1>old DEF StalenessBounded
  <1>4. CASE Expire
    <2>1. got' = got /\ sent' = sent /\ stops' = stops /\ expired' = expired + 1
      BY <1>4 DEF Expire
    <2>2. QED
      BY <1>0, <1>old, <2>1 DEF StalenessBounded
  <1>5. CASE TargetStops
    <2>1. got' = got /\ sent' = sent /\ stops' = stops + 1 /\ expired' = expired
      BY <1>5 DEF TargetStops
    <2>2. QED
      BY <1>0, <1>old, <2>1 DEF StalenessBounded
  <1>2. CASE Send
    BY <1>2 DEF Send, StalenessBounded
  <1>3. CASE ReadRecord
    <2>1. Head(out) = out[1] /\ Len(out) > 0 /\ out[1] \in Nat
      BY <1>0, <1>3, Taking DEF ReadRecord
    <2>2. out[1] <= sent /\ (out[1] # 0 => sent - out[1] <= Pending - 1)
      BY <1>0, <2>1 DEF IInv, InOrder
    <2>a. eofs = 0
      BY <1>3 DEF ReadRecord, IInv, EofOnce
    <2>3. Pending = stops + expired + 1
      BY <1>0, <1>3, <2>a DEF ReadRecord, IInv, LagAccounted, Pending
    <2>4. got' \in {got, out[1]} /\ sent' = sent /\ stops' = stops /\ expired' = expired
      BY <1>3, <2>1 DEF ReadRecord
    <2>5. out[1] # 0 => out[1] <= sent /\ sent - out[1] <= stops + expired
      BY <1>0, <2>1, <2>2, <2>3
    <2>6. QED
      BY <1>old, <2>4, <2>5 DEF StalenessBounded
  <1>6. QED
    BY <1>1, <1>2, <1>3, <1>4, <1>5
    DEF Next, ToolStep, Call, Refuse, SetFlag, ReadPrompt, GdbAnswers, WriteFails, ReadEof, GdbDies, vars

LEMMA EofStep == IInv /\ [Next]_vars => EofOnce'
  <1> SUFFICES ASSUME IInv, [Next]_vars PROVE EofOnce'
    OBVIOUS
  <1>0. eofs \in Nat /\ EofOnce
    BY DEF IInv, TypeOK
  <1>1. CASE UNCHANGED <<eofs, gdb, cur, out>>
    BY <1>0, <1>1 DEF EofOnce
  <1>2. CASE Send \/ GdbAnswers \/ TargetStops \/ ReadPrompt \/ Expire \/ GdbDies
    <2>1. eofs = 0 /\ eofs' = eofs
      BY <1>0, <1>2 DEF EofOnce, Send, GdbAnswers, TargetStops, ReadPrompt, Expire, GdbDies
    <2>2. QED
      BY <2>1 DEF EofOnce
  <1>3. CASE ReadEof
    <2>1. eofs = 0
      BY <1>0, <1>3 DEF EofOnce, ReadEof
    <2>2. QED
      BY <1>3, <2>1 DEF EofOnce, ReadEof
  <1>4. QED
    BY <1>1, <1>2, <1>3
    DEF Next, ToolStep, Call, Refuse, SetFlag, ReadRecord, WriteFails, vars

LEMMA Invariance == Spec => []IInv
  <1>1. IInv /\ [Next]_vars => IInv'
    BY TypeStep, LagStep, OrderStep, EofStep, StaleStep DEF IInv
  <1>2. QED
    BY InitInv, <1>1, PTL DEF Spec

-----------------------------------------------------------------------------
\* The channel's variables are well typed, and no half-read block is ever missing.
THEOREM TypeCorrect == Spec => []TypeOK
  <1>1. IInv => TypeOK
    BY DEF IInv
  <1>2. QED
    BY Invariance, <1>1, PTL

\* exec() reads one prompt per command, so what is unread is exactly what the stops
\* and the timeouts added.
THEOREM LagIsExact == Spec => []LagAccounted
  <1>1. IInv => LagAccounted
    BY DEF IInv
  <1>2. QED
    BY Invariance, <1>1, PTL

\* The record exec() returns is at most stops + timeouts commands old: a session in
\* which the target has not run and nothing timed out always gets its own answers.
THEOREM StalenessIsBounded == Spec => []StalenessBounded
  <1>1. IInv => StalenessBounded
    BY DEF IInv
  <1>2. QED
    BY Invariance, <1>1, PTL

\* At most one exec() of a session takes the death of GDB for an answer.
THEOREM DeathIsNoticed == Spec => []EofOnce
  <1>1. IInv => EofOnce
    BY DEF IInv
  <1>2. QED
    BY Invariance, <1>1, PTL

-----------------------------------------------------------------------------
(* The sessions and their processes: DebugSlot.                            *)

\* Which processes a call can own, from where it is.
OwnedByPc ==
  \A c \in Calls :
    /\ pc[c] = "idle" => ~Live(c) /\ gdbs[c] # "up"
    /\ pc[c] \in {"waiting", "answered"} => gdbs[c] # "up"
    /\ pc[c] \in {"handshake", "ready"} => gdbs[c] = "up"

\* What the call that holds the lock has in hand: the stored session, if it is a
\* debug_start; a session already taken out, if it is a debug_stop.
DropInHand ==
  \A c \in Calls :
    /\ slot = c => pc[c] = "done"
    /\ pc[c] \in Dropping => victim[c] \in Calls /\ pc[victim[c]] = "done"
    /\ pc[c] = "dropOcd" => gdbs[victim[c]] # "up"
    /\ pc[c] \in Dropping /\ slot # victim[c] => ~Live(c) /\ gdbs[c] # "up"

LeakInv == SlotTypeOK /\ OwnedByPc /\ DropInHand /\ NoProcessLeaks

\* Until a debug_start crosses another session, there is one session at a time.
OneAtATime ==
  ~crossed =>
    \A c \in Calls :
      /\ pc[c] \in Opening =>
           slot = None /\ \A d \in Calls : pc[d] \in Opening \cup Dropping => d = c
      /\ pc[c] \in Dropping => slot = None
      /\ pc[c] \in Opening \/ slot = c => \A d \in Calls : Live(d) => d = c
      /\ pc[c] = "ready" \/ slot = c =>
           remote[c] = c /\ ocd[c] = "serving" /\ gdbs[c] = "up"

SlotIInv == LeakInv /\ OneAtATime

-----------------------------------------------------------------------------
LEMMA SlotInitInv == SlotInit => SlotIInv
  BY DebugAssumption
  DEF SlotInit, SlotIInv, LeakInv, SlotTypeOK, OwnedByPc, DropInHand, NoProcessLeaks, OneAtATime,
      Live, Accountable, Opening, Dropping, Holding, Finished

LEMMA SlotTypeStep == SlotTypeOK /\ [SlotNext]_slotVars => SlotTypeOK'
  <1> SUFFICES ASSUME SlotTypeOK, [SlotNext]_slotVars PROVE SlotTypeOK'
    OBVIOUS
  <1> USE DebugAssumption DEF SlotTypeOK, Opening, Dropping, Holding, Finished
  <1>1. ASSUME NEW c \in Calls, SpawnOpenocd(c) PROVE SlotTypeOK'
    BY <1>1 DEF SpawnOpenocd, Goto
  <1>2. ASSUME NEW c \in Calls, ServerAnswers(c) PROVE SlotTypeOK'
    BY <1>2 DEF ServerAnswers, Goto, procs
  <1>3. ASSUME NEW c \in Calls, ServerNeverUp(c) PROVE SlotTypeOK'
    BY <1>3 DEF ServerNeverUp, Goto
  <1>4. ASSUME NEW c \in Calls, SpawnGdb(c) PROVE SlotTypeOK'
    BY <1>4 DEF SpawnGdb, Goto
  <1>5. ASSUME NEW c \in Calls, SpawnGdbFails(c) PROVE SlotTypeOK'
    BY <1>5 DEF SpawnGdbFails, Goto
  <1>6. ASSUME NEW c \in Calls, Handshake(c) PROVE SlotTypeOK'
    BY <1>6 DEF Handshake, Goto, Serving
  <1>7. ASSUME NEW c \in Calls, HandshakeFails(c) PROVE SlotTypeOK'
    BY <1>7 DEF HandshakeFails, Goto
  <1>8. ASSUME NEW c \in Calls, Store(c) PROVE SlotTypeOK'
    BY <1>8 DEF Store, Goto, procs
  <1>9. ASSUME NEW c \in Calls, Replace(c) PROVE SlotTypeOK'
    BY <1>9 DEF Replace, Goto, procs
  <1>10. ASSUME NEW c \in Calls, Take(c) PROVE SlotTypeOK'
    BY <1>10 DEF Take, Goto, procs
  <1>11. ASSUME NEW c \in Calls, NoSession(c) PROVE SlotTypeOK'
    BY <1>11 DEF NoSession, Goto, procs
  <1>11a. ASSUME NEW c \in Calls, OpenFails(c) PROVE SlotTypeOK'
    BY <1>11a DEF OpenFails, Goto, procs
  <1>11b. ASSUME NEW c \in Calls, UseSession(c) PROVE SlotTypeOK'
    BY <1>11b DEF UseSession, Goto, procs
  <1>11c. ASSUME NEW c \in Calls, ToolReturns(c) PROVE SlotTypeOK'
    BY <1>11c DEF ToolReturns, Goto, procs
  <1>12. ASSUME NEW c \in Calls, DropGdb(c) PROVE SlotTypeOK'
    BY <1>12 DEF DropGdb, Goto
  <1>13. ASSUME NEW c \in Calls, DropOcd(c) PROVE SlotTypeOK'
    BY <1>13 DEF DropOcd, Goto
  <1>14. ASSUME NEW c \in Calls, OcdListens(c) PROVE SlotTypeOK'
    BY <1>14 DEF OcdListens, Goto
  <1>15. ASSUME NEW c \in Calls, OcdGivesUp(c) PROVE SlotTypeOK'
    BY <1>15 DEF OcdGivesUp, Goto
  <1>16. CASE Restart
    BY <1>16 DEF Restart
  <1>17. CASE UNCHANGED slotVars
    BY <1>17 DEF slotVars, procs
  <1>18. QED
    BY <1>1, <1>2, <1>3, <1>4, <1>5, <1>6, <1>7, <1>8, <1>9, <1>10, <1>11, <1>11a, <1>11b,
         <1>11c, <1>12, <1>13, <1>14, <1>15, <1>16, <1>17
    DEF SlotNext, OwnStep, AskGdb

LEMMA OwnedStep == LeakInv /\ [SlotNext]_slotVars => OwnedByPc'
  <1> SUFFICES ASSUME LeakInv, [SlotNext]_slotVars PROVE OwnedByPc'
    OBVIOUS
  <1> USE DebugAssumption DEF LeakInv, SlotTypeOK, OwnedByPc, DropInHand, Opening, Dropping,
                              Holding, Finished, Live
  <1>1. ASSUME NEW c \in Calls, SpawnOpenocd(c) PROVE OwnedByPc'
    BY <1>1 DEF SpawnOpenocd, Goto
  <1>2. ASSUME NEW c \in Calls, ServerAnswers(c) PROVE OwnedByPc'
    BY <1>2 DEF ServerAnswers, Goto, procs
  <1>3. ASSUME NEW c \in Calls, ServerNeverUp(c) PROVE OwnedByPc'
    BY <1>3 DEF ServerNeverUp, Goto
  <1>4. ASSUME NEW c \in Calls, SpawnGdb(c) PROVE OwnedByPc'
    BY <1>4 DEF SpawnGdb, Goto
  <1>5. ASSUME NEW c \in Calls, SpawnGdbFails(c) PROVE OwnedByPc'
    BY <1>5 DEF SpawnGdbFails, Goto
  <1>6. ASSUME NEW c \in Calls, Handshake(c) PROVE OwnedByPc'
    BY <1>6 DEF Handshake, Goto
  <1>7. ASSUME NEW c \in Calls, HandshakeFails(c) PROVE OwnedByPc'
    BY <1>7 DEF HandshakeFails, Goto
  <1>8. ASSUME NEW c \in Calls, Store(c) PROVE OwnedByPc'
    BY <1>8 DEF Store, Goto, procs
  <1>9. ASSUME NEW c \in Calls, Replace(c) PROVE OwnedByPc'
    BY <1>9 DEF Replace, Goto, procs
  <1>10. ASSUME NEW c \in Calls, Take(c) PROVE OwnedByPc'
    BY <1>10 DEF Take, Goto, procs
  <1>11. ASSUME NEW c \in Calls, NoSession(c) PROVE OwnedByPc'
    BY <1>11 DEF NoSession, Goto, procs
  <1>11a. ASSUME NEW c \in Calls, OpenFails(c) PROVE OwnedByPc'
    BY <1>11a DEF OpenFails, Goto, procs
  <1>11b. ASSUME NEW c \in Calls, UseSession(c) PROVE OwnedByPc'
    BY <1>11b DEF UseSession, Goto, procs
  <1>11c. ASSUME NEW c \in Calls, ToolReturns(c) PROVE OwnedByPc'
    BY <1>11c DEF ToolReturns, Goto, procs
  <1>12. ASSUME NEW c \in Calls, DropGdb(c) PROVE OwnedByPc'
    BY <1>12 DEF DropGdb, Goto
  <1>13. ASSUME NEW c \in Calls, DropOcd(c) PROVE OwnedByPc'
    BY <1>13 DEF DropOcd, Goto
  <1>14. ASSUME NEW c \in Calls, OcdListens(c) PROVE OwnedByPc'
    BY <1>14 DEF OcdListens, Goto
  <1>15. ASSUME NEW c \in Calls, OcdGivesUp(c) PROVE OwnedByPc'
    BY <1>15 DEF OcdGivesUp, Goto
  <1>16. CASE Restart
    BY <1>16 DEF Restart
  <1>17. CASE UNCHANGED slotVars
    BY <1>17 DEF slotVars, procs
  <1>18. QED
    BY <1>1, <1>2, <1>3, <1>4, <1>5, <1>6, <1>7, <1>8, <1>9, <1>10, <1>11, <1>11a, <1>11b,
         <1>11c, <1>12, <1>13, <1>14, <1>15, <1>16, <1>17
    DEF SlotNext, OwnStep, AskGdb

LEMMA InHandStep == LeakInv /\ [SlotNext]_slotVars => DropInHand'
  <1> SUFFICES ASSUME LeakInv, [SlotNext]_slotVars PROVE DropInHand'
    OBVIOUS
  <1> USE DebugAssumption DEF LeakInv, SlotTypeOK, OwnedByPc, DropInHand, Opening, Dropping,
                              Holding, Finished, Live
  <1>1. ASSUME NEW c \in Calls, SpawnOpenocd(c) PROVE DropInHand'
    BY <1>1 DEF SpawnOpenocd, Goto
  <1>2. ASSUME NEW c \in Calls, ServerAnswers(c) PROVE DropInHand'
    BY <1>2 DEF ServerAnswers, Goto, procs
  <1>3. ASSUME NEW c \in Calls, ServerNeverUp(c) PROVE DropInHand'
    BY <1>3 DEF ServerNeverUp, Goto
  <1>4. ASSUME NEW c \in Calls, SpawnGdb(c) PROVE DropInHand'
    BY <1>4 DEF SpawnGdb, Goto
  <1>5. ASSUME NEW c \in Calls, SpawnGdbFails(c) PROVE DropInHand'
    BY <1>5 DEF SpawnGdbFails, Goto
  <1>6. ASSUME NEW c \in Calls, Handshake(c) PROVE DropInHand'
    BY <1>6 DEF Handshake, Goto
  <1>7. ASSUME NEW c \in Calls, HandshakeFails(c) PROVE DropInHand'
    BY <1>7 DEF HandshakeFails, Goto
  <1>8. ASSUME NEW c \in Calls, Store(c) PROVE DropInHand'
    BY <1>8 DEF Store, Goto, procs
  <1>9. ASSUME NEW c \in Calls, Replace(c) PROVE DropInHand'
    BY <1>9 DEF Replace, Goto, procs
  <1>10. ASSUME NEW c \in Calls, Take(c) PROVE DropInHand'
    BY <1>10 DEF Take, Goto, procs
  <1>11. ASSUME NEW c \in Calls, NoSession(c) PROVE DropInHand'
    BY <1>11 DEF NoSession, Goto, procs
  <1>11a. ASSUME NEW c \in Calls, OpenFails(c) PROVE DropInHand'
    BY <1>11a DEF OpenFails, Goto, procs
  <1>11b. ASSUME NEW c \in Calls, UseSession(c) PROVE DropInHand'
    BY <1>11b DEF UseSession, Goto, procs
  <1>11c. ASSUME NEW c \in Calls, ToolReturns(c) PROVE DropInHand'
    BY <1>11c DEF ToolReturns, Goto, procs
  <1>12. ASSUME NEW c \in Calls, DropGdb(c) PROVE DropInHand'
    BY <1>12 DEF DropGdb, Goto
  <1>13. ASSUME NEW c \in Calls, DropOcd(c) PROVE DropInHand'
    BY <1>13 DEF DropOcd, Goto
  <1>14. ASSUME NEW c \in Calls, OcdListens(c) PROVE DropInHand'
    BY <1>14 DEF OcdListens, Goto
  <1>15. ASSUME NEW c \in Calls, OcdGivesUp(c) PROVE DropInHand'
    BY <1>15 DEF OcdGivesUp, Goto
  <1>16. CASE Restart
    BY <1>16 DEF Restart
  <1>17. CASE UNCHANGED slotVars
    BY <1>17 DEF slotVars, procs
  <1>18. QED
    BY <1>1, <1>2, <1>3, <1>4, <1>5, <1>6, <1>7, <1>8, <1>9, <1>10, <1>11, <1>11a, <1>11b,
         <1>11c, <1>12, <1>13, <1>14, <1>15, <1>16, <1>17
    DEF SlotNext, OwnStep, AskGdb

LEMMA LeakStep == LeakInv /\ [SlotNext]_slotVars => NoProcessLeaks'
  <1> SUFFICES ASSUME LeakInv, [SlotNext]_slotVars PROVE NoProcessLeaks'
    OBVIOUS
  <1> USE DebugAssumption DEF LeakInv, SlotTypeOK, OwnedByPc, DropInHand, NoProcessLeaks,
                              Accountable, Opening, Dropping, Holding, Finished, Live
  <1>1. ASSUME NEW c \in Calls, SpawnOpenocd(c) PROVE NoProcessLeaks'
    BY <1>1 DEF SpawnOpenocd, Goto
  <1>2. ASSUME NEW c \in Calls, ServerAnswers(c) PROVE NoProcessLeaks'
    BY <1>2 DEF ServerAnswers, Goto, procs
  <1>3. ASSUME NEW c \in Calls, ServerNeverUp(c) PROVE NoProcessLeaks'
    BY <1>3 DEF ServerNeverUp, Goto
  <1>4. ASSUME NEW c \in Calls, SpawnGdb(c) PROVE NoProcessLeaks'
    BY <1>4 DEF SpawnGdb, Goto
  <1>5. ASSUME NEW c \in Calls, SpawnGdbFails(c) PROVE NoProcessLeaks'
    BY <1>5 DEF SpawnGdbFails, Goto
  <1>6. ASSUME NEW c \in Calls, Handshake(c) PROVE NoProcessLeaks'
    BY <1>6 DEF Handshake, Goto
  <1>7. ASSUME NEW c \in Calls, HandshakeFails(c) PROVE NoProcessLeaks'
    BY <1>7 DEF HandshakeFails, Goto
  <1>8. ASSUME NEW c \in Calls, Store(c) PROVE NoProcessLeaks'
    BY <1>8 DEF Store, Goto, procs
  <1>9. ASSUME NEW c \in Calls, Replace(c) PROVE NoProcessLeaks'
    BY <1>9 DEF Replace, Goto, procs
  <1>10. ASSUME NEW c \in Calls, Take(c) PROVE NoProcessLeaks'
    BY <1>10 DEF Take, Goto, procs
  <1>11. ASSUME NEW c \in Calls, NoSession(c) PROVE NoProcessLeaks'
    BY <1>11 DEF NoSession, Goto, procs
  <1>11a. ASSUME NEW c \in Calls, OpenFails(c) PROVE NoProcessLeaks'
    BY <1>11a DEF OpenFails, Goto, procs
  <1>11b. ASSUME NEW c \in Calls, UseSession(c) PROVE NoProcessLeaks'
    BY <1>11b DEF UseSession, Goto, procs
  <1>11c. ASSUME NEW c \in Calls, ToolReturns(c) PROVE NoProcessLeaks'
    BY <1>11c DEF ToolReturns, Goto, procs
  <1>12. ASSUME NEW c \in Calls, DropGdb(c) PROVE NoProcessLeaks'
    BY <1>12 DEF DropGdb, Goto
  <1>13. ASSUME NEW c \in Calls, DropOcd(c) PROVE NoProcessLeaks'
    BY <1>13 DEF DropOcd, Goto
  <1>14. ASSUME NEW c \in Calls, OcdListens(c) PROVE NoProcessLeaks'
    BY <1>14 DEF OcdListens, Goto
  <1>15. ASSUME NEW c \in Calls, OcdGivesUp(c) PROVE NoProcessLeaks'
    BY <1>15 DEF OcdGivesUp, Goto
  <1>16. CASE Restart
    BY <1>16 DEF Restart
  <1>17. CASE UNCHANGED slotVars
    BY <1>17 DEF slotVars, procs
  <1>18. QED
    BY <1>1, <1>2, <1>3, <1>4, <1>5, <1>6, <1>7, <1>8, <1>9, <1>10, <1>11, <1>11a, <1>11b,
         <1>11c, <1>12, <1>13, <1>14, <1>15, <1>16, <1>17
    DEF SlotNext, OwnStep, AskGdb

LEMMA OneStep == SlotIInv /\ [SlotNext]_slotVars => OneAtATime'
  <1> SUFFICES ASSUME SlotIInv, [SlotNext]_slotVars PROVE OneAtATime'
    OBVIOUS
  <1> USE DebugAssumption DEF SlotIInv, LeakInv, SlotTypeOK, OwnedByPc, DropInHand,
                              NoProcessLeaks, OneAtATime, Accountable, Opening, Dropping,
                              Holding, Finished, Live, Serving
  <1>1. ASSUME NEW c \in Calls, SpawnOpenocd(c) PROVE OneAtATime'
    <2> SUFFICES ASSUME ~crossed' PROVE OneAtATime'
      OBVIOUS
    <2>1. slot = None /\ orphans = {} /\ \A d \in Calls : pc[d] \notin Opening \cup Dropping
      BY <1>1 DEF SpawnOpenocd
    <2>2. \A d \in Calls : ~Live(d)
      BY <2>1
    <2>3. \A d \in Calls : d # c => pc'[d] = pc[d] /\ ocd'[d] = ocd[d]
      BY <1>1 DEF SpawnOpenocd, Goto
    <2>4. pc'[c] = "waiting" /\ slot' = None
      BY <1>1, <2>1 DEF SpawnOpenocd, Goto
    <2>5. QED
      BY <2>1, <2>2, <2>3, <2>4
  <1>2. ASSUME NEW c \in Calls, ServerAnswers(c) PROVE OneAtATime'
    BY <1>2 DEF ServerAnswers, Goto, procs
  <1>3. ASSUME NEW c \in Calls, ServerNeverUp(c) PROVE OneAtATime'
    BY <1>3 DEF ServerNeverUp, Goto
  <1>4. ASSUME NEW c \in Calls, SpawnGdb(c) PROVE OneAtATime'
    BY <1>4 DEF SpawnGdb, Goto
  <1>5. ASSUME NEW c \in Calls, SpawnGdbFails(c) PROVE OneAtATime'
    BY <1>5 DEF SpawnGdbFails, Goto
  <1>6. ASSUME NEW c \in Calls, Handshake(c) PROVE OneAtATime'
    BY <1>6 DEF Handshake, Goto
  <1>7. ASSUME NEW c \in Calls, HandshakeFails(c) PROVE OneAtATime'
    BY <1>7 DEF HandshakeFails, Goto
  <1>8. ASSUME NEW c \in Calls, Store(c) PROVE OneAtATime'
    BY <1>8 DEF Store, Goto, procs
  <1>9. ASSUME NEW c \in Calls, Replace(c) PROVE OneAtATime'
    BY <1>9 DEF Replace, Goto, procs
  <1>10. ASSUME NEW c \in Calls, Take(c) PROVE OneAtATime'
    BY <1>10 DEF Take, Goto, procs
  <1>11. ASSUME NEW c \in Calls, NoSession(c) PROVE OneAtATime'
    BY <1>11 DEF NoSession, Goto, procs
  <1>11a. ASSUME NEW c \in Calls, OpenFails(c) PROVE OneAtATime'
    BY <1>11a DEF OpenFails, Goto, procs
  <1>11b. ASSUME NEW c \in Calls, UseSession(c) PROVE OneAtATime'
    BY <1>11b DEF UseSession, Goto, procs
  <1>11c. ASSUME NEW c \in Calls, ToolReturns(c) PROVE OneAtATime'
    BY <1>11c DEF ToolReturns, Goto, procs
  <1>12. ASSUME NEW c \in Calls, DropGdb(c) PROVE OneAtATime'
    BY <1>12 DEF DropGdb, Goto
  <1>13. ASSUME NEW c \in Calls, DropOcd(c) PROVE OneAtATime'
    BY <1>13 DEF DropOcd, Goto
  <1>14. ASSUME NEW c \in Calls, OcdListens(c) PROVE OneAtATime'
    BY <1>14 DEF OcdListens, Goto
  <1>15. ASSUME NEW c \in Calls, OcdGivesUp(c) PROVE OneAtATime'
    BY <1>15 DEF OcdGivesUp, Goto
  <1>16. CASE Restart
    BY <1>16 DEF Restart
  <1>17. CASE UNCHANGED slotVars
    BY <1>17 DEF slotVars, procs
  <1>18. QED
    BY <1>1, <1>2, <1>3, <1>4, <1>5, <1>6, <1>7, <1>8, <1>9, <1>10, <1>11, <1>11a, <1>11b,
         <1>11c, <1>12, <1>13, <1>14, <1>15, <1>16, <1>17
    DEF SlotNext, OwnStep, AskGdb

LEMMA SlotInvariance == SlotSpec => []SlotIInv
  <1>1. SlotIInv /\ [SlotNext]_slotVars => SlotIInv'
    BY SlotTypeStep, OwnedStep, InHandStep, LeakStep, OneStep DEF SlotIInv, LeakInv
  <1>2. QED
    BY SlotInitInv, <1>1, PTL DEF SlotSpec

-----------------------------------------------------------------------------
\* The slot, the mutex and the processes are well typed, and the mutex is held by
\* exactly the call that drops a session.
THEOREM SlotTypeCorrect == SlotSpec => []SlotTypeOK
  <1>1. SlotIInv => SlotTypeOK
    BY DEF SlotIInv, LeakInv
  <1>2. QED
    BY SlotInvariance, <1>1, PTL

\* Whatever debug_start and debug_stop calls run at once and wherever they fail,
\* every GDB and OpenOCD has a call or the slot that will end it.
THEOREM NothingLeaks == SlotSpec => []NoProcessLeaks
  <1>1. SlotIInv => NoProcessLeaks
    BY DEF SlotIInv, LeakInv
  <1>2. QED
    BY SlotInvariance, <1>1, PTL

\* A client that stops one session before it starts the next is always connected
\* to the OpenOCD of its own session.
THEOREM OwnServer == SlotSpec => []OwnServerUnlessCrossed
  <1>1. SlotIInv => OwnServerUnlessCrossed
    BY DEF SlotIInv, OneAtATime, OwnServerUnlessCrossed
  <1>2. QED
    BY SlotInvariance, <1>1, PTL
=============================================================================
