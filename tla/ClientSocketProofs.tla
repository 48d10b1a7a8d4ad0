------------------------- MODULE ClientSocketProofs -------------------------
(***************************************************************************)
(* Theorems about ClientSocket, for any commands and any daemon.  As long  *)
(* as the UI thread has not called endClient the send thread owns the      *)
(* fields: Owned says what they hold at each of its steps.                 *)
(***************************************************************************)
EXTENDS ClientSocket, TLAPS

\* The threads are at points of their code.
PcOK == pc \in [send : SendPc, ui : UiPc]

\* What the fields hold while only the send thread uses them.
Owned ==
    /\ ~interrupted /\ mCallBack
    /\ pc.send \notin {"ended", "NullPointerException"}
    /\ open \subseteq stuck \cup {mClientSocket}
    /\ 0 \notin open /\ opened \in Nat
    /\ mDataInput \in {0, mClientSocket} /\ mDataOutput \in {0, mClientSocket}
    /\ pc.send \in {"take", "openClient"} =>
          mClientSocket = 0 /\ mDataInput = 0 /\ mDataOutput = 0
    /\ pc.send \in {"output", "input"} => mClientSocket # 0
    /\ pc.send \in {"write", "read"} => mDataInput # 0 /\ mDataOutput # 0
    /\ pc.send = "input!" => mDataInput # 0
    /\ pc.send = "output!" => mDataOutput # 0
    /\ pc.send = "socket!" => mClientSocket # 0
    /\ pc.send = "clear" => open \subseteq stuck

OwnedUntilEnd == PcOK /\ (pc.ui = "idle" => Owned)

\* An answer is assigned before the callback is looked at.
Assigned ==
    pc.send \in {"callback?", "callback!"} => mResponse = told + 1 \/ eof

\* No step takes a thread to a place that does not exist.
LEMMA PcStep ==
    ASSUME PcOK, [Next]_vars
    PROVE  PcOK'
<1> USE DEF PcOK, SendPc, UiPc, Closing, Goto, At
<1>1. CASE take
  BY <1>1 DEF take
<1>2. CASE openClient
  BY <1>2 DEF openClient
<1>3. CASE openOutput \/ openInput
  BY <1>3 DEF openOutput, openInput, openStream
<1>4. CASE testStreams \/ write
  BY <1>4 DEF testStreams, write, Respond
<1>5. CASE readOther \/ readEnd
  BY <1>5 DEF readOther, readEnd, Respond
<1>6. CASE callBack
  BY <1>6 DEF callBack
<1>7. CASE closeClient("send")
  BY <1>7 DEF closeClient, closeField, closeClear
<1>8. CASE closeClient("ui")
  BY <1>8 DEF closeClient, closeField, closeClear
<1>9. CASE endClient
  BY <1>9 DEF endClient
<1>10. CASE \E command \in Commands : sendCommand(command)
  BY <1>10 DEF sendCommand
<1>11. CASE Elapse
  BY <1>11 DEF Elapse
<1>12. CASE UNCHANGED vars
  BY <1>12 DEF vars
<1> QED
  BY <1>1, <1>2, <1>3, <1>4, <1>5, <1>6, <1>7, <1>8, <1>9, <1>10, <1>11, <1>12
     DEF Next, SendThread, EndThread

\* The flags; the numbers, with a bound on the lines that is inductive.
Flags == {mCallBack, late, interrupted, eof} \subseteq BOOLEAN

Numbers ==
    /\ queue \in Seq(Commands)
    /\ mCommand \in Commands \cup {"null"}
    /\ opened \in Nat /\ asked \in Nat /\ told \in Nat
    /\ mResponse \in 0..told + 1
    /\ mClientSocket \in 0..opened /\ mDataInput \in 0..opened
    /\ mDataOutput \in 0..opened
    /\ open \subseteq 1..opened /\ stuck \subseteq 1..opened
    /\ line \in 0..LineOut + 2
    /\ mCommand \in Commands \ Timed =>
          line <= LineOut + 1 /\ (pc.send = "read" => line <= LineOut)
    /\ pc.send \in {"openClient", "output", "input", "test", "write"} => line = 0

\* Every step keeps the Boolean fields, the queue and the command typed.
LEMMA FlagsStep ==
    ASSUME Flags, [Next]_vars
    PROVE  Flags'
<1>1. Flags <=> /\ mCallBack \in BOOLEAN /\ late \in BOOLEAN
                /\ interrupted \in BOOLEAN /\ eof \in BOOLEAN
  BY Zenon DEF Flags
<1>2. Flags' <=> /\ mCallBack' \in BOOLEAN /\ late' \in BOOLEAN
                 /\ interrupted' \in BOOLEAN /\ eof' \in BOOLEAN
  BY Zenon DEF Flags
<1>3. mCallBack' \in BOOLEAN /\ interrupted' \in BOOLEAN
  BY <1>1, Zenon DEF Next, vars, ui, SendThread, EndThread, take,
       openClient, openOutput, openInput, openStream, testStreams, write,
       readOther, readEnd, callBack, closeClient, closeField, closeClear,
       endClient, sendCommand, Elapse
<1>4. late' \in BOOLEAN /\ eof' \in BOOLEAN
  BY <1>1, Zenon DEF Next, vars, turn, SendThread, EndThread, take,
       openClient, openOutput, openInput, openStream, testStreams, write,
       readOther, readEnd, callBack, closeClient, closeField, closeClear,
       endClient, sendCommand, Elapse
<1> QED
  BY <1>2, <1>3, <1>4

\* Every step keeps connections, turns and the count of lines in their ranges.
LEMMA NumbersStep ==
    ASSUME PcOK, Numbers, [Next]_vars
    PROVE  Numbers'
<1> USE SocketAssumption DEF Numbers, PcOK, SendPc, UiPc, Closing, Goto, At,
        streams, ui, net, turn
<1>1. CASE take
  <2>1. /\ UNCHANGED <<mResponse, mClientSocket, mDataInput, mDataOutput, open,
                       opened, stuck, asked, told>>
        /\ line' = 0
    BY <1>1 DEF take
  <2>2. queue' \in Seq(Commands) /\ mCommand' \in Commands \cup {"null"}
    <3>1. CASE UNCHANGED <<queue, mCommand>>
      BY <3>1
    <3>2. CASE queue # <<>> /\ mCommand' = Head(queue) /\ queue' = Tail(queue)
      BY <3>2
    <3> QED
      BY <1>1, <3>1, <3>2 DEF take
  <2> QED
    BY <2>1, <2>2
<1>2. CASE openClient
  <2>1. /\ UNCHANGED <<queue, mCommand, asked, told, mResponse, mDataInput,
                       mDataOutput, stuck, line>>
        /\ pc.send # "read" /\ line = 0
    BY <1>2 DEF openClient
  <2>2. /\ opened' \in Nat /\ opened <= opened'
        /\ mClientSocket' \in 0..opened' /\ open' \subseteq 1..opened'
    <3>1. CASE UNCHANGED <<mClientSocket, open, opened>>
      BY <3>1
    <3>2. CASE /\ opened' = opened + 1 /\ mClientSocket' = opened + 1
               /\ open' = open \cup {opened + 1}
      BY <3>2
    <3> QED
      BY <1>2, <3>1, <3>2 DEF openClient
  <2> QED
    BY <2>1, <2>2
<1>3. CASE openOutput
  BY <1>3 DEF openOutput, openStream
<1>4. CASE openInput
  BY <1>4 DEF openInput, openStream
<1>5. CASE testStreams
  BY <1>5 DEF testStreams, Respond
<1>6. CASE write
  BY <1>6 DEF write, Respond
<1>7. CASE readOther
  BY <1>7 DEF readOther, Respond, NextLine, TimedOut
<1>8. CASE readEnd
  BY <1>8 DEF readEnd, Respond
<1>9. CASE callBack
  BY <1>9 DEF callBack
<1>10. ASSUME NEW t \in {"send", "ui"}, closeClient(t) PROVE Numbers'
  <2> DEFINE Closes ==
         /\ open' \subseteq open
         /\ stuck' \subseteq stuck \cup (1..opened)
         /\ pc'.send \in {pc.send, "NullPointerException"} \cup Closing
         /\ UNCHANGED <<streams, opened, ui, turn>>
  <2>0. ASSUME Closes PROVE Numbers'
    <3>1. open' \subseteq 1..opened /\ stuck' \subseteq 1..opened
      BY <2>0
    <3>2. pc'.send \in {"read", "openClient", "output", "input", "test", "write"}
             => pc'.send = pc.send
      BY <2>0
    <3>3. UNCHANGED <<queue, mCommand, opened, asked, told, mResponse,
                      mClientSocket, mDataInput, mDataOutput, line>>
      BY <2>0
    <3> QED
      BY <3>1, <3>2, <3>3
  <2> HIDE DEF Numbers
  <2>1. CASE closeField(t, mDataInput, "input?", "input!", "output?")
    <3>1. mDataInput \in 0..opened
      BY DEF Numbers
    <3>2. open' \subseteq open /\ stuck' \subseteq stuck \cup (1..opened)
      BY <2>1, <3>1 DEF closeField
    <3>3. /\ pc'.send \in {pc.send, "NullPointerException"} \cup Closing
          /\ UNCHANGED <<streams, opened, ui, turn>>
      BY <1>10, <2>1 DEF closeField
    <3> QED
      BY <2>0, <3>2, <3>3
  <2>2. CASE closeField(t, mDataOutput, "output?", "output!", "socket?")
    <3>1. mDataOutput \in 0..opened
      BY DEF Numbers
    <3>2. open' \subseteq open /\ stuck' \subseteq stuck \cup (1..opened)
      BY <2>2, <3>1 DEF closeField
    <3>3. /\ pc'.send \in {pc.send, "NullPointerException"} \cup Closing
          /\ UNCHANGED <<streams, opened, ui, turn>>
      BY <1>10, <2>2 DEF closeField
    <3> QED
      BY <2>0, <3>2, <3>3
  <2>3. CASE closeField(t, mClientSocket, "socket?", "socket!", "clear")
    <3>1. mClientSocket \in 0..opened
      BY DEF Numbers
    <3>2. open' \subseteq open /\ stuck' \subseteq stuck \cup (1..opened)
      BY <2>3, <3>1 DEF closeField
    <3>3. /\ pc'.send \in {pc.send, "NullPointerException"} \cup Closing
          /\ UNCHANGED <<streams, opened, ui, turn>>
      BY <1>10, <2>3 DEF closeField
    <3> QED
      BY <2>0, <3>2, <3>3
  <2>4. CASE closeClear(t)
    <3> USE DEF Numbers
    <3>1. /\ UNCHANGED <<queue, open, opened, stuck, asked, mResponse, line>>
          /\ mClientSocket' = 0 /\ mDataInput' = 0 /\ mDataOutput' = 0
          /\ told' = told \/ told' = told + 1
      BY <1>10, <2>4 DEF closeClear
    <3>2. /\ mCommand' \in {mCommand, "null"}
          /\ pc'.send \in {pc.send, "take"}
      BY <1>10, <2>4 DEF closeClear
    <3>3. mCommand' \in Commands \ Timed => mCommand' = mCommand
      BY <3>2
    <3>4. mCommand' \in Commands \cup {"null"}
      BY <3>2
    <3> HIDE DEF PcOK, SendPc, UiPc, Closing
    <3>5. told' \in Nat /\ mResponse' \in 0..told' + 1
      BY <3>1
    <3>6. mCommand' \in Commands \ Timed =>
             line' <= LineOut + 1 /\ (pc'.send = "read" => line' <= LineOut)
      BY <3>1, <3>2, <3>3
    <3>7. pc'.send \in {"openClient", "output", "input", "test", "write"} =>
             line' = 0
      BY <3>1, <3>2
    <3>8. /\ mClientSocket' \in 0..opened' /\ mDataInput' \in 0..opened'
          /\ mDataOutput' \in 0..opened' /\ open' \subseteq 1..opened'
          /\ stuck' \subseteq 1..opened'
      BY <3>1
    <3> QED
      BY <3>1, <3>4, <3>5, <3>6, <3>7, <3>8
  <2> QED
    BY <1>10, <2>1, <2>2, <2>3, <2>4 DEF closeClient
<1>12. CASE endClient
  BY <1>12 DEF endClient
<1>13. CASE \E command \in Commands : sendCommand(command)
  BY <1>13 DEF sendCommand
<1>14. CASE Elapse
  BY <1>14 DEF Elapse
<1>15. CASE UNCHANGED vars
  BY <1>15 DEF vars
<1> QED
  BY <1>1, <1>2, <1>3, <1>4, <1>5, <1>6, <1>7, <1>8, <1>9, <1>10, <1>12, <1>13,
     <1>14, <1>15 DEF Next, SendThread, EndThread

\* No more than LineOut + 1 lines are read for a command that has no time
\* limit of its own, and no thread leaves the points of its code.
THEOREM TypeCorrect == Spec => []TypeOK
<1> DEFINE IInv == PcOK /\ Flags /\ Numbers
<1>1. Init => IInv
  <2> SUFFICES ASSUME Init PROVE IInv
    OBVIOUS
  <2>1. Flags
    BY Zenon DEF Init, Flags
  <2>2. PcOK
    BY DEF Init, PcOK, SendPc, UiPc, Closing
  <2>3. Numbers
    BY SocketAssumption DEF Init, Numbers
  <2> QED
    BY <2>1, <2>2, <2>3
<1>2. IInv /\ [Next]_vars => IInv'
  BY PcStep, FlagsStep, NumbersStep
<1>3. IInv => TypeOK
  BY DEF TypeOK, PcOK, Flags, Numbers
<1> QED
  BY <1>1, <1>2, <1>3, PTL DEF Spec

\* A step of the send thread before endClient keeps the fields its own.
LEMMA OwnedSend ==
    ASSUME PcOK, Owned, pc.ui = "idle", SendThread \/ Elapse
    PROVE  pc'.ui = "idle" /\ Owned'
<1> USE DEF PcOK, Owned, SendPc, UiPc, Closing, Goto, At, Running, ui, turn,
           streams, net
<1>1. CASE take
  BY <1>1 DEF take
<1>2. CASE openClient
  BY <1>2 DEF openClient
<1>3. CASE openOutput
  BY <1>3 DEF openOutput, openStream
<1>4. CASE openInput
  BY <1>4 DEF openInput, openStream
<1>5. CASE testStreams
  BY <1>5 DEF testStreams, Respond
<1>6. CASE write
  BY <1>6 DEF write, Respond
<1>7. CASE readOther
  BY <1>7 DEF readOther, Respond
<1>8. CASE readEnd
  BY <1>8 DEF readEnd, Respond
<1>9. CASE callBack
  BY <1>9 DEF callBack
<1>10. CASE closeField("send", mDataInput, "input?", "input!", "output?")
  BY <1>10 DEF closeField
<1>11. CASE closeField("send", mDataOutput, "output?", "output!", "socket?")
  BY <1>11 DEF closeField
<1>12. CASE closeField("send", mClientSocket, "socket?", "socket!", "clear")
  BY <1>12 DEF closeField
<1>13. CASE closeClear("send")
  BY <1>13 DEF closeClear
<1>14. CASE Elapse
  BY <1>14 DEF Elapse
<1> QED
  BY <1>1, <1>2, <1>3, <1>4, <1>5, <1>6, <1>7, <1>8, <1>9, <1>10, <1>11, <1>12,
     <1>13, <1>14 DEF SendThread, closeClient

\* No step of the UI thread ends with the client unused again.
LEMMA OwnedStep ==
    ASSUME OwnedUntilEnd, [Next]_vars
    PROVE  OwnedUntilEnd'
<1>1. PcOK'
  BY PcStep DEF OwnedUntilEnd
<1>2. ASSUME pc'.ui = "idle" PROVE Owned'
  <2>1. CASE SendThread \/ Elapse
    <3>1. pc.ui = "idle"
      BY <1>2, <2>1 DEF OwnedUntilEnd, PcOK, UiPc, Closing, SendThread, Elapse,
           take, openClient, openOutput, openInput, openStream, testStreams,
           write, readOther, readEnd, callBack, Respond, closeClient, closeField,
           closeClear, Goto, At
    <3> QED
      BY <3>1, <2>1, OwnedSend DEF OwnedUntilEnd
  <2>2. CASE endClient
    BY <1>2, <2>2 DEF endClient, OwnedUntilEnd, PcOK, Goto, At
  <2>3. CASE closeClient("ui")
    BY <1>2, <2>3 DEF closeClient, closeField, closeClear, OwnedUntilEnd, PcOK,
         Goto, At
  <2>4. CASE \E command \in Commands : sendCommand(command)
    BY <1>2, <2>4 DEF sendCommand, OwnedUntilEnd, Owned, streams, net, turn, At
  <2>5. CASE UNCHANGED vars
    BY <1>2, <2>5 DEF vars, streams, OwnedUntilEnd, Owned
  <2> QED
    BY <2>1, <2>2, <2>3, <2>4, <2>5 DEF Next, EndThread
<1> QED
  BY <1>1, <1>2 DEF OwnedUntilEnd

\* Until the activity calls endClient the send thread is there whenever
\* sendCommand looks, no null field is used, and no connection is left open
\* between two commands but one whose close has failed.
THEOREM SendThreadAlive == Spec => []AliveUntilEnd
<1>1. Init => OwnedUntilEnd
  BY DEF Init, OwnedUntilEnd, PcOK, Owned, SendPc, UiPc, Closing
<1>2. OwnedUntilEnd /\ [Next]_vars => OwnedUntilEnd'
  BY OwnedStep
<1>3. OwnedUntilEnd => AliveUntilEnd
  BY DEF OwnedUntilEnd, PcOK, Owned, AliveUntilEnd, Running
<1> QED
  BY <1>1, <1>2, <1>3, PTL DEF Spec

\* Whatever the two threads do, an answer that reaches the callback belongs to
\* the command of this turn, or the daemon has closed the connection.
THEOREM AnswersFresh == Spec => []FreshUnlessEof
<1> DEFINE IInv == PcOK /\ Assigned
<1>1. Init => IInv
  BY DEF Init, PcOK, Assigned, SendPc, UiPc, Closing
<1>2. IInv /\ [Next]_vars => IInv'
  <2> SUFFICES ASSUME PcOK, Assigned, [Next]_vars PROVE Assigned'
    BY PcStep
  <2> USE DEF PcOK, Assigned, SendPc, UiPc, Closing, Goto, At, turn
  <2>1. CASE take
    BY <2>1 DEF take
  <2>2. CASE openClient \/ openOutput \/ openInput
    BY <2>2 DEF openClient, openOutput, openInput, openStream
  <2>3. CASE testStreams \/ write \/ readOther
    BY <2>3 DEF testStreams, write, readOther, Respond
  <2>4. CASE readEnd
    BY <2>4 DEF readEnd, Respond
  <2>5. CASE callBack
    BY <2>5 DEF callBack
  <2>6. CASE closeClient("send")
    BY <2>6 DEF closeClient, closeField, closeClear
  <2>7. CASE closeClient("ui")
    BY <2>7 DEF closeClient, closeField, closeClear
  <2>8. CASE endClient
    BY <2>8 DEF endClient
  <2>9. CASE \E command \in Commands : sendCommand(command)
    BY <2>9 DEF sendCommand
  <2>10. CASE Elapse
    BY <2>10 DEF Elapse
  <2>11. CASE UNCHANGED vars
    BY <2>11 DEF vars
  <2> QED
    BY <2>1, <2>2, <2>3, <2>4, <2>5, <2>6, <2>7, <2>8, <2>9, <2>10, <2>11
       DEF Next, SendThread, EndThread
<1>3. IInv => FreshUnlessEof
  BY DEF Assigned, FreshUnlessEof
<1> QED
  BY <1>1, <1>2, <1>3, PTL DEF Spec
=============================================================================
