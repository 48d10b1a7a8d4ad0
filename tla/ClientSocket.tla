---------------------------- MODULE ClientSocket ----------------------------
(***************************************************************************)
(* The YGPS client of the native GPS daemon,                               *)
(* src/gps/YGPS/src/com/mediatek/ygps/ClientSocket.java: a send thread     *)
(* takes commands from a queue and opens one connection for each; the UI   *)
(* thread puts commands in the queue and, when the activity is destroyed,  *)
(* calls endClient.  The two share the socket, its two streams and the     *)
(* callback without a lock, so that every read of a field is a step.       *)
(*                                                                         *)
(* A connection is a number; 0 stands for null.  Closing a stream closes   *)
(* its connection.  What a line of the daemon says is the answer to the    *)
(* command (with or without its "*") or something else.  Formatting and    *)
(* the check sum of a command are left out: they keep commands apart.      *)
(***************************************************************************)
EXTENDS Naturals, Sequences, FiniteSets

CONSTANTS
    Commands,   \* the commands of the activity
    Timed,      \* those that contain "PMTK605" and are waited for 2 seconds
    LineOut,    \* LINE_OUT_SIZE (10 in the code)
    MaxSends    \* bound on the commands put in the queue

ASSUME SocketAssumption ==
    /\ Timed \subseteq Commands /\ "null" \notin Commands
    /\ LineOut \in Nat /\ MaxSends \in Nat

VARIABLES
    queue,        \* mCommandQueue
    pc,           \* where the send thread and the UI thread are
    mCommand,     \* the command of this turn, "null" between turns
    mResponse,    \* the turn that assigned mResponse last; 0 is null
    mClientSocket, mDataInput, mDataOutput,
    mCallBack,    \* mCallBack # null
    line,         \* lines read for this command
    late,         \* more than SOCKET_TIME_OUT_TIME since startTime
    interrupted,  \* the interrupt status of the send thread
    open,         \* connections that are open
    opened,       \* connections opened so far
    stuck,        \* history: connections whose close threw an exception
    eof,          \* history: the last read of this turn returned -1
    asked,        \* history: commands put in the queue
    told          \* history: turns that are over

streams == <<mClientSocket, mDataInput, mDataOutput>>
ui == <<queue, interrupted, mCallBack, asked>>
net == <<open, opened, stuck>>
turn == <<mCommand, mResponse, line, late, eof, told>>
vars == <<queue, pc, mCommand, mResponse, streams, mCallBack, line, late,
          interrupted, open, opened, stuck, eof, asked, told>>

\* closeClient, which both threads run: a test and a use of each field.
Closing == {"input?", "input!", "output?", "output!", "socket?", "socket!",
            "clear"}
SendPc == {"take", "openClient", "output", "input", "test", "write", "read",
           "callback?", "callback!", "ended", "NullPointerException"} \cup Closing
UiPc == {"idle", "forget", "done", "NullPointerException"}
            \cup Closing

Init ==
    /\ queue = <<>>
    /\ pc = [send |-> "take", ui |-> "idle"]
    /\ mCommand = "null" /\ mResponse = 0
    /\ mClientSocket = 0 /\ mDataInput = 0 /\ mDataOutput = 0
    /\ mCallBack = TRUE
    /\ line = 0 /\ late = FALSE
    /\ interrupted = FALSE
    /\ open = {} /\ opened = 0 /\ stuck = {}
    /\ eof = FALSE
    /\ asked = 0 /\ told = 0

\* An uncaught exception of either thread ends the process.
Running == \A t \in {"send", "ui"} : pc[t] # "NullPointerException"

At(t, here) == Running /\ pc[t] = here
Goto(t, there) == pc' = [pc EXCEPT ![t] = there]

----------------------------------------------------------------------------
(* The send thread.                                                        *)

take ==
    /\ At("send", "take")
    /\ \/ /\ interrupted        \* InterruptedException: the thread returns
          /\ Goto("send", "ended")
          /\ UNCHANGED <<queue, mCommand>>
       \/ /\ ~interrupted /\ queue # <<>>
          /\ Goto("send", "openClient")
          /\ mCommand' = Head(queue)
          /\ queue' = Tail(queue)
    /\ line' = 0 /\ late' = FALSE /\ eof' = FALSE
    /\ UNCHANGED <<mResponse, streams, mCallBack, interrupted, net, asked, told>>

\* The connection is made or refused.
openClient ==
    /\ At("send", "openClient")
    /\ \/ /\ mClientSocket = 0
          /\ opened' = opened + 1
          /\ open' = open \cup {opened + 1}
          /\ mClientSocket' = opened + 1
          /\ Goto("send", "output")
       \/ /\ Goto("send", "test")
          /\ UNCHANGED <<mClientSocket, open, opened>>
    /\ UNCHANGED <<mDataInput, mDataOutput, stuck, ui, turn>>

\* setSoTimeout and getOutputStream, then getInputStream: a closed socket
\* throws an IOException, which openClient catches.
openStream(here, there) ==
    /\ At("send", here)
    /\ \/ mClientSocket = 0 /\ Goto("send", "NullPointerException")
       \/ mClientSocket # 0 /\ Goto("send", IF mClientSocket \in open THEN there
                                           ELSE "test")
    /\ UNCHANGED <<mClientSocket, net, ui, turn>>

openOutput ==
    /\ openStream("output", "input")
    /\ mDataOutput' = IF mClientSocket \in open THEN mClientSocket ELSE mDataOutput
    /\ UNCHANGED mDataInput

openInput ==
    /\ openStream("input", "test")
    /\ mDataInput' = IF mClientSocket \in open THEN mClientSocket ELSE mDataInput
    /\ UNCHANGED mDataOutput

\* The turn is answered: mResponse is assigned.
Respond == mResponse' = told + 1 /\ Goto("send", "callback?")

testStreams ==
    /\ At("send", "test")
    /\ IF mDataOutput # 0 /\ mDataInput # 0
       THEN Goto("send", "write") /\ UNCHANGED mResponse
       ELSE Respond
    /\ UNCHANGED <<streams, net, ui, mCommand, line, late, eof, told>>

\* The command is written and flushed, or an IOException is caught.
write ==
    /\ At("send", "write")
    /\ \/ /\ mDataOutput = 0
          /\ Goto("send", "NullPointerException") /\ UNCHANGED mResponse
       \/ /\ mDataOutput \in open
          /\ Goto("send", "read") /\ UNCHANGED mResponse
       \/ mDataOutput # 0 /\ Respond
    /\ UNCHANGED <<streams, net, ui, mCommand, line, late, eof, told>>

\* (Mutant: only the two seconds of PMTK605 end the wait)
TimedOut_no_lines == mCommand \in Timed /\ late

\* (Mutant: one line more)
TimedOut_line_more == IF mCommand \in Timed THEN late ELSE line > LineOut

\* What ends the wait of a command whose answer does not come.
TimedOut ==
    IF mCommand \in Timed THEN late ELSE line + 1 > LineOut

\* line + 1, with the count past LineOut + 1 folded to keep it finite.
NextLine == IF line = LineOut + 2 THEN LineOut + 1 ELSE line + 1

\* A line that is not the answer.
readOther ==
    /\ At("send", "read")
    /\ mDataInput \in open
    /\ line' = NextLine
    /\ IF TimedOut THEN Respond ELSE UNCHANGED <<mResponse, pc>>
    /\ UNCHANGED <<streams, net, ui, mCommand, late, eof, told>>

\* (Mutant: the thread ends where the connection does)
readEnd_returns ==
    /\ At("send", "read")
    /\ Goto("send", IF mDataInput = 0 THEN "NullPointerException" ELSE "ended")
    /\ UNCHANGED <<mResponse, eof, streams, net, ui, mCommand, line,
                   late, told>>

\* (Mutant: what is no answer leaves mResponse as it is)
readEnd_keeps ==
    /\ At("send", "read")
    /\ Goto("send", IF mDataInput = 0 THEN "NullPointerException"
                    ELSE "callback?")
    /\ UNCHANGED <<mResponse, eof, streams, net, ui, mCommand, line,
                   late, told>>

\* The answer; or the 2 seconds of setSoTimeout, a closed socket or another
\* IOException; or the end of the stream, which leaves mResponse alone.
readEnd ==
    /\ At("send", "read")
    /\ \/ /\ mDataInput = 0
          /\ Goto("send", "NullPointerException")
          /\ UNCHANGED <<mResponse, eof>>
       \/ mDataInput # 0 /\ Respond /\ UNCHANGED eof
       \/ /\ mDataInput \in open
          /\ eof' = TRUE
          /\ Goto("send", "callback?")
          /\ UNCHANGED mResponse
    /\ UNCHANGED <<streams, net, ui, mCommand, line, late, told>>

\* mCallBack is tested, and read again for the call of onResponse; then the
\* command is forgotten.
callBack ==
    /\ \/ /\ At("send", "callback?")
          /\ Goto("send", IF mCallBack THEN "callback!" ELSE "input?")
       \/ /\ At("send", "callback!")
          /\ Goto("send", IF mCallBack THEN "input?" ELSE "NullPointerException")
    /\ mCommand' = IF pc'.send = "input?" THEN "null" ELSE mCommand
    /\ UNCHANGED <<streams, net, ui, mResponse, line, late, eof, told>>

----------------------------------------------------------------------------
(* closeClient on thread t.                                                *)

\* if (null != field) field.close(): the field is read for the test and again
\* for the use.  An IOException skips the fields that are left; whether it
\* leaves the connection open is up to the library.
closeField(t, field, testing, using, next) ==
    /\ \/ /\ At(t, testing)
          /\ Goto(t, IF field # 0 THEN using ELSE next)
          /\ UNCHANGED <<open, stuck>>
       \/ /\ At(t, using)
          /\ Goto(t, IF field # 0 THEN next ELSE "NullPointerException")
          /\ open' = open \ {field}
          /\ UNCHANGED stuck
       \/ /\ At(t, using) /\ field # 0      \* the close fails
          /\ Goto(t, "clear")
          /\ open' \in {open, open \ {field}}
          /\ stuck' = stuck \cup {field}
    /\ UNCHANGED <<streams, opened, ui, turn>>

\* The finally clause; what follows closeClient in the thread's own code.
closeClear(t) ==
    /\ At(t, "clear")
    /\ mClientSocket' = 0 /\ mDataInput' = 0 /\ mDataOutput' = 0
    /\ Goto(t, IF t = "send" THEN "take" ELSE "forget")
    /\ told' = IF t = "send" THEN told + 1 ELSE told
    /\ UNCHANGED <<net, ui, mCommand, mResponse, line, late, eof>>

closeClient(t) ==
    \/ closeField(t, mDataInput, "input?", "input!", "output?")
    \/ closeField(t, mDataOutput, "output?", "output!", "socket?")
    \/ closeField(t, mClientSocket, "socket?", "socket!", "clear")
    \/ closeClear(t)

----------------------------------------------------------------------------
(* The UI thread: the activity sends commands until onDestroy, in which it *)
(* calls endClient, and never after.                                       *)

\* A command that waits in the queue already is dropped.  The thread it would
\* have to start again is the subject of AliveUntilEnd.
sendCommand(command) ==
    /\ At("ui", "idle")
    /\ asked < MaxSends
    /\ ~\E i \in 1..Len(queue) : queue[i] = command
    /\ queue' = Append(queue, command)
    /\ asked' = asked + 1
    /\ UNCHANGED <<pc, interrupted, mCallBack, streams, net, turn>>

endClient ==
    /\ \/ /\ At("ui", "idle")
          /\ Goto("ui", "input?")
          /\ interrupted' = TRUE
          /\ UNCHANGED mCallBack
       \/ /\ At("ui", "forget")
          /\ Goto("ui", "done")
          /\ mCallBack' = FALSE
          /\ UNCHANGED interrupted
    /\ UNCHANGED <<queue, asked, streams, net, turn>>

\* System.currentTimeMillis passes the limit.
Elapse ==
    /\ At("send", "read")
    /\ ~late
    /\ late' = TRUE
    /\ UNCHANGED <<pc, streams, net, ui, mCommand, mResponse, line, eof,
                   told>>

SendThread ==
    \/ take \/ openClient \/ openOutput \/ openInput \/ testStreams
    \/ write \/ readOther \/ readEnd \/ callBack
    \/ closeClient("send")

EndThread == endClient \/ closeClient("ui")

Next ==
    \/ SendThread
    \/ EndThread
    \/ \E command \in Commands : sendCommand(command)
    \/ Elapse

Spec == Init /\ [][Next]_vars

\* Both threads are scheduled and the clock runs; the activity need not end.
LiveSpec ==
    /\ Spec
    /\ WF_vars(SendThread) /\ WF_vars(Elapse) /\ WF_vars(closeClient("ui"))

----------------------------------------------------------------------------
(* Properties.                                                             *)

\* Every variable holds a value of its type; no more than LineOut + 1 lines are
\* read for a command that is not timed.
TypeOK ==
    /\ queue \in Seq(Commands)
    /\ pc.send \in SendPc /\ pc.ui \in UiPc
    /\ mCommand \in Commands \cup {"null"}
    /\ mResponse \in 0..told + 1
    /\ {mClientSocket, mDataInput, mDataOutput} \subseteq 0..opened
    /\ open \subseteq 1..opened /\ stuck \subseteq 1..opened
    /\ {mCallBack, late, interrupted, eof} \subseteq BOOLEAN
    /\ line \in 0..LineOut + 2
    /\ mCommand \in Commands \ Timed => line <= LineOut + 1
    /\ {opened, asked, told} \subseteq Nat

\* An answer that is reported was read for the command it is reported for,
\* except where the daemon closes the connection without one.
FreshUnlessEof ==
    pc.send = "callback!" => mResponse = told + 1 \/ eof

\* Until the activity ends the client, the send thread is there (sendCommand
\* never finds it dead, and start() on an ended thread is never reached) and
\* holds a connection only during a turn, unless its close has failed.
AliveUntilEnd ==
    pc.ui = "idle" =>
        /\ Running /\ pc.send # "ended"
        /\ pc.send = "take" => open \subseteq stuck

\* Whatever the daemon sends, every command in the queue gets its turn and the
\* turn comes to its end, unless the client is ended; after endClient the send
\* thread comes to its end.
TurnsEnd ==
    /\ []<>(pc.ui # "idle" \/ told = asked)
    /\ pc.ui # "idle" ~> pc.send = "ended" \/ ~Running
=============================================================================
