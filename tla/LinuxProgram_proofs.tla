------------------------ MODULE LinuxProgram_proofs ------------------------
(***************************************************************************)
(* Theorems about LinuxProgram.  What holds of the back end alone holds of *)
(* it inside the program, because every step of the program is one of the  *)
(* back end, none, or the end of the process; and the program implements   *)
(* Main over CaptureDevice, which carries the theorems of Main over to it. *)
(***************************************************************************)
EXTENDS LinuxProgram, PulseAudioCapture_proofs

(* Where AudioStream's connection thread is while the one of the back end  *)
(* is somewhere.                                                           *)
Together ==
  \/ conn = "recv" /\ pc["conn"] \in { "off", "recv", "ended" }
  \/ /\ conn \in { "quitTest", "quitCall", "quitClear", "join" }
     /\ pc["conn"] = IF caller = "init" THEN "stop" ELSE "start"
  \/ /\ conn \in { "streamDrop", "streamClear", "contextDrop" }
     /\ pc["conn"] = IF caller = "init" THEN "init" ELSE "start"
  \/ conn \in { "init", "iterate", "format" } /\ pc["conn"] = "init"
  \/ conn = "hang" /\ pc["conn"] = "hang"
  \/ conn = "reply" /\ pc["conn"] \in Program!CipherPoints \cup { "in.set", "in.use", "connect" }
  \/ conn \in { "newStream", "connectStream", "thread" } /\ pc["conn"] = "start"
  \/ conn = "exited" /\ pc["conn"] = "returned"

Points == Program!ConnPoints \cup Program!CmdPoints \cup Program!AudioPoints

(* The two modules agree on where the threads are.                         *)
Agree ==
  /\ pc \in [Program!Threads -> Points]
  /\ Together
  /\ loop = "callback" <=> pc["audio"] # "idle"
  /\ main # "running" => conn = "recv" /\ loop = "none" /\ pc["audio"] = "idle"
  /\ conn \in StopPoints /\ caller = "recv" => ~thread

-----------------------------------------------------------------------------
(* What happens to the back end.                                           *)
LEMMA BackEndStep ==
  ASSUME [LinuxNext]_linuxVars
  PROVE  [Next]_vars \/ BackEndReset
<1>1. CASE MainStep
  BY <1>1 DEF MainStep
<1>2. CASE UNCHANGED linuxVars
  BY <1>2 DEF linuxVars
<1>3. ASSUME While(ConnThread) PROVE [Next]_vars
  BY <1>3 DEF While, ConnThread, Stopping, Initializing, Answering, Starting, Inside, Next,
     StopStep, HelloStep
<1>4. ASSUME While(LoopThread \/ LoopReturns \/ CmdThread) PROVE [Next]_vars
  BY <1>4 DEF While, LoopThread, LoopReturns, CmdThread, Inside, Outside, Next, LoopStep
<1>5. ASSUME While(HelloArrives \/ ReceiveFails \/ CommandArrives) PROVE [Next]_vars
  BY <1>5 DEF While, HelloArrives, ReceiveFails, CommandArrives, Outside, Next
<1> QED
  BY <1>1, <1>2, <1>3, <1>4, <1>5 DEF LinuxNext, While

LEMMA ResetTypes == BackEndReset => TypeOK' /\ Inv'
<1> SUFFICES ASSUME BackEndReset PROVE TypeOK' /\ Inv'
  OBVIOUS
<1> USE DEF BackEndReset
<1>1. TypeOK'
  <2>1. /\ (corked \in BOOLEAN)' /\ (quitRequested \in BOOLEAN)'
        /\ (thread \in BOOLEAN)' /\ (play \in BOOLEAN)'
    BY Zenon
  <2>2. hellos' \in 0 .. MaxHellos /\ bits' \in Nat
    BY ConstantsAssumption DEF ConstantsAssumption
  <2> QED
    BY <2>1, <2>2 DEF TypeOK, Pointers, StreamStates, Formats, LoopPoints, ConnPoints,
       StopPoints, OwnerPoints, Faults
<1>2. Inv'
  BY DEF Inv, ThreadIsLoop, LoopExclusive, LoopHasObjects, QuitWasRequested, FreshInit,
     OwnerHasObjects, QuitOrder, StopOrder, OwnerPoints
<1> QED
  BY <1>1, <1>2

LEMMA BackEnd ==
  ASSUME TypeOK, Inv, [LinuxNext]_linuxVars
  PROVE  TypeOK' /\ Inv'
BY BackEndStep, ResetTypes, TypeNext, InvNext

-----------------------------------------------------------------------------
(* The program points stay together.                                       *)
LEMMA AgreeInit == LinuxInit => Agree
BY DEF LinuxInit, Init, Program!Init, Program!StreamInit, Agree, Together, Points,
   Program!Threads, Program!ConnPoints, Program!CmdPoints, Program!AudioPoints, StopPoints

LEMMA AgreeSame ==
  ASSUME Agree, UNCHANGED <<pc, conn, caller, loop, thread>>,
         main # "running" \/ main' = main
  PROVE  Agree'
BY DEF Agree, Together

LEMMA AgreeMain ==
  ASSUME Agree, MainStep
  PROVE  Agree'
<1>1. ASSUME Program!End, main # "off"
      PROVE  Agree'
  <2>1. BackEndReset
    BY <1>1 DEF MainStep, Program!End
  <2> QED
    BY <1>1, <2>1 DEF Program!End, Program!StreamReset, BackEndReset, Agree, Together, Points,
       Program!Threads, Program!ConnPoints, Program!CmdPoints, Program!AudioPoints, StopPoints
<1>2. ASSUME UNCHANGED pc, UNCHANGED vars, main # "running"
      PROVE  Agree'
  BY <1>2, AgreeSame DEF vars
<1>3. CASE Program!Start \/ Program!EditConfig
  <2>1. main = "off" /\ UNCHANGED Program!streamVars /\ main' # "running"
    BY <1>3 DEF Program!Start, Program!EditConfig
  <2>2. UNCHANGED vars
    BY <2>1 DEF MainStep
  <2> QED
    BY <1>2, <2>1, <2>2 DEF Program!streamVars
<1>4. CASE Program!CreateConfig \/ Program!WriteConfig
  <2>1. main \in { "create", "write" } /\ main' # "off" /\ UNCHANGED Program!streamVars
    BY <1>4 DEF Program!CreateConfig, Program!WriteConfig
  <2>2. UNCHANGED vars
    BY <2>1 DEF MainStep
  <2> QED
    BY <1>2, <2>1, <2>2 DEF Program!streamVars
<1>5. CASE Program!ListAddresses \/ Program!Construct
  <2>1. \/ /\ main \in { "list", "construct" } /\ main' # "off"
           /\ UNCHANGED Program!streamVars
        \/ Program!End /\ main # "off"
    BY <1>5 DEF Program!ListAddresses, Program!Construct
  <2>2. CASE main' # "off" /\ main # "running" /\ UNCHANGED Program!streamVars
    BY <1>2, <2>2 DEF MainStep, Program!streamVars
  <2> QED
    BY <1>1, <2>1, <2>2
<1>6. CASE Program!RunInit
  <2>1. main = "init" /\ UNCHANGED vars
    BY <1>6 DEF MainStep, Program!RunInit
  <2>2. CASE UNCHANGED pc
    BY <1>2, <2>1, <2>2
  <2>3. CASE Program!StartThreads
    <3>1. pc' = [pc EXCEPT !["conn"] = "recv", !["cmd"] = "recv"]
      BY <2>3 DEF Program!StartThreads
    <3>2. /\ pc'["conn"] = "recv" /\ pc'["audio"] = pc["audio"]
          /\ pc' \in [Program!Threads -> Points]
      BY <3>1 DEF Agree, Points, Program!Threads, Program!ConnPoints
    <3>3. conn' = "recv" /\ loop' = "none" /\ pc'["audio"] = "idle"
      BY <2>1, <3>2 DEF Agree, vars
    <3>4. Together'
      BY <3>2, <3>3 DEF Together
    <3> QED
      BY <3>2, <3>3, <3>4 DEF Agree, StopPoints
  <2> QED
    BY <1>6, <2>2, <2>3 DEF Program!RunInit, Program!InitCall, Program!InitFails,
       Program!streamVars
<1>7. CASE Program!Destroy
  <2>1. \/ main = "exit" /\ main' = "join" /\ UNCHANGED pc
        \/ Program!End /\ main # "off"
    BY <1>7 DEF Program!Destroy, Program!CloseSockets
  <2>2. CASE main = "exit" /\ main' = "join" /\ UNCHANGED pc
    BY <1>2, <2>2 DEF MainStep
  <2> QED
    BY <1>1, <2>1, <2>2
<1>8. CASE Program!Crash
  BY <1>1, <1>8 DEF Program!Crash
<1> QED
  BY <1>3, <1>4, <1>5, <1>6, <1>7, <1>8 DEF MainStep

(* A thread of AudioStream goes to a program point.                        *)
LEMMA Moved ==
  ASSUME Agree, NEW t \in Program!Threads, NEW p \in Points, Program!Goto(t, p)
  PROVE  /\ pc' \in [Program!Threads -> Points]
         /\ pc'[t] = p
         /\ \A u \in Program!Threads : u # t => pc'[u] = pc[u]
BY DEF Agree, Program!Goto

LEMMA AgreeHello ==
  ASSUME Agree, main = "running", UNCHANGED main, HelloArrives \/ ReceiveFails
  PROVE  Agree'
<1> USE DEF Points, Program!Threads, Program!ConnPoints, Program!CmdPoints, Program!HelloPoints
<1>1. CASE HelloArrives
  <2>1. pc' \in [Program!Threads -> Points] /\ pc'["conn"] = "stop" /\ pc'["audio"] = pc["audio"]
    BY <1>1, Moved DEF HelloArrives, Program!RecvHello
  <2>2. conn' = "quitTest" /\ caller' = "init" /\ UNCHANGED loop
    BY <1>1 DEF HelloArrives, RecvHello, loopVars
  <2> QED
    BY <2>1, <2>2 DEF Agree, Together
<1>2. CASE ReceiveFails
  <2>1. \E t \in { "conn", "cmd" } : pc[t] = "recv" /\ Program!Goto(t, "ended")
    BY <1>2 DEF ReceiveFails, Outside, Program!RecvFails
  <2>2. /\ pc' \in [Program!Threads -> Points] /\ pc'["audio"] = pc["audio"]
        /\ \/ pc'["conn"] = pc["conn"]
           \/ pc["conn"] = "recv" /\ pc'["conn"] = "ended"
    BY <2>1, Moved
  <2>3. UNCHANGED <<conn, caller, loop, thread>>
    BY <1>2 DEF ReceiveFails, Outside, vars
  <2> QED
    BY <2>2, <2>3 DEF Agree, Together, Program!CipherPoints
<1> QED
  BY <1>1, <1>2

LEMMA AgreeStopping ==
  ASSUME TypeOK, Inv, Agree, main = "running", UNCHANGED main, Stopping
  PROVE  Agree'
<1> USE DEF Points, Program!Threads, Program!ConnPoints, Program!HelloPoints, Program!CipherPoints
<1>1. CASE Inside(StopQuitTest \/ StopQuitCall \/ StopQuitMisuse \/ StopQuitClear)
  <2>1. UNCHANGED <<pc, caller, loop, thread>>
    BY <1>1 DEF Inside, streamFrame, StopQuitTest, StopQuitCall, StopQuitMisuse, StopQuitClear,
       QuitCall, QuitClear, Misuse, Die, loopVars, connVars
  <2>2. /\ conn \in { "quitTest", "quitCall", "quitClear", "join" }
        /\ conn' \in { "quitTest", "quitCall", "quitClear", "join" }
    BY <1>1 DEF Inside, StopQuitTest, StopQuitCall, StopQuitMisuse, StopQuitClear,
       Misuse, Die, connVars
  <2> QED
    BY <2>1, <2>2 DEF Agree, Together, StopPoints
<1>2. CASE StopJoin /\ IF caller = "init" THEN Program!StopReturned ELSE UNCHANGED streamFrame
  <2>1. /\ conn = "join" /\ conn' = "streamDrop" /\ UNCHANGED caller
        /\ ~thread' /\ loop' = "none" /\ loop # "callback"
    BY <1>2 DEF StopJoin, Inv, ThreadIsLoop
  <2>2. /\ pc' \in [Program!Threads -> Points] /\ pc'["audio"] = pc["audio"]
        /\ pc'["conn"] = IF caller = "init" THEN "init" ELSE "start"
    <3>1. CASE caller = "init"
      BY <1>2, <3>1, Moved DEF Program!StopReturned
    <3>2. CASE caller # "init"
      BY <1>2, <2>1, <3>2 DEF streamFrame, Agree, Together
    <3> QED
      BY <3>1, <3>2
  <2> QED
    BY <2>1, <2>2 DEF Agree, Together
<1>3. CASE Inside(StopStreamDrop \/ StopStreamClear \/ StopContextMisuse)
  <2>1. UNCHANGED <<pc, caller, loop, thread>>
    BY <1>3 DEF Inside, streamFrame, StopStreamDrop, StopStreamClear, StopContextMisuse,
       Misuse, Die, loopVars, connVars
  <2>2. /\ conn \in { "streamDrop", "streamClear", "contextDrop" }
        /\ conn' \in { "streamDrop", "streamClear", "contextDrop" }
    BY <1>3 DEF Inside, StopStreamDrop, StopStreamClear, StopContextMisuse,
       Misuse, Die, connVars
  <2> QED
    BY <2>1, <2>2 DEF Agree, Together, StopPoints
<1>4. CASE /\ StopContextDrop
           /\ IF caller = "recv" THEN Program!StartReturned ELSE UNCHANGED streamFrame
  <2>1. conn = "contextDrop" /\ conn' = caller /\ UNCHANGED <<caller, loop, thread>>
    BY <1>4 DEF StopContextDrop, loopVars
  <2>2. caller \in { "init", "recv" }
    BY DEF TypeOK
  <2>3. CASE caller = "recv"
    <3>1. /\ pc' \in [Program!Threads -> Points] /\ pc'["audio"] = pc["audio"]
          /\ pc'["conn"] = "recv"
      BY <1>4, <2>3, Moved DEF Program!StartReturned
    <3> QED
      BY <2>1, <2>3, <3>1 DEF Agree, Together, StopPoints
  <2>4. CASE caller = "init"
    BY <1>4, <2>1, <2>4 DEF Agree, Together, StopPoints, streamFrame
  <2> QED
    BY <2>2, <2>3, <2>4
<1> QED
  BY <1>1, <1>2, <1>3, <1>4 DEF Stopping

LEMMA AgreeInitializing ==
  ASSUME TypeOK, Inv, Agree, main = "running", UNCHANGED main, Initializing
  PROVE  Agree'
<1> USE DEF Points, Program!Threads, Program!ConnPoints, Program!HelloPoints, Program!CipherPoints
<1>1. CASE \/ Inside(ContextReady \/ ParseTerminates)
           \/ SetInitialConfig /\ conn' # "hang" /\ UNCHANGED streamFrame
  <2>1. UNCHANGED <<pc, loop, thread>>
    BY <1>1 DEF Inside, streamFrame, SetInitialConfig, ContextReady, ParseTerminates, Die, loopVars
  <2>2. conn \in { "init", "iterate", "format" } /\ conn' \in { "iterate", "format" }
    BY <1>1 DEF Inside, SetInitialConfig, ContextReady, ParseTerminates, Die, connVars
  <2> QED
    BY <2>1, <2>2 DEF Agree, Together, StopPoints
<1>2. CASE \/ /\ SetInitialConfig /\ conn' = "hang"
              /\ Program!InitializeAudioDevice /\ pc'["conn"] = "hang"
           \/ /\ ParseFormat \/ ContextFailed
              /\ Program!InitializeAudioDevice
              /\ pc'["conn"] = IF conn' = "reply" THEN "in.set" ELSE "recv"
  <2>1. conn' \in { "recv", "reply", "hang" } /\ UNCHANGED <<loop, thread>>
    BY <1>2 DEF SetInitialConfig, ParseFormat, ContextFailed, loopVars
  <2>2. pc'["conn"] = CASE conn' = "reply" -> "in.set" [] conn' = "hang" -> "hang"
                        [] conn' = "recv" -> "recv"
    BY <1>2, <2>1 DEF ParseFormat, ContextFailed
  <2>3. \E p \in { "in.set", "recv", "hang" } : Program!Goto("conn", p)
    BY <1>2 DEF Program!InitializeAudioDevice
  <2>4. pc' \in [Program!Threads -> Points] /\ pc'["audio"] = pc["audio"]
    BY <2>3, Moved
  <2> QED
    BY <2>1, <2>2, <2>4 DEF Agree, Together, StopPoints
<1> QED
  BY <1>1, <1>2 DEF Initializing

LEMMA AgreeStarting ==
  ASSUME TypeOK, Inv, Agree, main = "running", UNCHANGED main, Starting
  PROVE  Agree'
<1> USE DEF Points, Program!Threads, Program!ConnPoints, Program!HelloPoints, Program!CipherPoints
<1>1. CASE Inside(NewStream \/ ConnectStream)
  <2>1. UNCHANGED <<pc, loop, thread>>
    BY <1>1 DEF Inside, streamFrame, NewStream, ConnectStream, loopVars
  <2>2. conn \in { "newStream", "connectStream" }
    BY <1>1 DEF Inside, NewStream, ConnectStream
  <2>3. conn' \in { "connectStream", "thread" } \/ (conn' = "quitTest" /\ caller' = "recv")
    BY <1>1 DEF Inside, NewStream, ConnectStream
  <2>4. ~thread
    BY <2>2 DEF Inv, ThreadIsLoop, LoopExclusive, OwnerPoints
  <2> QED
    BY <2>1, <2>2, <2>3, <2>4 DEF Agree, Together, StopPoints
<1>2. CASE StartThread /\ Program!StartReturned
  <2>1. conn = "thread" /\ conn' = "recv" /\ loop' = "iterate"
    BY <1>2 DEF StartThread
  <2>2. loop = "none"
    BY <2>1 DEF Inv, LoopExclusive, OwnerPoints
  <2>3. /\ pc' \in [Program!Threads -> Points] /\ pc'["audio"] = pc["audio"]
        /\ pc'["conn"] = "recv"
    BY <1>2, Moved DEF Program!StartReturned
  <2> QED
    BY <2>1, <2>2, <2>3 DEF Agree, Together, StopPoints
<1> QED
  BY <1>1, <1>2 DEF Starting

LEMMA AgreeAnswering ==
  ASSUME TypeOK, Inv, Agree, main = "running", UNCHANGED main, Answering
  PROVE  Agree'
<1> DEFINE Own == Program!CipherPoints \cup { "in.set", "in.use", "connect" }
<1> USE DEF Points, Program!Threads, Program!ConnPoints, Program!HelloPoints, Program!CipherPoints
<1>1. /\ pc["conn"] \in Own
      /\ \E p \in Own \cup { "start", "recv", "returned" } : Program!Goto("conn", p)
  <2>1. CASE Program!DecryptHello
    BY <2>1 DEF Program!DecryptHello
  <2>2. CASE Program!CipherStep("conn")
    BY <2>2 DEF Program!CipherStep, Program!GenerateRead, Program!GenerateStore, Program!SetIv,
       Program!Encrypt
  <2>3. CASE Program!SendSettings \/ Program!Connect
    BY <2>3 DEF Program!SendSettings, Program!Connect
  <2> QED
    BY <2>1, <2>2, <2>3 DEF Answering
<1>2. /\ pc' \in [Program!Threads -> Points] /\ pc'["audio"] = pc["audio"]
      /\ pc'["conn"] \in Own \cup { "start", "recv", "returned" }
  BY <1>1, Moved
<1>3. conn = "reply"
  BY <1>1 DEF Agree, Together
<1>4. CASE pc'["conn"] \notin { "start", "recv", "returned" } /\ UNCHANGED vars
  <2>1. UNCHANGED <<conn, caller, loop, thread>>
    BY <1>4 DEF vars
  <2> QED
    BY <1>2, <1>3, <1>4, <2>1 DEF Agree, Together, StopPoints
<1>5. CASE Reply /\ pc'["conn"] = CASE conn' = "newStream" -> "start"
                                   [] conn' = "recv" -> "recv"
                                   [] conn' = "exited" -> "returned"
  <2>1. \/ conn' = "newStream" /\ pc'["conn"] = "start"
        \/ conn' = "recv" /\ pc'["conn"] = "recv"
        \/ conn' = "exited" /\ pc'["conn"] = "returned"
    BY <1>5 DEF Reply
  <2>2. UNCHANGED <<loop, thread>>
    BY <1>5 DEF Reply, loopVars
  <2> QED
    BY <1>2, <2>1, <2>2 DEF Agree, Together, StopPoints
<1> QED
  BY <1>4, <1>5 DEF Answering

LEMMA AgreeLoop ==
  ASSUME TypeOK, Inv, Agree, main = "running", UNCHANGED main, LoopThread \/ LoopReturns
  PROVE  Agree'
<1> USE DEF Points, Program!Threads, Program!ConnPoints, Program!HelloPoints,
            Program!AudioPoints, Program!CipherPoints
<1>1. UNCHANGED <<conn, caller, thread>>
  BY DEF LoopThread, LoopReturns, Inside, Outside, StreamReady, StreamFailed, LoopQuitTest,
     LoopQuitCall, LoopQuitMisuse, LoopQuitClear, StreamRead, StreamDrop, LoopEnd, Misuse, Die,
     vars, loopFrame, connVars, loopVars
<1>2. ASSUME pc' \in [Program!Threads -> Points], pc'["conn"] = pc["conn"],
             loop' = "callback" <=> pc'["audio"] # "idle"
      PROVE  Agree'
  BY <1>1, <1>2 DEF Agree, Together
<1>3. CASE \/ Inside(\/ StreamReady \/ StreamFailed
                     \/ LoopQuitTest \/ LoopQuitCall \/ LoopQuitMisuse \/ LoopQuitClear)
           \/ LoopReturns
  <2>1. UNCHANGED pc /\ loop # "callback" /\ loop' # "callback"
    BY <1>3 DEF LoopReturns, Inside, streamFrame, StreamReady, StreamFailed, LoopQuitTest,
       LoopQuitCall, LoopQuitMisuse, LoopQuitClear, LoopEnd, Misuse, Die, loopVars
  <2> QED
    BY <1>2, <2>1 DEF Agree
<1>4. CASE /\ StreamRead
           /\ IF loop' = "callback" THEN Program!CallbackEntered ELSE UNCHANGED streamFrame
  <2>1. CASE loop' = "callback"
    <3>1. pc' \in [Program!Threads -> Points] /\ pc'["conn"] = pc["conn"] /\ pc'["audio"] = "generate"
      BY <1>4, <2>1, Moved DEF Program!CallbackEntered
    <3> QED
      BY <1>2, <2>1, <3>1
  <2>2. CASE loop' # "callback"
    <3>1. UNCHANGED pc /\ loop # "callback"
      BY <1>4, <2>2 DEF StreamRead, streamFrame
    <3> QED
      BY <1>2, <2>2, <3>1 DEF Agree
  <2> QED
    BY <2>1, <2>2
<1>5. CASE Outside(Program!CipherStep("audio"))
  <2>1. UNCHANGED loop
    BY <1>5 DEF Outside, vars
  <2>2. /\ pc["audio"] # "idle"
        /\ \E p \in Points : p # "idle" /\ Program!Goto("audio", p)
    BY <1>5 DEF Outside, Program!CipherStep, Program!GenerateRead, Program!GenerateStore,
       Program!SetIv, Program!Encrypt
  <2>3. pc' \in [Program!Threads -> Points] /\ pc'["conn"] = pc["conn"] /\ pc'["audio"] # "idle"
    BY <2>2, Moved
  <2> QED
    BY <1>2, <2>1, <2>2, <2>3 DEF Agree
<1>6. CASE StreamDrop /\ Program!SendAudio
  <2>1. pc' \in [Program!Threads -> Points] /\ pc'["conn"] = pc["conn"] /\ pc'["audio"] = "idle"
    BY <1>6, Moved DEF Program!SendAudio
  <2>2. loop' = "iterate"
    BY <1>6 DEF StreamDrop
  <2> QED
    BY <1>2, <2>1, <2>2
<1> QED
  BY <1>3, <1>4, <1>5, <1>6 DEF LoopThread

LEMMA AgreeCommand ==
  ASSUME Agree, main = "running", UNCHANGED main, CommandArrives \/ CmdThread
  PROVE  Agree'
<1> USE DEF Points, Program!Threads, Program!CmdPoints
<1>1. UNCHANGED <<conn, caller, loop, thread>>
  BY DEF CommandArrives, RecvCommand, CmdThread, Inside, Outside, CmdStep, AsyncStopCapture,
     LoadStream, CorkStream, CorkMisuse, Misuse, Die, vars, loopVars, connVars
<1>2. UNCHANGED pc \/ \E p \in Points : Program!Goto("cmd", p)
  BY DEF CommandArrives, CmdThread, Inside, Outside, streamFrame, Program!RecvCommand,
     Program!CmdStep, Program!GenerateRead, Program!GenerateStore, Program!SendAnswer
<1>3. /\ pc' \in [Program!Threads -> Points]
      /\ pc'["conn"] = pc["conn"] /\ pc'["audio"] = pc["audio"]
  BY <1>2, Moved DEF Agree
<1> QED
  BY <1>1, <1>3 DEF Agree, Together

LEMMA AgreeNext ==
  ASSUME TypeOK, Inv, Agree, [LinuxNext]_linuxVars
  PROVE  Agree'
<1>1. CASE UNCHANGED linuxVars
  BY <1>1, AgreeSame DEF linuxVars, vars, streamFrame, mainFrame
<1> QED
  BY <1>1, AgreeMain, AgreeHello, AgreeStopping, AgreeInitializing, AgreeAnswering,
     AgreeStarting, AgreeLoop, AgreeCommand DEF LinuxNext, ConnThread,
     While, mainFrame

LEMMA LinuxInvariance == LinuxSpec => [](TypeOK /\ Inv /\ Agree)
<1>1. LinuxInit => TypeOK /\ Inv /\ Agree
  BY TypeInit, InvInit, AgreeInit DEF LinuxInit
<1>2. TypeOK /\ Inv /\ Agree /\ [LinuxNext]_linuxVars => (TypeOK /\ Inv /\ Agree)'
  BY BackEnd, AgreeNext
<1> QED
  BY <1>1, <1>2, PTL DEF LinuxSpec

(* The back end's own safety is that of PulseAudioCapture: whatever the    *)
(* rest of the program does, which may end and start again, the loop       *)
(* thread is excluded and told to quit, its objects are alive, and every   *)
(* session starts afresh.                                                  *)
THEOREM BackEndKept ==
  LinuxSpec => [](TypeOK /\ LoopExclusive /\ LoopHasObjects /\ QuitWasRequested /\ FreshInit)
<1>1. Inv => LoopExclusive /\ LoopHasObjects /\ QuitWasRequested /\ FreshInit
  BY DEF Inv, FreshInit, ThreadIsLoop, LoopExclusive, OwnerPoints, QuitOrder, StopOrder
<1> QED
  BY <1>1, LinuxInvariance, PTL

-----------------------------------------------------------------------------
(* A step of the running program, and one that nobody above the back end   *)
(* sees.                                                                   *)
LEMMA Visible ==
  ASSUME main = "running", UNCHANGED mainFrame, Program!StreamNext
  PROVE  Program!Next
BY DEF Program!Next, Program!RunStream, Program!While, Program!mainVars, mainFrame

LEMMA Hidden ==
  ASSUME UNCHANGED <<streamFrame, mainFrame, thread>>
  PROVE  UNCHANGED Program!vars
BY DEF Program!vars, Program!streamVars, Program!mainVars, streamFrame, mainFrame

LEMMA ProgramStopping ==
  ASSUME TypeOK, Inv, Agree, main = "running", UNCHANGED mainFrame, Stopping
  PROVE  [Program!Next]_(Program!vars)
<1>1. CASE Inside(\/ StopQuitTest \/ StopQuitCall \/ StopQuitMisuse \/ StopQuitClear
                  \/ StopStreamDrop \/ StopStreamClear \/ StopContextMisuse)
  <2>1. UNCHANGED <<streamFrame, thread>>
    BY <1>1 DEF Inside, StopQuitTest, StopQuitCall, StopQuitMisuse, StopQuitClear,
       StopStreamDrop, StopStreamClear, StopContextMisuse, Misuse, Die, loopVars
  <2> QED
    BY <2>1, Hidden
<1>2. CASE StopJoin /\ caller = "init" /\ Program!StopReturned
  <2>1. thread \in BOOLEAN /\ thread' = FALSE /\ loop # "callback"
    BY <1>2, Zenon DEF StopJoin, Inv, ThreadIsLoop, TypeOK
  <2>2. pc["audio"] = "idle" /\ pc'["audio"] = "idle"
    BY <1>2, <2>1, Moved DEF Program!StopReturned, Agree, Points, Program!Threads,
       Program!ConnPoints, Program!HelloPoints
  <2>3. Program!Device!Close \/ (~thread /\ UNCHANGED thread)
    BY <2>1, <2>2 DEF Program!Device!Close
  <2> QED
    BY <1>2, <2>3, Visible DEF Program!StreamNext, Program!StopCapture
<1>3. CASE StopJoin /\ caller = "recv" /\ UNCHANGED streamFrame
  <2>1. conn = "join" /\ thread \in BOOLEAN /\ thread' = FALSE
    BY <1>3, Zenon DEF StopJoin, TypeOK
  <2>2. UNCHANGED thread
    BY <1>3, <2>1 DEF Agree, StopPoints
  <2> QED
    BY <1>3, <2>2, Hidden
<1>4. CASE /\ StopContextDrop
           /\ IF caller = "recv" THEN Program!StartReturned ELSE UNCHANGED streamFrame
  <2>1. UNCHANGED thread
    BY <1>4 DEF StopContextDrop, loopVars
  <2>2. CASE UNCHANGED streamFrame
    BY <2>1, <2>2, Hidden
  <2>3. CASE Program!StartReturned
    <3>1. Program!AsyncStartCapture
      BY <2>1, <2>3 DEF Program!AsyncStartCapture, ProgramFailures
    <3> QED
      BY <3>1, Visible DEF Program!StreamNext, Program!HelloStep
  <2> QED
    BY <1>4, <2>2, <2>3
<1> QED
  BY <1>1, <1>2, <1>3, <1>4 DEF Stopping, Inside, TypeOK

LEMMA ProgramHello ==
  ASSUME TypeOK, Inv, Agree, main = "running", UNCHANGED mainFrame,
         Initializing \/ Answering \/ Starting
  PROVE  [Program!Next]_(Program!vars)
<1>1. CASE \/ Inside(ContextReady \/ ParseTerminates \/ NewStream \/ ConnectStream)
           \/ SetInitialConfig /\ UNCHANGED streamFrame
  <2>1. UNCHANGED <<streamFrame, thread>>
    BY <1>1 DEF Inside, SetInitialConfig, ContextReady, ParseTerminates, NewStream,
       ConnectStream, Die, loopVars
  <2> QED
    BY <2>1, Hidden
<1>2. CASE (SetInitialConfig \/ ParseFormat \/ ContextFailed) /\ Program!InitializeAudioDevice
  BY <1>2, Visible DEF Program!StreamNext, Program!HelloStep
<1>3. CASE Answering
  BY <1>3, Visible DEF Answering, Program!StreamNext, Program!HelloStep
<1>4. CASE StartThread /\ Program!StartReturned
  <2>1. conn = "thread" /\ thread' = TRUE /\ thread \in BOOLEAN
    BY <1>4, Zenon DEF StartThread, TypeOK
  <2>2. ~thread /\ loop = "none"
    BY <2>1 DEF Inv, LoopExclusive, ThreadIsLoop, OwnerPoints
  <2>3. pc["audio"] = "idle" /\ pc'["audio"] = "idle"
    BY <1>4, <2>2, Moved DEF Program!StartReturned, Agree, Points, Program!Threads,
       Program!ConnPoints
  <2>4. Program!Device!Open
    BY <2>1, <2>2, <2>3 DEF Program!Device!Open
  <2> QED
    BY <1>4, <2>4, Visible DEF Program!StreamNext, Program!HelloStep, Program!AsyncStartCapture
<1> QED
  BY <1>1, <1>2, <1>3, <1>4 DEF Initializing, Starting, Inside

LEMMA ProgramLoop ==
  ASSUME TypeOK, Inv, Agree, main = "running", UNCHANGED mainFrame, LoopThread \/ LoopReturns
  PROVE  [Program!Next]_(Program!vars)
<1>1. CASE Inside(\/ StreamReady \/ StreamFailed \/ LoopQuitTest \/ LoopQuitCall
                  \/ LoopQuitMisuse \/ LoopQuitClear \/ LoopEnd)
  <2>1. UNCHANGED <<streamFrame, thread>>
    BY <1>1 DEF Inside, StreamReady, StreamFailed, LoopQuitTest, LoopQuitCall, LoopQuitMisuse,
       LoopQuitClear, LoopEnd, Misuse, Die, loopVars, loopFrame
  <2> QED
    BY <2>1, Hidden
<1>2. CASE /\ StreamRead
           /\ IF loop' = "callback" THEN Program!CallbackEntered ELSE UNCHANGED streamFrame
  <2>1. loop = "iterate" /\ UNCHANGED thread
    BY <1>2 DEF StreamRead, loopFrame
  <2>2. CASE Program!CallbackEntered
    <3>1. thread /\ pc["audio"] = "idle" /\ pc'["audio"] = "generate"
      BY <2>1, <2>2, Moved DEF Inv, ThreadIsLoop, Program!CallbackEntered, Agree, Points,
         Program!Threads, Program!AudioPoints, Program!CipherPoints
    <3>2. Program!AudioReady
      BY <2>1, <2>2, <3>1 DEF Program!AudioReady, Program!Device!Deliver
    <3> QED
      BY <3>2, Visible DEF Program!StreamNext, Program!Arrival
  <2>3. CASE UNCHANGED streamFrame
    BY <2>1, <2>3, Hidden
  <2> QED
    BY <1>2, <2>2, <2>3
<1>3. CASE Outside(Program!CipherStep("audio")) \/ (StreamDrop /\ Program!SendAudio)
  BY <1>3, Visible DEF Outside, Program!StreamNext, Program!AudioStep
<1> QED
  BY <1>1, <1>2, <1>3 DEF LoopThread, LoopReturns, Inside

LEMMA ProgramCommand ==
  ASSUME main = "running", UNCHANGED mainFrame,
         HelloArrives \/ ReceiveFails \/ CommandArrives \/ CmdThread
  PROVE  [Program!Next]_(Program!vars)
<1>1. CASE Inside(CmdStep)
  <2>1. UNCHANGED <<streamFrame, thread>>
    BY <1>1 DEF Inside, CmdStep, AsyncStopCapture, LoadStream, CorkStream, CorkMisuse, Misuse,
       Die, loopVars
  <2> QED
    BY <2>1, Hidden
<1>2. CASE HelloArrives \/ ReceiveFails \/ CommandArrives \/ Outside(Program!CmdStep)
  BY <1>2, Visible DEF HelloArrives, ReceiveFails, CommandArrives, Outside, Program!StreamNext,
     Program!Arrival
<1> QED
  BY <1>1, <1>2 DEF CmdThread, Inside, Outside

LEMMA ProgramStep ==
  ASSUME TypeOK, Inv, Agree, [LinuxNext]_linuxVars
  PROVE  [Program!Next]_(Program!vars)
<1>1. CASE UNCHANGED linuxVars
  BY <1>1, Hidden DEF linuxVars, vars
<1>2. CASE MainStep
  BY <1>2 DEF MainStep, Program!Next
<1>3. ASSUME main = "running", UNCHANGED mainFrame,
             \/ HelloArrives \/ ReceiveFails \/ CommandArrives
             \/ ConnThread \/ LoopThread \/ LoopReturns \/ CmdThread
      PROVE  [Program!Next]_(Program!vars)
  BY <1>3, ProgramStopping, ProgramHello, ProgramLoop, ProgramCommand DEF ConnThread
<1> QED
  BY <1>1, <1>2, <1>3 DEF LinuxNext, While

(* The program over PulseAudio implements the program over CaptureDevice:  *)
(* whatever streams, server and the two users of quit() do, the connection *)
(* thread and the audio callback meet the back end that Main describes.    *)
THEOREM LinuxIsProgram == LinuxSpec => ProgramSpec
<1>1. LinuxInit => Program!Init
  BY DEF LinuxInit
<1> QED
  BY <1>1, ProgramStep, LinuxInvariance, PTL DEF LinuxSpec, ProgramSpec, Program!Spec

-----------------------------------------------------------------------------
(* The theorems of Main, read in this program.  Their definitions are      *)
(* those of Main twice over, and the same.                                 *)
P == INSTANCE Main_proofs WITH open <- thread

LEMMA SameNext == P!Next <=> Program!Next
  BY DEF P!InitCalls, Program!InitCalls, P!streamVars, Program!streamVars, P!Sockets,
     Program!Sockets, P!Threads, Program!Threads, P!Theirs, Program!Theirs, P!StreamReset,
     Program!StreamReset, P!deviceVars, Program!deviceVars, P!cipherVars, Program!cipherVars,
     P!clientVars, Program!clientVars, P!ghostVars, Program!ghostVars, P!Goto, Program!Goto,
     P!Carry, Program!Carry, P!InitCall, Program!InitCall, P!InitFails, Program!InitFails,
     P!StartThreads, Program!StartThreads, P!CloseSockets, Program!CloseSockets,
     P!ThreadsJoined, Program!ThreadsJoined, P!threadFrame, Program!threadFrame, P!RecvHello,
     Program!RecvHello, P!RecvFails, Program!RecvFails, P!StopReturned, Program!StopReturned,
     P!StopCapture, Program!StopCapture, P!InitializeAudioDevice,
     Program!InitializeAudioDevice, P!SetIv, Program!SetIv, P!DecryptHello,
     Program!DecryptHello, P!GenerateRead, Program!GenerateRead, P!GenerateStore,
     Program!GenerateStore, P!Encrypt, Program!Encrypt, P!Sent, Program!Sent, P!SendSettings,
     Program!SendSettings, P!Connect, Program!Connect, P!StartReturned, Program!StartReturned,
     P!AsyncStartCapture, Program!AsyncStartCapture, P!RecvCommand, Program!RecvCommand,
     P!SendAnswer, Program!SendAnswer, P!BackEndStops, Program!BackEndStops, P!CallbackEntered,
     Program!CallbackEntered, P!AudioReady, Program!AudioReady, P!SendAudio, Program!SendAudio,
     P!CipherStep, Program!CipherStep, P!HelloStep, Program!HelloStep, P!CmdStep,
     Program!CmdStep, P!AudioStep, Program!AudioStep, P!Arrival, Program!Arrival, P!StreamNext,
     Program!StreamNext, P!DefaultPort, Program!DefaultPort, P!NoCode, Program!NoCode,
     P!mainVars, Program!mainVars, P!vars, Program!vars, P!End, Program!End, P!Start,
     Program!Start, P!CreateConfig, Program!CreateConfig, P!WriteConfig, Program!WriteConfig,
     P!ListAddresses, Program!ListAddresses, P!Construct, Program!Construct, P!RunInit,
     Program!RunInit, P!Destroy, Program!Destroy, P!Crash, Program!Crash, P!EditConfig,
     Program!EditConfig, P!While, Program!While, P!RunStream, Program!RunStream, P!Next,
     Program!Next, P!Device!Open, Program!Device!Open, P!Device!Close, Program!Device!Close,
     P!Device!Deliver, Program!Device!Deliver, P!Device!Return, Program!Device!Return

LEMMA SameInit == P!Init <=> Program!Init
  BY DEF P!Init, Program!Init, P!StreamInit, Program!StreamInit, P!Theirs, Program!Theirs,
     P!Threads, Program!Threads, P!NoCode, Program!NoCode

LEMMA SameVars == UNCHANGED P!vars <=> UNCHANGED Program!vars
  BY DEF P!vars, Program!vars, P!streamVars, Program!streamVars, P!mainVars, Program!mainVars

LEMMA SameAssumptions == P!StreamAssumption /\ P!MainAssumption
BY LinuxAssumption DEF LinuxAssumption, P!StreamAssumption, Program!StreamAssumption,
   P!MainAssumption, Program!MainAssumption, P!StreamFailures, Program!StreamFailures,
   P!MainFailures, Program!MainFailures, P!InitCalls, Program!InitCalls,
   P!DefaultPort, Program!DefaultPort, P!NoCode, Program!NoCode

LEMMA SameInvariants ==
  /\ P!VectorMatches <=> Program!VectorMatches
  /\ P!AudioFollowsAnswer <=> Program!AudioFollowsAnswer
  /\ P!FreshUntilCommand <=> Program!FreshUntilCommand
  /\ P!ThreadsOwnSockets <=> Program!ThreadsOwnSockets
  /\ P!PairingKept <=> Program!PairingKept
BY DEF P!VectorMatches, Program!VectorMatches, P!AudioFollowsAnswer,
   Program!AudioFollowsAnswer, P!FreshUntilCommand, Program!FreshUntilCommand,
   P!ThreadsOwnSockets, Program!ThreadsOwnSockets, P!PairingKept, Program!PairingKept,
   P!HelloPoints, Program!HelloPoints, P!CipherPoints, Program!CipherPoints,
   P!CmdPoints, Program!CmdPoints, P!NoCode, Program!NoCode

LEMMA IsP == LinuxSpec => P!Spec
<1>1. LinuxInit => P!Init
  BY SameInit DEF LinuxInit
<1>2. TypeOK /\ Inv /\ Agree /\ [LinuxNext]_linuxVars => [P!Next]_(P!vars)
  BY ProgramStep, SameNext, SameVars
<1> QED
  BY <1>1, <1>2, LinuxInvariance, PTL DEF LinuxSpec, P!Spec

(* On Linux, what the shared wrapper decrypts and what is sent is made     *)
(* with the vector it carries, no vector comes twice before the first      *)
(* command, audio goes to the client that was answered last, the sockets   *)
(* outlive their threads, and a paired client stays paired.                *)
THEOREM ProgramKept ==
  LinuxSpec => [](/\ Program!VectorMatches /\ Program!FreshUntilCommand
                  /\ Program!AudioFollowsAnswer /\ Program!ThreadsOwnSockets
                  /\ Program!PairingKept)
<1>1. P!Spec => [](/\ P!VectorMatches /\ P!FreshUntilCommand /\ P!AudioFollowsAnswer
                   /\ P!ThreadsOwnSockets /\ P!PairingKept)
  BY SameAssumptions, P!VectorsMatch, P!FreshVectors, P!AudioRouted, P!SocketsOwned,
     P!PairingSurvives, PTL
<1> QED
  BY <1>1, IsP, SameInvariants, PTL
=============================================================================
