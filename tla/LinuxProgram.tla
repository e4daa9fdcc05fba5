---------------------------- MODULE LinuxProgram ----------------------------
(***************************************************************************)
(* The whole Linux program: Main and AudioStream with PulseAudioCapture in *)
(* the place of CaptureDevice.  A step is one of the back end, one of the  *)
(* program above it, or, where one calls the other, one of both.           *)
(*                                                                         *)
(* The program points of the two modules go together: the connection       *)
(* thread is at "stop", "init" or "start" of AudioStream while it is       *)
(* inside a call of the back end, and at "reply" of the back end while it  *)
(* decrypts, answers and connects.  StopCapture counts as returned when    *)
(* the loop thread is joined, what it frees after that being its own.      *)
(* Nothing here asks whether the back end may open, deliver or close: that *)
(* it does so only when CaptureDevice says is what ProgramSpec shows.      *)
(***************************************************************************)
EXTENDS PulseAudioCapture

CONSTANTS
  Clients, NoClient, MaxDraws,                      \* as in AudioStream
  Codes, UserFiles, Numbers, LongCodes, MaxStarts,  \* as in Main
  OtherFailures  \* the failures outside the back end that may occur

VARIABLES
  setup, sockets, pc, stopAsked, iv, generator, vector, answered, peer,
  connected, used, commanded,                       \* as in AudioStream
  file, exists, main, code, warned, known, replaced,
  starts                                            \* as in Main

streamFrame == <<setup, sockets, pc, stopAsked, iv, generator, vector, answered,
                 peer, connected, used, commanded>>
mainFrame   == <<file, exists, main, code, warned, known, replaced, starts>>

(* What Main knows of the failures in the back end, and of those both      *)
(* modules tell of.                                                        *)
ProgramFailures ==
  OtherFailures \cup { "device", "start" } \cup ({ "send" } \cap Failures)
    \cup (IF "decrypt" \in Failures THEN { "garbled" } ELSE {})
    \cup (IF "connect" \in Failures THEN { "hang" } ELSE {})

(* AsyncStopCapture is empty on Linux: stopAsked is never taken back.      *)
Program == INSTANCE Main WITH open <- thread

ASSUME LinuxAssumption ==
  /\ Program!StreamAssumption /\ Program!MainAssumption
  /\ { "garbled", "send", "hang" } \cap OtherFailures = {}

LinuxInit == Init /\ Program!Init

-----------------------------------------------------------------------------
(* The memory of the back end goes with the process; the next one may find *)
(* another audio format in config.ini.                                     *)
BackEndReset ==
  /\ config' \in Configs
  /\ mainloop' = "null" /\ mlapi' = "null" /\ context' = "null"
  /\ stream' = "null" /\ streamState' = "none" /\ corked' = TRUE
  /\ quitRequested' = FALSE /\ thread' = FALSE /\ loop' = "none"
  /\ conn' = "recv" /\ caller' = "init" /\ hellos' = 0
  /\ cmd' = "recv" /\ target' = "null" /\ play' = FALSE
  /\ format' = "float32" /\ bits' = 0
  /\ fault' = "none"

MainStep ==
  /\ \/ Program!Start \/ Program!CreateConfig \/ Program!WriteConfig
     \/ Program!ListAddresses \/ Program!Construct \/ Program!RunInit
     \/ Program!Destroy \/ Program!Crash \/ Program!EditConfig
  /\ IF main # "off" /\ main' = "off" THEN BackEndReset ELSE UNCHANGED vars

-----------------------------------------------------------------------------
(* A step inside the back end, and one of the program that uses none of it. *)
Inside(step)  == step /\ UNCHANGED streamFrame
Outside(step) == step /\ UNCHANGED vars

HelloArrives == RecvHello /\ Program!RecvHello

ReceiveFails == Outside(Program!RecvFails)

(* StopCapture, for a hello or for a start that failed.                    *)
Stopping ==
  \/ Inside(StopQuitTest \/ StopQuitCall \/ StopQuitMisuse \/ StopQuitClear)
  \/ /\ StopJoin
     /\ IF caller = "init" THEN Program!StopReturned ELSE UNCHANGED streamFrame
  \/ Inside(StopStreamDrop \/ StopStreamClear \/ StopContextMisuse)
  \/ /\ StopContextDrop
     /\ IF caller = "recv" THEN Program!StartReturned ELSE UNCHANGED streamFrame

(* InitializeAudioDevice, which returns whether the device is set up, or   *)
(* waits for a state of the context that nobody reports.                   *)
Initializing ==
  \/ Inside(ContextReady \/ ParseTerminates)
  \/ /\ SetInitialConfig
     /\ IF conn' = "hang" THEN Program!InitializeAudioDevice /\ pc'["conn"] = "hang"
                          ELSE UNCHANGED streamFrame
  \/ /\ ParseFormat \/ ContextFailed
     /\ Program!InitializeAudioDevice
     /\ pc'["conn"] = IF conn' = "reply" THEN "in.set" ELSE "recv"

(* Decrypt the hello, answer it and connect the socket.                    *)
Answering ==
  /\ \/ Program!DecryptHello \/ Program!CipherStep("conn")
     \/ Program!SendSettings \/ Program!Connect
  /\ \/ pc'["conn"] \notin { "start", "recv", "returned" } /\ UNCHANGED vars
     \/ Reply /\ pc'["conn"] = CASE conn' = "newStream" -> "start"
                                 [] conn' = "recv" -> "recv"
                                 [] conn' = "exited" -> "returned"

(* AsyncStartCapture.                                                      *)
Starting ==
  \/ Inside(NewStream \/ ConnectStream)
  \/ StartThread /\ Program!StartReturned

ConnThread == Stopping \/ Initializing \/ Answering \/ Starting

(* The main loop thread, which runs the audio callback.                    *)
LoopThread ==
  \/ Inside(\/ StreamReady \/ StreamFailed
            \/ LoopQuitTest \/ LoopQuitCall \/ LoopQuitMisuse \/ LoopQuitClear)
  \/ /\ StreamRead
     /\ IF loop' = "callback" THEN Program!CallbackEntered ELSE UNCHANGED streamFrame
  \/ Outside(Program!CipherStep("audio"))
  \/ StreamDrop /\ Program!SendAudio

LoopReturns == Inside(LoopEnd)

(* The command thread; it answers when the call is done.                   *)
CommandArrives == RecvCommand /\ Program!RecvCommand

CmdThread ==
  \/ Inside(CmdStep)
  \/ cmd = "recv" /\ Outside(Program!CmdStep)

-----------------------------------------------------------------------------
While(step) ==
  main = "running" /\ Alive /\ step /\ UNCHANGED <<mainFrame, config>>

LinuxNext ==
  \/ MainStep
  \/ While(\/ HelloArrives \/ ReceiveFails \/ CommandArrives
           \/ ConnThread \/ LoopThread \/ LoopReturns \/ CmdThread)

linuxVars == <<vars, streamFrame, mainFrame>>

LinuxSpec == LinuxInit /\ [][LinuxNext]_linuxVars

(* The fairness of PulseAudioCapture and of Main, but for what Main takes   *)
(* on trust: nothing is assumed of StopCapture as a whole.                 *)
LinuxFairness ==
  /\ WF_linuxVars(While(ConnThread))
  /\ WF_linuxVars(While(LoopThread))
  /\ SF_linuxVars(While(LoopReturns))
  /\ WF_linuxVars(While(CmdThread))

LinuxFairSpec == LinuxSpec /\ LinuxFairness

-----------------------------------------------------------------------------
(* The Linux program implements Main over CaptureDevice: whatever the back *)
(* end does inside, it opens, delivers and closes as the two threads of    *)
(* AudioStream rely on, so that what holds of Main holds of the program.   *)
ProgramSpec == Program!Spec

(* Every hello is handled to its end: that StopCapture returns is not      *)
(* assumed here, as in Main, but follows from the main loop.  Only the     *)
(* death of the process and a context that reports no state stop it.       *)
AllHandled ==
  pc["conn"] \in Program!HelloPoints ~>
    (pc["conn"] \notin Program!HelloPoints \/ ~Alive)
=============================================================================
