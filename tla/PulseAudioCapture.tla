-------------------------- MODULE PulseAudioCapture --------------------------
(***************************************************************************)
(* The Linux capture component (PulseAudioCapture.cpp) together with the   *)
(* two AudioStream threads that call it.                                   *)
(*                                                                         *)
(* The component keeps its PulseAudio objects in global variables: the     *)
(* main loop, its API table, the context, the stream and the thread that   *)
(* runs the loop.  Three threads use them without a lock: the connection   *)
(* thread (StopCapture, InitializeAudioDevice, AsyncStartCapture), the     *)
(* command thread (SetPlaybackState) and the main loop thread (the stream  *)
(* callbacks).  A pointer is modelled by what it leads to: nothing, a live *)
(* object, or memory that was freed.                                       *)
(***************************************************************************)
EXTENDS Naturals

CONSTANTS
  MaxHellos,  \* bound: hello datagrams handled in a behaviour
  Commands,   \* the commands the client may send
  Configs,    \* the audio configurations config.ini may hold
  Failures    \* the environment failures that may occur in a behaviour

CommandKinds == { "ping", "play", "pause", "stop" }

FailureKinds ==
  { "connect",  \* pa_context_connect itself fails, and reports no state
    "context",  \* the context fails while it is being connected
    "stream",   \* pa_stream_new fails
    "record",   \* pa_stream_connect_record fails
    "server",   \* the stream or its server fails while the loop runs
    "peek",     \* pa_stream_peek fails
    "decrypt",  \* a hello does not decrypt
    "send" }    \* sendto fails

(* The line of config.ini as the parser sees it: the number of words, the  *)
(* encoding, and the two numbers, 0 standing for a rate out of range and   *)
(* "numeric" for whether both are numbers at all.                          *)
ConfigRecords == [words : Nat, fmt : { "pcm", "float", "other" }, bits : Nat,
                  rate : Nat, numeric : BOOLEAN]

ASSUME ConstantsAssumption ==
  /\ MaxHellos \in Nat
  /\ Commands \subseteq CommandKinds
  /\ Configs \subseteq ConfigRecords
  /\ Failures \subseteq FailureKinds

VARIABLES
  config,         \* m_audio_fmt: the configuration the program was started with
  mainloop,       \* pa_ml
  mlapi,          \* pa_mlapi
  context,        \* pa_ctx
  stream,         \* stream
  streamState,    \* the state of the live stream
  corked,         \* the live stream is paused
  quitRequested,  \* the main loop was told to quit
  thread,         \* mainloop_thread is set
  loop,           \* program point of the main loop thread
  conn,           \* program point of the connection thread
  caller,         \* where StopCapture returns to
  cmd,            \* program point of the command thread
  target,         \* the stream SetPlaybackState is about to call
  play,           \* the playback state it asks for
  format,         \* ss.format
  bits,           \* m_bitsPerSample
  hellos,         \* hello datagrams received so far
  fault           \* how the process died

vars == <<config, mainloop, mlapi, context, stream, streamState, corked,
          quitRequested, thread, loop, conn, caller, cmd, target, play, format,
          bits, hellos, fault>>

-----------------------------------------------------------------------------
Pointers     == { "null", "live", "freed" }
StreamStates == { "none", "unconnected", "creating", "ready", "failed" }
Formats      == { "s16", "s24", "s32", "float32" }
LoopPoints   == { "none", "iterate", "callback", "quitTest", "quitCall",
                  "quitClear", "ended" }
StopPoints   == { "quitTest", "quitCall", "quitClear", "join", "streamDrop",
                  "streamClear", "contextDrop" }
OwnerPoints  == { "streamDrop", "streamClear", "contextDrop", "init", "iterate",
                  "format", "reply", "newStream", "connectStream", "thread" }
ConnPoints   == StopPoints \cup OwnerPoints \cup { "recv", "hang", "exited" }
Faults       == { "none", "nullCall", "useAfterFree", "terminate" }

Init ==
  /\ config \in Configs
  /\ mainloop = "null"
  /\ mlapi = "null"
  /\ context = "null"
  /\ stream = "null"
  /\ streamState = "none"
  /\ corked = TRUE
  /\ quitRequested = FALSE
  /\ thread = FALSE
  /\ loop = "none"
  /\ conn = "recv"
  /\ caller = "init"
  /\ cmd = "recv"
  /\ target = "null"
  /\ play = FALSE
  /\ format = "float32"
  /\ bits = 0
  /\ hellos = 0
  /\ fault = "none"

-----------------------------------------------------------------------------
objects    == <<mainloop, context, stream, streamState, corked>>
loopVars   == <<mlapi, quitRequested, thread, loop>>
connVars   == <<conn, caller, hellos>>
cmdVars    == <<cmd, target, play>>
formatVars == <<format, bits>>

(* The process dies, as a call through the pointer p makes it.             *)
Die(f) ==
  /\ fault' = f
  /\ UNCHANGED <<objects, loopVars, connVars, cmdVars, formatVars>>

Misuse(p) == Die(IF p = "null" THEN "nullCall" ELSE "useAfterFree")

-----------------------------------------------------------------------------
(* quit(), as the connection thread and the main loop thread both run it:  *)
(* test pa_mlapi, call through it, set it to null.  The variable is        *)
(* neither atomic nor locked; the compiled code may keep the pointer it    *)
(* tested or read it again, and a call through a freed table may seem to   *)
(* work.                                                                   *)
QuitCall == quitRequested' = TRUE /\ UNCHANGED mlapi

QuitClear == mlapi' = "null" /\ UNCHANGED quitRequested

(* StopCapture, on the connection thread.                                  *)

StopQuitTest ==
  /\ conn = "quitTest"
  /\ conn' = IF mlapi # "null" THEN "quitCall" ELSE "join"
  /\ UNCHANGED <<objects, loopVars, caller, hellos, cmdVars, formatVars, fault>>

StopQuitCall ==
  /\ conn = "quitCall"
  /\ QuitCall
  /\ conn' = "quitClear"
  /\ UNCHANGED <<objects, thread, loop, caller, hellos, cmdVars, formatVars, fault>>

StopQuitMisuse ==
  /\ conn = "quitCall"
  /\ mlapi # "live"
  /\ Misuse(mlapi)

StopQuitClear ==
  /\ conn = "quitClear"
  /\ QuitClear
  /\ conn' = "join"
  /\ UNCHANGED <<objects, thread, loop, caller, hellos, cmdVars, formatVars, fault>>

(* Variant for checking: the thread is detached instead of joined.         *)
StopDetach ==
  /\ conn = "join"
  /\ thread' = FALSE
  /\ conn' = "streamDrop"
  /\ UNCHANGED <<objects, mlapi, quitRequested, loop, caller, hellos, cmdVars,
                 formatVars, fault>>

(* The main loop thread, if there is one, is joined and forgotten.         *)
StopJoin ==
  /\ conn = "join"
  /\ thread => loop = "ended"
  /\ thread' = FALSE
  /\ loop' = "none"
  /\ conn' = "streamDrop"
  /\ UNCHANGED <<objects, mlapi, quitRequested, caller, hellos, cmdVars,
                 formatVars, fault>>

(* Silence the callbacks of the stream, disconnect it and drop the last    *)
(* reference to it, ...                                                    *)
StopStreamDrop ==
  /\ conn = "streamDrop"
  /\ IF stream = "live"
     THEN /\ stream' = "freed"
          /\ streamState' = "none"
          /\ target' = IF target = "live" THEN "freed" ELSE target
     ELSE UNCHANGED <<stream, streamState, target>>
  /\ conn' = "streamClear"
  /\ UNCHANGED <<mainloop, context, corked, loopVars, caller, hellos, cmd, play,
                 formatVars, fault>>

(* ... and only then forget the pointer.                                   *)
StopStreamClear ==
  /\ conn = "streamClear"
  /\ stream' = "null"
  /\ conn' = "contextDrop"
  /\ UNCHANGED <<mainloop, context, streamState, corked, loopVars, caller, hellos,
                 cmdVars, formatVars, fault>>

(* Variant for checking: the pointers are not reset.                       *)
StopContextKeep ==
  /\ conn = "contextDrop"
  /\ "freed" \notin { context, mainloop }
  /\ context' = IF context = "live" THEN "freed" ELSE context
  /\ mainloop' = IF mainloop = "live" THEN "freed" ELSE mainloop
  /\ conn' = caller
  /\ UNCHANGED <<stream, streamState, corked, loopVars, caller, hellos, cmdVars,
                 formatVars, fault>>

(* Free the context and the main loop, and return to the caller.           *)
StopContextDrop ==
  /\ conn = "contextDrop"
  /\ "freed" \notin { context, mainloop }
  /\ context' = "null"
  /\ mainloop' = "null"
  /\ conn' = caller
  /\ UNCHANGED <<stream, streamState, corked, loopVars, caller, hellos, cmdVars,
                 formatVars, fault>>

StopContextMisuse ==
  /\ conn = "contextDrop"
  /\ "freed" \in { context, mainloop }
  /\ Misuse("freed")

-----------------------------------------------------------------------------
(* The connection thread: t_connection_receiver and the calls it makes.    *)

RecvHello ==
  /\ conn = "recv"
  /\ hellos < MaxHellos
  /\ hellos' = hellos + 1
  /\ conn' = "quitTest"
  /\ caller' = "init"
  /\ UNCHANGED <<objects, loopVars, cmdVars, formatVars, fault>>

(* pa_set_initial_config creates the main loop and the context and starts  *)
(* to connect it.  The result of pa_context_connect is not looked at; when *)
(* it fails, no state is ever reported and the loop that waits for one     *)
(* does not end.                                                           *)
SetInitialConfig ==
  /\ conn = "init"
  /\ mainloop' = "live"
  /\ mlapi' = "live"
  /\ context' = "live"
  /\ quitRequested' = FALSE
  /\ \/ conn' = "iterate"
     \/ "connect" \in Failures /\ conn' = "hang"
  /\ UNCHANGED <<stream, streamState, corked, thread, loop, caller, hellos, cmdVars,
                 formatVars, fault>>

(* The connection thread iterates the main loop itself until the context   *)
(* is ready and the name of the monitor device has arrived, ...            *)
ContextReady ==
  /\ conn = "iterate"
  /\ conn' = "format"
  /\ UNCHANGED <<objects, loopVars, caller, hellos, cmdVars, formatVars, fault>>

(* ... or the context has failed: both objects are freed, no pointer is    *)
(* reset, and the thread continues with the next hello.                    *)
ContextFailed ==
  /\ conn = "iterate"
  /\ "context" \in Failures
  /\ context' = "freed"
  /\ mainloop' = "freed"
  /\ mlapi' = "freed"
  /\ conn' = "recv"
  /\ UNCHANGED <<stream, streamState, corked, quitRequested, thread, loop, caller,
                 hellos, cmdVars, formatVars, fault>>

(* Variants for checking: a format no stream is opened with, and two cases *)
(* that ran together.                                                      *)
PcmFormatUnknown(n) == CASE n = 16 -> "u8" [] n = 24 -> "s24" [] n = 32 -> "s32"
                         [] OTHER -> format
PcmFormatFallThrough(n) == IF n = 16 THEN "s16" ELSE "s32"

(* The pcm sample format for a width; the code has no case for the others, *)
(* and what an earlier call stored stays.                                  *)
PcmFormat(n) == CASE n = 16 -> "s16" [] n = 24 -> "s24" [] n = 32 -> "s32"
                  [] OTHER -> format

(* The rest of InitializeAudioDevice: parse and check the configuration.   *)
ParseFormat ==
  /\ conn = "format"
  /\ config.words = 3 => config.numeric
  /\ \/ /\ config.words # 3
        /\ conn' = "recv"
        /\ UNCHANGED formatVars
     \/ /\ config.words = 3 /\ config.fmt = "pcm"
        /\ format' = PcmFormat(config.bits)
        /\ bits' = config.bits
        /\ conn' = IF config.rate > 0 THEN "reply" ELSE "recv"
     \/ /\ config.words = 3 /\ config.fmt = "float"
        /\ format' = "float32"
        /\ bits' = 32
        /\ conn' = IF config.rate > 0 THEN "reply" ELSE "recv"
     \/ /\ config.words = 3 /\ config.fmt = "other"
        /\ bits' = config.bits
        /\ conn' = "recv"
        /\ UNCHANGED format
  /\ UNCHANGED <<objects, loopVars, caller, hellos, cmdVars, fault>>

(* std::stoi throws, and nobody catches in the thread.                     *)
ParseTerminates ==
  /\ conn = "format"
  /\ config.words = 3 /\ ~config.numeric
  /\ Die("terminate")

(* Decrypt the hello, or wait for the next one; send the stream settings,  *)
(* or leave the thread.                                                    *)
Reply ==
  /\ conn = "reply"
  /\ \/ conn' = "newStream"
     \/ "decrypt" \in Failures /\ conn' = "recv"
     \/ "send" \in Failures /\ conn' = "exited"
  /\ UNCHANGED <<objects, loopVars, caller, hellos, cmdVars, formatVars, fault>>

(* AsyncStartCapture: create the stream, ...                               *)
NewStream ==
  /\ conn = "newStream"
  /\ \/ /\ stream' = "live"
        /\ streamState' = "unconnected"
        /\ conn' = "connectStream"
        /\ UNCHANGED caller
     \/ /\ "stream" \in Failures
        /\ conn' = "quitTest"
        /\ caller' = "recv"
        /\ UNCHANGED <<stream, streamState>>
  /\ UNCHANGED <<mainloop, context, corked, loopVars, hellos, cmdVars, formatVars,
                 fault>>

(* ... connect it, paused, or stop the capture again, ...                  *)
ConnectStream ==
  /\ conn = "connectStream"
  /\ \/ /\ streamState' = "creating"
        /\ corked' = TRUE
        /\ conn' = "thread"
        /\ UNCHANGED caller
     \/ /\ "record" \in Failures
        /\ conn' = "quitTest"
        /\ caller' = "recv"
        /\ UNCHANGED <<streamState, corked>>
  /\ UNCHANGED <<mainloop, context, stream, loopVars, hellos, cmdVars, formatVars,
                 fault>>

(* ... and start the thread that runs the main loop.                       *)
StartThread ==
  /\ conn = "thread"
  /\ thread' = TRUE
  /\ loop' = "iterate"
  /\ conn' = "recv"
  /\ UNCHANGED <<objects, mlapi, quitRequested, caller, hellos, cmdVars, formatVars,
                 fault>>

-----------------------------------------------------------------------------
(* The main loop thread: pa_mainloop_run and the stream callbacks.         *)
loopFrame == <<mainloop, context, stream, corked, thread, connVars, cmdVars,
               formatVars, fault>>

StreamReady ==
  /\ loop = "iterate"
  /\ streamState = "creating"
  /\ streamState' = "ready"
  /\ UNCHANGED <<loopFrame, mlapi, quitRequested, loop>>

StreamFailed ==
  /\ loop = "iterate"
  /\ "server" \in Failures
  /\ streamState \in { "creating", "ready" }
  /\ streamState' = "failed"
  /\ loop' = "quitTest"
  /\ UNCHANGED <<loopFrame, mlapi, quitRequested>>

(* Audio has arrived on a stream that is not paused; a callback that finds *)
(* no data, or a hole, changes nothing.                                    *)
StreamRead ==
  /\ loop = "iterate"
  /\ streamState = "ready" /\ ~corked
  /\ \/ loop' = "callback"
     \/ "peek" \in Failures /\ loop' = "quitTest"
  /\ UNCHANGED <<loopFrame, streamState, mlapi, quitRequested>>

StreamDrop ==
  /\ loop = "callback"
  /\ loop' = "iterate"
  /\ UNCHANGED <<loopFrame, streamState, mlapi, quitRequested>>

LoopQuitTest ==
  /\ loop = "quitTest"
  /\ loop' = IF mlapi # "null" THEN "quitCall" ELSE "iterate"
  /\ UNCHANGED <<loopFrame, streamState, mlapi, quitRequested>>

(* Variant for checking: the call is missing.                              *)
LoopQuitCallMissing ==
  /\ loop = "quitCall"
  /\ loop' = "quitClear"
  /\ UNCHANGED <<loopFrame, streamState, mlapi, quitRequested>>

LoopQuitCall ==
  /\ loop = "quitCall"
  /\ QuitCall
  /\ loop' = "quitClear"
  /\ UNCHANGED <<loopFrame, streamState>>

LoopQuitMisuse ==
  /\ loop = "quitCall"
  /\ mlapi # "live"
  /\ Misuse(mlapi)

LoopQuitClear ==
  /\ loop = "quitClear"
  /\ QuitClear
  /\ loop' = "iterate"
  /\ UNCHANGED <<loopFrame, streamState>>

(* pa_mainloop_run returns.                                                *)
LoopEnd ==
  /\ loop = "iterate"
  /\ quitRequested
  /\ loop' = "ended"
  /\ UNCHANGED <<loopFrame, streamState, mlapi, quitRequested>>

-----------------------------------------------------------------------------
(* The command thread.  AsyncStopCapture has an empty body here, so that   *)
(* neither command 3 nor an answer that cannot be sent changes anything.   *)

RecvCommand ==
  /\ cmd = "recv"
  /\ \E c \in Commands :
       /\ cmd' = CASE c \in { "play", "pause" } -> "load"
                   [] c = "stop" -> "stop"
                   [] OTHER -> "recv"
       /\ play' = (c = "play")
  /\ UNCHANGED <<objects, loopVars, connVars, target, formatVars, fault>>

AsyncStopCapture ==
  /\ cmd = "stop"
  /\ cmd' = "recv"
  /\ UNCHANGED <<objects, loopVars, connVars, target, play, formatVars, fault>>

(* SetPlaybackState reads the global stream pointer, ...                   *)
LoadStream ==
  /\ cmd = "load"
  /\ target' = stream
  /\ cmd' = "cork"
  /\ UNCHANGED <<objects, loopVars, connVars, play, formatVars, fault>>

(* ... and calls pa_stream_cork, which refuses a stream that is not ready. *)
CorkStream ==
  /\ cmd = "cork"
  /\ target = "live"
  /\ corked' = IF streamState = "ready" THEN ~play ELSE corked
  /\ cmd' = "recv"
  /\ UNCHANGED <<mainloop, context, stream, streamState, loopVars, connVars, target,
                 play, formatVars, fault>>

CorkMisuse ==
  /\ cmd = "cork"
  /\ target # "live"
  /\ Misuse(target)

-----------------------------------------------------------------------------
StopStep == \/ StopQuitTest \/ StopQuitCall \/ StopQuitMisuse \/ StopQuitClear
            \/ StopJoin \/ StopStreamDrop \/ StopStreamClear
            \/ StopContextDrop \/ StopContextMisuse

HelloStep == \/ SetInitialConfig \/ ContextReady \/ ContextFailed \/ ParseFormat
             \/ ParseTerminates \/ Reply \/ NewStream \/ ConnectStream
             \/ StartThread

LoopStep == \/ StreamReady \/ StreamFailed \/ StreamRead \/ StreamDrop
            \/ LoopQuitTest \/ LoopQuitCall \/ LoopQuitMisuse \/ LoopQuitClear
            \/ LoopEnd

CmdStep == AsyncStopCapture \/ LoadStream \/ CorkStream \/ CorkMisuse

Alive == fault = "none"

(* A process that died does nothing more.                                  *)
Dead == ~Alive /\ UNCHANGED vars

Next ==
  \/ /\ Alive
     /\ RecvHello \/ StopStep \/ HelloStep \/ LoopStep \/ RecvCommand \/ CmdStep
     /\ UNCHANGED config
  \/ Dead

Spec == Init /\ [][Next]_vars

(* Every thread keeps running, but nobody is obliged to send a hello or a  *)
(* command.  The main loop tests its quit flag in every iteration, however *)
(* much audio arrives.                                                     *)
Fairness ==
  /\ WF_vars(Alive /\ (StopStep \/ HelloStep) /\ UNCHANGED config)
  /\ WF_vars(Alive /\ LoopStep /\ UNCHANGED config)
  /\ SF_vars(Alive /\ LoopEnd /\ UNCHANGED config)
  /\ WF_vars(Alive /\ CmdStep /\ UNCHANGED config)

FairSpec == Spec /\ Fairness

-----------------------------------------------------------------------------
(* Every variable has its type.                                            *)
TypeOK ==
  /\ config \in Configs
  /\ mainloop \in Pointers /\ mlapi \in Pointers /\ context \in Pointers
  /\ stream \in Pointers /\ target \in Pointers
  /\ streamState \in StreamStates
  /\ corked \in BOOLEAN /\ quitRequested \in BOOLEAN
  /\ thread \in BOOLEAN /\ play \in BOOLEAN
  /\ loop \in LoopPoints
  /\ conn \in ConnPoints
  /\ caller \in { "init", "recv" }
  /\ cmd \in { "recv", "stop", "load", "cork" }
  /\ format \in Formats
  /\ bits \in Nat
  /\ hellos \in 0 .. MaxHellos
  /\ fault \in Faults

(* The main loop is not thread safe, and neither are the cipher and the    *)
(* random generator that the audio callback shares with the connection     *)
(* thread: whenever the connection thread works on the PulseAudio objects, *)
(* iterates the loop itself or encrypts its answer, the loop thread is     *)
(* gone, however the stream failed before.                                 *)
LoopExclusive == conn \in OwnerPoints => loop = "none"

(* The loop thread never outlives the objects its callbacks use.           *)
LoopHasObjects ==
  loop \notin { "none", "ended" } =>
    mainloop = "live" /\ context = "live" /\ stream = "live"

(* quit() clears pa_mlapi so that it is called once; whoever finds it      *)
(* cleared relies on the other thread having told the loop to quit.  If    *)
(* that were wrong, StopCapture would join a thread that never ends.       *)
QuitWasRequested ==
  loop \notin { "none", "ended" } /\ mlapi = "null" => quitRequested

(* A new session starts from nothing: pa_set_initial_config overwrites no  *)
(* pointer to an object that is still alive.                               *)
FreshInit ==
  conn = "init" =>
    /\ mainloop = "null" /\ mlapi = "null" /\ context = "null"
    /\ stream = "null" /\ ~thread

(* The settings the client is told describe the samples it will receive,   *)
(* whatever configuration an earlier session of the process was given.     *)
(* The one exception is a pcm width the code has no format for: it is      *)
(* announced as it stands, and what flows is 32 bit float.                 *)
Width == [f \in Formats |-> CASE f = "s16" -> 16 [] f = "s24" -> 24
                               [] OTHER -> 32]
PcmWidths == { 16, 24, 32 }

SettingsMatchStream ==
  conn = "reply" =>
    IF config.fmt = "pcm" /\ config.bits \notin PcmWidths
    THEN bits = config.bits /\ format = "float32"
    ELSE bits = Width[format] /\ (config.fmt = "float" <=> format = "float32")

(* StopCapture returns, whatever happened to the stream and its server     *)
(* and however much audio keeps arriving.                                  *)
StopReturns == (conn \in StopPoints) ~> (conn \notin StopPoints \/ ~Alive)

(* The back end keeps the promise of CaptureDevice: no audio callback runs *)
(* between the return of StopCapture and the next AsyncStartCapture.       *)
Device == INSTANCE CaptureDevice WITH open <- thread, delivering <- loop = "callback"
DeviceSpec == Device!Spec

(* Freed memory is not used again.                                         *)
NoUseAfterFree == fault # "useAfterFree"

(* Command 1 plays the stream.                                             *)
PlayStarts ==
  (cmd = "cork" /\ play /\ target = "live") ~>
    (~corked \/ target # "live" \/ ~Alive)
=============================================================================
