----------------------- MODULE PulseAudioCapture_proofs -----------------------
(***************************************************************************)
(* Theorems about PulseAudioCapture, for any number of hellos, any         *)
(* commands, configurations and failures.                                  *)
(***************************************************************************)
EXTENDS PulseAudioCapture, TLAPS

LoopRuns == loop \notin { "none", "ended" }

(* Between pa_set_initial_config and the start of the loop thread the      *)
(* connection thread holds a live main loop and context, and from          *)
(* pa_stream_new on a live stream.                                         *)
OwnerHasObjects ==
  /\ conn \in { "iterate", "format", "reply", "newStream", "connectStream", "thread" } =>
       mainloop = "live" /\ mlapi = "live" /\ context = "live"
  /\ conn \in { "connectStream", "thread" } => stream = "live"

(* The two invocations of quit(): the API table is live or cleared, and    *)
(* whoever is about to clear it has made its call.                         *)
QuitOrder ==
  /\ LoopRuns => mlapi # "freed"
  /\ LoopRuns /\ conn = "quitClear" => quitRequested
  /\ loop = "quitClear" => quitRequested
  /\ conn \in { "join", "streamDrop", "streamClear", "contextDrop", "init" } =>
       mlapi = "null"

(* StopCapture resets its pointers one after the other.                    *)
StopOrder ==
  /\ conn \in { "contextDrop", "init" } => stream = "null"
  /\ conn = "init" => mainloop = "null" /\ context = "null"

(* mainloop_thread is set exactly while there is a thread to join.         *)
ThreadIsLoop == thread <=> loop # "none"

Inv ==
  /\ ThreadIsLoop
  /\ LoopExclusive
  /\ LoopHasObjects
  /\ QuitWasRequested
  /\ OwnerHasObjects
  /\ QuitOrder
  /\ StopOrder

LEMMA TypeInit == Init => TypeOK
<1> SUFFICES ASSUME Init PROVE TypeOK
  OBVIOUS
<1>1. /\ corked \in BOOLEAN /\ quitRequested \in BOOLEAN
      /\ thread \in BOOLEAN /\ play \in BOOLEAN
  BY Zenon DEF Init
<1>2. hellos \in 0 .. MaxHellos /\ bits \in Nat
  BY ConstantsAssumption DEF ConstantsAssumption, Init
<1> QED
  BY <1>1, <1>2 DEF Init, TypeOK, Pointers, StreamStates, Formats, LoopPoints,
     StopPoints, OwnerPoints, ConnPoints, Faults

LEMMA TypeStop ==
  ASSUME TypeOK, StopStep, UNCHANGED config
  PROVE  TypeOK'
<1> USE DEF TypeOK, Pointers, StreamStates, Formats, LoopPoints, StopPoints,
            OwnerPoints, ConnPoints, Faults, objects, loopVars, connVars, cmdVars,
            formatVars, loopFrame
<1>1. CASE StopQuitTest
  BY <1>1 DEF StopQuitTest
<1>2. CASE StopQuitCall
  BY <1>2 DEF StopQuitCall, QuitCall
<1>3. CASE StopQuitMisuse
  BY <1>3 DEF StopQuitMisuse, Misuse, Die
<1>4. CASE StopQuitClear
  BY <1>4 DEF StopQuitClear, QuitClear
<1>5. CASE StopJoin
  <2>1. thread' \in BOOLEAN
    BY <1>5, Zenon DEF StopJoin
  <2>2. loop' \in LoopPoints /\ conn' \in ConnPoints
    BY <1>5 DEF StopJoin
  <2>3. UNCHANGED <<objects, mlapi, quitRequested, caller, hellos, cmdVars,
                    formatVars, fault>>
    BY <1>5 DEF StopJoin
  <2> QED
    BY <2>1, <2>2, <2>3
<1>6. CASE StopStreamDrop
  BY <1>6 DEF StopStreamDrop
<1>7. CASE StopStreamClear
  BY <1>7 DEF StopStreamClear
<1>8. CASE StopContextDrop
  BY <1>8 DEF StopContextDrop
<1>9. CASE StopContextMisuse
  BY <1>9 DEF StopContextMisuse, Misuse, Die
<1> QED
  BY <1>1, <1>2, <1>3, <1>4, <1>5, <1>6, <1>7, <1>8, <1>9 DEF StopStep

LEMMA TypeHello ==
  ASSUME TypeOK, HelloStep, UNCHANGED config
  PROVE  TypeOK'
<1> USE DEF TypeOK, Pointers, StreamStates, Formats, LoopPoints, StopPoints,
            OwnerPoints, ConnPoints, Faults, objects, loopVars, connVars, cmdVars,
            formatVars, loopFrame
<1>1. CASE SetInitialConfig
  <2>1. quitRequested' \in BOOLEAN
    BY <1>1, Zenon DEF SetInitialConfig
  <2>2. /\ mainloop' \in Pointers /\ mlapi' \in Pointers /\ context' \in Pointers
        /\ conn' \in ConnPoints
    BY <1>1 DEF SetInitialConfig
  <2>3. UNCHANGED <<stream, streamState, corked, thread, loop, caller, hellos,
                    cmdVars, formatVars, fault>>
    BY <1>1 DEF SetInitialConfig
  <2> QED
    BY <2>1, <2>2, <2>3
<1>2. CASE ContextReady
  BY <1>2 DEF ContextReady
<1>3. CASE ContextFailed
  BY <1>3 DEF ContextFailed
<1>4. CASE ParseFormat
  BY <1>4, ConstantsAssumption DEF ParseFormat, PcmFormat, ConstantsAssumption, ConfigRecords
<1>5. CASE ParseTerminates
  BY <1>5 DEF ParseTerminates, Die
<1>6. CASE Reply
  BY <1>6 DEF Reply
<1>7. CASE NewStream
  BY <1>7 DEF NewStream
<1>8. CASE ConnectStream
  <2>1. corked' \in BOOLEAN
    BY <1>8, Zenon DEF ConnectStream
  <2>2. streamState' \in StreamStates /\ conn' \in ConnPoints /\ caller' \in { "init", "recv" }
    BY <1>8 DEF ConnectStream
  <2>3. UNCHANGED <<mainloop, context, stream, loopVars, hellos, cmdVars, formatVars,
                    fault>>
    BY <1>8 DEF ConnectStream
  <2> QED
    BY <2>1, <2>2, <2>3
<1>9. CASE StartThread
  BY <1>9 DEF StartThread
<1> QED
  BY <1>1, <1>2, <1>3, <1>4, <1>5, <1>6, <1>7, <1>8, <1>9 DEF HelloStep

LEMMA TypeLoop ==
  ASSUME TypeOK, LoopStep, UNCHANGED config
  PROVE  TypeOK'
<1> USE DEF TypeOK, Pointers, StreamStates, Formats, LoopPoints, StopPoints,
            OwnerPoints, ConnPoints, Faults, objects, loopVars, connVars, cmdVars,
            formatVars, loopFrame
<1>1. CASE StreamReady
  BY <1>1 DEF StreamReady
<1>2. CASE StreamFailed
  BY <1>2 DEF StreamFailed
<1>3. CASE StreamRead
  BY <1>3 DEF StreamRead
<1>4. CASE StreamDrop
  BY <1>4 DEF StreamDrop
<1>5. CASE LoopQuitTest
  BY <1>5 DEF LoopQuitTest
<1>6. CASE LoopQuitCall
  BY <1>6 DEF LoopQuitCall, QuitCall
<1>7. CASE LoopQuitMisuse
  BY <1>7 DEF LoopQuitMisuse, Misuse, Die
<1>8. CASE LoopQuitClear
  BY <1>8 DEF LoopQuitClear, QuitClear
<1>9. CASE LoopEnd
  BY <1>9 DEF LoopEnd
<1> QED
  BY <1>1, <1>2, <1>3, <1>4, <1>5, <1>6, <1>7, <1>8, <1>9 DEF LoopStep

LEMMA TypeCmd ==
  ASSUME TypeOK, CmdStep, UNCHANGED config
  PROVE  TypeOK'
<1> USE DEF TypeOK, Pointers, StreamStates, Formats, LoopPoints, StopPoints,
            OwnerPoints, ConnPoints, Faults, objects, loopVars, connVars, cmdVars,
            formatVars, loopFrame
<1>1. CASE AsyncStopCapture
  BY <1>1 DEF AsyncStopCapture
<1>2. CASE LoadStream
  BY <1>2 DEF LoadStream
<1>3. CASE CorkStream
  <2>1. corked' \in BOOLEAN
    <3>1. corked' = ~play \/ corked' = corked
      BY <1>3 DEF CorkStream
    <3> QED
      BY <3>1, Zenon
  <2>2. UNCHANGED <<mainloop, context, stream, streamState, loopVars, connVars,
                    target, play, formatVars, fault>>
    BY <1>3 DEF CorkStream
  <2>3. cmd' = "recv"
    BY <1>3 DEF CorkStream
  <2> QED
    BY <2>1, <2>2, <2>3
<1>4. CASE CorkMisuse
  BY <1>4 DEF CorkMisuse, Misuse, Die
<1> QED
  BY <1>1, <1>2, <1>3, <1>4 DEF CmdStep

LEMMA TypeRecv ==
  ASSUME TypeOK, RecvHello \/ RecvCommand, UNCHANGED config
  PROVE  TypeOK'
<1> USE DEF TypeOK, ConnPoints, StopPoints, objects, loopVars, connVars, cmdVars,
            formatVars
<1>1. CASE RecvHello
  BY <1>1, ConstantsAssumption DEF RecvHello, ConstantsAssumption
<1>2. CASE RecvCommand
  BY <1>2 DEF RecvCommand
<1> QED
  BY <1>1, <1>2

LEMMA TypeNext == TypeOK /\ [Next]_vars => TypeOK'
<1> SUFFICES ASSUME TypeOK, [Next]_vars PROVE TypeOK'
  OBVIOUS
<1>1. CASE UNCHANGED vars
  BY <1>1 DEF vars, TypeOK
<1>2. CASE Dead
  BY <1>1, <1>2 DEF Dead
<1> QED
  BY <1>1, <1>2, TypeStop, TypeHello, TypeLoop, TypeCmd, TypeRecv DEF Next

(* Every variable keeps its type.                                          *)
THEOREM TypeCorrect == Spec => []TypeOK
BY TypeInit, TypeNext, PTL DEF Spec

-----------------------------------------------------------------------------
LEMMA InvInit == Init => Inv
BY DEF Init, Inv, ThreadIsLoop, LoopExclusive, LoopHasObjects, QuitWasRequested,
       OwnerHasObjects, QuitOrder, StopOrder, LoopRuns, OwnerPoints

LEMMA InvStop ==
  ASSUME TypeOK, Inv, StopStep
  PROVE  Inv'
<1> USE DEF TypeOK, Inv, ThreadIsLoop, LoopExclusive, LoopHasObjects, QuitWasRequested,
            OwnerHasObjects, QuitOrder, StopOrder, LoopRuns, OwnerPoints,
            objects, loopVars, connVars, cmdVars, formatVars, loopFrame
<1>1. CASE StopQuitTest
  BY <1>1 DEF StopQuitTest
<1>2. CASE StopQuitCall
  BY <1>2 DEF StopQuitCall, QuitCall
<1>3. CASE StopQuitMisuse
  BY <1>3 DEF StopQuitMisuse, Misuse, Die
<1>4. CASE StopQuitClear
  BY <1>4 DEF StopQuitClear, QuitClear
<1>5. CASE StopJoin
  BY <1>5 DEF StopJoin
<1>6. CASE StopStreamDrop
  BY <1>6 DEF StopStreamDrop
<1>7. CASE StopStreamClear
  BY <1>7 DEF StopStreamClear
<1>8. CASE StopContextDrop
  BY <1>8 DEF StopContextDrop
<1>9. CASE StopContextMisuse
  BY <1>9 DEF StopContextMisuse, Misuse, Die
<1> QED
  BY <1>1, <1>2, <1>3, <1>4, <1>5, <1>6, <1>7, <1>8, <1>9 DEF StopStep

LEMMA InvHello ==
  ASSUME TypeOK, Inv, HelloStep
  PROVE  Inv'
<1> USE DEF TypeOK, Inv, ThreadIsLoop, LoopExclusive, LoopHasObjects, QuitWasRequested,
            OwnerHasObjects, QuitOrder, StopOrder, LoopRuns, OwnerPoints,
            objects, loopVars, connVars, cmdVars, formatVars, loopFrame
<1>1. CASE SetInitialConfig
  BY <1>1 DEF SetInitialConfig
<1>2. CASE ContextReady
  BY <1>2 DEF ContextReady
<1>3. CASE ContextFailed
  BY <1>3 DEF ContextFailed
<1>4. CASE ParseFormat
  BY <1>4 DEF ParseFormat
<1>5. CASE ParseTerminates
  BY <1>5 DEF ParseTerminates, Die
<1>6. CASE Reply
  BY <1>6 DEF Reply
<1>7. CASE NewStream
  BY <1>7 DEF NewStream
<1>8. CASE ConnectStream
  BY <1>8 DEF ConnectStream
<1>9. CASE StartThread
  BY <1>9 DEF StartThread
<1> QED
  BY <1>1, <1>2, <1>3, <1>4, <1>5, <1>6, <1>7, <1>8, <1>9 DEF HelloStep

LEMMA InvLoop ==
  ASSUME TypeOK, Inv, LoopStep
  PROVE  Inv'
<1> USE DEF TypeOK, Inv, ThreadIsLoop, LoopExclusive, LoopHasObjects, QuitWasRequested,
            OwnerHasObjects, QuitOrder, StopOrder, LoopRuns, OwnerPoints,
            objects, loopVars, connVars, cmdVars, formatVars, loopFrame
<1>1. CASE StreamReady
  BY <1>1 DEF StreamReady
<1>2. CASE StreamFailed
  BY <1>2 DEF StreamFailed
<1>3. CASE StreamRead
  BY <1>3 DEF StreamRead
<1>4. CASE StreamDrop
  BY <1>4 DEF StreamDrop
<1>5. CASE LoopQuitTest
  BY <1>5 DEF LoopQuitTest
<1>6. CASE LoopQuitCall
  BY <1>6 DEF LoopQuitCall, QuitCall
<1>7. CASE LoopQuitMisuse
  BY <1>7 DEF LoopQuitMisuse, Misuse, Die
<1>8. CASE LoopQuitClear
  BY <1>8 DEF LoopQuitClear, QuitClear
<1>9. CASE LoopEnd
  BY <1>9 DEF LoopEnd
<1> QED
  BY <1>1, <1>2, <1>3, <1>4, <1>5, <1>6, <1>7, <1>8, <1>9 DEF LoopStep

LEMMA InvCmd ==
  ASSUME TypeOK, Inv, CmdStep
  PROVE  Inv'
<1> USE DEF TypeOK, Inv, ThreadIsLoop, LoopExclusive, LoopHasObjects, QuitWasRequested,
            OwnerHasObjects, QuitOrder, StopOrder, LoopRuns, OwnerPoints,
            objects, loopVars, connVars, cmdVars, formatVars, loopFrame
<1>1. CASE AsyncStopCapture
  BY <1>1 DEF AsyncStopCapture
<1>2. CASE LoadStream
  BY <1>2 DEF LoadStream
<1>3. CASE CorkStream
  BY <1>3 DEF CorkStream
<1>4. CASE CorkMisuse
  BY <1>4 DEF CorkMisuse, Misuse, Die
<1> QED
  BY <1>1, <1>2, <1>3, <1>4 DEF CmdStep

LEMMA InvRecv ==
  ASSUME TypeOK, Inv, RecvHello \/ RecvCommand
  PROVE  Inv'
<1> USE DEF Inv, ThreadIsLoop, LoopExclusive, LoopHasObjects, QuitWasRequested,
            OwnerHasObjects, QuitOrder, StopOrder, LoopRuns, OwnerPoints,
            objects, loopVars, connVars
<1>1. CASE RecvHello
  BY <1>1 DEF RecvHello
<1>2. CASE RecvCommand
  BY <1>2 DEF RecvCommand
<1> QED
  BY <1>1, <1>2

LEMMA InvNext == TypeOK /\ Inv /\ [Next]_vars => Inv'
<1> SUFFICES ASSUME TypeOK, Inv, [Next]_vars PROVE Inv'
  OBVIOUS
<1>1. CASE UNCHANGED vars
  BY <1>1 DEF vars, Inv, ThreadIsLoop, LoopExclusive, LoopHasObjects,
     QuitWasRequested, OwnerHasObjects, QuitOrder, StopOrder, LoopRuns
<1>2. CASE Dead
  BY <1>1, <1>2 DEF Dead
<1> QED
  BY <1>1, <1>2, InvStop, InvHello, InvLoop, InvCmd, InvRecv DEF Next

LEMMA Invariance == Spec => [](TypeOK /\ Inv)
<1>1. Init => TypeOK /\ Inv
  BY TypeInit, InvInit
<1>2. TypeOK /\ Inv /\ [Next]_vars => (TypeOK /\ Inv)'
  BY TypeNext, InvNext
<1> QED
  BY <1>1, <1>2, PTL DEF Spec

(* The connection thread works on the PulseAudio objects, the cipher and   *)
(* the random generator only while there is no main loop thread.           *)
THEOREM Exclusion == Spec => []LoopExclusive
<1>1. Inv => LoopExclusive
  BY DEF Inv
<1> QED
  BY <1>1, Invariance, PTL

(* The callbacks of the main loop thread always find their objects alive.  *)
THEOREM ObjectsOutliveLoop == Spec => []LoopHasObjects
<1>1. Inv => LoopHasObjects
  BY DEF Inv
<1> QED
  BY <1>1, Invariance, PTL

(* A cleared pa_mlapi means that the running loop was told to quit, so the *)
(* join in StopCapture waits for a thread that is about to end.            *)
THEOREM QuitNotLost == Spec => []QuitWasRequested
<1>1. Inv => QuitWasRequested
  BY DEF Inv
<1> QED
  BY <1>1, Invariance, PTL

(* pa_set_initial_config overwrites no pointer to a live object.           *)
THEOREM NothingLeaks == Spec => []FreshInit
<1>1. Inv => FreshInit
  BY DEF Inv, FreshInit, ThreadIsLoop, LoopExclusive, OwnerPoints, QuitOrder, StopOrder
<1> QED
  BY <1>1, Invariance, PTL

-----------------------------------------------------------------------------
(* Only three steps change what CaptureDevice sees: the start and the join *)
(* of the thread, and the audio callback.                                  *)
LEMMA DeviceStep ==
  ASSUME TypeOK, Inv, [Next]_vars
  PROVE  [Device!Next]_(Device!vars)
<1> USE DEF Device!Next, Device!vars, Device!Open, Device!Close, Device!Deliver,
            Device!Return, objects, loopVars, connVars, cmdVars, formatVars, loopFrame
<1>1. CASE UNCHANGED vars
  BY <1>1 DEF vars
<1>2. CASE Dead
  BY <1>1, <1>2 DEF Dead
<1>3. CASE RecvHello \/ RecvCommand \/ CmdStep
  BY <1>3 DEF RecvHello, RecvCommand, CmdStep, AsyncStopCapture, LoadStream,
     CorkStream, CorkMisuse, Misuse, Die
<1>4. CASE StopJoin
  BY <1>4 DEF StopJoin, TypeOK, Inv, ThreadIsLoop
<1>5. CASE StopStep /\ ~StopJoin
  BY <1>5 DEF StopStep, StopQuitTest, StopQuitCall, StopQuitMisuse, StopQuitClear,
     StopStreamDrop, StopStreamClear, StopContextDrop, StopContextMisuse, QuitCall,
     QuitClear, Misuse, Die
<1>6. CASE StartThread
  BY <1>6 DEF StartThread, TypeOK, Inv, ThreadIsLoop, LoopExclusive, OwnerPoints
<1>7. CASE HelloStep /\ ~StartThread
  BY <1>7 DEF HelloStep, SetInitialConfig, ContextReady, ContextFailed, ParseFormat,
     ParseTerminates, Reply, NewStream, ConnectStream, Die
<1>8. CASE StreamRead
  BY <1>8 DEF StreamRead, TypeOK, Inv, ThreadIsLoop
<1>9. CASE StreamDrop
  BY <1>9 DEF StreamDrop
<1>10. CASE LoopStep /\ ~StreamRead /\ ~StreamDrop
  BY <1>10 DEF LoopStep, StreamReady, StreamFailed, LoopQuitTest, LoopQuitCall,
     LoopQuitMisuse, LoopQuitClear, LoopEnd, QuitCall, QuitClear, Misuse, Die
<1> QED
  BY <1>1, <1>2, <1>3, <1>4, <1>5, <1>6, <1>7, <1>8, <1>9, <1>10 DEF Next

(* The back end implements CaptureDevice: no audio is delivered between    *)
(* the return of StopCapture and the next AsyncStartCapture.               *)
THEOREM ImplementsCaptureDevice == Spec => DeviceSpec
<1>1. Init => Device!Init
  BY DEF Init, Device!Init
<1>2. TypeOK /\ Inv /\ [Next]_vars => [Device!Next]_(Device!vars)
  BY DeviceStep
<1> QED
  BY <1>1, <1>2, Invariance, PTL DEF Spec, DeviceSpec, Device!Spec

-----------------------------------------------------------------------------
(* The format is the one before the first session or that of the           *)
(* configuration, which stays the same as long as the process runs.        *)
FormatFits ==
  format # "float32" =>
    config.fmt = "pcm" /\ config.bits \in PcmWidths /\ format = PcmFormat(config.bits)

SettingsInv == FormatFits /\ SettingsMatchStream

LEMMA SettingsStep == TypeOK /\ SettingsInv /\ [Next]_vars => SettingsInv'
<1> SUFFICES ASSUME TypeOK, SettingsInv, [Next]_vars PROVE SettingsInv'
  OBVIOUS
<1> USE DEF objects, loopVars, connVars, cmdVars, formatVars, loopFrame
<1>1. ASSUME UNCHANGED <<config, format, bits>>, conn' # "reply" \/ UNCHANGED conn
      PROVE  SettingsInv'
  BY <1>1 DEF SettingsInv, SettingsMatchStream, FormatFits, PcmFormat
<1>2. CASE ParseFormat /\ UNCHANGED config
  <2>1. Width["s16"] = 16 /\ Width["s24"] = 24 /\ Width["s32"] = 32 /\ Width["float32"] = 32
    BY DEF Width, Formats
  <2>2. CASE config.fmt = "pcm" /\ format' = PcmFormat(config.bits) /\ bits' = config.bits
    <3>1. CASE config.bits \in PcmWidths
      <4>1. \/ config.bits = 16 /\ format' = "s16"
            \/ config.bits = 24 /\ format' = "s24"
            \/ config.bits = 32 /\ format' = "s32"
        BY <2>2, <3>1 DEF PcmFormat, PcmWidths
      <4>2. bits' = Width[format'] /\ format' # "float32"
        BY <2>1, <2>2, <4>1
      <4>3. SettingsMatchStream'
        BY <1>2, <2>2, <3>1, <4>2 DEF SettingsMatchStream
      <4>4. FormatFits'
        BY <1>2, <2>2, <3>1, <4>1 DEF FormatFits, PcmFormat
      <4> QED
        BY <4>3, <4>4 DEF SettingsInv
    <3>2. CASE config.bits \notin PcmWidths
      <4>1. format = "float32"
        BY <3>2 DEF SettingsInv, FormatFits
      <4>2. format' = "float32"
        BY <2>2, <3>2, <4>1 DEF PcmFormat, PcmWidths
      <4> QED
        BY <1>2, <2>2, <3>2, <4>2 DEF SettingsInv, SettingsMatchStream, FormatFits
    <3> QED
      BY <3>1, <3>2
  <2>3. CASE config.fmt = "float" /\ format' = "float32" /\ bits' = 32
    BY <1>2, <2>1, <2>3 DEF SettingsInv, SettingsMatchStream, FormatFits
  <2>4. CASE conn' = "recv" /\ UNCHANGED format
    BY <1>2, <2>4 DEF SettingsInv, SettingsMatchStream, FormatFits, PcmFormat
  <2> QED
    BY <1>2, <2>2, <2>3, <2>4 DEF ParseFormat
<1>3. CASE StopStep /\ UNCHANGED config
  <2>1. UNCHANGED <<format, bits>>
    BY <1>3 DEF StopStep, StopQuitTest, StopQuitCall, StopQuitMisuse, StopQuitClear, StopJoin,
       StopStreamDrop, StopStreamClear, StopContextDrop, StopContextMisuse, Misuse, Die
  <2>2. conn' # "reply" \/ UNCHANGED conn
    BY <1>3 DEF TypeOK, StopStep, StopQuitTest, StopQuitCall, StopQuitMisuse, StopQuitClear, StopJoin,
       StopStreamDrop, StopStreamClear, StopContextDrop, StopContextMisuse, Misuse, Die
  <2> QED
    BY <1>1, <1>3, <2>1, <2>2
<1>4. CASE HelloStep /\ ~ParseFormat /\ UNCHANGED config
  BY <1>1, <1>4 DEF HelloStep, SetInitialConfig, ContextReady, ContextFailed, ParseTerminates,
     Reply, NewStream, ConnectStream, StartThread, Die
<1>5. CASE LoopStep /\ UNCHANGED config
  BY <1>1, <1>5 DEF LoopStep, StreamReady, StreamFailed, StreamRead, StreamDrop, LoopQuitTest,
     LoopQuitCall, LoopQuitMisuse, LoopQuitClear, LoopEnd, Misuse, Die
<1>6. CASE (RecvHello \/ RecvCommand \/ CmdStep) /\ UNCHANGED config
  BY <1>1, <1>6 DEF RecvHello, RecvCommand, CmdStep, AsyncStopCapture, LoadStream, CorkStream,
     CorkMisuse, Misuse, Die
<1>7. CASE UNCHANGED vars
  BY <1>1, <1>7 DEF vars
<1> QED
  BY <1>2, <1>3, <1>4, <1>5, <1>6, <1>7 DEF Next, Dead

(* What the client is told are the settings of the stream, whatever the    *)
(* configuration is; but for a pcm width without a sample format, when     *)
(* that width is announced of a stream of 32 bit float.                    *)
THEOREM SettingsAnnounced == Spec => []SettingsMatchStream
<1>1. Init => TypeOK /\ SettingsInv
  BY TypeInit DEF Init, SettingsInv, SettingsMatchStream, FormatFits
<1>2. TypeOK /\ SettingsInv /\ [Next]_vars => (TypeOK /\ SettingsInv)'
  BY TypeNext, SettingsStep
<1>3. SettingsInv => SettingsMatchStream
  BY DEF SettingsInv
<1> QED
  BY <1>1, <1>2, <1>3, PTL DEF Spec
===============================================================================
