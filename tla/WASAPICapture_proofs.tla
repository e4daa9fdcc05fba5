------------------------ MODULE WASAPICapture_proofs ------------------------
(***************************************************************************)
(* Theorems about WASAPICapture, for any number of hellos, any commands    *)
(* and, where a theorem does not say otherwise, any failures.              *)
(***************************************************************************)
EXTENDS WASAPICapture, TLAPS

CounterType == at \in [Labels -> Nat]

LEMMA SpawnType ==
  ASSUME CounterType, NEW l \in Labels, Spawn(l)
  PROVE  CounterType'
BY DEF CounterType, Spawn

LEMMA RetireType ==
  ASSUME CounterType, NEW l \in Labels, Retire(l)
  PROVE  CounterType'
BY DEF CounterType, Retire

LEMMA StepType ==
  ASSUME CounterType, NEW l \in Labels, NEW m \in Labels, Step(l, m)
  PROVE  CounterType'
BY DEF CounterType, Step

LEMMA PutType ==
  ASSUME CounterType, NEW l \in Labels, PutWorkItem(l)
  PROVE  CounterType'
BY SpawnType DEF CounterType, PutWorkItem

LEMMA LabelNames ==
  /\ \A l \in StartLabels \cup StopLabels \cup FinishLabels
                \cup ActivateLabels \cup SignalLabels \cup SampleLabels : l \in Labels
BY DEF Labels

LEMMA TypeInit == Init => TypeOK
<1> SUFFICES ASSUME Init PROVE TypeOK
  OBVIOUS
<1>1. deviceState \in DeviceStates /\ conn \in ConnPoints /\ cmd \in CmdPoints
  BY DEF Init, DeviceStates, ConnPoints, CmdPoints
<1>2. /\ playback \in BOOLEAN /\ done \in BOOLEAN /\ client \in BOOLEAN
      /\ asyncResult \in BOOLEAN /\ crashed \in BOOLEAN
  BY Zenon DEF Init
<1>3. at \in [Labels -> Nat] /\ armed \in Nat /\ hellos \in 0 .. MaxHellos
  BY ConstantsAssumption DEF ConstantsAssumption, Init
<1>4. key \in BOOLEAN /\ open \in BOOLEAN
  BY Zenon DEF Init
<1>5. /\ sampler \in { "out", "loop", "next", "packet", "exit", "arm" }
      /\ waitFor \in { "Stop", "Init" }
  BY DEF Init
<1> QED
  BY <1>1, <1>2, <1>3, <1>4, <1>5 DEF TypeOK

LEMMA TypeConn == TypeOK /\ ConnStep => TypeOK'
<1> SUFFICES ASSUME TypeOK, ConnStep PROVE TypeOK'
  OBVIOUS
<1> USE DEF TypeOK, callbackFrame, sampleFrame, captureVars, connVars,
            CounterType, DeviceStates, ConnPoints, CmdPoints, Labels, StartLabels,
            StopLabels, FinishLabels, ActivateLabels, SignalLabels, SampleLabels
<1>1. CASE StopTest
  <2>1. open' \in BOOLEAN
    BY <1>1, Zenon DEF StopTest
  <2> QED
    BY <1>1, <2>1 DEF StopTest
<1>2. CASE StopSet
  BY <1>2, PutType DEF StopSet
<1>3. CASE InitializeAudioDevice
  BY <1>3, SpawnType DEF InitializeAudioDevice
<1>4. CASE WaitReturn
  <2>1. done' \in BOOLEAN /\ open' \in BOOLEAN
    BY <1>4, Zenon DEF WaitReturn
  <2> QED
    BY <1>4, <2>1 DEF WaitReturn
<1>5. CASE WaitPark
  BY <1>5 DEF WaitPark
<1>6. CASE WaitSleep
  BY <1>6 DEF WaitSleep
<1>7. CASE Reply
  BY <1>7 DEF Reply
<1>8. CASE AsyncStartTest
  BY <1>8 DEF AsyncStartTest
<1>9. CASE AsyncStartSet
  <2>1. open' \in BOOLEAN
    BY <1>9, Zenon DEF AsyncStartSet
  <2> QED
    BY <1>9, <2>1, PutType DEF AsyncStartSet
<1> QED
  BY <1>1, <1>2, <1>3, <1>4, <1>5, <1>6, <1>7, <1>8, <1>9 DEF ConnStep

LEMMA TypeCmd == TypeOK /\ CmdStep => TypeOK'
<1> SUFFICES ASSUME TypeOK, CmdStep PROVE TypeOK'
  OBVIOUS
<1> USE DEF TypeOK, callbackFrame, sampleFrame, captureVars, connVars,
            CounterType, DeviceStates, ConnPoints, CmdPoints, Labels, StartLabels,
            StopLabels, FinishLabels, ActivateLabels, SignalLabels, SampleLabels
<1>1. CASE AsyncStopTest
  BY <1>1 DEF AsyncStopTest
<1>2. CASE AsyncStopSet
  BY <1>2, PutType DEF AsyncStopSet
<1>3. CASE SendAnswer
  BY <1>3 DEF SendAnswer
<1> QED
  BY <1>1, <1>2, <1>3 DEF CmdStep

LEMMA TypeStart == TypeOK /\ StartStep => TypeOK'
<1> SUFFICES ASSUME TypeOK, StartStep PROVE TypeOK'
  OBVIOUS
<1> USE DEF TypeOK, callbackFrame, sampleFrame, captureVars, connVars,
            CounterType, DeviceStates, ConnPoints, CmdPoints, Labels, StartLabels,
            StopLabels, FinishLabels, ActivateLabels, SignalLabels, SampleLabels
<1>1. CASE StartClient
  BY <1>1, StepType, RetireType DEF StartClient
<1>2. CASE StartNoClient
  BY <1>2 DEF StartNoClient, Crash
<1>3. CASE StartArm
  <2>1. key' \in BOOLEAN
    BY <1>3, Zenon DEF StartArm, Arm
  <2> QED
    BY <1>3, <2>1, StepType, RetireType DEF StartArm, Arm
<1>4. CASE StartCapturing
  BY <1>4, RetireType DEF StartCapturing
<1> QED
  BY <1>1, <1>2, <1>3, <1>4 DEF StartStep

LEMMA TypeStop == TypeOK /\ StopFinishStep => TypeOK'
<1> SUFFICES ASSUME TypeOK, StopFinishStep PROVE TypeOK'
  OBVIOUS
<1> USE DEF TypeOK, callbackFrame, sampleFrame, captureVars, connVars,
            CounterType, DeviceStates, ConnPoints, CmdPoints, Labels, StartLabels,
            StopLabels, FinishLabels, ActivateLabels, SignalLabels, SampleLabels
<1>0. CASE StopTestKey
  BY <1>0, StepType DEF StopTestKey
<1>1. CASE StopCancel
  <2>1. key' \in BOOLEAN
    BY <1>1, Zenon DEF StopCancel
  <2>2. armed' \in Nat
    BY <1>1 DEF StopCancel
  <2> QED
    BY <1>1, <2>1, <2>2, StepType DEF StopCancel
<1>2. CASE StopDropResult
  <2>1. asyncResult' \in BOOLEAN
    BY <1>2, Zenon DEF StopDropResult
  <2> QED
    BY <1>2, <2>1, StepType DEF StopDropResult
<1>3. CASE StopTestClient
  BY <1>3, StepType DEF StopTestClient
<1>4. CASE StopClient
  BY <1>4, StepType DEF StopClient
<1>5. CASE StopNoClient
  BY <1>5 DEF StopNoClient, Crash
<1>6. CASE StopFlush
  BY <1>6, StepType, RetireType DEF StopFlush
<1>7. CASE FinishStopped
  BY <1>7, StepType DEF FinishStopped
<1>8. CASE FinishRelease
  <2>1. client' \in BOOLEAN /\ asyncResult' \in BOOLEAN
    BY <1>8, Zenon DEF FinishRelease
  <2> QED
    BY <1>8, <2>1, StepType DEF FinishRelease
<1> QED
  BY <1>0, <1>1, <1>2, <1>3, <1>4, <1>5, <1>6, <1>7, <1>8 DEF StopFinishStep

LEMMA TypeActivate == TypeOK /\ ActivateStep => TypeOK'
<1> SUFFICES ASSUME TypeOK, ActivateStep PROVE TypeOK'
  OBVIOUS
<1> USE DEF TypeOK, callbackFrame, sampleFrame, captureVars, connVars,
            CounterType, DeviceStates, ConnPoints, CmdPoints, Labels, StartLabels,
            StopLabels, FinishLabels, ActivateLabels, SignalLabels, SampleLabels
<1>1. CASE ActivateResult
  <2>1. client' \in BOOLEAN /\ asyncResult' \in BOOLEAN
    BY <1>1, Zenon DEF ActivateResult
  <2>2. CounterType'
    BY <1>1, StepType DEF ActivateResult
  <2>3. UNCHANGED <<playback, connVars, cmd, deviceState, done, key, armed, sampler,
                    crashed>>
    BY <1>1 DEF ActivateResult
  <2> QED
    BY <2>1, <2>2, <2>3
<1>2. CASE ActivateInitialized
  BY <1>2, StepType DEF ActivateInitialized
<1>3. CASE ActivateError
  BY <1>3, StepType DEF ActivateError
<1>4. CASE ActivateRelease
  <2>1. client' \in BOOLEAN /\ asyncResult' \in BOOLEAN
    BY <1>4, Zenon DEF ActivateRelease
  <2> QED
    BY <1>4, <2>1, StepType DEF ActivateRelease
<1> QED
  BY <1>1, <1>2, <1>3, <1>4 DEF ActivateStep

LEMMA TypeSampler == TypeOK /\ SamplerStep => TypeOK'
<1> SUFFICES ASSUME TypeOK, SamplerStep PROVE TypeOK'
  OBVIOUS
<1> USE DEF TypeOK, callbackFrame, sampleFrame, captureVars, connVars,
            CounterType, DeviceStates, ConnPoints, CmdPoints, Labels, StartLabels,
            StopLabels, FinishLabels, ActivateLabels, SignalLabels, SampleLabels
<1>0. CASE SampleNext
  BY <1>0 DEF SampleNext
<1>1. CASE SampleLoop
  BY <1>1 DEF SampleLoop
<1>2. CASE SamplePacket
  BY <1>2, SpawnType DEF SamplePacket
<1>3. CASE SampleNoClient
  BY <1>3 DEF SampleNoClient, Crash
<1>4. CASE SampleExit
  BY <1>4 DEF SampleExit
<1>5. CASE SampleArm
  <2>1. key' \in BOOLEAN
    BY <1>5, Zenon DEF SampleArm, Arm
  <2> QED
    BY <1>5, <2>1, SpawnType DEF SampleArm, Arm
<1> QED
  BY <1>0, <1>1, <1>2, <1>3, <1>4, <1>5 DEF SamplerStep

(* The steps that are in none of the groups. *)
OtherStep == \/ RecvHello \/ SpuriousWakeup \/ RecvCommand \/ SampleReady
             \/ SetDone \/ Notify \/ SampleEnter \/ SampleError

LEMMA TypeOther == TypeOK /\ OtherStep => TypeOK'
<1> SUFFICES ASSUME TypeOK, OtherStep PROVE TypeOK'
  OBVIOUS
<1> USE DEF TypeOK, callbackFrame, sampleFrame, captureVars, connVars,
            CounterType, DeviceStates, ConnPoints, CmdPoints, Labels, StartLabels,
            StopLabels, FinishLabels, ActivateLabels, SignalLabels, SampleLabels
<1>1. CASE RecvHello
  BY <1>1, ConstantsAssumption DEF ConstantsAssumption, RecvHello
<1>2. CASE SpuriousWakeup
  BY <1>2 DEF SpuriousWakeup
<1>3. CASE RecvCommand
  <2>1. PICK c \in Commands :
          playback' = CASE c = "play" -> TRUE [] c = "pause" -> FALSE
                        [] OTHER -> playback
    BY <1>3 DEF RecvCommand
  <2>2. playback' = TRUE \/ playback' = FALSE \/ playback' = playback
    BY <2>1
  <2>3. playback' \in BOOLEAN
    BY <2>2, Zenon
  <2>4. cmd' \in CmdPoints
    BY <1>3 DEF RecvCommand
  <2>5. UNCHANGED <<deviceState, done, captureVars, at, sampler, connVars, crashed>>
    BY <1>3 DEF RecvCommand
  <2> QED
    BY <2>3, <2>4, <2>5
<1>4. CASE SampleReady
  BY <1>4, SpawnType DEF SampleReady
<1>5. CASE SetDone
  BY <1>5, StepType DEF SetDone
<1>6. CASE Notify
  BY <1>6, RetireType DEF Notify
<1>7. CASE SampleEnter
  BY <1>7, RetireType DEF SampleEnter
<1>8. CASE SampleError
  BY <1>8, RetireType DEF SampleError
<1> QED
  BY <1>1, <1>2, <1>3, <1>4, <1>5, <1>6, <1>7, <1>8 DEF OtherStep

LEMMA TypeNext == TypeOK /\ [Next]_vars => TypeOK'
<1> SUFFICES ASSUME TypeOK, [Next]_vars PROVE TypeOK'
  OBVIOUS
<1>1. CASE UNCHANGED vars
  BY <1>1 DEF vars, TypeOK
<1>2. CASE Crashed
  BY <1>2, <1>1 DEF Crashed
<1> QED
  BY <1>1, <1>2, TypeConn, TypeCmd, TypeStart, TypeStop, TypeActivate, TypeSampler,
     TypeOther
     DEF Next, WorkerStep, OtherStep

(* Every variable keeps its type, over any number of hellos and with any   *)
(* failures.                                                               *)
THEOREM TypeCorrect == Spec => []TypeOK
BY TypeInit, TypeNext, PTL DEF Spec

LEMMA WorkConn ==
  ASSUME TypeOK, "put" \notin Failures, TransientHasWork, ConnStep
  PROVE  TransientHasWork'
<1> USE DEF TypeOK, TransientHasWork, callbackFrame, sampleFrame, captureVars,
            connVars, Labels, StartLabels, StopLabels, FinishLabels, ActivateLabels,
            SignalLabels, SampleLabels
<1>1. CASE StopTest
  BY <1>1 DEF StopTest
<1>2. CASE StopSet
  BY <1>2 DEF StopSet, PutWorkItem, Spawn
<1>3. CASE InitializeAudioDevice
  BY <1>3 DEF InitializeAudioDevice, Spawn
<1>4. CASE WaitReturn
  BY <1>4 DEF WaitReturn
<1>5. CASE WaitPark
  BY <1>5 DEF WaitPark
<1>6. CASE WaitSleep
  BY <1>6 DEF WaitSleep
<1>7. CASE Reply
  BY <1>7 DEF Reply
<1>8. CASE AsyncStartTest
  BY <1>8 DEF AsyncStartTest
<1>9. CASE AsyncStartSet
  BY <1>9 DEF AsyncStartSet, PutWorkItem, Spawn
<1> QED
  BY <1>1, <1>2, <1>3, <1>4, <1>5, <1>6, <1>7, <1>8, <1>9 DEF ConnStep

LEMMA WorkCmd ==
  ASSUME TypeOK, "put" \notin Failures, TransientHasWork, CmdStep
  PROVE  TransientHasWork'
<1> USE DEF TypeOK, TransientHasWork, callbackFrame, sampleFrame, captureVars,
            connVars, Labels, StartLabels, StopLabels, FinishLabels, ActivateLabels,
            SignalLabels, SampleLabels
<1>1. CASE AsyncStopTest
  BY <1>1 DEF AsyncStopTest
<1>2. CASE AsyncStopSet
  BY <1>2 DEF AsyncStopSet, PutWorkItem, Spawn
<1>3. CASE SendAnswer
  BY <1>3 DEF SendAnswer
<1> QED
  BY <1>1, <1>2, <1>3 DEF CmdStep

LEMMA WorkStart ==
  ASSUME TypeOK, "put" \notin Failures, TransientHasWork, StartStep
  PROVE  TransientHasWork'
<1> USE DEF TypeOK, TransientHasWork, callbackFrame, sampleFrame, captureVars,
            connVars, Labels, StartLabels, StopLabels, FinishLabels, ActivateLabels,
            SignalLabels, SampleLabels
<1>1. CASE StartClient
  BY <1>1 DEF StartClient, Step, Retire
<1>2. CASE StartNoClient
  BY <1>2 DEF StartNoClient, Crash
<1>3. CASE StartArm
  BY <1>3 DEF StartArm, Step, Retire
<1>4. CASE StartCapturing
  BY <1>4 DEF StartCapturing, Retire
<1> QED
  BY <1>1, <1>2, <1>3, <1>4 DEF StartStep

LEMMA WorkStop ==
  ASSUME TypeOK, "put" \notin Failures, TransientHasWork, StopFinishStep
  PROVE  TransientHasWork'
<1> USE DEF TypeOK, TransientHasWork, callbackFrame, sampleFrame, captureVars,
            connVars, Labels, StartLabels, StopLabels, FinishLabels, ActivateLabels,
            SignalLabels, SampleLabels
<1>0. CASE StopTestKey
  BY <1>0 DEF StopTestKey, Step
<1>1. CASE StopCancel
  BY <1>1 DEF StopCancel, Step, Retire
<1>2. CASE StopDropResult
  BY <1>2 DEF StopDropResult, Step, Retire
<1>3. CASE StopTestClient
  BY <1>3 DEF StopTestClient, Step, Retire
<1>4. CASE StopClient
  BY <1>4 DEF StopClient, Step, Retire
<1>5. CASE StopNoClient
  BY <1>5 DEF StopNoClient, Crash
<1>6. CASE StopFlush
  BY <1>6 DEF StopFlush, Step, Retire
<1>7. CASE FinishStopped
  BY <1>7 DEF FinishStopped, Step, Retire
<1>8. CASE FinishRelease
  BY <1>8 DEF FinishRelease, Step, Retire
<1> QED
  BY <1>0, <1>1, <1>2, <1>3, <1>4, <1>5, <1>6, <1>7, <1>8 DEF StopFinishStep

LEMMA WorkActivate ==
  ASSUME TypeOK, "put" \notin Failures, TransientHasWork, ActivateStep
  PROVE  TransientHasWork'
<1> USE DEF TypeOK, TransientHasWork, callbackFrame, sampleFrame, captureVars,
            connVars, Labels, StartLabels, StopLabels, FinishLabels, ActivateLabels,
            SignalLabels, SampleLabels
<1>1. CASE ActivateResult
  BY <1>1 DEF ActivateResult, Step, Retire
<1>2. CASE ActivateInitialized
  BY <1>2 DEF ActivateInitialized, Step, Retire
<1>3. CASE ActivateError
  BY <1>3 DEF ActivateError, Step, Retire
<1>4. CASE ActivateRelease
  BY <1>4 DEF ActivateRelease, Step, Retire
<1> QED
  BY <1>1, <1>2, <1>3, <1>4 DEF ActivateStep

LEMMA WorkSampler ==
  ASSUME TypeOK, "put" \notin Failures, TransientHasWork, SamplerStep
  PROVE  TransientHasWork'
<1> USE DEF TypeOK, TransientHasWork, callbackFrame, sampleFrame, captureVars,
            connVars, Labels, StartLabels, StopLabels, FinishLabels, ActivateLabels,
            SignalLabels, SampleLabels
<1>0. CASE SampleNext
  BY <1>0 DEF SampleNext
<1>1. CASE SampleLoop
  BY <1>1 DEF SampleLoop
<1>2. CASE SamplePacket
  BY <1>2 DEF SamplePacket, Spawn
<1>3. CASE SampleNoClient
  BY <1>3 DEF SampleNoClient, Crash
<1>4. CASE SampleExit
  BY <1>4 DEF SampleExit
<1>5. CASE SampleArm
  BY <1>5 DEF SampleArm, Spawn
<1> QED
  BY <1>0, <1>1, <1>2, <1>3, <1>4, <1>5 DEF SamplerStep

LEMMA WorkOther ==
  ASSUME TypeOK, "put" \notin Failures, TransientHasWork, OtherStep
  PROVE  TransientHasWork'
<1> USE DEF TypeOK, TransientHasWork, callbackFrame, sampleFrame, captureVars,
            connVars, Labels, StartLabels, StopLabels, FinishLabels, ActivateLabels,
            SignalLabels, SampleLabels
<1>1. CASE RecvHello
  BY <1>1 DEF RecvHello
<1>2. CASE SpuriousWakeup
  BY <1>2 DEF SpuriousWakeup
<1>3. CASE RecvCommand
  BY <1>3 DEF RecvCommand
<1>4. CASE SampleReady
  BY <1>4 DEF SampleReady, Spawn
<1>5. CASE SetDone
  BY <1>5 DEF SetDone, Step, Retire
<1>6. CASE Notify
  BY <1>6 DEF Notify, Step, Retire
<1>7. CASE SampleEnter
  BY <1>7 DEF SampleEnter, Step, Retire
<1>8. CASE SampleError
  BY <1>8 DEF SampleError, Step, Retire
<1> QED
  BY <1>1, <1>2, <1>3, <1>4, <1>5, <1>6, <1>7, <1>8 DEF OtherStep

LEMMA WorkInit == Init => TransientHasWork
BY DEF Init, TransientHasWork

LEMMA WorkNext ==
  ASSUME TypeOK, "put" \notin Failures, TransientHasWork, [Next]_vars
  PROVE  TransientHasWork'
<1>1. CASE UNCHANGED vars
  BY <1>1 DEF vars, TransientHasWork
<1>2. CASE Crashed
  BY <1>2, <1>1 DEF Crashed
<1> QED
  BY <1>1, <1>2, WorkConn, WorkCmd, WorkStart, WorkStop, WorkActivate, WorkSampler,
     WorkOther
     DEF Next, WorkerStep, OtherStep

(* While the work queue accepts items, the device is only Starting,        *)
(* Stopping or Flushing while a callback is on its way to move it on.      *)
THEOREM TransientWork ==
  ASSUME "put" \notin Failures
  PROVE  Spec => []TransientHasWork
<1>1. Init => TypeOK /\ TransientHasWork
  BY TypeInit, WorkInit
<1>2. TypeOK /\ TransientHasWork /\ [Next]_vars => (TypeOK /\ TransientHasWork)'
  BY TypeNext, WorkNext
<1> QED
  BY <1>1, <1>2, PTL DEF Spec

-----------------------------------------------------------------------------
(* WaiterHasSignal is not inductive: it needs to know that m_done is still *)
(* clear when the connection thread has found it clear and has not yet     *)
(* released m_mutex.  That is what the lock around m_done = true buys.     *)
SignalFailures == "put" \notin Failures /\ "activateCall" \notin Failures

SignalInv == (conn = "park" => ~done) /\ WaiterHasSignal

LEMMA SignalConn ==
  ASSUME TypeOK, SignalFailures, SignalInv, ConnStep
  PROVE  SignalInv'
<1> USE DEF TypeOK, SignalInv, WaiterHasSignal, Waiting, SignalPath, callbackFrame,
            sampleFrame, captureVars, connVars, Labels, StartLabels, StopLabels,
            FinishLabels, ActivateLabels, SignalLabels, SampleLabels
<1>1. CASE StopTest
  BY <1>1 DEF StopTest
<1>2. CASE StopSet
  BY <1>2 DEF StopSet, SignalFailures, PutWorkItem, Spawn
<1>3. CASE InitializeAudioDevice
  BY <1>3 DEF InitializeAudioDevice, SignalFailures, Spawn
<1>4. CASE WaitReturn
  BY <1>4 DEF WaitReturn
<1>5. CASE WaitPark
  BY <1>5 DEF WaitPark
<1>6. CASE WaitSleep
  BY <1>6 DEF WaitSleep
<1>7. CASE Reply
  BY <1>7 DEF Reply
<1>8. CASE AsyncStartTest
  BY <1>8 DEF AsyncStartTest
<1>9. CASE AsyncStartSet
  BY <1>9 DEF AsyncStartSet, SignalFailures, PutWorkItem, Spawn
<1> QED
  BY <1>1, <1>2, <1>3, <1>4, <1>5, <1>6, <1>7, <1>8, <1>9 DEF ConnStep

LEMMA SignalCmd ==
  ASSUME TypeOK, SignalFailures, SignalInv, CmdStep
  PROVE  SignalInv'
<1> USE DEF TypeOK, SignalInv, WaiterHasSignal, Waiting, SignalPath, callbackFrame,
            sampleFrame, captureVars, connVars, Labels, StartLabels, StopLabels,
            FinishLabels, ActivateLabels, SignalLabels, SampleLabels
<1>1. CASE AsyncStopTest
  BY <1>1 DEF AsyncStopTest
<1>2. CASE AsyncStopSet
  BY <1>2 DEF AsyncStopSet, SignalFailures, PutWorkItem, Spawn
<1>3. CASE SendAnswer
  BY <1>3 DEF SendAnswer
<1> QED
  BY <1>1, <1>2, <1>3 DEF CmdStep

LEMMA SignalStart ==
  ASSUME TypeOK, SignalFailures, SignalInv, StartStep
  PROVE  SignalInv'
<1> USE DEF TypeOK, SignalInv, WaiterHasSignal, Waiting, SignalPath, callbackFrame,
            sampleFrame, captureVars, connVars, Labels, StartLabels, StopLabels,
            FinishLabels, ActivateLabels, SignalLabels, SampleLabels
<1>1. CASE StartClient
  BY <1>1 DEF StartClient, Step, Retire
<1>2. CASE StartNoClient
  BY <1>2 DEF StartNoClient, Crash
<1>3. CASE StartArm
  BY <1>3 DEF StartArm, Step, Retire
<1>4. CASE StartCapturing
  BY <1>4 DEF StartCapturing, Retire
<1> QED
  BY <1>1, <1>2, <1>3, <1>4 DEF StartStep

LEMMA SignalStop ==
  ASSUME TypeOK, SignalFailures, SignalInv, StopFinishStep
  PROVE  SignalInv'
<1> USE DEF TypeOK, SignalInv, WaiterHasSignal, Waiting, SignalPath, callbackFrame,
            sampleFrame, captureVars, connVars, Labels, StartLabels, StopLabels,
            FinishLabels, ActivateLabels, SignalLabels, SampleLabels
<1>0. CASE StopTestKey
  BY <1>0 DEF StopTestKey, Step
<1>1. CASE StopCancel
  BY <1>1 DEF StopCancel, Step, Retire
<1>2. CASE StopDropResult
  BY <1>2 DEF StopDropResult, Step, Retire
<1>3. CASE StopTestClient
  BY <1>3 DEF StopTestClient, Step, Retire
<1>4. CASE StopClient
  BY <1>4 DEF StopClient, Step, Retire
<1>5. CASE StopNoClient
  BY <1>5 DEF StopNoClient, Crash
<1>6. CASE StopFlush
  BY <1>6 DEF StopFlush, SignalFailures, Step, Retire
<1>7. CASE FinishStopped
  BY <1>7 DEF FinishStopped, Step, Retire
<1>8. CASE FinishRelease
  BY <1>8 DEF FinishRelease, Step, Retire
<1> QED
  BY <1>0, <1>1, <1>2, <1>3, <1>4, <1>5, <1>6, <1>7, <1>8 DEF StopFinishStep

LEMMA SignalActivate ==
  ASSUME TypeOK, SignalFailures, SignalInv, ActivateStep
  PROVE  SignalInv'
<1> USE DEF TypeOK, SignalInv, WaiterHasSignal, Waiting, SignalPath, callbackFrame,
            sampleFrame, captureVars, connVars, Labels, StartLabels, StopLabels,
            FinishLabels, ActivateLabels, SignalLabels, SampleLabels
<1>1. CASE ActivateResult
  <2>1. Step("act.result", "act.Initialized") \/ Step("act.result", "act.Error")
    BY <1>1 DEF ActivateResult
  <2>2. UNCHANGED <<done, conn>>
    BY <1>1 DEF ActivateResult
  <2> QED
    BY <2>1, <2>2 DEF Step
<1>2. CASE ActivateInitialized
  BY <1>2 DEF ActivateInitialized, Step, Retire
<1>3. CASE ActivateError
  BY <1>3 DEF ActivateError, Step, Retire
<1>4. CASE ActivateRelease
  BY <1>4 DEF ActivateRelease, Step, Retire
<1> QED
  BY <1>1, <1>2, <1>3, <1>4 DEF ActivateStep

LEMMA SignalSampler ==
  ASSUME TypeOK, SignalFailures, SignalInv, SamplerStep
  PROVE  SignalInv'
<1> USE DEF TypeOK, SignalInv, WaiterHasSignal, Waiting, SignalPath, callbackFrame,
            sampleFrame, captureVars, connVars, Labels, StartLabels, StopLabels,
            FinishLabels, ActivateLabels, SignalLabels, SampleLabels
<1>0. CASE SampleNext
  BY <1>0 DEF SampleNext
<1>1. CASE SampleLoop
  BY <1>1 DEF SampleLoop
<1>2. CASE SamplePacket
  BY <1>2 DEF SamplePacket, Spawn
<1>3. CASE SampleNoClient
  BY <1>3 DEF SampleNoClient, Crash
<1>4. CASE SampleExit
  BY <1>4 DEF SampleExit
<1>5. CASE SampleArm
  BY <1>5 DEF SampleArm, Spawn
<1> QED
  BY <1>0, <1>1, <1>2, <1>3, <1>4, <1>5 DEF SamplerStep

LEMMA SignalOther ==
  ASSUME TypeOK, SignalFailures, SignalInv, OtherStep
  PROVE  SignalInv'
<1> USE DEF TypeOK, SignalInv, WaiterHasSignal, Waiting, SignalPath, callbackFrame,
            sampleFrame, captureVars, connVars, Labels, StartLabels, StopLabels,
            FinishLabels, ActivateLabels, SignalLabels, SampleLabels
<1>1. CASE RecvHello
  BY <1>1 DEF RecvHello
<1>2. CASE SpuriousWakeup
  BY <1>2 DEF SpuriousWakeup
<1>3. CASE RecvCommand
  BY <1>3 DEF RecvCommand
<1>4. CASE SampleReady
  BY <1>4 DEF SampleReady, Spawn
<1>5. CASE SetDone
  BY <1>5 DEF SetDone, Step, Retire, MutexFree
<1>6. CASE Notify
  BY <1>6 DEF Notify, Step, Retire
<1>7. CASE SampleEnter
  BY <1>7 DEF SampleEnter, Step, Retire
<1>8. CASE SampleError
  BY <1>8 DEF SampleError, Step, Retire
<1> QED
  BY <1>1, <1>2, <1>3, <1>4, <1>5, <1>6, <1>7, <1>8 DEF OtherStep

LEMMA SignalInit == Init => SignalInv
BY DEF Init, SignalInv, WaiterHasSignal, Waiting

LEMMA SignalNext ==
  ASSUME TypeOK, SignalFailures, SignalInv, [Next]_vars
  PROVE  SignalInv'
<1>1. CASE UNCHANGED vars
  BY <1>1 DEF vars, SignalInv, WaiterHasSignal, Waiting
<1>2. CASE Crashed
  BY <1>2, <1>1 DEF Crashed
<1> QED
  BY <1>1, <1>2, SignalConn, SignalCmd, SignalStart, SignalStop, SignalActivate,
     SignalSampler, SignalOther
     DEF Next, WorkerStep, OtherStep

(* No wake-up is lost: while the work queue accepts items and activation   *)
(* requests are accepted, a thread in m_cv.wait always has a signal to     *)
(* come, however many sessions and callbacks overlap.                      *)
THEOREM WaiterSignalled ==
  ASSUME "put" \notin Failures, "activateCall" \notin Failures
  PROVE  Spec => []WaiterHasSignal
<1>1. Init => TypeOK /\ SignalInv
  BY TypeInit, SignalInit
<1>2. TypeOK /\ SignalInv /\ [Next]_vars => (TypeOK /\ SignalInv)'
  BY TypeNext, SignalNext DEF SignalFailures
<1>3. SignalInv => WaiterHasSignal
  BY DEF SignalInv
<1> QED
  BY <1>1, <1>2, <1>3, PTL DEF Spec
=============================================================================
