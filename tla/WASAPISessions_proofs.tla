----------------------- MODULE WASAPISessions_proofs -----------------------
(***************************************************************************)
(* Theorems about the sessions of WASAPICapture: about the first one, with *)
(* any commands and any failures, and about any number of them with a      *)
(* patient client and nobody but StopCapture to stop the capture.          *)
(***************************************************************************)
EXTENDS WASAPICapture_proofs

Ending   == StopLabels \cup FinishLabels
Stopping == cmd \in { "stopSet", "failStopSet" }
Idle(ls) == \A l \in ls : at[l] = 0

-----------------------------------------------------------------------------
(* The first session, with any commands and any failures.                  *)

(* There is one activation and one start, one after the other.             *)
Once ==
  \A l, m \in ActivateLabels \cup StartLabels :
    at[l] \in { 0, 1 } /\ (at[l] = 1 /\ at[m] = 1 => l = m)

(* Nothing happens before the activation is requested.                     *)
Quiet ==
  /\ deviceState = "Uninitialized"
  /\ Idle(Labels)
  /\ armed = 0
  /\ sampler = "out"

Hello ==
  /\ hellos \in { 0, 1 }
  /\ hellos = 0 => conn = "recv"
  /\ hellos = 0 \/ conn \in { "stop", "init" } => Quiet
  /\ conn # "stopSet"
  /\ Waiting => waitFor = "Init"

(* How far activation and start have come can be told from the state.      *)
Stages ==
  /\ ~Idle({ "act.result", "act.Initialized", "act.Error" }) => deviceState = "Uninitialized"
  /\ ~Idle({ "act.release" }) => deviceState \in { "Error", "Stopping", "Flushing", "Stopped" }
  /\ conn \in { "reply", "start", "startSet" } => deviceState = "Initialized"
  /\ ~Idle(StartLabels) => deviceState = "Starting"

(* The device is stopped only after it was started.                        *)
NotYet == deviceState \in { "Uninitialized", "Initialized", "Starting" }

StopsLater ==
  /\ NotYet => ~Stopping /\ sampler \in { "out", "loop", "exit" }
  /\ NotYet \/ deviceState = "Capturing" => Idle(Ending)
  /\ NotYet => at["sample.Error"] = 0

(* The interfaces are there while they are used.                           *)
Interfaces ==
  /\ deviceState \in { "Initialized", "Starting", "Capturing" } => client
  /\ ~Idle({ "act.Initialized" }) => client
  /\ ~Idle(ActivateLabels) => armed = 0 /\ sampler = "out" /\ at["sample.enter"] = 0
  /\ sampler \in { "next", "packet" } =>
       client /\ Idle({ "stop.Flushing", "finish.Stopped", "finish.release" })

FirstInv == Once /\ Hello /\ Stages /\ StopsLater /\ Interfaces

LEMMA FirstConn ==
  ASSUME TypeOK, MaxHellos <= 1, FirstInv, ConnStep
  PROVE  FirstInv'
<1> USE DEF TypeOK, FirstInv, Once, Hello, Quiet, Stages, StopsLater, Interfaces,
            NotYet, Stopping, Ending, Idle, Waiting, callbackFrame, sampleFrame, captureVars,
            connVars, Labels, StartLabels, StopLabels, FinishLabels, ActivateLabels,
            SignalLabels, SampleLabels
<1>1. CASE StopTest
  BY <1>1 DEF StopTest, Stoppable
<1>2. CASE StopSet
  BY <1>2 DEF StopSet
<1>3. CASE InitializeAudioDevice
  BY <1>3 DEF InitializeAudioDevice, Spawn
<1>4. CASE WaitReturn
  BY <1>4 DEF WaitReturn
<1>5. CASE WaitPark
  BY <1>5 DEF WaitPark
<1>6. CASE WaitSleep
  BY <1>6 DEF WaitSleep
<1>7. CASE Reply
  BY <1>7 DEF Reply
<1>8. CASE AsyncStartTest
  BY <1>8 DEF AsyncStartTest, Startable
<1>9. CASE AsyncStartSet
  BY <1>9 DEF AsyncStartSet, PutWorkItem, Spawn
<1> QED
  BY <1>1, <1>2, <1>3, <1>4, <1>5, <1>6, <1>7, <1>8, <1>9 DEF ConnStep

LEMMA FirstCmd ==
  ASSUME TypeOK, MaxHellos <= 1, FirstInv, CmdStep
  PROVE  FirstInv'
<1> USE DEF TypeOK, FirstInv, Once, Hello, Quiet, Stages, StopsLater, Interfaces,
            NotYet, Stopping, Ending, Idle, Waiting, callbackFrame, sampleFrame, captureVars,
            connVars, Labels, StartLabels, StopLabels, FinishLabels, ActivateLabels,
            SignalLabels, SampleLabels
<1>1. CASE AsyncStopTest
  BY <1>1 DEF AsyncStopTest, Stoppable
<1>2. CASE AsyncStopSet
  BY <1>2 DEF AsyncStopSet, PutWorkItem, Spawn
<1>3. CASE SendAnswer
  BY <1>3 DEF SendAnswer
<1> QED
  BY <1>1, <1>2, <1>3 DEF CmdStep

LEMMA FirstStart ==
  ASSUME TypeOK, MaxHellos <= 1, FirstInv, StartStep
  PROVE  FirstInv'
<1> USE DEF TypeOK, FirstInv, Once, Hello, Quiet, Stages, StopsLater, Interfaces,
            NotYet, Stopping, Ending, Idle, Waiting, callbackFrame, sampleFrame, captureVars,
            connVars, Labels, StartLabels, StopLabels, FinishLabels, ActivateLabels,
            SignalLabels, SampleLabels
<1>1. CASE StartClient
  BY <1>1 DEF StartClient, Step, Retire
<1>2. CASE StartNoClient
  BY <1>2 DEF StartNoClient, Crash
<1>3. CASE StartArm
  BY <1>3 DEF StartArm, Step, Retire, Arm
<1>4. CASE StartCapturing
  BY <1>4 DEF StartCapturing, Retire
<1> QED
  BY <1>1, <1>2, <1>3, <1>4 DEF StartStep

LEMMA FirstStop ==
  ASSUME TypeOK, MaxHellos <= 1, FirstInv, StopFinishStep
  PROVE  FirstInv'
<1> USE DEF TypeOK, FirstInv, Once, Hello, Quiet, Stages, StopsLater, Interfaces,
            NotYet, Stopping, Ending, Idle, Waiting, callbackFrame, sampleFrame, captureVars,
            connVars, Labels, StartLabels, StopLabels, FinishLabels, ActivateLabels,
            SignalLabels, SampleLabels
<1>0. CASE StopTestKey
  BY <1>0 DEF StopTestKey, Step
<1>1. CASE StopCancel
  BY <1>1 DEF StopCancel, Step
<1>2. CASE StopDropResult
  BY <1>2 DEF StopDropResult, Step
<1>3. CASE StopTestClient
  BY <1>3 DEF StopTestClient, Step
<1>4. CASE StopClient
  BY <1>4 DEF StopClient, Step, LockFree
<1>5. CASE StopNoClient
  BY <1>5 DEF StopNoClient, Crash
<1>6. CASE StopFlush
  BY <1>6 DEF StopFlush, Step, Retire
<1>7. CASE FinishStopped
  BY <1>7 DEF FinishStopped, Step
<1>8. CASE FinishRelease
  BY <1>8 DEF FinishRelease, Step
<1> QED
  BY <1>0, <1>1, <1>2, <1>3, <1>4, <1>5, <1>6, <1>7, <1>8 DEF StopFinishStep

LEMMA FirstActivate ==
  ASSUME TypeOK, MaxHellos <= 1, FirstInv, ActivateStep
  PROVE  FirstInv'
<1> USE DEF TypeOK, FirstInv, Once, Hello, Quiet, Stages, StopsLater, Interfaces,
            NotYet, Stopping, Ending, Idle, Waiting, callbackFrame, sampleFrame, captureVars,
            connVars, Labels, StartLabels, StopLabels, FinishLabels, ActivateLabels,
            SignalLabels, SampleLabels
<1>1. CASE ActivateResult
  <2>1. \/ Step("act.result", "act.Initialized") /\ client'
        \/ Step("act.result", "act.Error")
    BY <1>1 DEF ActivateResult
  <2>2. client' \/ UNCHANGED client
    BY <1>1, Zenon DEF ActivateResult
  <2>3. UNCHANGED <<callbackFrame, deviceState, key, armed, sampler>>
    BY <1>1 DEF ActivateResult
  <2> QED
    BY <2>1, <2>2, <2>3 DEF Step
<1>2. CASE ActivateInitialized
  BY <1>2 DEF ActivateInitialized, Step
<1>3. CASE ActivateError
  BY <1>3 DEF ActivateError, Step
<1>4. CASE ActivateRelease
  BY <1>4 DEF ActivateRelease, Step
<1> QED
  BY <1>1, <1>2, <1>3, <1>4 DEF ActivateStep

LEMMA FirstSampler ==
  ASSUME TypeOK, MaxHellos <= 1, FirstInv, SamplerStep
  PROVE  FirstInv'
<1> USE DEF TypeOK, FirstInv, Once, Hello, Quiet, Stages, StopsLater, Interfaces,
            NotYet, Stopping, Ending, Idle, Waiting, callbackFrame, sampleFrame, captureVars,
            connVars, Labels, StartLabels, StopLabels, FinishLabels, ActivateLabels,
            SignalLabels, SampleLabels
<1>0. CASE SampleNext
  BY <1>0 DEF SampleNext
<1>1. CASE SampleLoop
  BY <1>1 DEF SampleLoop
<1>2. CASE SamplePacket
  BY <1>2 DEF SamplePacket, Spawn
<1>3. CASE SampleNoClient
  BY <1>3 DEF SampleNoClient, Crash
<1>4. CASE SampleExit
  BY <1>4 DEF SampleExit
<1>5. CASE SampleArm
  BY <1>5 DEF SampleArm, Spawn, Arm
<1> QED
  BY <1>0, <1>1, <1>2, <1>3, <1>4, <1>5 DEF SamplerStep

LEMMA FirstOther ==
  ASSUME TypeOK, MaxHellos <= 1, FirstInv, OtherStep
  PROVE  FirstInv'
<1> USE DEF TypeOK, FirstInv, Once, Hello, Quiet, Stages, StopsLater, Interfaces,
            NotYet, Stopping, Ending, Idle, Waiting, callbackFrame, sampleFrame, captureVars,
            connVars, Labels, StartLabels, StopLabels, FinishLabels, ActivateLabels,
            SignalLabels, SampleLabels
<1>1. CASE RecvHello
  <2>1. hellos = 0 /\ hellos' = 1
    BY <1>1, ConstantsAssumption DEF ConstantsAssumption, RecvHello
  <2> QED
    BY <1>1, <2>1 DEF RecvHello
<1>2. CASE SpuriousWakeup
  BY <1>2 DEF SpuriousWakeup
<1>3. CASE RecvCommand
  BY <1>3 DEF RecvCommand
<1>4. CASE SampleReady
  BY <1>4 DEF SampleReady, Spawn
<1>5. CASE SetDone
  BY <1>5 DEF SetDone, Step
<1>6. CASE Notify
  BY <1>6 DEF Notify, Retire
<1>7. CASE SampleEnter
  BY <1>7 DEF SampleEnter, Retire, LockFree
<1>8. CASE SampleError
  BY <1>8 DEF SampleError, Retire
<1> QED
  BY <1>1, <1>2, <1>3, <1>4, <1>5, <1>6, <1>7, <1>8 DEF OtherStep

LEMMA FirstInit == Init => FirstInv
BY DEF Init, FirstInv, Once, Hello, Quiet, Stages, StopsLater, Interfaces, NotYet, Stopping,
   Ending, Idle, Waiting, Labels, StartLabels, StopLabels, FinishLabels, ActivateLabels,
   SignalLabels, SampleLabels

LEMMA FirstNext ==
  ASSUME TypeOK, MaxHellos <= 1, FirstInv, [Next]_vars
  PROVE  FirstInv'
<1>1. CASE UNCHANGED vars
  BY <1>1 DEF vars, FirstInv, Once, Hello, Quiet, Stages, StopsLater, Interfaces, NotYet,
     Stopping, Ending, Idle, Waiting
<1>2. CASE Crashed
  BY <1>2, <1>1 DEF Crashed
<1> QED
  BY <1>1, <1>2, FirstConn, FirstCmd, FirstStart, FirstStop, FirstActivate, FirstSampler,
     FirstOther
     DEF Next, WorkerStep, OtherStep

LEMMA FirstInvariance ==
  ASSUME MaxHellos <= 1
  PROVE  Spec => [](TypeOK /\ FirstInv)
<1>1. Init => TypeOK /\ FirstInv
  BY TypeInit, FirstInit
<1>2. TypeOK /\ FirstInv /\ [Next]_vars => (TypeOK /\ FirstInv)'
  BY TypeNext, FirstNext
<1> QED
  BY <1>1, <1>2, PTL DEF Spec

(* In a first session nobody takes the capture client from a sample        *)
(* callback that reads a packet with it.                                   *)
THEOREM SessionKeepsClient ==
  ASSUME MaxHellos <= 1
  PROVE  Spec => []SampleHasClient
<1>1. FirstInv => SampleHasClient
  BY DEF FirstInv, Interfaces, SampleHasClient
<1> QED
  BY <1>1, FirstInvariance, PTL

-----------------------------------------------------------------------------
(* Any number of sessions, of a patient client, with nobody but StopCapture *)
(* to stop the capture and with a queue that takes what it is given.       *)
BlockingOnly ==
  /\ "stop" \notin Commands
  /\ Failures \cap { "send", "put", "activateCall" } = {}

(* Activation, start and stop come one after the other, ...                *)
Chain == ActivateLabels \cup Ending \cup { "setDone" }

OneAtATime ==
  \A l, m \in Chain \cup StartLabels :
    at[l] \in { 0, 1 } /\ (at[l] = 1 /\ at[m] = 1 => l = m)

(* ... each under the call that asked for it, which takes the m_done of its *)
(* own callback and of no other, ...                                       *)
Ordered ==
  /\ done \/ ~Waiting => Idle(Chain)
  /\ done => Waiting
  /\ Waiting /\ waitFor = "Stop" => Idle(ActivateLabels)
  /\ Waiting /\ waitFor = "Init" => Idle(Ending)
  /\ ~Idle(StartLabels) => conn = "recv"
  /\ cmd \in { "recv", "reply" }

(* ... and leaves its mark on the state.                                   *)
Running ==
  /\ deviceState = "Starting" => ~Idle(StartLabels)
  /\ deviceState \in { "Stopping", "Flushing" } => ~Idle(StopLabels \cup { "finish.Stopped" })
  /\ deviceState = "Capturing" => Idle(StartLabels) /\ conn \in { "recv", "stop", "stopSet" }
  /\ conn = "stopSet" => Stoppable

(* The interfaces are there while they are used.                           *)
Used ==
  /\ deviceState \in { "Initialized", "Capturing" } => client
  /\ ~Idle(StartLabels \cup { "act.Initialized", "stop.Stop" }) => client
  /\ ~Idle({ "act.release", "finish.release" }) => deviceState \in { "Error", "Stopped" }
  /\ conn \in { "reply", "start", "startSet" } => client
  /\ sampler \in { "next", "packet" } =>
       /\ client
       /\ \/ deviceState \in { "Capturing", "Error" } /\ conn \in { "recv", "stop", "stopSet" }
          \/ ~Idle({ "stop.key", "stop.cancel", "stop.result", "stop.client", "stop.Stop" })
       /\ Idle(StartLabels)

(* Audio only comes from a capture that was started, and the connection    *)
(* thread sets up a session only when StopCapture has returned.            *)
Opened ==
  /\ ~Idle(StartLabels) \/ deviceState = "Capturing" => open
  /\ sampler \in { "next", "packet" } => open
  /\ conn \in { "init", "reply", "start", "startSet" } => ~open
  /\ Waiting /\ waitFor = "Init" => ~open

PatientInv == OneAtATime /\ Ordered /\ Running /\ Used /\ Opened /\ ~crashed

LEMMA PatientConn ==
  ASSUME TypeOK, BlockingOnly, PatientInv, ConnStep
  PROVE  PatientInv'
<1> USE DEF TypeOK, PatientInv, OneAtATime, Ordered, Running, Used, Opened, Chain, Ending,
            Idle, Waiting, callbackFrame, sampleFrame, captureVars, connVars, Labels, StartLabels,
            StopLabels, FinishLabels, ActivateLabels, SignalLabels, SampleLabels,
            BlockingOnly, Stoppable
<1>1. CASE StopTest
  BY <1>1 DEF StopTest, Stoppable
<1>2. CASE StopSet
  BY <1>2 DEF StopSet, PutWorkItem, Spawn
<1>3. CASE InitializeAudioDevice
  BY <1>3 DEF InitializeAudioDevice, Spawn
<1>4. CASE WaitReturn
  BY <1>4 DEF WaitReturn
<1>5. CASE WaitPark
  BY <1>5 DEF WaitPark
<1>6. CASE WaitSleep
  BY <1>6 DEF WaitSleep
<1>7. CASE Reply
  BY <1>7 DEF Reply
<1>8. CASE AsyncStartTest
  BY <1>8 DEF AsyncStartTest, Startable
<1>9. CASE AsyncStartSet
  BY <1>9 DEF AsyncStartSet, PutWorkItem, Spawn
<1> HIDE DEF TypeOK, PatientInv, BlockingOnly
<1> QED
  BY <1>1, <1>2, <1>3, <1>4, <1>5, <1>6, <1>7, <1>8, <1>9 DEF ConnStep

LEMMA PatientCmd ==
  ASSUME TypeOK, BlockingOnly, PatientInv, CmdStep
  PROVE  PatientInv'
<1> USE DEF TypeOK, PatientInv, OneAtATime, Ordered, Running, Used, Opened, Chain, Ending,
            Idle, Waiting, callbackFrame, sampleFrame, captureVars, connVars, Labels, StartLabels,
            StopLabels, FinishLabels, ActivateLabels, SignalLabels, SampleLabels,
            BlockingOnly, Stoppable
<1>1. CASE AsyncStopTest
  BY <1>1 DEF AsyncStopTest
<1>2. CASE AsyncStopSet
  BY <1>2 DEF AsyncStopSet
<1>3. CASE SendAnswer
  BY <1>3 DEF SendAnswer
<1> HIDE DEF TypeOK, PatientInv, BlockingOnly
<1> QED
  BY <1>1, <1>2, <1>3 DEF CmdStep

LEMMA PatientStart ==
  ASSUME TypeOK, BlockingOnly, PatientInv, StartStep
  PROVE  PatientInv'
<1> USE DEF TypeOK, PatientInv, OneAtATime, Ordered, Running, Used, Opened, Chain, Ending,
            Idle, Waiting, callbackFrame, sampleFrame, captureVars, connVars, Labels, StartLabels,
            StopLabels, FinishLabels, ActivateLabels, SignalLabels, SampleLabels,
            BlockingOnly, Stoppable
<1>1. CASE StartClient
  BY <1>1 DEF StartClient, Step, Retire
<1>2. CASE StartNoClient
  BY <1>2 DEF StartNoClient, Crash
<1>3. CASE StartArm
  BY <1>3 DEF StartArm, Step, Retire, Arm
<1>4. CASE StartCapturing
  BY <1>4 DEF StartCapturing, Retire
<1> HIDE DEF TypeOK, PatientInv, BlockingOnly
<1> QED
  BY <1>1, <1>2, <1>3, <1>4 DEF StartStep

LEMMA PatientStop ==
  ASSUME TypeOK, BlockingOnly, PatientInv, StopFinishStep
  PROVE  PatientInv'
<1> USE DEF TypeOK, PatientInv, OneAtATime, Ordered, Running, Used, Opened, Chain, Ending,
            Idle, Waiting, callbackFrame, sampleFrame, captureVars, connVars, Labels, StartLabels,
            StopLabels, FinishLabels, ActivateLabels, SignalLabels, SampleLabels,
            BlockingOnly, Stoppable
<1>0. CASE StopTestKey
  BY <1>0 DEF StopTestKey, Step
<1>1. CASE StopCancel
  BY <1>1 DEF StopCancel, Step
<1>2. CASE StopDropResult
  BY <1>2 DEF StopDropResult, Step
<1>3. CASE StopTestClient
  BY <1>3 DEF StopTestClient, Step
<1>4. CASE StopClient
  BY <1>4 DEF StopClient, Step, LockFree
<1>5. CASE StopNoClient
  BY <1>5 DEF StopNoClient, Crash
<1>6. CASE StopFlush
  BY <1>6 DEF StopFlush, Step, Retire
<1>7. CASE FinishStopped
  BY <1>7 DEF FinishStopped, Step
<1>8. CASE FinishRelease
  BY <1>8 DEF FinishRelease, Step
<1> HIDE DEF TypeOK, PatientInv, BlockingOnly
<1> QED
  BY <1>0, <1>1, <1>2, <1>3, <1>4, <1>5, <1>6, <1>7, <1>8 DEF StopFinishStep

LEMMA PatientActivate ==
  ASSUME TypeOK, BlockingOnly, PatientInv, ActivateStep
  PROVE  PatientInv'
<1> USE DEF TypeOK, PatientInv, OneAtATime, Ordered, Running, Used, Opened, Chain, Ending,
            Idle, Waiting, callbackFrame, sampleFrame, captureVars, connVars, Labels, StartLabels,
            StopLabels, FinishLabels, ActivateLabels, SignalLabels, SampleLabels,
            BlockingOnly, Stoppable
<1>1. CASE ActivateResult
  <2>1. \/ Step("act.result", "act.Initialized") /\ client'
        \/ Step("act.result", "act.Error")
    BY <1>1 DEF ActivateResult
  <2>2. client' \/ UNCHANGED client
    BY <1>1, Zenon DEF ActivateResult
  <2>3. UNCHANGED <<callbackFrame, deviceState, done, key, armed, sampler, crashed>>
    BY <1>1 DEF ActivateResult
  <2> QED
    BY <2>1, <2>2, <2>3 DEF Step
<1>2. CASE ActivateInitialized
  BY <1>2 DEF ActivateInitialized, Step
<1>3. CASE ActivateError
  BY <1>3 DEF ActivateError, Step
<1>4. CASE ActivateRelease
  BY <1>4 DEF ActivateRelease, Step
<1> HIDE DEF TypeOK, PatientInv, BlockingOnly
<1> QED
  BY <1>1, <1>2, <1>3, <1>4 DEF ActivateStep

LEMMA PatientSampler ==
  ASSUME TypeOK, BlockingOnly, PatientInv, SamplerStep
  PROVE  PatientInv'
<1> USE DEF TypeOK, PatientInv, OneAtATime, Ordered, Running, Used, Opened, Chain, Ending,
            Idle, Waiting, callbackFrame, sampleFrame, captureVars, connVars, Labels, StartLabels,
            StopLabels, FinishLabels, ActivateLabels, SignalLabels, SampleLabels,
            BlockingOnly, Stoppable
<1>0. CASE SampleNext
  BY <1>0 DEF SampleNext
<1>1. CASE SampleLoop
  BY <1>1 DEF SampleLoop
<1>2. CASE SamplePacket
  BY <1>2 DEF SamplePacket, Spawn
<1>3. CASE SampleNoClient
  BY <1>3 DEF SampleNoClient, Crash
<1>4. CASE SampleExit
  BY <1>4 DEF SampleExit
<1>5. CASE SampleArm
  BY <1>5 DEF SampleArm, Spawn, Arm
<1> HIDE DEF TypeOK, PatientInv, BlockingOnly
<1> QED
  BY <1>0, <1>1, <1>2, <1>3, <1>4, <1>5 DEF SamplerStep

LEMMA PatientOther ==
  ASSUME TypeOK, BlockingOnly, PatientInv, OtherStep, Patient
  PROVE  PatientInv'
<1> USE DEF TypeOK, PatientInv, OneAtATime, Ordered, Running, Used, Opened, Chain, Ending,
            Idle, Waiting, callbackFrame, sampleFrame, captureVars, connVars, Labels, StartLabels,
            StopLabels, FinishLabels, ActivateLabels, SignalLabels, SampleLabels,
            BlockingOnly, Stoppable
<1>1. CASE RecvHello
  BY <1>1 DEF RecvHello, Patient
<1>2. CASE SpuriousWakeup
  BY <1>2 DEF SpuriousWakeup
<1>3. CASE RecvCommand
  BY <1>3 DEF RecvCommand
<1>4. CASE SampleReady
  BY <1>4 DEF SampleReady, Spawn
<1>5. CASE SetDone
  BY <1>5 DEF SetDone, Step
<1>6. CASE Notify
  BY <1>6 DEF Notify, Retire
<1>7. CASE SampleEnter
  BY <1>7 DEF SampleEnter, Retire, LockFree
<1>8. CASE SampleError
  BY <1>8 DEF SampleError, Retire
<1> HIDE DEF TypeOK, PatientInv, BlockingOnly
<1> QED
  BY <1>1, <1>2, <1>3, <1>4, <1>5, <1>6, <1>7, <1>8 DEF OtherStep

LEMMA PatientInit == Init => PatientInv
BY DEF Init, PatientInv, OneAtATime, Ordered, Running, Used, Opened, Chain, Ending, Idle, Waiting,
   Labels, StartLabels, StopLabels, FinishLabels, ActivateLabels, SignalLabels, SampleLabels

LEMMA PatientNext ==
  ASSUME TypeOK, BlockingOnly, PatientInv, [Next /\ Patient]_vars
  PROVE  PatientInv'
<1>1. CASE UNCHANGED vars
  BY <1>1 DEF vars, PatientInv, OneAtATime, Ordered, Running, Used, Opened, Chain, Ending, Idle,
     Waiting, Stoppable
<1>2. CASE Crashed
  BY <1>2, <1>1 DEF Crashed
<1> QED
  BY <1>1, <1>2, PatientConn, PatientCmd, PatientStart, PatientStop, PatientActivate,
     PatientSampler, PatientOther
     DEF Next, WorkerStep, OtherStep

LEMMA PatientInvariance ==
  ASSUME BlockingOnly
  PROVE  PatientSpec => [](TypeOK /\ PatientInv)
<1>1. Init => TypeOK /\ PatientInv
  BY TypeInit, PatientInit
<1>2. TypeOK /\ PatientInv /\ [Next /\ Patient]_vars => (TypeOK /\ PatientInv)'
  BY TypeNext, PatientNext
<1> QED
  BY <1>1, <1>2, PTL DEF PatientSpec

(* For a patient client, and with nobody but StopCapture to stop the        *)
(* capture, no callback finds m_audioClient released between its test and  *)
(* its call, in any session.                                               *)
THEOREM PatientNeverCrashes ==
  ASSUME BlockingOnly
  PROVE  PatientSpec => []NeverCrashes
<1>1. PatientInv => NeverCrashes
  BY DEF PatientInv, NeverCrashes
<1> QED
  BY <1>1, PatientInvariance, PTL

(* In every session of such a client InitializeAudioDevice returns on the  *)
(* m_done of its own ActivateCompleted.                                    *)
THEOREM PatientAwaits ==
  ASSUME BlockingOnly
  PROVE  PatientSpec => InitAwaitsActivation
<1>1. ASSUME TypeOK, PatientInv, [Next /\ Patient]_vars,
             conn = "check", waitFor = "Init", conn' \in { "reply", "recv" }
      PROVE  \A l \in ActivateLabels : at[l] = 0
  <2>1. done
    BY <1>1 DEF Next, Crashed, vars, ConnStep, StopTest, StopSet, InitializeAudioDevice,
       WaitReturn, WaitPark, WaitSleep, Reply, AsyncStartTest, AsyncStartSet, CmdStep,
       AsyncStopTest, AsyncStopSet, SendAnswer, WorkerStep, StartStep, StartClient,
       StartNoClient, StartArm, StartCapturing, StopFinishStep, StopTestKey, StopCancel, StopDropResult,
       StopTestClient, StopClient, StopNoClient, StopFlush, FinishStopped, FinishRelease,
       ActivateStep, ActivateResult, ActivateInitialized, ActivateError, ActivateRelease,
       SamplerStep, SampleLoop, SampleNext, SamplePacket, SampleNoClient, SampleExit, SampleArm,
       RecvHello, SpuriousWakeup, RecvCommand, SampleReady, SetDone, Notify, SampleEnter,
       SampleError, Crash, callbackFrame, sampleFrame, captureVars, connVars
  <2> QED
    BY <2>1, <1>1 DEF PatientInv, Ordered, Chain, Idle
<1>2. TypeOK /\ PatientInv /\ [Next /\ Patient]_vars
        => [conn = "check" /\ waitFor = "Init" /\ conn' \in { "reply", "recv" }
              => \A l \in ActivateLabels : at[l] = 0]_vars
  BY <1>1
<1> QED
  BY <1>2, PatientInvariance, PTL DEF PatientSpec, InitAwaitsActivation

(* What each step of the back end of such a client is for the connection   *)
(* thread and the audio callback: a step of CaptureDevice, or none.        *)
LEMMA DeviceStep ==
  ASSUME TypeOK, PatientInv, [Next]_vars
  PROVE  [Device!Next]_(Device!vars)
<1> USE DEF callbackFrame, sampleFrame, captureVars, connVars
<1>1. ASSUME UNCHANGED <<open, sampler>>
      PROVE  UNCHANGED Device!vars
  BY <1>1 DEF Device!vars
<1>2. ASSUME sampler # "packet", UNCHANGED sampler, open' = FALSE
      PROVE  [Device!Next]_(Device!vars)
  BY <1>2, Zenon DEF Device!Next, Device!Close, Device!vars, TypeOK
<1>3. CASE StopTest
  <2>1. CASE ~Stoppable
    <3>1. sampler # "packet"
      BY <1>3, <2>1 DEF StopTest, Stoppable, PatientInv, Ordered, Used, Waiting, Idle, Chain,
         Ending, StopLabels
    <3> QED
      BY <1>2, <1>3, <2>1, <3>1 DEF StopTest
  <2> QED
    BY <1>1, <1>3, <2>1 DEF StopTest
<1>4. CASE WaitReturn
  <2>1. CASE waitFor = "Stop"
    <3>1. sampler # "packet"
      BY <1>4, <2>1 DEF WaitReturn, PatientInv, Ordered, Used, Idle, Chain, Ending, StopLabels
    <3>2. open' = FALSE
      BY <1>4, <2>1, Zenon DEF WaitReturn
    <3> QED
      BY <1>2, <1>4, <3>1, <3>2 DEF WaitReturn
  <2>2. CASE waitFor # "Stop"
    <3>1. open' = open
      BY <1>4, <2>2, Zenon DEF WaitReturn, TypeOK
    <3> QED
      BY <1>1, <1>4, <3>1 DEF WaitReturn
  <2> QED
    BY <2>1, <2>2
<1>5. CASE AsyncStartSet
  <2>1. open = FALSE
    BY <1>5 DEF AsyncStartSet, PatientInv, Opened, TypeOK
  <2> QED
    BY <1>5, <2>1 DEF AsyncStartSet, Device!Next, Device!Open, Device!vars
<1>6. CASE SampleNext
  <2>1. open
    BY <1>6 DEF SampleNext, PatientInv, Opened
  <2> QED
    BY <1>6, <2>1 DEF SampleNext, Device!Next, Device!Deliver, Device!vars
<1>7. CASE SamplePacket
  BY <1>7 DEF SamplePacket, Device!Next, Device!Return, Device!vars
<1>8. CASE SampleLoop \/ SampleExit \/ SampleArm \/ SampleEnter
  <2>1. sampler # "packet" /\ sampler' # "packet" /\ UNCHANGED open
    BY <1>8 DEF SampleLoop, SampleExit, SampleArm, SampleEnter, LockFree
  <2> QED
    BY <2>1 DEF Device!vars
<1>9. CASE UNCHANGED vars
  BY <1>1, <1>9 DEF vars
<1>10. CASE (ConnStep /\ ~StopTest /\ ~WaitReturn /\ ~AsyncStartSet) \/ CmdStep \/ StartStep
  BY <1>1, <1>10 DEF ConnStep, StopSet, InitializeAudioDevice, WaitPark, WaitSleep, Reply,
     AsyncStartTest, CmdStep, AsyncStopTest, AsyncStopSet, SendAnswer, StartStep, StartClient,
     StartNoClient, StartArm, StartCapturing, Crash
<1>11. CASE StopFinishStep \/ ActivateStep \/ SampleNoClient
  BY <1>1, <1>11 DEF StopFinishStep, StopTestKey, StopCancel, StopDropResult, StopTestClient,
     StopClient, StopNoClient, StopFlush, FinishStopped, FinishRelease, ActivateStep,
     ActivateResult, ActivateInitialized, ActivateError, ActivateRelease, SampleNoClient, Crash
<1>12. CASE OtherStep /\ ~SampleEnter
  BY <1>1, <1>12 DEF OtherStep, RecvHello, SpuriousWakeup, RecvCommand, SampleReady, SetDone,
     Notify, SampleError
<1> QED
  BY <1>3, <1>4, <1>5, <1>6, <1>7, <1>8, <1>9, <1>10, <1>11, <1>12
     DEF Next, Crashed, WorkerStep, OtherStep, SamplerStep

(* The back end of such a client implements CaptureDevice in every session: *)
(* from the return of StopCapture to the next AsyncStartCapture no packet  *)
(* is handed to the audio callback.                                        *)
THEOREM PatientIsDevice ==
  ASSUME BlockingOnly
  PROVE  PatientSpec => DeviceSpec
<1>1. Init => Device!Init
  BY DEF Init, Device!Init
<1>2. TypeOK /\ PatientInv /\ [Next /\ Patient]_vars => [Device!Next]_(Device!vars)
  BY DeviceStep
<1> QED
  BY <1>1, <1>2, PatientInvariance, PTL DEF PatientSpec, DeviceSpec, Device!Spec
=============================================================================
