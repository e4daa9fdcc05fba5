---------------------------- MODULE WASAPICapture ----------------------------
(***************************************************************************)
(* The Windows capture component (WASAPICapture.cpp) together with the two *)
(* AudioStream threads that call it.                                       *)
(*                                                                         *)
(* The capture object is a state machine, m_deviceState, written from six  *)
(* kinds of thread without a common lock:                                  *)
(*   - the connection thread, which calls StopCapture,                     *)
(*     InitializeAudioDevice and AsyncStartCapture for every hello         *)
(*     datagram of an Android client;                                      *)
(*   - the command thread, which calls SetPlaybackState and                *)
(*     AsyncStopCapture;                                                   *)
(*   - Media Foundation workers running OnStartCapture, OnStopCapture and  *)
(*     OnFinishCapture, one work item each, concurrently;                  *)
(*   - the MTA thread that runs ActivateCompleted;                         *)
(*   - the MMCSS worker running OnSampleReady.                             *)
(*                                                                         *)
(* A callback invocation has no local state but its program point, so the  *)
(* invocations in flight are counted per program point: at[l] of them are  *)
(* about to run the statement labelled l.  A step of the model is one      *)
(* access to state shared between threads; a queue insertion is taken with *)
(* the store before it, since nobody can observe the gap.                  *)
(***************************************************************************)
EXTENDS Naturals

CONSTANTS
  MaxHellos,  \* bound: hello datagrams handled in a behaviour
  Commands,   \* the commands the client may send
  Failures    \* the environment failures that may occur in a behaviour

CommandKinds == { "ping", "play", "pause", "stop" }

FailureKinds ==
  { "activateCall",  \* ActivateAudioInterfaceAsync throws
    "activate",      \* a call inside ActivateCompleted throws
    "start",         \* IAudioClient::Start fails
    "put",           \* MFPutWorkItem2 fails
    "buffer",        \* IAudioCaptureClient::GetBuffer fails
    "decrypt",       \* a hello does not decrypt
    "send" }         \* sendto fails

ASSUME ConstantsAssumption ==
  /\ MaxHellos \in Nat
  /\ Commands \subseteq CommandKinds
  /\ Failures \subseteq FailureKinds

VARIABLES
  deviceState,  \* m_deviceState (std::atomic)
  playback,     \* m_playbackActive (std::atomic)
  done,         \* m_done, guarded by m_mutex
  client,       \* m_audioClient, m_audioCaptureClient and m_mixFormat are set
  asyncResult,  \* m_sampleReadyAsyncResult is set
  key,          \* m_sampleReadyKey is not 0
  armed,        \* work items waiting on m_SampleReadyEvent
  at,           \* callback invocations, per program point
  sampler,      \* program point of the OnSampleReady that owns m_lock
  conn,         \* program point of the connection thread
  waitFor,      \* the call whose wait on m_cv the connection thread last began
  cmd,          \* program point of the command thread
  hellos,       \* hello datagrams received so far
  crashed,      \* a null interface pointer was dereferenced
  open          \* history, only DeviceSpec reads it: AsyncStartCapture was
                \* called and no StopCapture has returned since

vars == <<deviceState, playback, done, client, asyncResult, key, armed, at,
          sampler, conn, waitFor, cmd, hellos, crashed, open>>

-----------------------------------------------------------------------------
(* The values of DeviceState some code path stores; the enumeration also   *)
(* declares Discontinuity, Activated, Playing, Pausing and Paused.         *)
DeviceStates == { "Uninitialized", "Error", "Initialized", "Starting",
                  "Capturing", "Stopping", "Flushing", "Stopped" }

StartLabels  == { "start.Start", "start.arm", "start.Capturing" }
StopLabels   == { "stop.key", "stop.cancel", "stop.result", "stop.client",
                  "stop.Stop", "stop.Flushing" }
FinishLabels == { "finish.Stopped", "finish.release" }
ActivateLabels == { "act.result", "act.Initialized", "act.Error", "act.release" }

(* OnFinishCapture and ActivateCompleted end alike: m_done, then notify.   *)
SignalLabels == { "setDone", "notify" }
SampleLabels == { "sample.enter", "sample.Error" }

Labels == StartLabels \cup StopLabels \cup FinishLabels \cup ActivateLabels
            \cup SignalLabels \cup SampleLabels

ConnPoints == { "recv", "stop", "stopSet", "init", "check", "park", "sleep",
                "reply", "start", "startSet", "exited" }
CmdPoints  == { "recv", "stop", "stopSet", "reply", "failStop", "failStopSet" }

Init ==
  /\ deviceState = "Uninitialized"
  /\ playback = TRUE
  /\ done = FALSE
  /\ client = FALSE
  /\ asyncResult = FALSE
  /\ key = FALSE
  /\ armed = 0
  /\ at = [l \in Labels |-> 0]
  /\ sampler = "out"
  /\ conn = "recv"
  /\ waitFor = "Stop"
  /\ cmd = "recv"
  /\ hellos = 0
  /\ crashed = FALSE
  /\ open = FALSE

-----------------------------------------------------------------------------
(* Moving callback invocations.                                            *)
Spawn(l)   == at' = [at EXCEPT ![l] = @ + 1]
Retire(l)  == at[l] > 0 /\ at' = [at EXCEPT ![l] = @ - 1]
Step(l, m) == at[l] > 0 /\ at' = [at EXCEPT ![l] = @ - 1, ![m] = @ + 1]

(* MFPutWorkItem2 to the multithreaded queue; its result is not looked at. *)
PutWorkItem(l) == Spawn(l) \/ ("put" \in Failures /\ UNCHANGED at)

(* MFPutWaitingWorkItem on the sample event: one more item waits, and      *)
(* m_sampleReadyKey names it.  It keeps naming it when the item has fired. *)
Arm == armed' = armed + 1 /\ key' = TRUE

(* m_mutex is held by the connection thread inside StopCapture and         *)
(* InitializeAudioDevice, except while it sleeps on m_cv.                  *)
MutexFree == conn \notin { "stopSet", "check", "park" }

(* m_lock is held exactly while an OnSampleReady invocation is inside.     *)
LockFree == sampler = "out"

Stoppable == deviceState \in { "Capturing", "Error" }
Startable == deviceState \in { "Initialized", "Stopped" }

captureVars == <<client, asyncResult, key, armed>>
connVars    == <<conn, waitFor, hellos, open>>

(* The access violation of a call through a null interface pointer.        *)
Crash ==
  /\ crashed' = TRUE
  /\ UNCHANGED <<deviceState, playback, done, captureVars, at, sampler,
                 connVars, cmd>>

-----------------------------------------------------------------------------
(* The connection thread: t_connection_receiver and the calls it makes.    *)

RecvHello ==
  /\ conn = "recv"
  /\ hellos < MaxHellos
  /\ hellos' = hellos + 1
  /\ conn' = "stop"
  /\ UNCHANGED <<deviceState, playback, done, captureVars, at, sampler,
                 waitFor, cmd, crashed, open>>

(* StopCapture locks m_mutex and tests the device state; it returns when   *)
(* there is nothing to stop.                                               *)
StopTest ==
  /\ conn = "stop"
  /\ IF Stoppable THEN conn' = "stopSet" /\ UNCHANGED open
                  ELSE conn' = "init" /\ open' = FALSE
  /\ UNCHANGED <<deviceState, playback, done, captureVars, at, sampler,
                 waitFor, hellos, cmd, crashed>>

(* Variant for checking: the call does not wait for OnFinishCapture.       *)
StopSetNoWait ==
  /\ conn = "stopSet"
  /\ deviceState' = "Stopping"
  /\ PutWorkItem("stop.key")
  /\ conn' = "init"
  /\ waitFor' = "Stop"
  /\ open' = FALSE
  /\ UNCHANGED <<playback, done, captureVars, sampler, hellos, cmd, crashed>>

(* ... stores Stopping, queues OnStopCapture and starts to wait.           *)
StopSet ==
  /\ conn = "stopSet"
  /\ deviceState' = "Stopping"
  /\ PutWorkItem("stop.key")
  /\ conn' = "check"
  /\ waitFor' = "Stop"
  /\ UNCHANGED <<playback, done, captureVars, sampler, hellos, cmd, crashed, open>>

(* InitializeAudioDevice locks m_mutex and asks for an activation.  When   *)
(* the request itself throws, no ActivateCompleted will ever come.         *)
InitializeAudioDevice ==
  /\ conn = "init"
  /\ \/ /\ Spawn("act.result")
        /\ UNCHANGED deviceState
     \/ /\ "activateCall" \in Failures
        /\ deviceState' = "Error"
        /\ UNCHANGED at
  /\ conn' = "check"
  /\ waitFor' = "Init"
  /\ UNCHANGED <<playback, done, captureVars, sampler, hellos, cmd, crashed, open>>

(* Variant for checking: m_done is not reset when the wait ends.           *)
WaitReturnKeepDone ==
  /\ conn = "check"
  /\ done
  /\ conn' = CASE waitFor = "Stop" -> "init"
               [] waitFor = "Init" /\ deviceState = "Initialized" -> "reply"
               [] OTHER -> "recv"
  /\ open' = (open /\ waitFor # "Stop")
  /\ UNCHANGED <<deviceState, playback, done, captureVars, at, sampler, waitFor,
                 hellos, cmd, crashed>>

(* m_cv.wait evaluates its predicate with m_mutex held.  If m_done is set, *)
(* it is reset and the call returns; InitializeAudioDevice returns whether *)
(* the device is Initialized, and the thread continues with the next hello *)
(* when it is not.                                                         *)
WaitReturn ==
  /\ conn = "check"
  /\ done
  /\ done' = FALSE
  /\ conn' = CASE waitFor = "Stop" -> "init"
               [] waitFor = "Init" /\ deviceState = "Initialized" -> "reply"
               [] OTHER -> "recv"
  /\ open' = (open /\ waitFor # "Stop")
  /\ UNCHANGED <<deviceState, playback, captureVars, at, sampler, waitFor,
                 hellos, cmd, crashed>>

WaitPark ==
  /\ conn = "check"
  /\ ~done
  /\ conn' = "park"
  /\ UNCHANGED <<deviceState, playback, done, captureVars, at, sampler,
                 waitFor, hellos, cmd, crashed, open>>

(* Unlocking m_mutex and going to sleep is one step: that is what a        *)
(* condition variable guarantees.                                          *)
WaitSleep ==
  /\ conn = "park"
  /\ conn' = "sleep"
  /\ UNCHANGED <<deviceState, playback, done, captureVars, at, sampler,
                 waitFor, hellos, cmd, crashed, open>>

(* A condition variable may also wake without a notification.              *)
SpuriousWakeup ==
  /\ conn = "sleep"
  /\ conn' = "check"
  /\ UNCHANGED <<deviceState, playback, done, captureVars, at, sampler,
                 waitFor, hellos, cmd, crashed, open>>

(* The rest of the hello handler: decrypt, or wait for the next hello;     *)
(* send the stream settings, or leave the thread; connect the audio        *)
(* socket.                                                                 *)
Reply ==
  /\ conn = "reply"
  /\ \/ conn' = "start"
     \/ "decrypt" \in Failures /\ conn' = "recv"
     \/ "send" \in Failures /\ conn' = "exited"
  /\ UNCHANGED <<deviceState, playback, done, captureVars, at, sampler,
                 waitFor, hellos, cmd, crashed, open>>

AsyncStartTest ==
  /\ conn = "start"
  /\ conn' = IF Startable THEN "startSet" ELSE "recv"
  /\ UNCHANGED <<deviceState, playback, done, captureVars, at, sampler,
                 waitFor, hellos, cmd, crashed, open>>

AsyncStartSet ==
  /\ conn = "startSet"
  /\ deviceState' = "Starting"
  /\ PutWorkItem("start.Start")
  /\ conn' = "recv"
  /\ open' = TRUE
  /\ UNCHANGED <<playback, done, captureVars, sampler, waitFor, hellos, cmd,
                 crashed>>

-----------------------------------------------------------------------------
(* The command thread: t_cmd_receiver.  Commands 1 and 2 store the playback *)
(* flag, 3 calls AsyncStopCapture, ping (0) and unknown commands call      *)
(* nothing; every decrypted command is answered.                           *)

RecvCommand ==
  /\ cmd = "recv"
  /\ \E c \in Commands :
       /\ playback' = CASE c = "play" -> TRUE
                        [] c = "pause" -> FALSE
                        [] OTHER -> playback
       /\ cmd' = IF c = "stop" THEN "stop" ELSE "reply"
  /\ UNCHANGED <<deviceState, done, captureVars, at, sampler, connVars,
                 crashed>>

(* AsyncStopCapture, called for command 3 and again when the answer cannot *)
(* be sent: test the device state, ...                                     *)
AsyncStopTest ==
  /\ \/ cmd = "stop" /\ cmd' = IF Stoppable THEN "stopSet" ELSE "reply"
     \/ cmd = "failStop" /\ cmd' = IF Stoppable THEN "failStopSet" ELSE "recv"
  /\ UNCHANGED <<deviceState, playback, done, captureVars, at, sampler,
                 connVars, crashed>>

(* ... then store Stopping and queue OnStopCapture, without m_mutex.       *)
AsyncStopSet ==
  /\ \/ cmd = "stopSet" /\ cmd' = "reply"
     \/ cmd = "failStopSet" /\ cmd' = "recv"
  /\ deviceState' = "Stopping"
  /\ PutWorkItem("stop.key")
  /\ UNCHANGED <<playback, done, captureVars, sampler, connVars, crashed>>

SendAnswer ==
  /\ cmd = "reply"
  /\ cmd' \in { "recv" } \cup (IF "send" \in Failures THEN { "failStop" } ELSE {})
  /\ UNCHANGED <<deviceState, playback, done, captureVars, at, sampler,
                 connVars, crashed>>

-----------------------------------------------------------------------------
(* OnStartCapture, on a Media Foundation worker.                           *)

callbackFrame == <<playback, connVars, cmd>>

(* Variant for checking: the failure handler forgets to store Error.       *)
StartClientSilent ==
  /\ client
  /\ \/ Step("start.Start", "start.arm")
     \/ "start" \in Failures /\ Retire("start.Start")
  /\ UNCHANGED <<callbackFrame, deviceState, done, captureVars, sampler, crashed>>

StartClient ==
  /\ client
  /\ \/ Step("start.Start", "start.arm") /\ UNCHANGED deviceState
     \/ /\ "start" \in Failures
        /\ Retire("start.Start")
        /\ deviceState' = "Error"
  /\ UNCHANGED <<callbackFrame, done, captureVars, sampler, crashed>>

StartNoClient == ~client /\ at["start.Start"] > 0 /\ Crash

(* The first waiting work item; without m_sampleReadyAsyncResult the call  *)
(* fails.                                                                  *)
StartArm ==
  /\ \/ /\ asyncResult
        /\ Step("start.arm", "start.Capturing")
        /\ Arm
        /\ UNCHANGED deviceState
     \/ /\ ~asyncResult
        /\ Retire("start.arm")
        /\ deviceState' = "Error"
        /\ UNCHANGED <<key, armed>>
  /\ UNCHANGED <<callbackFrame, done, client, asyncResult, sampler, crashed>>

(* Variant for checking: the state is one of those nobody handles.         *)
StartCapturingPlaying ==
  /\ Retire("start.Capturing")
  /\ deviceState' = "Playing"
  /\ UNCHANGED <<callbackFrame, done, captureVars, sampler, crashed>>

StartCapturing ==
  /\ Retire("start.Capturing")
  /\ deviceState' = "Capturing"
  /\ UNCHANGED <<callbackFrame, done, captureVars, sampler, crashed>>

-----------------------------------------------------------------------------
(* OnStopCapture, on a Media Foundation worker.                            *)

(* OnStopCapture reads m_sampleReadyKey without a lock, ...                *)
StopTestKey ==
  /\ IF key THEN Step("stop.key", "stop.cancel")
            ELSE Step("stop.key", "stop.result")
  /\ UNCHANGED <<callbackFrame, deviceState, done, captureVars, sampler,
                 crashed>>

(* ... and exchanges it for 0 in a step of its own: invocations that       *)
(* overlap may all have found it set, and each of them cancels.            *)
(* MFCancelWorkItem takes back the item the key names if that one still    *)
(* waits; which of the items it names is not tracked.                      *)
StopCancel ==
  /\ Step("stop.cancel", "stop.result")
  /\ key' = FALSE
  /\ armed' \in { armed } \cup (IF armed > 0 THEN { armed - 1 } ELSE {})
  /\ UNCHANGED <<callbackFrame, deviceState, done, client, asyncResult,
                 sampler, crashed>>

StopDropResult ==
  /\ Step("stop.result", "stop.client")
  /\ asyncResult' = FALSE
  /\ UNCHANGED <<callbackFrame, deviceState, done, client, key, armed,
                 sampler, crashed>>

StopTestClient ==
  /\ IF client THEN Step("stop.client", "stop.Stop")
               ELSE Step("stop.client", "stop.Flushing")
  /\ UNCHANGED <<callbackFrame, deviceState, done, captureVars, sampler,
                 crashed>>

(* Variant for checking: m_lock is not taken around IAudioClient::Stop.     *)
StopClientUnlocked ==
  /\ client
  /\ Step("stop.Stop", "stop.Flushing")
  /\ UNCHANGED <<callbackFrame, deviceState, done, captureVars, sampler,
                 crashed>>

(* IAudioClient::Stop under m_lock, after a sample callback has left.      *)
StopClient ==
  /\ LockFree
  /\ client
  /\ Step("stop.Stop", "stop.Flushing")
  /\ UNCHANGED <<callbackFrame, deviceState, done, captureVars, sampler,
                 crashed>>

StopNoClient == LockFree /\ ~client /\ at["stop.Stop"] > 0 /\ Crash

(* Store Flushing and queue OnFinishCapture; when the queue refuses it, the *)
(* callback returns the error to Media Foundation and nothing follows.     *)
StopFlush ==
  /\ deviceState' = "Flushing"
  /\ \/ Step("stop.Flushing", "finish.Stopped")
     \/ "put" \in Failures /\ Retire("stop.Flushing")
  /\ UNCHANGED <<callbackFrame, done, captureVars, sampler, crashed>>

-----------------------------------------------------------------------------
(* OnFinishCapture, on a Media Foundation worker.                          *)

FinishStopped ==
  /\ Step("finish.Stopped", "finish.release")
  /\ deviceState' = "Stopped"
  /\ UNCHANGED <<callbackFrame, done, captureVars, sampler, crashed>>

(* Variant for checking: the last lines, m_done and notify, are missing.   *)
FinishReleaseSilent ==
  /\ Retire("finish.release")
  /\ client' = FALSE
  /\ asyncResult' = FALSE
  /\ UNCHANGED <<callbackFrame, deviceState, done, key, armed, sampler,
                 crashed>>

FinishRelease ==
  /\ Step("finish.release", "setDone")
  /\ client' = FALSE
  /\ asyncResult' = FALSE
  /\ UNCHANGED <<callbackFrame, deviceState, done, key, armed, sampler,
                 crashed>>

(* Variant for checking: m_done is stored without m_mutex.                 *)
SetDoneUnlocked ==
  /\ Step("setDone", "notify")
  /\ done' = TRUE
  /\ UNCHANGED <<callbackFrame, deviceState, captureVars, sampler, crashed>>

(* m_done = true, under m_mutex; ActivateCompleted ends the same way.      *)
SetDone ==
  /\ MutexFree
  /\ Step("setDone", "notify")
  /\ done' = TRUE
  /\ UNCHANGED <<callbackFrame, deviceState, captureVars, sampler, crashed>>

(* m_cv.notify_one wakes the connection thread if it sleeps.               *)
Notify ==
  /\ Retire("notify")
  /\ conn' = IF conn = "sleep" THEN "check" ELSE conn
  /\ UNCHANGED <<deviceState, playback, done, captureVars, sampler, waitFor,
                 hellos, cmd, crashed, open>>

-----------------------------------------------------------------------------
(* ActivateCompleted, on an MTA thread.                                    *)

ActivateResult ==
  /\ \/ /\ Step("act.result", "act.Initialized")
        /\ client' = TRUE
        /\ asyncResult' = TRUE
     \/ /\ "activate" \in Failures
        /\ Step("act.result", "act.Error")
        /\ client' \in { client, TRUE }
        /\ asyncResult' \in { asyncResult, asyncResult \/ client' }
  /\ UNCHANGED <<callbackFrame, deviceState, done, key, armed, sampler,
                 crashed>>

ActivateInitialized ==
  /\ Step("act.Initialized", "setDone")
  /\ deviceState' = "Initialized"
  /\ UNCHANGED <<callbackFrame, done, captureVars, sampler, crashed>>

ActivateError ==
  /\ Step("act.Error", "act.release")
  /\ deviceState' = "Error"
  /\ UNCHANGED <<callbackFrame, done, captureVars, sampler, crashed>>

ActivateRelease ==
  /\ Step("act.release", "setDone")
  /\ client' = FALSE
  /\ asyncResult' = FALSE
  /\ UNCHANGED <<callbackFrame, deviceState, done, key, armed, sampler,
                 crashed>>

-----------------------------------------------------------------------------
(* OnSampleReady, on the MMCSS worker.                                     *)

sampleFrame == <<playback, connVars, cmd, done, client, asyncResult>>

(* The event releases one waiting item.                                    *)
SampleReady ==
  /\ armed > 0
  /\ armed' = armed - 1
  /\ Spawn("sample.enter")
  /\ UNCHANGED <<sampleFrame, deviceState, sampler, key, crashed>>

(* Take m_lock and return at once when a stop is under way.                *)
SampleEnter ==
  /\ LockFree
  /\ Retire("sample.enter")
  /\ sampler' = IF deviceState \in { "Stopping", "Flushing" }
                THEN "out" ELSE "loop"
  /\ UNCHANGED <<sampleFrame, deviceState, key, armed, crashed>>

(* Variants for checking: the loop does not look at the playback flag, or  *)
(* not at the device state.                                                *)
SampleLoopUnpausable ==
  /\ sampler = "loop"
  /\ sampler' = IF deviceState = "Capturing" THEN "next" ELSE "exit"
  /\ UNCHANGED <<sampleFrame, deviceState, key, armed, at, crashed>>

SampleLoopUnstoppable ==
  /\ sampler = "loop"
  /\ sampler' = IF playback THEN "next" ELSE "exit"
  /\ UNCHANGED <<sampleFrame, deviceState, key, armed, at, crashed>>

(* The condition of the loop over the packets: play, capture, ...          *)
SampleLoop ==
  /\ sampler = "loop"
  /\ sampler' = IF playback /\ deviceState = "Capturing" THEN "next" ELSE "exit"
  /\ UNCHANGED <<sampleFrame, deviceState, key, armed, at, crashed>>

(* ... and GetNextPacketSize, which finds a packet or none.                *)
SampleNext ==
  /\ sampler = "next"
  /\ client
  /\ sampler' \in { "packet", "exit" }
  /\ UNCHANGED <<sampleFrame, deviceState, key, armed, at, crashed>>

(* Read a packet, hand it to the stream's callback, release it.            *)
SamplePacket ==
  /\ sampler = "packet"
  /\ client
  /\ \/ sampler' = "loop" /\ UNCHANGED at
     \/ "buffer" \in Failures /\ sampler' = "out" /\ Spawn("sample.Error")
  /\ UNCHANGED <<sampleFrame, deviceState, key, armed, crashed>>

SampleNoClient == ~client /\ sampler \in { "next", "packet" } /\ Crash

(* Wait for the event again only while capturing.                          *)
SampleExit ==
  /\ sampler = "exit"
  /\ sampler' = IF deviceState = "Capturing" THEN "arm" ELSE "out"
  /\ UNCHANGED <<sampleFrame, deviceState, key, armed, at, crashed>>

SampleArm ==
  /\ sampler = "arm"
  /\ sampler' = "out"
  /\ \/ asyncResult /\ Arm /\ UNCHANGED at
     \/ ~asyncResult /\ Spawn("sample.Error") /\ UNCHANGED <<key, armed>>
  /\ UNCHANGED <<sampleFrame, deviceState, crashed>>

(* The exception handler runs after m_lock is released.                    *)
SampleError ==
  /\ Retire("sample.Error")
  /\ deviceState' = "Error"
  /\ UNCHANGED <<sampleFrame, sampler, key, armed, crashed>>

-----------------------------------------------------------------------------
ConnStep == \/ StopTest \/ StopSet \/ InitializeAudioDevice \/ WaitReturn
            \/ WaitPark \/ WaitSleep \/ Reply \/ AsyncStartTest \/ AsyncStartSet

CmdStep == AsyncStopTest \/ AsyncStopSet \/ SendAnswer

(* The steps of the callbacks, each on a worker thread of its own; ...     *)
StartStep == StartClient \/ StartNoClient \/ StartArm \/ StartCapturing

StopFinishStep == \/ StopTestKey \/ StopCancel \/ StopDropResult
                  \/ StopTestClient \/ StopClient \/ StopNoClient \/ StopFlush
                  \/ FinishStopped \/ FinishRelease

ActivateStep == \/ ActivateResult \/ ActivateInitialized \/ ActivateError
                \/ ActivateRelease

WorkerStep == \/ StartStep \/ StopFinishStep \/ ActivateStep
              \/ SetDone \/ Notify \/ SampleEnter \/ SampleError

(* ... and those of the sample callback that is inside m_lock.              *)
SamplerStep == \/ SampleLoop \/ SampleNext \/ SamplePacket
               \/ SampleNoClient \/ SampleExit \/ SampleArm

(* A crashed process does nothing more.                                    *)
Crashed == crashed /\ UNCHANGED vars

Next ==
  \/ /\ ~crashed
     /\ \/ RecvHello \/ SpuriousWakeup \/ ConnStep
        \/ RecvCommand \/ CmdStep
        \/ SampleReady \/ SamplerStep \/ WorkerStep
  \/ Crashed

Spec == Init /\ [][Next]_vars

(* Every thread keeps running, but nobody is obliged to send a hello or a  *)
(* command, to signal the sample event or to wake a sleeper for nothing.   *)
(* Media Foundation keeps running the items of its queues; which of several *)
(* invocations of one callback moves first is left open.  A thread that    *)
(* waits for m_mutex gets it if it is free again and again.                *)
Fairness ==
  /\ WF_vars(~crashed /\ ConnStep)
  /\ WF_vars(~crashed /\ CmdStep)
  /\ WF_vars(~crashed /\ StartStep)
  /\ WF_vars(~crashed /\ StopFinishStep)
  /\ WF_vars(~crashed /\ ActivateStep)
  /\ WF_vars(~crashed /\ SampleEnter)
  /\ WF_vars(~crashed /\ SampleError)
  /\ WF_vars(~crashed /\ SamplerStep)
  /\ SF_vars(~crashed /\ SetDone)
  /\ WF_vars(~crashed /\ Notify)

FairSpec == Spec /\ Fairness

(* A client that says hello again only when no start is under way.         *)
Patient == conn = "recv" /\ conn' = "stop" => \A l \in StartLabels : at[l] = 0

PatientSpec == Init /\ [][Next /\ Patient]_vars

-----------------------------------------------------------------------------
(* Every variable has its type; m_deviceState only ever holds one of the    *)
(* eight values some code path stores.                                     *)
TypeOK ==
  /\ deviceState \in DeviceStates
  /\ playback \in BOOLEAN
  /\ done \in BOOLEAN
  /\ client \in BOOLEAN
  /\ asyncResult \in BOOLEAN
  /\ key \in BOOLEAN
  /\ armed \in Nat
  /\ at \in [Labels -> Nat]
  /\ sampler \in { "out", "loop", "next", "packet", "exit", "arm" }
  /\ conn \in ConnPoints
  /\ waitFor \in { "Stop", "Init" }
  /\ cmd \in CmdPoints
  /\ hellos \in 0 .. MaxHellos
  /\ crashed \in BOOLEAN
  /\ open \in BOOLEAN

Waiting == conn \in { "check", "park", "sleep" }
SignalPath == StopLabels \cup FinishLabels \cup ActivateLabels \cup { "setDone" }

(* No wake-up is lost.  While the connection thread is inside m_cv.wait,   *)
(* either m_done is set, and a notification is still to come if the thread *)
(* already sleeps, or some callback that ends by setting m_done is on its  *)
(* way.                                                                    *)
WaiterHasSignal ==
  Waiting => \/ done /\ (conn = "sleep" => at["notify"] > 0)
             \/ \E l \in SignalPath : at[l] > 0

(* The states named after work in progress are only entered while that     *)
(* work is in progress: the device cannot be left Starting, Stopping or    *)
(* Flushing with nobody to move it on, although all callbacks store the    *)
(* state without a common lock.                                            *)
TransientHasWork ==
  /\ deviceState = "Starting" => \E l \in StartLabels : at[l] > 0
  /\ deviceState = "Stopping" => \E l \in StopLabels : at[l] > 0
  /\ deviceState = "Flushing" => at["finish.Stopped"] > 0

(* OnFinishCapture says of itself that "there could still be a sample      *)
(* processing": a sample callback that is reading a packet still has the   *)
(* capture client that OnFinishCapture releases.                           *)
SampleHasClient == sampler \in { "next", "packet" } => client

(* A call that waits on m_cv stops waiting: StopCapture and                *)
(* InitializeAudioDevice never hang once they wait.                        *)
WaitEnds == Waiting ~> (~Waiting \/ crashed)

(* A start or a stop completes: the device is not for ever Starting,       *)
(* Stopping or Flushing, even when packets keep coming while OnStopCapture *)
(* waits for m_lock.                                                       *)
Transient == { "Starting", "Stopping", "Flushing" }
TransientEnds == deviceState \in Transient ~> (deviceState \notin Transient \/ crashed)

(* Once the client's last word is pause, audio stops: the sample callback  *)
(* leaves its loop although packets keep coming, and enters it no more.    *)
PauseQuiesces == <>[]~playback => <>[](sampler # "packet" \/ crashed)

(* InitializeAudioDevice returns on the notification of ActivateCompleted: *)
(* when it has consumed m_done, no activation is still under way.          *)
InitAwaitsActivation ==
  [][conn = "check" /\ waitFor = "Init" /\ conn' \in { "reply", "recv" }
       => \A l \in ActivateLabels : at[l] = 0]_vars

(* No callback calls through an interface that another one has released    *)
(* between the test of m_audioClient and the call.                         *)
NeverCrashes == ~crashed

(* The capture is a CaptureDevice, open from the call of AsyncStartCapture *)
(* until StopCapture returns: whatever callbacks, failures and late stores *)
(* overlap, no packet is handed to the audio callback while the connection *)
(* thread decrypts a hello or answers it with the cipher and the generator *)
(* they share, and StopCapture does not return under a packet.  It is the  *)
(* promise of this capture to a patient client that never stops it.        *)
Device == INSTANCE CaptureDevice WITH delivering <- sampler = "packet"

DeviceSpec == Device!Spec
=============================================================================
