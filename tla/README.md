# A TLA+ model of SysAudioStream

SysAudioStream captures the sound of a PC (WASAPI on Windows, PulseAudio on
Linux), encrypts it and sends it over UDP to an Android app. This directory
models the program from the configuration file to the datagram: the two
capture back ends with every thread that uses them, `AudioStream` and `main`
over an abstract back end, the whole Linux program, and the encryption of a
datagram. It holds TLC
models, proofs for TLAPS, and `PROJECT.json`, which ties every definition to
the source lines it stands for. Paths below are relative to
`src/SysAudioStream/`.

    tlc -config MCWASAPICapture_first.cfg MCWASAPICapture
    tlapm WASAPICapture_proofs.tla

## 1. The system

| Component | State it keeps | Operations | Who calls it |
|---|---|---|---|
| `main` (`Main.cpp`) | the three lines of `config.ini` | read or write the file, create `AudioStream`, sleep | - |
| `AudioStream` (`AudioStream.cpp`) | three sockets, two threads, a shared `AESWrapper`, a shared random generator, the capture object | `Init`, destructor, connection thread, command thread, audio callback | `main`, the client's datagrams, the back end |
| `WASAPICapture` | `m_deviceState`, `m_playbackActive`, `m_done` under `m_mutex`, COM pointers, the key of a waiting work item | `StopCapture`, `InitializeAudioDevice`, `AsyncStartCapture`, `AsyncStopCapture`, `SetPlaybackState`, five callbacks | both threads; Media Foundation workers, an MTA thread, the MMCSS worker |
| `PulseAudioCapture` | global pointers: loop, API table, context, stream, thread; `ss` | the same interface, the stream callbacks, the loop thread | both threads; the loop thread |
| `AESWrapper`, CBC of `aes.cpp` | key, vector, two contexts | `SetIv`, `GenerateKey`, `Encrypt`, `Decrypt` | connection and command threads, audio callback |
| PKCS#7 (`pkcs7_padding.cpp`) | - | pad, check, length without the padding | `AESWrapper` |
| AES block cipher, ECB, CTR (`aes.cpp`) | - | - | vendored tiny-AES-c |
| `RandomGenerator` | an `mt19937` | `Generate` | three threads, without a lock |
| COM helpers (`Common.h`, `pch.h`), build files | - | - | - |

How they interact.  A *hello* datagram makes the connection thread stop the
current capture, set up the device again, decrypt the hello, send the stream
settings, connect the audio socket and start the capture.  A *command*
datagram (ping, play, pause, stop) makes the command thread call the same
capture object.  The capture object calls the audio callback of `AudioStream`
for every packet; the callback encrypts and sends it.  Nothing but two mutexes
inside the Windows back end protects what the threads share.

What is hard here:

- on Windows, a state machine stored to by six kinds of thread, and blocking
  calls built from asynchronous ones with one flag and one condition variable;
- on Linux, global pointers used by three threads, and a `quit()` that two of
  them run against each other;
- stop, start and failure in any order, over several sessions;
- UDP, which loses, repeats and reorders.

What makes each part correct:

- *WASAPI*: a blocking call is always woken; a transient state is always moved
  on; nothing is released under a running sample callback; a pause silences it.
- *PulseAudio*: the loop thread is gone before anybody else touches its
  objects; `StopCapture` returns; a session starts from nothing; nothing that
  was freed is used; the announced settings are those of the stream.
- *both*: no audio is delivered from the return of `StopCapture` to the next
  `AsyncStartCapture`, so that the connection thread may use the shared cipher
  meanwhile (`CaptureDevice`).
- *AudioStream*: what is sent was encrypted with the vector it carries, although
  two threads share a wrapper without a lock; no vector is used twice while only
  they draw vectors; audio goes to the client that was answered last; a socket
  outlives the thread that uses it; every hello is handled to its end, unless
  `InitializeAudioDevice` waits for ever.
- *main*: a client that was paired stays paired, whatever crashed meanwhile, as
  long as `config.ini` can be opened.
- *encryption*: whatever arrives decrypts to what was sent, whatever arrived
  before it.

`PROJECT.json` lists the hazards line by line, with the properties that cover
each of them or the reason why none does.

## 2. Modules

    CaptureDevice             what AudioStream expects of a back end (abstract)
    WASAPICapture             Windows back end with its callers; implements
                              CaptureDevice for a patient client
      MCWASAPICapture           constants for TLC
      WASAPICapture_proofs      theorems for any number of sessions
      WASAPISessions_proofs     theorems for one session and for patient clients
    PulseAudioCapture         Linux back end with its callers; implements CaptureDevice
      MCPulseAudioCapture       constants for TLC
      PulseAudioCapture_proofs  theorems
    AudioStream               both threads, the audio callback, Init and the
                              destructor over CaptureDevice
    Main                      the process and config.ini; extends AudioStream
      MCMain                    constants for TLC
      Main_proofs               theorems
    LinuxProgram              Main with PulseAudioCapture in the place of
                              CaptureDevice; implements Main
      MCLinuxProgram            constants for TLC
      LinuxProgram_proofs       theorems; brings those of Main over
    Pkcs7                     the padding functions as operators
      Pkcs7_proofs              theorems about the operators
    Pkcs7Buffers              the functions on every buffer, beside PKCS#7's definition
      MCPkcs7                   constants for TLC
      Pkcs7Buffers_proofs       theorems
    AESWrapper                encryption, UDP, decryption; extends Pkcs7
      MCAESWrapper              a small stand-in for the block cipher
      AESWrapper_proofs         theorems for every block cipher

Definitions named as the "variant for checking" of another are deliberate
errors; nothing uses them.  They record which mistake in the code each
property would notice.

### WASAPICapture

`deviceState`, `playback` and `done` are `m_deviceState`, `m_playbackActive`
and `m_done`.  `client` says whether the interface pointers are set,
`asyncResult` the same of `m_sampleReadyAsyncResult`, `key` whether
`m_sampleReadyKey` differs from 0, `armed` how many work items wait for the
sample event.  Callback invocations have no local state but their program point, so
they are counted: `at[l]` invocations are about to execute statement `l`.
That keeps two concurrent stops, or the finish of an old stop beside a new
activation, in the model without naming threads.  `conn`, `cmd` and `sampler`
are the program points of the connection thread, the command thread and the
sample callback that holds `m_lock`.  `open` is not in the code: it is set by the
call of `AsyncStartCapture` and reset when `StopCapture` returns, and only
`DeviceSpec` reads it.

A step is one access to shared state.  Where the code tests a state and then
stores another, these are two steps (`StopTest`, `StopSet`; `StopTestKey`,
`StopCancel`).  `m_mutex` is
held by the connection thread from the test in `StopCapture` until it sleeps;
`WaitSleep` unlocks and sleeps in one step, as a condition variable does.
`WaitPark` and `WaitSleep` are separate so that a notification has the chance
to come too early; `SetDone` needs the mutex, which is why it cannot.

| Code | Actions |
|---|---|
| `t_connection_receiver` | `RecvHello`, `Reply` |
| `StopCapture` | `StopTest`, `StopSet`, `Wait*` |
| `InitializeAudioDevice` | `InitializeAudioDevice`, `Wait*` |
| `AsyncStartCapture`, `AsyncStopCapture` | `AsyncStartTest`/`Set`, `AsyncStopTest`/`Set` |
| `SetPlaybackState`, `t_cmd_receiver` | `RecvCommand`, `SendAnswer` |
| `OnStartCapture` | `StartClient`, `StartNoClient`, `StartArm`, `StartCapturing` |
| `OnStopCapture` | `StopTestKey`, `StopCancel`, `StopDropResult`, `StopTestClient`, `StopClient`, `StopNoClient`, `StopFlush` |
| `OnFinishCapture` | `FinishStopped`, `FinishRelease`, `SetDone`, `Notify` |
| `ActivateCompleted` | `ActivateResult`, `ActivateInitialized`, `ActivateError`, `ActivateRelease`, `SetDone`, `Notify` |
| `OnSampleReady` | `SampleReady`, `SampleEnter`, `SampleLoop`, `SampleNext`, `SamplePacket`, `SampleNoClient`, `SampleExit`, `SampleArm`, `SampleError` |

Taken together or left out: a queue insertion and the store before it; the
two loads of a state test; the loads of `m_playbackActive` and `m_deviceState` at
the head of the sample loop (lines 442-443; the call of `GetNextPacketSize` is a
step of its own); `SetState`'s comparison (storing the same value again changes
nothing); locking, storing and unlocking in `SetDone`; the releases in
`OnFinishCapture`.  `OnStopCapture` tests the key in one step and exchanges it for
0 in another, together with `MFCancelWorkItem`.  The key is a plain variable, and
callbacks that overlap may both have found it set, so that one of them cancels an
item that has fired or was cancelled before: which item a key names is not
tracked, and `StopCancel` takes back a waiting item or none.  The sample event may fire whenever an item
waits, which is more often than it does.  A call through a null interface
ends the process (`crashed`).  COM reference counts and what
`ActivateCompleted` computes about the format are not modelled.

### PulseAudioCapture

A pointer is `null`, `live` or `freed`.  `mlapi` has a state of its own
because `quit()` clears it while the loop lives on.  Both users of `quit()`
run it as three steps (test, call, clear); the variable is a plain global, so
that the compiled code may or may not read it again: after the other thread
cleared it the call may go through (`QuitCall`) or fail (`*Misuse`), and a
call through a freed table may fail or seem to work.
`StopCapture` is followed statement by statement (`StopQuitTest` to
`StopContextDrop`), `caller` telling whether the connection thread or a failed
`AsyncStartCapture` called it.  `SetPlaybackState` reads the stream pointer
(`LoadStream`) and uses it (`CorkStream`, `CorkMisuse`) in two steps; a stream
that is dropped in between turns the pointer it read into a freed one.

`config` is the line of `config.ini` as the parser sees it: number of words,
encoding, width, rate, and whether the numbers are numbers.  `AsyncStopCapture`
is empty on Linux and stays an action that changes nothing.

Left out: callbacks that only print; `default_device_name`; the write of
`pa_state_cb` through the address of a local that is gone; a packet that was in
flight when the stream was paused; failures of `pa_mainloop_run` and of the
server query.  The state in which `pa_context_connect` has failed before any
callback was set is modelled (`conn = "hang"`): nothing leaves it, so no
property claims that `InitializeAudioDevice` returns.

A width of pcm samples that the code has no case for keeps the sample format that
was there before.  The configuration stays the same as long as the process runs,
so that this is the 32 bit float of the initial value of `ss`, whatever the
session; `SettingsMatchStream` says exactly that of it, and that the settings fit
the stream for every other configuration.

`CorkMisuse` and the `*Misuse` steps of `quit()` are steps of the code: a client
that plays as soon as its hello is answered can reach `SetPlaybackState` before
the stream exists, and a stream can fail during `StopCapture`.  No property claims
that they do not happen; the others hold in spite of them.

### CaptureDevice

Two variables: a capture is `open` between `AsyncStartCapture` and the return
of `StopCapture`, and audio is `delivering` while the callback runs.  The
specification says that a capture is only closed while no callback runs, and
that none begins while it is closed.  `PulseAudioCapture` maps `open` to
`thread` and `delivering` to `loop = "callback"`; `WASAPICapture` maps `open`
to its own `open` and `delivering` to `sampler = "packet"`.

On Windows the promise is not kept in general.  From the second session on an
`OnFinishCapture` may be late (`wasapi_release`), and `StopCapture` returns at
once when it finds the device Starting, or Stopping because somebody else asked
first (`WASAPICapture.cpp:309`): audio may then be delivered while the next hello
is handled.  `PatientSpec` has a client that says hello again only when no start
is under way.  If moreover `StopCapture` alone stops the capture (no stop command,
no answer that cannot be sent), and no call that somebody waits for is refused,
the Windows back end keeps the promise in every session.  What `Main` shows
therefore holds of the Linux program without reserve (`LinuxProgram`).  Of the
Windows program it can be expected for such a client only; the composition with
`Main` is not modelled there.

### AudioStream and Main

`AudioStream` does not know which back end it has: `StopCapture` and
`AsyncStartCapture` are `Close` and `Open` of `CaptureDevice`, the callback
begins with `Deliver` and ends with `Return`.  `BackEndStops` is a back end
that carries out an `AsyncStopCapture` later, as the Windows one does.

`iv` is `m_iv` of the shared wrapper; `vector[t]` is the vector in the buffer of
thread `t`.  A vector is the position of `m_random_gen` it was drawn at, which
is all that decides whether two of the generator's vectors are the same.
`Generate` is two steps, a read of the position and a store of the next one
(`GenerateRead`, `GenerateStore`): between them another thread may read the same
position, which is what an unlocked generator can do.  `SetIv` and `Encrypt` are
two steps as well.  The command thread has a wrapper and a buffer of its own, so
that its `SetIv`, `Encrypt` and `Decrypt` are part of the steps around them.
`used`, `commanded` and `connected` are not in the code; only properties read
them.

`sockets` holds the sockets that are open.  `Init` is one step for each call
whose result it looks at (`InitCall`, `InitFails`), then the two threads start.
The destructor runs only after a failed `Init`, since `main` never leaves its
loop; `CloseSockets` and `ThreadsJoined` are its two halves.  There is no
capture that runs at that point, so its `StopCapture` does nothing.

| Code | Actions |
|---|---|
| `main`: `config.ini` | `Start`, `CreateConfig`, `WriteConfig` |
| `main`: addresses, object, loop | `ListAddresses`, `Construct`, `RunInit`, `Destroy`, `RunStream` |
| `AudioStream::Init`, destructor | `InitCall`, `InitFails`, `StartThreads`, `CloseSockets`, `ThreadsJoined` |
| `t_connection_receiver` | `RecvHello` to `AsyncStartCapture`, in the order of the code |
| `t_cmd_receiver` | `RecvCommand`, `GenerateRead`, `GenerateStore`, `SendAnswer` |
| the audio callback | `AudioReady`, `GenerateRead`, `GenerateStore`, `SetIv`, `Encrypt`, `SendAudio` |

`InitializeAudioDevice` succeeds, fails or hangs: on Windows the request for an
activation may be refused after which nobody notifies, on Linux the context may
report no state.  From `hang` only the end of the process leads away.

The file is the sequence of its lines; the third line, the audio format, is
what `PulseAudioCapture` parses and is left out here.  `Crash` may end the
process at any point, also between the creation of the file and its lines.
A file that is there and cannot be opened (`read`) is treated as none: a new code
is made and the file overwritten without a warning.  `replaced` remembers that
this has happened to a client that was paired.
`known` is the code the client was given by a process that has ended.  The file
a crash leaves empty, or one with a port that is no number, ends every later
start: nobody catches what `std::stoi` throws.  `Start` takes that exit; no
property calls it wrong, because nothing in the repository promises otherwise.

Left out: descriptor 0, which the destructor closes when `Init` failed before
a socket was made; the port, which is cut to 16 bits; payloads.

### LinuxProgram

`Main` and `PulseAudioCapture` tell of the same threads, one of them without the
inside of the back end and the other without what is above it.  `LinuxProgram`
has the variables of both, but for `open`, which is `thread`, and each of its
steps is a step of one of them or a step of both at once:

| Joint step | In `PulseAudioCapture` | In `Main` |
|---|---|---|
| a hello arrives | `RecvHello` | `RecvHello` |
| `StopCapture` has joined the thread | `StopJoin` | `StopReturned` |
| the device is set up, or not, or the call hangs | `ParseFormat`, `ContextFailed`, `SetInitialConfig` | `InitializeAudioDevice` |
| the hello was dropped or answered | `Reply` | `DecryptHello`, `SendSettings`, `Connect` |
| `AsyncStartCapture` has returned | `StartThread`, or `StopContextDrop` after a failure | `StartReturned` |
| the audio callback begins and ends | `StreamRead`, `StreamDrop` | `CallbackEntered`, `SendAudio` |
| a command arrives | `RecvCommand` | `RecvCommand` |
| the process ends | `BackEndReset` | `End` |

For this `AudioStream` separates what the calling thread does when a call returns
(`StopReturned`, `StartReturned`, `CallbackEntered`) from what the device does
(`Close`, `Open`, `Deliver`): `LinuxProgram` uses the former alone, so that
nothing but the back end itself decides whether audio may be delivered.  That it
decides as `CaptureDevice` says is `ProgramSpec`.  A `StopCapture` that
`AsyncStartCapture` calls after a failure is inside that call; `StopCapture`
counts as returned when the thread is joined, since what it frees afterwards
nobody above it can see.

The failures that `Main` may see are derived: those of the back end are a device
that fails to be set up or started, one that hangs (`connect` below, `hang`
above), a hello that cannot be decrypted (`decrypt`
below, `garbled` above) and a failed `send`; the constant `OtherFailures` adds
those outside of it, of which the run has none.

### Pkcs7, Pkcs7Buffers and AESWrapper

Buffers are byte sequences.  The block length is at most 255, so that the
`uint8_t` arithmetic of the padding does not wrap.  `Pkcs7Buffers` holds a
buffer of arbitrary bytes and states what PKCS#7 says of it.  The header says
that padding "returns the number of pad bytes added, or zero if the buffer size
is not large enough" (`pkcs7_padding.h:8-9`); the code returns the negated
number (`pkcs7_padding.cpp:6`).  `NoRoomIsZero` states the header's promise, and
the run `pkcs7_no_room` shows that it is broken; `PadsAsDefined` says nothing of
that result, only that the buffer is left alone.  The only caller always leaves
room and does not look at the result.

`AESWrapper` has one sender and one receiver with the same password; the
network is a set of datagrams from which any may arrive at any time and any
number of times.  The block cipher is a parameter, any pair of inverse functions
on blocks.  CBC encryption is the set of block sequences that satisfy its chain
equation, each block the cipher of its plain text and the block before it: that
set has one member, and unlike a recursion it can be reasoned about block by
block.  The memory a wrapper does not initialize holds arbitrary bytes.
Datagrams shorter than a vector and a block are not modelled.

## 3. What the runs show

| Run | Bounds | Shows |
|---|---|---|
| `wasapi_sessions` | 2 hellos, stop commands, `Start` may fail; 480 thousand states | `TypeOK`, `WaiterHasSignal`, `TransientHasWork`, `WaitEnds`, `TransientEnds` |
| `wasapi_first` | 1 hello, all commands, all failures; 6480 states | `SampleHasClient` in a first session, `PauseQuiesces` |
| `wasapi_patient` | 3 hellos of a patient client, play and pause, failures that leave nobody waiting; 80 thousand states | `NeverCrashes`, `InitAwaitsActivation`, refinement `DeviceSpec` in every session |
| `linux_program` | 3 hellos, all commands, all failures of the back end, 6 configurations, 1 client, 1 start; 108 thousand states | `LoopExclusive`, `LoopHasObjects`, `QuitWasRequested`, `FreshInit`, `SettingsMatchStream`, `StopReturns`, `AllHandled`, refinement `ProgramSpec` |
| `pkcs7_length` | buffers up to 6 bytes, block of 3, 5 byte values | `PadsAsDefined`, `LengthAsDefined` |
| `program` | 2 starts, 2 clients, 1 code of the program's own and 1 of the user's, 4 contents of a file the user wrote, 2 positions of the generator, every failure; 565 thousand states | `VectorMatches`, `FreshUntilCommand`, `AudioFollowsAnswer`, `ThreadsOwnSockets`, `PairingKept`, `HelloHandled` |
| `aes_udp` | blocks of 2 bytes, 4 passwords, 2 vectors, 6 messages, 2 datagrams | `DeliveredAsSent`, `CiphertextLength` |

Runs that are expected to find a violation, each of which records a finding:

| Run | Violated | What happens |
|---|---|---|
| `wasapi_release` | `SampleHasClient` | with a second session, the late `OnFinishCapture` of a stop nobody waited for releases the client of a sample callback |
| `wasapi_stale_done` | `InitAwaitsActivation` | `m_done` of an asynchronous stop ends the wait for an activation |
| `pulse_context` | `NoUseAfterFree` | after a failed context the next hello uses and frees the objects again |
| `pulse_lost_play` | `PlayStarts` | a play command between the creation of the stream and its becoming ready has no effect |
| `pkcs7_no_room` | `NoRoomIsZero` | a buffer too small for its padding makes the function return a negative number |

Why the bounds are enough.  The connection thread handles hellos one after the
other, and a session leaves nothing to the next but the variables of the model
and late callbacks.  Two hellos allow a stop and a finish of one session to
meet the activation, start and capture of the next, and the command thread can
queue a stop of its own in every session; that is what the two WASAPI findings
need.  On Linux nothing asynchronous outlives `StopCapture`; three hellos cover
a failure, the clean-up after it and a good session.  The playback flag only
matters to the sample loop, so `wasapi_sessions` leaves it out, and `wasapi_first`
and `wasapi_patient` do not.  `linux_program` is about where the two halves of
the program meet: clients, vectors, files and restarts are what `program` varies,
and one of each is enough there.  Six bytes hold
two blocks of three, with padding of every length before, inside and over a
block boundary.  Two starts let one process create the file and die at any
point and another one read it; two clients can change places; hellos, commands
and packets of `program` are not bounded at all.  With `MaxDraws = 2` the first
two positions of the generator are told apart, which is where a repeated vector
would show; the theorems cover every bound.

What a passing run leaves out on purpose:

- `wasapi_sessions` excludes refused queue insertions and activation requests.
  The code looks at neither, and with them a waiter is indeed left alone:
  `InitializeAudioDevice` waits for an `ActivateCompleted` that never comes.  The
  failures of an activation and of a sample are left to the two other runs and to
  the theorems, which have no such bound.
- `wasapi_first` has one session and `wasapi_patient` a patient client, because
  the properties fail in the second session of any other (`wasapi_release`,
  `wasapi_stale_done`).
- `SettingsMatchStream` has an exception by name: a pcm width the code has no
  case for.
- `PairingKept` says nothing of a client whose user was warned that the code is
  temporary, nor of one whose `config.ini` could not be opened and was replaced:
  the code locks that one out without a word.
- `HelloHandled` and `AllHandled` count a hello as handled when
  `InitializeAudioDevice` hangs, for the thread is then at a point of its own
  (`hang`): they claim that nothing else holds a hello up.
- `FreshUntilCommand` ends with the first command: from then on the command
  thread draws vectors beside the audio callback, and the model repeats some, as
  the code may.
- `AudioFollowsAnswer` needs a `connect` that succeeded.  Its result is ignored;
  after a failed one audio goes to the client before.

### Fairness

Each thread gets weak fairness for its own steps, and each Media Foundation
callback for the group of its steps: the operating system keeps running
threads, and Media Foundation the items of its queues.  Which of several
invocations of one callback moves first is left open.  `SetDone` gets strong
fairness: it needs `m_mutex`, which the connection thread takes and gives back,
and a thread that waits for a mutex gets it if it is free again and again.
`InitializeAudioDevice` of `Main` gets weak fairness too, which makes it leave its
point but not return: one of its outcomes is `hang`, where it stays.
`LoopEnd` gets strong fairness: `pa_mainloop_run` tests its quit flag in every
iteration, however much audio arrives.  In `Main`, `StopCapture` gets strong
fairness: it waits for a callback to return, and others may begin meanwhile, so
that weak fairness would let it wait for ever.  `LinuxProgram` assumes nothing of
the kind: there `StopReturns` and `AllHandled` follow from the fairness of the
threads and of `LoopEnd`, so that what `Main` takes on trust is checked for Linux.
Nobody is obliged to send a hello or a
command, to signal the sample event or to wake a sleeper for nothing.

## 4. What is proved

For all values of the constants, by TLAPS:

| Theorem | Assumes | Argument |
|---|---|---|
| `WASAPICapture_proofs!TypeCorrect` | - | by cases over the actions |
| `WASAPICapture_proofs!TransientWork` | insertions are not refused | `TransientHasWork` is inductive over `TypeOK`: each step that ends one stage of the work stores the next state. |
| `WASAPICapture_proofs!WaiterSignalled` | insertions and activation requests are not refused | `SignalInv` adds `conn = "park" => ~done`: once the predicate was found false it stays false until the thread sleeps, because `m_done` is only set under `m_mutex`. |
| `WASAPISessions_proofs!SessionKeepsClient` | one hello | `FirstInv`: there is one activation and one start, one after the other (`Once`), the state tells how far they have come (`Stages`), nothing is stopped before (`StopsLater`), so that `OnFinishCapture` of the only session comes after the last packet (`Interfaces`) |
| `WASAPISessions_proofs!PatientNeverCrashes`, `PatientAwaits`, `PatientIsDevice` | a patient client, no stop commands, only failures that leave nobody waiting (`BlockingOnly`) | `PatientInv`: start, stop, finish and activation never overlap (`OneAtATime`), the state and the program point of the waiting thread tell which of them runs (`Ordered`, `Running`), an interface is there wherever it is used (`Used`), and audio comes only from a capture that was started and not yet stopped (`Opened`) |
| `PulseAudioCapture_proofs!TypeCorrect` | - | by cases over the actions |
| `PulseAudioCapture_proofs!Exclusion`, `ObjectsOutliveLoop`, `QuitNotLost`, `NothingLeaks` | - | one invariant `Inv`: `ThreadIsLoop` (the thread variable is set exactly while there is a loop), `OwnerHasObjects`, `QuitOrder` and `StopOrder` (which pointers are clear at which point of `StopCapture`), with the four properties |
| `PulseAudioCapture_proofs!ImplementsCaptureDevice` | - | the initial states correspond; under `Inv` the start of the thread is `Open`, the join `Close`, the callback `Deliver` and `Return`, and every other step a stutter |
| `PulseAudioCapture_proofs!SettingsAnnounced` | - | `FormatFits`: a format other than the initial float is the one the switch has for the width of the configuration, which does not change; so a width without a case finds the initial format |
| `LinuxProgram_proofs!BackEndKept` | - | every step of the program is one of the back end, none, or a reset (`BackEndStep`), so that `Inv` carries over |
| `LinuxProgram_proofs!LinuxIsProgram` | - | under `Inv` and `Agree` the join is `Close` or finds nothing open, the start of the thread is `Open`, a read with data is `Deliver`; a join inside `AsyncStartCapture` finds no thread; the other joint steps are steps of `Main`, and those inside the back end stutter |
| `LinuxProgram_proofs!ProgramKept` | - | `LinuxIsProgram` and the theorems of `Main_proofs`, instantiated |
| `Main_proofs!TypeCorrect` | - | by cases over the actions |
| `Main_proofs!VectorsMatch`, `FreshVectors`, `AudioRouted` | - | `StreamInv`: while the connection thread handles a hello no audio is delivered and the device is closed (`Quiet`), so the two users of wrapper and generator take turns (`Turns`), and audio only runs after a connect (`Route`) |
| `Main_proofs!SocketsOwned` | - | `Owned`: threads exist only after all of `Init` succeeded, and the destructor runs only when they do not (`Sequenced`) |
| `Main_proofs!PairingSurvives` | - | `Paired`: a code was shown either from the file, which holds the code the client knows unless it was replaced, or after a warning |
| `AESWrapper_proofs!WholeBlocks`, `Delivery` | the cipher's inverse inverts it, exclusive or is involutive (`CipherAssumption`) | bytes and blocks of a buffer correspond (`BlockOfBuffer`, `BufferOfBlocks`); the chain equation inverts block by block (`CBCInverts`); `RoundTrip` finds the message again; `CipherInv`: both keys are equal and every datagram was made by `Encrypt` |
| `Pkcs7Buffers_proofs!PaddingDefined`, `LengthDefined` | block length 1 to 255 | only one number of bytes fills a block (`PadIsUnique`), so that the definition's choice is the code's |
| `Pkcs7_proofs!RoundTrip` | block length 1 to 255 | lemmas on the pad byte (range, fills the block) and on what padding writes |

Every invariant of the passing runs has a theorem.  Only model-checked: the
liveness properties (`WaitEnds`, `TransientEnds`, `PauseQuiesces`,
`StopReturns`, `HelloHandled`, `AllHandled`), which the prover does not reach under fairness.
The theorems whose property the code does not satisfy in general state the
assumption under which it does, in the table and in the theorem.

## 5. Not modelled

- the AES block cipher and its ECB and CTR modes: vendored arithmetic without
  control, the latter two without a caller; the block cipher is a parameter;
- `SetKey`, which has no caller, and datagrams shorter than a vector and a block;
- the numbers the generator returns, beyond which of them are the same;
- what `ActivateCompleted` computes about the format, COM reference counts, the
  wrappers of `Common.h` and `pch.h`: calls to Windows without a choice of ours;
- the build files.

## 6. What is left

1. `WASAPICapture` over several sessions of any client with a repaired
   `OnFinishCapture` (a generation number for `m_done`, the release under
   `m_lock`): `PatientInv` is the invariant to start from.
2. The Windows program, as `LinuxProgram` is the Linux one.  For a patient client
   `PatientIsDevice` says what it would show; for any other it would show what a
   late callback does to the shared cipher.
