----------------------------- MODULE AudioStream -----------------------------
(***************************************************************************)
(* AudioStream.cpp over a capture back end that keeps the promise of       *)
(* CaptureDevice: Init and the destructor, the connection thread, the      *)
(* command thread and the audio callback, with what they share without a   *)
(* lock - one AESWrapper, one random generator, three sockets.             *)
(*                                                                         *)
(* A vector is the position of the generator it was drawn at, so that two  *)
(* vectors are the same if and only if they were drawn at one position.    *)
(* The command thread has a wrapper and a buffer of its own: what it does  *)
(* with those alone is part of its other steps.                            *)
(***************************************************************************)
EXTENDS Naturals, Sequences

CONSTANTS
  Clients,         \* the Android clients
  NoClient,
  MaxDraws,        \* bound: positions of the generator that are told apart
  ProgramFailures  \* the failures that may occur in a behaviour

(* The calls of Init that may fail, in their order.                        *)
InitCalls ==
  << "startup", "audio", "hello", "bindHello", "command", "bindCommand" >>

StreamFailures ==
  { InitCalls[i] : i \in DOMAIN InitCalls } \cup
  { "receive",  \* recvfrom fails or returns an empty datagram
    "device",   \* InitializeAudioDevice returns false
    "hang",     \* InitializeAudioDevice waits for ever
    "garbled",  \* a hello does not decrypt
    "send",     \* sendto fails
    "connect",  \* connect fails
    "start" }   \* the back end does not start

ASSUME StreamAssumption ==
  /\ NoClient \notin Clients
  /\ MaxDraws \in Nat

VARIABLES
  setup,      \* calls of Init that have succeeded
  sockets,    \* sockets that are open
  pc,         \* program points of the threads and of the audio callback
  open,       \* the back end is capturing
  stopAsked,  \* an AsyncStopCapture has not taken effect yet
  iv,         \* m_iv of m_aes_wrapper
  generator,  \* position of m_random_gen
  vector,     \* vector in the buffer of the connection thread, command
              \* thread and audio callback, or the position Generate has read
  answered,   \* client whose hello was answered last
  peer,       \* client the audio socket is connected to
  connected,  \* the last connect succeeded; the code does not look
  used,       \* vectors sent before the first command; only properties read it
  commanded   \* a command was received; only properties read it

streamVars == <<setup, sockets, pc, open, stopAsked, iv, generator, vector,
                answered, peer, connected, used, commanded>>

Device == INSTANCE CaptureDevice WITH delivering <- pc["audio"] # "idle"

-----------------------------------------------------------------------------
Sockets == { "audio", "hello", "command" }
Threads == { "conn", "cmd", "audio" }

(* A vector a client chose is like none of the generator's.                *)
Theirs  == MaxDraws + 1
Vectors == 0 .. Theirs

CipherPoints == { "generate", "store", "out.set", "out.use", "send" }
HelloPoints  == CipherPoints \cup
                { "stop", "init", "in.set", "in.use", "connect", "start" }
ConnPoints   == HelloPoints \cup { "off", "recv", "hang", "ended", "returned" }
CmdPoints    == { "off", "recv", "generate", "store", "send", "ended" }
AudioPoints  == CipherPoints \cup { "idle" }

(* The object as its constructor leaves it; nothing reads iv and vector    *)
(* before they are set.                                                    *)
StreamInit ==
  /\ setup = 0
  /\ sockets = {}
  /\ pc = [t \in Threads |-> IF t = "audio" THEN "idle" ELSE "off"]
  /\ open = FALSE
  /\ stopAsked = FALSE
  /\ iv = Theirs
  /\ generator = 0
  /\ vector = [t \in Threads |-> Theirs]
  /\ answered = NoClient
  /\ peer = NoClient
  /\ connected = FALSE
  /\ used = {}
  /\ commanded = FALSE

(* The same when a process ends and another begins.                        *)
StreamReset ==
  /\ setup' = 0
  /\ sockets' = {}
  /\ pc' = [t \in Threads |-> IF t = "audio" THEN "idle" ELSE "off"]
  /\ open' = FALSE
  /\ stopAsked' = FALSE
  /\ iv' = Theirs
  /\ generator' = 0
  /\ vector' = [t \in Threads |-> Theirs]
  /\ answered' = NoClient
  /\ peer' = NoClient
  /\ connected' = FALSE
  /\ used' = {}
  /\ commanded' = FALSE

deviceVars == <<open, stopAsked>>
cipherVars == <<iv, generator, vector>>
clientVars == <<answered, peer, connected>>
ghostVars  == <<used, commanded>>

Goto(t, p) == pc' = [pc EXCEPT ![t] = p]
Carry(t, v) == vector' = [vector EXCEPT ![t] = v]

-----------------------------------------------------------------------------
(* Init and the destructor, on the main thread.                            *)

InitCall ==
  /\ setup < Len(InitCalls)
  /\ setup' = setup + 1
  /\ sockets' = sockets \cup ({ InitCalls[setup + 1] } \cap Sockets)
  /\ UNCHANGED <<pc, deviceVars, cipherVars, clientVars, ghostVars>>

InitFails ==
  /\ setup < Len(InitCalls)
  /\ InitCalls[setup + 1] \in ProgramFailures
  /\ UNCHANGED streamVars

StartThreads ==
  /\ setup = Len(InitCalls)
  /\ pc' = [pc EXCEPT !["conn"] = "recv", !["cmd"] = "recv"]
  /\ UNCHANGED <<setup, sockets, deviceVars, cipherVars, clientVars, ghostVars>>

(* The destructor closes what is open and then joins the threads.          *)
CloseSockets ==
  /\ sockets' = {}
  /\ UNCHANGED <<setup, pc, deviceVars, cipherVars, clientVars, ghostVars>>

ThreadsJoined == pc["conn"] \in { "off", "ended", "returned" } /\ pc["cmd"] \in { "off", "ended" }

-----------------------------------------------------------------------------
(* The connection thread: t_connection_receiver.                           *)

threadFrame == <<setup, sockets>>

RecvHello ==
  /\ pc["conn"] = "recv"
  /\ Carry("conn", Theirs)
  /\ Goto("conn", "stop")
  /\ UNCHANGED <<threadFrame, deviceVars, iv, generator, clientVars, ghostVars>>

(* Variant for checking: the command thread closes the other's socket.     *)
RecvFailsSwapped ==
  /\ "receive" \in ProgramFailures
  /\ \E t \in { "conn", "cmd" } :
       /\ pc[t] = "recv"
       /\ Goto(t, "ended")
       /\ sockets' = sockets \ { "hello" }
  /\ UNCHANGED <<setup, deviceVars, cipherVars, clientVars, ghostVars>>

(* Either service thread ends for good when recvfrom returns nothing, and  *)
(* closes its socket.                                                      *)
RecvFails ==
  /\ "receive" \in ProgramFailures
  /\ \/ /\ pc["conn"] = "recv"
        /\ Goto("conn", "ended")
        /\ sockets' = sockets \ { "hello" }
     \/ /\ pc["cmd"] = "recv"
        /\ Goto("cmd", "ended")
        /\ sockets' = sockets \ { "command" }
  /\ UNCHANGED <<setup, deviceVars, cipherVars, clientVars, ghostVars>>

(* Variant for checking: the call returns while audio is still delivered.  *)
StopCaptureEarly ==
  /\ pc["conn"] = "stop"
  /\ Goto("conn", "init")
  /\ open' = FALSE
  /\ UNCHANGED <<threadFrame, stopAsked, cipherVars, clientVars, ghostVars>>

(* m_capture->StopCapture returns: nothing is delivered from then on.      *)
StopReturned ==
  /\ pc["conn"] = "stop"
  /\ Goto("conn", "init")
  /\ UNCHANGED <<threadFrame, stopAsked, cipherVars, clientVars, ghostVars>>

StopCapture == StopReturned /\ (Device!Close \/ (~open /\ UNCHANGED open))

(* It returns whether the device is set up, or waits for something that    *)
(* does not come: the activation or the end of an earlier session on       *)
(* Windows, a state of the context on Linux.                               *)
InitializeAudioDevice ==
  /\ pc["conn"] = "init"
  /\ \/ Goto("conn", "in.set")
     \/ "device" \in ProgramFailures /\ Goto("conn", "recv")
     \/ "hang" \in ProgramFailures /\ Goto("conn", "hang")
  /\ UNCHANGED <<threadFrame, deviceVars, cipherVars, clientVars, ghostVars>>

(* m_aes_wrapper.SetIv with the vector in the caller's buffer.             *)
SetIv(t) ==
  /\ \/ pc[t] = "in.set" /\ Goto(t, "in.use")
     \/ pc[t] = "out.set" /\ Goto(t, "out.use")
  /\ iv' = vector[t]
  /\ UNCHANGED <<threadFrame, deviceVars, generator, vector, clientVars, ghostVars>>

DecryptHello ==
  /\ pc["conn"] = "in.use"
  /\ \/ Goto("conn", "generate")
     \/ "garbled" \in ProgramFailures /\ Goto("conn", "recv")
  /\ UNCHANGED <<threadFrame, deviceVars, cipherVars, clientVars, ghostVars>>

(* Generate reads the state of the generator ...                           *)
GenerateRead(t) ==
  /\ pc[t] = "generate"
  /\ Carry(t, generator)
  /\ Goto(t, "store")
  /\ UNCHANGED <<threadFrame, deviceVars, iv, generator, clientVars, ghostVars>>

(* Variant for checking: the numbers are drawn from a copy.                *)
GenerateFromCopy(t) ==
  /\ pc[t] = "store"
  /\ Goto(t, IF t = "cmd" THEN "send" ELSE "out.set")
  /\ UNCHANGED <<threadFrame, deviceVars, cipherVars, clientVars, ghostVars>>

(* ... and stores the one that follows, whatever others stored meanwhile.  *)
GenerateStore(t) ==
  /\ pc[t] = "store"
  /\ generator' = IF vector[t] < MaxDraws THEN vector[t] + 1 ELSE MaxDraws
  /\ Goto(t, IF t = "cmd" THEN "send" ELSE "out.set")
  /\ UNCHANGED <<threadFrame, deviceVars, iv, vector, clientVars, ghostVars>>

Encrypt(t) ==
  /\ pc[t] = "out.use"
  /\ Goto(t, "send")
  /\ UNCHANGED <<threadFrame, deviceVars, cipherVars, clientVars, ghostVars>>

(* The datagram is sent, and the vector in the buffer is not needed again. *)
Sent(t) ==
  /\ used' = used \cup (IF commanded THEN {} ELSE { vector[t] } \cap (0 .. MaxDraws - 1))
  /\ Carry(t, Theirs)

(* The answer to the hello, which came from some client.  When it cannot   *)
(* be sent the thread returns and leaves its socket open.                  *)
SendSettings ==
  /\ pc["conn"] = "send"
  /\ \/ Goto("conn", "connect") /\ answered' \in Clients /\ Sent("conn")
     \/ /\ "send" \in ProgramFailures
        /\ Goto("conn", "returned")
        /\ UNCHANGED <<answered, used, vector>>
  /\ UNCHANGED <<threadFrame, deviceVars, iv, generator, peer, connected, commanded>>

(* Variant for checking: a socket that is connected is left alone.         *)
ConnectOnce ==
  /\ pc["conn"] = "connect"
  /\ Goto("conn", "start")
  /\ connected' = TRUE
  /\ peer' = IF connected THEN peer ELSE answered
  /\ UNCHANGED <<threadFrame, deviceVars, cipherVars, answered, ghostVars>>

(* The result of connect is not looked at.                                 *)
Connect ==
  /\ pc["conn"] = "connect"
  /\ Goto("conn", "start")
  /\ \/ peer' = answered /\ connected' = TRUE
     \/ "connect" \in ProgramFailures /\ connected' = FALSE /\ UNCHANGED peer
  /\ UNCHANGED <<threadFrame, deviceVars, cipherVars, answered, ghostVars>>

StartReturned ==
  /\ pc["conn"] = "start"
  /\ Goto("conn", "recv")
  /\ UNCHANGED <<threadFrame, stopAsked, cipherVars, clientVars, ghostVars>>

AsyncStartCapture ==
  StartReturned /\ (Device!Open \/ ("start" \in ProgramFailures /\ UNCHANGED open))

-----------------------------------------------------------------------------
(* The command thread: t_cmd_receiver.  A datagram that does not decrypt   *)
(* changes nothing; command 3 calls AsyncStopCapture.                      *)

RecvCommand ==
  /\ pc["cmd"] = "recv"
  /\ Goto("cmd", "generate")
  /\ commanded' = TRUE
  /\ used' = {}
  /\ stopAsked' \in { stopAsked, TRUE }
  /\ UNCHANGED <<threadFrame, open, cipherVars, clientVars>>

(* The answer, encrypted with the thread's own wrapper.  When it cannot be *)
(* sent, AsyncStopCapture is called.                                       *)
SendAnswer ==
  /\ pc["cmd"] = "send"
  /\ Goto("cmd", "recv")
  /\ \/ UNCHANGED stopAsked
     \/ "send" \in ProgramFailures /\ stopAsked' = TRUE
  /\ Sent("cmd")
  /\ UNCHANGED <<threadFrame, open, iv, generator, clientVars, commanded>>

-----------------------------------------------------------------------------
(* The back end and its audio callback.                                    *)

(* An AsyncStopCapture takes effect, if the back end stops on its own.     *)
BackEndStops ==
  /\ stopAsked
  /\ stopAsked' = FALSE
  /\ UNCHANGED pc
  /\ Device!Close
  /\ UNCHANGED <<threadFrame, cipherVars, clientVars, ghostVars>>

CallbackEntered ==
  /\ Goto("audio", "generate")
  /\ UNCHANGED <<threadFrame, stopAsked, cipherVars, clientVars, ghostVars>>

AudioReady == CallbackEntered /\ Device!Deliver

(* Variant for checking: the datagram is sent until somebody is connected. *)
SendAudioAgain ==
  /\ pc["audio"] = "send"
  /\ connected
  /\ Goto("audio", "idle")
  /\ Device!Return
  /\ Sent("audio")
  /\ UNCHANGED <<threadFrame, stopAsked, iv, generator, clientVars, commanded>>

(* The result of send is not looked at.                                    *)
SendAudio ==
  /\ pc["audio"] = "send"
  /\ Goto("audio", "idle")
  /\ Device!Return
  /\ Sent("audio")
  /\ UNCHANGED <<threadFrame, stopAsked, iv, generator, clientVars, commanded>>

-----------------------------------------------------------------------------
CipherStep(t) == GenerateRead(t) \/ GenerateStore(t) \/ SetIv(t) \/ Encrypt(t)

(* The steps of the connection thread but for the two that wait; ...       *)
HelloStep == \/ InitializeAudioDevice \/ DecryptHello \/ CipherStep("conn")
             \/ SendSettings \/ Connect \/ AsyncStartCapture

CmdStep   == GenerateRead("cmd") \/ GenerateStore("cmd") \/ SendAnswer
AudioStep == CipherStep("audio") \/ SendAudio

(* ... and those that somebody outside the program decides on.             *)
Arrival == RecvHello \/ RecvCommand \/ RecvFails \/ AudioReady \/ BackEndStops

StreamNext == HelloStep \/ StopCapture \/ CmdStep \/ AudioStep \/ Arrival

-----------------------------------------------------------------------------
StreamTypeOK ==
  /\ setup \in 0 .. Len(InitCalls)
  /\ sockets \subseteq Sockets
  /\ pc \in [Threads -> ConnPoints \cup CmdPoints \cup AudioPoints]
  /\ pc["conn"] \in ConnPoints /\ pc["cmd"] \in CmdPoints /\ pc["audio"] \in AudioPoints
  /\ open \in BOOLEAN /\ stopAsked \in BOOLEAN
  /\ connected \in BOOLEAN /\ commanded \in BOOLEAN
  /\ iv \in Vectors
  /\ generator \in 0 .. MaxDraws
  /\ vector \in [Threads -> Vectors]
  /\ answered \in Clients \cup { NoClient } /\ peer \in Clients \cup { NoClient }
  /\ used \subseteq 0 .. MaxDraws - 1

(* The wrapper the connection thread and the audio callback share holds    *)
(* the vector of the buffer that is decrypted or encrypted with it: what   *)
(* is sent is made with the vector it carries, although nothing locks the  *)
(* wrapper between SetIv and Encrypt.                                      *)
VectorMatches ==
  \A t \in { "conn", "audio" } : pc[t] \in { "in.use", "out.use" } => iv = vector[t]

(* As long as there was no command, the two other users of the unlocked    *)
(* generator never draw the vector of a datagram sent before.              *)
FreshUntilCommand ==
  ~commanded =>
    \A t \in { "conn", "audio" } : pc[t] = "send" => vector[t] \notin used

(* Audio goes to the client that was told the stream settings last, and to *)
(* nobody before: a hello of another client does not meet the audio of the *)
(* one before it.  This needs a connect that succeeds.                     *)
AudioFollowsAnswer ==
  pc["audio"] = "send" /\ connected => answered \in Clients /\ peer = answered

(* A socket is open as long as a thread uses it; in particular the         *)
(* destructor never closes the sockets of threads that live.               *)
ThreadsOwnSockets ==
  /\ pc["conn"] \in HelloPoints \cup { "recv", "hang" } => "hello" \in sockets
  /\ pc["cmd"] \in CmdPoints \ { "off", "ended" } => "command" \in sockets
  /\ pc["audio"] # "idle" => "audio" \in sockets

(* A hello is handled to its end: the thread comes back for the next one   *)
(* or leaves its loop, however much audio is delivered and whatever the    *)
(* commands are.  Only the death of the process and an                     *)
(* InitializeAudioDevice that waits for ever stop it on the way.           *)
HelloHandled == pc["conn"] \in HelloPoints ~> pc["conn"] \notin HelloPoints
==============================================================================
