----------------------------- MODULE Main_proofs -----------------------------
(***************************************************************************)
(* Theorems about the program, for any clients, codes, files, failures and *)
(* any number of starts.                                                   *)
(***************************************************************************)
EXTENDS Main, TLAPS

(* What CaptureDevice promises, seen from the connection thread: between   *)
(* the return of StopCapture and AsyncStartCapture nothing is delivered.   *)
Quiet ==
  /\ pc["conn"] \in HelloPoints \ { "stop" } => ~open
  /\ pc["audio"] # "idle" => open

(* Before the first command two users of the generator take turns: its     *)
(* position is behind every vector in use.                                 *)
Turns ==
  ~commanded =>
    /\ pc["cmd"] \in { "off", "recv", "ended" }
    /\ \A v \in used : v < generator
    /\ \A t \in { "conn", "audio" } :
         /\ pc[t] = "store" => vector[t] = generator
         /\ pc[t] \in { "out.set", "out.use", "send" } =>
              /\ vector[t] \notin used
              /\ vector[t] = MaxDraws \/ vector[t] < generator

(* The audio socket leads to the client that was answered, from before the *)
(* capture starts.                                                         *)
Route ==
  /\ pc["conn"] \in { "connect", "start" } => answered \in Clients
  /\ (pc["conn"] = "start" \/ open) /\ connected => answered \in Clients /\ peer = answered

(* The sockets exist before the threads.                                   *)
Sequenced ==
  /\ main # "running" => pc["conn"] = "off" /\ pc["cmd"] = "off" /\ pc["audio"] = "idle"
  /\ main \notin { "running", "join" } =>
       /\ setup >= 2 => "audio" \in sockets
       /\ setup >= 3 => "hello" \in sockets
       /\ setup >= 5 => "command" \in sockets
  /\ main = "running" => "audio" \in sockets

StreamInv == Quiet /\ VectorMatches /\ Turns /\ Route

(* What the client knows is what the file says, as far as it says anything *)
(* and was not overwritten.                                                *)
Shown == { "list", "construct", "init", "running", "exit", "join" }
FileHas(c) == exists /\ (file = << >> \/ (Len(file) = 2 /\ file[1] = c))

Paired ==
  /\ known # NoCode /\ ~replaced => FileHas(known)
  /\ main = "write" => file = << >> /\ exists /\ (known # NoCode => replaced)
  /\ ~exists => file = << >>
  /\ main \in Shown /\ known # NoCode /\ ~warned /\ ~replaced => code = known
  /\ main \in Shown /\ ~warned => FileHas(code)
  /\ warned => main \in Shown

-----------------------------------------------------------------------------
LEMMA Constants ==
  /\ NoClient \notin Clients
  /\ MaxDraws \in Nat
  /\ MaxStarts \in Nat
  /\ DefaultPort \in Numbers
  /\ \A f \in UserFiles : Len(f) \in { 0, 2 }
BY StreamAssumption, MainAssumption DEF StreamAssumption, MainAssumption

LEMMA InitLength == Len(InitCalls) = 6
BY DEF InitCalls

LEMMA StreamTypeInit == StreamInit => StreamTypeOK
<1> SUFFICES ASSUME StreamInit PROVE StreamTypeOK
  OBVIOUS
<1>1. open \in BOOLEAN /\ stopAsked \in BOOLEAN /\ connected \in BOOLEAN /\ commanded \in BOOLEAN
  BY Zenon DEF StreamInit
<1>2. /\ setup \in 0 .. Len(InitCalls) /\ sockets \subseteq Sockets
      /\ iv \in Vectors /\ generator \in 0 .. MaxDraws /\ used \subseteq 0 .. MaxDraws - 1
  BY Constants, InitLength DEF StreamInit, Vectors, Theirs
<1>3. pc \in [Threads -> ConnPoints \cup CmdPoints \cup AudioPoints]
  BY DEF StreamInit, Threads, ConnPoints, CmdPoints, AudioPoints
<1>4. vector \in [Threads -> Vectors]
  BY Constants DEF StreamInit, Threads, Vectors, Theirs
<1>5. pc["conn"] = "off" /\ pc["cmd"] = "off" /\ pc["audio"] = "idle"
  BY DEF StreamInit, Threads
<1>6. answered = NoClient /\ peer = NoClient
  BY DEF StreamInit
<1> QED
  BY <1>1, <1>2, <1>3, <1>4, <1>5, <1>6 DEF StreamTypeOK, ConnPoints, CmdPoints, AudioPoints

LEMMA StreamTypeReset == StreamReset => StreamTypeOK'
<1> SUFFICES ASSUME StreamReset PROVE StreamTypeOK'
  OBVIOUS
<1>1. open' \in BOOLEAN /\ stopAsked' \in BOOLEAN /\ connected' \in BOOLEAN /\ commanded' \in BOOLEAN
  BY Zenon DEF StreamReset
<1>2. /\ setup' \in 0 .. Len(InitCalls) /\ sockets' \subseteq Sockets
      /\ iv' \in Vectors /\ generator' \in 0 .. MaxDraws /\ used' \subseteq 0 .. MaxDraws - 1
  BY Constants, InitLength DEF StreamReset, Vectors, Theirs
<1>3. pc' \in [Threads -> ConnPoints \cup CmdPoints \cup AudioPoints]
  BY DEF StreamReset, Threads, ConnPoints, CmdPoints, AudioPoints
<1>4. vector' \in [Threads -> Vectors]
  BY Constants DEF StreamReset, Threads, Vectors, Theirs
<1>5. pc'["conn"] = "off" /\ pc'["cmd"] = "off" /\ pc'["audio"] = "idle"
  BY DEF StreamReset, Threads
<1>6. answered' = NoClient /\ peer' = NoClient
  BY DEF StreamReset
<1> QED
  BY <1>1, <1>2, <1>3, <1>4, <1>5, <1>6 DEF StreamTypeOK, ConnPoints, CmdPoints, AudioPoints

(* Moving a thread and filling its buffer keep the types.                  *)
LEMMA GotoType ==
  ASSUME StreamTypeOK, NEW t \in Threads, NEW p, Goto(t, p),
         t = "conn" => p \in ConnPoints,
         t = "cmd" => p \in CmdPoints,
         t = "audio" => p \in AudioPoints
  PROVE  /\ pc' \in [Threads -> ConnPoints \cup CmdPoints \cup AudioPoints]
         /\ pc'["conn"] \in ConnPoints /\ pc'["cmd"] \in CmdPoints /\ pc'["audio"] \in AudioPoints
         /\ pc'[t] = p
         /\ \A u \in Threads \ { t } : pc'[u] = pc[u]
BY DEF StreamTypeOK, Goto, Threads

LEMMA CarryType ==
  ASSUME StreamTypeOK, NEW t \in Threads, NEW v \in Vectors, Carry(t, v)
  PROVE  /\ vector' \in [Threads -> Vectors]
         /\ vector'[t] = v
         /\ \A u \in Threads \ { t } : vector'[u] = vector[u]
BY DEF StreamTypeOK, Carry, Threads

LEMMA SentType ==
  ASSUME StreamTypeOK, NEW t \in Threads, Sent(t)
  PROVE  used' \subseteq 0 .. MaxDraws - 1
<1>1. CASE commanded
  BY <1>1 DEF StreamTypeOK, Sent
<1>2. CASE ~commanded
  BY <1>2 DEF StreamTypeOK, Sent
<1> QED
  BY <1>1, <1>2

(* The types of the object, step by step.                                  *)
LEMMA CipherTypes ==
  ASSUME StreamTypeOK, NEW t \in { "conn", "audio" }, CipherStep(t)
  PROVE  StreamTypeOK'
<1> USE DEF threadFrame, deviceVars, clientVars, ghostVars, cipherVars
<1>0. t \in Threads /\ CipherPoints \subseteq ConnPoints \cap AudioPoints /\ "in.use" \in ConnPoints
      /\ AudioPoints \cap { "in.set" } = {}
  BY DEF Threads, CipherPoints, ConnPoints, HelloPoints, AudioPoints
<1>1. CASE GenerateRead(t)
  <2>1. generator \in Vectors
    BY Constants DEF StreamTypeOK, Vectors, Theirs
  <2>2. Goto(t, "store") /\ Carry(t, generator)
    BY <1>1 DEF GenerateRead
  <2>3. "store" \in CipherPoints
    BY DEF CipherPoints
  <2> QED
    BY <1>0, <1>1, <2>1, <2>2, <2>3, GotoType, CarryType DEF GenerateRead, StreamTypeOK
<1>2. CASE GenerateStore(t)
  <2>1. Goto(t, "out.set") /\ "out.set" \in CipherPoints
    BY <1>2 DEF GenerateStore, CipherPoints
  <2>2. generator' \in 0 .. MaxDraws
    BY <1>0, <1>2, Constants DEF GenerateStore, StreamTypeOK, Vectors, Theirs
  <2> QED
    BY <1>0, <1>2, <2>1, <2>2, GotoType DEF GenerateStore, StreamTypeOK
<1>3. CASE SetIv(t)
  <2>1. iv' \in Vectors
    BY <1>0, <1>3 DEF SetIv, StreamTypeOK
  <2>2. \/ pc[t] = "in.set" /\ Goto(t, "in.use")
        \/ Goto(t, "out.use")
    BY <1>3 DEF SetIv
  <2>3. "out.use" \in CipherPoints
    BY DEF CipherPoints
  <2>4. pc[t] = "in.set" => t = "conn"
    BY <1>0 DEF StreamTypeOK
  <2>5. PICK p \in CipherPoints \cup { "in.use" } : Goto(t, p) /\ (p = "in.use" => t = "conn")
    BY <2>2, <2>3, <2>4 DEF CipherPoints
  <2> QED
    BY <1>0, <1>3, <2>1, <2>5, GotoType DEF SetIv, StreamTypeOK
<1>4. CASE Encrypt(t)
  <2>1. Goto(t, "send") /\ "send" \in CipherPoints
    BY <1>4 DEF Encrypt, CipherPoints
  <2> QED
    BY <1>0, <1>4, <2>1, GotoType DEF Encrypt, StreamTypeOK
<1> QED
  BY <1>1, <1>2, <1>3, <1>4 DEF CipherStep

LEMMA HelloTypes ==
  ASSUME StreamTypeOK,
         \/ InitializeAudioDevice \/ DecryptHello \/ SendSettings \/ Connect
         \/ AsyncStartCapture \/ StopCapture \/ RecvHello
  PROVE  StreamTypeOK'
<1> USE DEF threadFrame, deviceVars, clientVars, ghostVars, cipherVars
<1>0. /\ "conn" \in Threads
      /\ { "recv", "returned", "stop", "init", "in.set", "hang", "generate", "connect", "start" } \subseteq ConnPoints
  BY DEF Threads, CipherPoints, ConnPoints, HelloPoints
<1>1. CASE InitializeAudioDevice \/ DecryptHello
  <2>1. PICK p \in { "in.set", "recv", "hang", "generate" } : Goto("conn", p)
    BY <1>1 DEF InitializeAudioDevice, DecryptHello
  <2> QED
    BY <1>0, <1>1, <2>1, GotoType DEF InitializeAudioDevice, DecryptHello, StreamTypeOK
<1>2. CASE SendSettings
  <2>1. Theirs \in Vectors
    BY Constants DEF Vectors, Theirs
  <2>2. CASE Goto("conn", "connect") /\ answered' \in Clients /\ Sent("conn")
    <3>1. Carry("conn", Theirs)
      BY <2>2 DEF Sent
    <3> QED
      BY <1>0, <1>2, <2>1, <2>2, <3>1, GotoType, CarryType, SentType DEF SendSettings, StreamTypeOK
  <2>3. CASE Goto("conn", "returned") /\ UNCHANGED <<answered, used, vector>>
    BY <1>0, <1>2, <2>3, GotoType DEF SendSettings, StreamTypeOK
  <2> QED
    BY <1>2, <2>2, <2>3 DEF SendSettings
<1>3. CASE Connect
  <2>1. Goto("conn", "start")
    BY <1>3 DEF Connect
  <2>2. connected' \in BOOLEAN
    BY <1>3, Zenon DEF Connect
  <2>3. peer' \in Clients \cup { NoClient }
    BY <1>3 DEF Connect, StreamTypeOK
  <2> QED
    BY <1>0, <1>3, <2>1, <2>2, <2>3, GotoType DEF Connect, StreamTypeOK
<1>4. CASE AsyncStartCapture \/ StopCapture
  <2>1. PICK p \in { "recv", "init" } : Goto("conn", p)
    BY <1>4 DEF AsyncStartCapture, StartReturned, StopCapture, StopReturned
  <2>2. open' = TRUE \/ open' = FALSE \/ open' = open
    BY <1>4 DEF AsyncStartCapture, StartReturned, StopCapture, StopReturned, Device!Open, Device!Close
  <2>3. open' \in BOOLEAN
    BY <2>2, Zenon DEF StreamTypeOK
  <2> QED
    BY <1>0, <1>4, <2>1, <2>3, GotoType DEF AsyncStartCapture, StartReturned, StopCapture, StopReturned, StreamTypeOK
<1>5. CASE RecvHello
  <2>1. Theirs \in Vectors
    BY Constants DEF Vectors, Theirs
  <2> QED
    BY <1>0, <1>5, <2>1, GotoType, CarryType DEF RecvHello, StreamTypeOK
<1> QED
  BY <1>1, <1>2, <1>3, <1>4, <1>5

LEMMA OtherTypes ==
  ASSUME StreamTypeOK,
         CmdStep \/ SendAudio \/ RecvCommand \/ RecvFails \/ AudioReady \/ BackEndStops
  PROVE  StreamTypeOK'
<1> USE DEF threadFrame, deviceVars, clientVars, ghostVars, cipherVars
<1>0. /\ { "conn", "cmd", "audio" } \subseteq Threads
      /\ "ended" \in ConnPoints
      /\ { "recv", "ended", "generate", "store", "send" } \subseteq CmdPoints
      /\ { "idle", "generate" } \subseteq AudioPoints
      /\ Theirs \in Vectors /\ generator \in Vectors
  BY Constants DEF Threads, CipherPoints, ConnPoints, CmdPoints, AudioPoints, Vectors, Theirs, StreamTypeOK
<1>1. CASE GenerateRead("cmd")
  BY <1>0, <1>1, GotoType, CarryType DEF GenerateRead, StreamTypeOK
<1>2. CASE GenerateStore("cmd")
  <2>1. Goto("cmd", "send")
    BY <1>2 DEF GenerateStore
  <2>2. generator' \in 0 .. MaxDraws
    BY <1>0, <1>2, Constants DEF GenerateStore, StreamTypeOK, Vectors, Theirs
  <2> QED
    BY <1>0, <1>2, <2>1, <2>2, GotoType DEF GenerateStore, StreamTypeOK
<1>3. CASE SendAnswer
  <2>1. Carry("cmd", Theirs) /\ Goto("cmd", "recv") /\ Sent("cmd")
    BY <1>3 DEF SendAnswer, Sent
  <2>2. stopAsked' = stopAsked \/ stopAsked' = TRUE
    BY <1>3 DEF SendAnswer
  <2>3. stopAsked' \in BOOLEAN
    BY <2>2, Zenon DEF StreamTypeOK
  <2> QED
    BY <1>0, <1>3, <2>1, <2>3, GotoType, CarryType, SentType DEF SendAnswer, StreamTypeOK
<1>4. CASE SendAudio
  <2>1. Carry("audio", Theirs) /\ Goto("audio", "idle") /\ Sent("audio") /\ UNCHANGED open
    BY <1>4 DEF SendAudio, Sent, Device!Return
  <2> QED
    BY <1>0, <1>4, <2>1, GotoType, CarryType, SentType DEF SendAudio, StreamTypeOK
<1>5. CASE RecvCommand
  <2>1. stopAsked' \in BOOLEAN /\ commanded' \in BOOLEAN
    BY <1>5, Zenon DEF RecvCommand, StreamTypeOK
  <2> QED
    BY <1>0, <1>5, <2>1, GotoType DEF RecvCommand, StreamTypeOK
<1>6. CASE RecvFails
  BY <1>0, <1>6, GotoType DEF RecvFails, StreamTypeOK
<1>7. CASE AudioReady
  <2>1. Goto("audio", "generate") /\ UNCHANGED open
    BY <1>7 DEF AudioReady, CallbackEntered, Device!Deliver
  <2> QED
    BY <1>0, <1>7, <2>1, GotoType DEF AudioReady, CallbackEntered, StreamTypeOK
<1>8. CASE BackEndStops
  <2>1. open' \in BOOLEAN /\ stopAsked' \in BOOLEAN
    BY <1>8, Zenon DEF BackEndStops, Device!Close
  <2> QED
    BY <1>8, <2>1 DEF BackEndStops, StreamTypeOK
<1> QED
  BY <1>1, <1>2, <1>3, <1>4, <1>5, <1>6, <1>7, <1>8 DEF CmdStep

LEMMA StreamTypes ==
  ASSUME StreamTypeOK, StreamNext
  PROVE  StreamTypeOK'
BY CipherTypes, HelloTypes, OtherTypes DEF StreamNext, HelloStep, AudioStep, Arrival

-----------------------------------------------------------------------------
(* What the two users of the shared cipher do keeps the invariant of the   *)
(* object: the callback runs only while the other one is out of the way.   *)
LEMMA StreamInvInit == StreamInit => StreamInv
BY DEF StreamInit, StreamInv, Quiet, VectorMatches, Turns, Route, HelloPoints, CipherPoints, Threads

LEMMA StreamInvReset == StreamReset => StreamInv'
BY DEF StreamReset, StreamInv, Quiet, VectorMatches, Turns, Route, HelloPoints, CipherPoints, Threads

LEMMA CipherInv ==
  ASSUME StreamTypeOK, StreamInv, NEW t \in { "conn", "audio" }, CipherStep(t)
  PROVE  StreamInv'
<1> USE DEF threadFrame, deviceVars, clientVars, ghostVars, cipherVars
<1> DEFINE u == IF t = "conn" THEN "audio" ELSE "conn"
<1>0. /\ u \in { "conn", "audio" } \ { t } /\ { "conn", "audio" } = { t, u }
      /\ t \in Threads /\ u \in Threads /\ t # "cmd" /\ u # "cmd"
  BY DEF Threads
<1>1. /\ \A p : Goto(t, p) => pc'[t] = p /\ pc'[u] = pc[u] /\ pc'["cmd"] = pc["cmd"]
      /\ \A v : Carry(t, v) => vector'[t] = v /\ vector'[u] = vector[u]
  BY <1>0 DEF Goto, Carry, StreamTypeOK, Threads
<1>2. /\ t = "conn" /\ pc[t] \in CipherPoints \cup { "in.set", "in.use" } => ~open /\ pc[u] = "idle"
      /\ t = "audio" /\ pc[t] \in CipherPoints => open /\ pc[u] \notin HelloPoints \ { "stop" }
      /\ t = "audio" => pc[t] \notin { "in.set", "in.use" }
  BY DEF StreamInv, Quiet, HelloPoints, CipherPoints, StreamTypeOK, AudioPoints
<1>3. pc[t] \in CipherPoints \cup { "in.set" }
  BY DEF CipherStep, GenerateRead, GenerateStore, SetIv, Encrypt, CipherPoints
<1> HIDE DEF u
<1>4. PICK p \in CipherPoints \cup { "in.use" } : Goto(t, p) /\ (p = "in.use" => pc[t] = "in.set")
  BY DEF CipherStep, GenerateRead, GenerateStore, SetIv, Encrypt, CipherPoints
<1>5. UNCHANGED <<open, answered, peer, connected, used, commanded>>
  BY DEF CipherStep, GenerateRead, GenerateStore, SetIv, Encrypt
<1>6. Quiet'
  BY <1>0, <1>1, <1>2, <1>3, <1>4, <1>5 DEF StreamInv, Quiet, HelloPoints, CipherPoints
<1>7. Route'
  BY <1>0, <1>1, <1>2, <1>3, <1>4, <1>5 DEF StreamInv, Route, HelloPoints, CipherPoints
<1>8. VectorMatches'
  BY <1>0, <1>1, <1>2, <1>3 DEF StreamInv, VectorMatches, CipherStep, GenerateRead, GenerateStore,
     SetIv, Encrypt, HelloPoints, CipherPoints
<1>9. Turns'
  <2> SUFFICES ASSUME ~commanded PROVE Turns'
    BY <1>5 DEF Turns
  <2>1. /\ pc["cmd"] \in { "off", "recv", "ended" }
        /\ \A v \in used : v < generator
        /\ \A w \in { "conn", "audio" } :
             /\ pc[w] = "store" => vector[w] = generator
             /\ pc[w] \in { "out.set", "out.use", "send" } =>
                  vector[w] \notin used /\ (vector[w] = MaxDraws \/ vector[w] < generator)
    BY DEF StreamInv, Turns
  <2>2. /\ pc[u] \notin { "store", "out.set", "out.use", "send" }
        /\ pc'[u] = pc[u] /\ pc'["cmd"] = pc["cmd"]
    BY <1>0, <1>1, <1>2, <1>3, <1>4 DEF HelloPoints, CipherPoints
  <2>3. generator \in 0 .. MaxDraws /\ used \subseteq 0 .. MaxDraws - 1
    BY DEF StreamTypeOK
  <2>4. CASE GenerateRead(t)
    <3>1. pc'[t] = "store" /\ vector'[t] = generator /\ UNCHANGED generator
      BY <1>1, <2>4 DEF GenerateRead
    <3> QED
      BY <1>0, <1>5, <2>1, <2>2, <3>1 DEF Turns
  <2>5. CASE GenerateStore(t)
    <3>1. pc'[t] = "out.set" /\ UNCHANGED vector /\ vector[t] = generator
      BY <1>0, <1>1, <2>1, <2>5 DEF GenerateStore
    <3>2. /\ generator' \in 0 .. MaxDraws /\ generator <= generator'
          /\ vector[t] = MaxDraws \/ vector[t] < generator'
      BY <2>3, <2>5, <3>1, Constants DEF GenerateStore
    <3>3. vector[t] \notin used /\ \A v \in used : v < generator'
      BY <2>1, <2>3, <3>1, <3>2, Constants
    <3> QED
      BY <1>0, <1>5, <2>1, <2>2, <3>1, <3>2, <3>3 DEF Turns
  <2>6. CASE SetIv(t)
    <3>1. /\ UNCHANGED <<generator, vector>>
          /\ (pc[t] = "out.set" /\ pc'[t] = "out.use") \/ pc'[t] = "in.use"
      BY <1>1, <2>6 DEF SetIv
    <3> QED
      BY <1>0, <1>5, <2>1, <2>2, <3>1 DEF Turns
  <2>7. CASE Encrypt(t)
    <3>1. UNCHANGED <<generator, vector>> /\ pc[t] = "out.use" /\ pc'[t] = "send"
      BY <1>1, <2>7 DEF Encrypt
    <3> QED
      BY <1>0, <1>5, <2>1, <2>2, <3>1 DEF Turns
  <2> QED
    BY <2>4, <2>5, <2>6, <2>7 DEF CipherStep
<1> QED
  BY <1>6, <1>7, <1>8, <1>9 DEF StreamInv

LEMMA HelloInv ==
  ASSUME StreamTypeOK, StreamInv,
         \/ InitializeAudioDevice \/ DecryptHello \/ SendSettings \/ Connect
         \/ AsyncStartCapture \/ StopCapture \/ RecvHello
  PROVE  StreamInv'
<1> USE DEF threadFrame, deviceVars, clientVars, ghostVars, cipherVars
<1>0. /\ \A p : Goto("conn", p) =>
           pc'["conn"] = p /\ pc'["audio"] = pc["audio"] /\ pc'["cmd"] = pc["cmd"]
      /\ \A v : Carry("conn", v) => vector'["conn"] = v /\ vector'["audio"] = vector["audio"]
  BY DEF Goto, Carry, StreamTypeOK, Threads
<1>1. CASE InitializeAudioDevice \/ DecryptHello
  <2>1. /\ pc["conn"] \in { "init", "in.use" }
        /\ pc'["conn"] \in { "in.set", "recv", "hang", "generate" }
        /\ pc'["audio"] = pc["audio"] /\ pc'["cmd"] = pc["cmd"]
        /\ UNCHANGED <<deviceVars, cipherVars, clientVars, ghostVars>>
    BY <1>0, <1>1 DEF InitializeAudioDevice, DecryptHello
  <2> QED
    BY <2>1 DEF StreamInv, Quiet, VectorMatches, Turns, Route, HelloPoints, CipherPoints
<1>2. CASE SendSettings
  <2>1. /\ pc["conn"] = "send" /\ ~open /\ pc["audio"] = "idle"
        /\ pc'["conn"] \in { "connect", "returned" } /\ pc'["audio"] = "idle" /\ pc'["cmd"] = pc["cmd"]
        /\ UNCHANGED <<open, iv, generator, peer, connected, commanded>>
    BY <1>0, <1>2 DEF SendSettings, StreamInv, Quiet, HelloPoints, CipherPoints
  <2>2. \/ answered' \in Clients /\ Sent("conn")
        \/ pc'["conn"] = "returned" /\ UNCHANGED <<answered, used, vector>>
    BY <1>0, <1>2 DEF SendSettings
  <2>3. Turns'
    <3> SUFFICES ASSUME ~commanded PROVE Turns'
      BY <2>1 DEF Turns
    <3>1. \A v \in used' : v < generator
      <4>1. vector["conn"] = MaxDraws \/ vector["conn"] < generator
        BY <2>1 DEF StreamInv, Turns
      <4>2. used' \subseteq used \cup ({ vector["conn"] } \cap (0 .. MaxDraws - 1))
        BY <2>2 DEF Sent
      <4> QED
        BY <4>1, <4>2, Constants DEF StreamInv, Turns
    <3> QED
      BY <2>1, <3>1 DEF Turns, StreamInv
  <2> QED
    BY <2>1, <2>2, <2>3 DEF StreamInv, Quiet, VectorMatches, Route, HelloPoints, CipherPoints
<1>3. CASE Connect
  <2>1. /\ pc["conn"] = "connect" /\ ~open /\ answered \in Clients
        /\ pc'["conn"] = "start" /\ pc'["audio"] = pc["audio"] /\ pc'["cmd"] = pc["cmd"]
        /\ UNCHANGED <<deviceVars, cipherVars, answered, ghostVars>>
        /\ peer' = answered \/ ~connected'
    BY <1>0, <1>3 DEF Connect, StreamInv, Quiet, Route, HelloPoints, CipherPoints
  <2> QED
    BY <2>1 DEF StreamInv, Quiet, VectorMatches, Turns, Route, HelloPoints, CipherPoints
<1>4. CASE AsyncStartCapture
  <2>1. /\ pc["conn"] = "start" /\ ~open /\ pc["audio"] = "idle"
        /\ pc'["conn"] = "recv" /\ pc'["audio"] = "idle" /\ pc'["cmd"] = pc["cmd"]
        /\ UNCHANGED <<cipherVars, clientVars, ghostVars>>
    BY <1>0, <1>4 DEF AsyncStartCapture, StartReturned, StreamInv, Quiet, HelloPoints, CipherPoints
  <2> QED
    BY <2>1 DEF StreamInv, Quiet, VectorMatches, Turns, Route, HelloPoints, CipherPoints
<1>5. CASE StopCapture
  <2>1. /\ pc["conn"] = "stop" /\ ~open' /\ pc["audio"] = "idle"
        /\ pc'["conn"] = "init" /\ pc'["audio"] = "idle" /\ pc'["cmd"] = pc["cmd"]
        /\ UNCHANGED <<cipherVars, clientVars, ghostVars>>
    BY <1>0, <1>5 DEF StopCapture, StopReturned, Device!Close, StreamInv, Quiet
  <2> QED
    BY <2>1 DEF StreamInv, Quiet, VectorMatches, Turns, Route, HelloPoints, CipherPoints
<1>6. CASE RecvHello
  <2>1. /\ pc["conn"] = "recv" /\ pc'["conn"] = "stop"
        /\ pc'["audio"] = pc["audio"] /\ pc'["cmd"] = pc["cmd"]
        /\ vector'["audio"] = vector["audio"]
        /\ UNCHANGED <<deviceVars, iv, generator, clientVars, ghostVars>>
    BY <1>0, <1>6 DEF RecvHello
  <2> QED
    BY <2>1 DEF StreamInv, Quiet, VectorMatches, Turns, Route, HelloPoints, CipherPoints
<1> QED
  BY <1>1, <1>2, <1>3, <1>4, <1>5, <1>6

LEMMA OtherInv ==
  ASSUME StreamTypeOK, StreamInv,
         CmdStep \/ SendAudio \/ RecvCommand \/ RecvFails \/ AudioReady \/ BackEndStops
  PROVE  StreamInv'
<1> USE DEF threadFrame, deviceVars, clientVars, ghostVars, cipherVars
<1>0. /\ \A t \in Threads : \A p : Goto(t, p) => pc'[t] = p /\ \A u \in Threads \ { t } : pc'[u] = pc[u]
      /\ \A t \in Threads : \A v : Carry(t, v) =>
           vector'[t] = v /\ \A u \in Threads \ { t } : vector'[u] = vector[u]
      /\ { "conn", "cmd", "audio" } \subseteq Threads
  BY DEF Goto, Carry, StreamTypeOK, Threads
<1>1. CASE CmdStep
  <2>1. /\ pc["cmd"] \in { "generate", "store", "send" }
        /\ pc'["conn"] = pc["conn"] /\ pc'["audio"] = pc["audio"]
        /\ vector'["conn"] = vector["conn"] /\ vector'["audio"] = vector["audio"]
        /\ UNCHANGED <<open, iv, clientVars, commanded>>
    BY <1>0, <1>1 DEF CmdStep, GenerateRead, GenerateStore, SendAnswer, Sent
  <2>2. commanded
    BY <2>1 DEF StreamInv, Turns
  <2> QED
    BY <2>1, <2>2 DEF StreamInv, Quiet, VectorMatches, Turns, Route, HelloPoints, CipherPoints
<1>2. CASE SendAudio
  <2>1. /\ pc["audio"] = "send" /\ open /\ pc["conn"] \notin HelloPoints \ { "stop" }
        /\ pc'["audio"] = "idle" /\ pc'["conn"] = pc["conn"] /\ pc'["cmd"] = pc["cmd"]
        /\ vector'["conn"] = vector["conn"]
        /\ UNCHANGED <<deviceVars, iv, generator, clientVars, commanded>> /\ Sent("audio")
    BY <1>0, <1>2 DEF SendAudio, Sent, Device!Return, StreamInv, Quiet
  <2>2. Turns'
    <3> SUFFICES ASSUME ~commanded PROVE Turns'
      BY <2>1 DEF Turns
    <3>1. \A v \in used' : v < generator
      <4>1. vector["audio"] = MaxDraws \/ vector["audio"] < generator
        BY <2>1 DEF StreamInv, Turns
      <4>2. used' \subseteq used \cup ({ vector["audio"] } \cap (0 .. MaxDraws - 1))
        BY <2>1 DEF Sent
      <4> QED
        BY <4>1, <4>2, Constants DEF StreamInv, Turns
    <3> QED
      BY <2>1, <3>1 DEF Turns, StreamInv, HelloPoints, CipherPoints
  <2> QED
    BY <2>1, <2>2 DEF StreamInv, Quiet, VectorMatches, Route, HelloPoints, CipherPoints
<1>3. CASE RecvCommand
  <2>1. /\ pc'["conn"] = pc["conn"] /\ pc'["audio"] = pc["audio"] /\ commanded'
        /\ UNCHANGED <<open, cipherVars, clientVars>>
    BY <1>0, <1>3 DEF RecvCommand
  <2> QED
    BY <2>1 DEF StreamInv, Quiet, VectorMatches, Turns, Route, HelloPoints, CipherPoints
<1>4. CASE RecvFails
  <2>1. /\ pc'["audio"] = pc["audio"]
        /\ pc'["conn"] \in { pc["conn"], "ended" } /\ pc'["cmd"] \in { pc["cmd"], "ended" }
        /\ UNCHANGED <<deviceVars, cipherVars, clientVars, ghostVars>>
    BY <1>0, <1>4 DEF RecvFails
  <2> QED
    BY <2>1 DEF StreamInv, Quiet, VectorMatches, Turns, Route, HelloPoints, CipherPoints
<1>5. CASE AudioReady
  <2>1. /\ open /\ pc'["audio"] = "generate" /\ pc'["conn"] = pc["conn"] /\ pc'["cmd"] = pc["cmd"]
        /\ UNCHANGED <<deviceVars, cipherVars, clientVars, ghostVars>>
    BY <1>0, <1>5 DEF AudioReady, CallbackEntered, Device!Deliver
  <2> QED
    BY <2>1 DEF StreamInv, Quiet, VectorMatches, Turns, Route, HelloPoints, CipherPoints
<1>6. CASE BackEndStops
  <2>1. /\ ~open' /\ pc["audio"] = "idle"
        /\ UNCHANGED <<pc, cipherVars, clientVars, ghostVars>>
    BY <1>6 DEF BackEndStops, Device!Close
  <2> QED
    BY <2>1 DEF StreamInv, Quiet, VectorMatches, Turns, Route, HelloPoints, CipherPoints
<1> QED
  BY <1>1, <1>2, <1>3, <1>4, <1>5, <1>6

LEMMA StreamStep ==
  ASSUME StreamTypeOK, StreamInv, StreamNext
  PROVE  StreamInv'
BY CipherInv, HelloInv, OtherInv DEF StreamNext, HelloStep, AudioStep, Arrival

-----------------------------------------------------------------------------
(* The sockets: a step of the running program opens none, and closes the   *)
(* one of a thread that ends.                                              *)
Live == HelloPoints \cup { "recv", "hang" }
Busy == CmdPoints \ { "off", "ended" }

LEMMA SocketStep ==
  ASSUME StreamTypeOK, StreamNext
  PROVE  /\ pc'["conn"] \in Live => pc["conn"] \in Live /\ ("hello" \in sockets => "hello" \in sockets')
         /\ pc'["cmd"] \in Busy => pc["cmd"] \in Busy /\ ("command" \in sockets => "command" \in sockets')
         /\ "audio" \in sockets => "audio" \in sockets'
<1> USE DEF threadFrame, deviceVars, clientVars, ghostVars, cipherVars, Live, Busy
<1>0. /\ \A t \in Threads : \A p : Goto(t, p) => pc'[t] = p /\ \A u \in Threads \ { t } : pc'[u] = pc[u]
      /\ { "conn", "cmd", "audio" } \subseteq Threads
  BY DEF Goto, StreamTypeOK, Threads
<1>1. CASE \E t \in { "conn", "audio" } : CipherStep(t)
  <2>1. PICK t \in { "conn", "audio" } : CipherStep(t)
    BY <1>1
  <2>2. pc[t] \in CipherPoints \cup { "in.set" } /\ \E p : Goto(t, p)
    BY <2>1 DEF CipherStep, GenerateRead, GenerateStore, SetIv, Encrypt, CipherPoints
  <2>3. UNCHANGED sockets
    BY <2>1 DEF CipherStep, GenerateRead, GenerateStore, SetIv, Encrypt
  <2> QED
    BY <1>0, <2>1, <2>2, <2>3 DEF HelloPoints
<1>2. CASE InitializeAudioDevice \/ DecryptHello \/ SendSettings \/ Connect
  BY <1>0, <1>2 DEF InitializeAudioDevice, DecryptHello, SendSettings, Connect, HelloPoints, CipherPoints
<1>3. CASE AsyncStartCapture \/ StopCapture \/ RecvHello
  BY <1>0, <1>3 DEF AsyncStartCapture, StartReturned, StopCapture, StopReturned, RecvHello, HelloPoints, CipherPoints
<1>4. CASE CmdStep \/ RecvCommand
  <2>1. UNCHANGED sockets /\ pc["cmd"] \in { "generate", "store", "send", "recv" } /\ \E p : Goto("cmd", p)
    BY <1>4 DEF CmdStep, GenerateRead, GenerateStore, SendAnswer, RecvCommand
  <2> QED
    BY <1>0, <2>1 DEF CmdPoints
<1>5. CASE SendAudio \/ AudioReady
  <2>1. UNCHANGED sockets /\ \E p : Goto("audio", p)
    BY <1>5 DEF SendAudio, AudioReady, CallbackEntered
  <2> QED
    BY <1>0, <2>1
<1>6. CASE RecvFails
  <2>1. \/ Goto("conn", "ended") /\ sockets' = sockets \ { "hello" }
        \/ Goto("cmd", "ended") /\ sockets' = sockets \ { "command" }
    BY <1>6 DEF RecvFails
  <2>2. "ended" \notin Live /\ "ended" \notin Busy
    BY DEF HelloPoints, CipherPoints
  <2> QED
    BY <1>0, <2>1, <2>2
<1>7. CASE BackEndStops
  BY <1>7 DEF BackEndStops
<1> QED
  BY <1>1, <1>2, <1>3, <1>4, <1>5, <1>6, <1>7 DEF StreamNext, HelloStep, AudioStep, Arrival

LEMMA SocketsStep ==
  ASSUME StreamTypeOK, StreamInv, ThreadsOwnSockets, "audio" \in sockets, StreamNext
  PROVE  ThreadsOwnSockets' /\ "audio" \in sockets'
BY SocketStep DEF ThreadsOwnSockets, Live, Busy

-----------------------------------------------------------------------------
(* The actions of main that change the object.                             *)
LEMMA SetUpTypes ==
  ASSUME StreamTypeOK, InitCall \/ InitFails \/ StartThreads \/ CloseSockets
  PROVE  StreamTypeOK'
<1> USE DEF deviceVars, clientVars, ghostVars, cipherVars
<1>1. CASE InitCall
  BY <1>1, InitLength DEF InitCall, StreamTypeOK
<1>2. CASE InitFails
  BY <1>2 DEF InitFails, streamVars, StreamTypeOK
<1>3. CASE StartThreads
  BY <1>3 DEF StartThreads, StreamTypeOK, Threads, ConnPoints, CmdPoints
<1>4. CASE CloseSockets
  BY <1>4 DEF CloseSockets, StreamTypeOK
<1> QED
  BY <1>1, <1>2, <1>3, <1>4

LEMMA SetUpInv ==
  ASSUME StreamTypeOK, StreamInv, pc["conn"] = "off", pc["cmd"] = "off",
         InitCall \/ InitFails \/ StartThreads \/ CloseSockets
  PROVE  StreamInv'
<1> USE DEF deviceVars, clientVars, ghostVars, cipherVars
<1>1. CASE StartThreads
  <2>1. pc'["conn"] = "recv" /\ pc'["cmd"] = "recv" /\ pc'["audio"] = pc["audio"]
    BY <1>1 DEF StartThreads, StreamTypeOK, Threads
  <2>2. UNCHANGED <<deviceVars, cipherVars, clientVars, ghostVars>>
    BY <1>1 DEF StartThreads
  <2> QED
    BY <2>1, <2>2 DEF StreamInv, Quiet, VectorMatches, Turns, Route, HelloPoints, CipherPoints
<1>2. CASE InitCall \/ InitFails \/ CloseSockets
  <2>1. UNCHANGED <<pc, deviceVars, cipherVars, clientVars, ghostVars>>
    BY <1>2 DEF InitCall, InitFails, CloseSockets, streamVars
  <2> QED
    BY <2>1 DEF StreamInv, Quiet, VectorMatches, Turns, Route
<1> QED
  BY <1>1, <1>2

-----------------------------------------------------------------------------
(* The types; what is written into the file was chosen before.             *)
Chosen == main = "write" => code \in Codes

LEMMA TypeStart == Init => TypeOK /\ Chosen
<1> SUFFICES ASSUME Init PROVE TypeOK /\ Chosen
  OBVIOUS
<1>1. exists \in BOOLEAN /\ warned \in BOOLEAN /\ replaced \in BOOLEAN
  BY Zenon DEF Init
<1>2. StreamTypeOK
  BY StreamTypeInit DEF Init
<1> QED
  BY <1>1, <1>2, Constants DEF Init, TypeOK, Files, MainPoints, Chosen

LEMMA TypeEnd ==
  ASSUME TypeOK, End
  PROVE  TypeOK'
<1>1. warned' \in BOOLEAN /\ (replaced' \in BOOLEAN \/ UNCHANGED replaced)
  BY Zenon DEF End
<1>2. StreamTypeOK'
  BY StreamTypeReset DEF End
<1> QED
  BY <1>1, <1>2 DEF End, TypeOK, MainPoints

LEMMA TypeStep ==
  ASSUME TypeOK, Chosen, [Next]_vars
  PROVE  TypeOK'
<1> USE DEF MainPoints
<1>0. UNCHANGED streamVars => StreamTypeOK'
  BY DEF TypeOK, StreamTypeOK, streamVars
<1>1. CASE Start
  <2>1. code' \in Codes \cup { f[1] : f \in UserFiles \ { << >> } } \cup { NoCode }
    <3>1. CASE code' = code
      BY <3>1 DEF TypeOK
    <3>2. CASE Len(file) = 2 /\ code' = file[1]
      <4>1. CASE file \in UserFiles
        BY <3>2, <4>1
      <4>2. CASE \E c \in Codes : file = << c, DefaultPort >>
        BY <3>2, <4>2
      <4> QED
        BY <3>2, <4>1, <4>2 DEF TypeOK, Files
    <3> QED
      BY <1>1, <3>1, <3>2 DEF Start
  <2>2. main' \in MainPoints /\ starts' \in 0 .. MaxStarts
    BY <1>1, Constants DEF Start, TypeOK
  <2> QED
    BY <1>0, <1>1, <2>1, <2>2 DEF Start, TypeOK
<1>2. CASE CreateConfig
  <2>1. exists' \in BOOLEAN /\ warned' \in BOOLEAN /\ replaced' \in BOOLEAN
    BY <1>2, Zenon DEF CreateConfig, TypeOK
  <2> QED
    BY <1>0, <1>2, <2>1 DEF CreateConfig, TypeOK, Files
<1>3. CASE WriteConfig
  <2>1. file' \in Files
    BY <1>3 DEF WriteConfig, TypeOK, Files, Chosen
  <2> QED
    BY <1>0, <1>3, <2>1 DEF WriteConfig, TypeOK
<1>4. CASE ListAddresses \/ Construct
  BY <1>0, <1>4, TypeEnd DEF ListAddresses, Construct, TypeOK
<1>5. CASE RunInit
  BY <1>5, SetUpTypes DEF RunInit, TypeOK
<1>6. CASE Destroy \/ Crash
  BY <1>6, SetUpTypes, TypeEnd DEF Destroy, Crash, TypeOK
<1>7. CASE EditConfig
  <2>1. exists' \in BOOLEAN /\ replaced' \in BOOLEAN
    BY <1>7, Zenon DEF EditConfig
  <2> QED
    BY <1>0, <1>7, <2>1 DEF EditConfig, TypeOK, Files
<1>8. CASE RunStream
  BY <1>8, StreamTypes DEF RunStream, While, mainVars, TypeOK
<1>9. CASE UNCHANGED vars
  BY <1>0, <1>9 DEF vars, mainVars, TypeOK
<1> QED
  BY <1>1, <1>2, <1>3, <1>4, <1>5, <1>6, <1>7, <1>8, <1>9 DEF Next

LEMMA ChosenStep ==
  ASSUME [Next]_vars, Chosen
  PROVE  Chosen'
BY DEF Chosen, Next, vars, mainVars, Start, CreateConfig, WriteConfig, ListAddresses, Construct,
   RunInit, Destroy, Crash, EditConfig, RunStream, While, End

-----------------------------------------------------------------------------
(* The object never runs without main, and its sockets come first.         *)
Owned == Sequenced /\ ThreadsOwnSockets

LEMMA ResetSteps ==
  ASSUME End
  PROVE  StreamInv' /\ Owned'
<1>1. /\ pc'["conn"] = "off" /\ pc'["cmd"] = "off" /\ pc'["audio"] = "idle"
      /\ main' = "off" /\ setup' = 0
  BY DEF End, StreamReset, Threads
<1>2. Sequenced'
  BY <1>1 DEF Sequenced
<1>3. ThreadsOwnSockets'
  BY <1>1 DEF ThreadsOwnSockets, HelloPoints, CipherPoints
<1> QED
  BY <1>2, <1>3, StreamInvReset DEF End, Owned

LEMMA OwnedStep ==
  ASSUME TypeOK, StreamInv, Owned, [Next]_vars
  PROVE  StreamInv' /\ Owned'
<1>0. StreamTypeOK
  BY DEF TypeOK
<1>1. ASSUME UNCHANGED streamVars, main # "running", main # "join", main' # "running"
      PROVE  StreamInv' /\ Owned'
  <2>1. StreamInv' /\ ThreadsOwnSockets'
    BY <1>1 DEF streamVars, StreamInv, Quiet, VectorMatches, Turns, Route, Owned, ThreadsOwnSockets
  <2> QED
    BY <1>1, <2>1 DEF streamVars, Owned, Sequenced
<1>2. CASE Start \/ CreateConfig \/ WriteConfig \/ EditConfig
  <2>1. main \in { "off", "create", "write" } /\ main' # "running" /\ UNCHANGED streamVars
    BY <1>2 DEF Start, CreateConfig, WriteConfig, EditConfig
  <2> QED
    BY <1>1, <2>1
<1>3. CASE (ListAddresses \/ Construct) /\ UNCHANGED streamVars /\ ~End
  <2>1. main \in { "list", "construct" } /\ main' # "running"
    BY <1>3 DEF ListAddresses, Construct
  <2> QED
    BY <1>1, <1>3, <2>1
<1>4. CASE RunInit
  <2>1. /\ main = "init" /\ pc["conn"] = "off" /\ pc["cmd"] = "off" /\ pc["audio"] = "idle"
        /\ setup >= 2 => "audio" \in sockets
        /\ setup >= 3 => "hello" \in sockets
        /\ setup >= 5 => "command" \in sockets
    BY <1>4 DEF RunInit, Owned, Sequenced
  <2>2. StreamInv'
    BY <1>0, <1>4, <2>1, SetUpInv DEF RunInit
  <2>3. CASE InitCall /\ UNCHANGED main
    <3>1. setup \in 0 .. 5 /\ setup' = setup + 1 /\ UNCHANGED pc
          /\ sockets' = sockets \cup ({ InitCalls[setup + 1] } \cap Sockets)
      BY <1>0, <2>3, InitLength DEF InitCall, StreamTypeOK
    <3>2. /\ setup' >= 2 => "audio" \in sockets'
          /\ setup' >= 3 => "hello" \in sockets'
          /\ setup' >= 5 => "command" \in sockets'
      <4>1. InitCalls[2] = "audio" /\ InitCalls[3] = "hello" /\ InitCalls[5] = "command"
        BY DEF InitCalls
      <4>2. \A i, s : setup + 1 = i /\ InitCalls[i] = s /\ s \in Sockets => s \in sockets'
        BY <3>1
      <4>3. { "audio", "hello", "command" } \subseteq Sockets
        BY DEF Sockets
      <4>4. /\ setup + 1 = 2 => "audio" \in sockets'
            /\ setup + 1 = 3 => "hello" \in sockets'
            /\ setup + 1 = 5 => "command" \in sockets'
        BY <4>1, <4>2, <4>3
      <4>5. sockets \subseteq sockets'
        BY <3>1
      <4>6. /\ setup' >= 2 => setup + 1 = 2 \/ setup >= 2
            /\ setup' >= 3 => setup + 1 = 3 \/ setup >= 3
            /\ setup' >= 5 => setup + 1 = 5 \/ setup >= 5
        BY <3>1
      <4> QED
        BY <2>1, <4>4, <4>5, <4>6
    <3> QED
      BY <2>1, <2>2, <2>3, <3>1, <3>2 DEF Owned, Sequenced, ThreadsOwnSockets, HelloPoints, CipherPoints
  <2>4. CASE InitFails /\ main' = "exit"
    BY <2>1, <2>2, <2>4 DEF InitFails, streamVars, Owned, Sequenced, ThreadsOwnSockets
  <2>5. CASE StartThreads /\ main' = "running"
    <3>1. setup = 6 /\ UNCHANGED sockets /\ pc'["audio"] = "idle"
      BY <1>0, <2>1, <2>5, InitLength DEF StartThreads, StreamTypeOK, Threads
    <3> QED
      BY <2>1, <2>2, <2>5, <3>1 DEF Owned, Sequenced, ThreadsOwnSockets
  <2> QED
    BY <1>4, <2>3, <2>4, <2>5 DEF RunInit
<1>5. CASE main = "exit" /\ main' = "join" /\ CloseSockets
  <2>1. /\ pc["conn"] = "off" /\ pc["cmd"] = "off" /\ pc["audio"] = "idle" /\ UNCHANGED pc
    BY <1>5 DEF Owned, Sequenced, CloseSockets
  <2>2. StreamInv'
    BY <1>0, <1>5, <2>1, SetUpInv
  <2> QED
    BY <1>5, <2>1, <2>2 DEF Owned, Sequenced, ThreadsOwnSockets, HelloPoints, CipherPoints, CmdPoints
<1>6. CASE RunStream
  <2>1. main = "running" /\ StreamNext /\ UNCHANGED main /\ "audio" \in sockets
    BY <1>6 DEF RunStream, While, mainVars, Owned, Sequenced
  <2>2. StreamInv' /\ ThreadsOwnSockets' /\ "audio" \in sockets'
    BY <1>0, <2>1, StreamStep, SocketsStep DEF Owned
  <2> QED
    BY <2>1, <2>2 DEF Owned, Sequenced
<1>7. CASE End
  BY <1>7, ResetSteps
<1>8. CASE UNCHANGED vars
  BY <1>8 DEF vars, mainVars, streamVars, StreamInv, Quiet, VectorMatches, Turns, Route, Owned,
     Sequenced, ThreadsOwnSockets
<1> QED
  BY <1>2, <1>3, <1>4, <1>5, <1>6, <1>7, <1>8 DEF Next, ListAddresses, Construct, Destroy, Crash

-----------------------------------------------------------------------------
(* The file keeps the code the client knows.                               *)
LEMMA PairedStep ==
  ASSUME TypeOK, Paired, [Next]_vars
  PROVE  Paired'
<1> USE DEF Paired, FileHas, Shown
<1>1. CASE End /\ main # "off"
  BY <1>1 DEF End
<1>2. CASE Start
  BY <1>2 DEF Start
<1>3. CASE CreateConfig
  <2>1. CASE replaced' = (known # NoCode /\ (exists \/ replaced))
    <3>1. known # NoCode => exists \/ replaced
      BY Zenon
    <3>2. known # NoCode => replaced'
      BY <2>1, <3>1, Zenon
    <3> QED
      BY <1>3, <3>2 DEF CreateConfig
  <2>2. CASE warned' = TRUE /\ UNCHANGED <<file, exists, replaced>>
    BY <1>3, <2>2 DEF CreateConfig
  <2> QED
    BY <1>3, <2>1, <2>2 DEF CreateConfig
<1>4. CASE WriteConfig
  BY <1>4 DEF WriteConfig
<1>5. CASE UNCHANGED <<file, exists, code, warned, known, replaced, starts>> /\ main \in Shown /\ main' \in Shown
  BY <1>5
<1>6. CASE EditConfig
  BY <1>6 DEF EditConfig
<1>7. CASE UNCHANGED vars
  BY <1>7 DEF vars, mainVars
<1> QED
  BY <1>1, <1>2, <1>3, <1>4, <1>5, <1>6, <1>7 DEF Next, ListAddresses, Construct, RunInit, Destroy,
     Crash, RunStream, While, mainVars

-----------------------------------------------------------------------------
(* The inductive invariant of the program.                                 *)
Inv == TypeOK /\ Chosen /\ StreamInv /\ Owned /\ Paired

LEMMA Inductive == Spec => []Inv
<1>1. Init => Inv
  <2> SUFFICES ASSUME Init PROVE Inv
    OBVIOUS
  <2>1. TypeOK /\ Chosen
    BY TypeStart
  <2>2. StreamInv
    BY StreamInvInit DEF Init
  <2>3. Owned
    BY DEF Init, StreamInit, Owned, Sequenced, ThreadsOwnSockets, HelloPoints, CipherPoints, CmdPoints, Threads
  <2>4. Paired
    BY DEF Init, Paired, FileHas, Shown
  <2> QED
    BY <2>1, <2>2, <2>3, <2>4 DEF Inv
<1>2. Inv /\ [Next]_vars => Inv'
  BY TypeStep, ChosenStep, OwnedStep, PairedStep DEF Inv
<1> QED
  BY <1>1, <1>2, PTL DEF Spec

(* Every variable keeps its type, whatever the number of starts.           *)
THEOREM TypeCorrect == Spec => []TypeOK
BY Inductive, PTL DEF Inv

(* What is sent or decrypted with the shared wrapper is so with the vector *)
(* of its own datagram, under every interleaving of the connection thread, *)
(* the command thread and the audio callback.                              *)
THEOREM VectorsMatch == Spec => []VectorMatches
<1>1. Inv => VectorMatches
  BY DEF Inv, StreamInv
<1> QED
  BY <1>1, Inductive, PTL

(* Without a command no vector is sent twice.                              *)
THEOREM FreshVectors == Spec => []FreshUntilCommand
<1>1. Inv => FreshUntilCommand
  BY DEF Inv, StreamInv, Turns, FreshUntilCommand
<1> QED
  BY <1>1, Inductive, PTL

(* Audio is sent to the client that was answered last.                     *)
THEOREM AudioRouted == Spec => []AudioFollowsAnswer
<1>1. Inv => AudioFollowsAnswer
  BY DEF Inv, StreamInv, Quiet, Route, AudioFollowsAnswer
<1> QED
  BY <1>1, Inductive, PTL

(* No thread uses a socket that is closed or was never opened.             *)
THEOREM SocketsOwned == Spec => []ThreadsOwnSockets
<1>1. Inv => ThreadsOwnSockets
  BY DEF Inv, Owned
<1> QED
  BY <1>1, Inductive, PTL

(* A pairing survives every crash, restart and failed write, as long as    *)
(* the file that holds it can be opened.                                   *)
THEOREM PairingSurvives == Spec => []PairingKept
<1>1. Inv => PairingKept
  BY DEF Inv, Paired, Shown, PairingKept
<1> QED
  BY <1>1, Inductive, PTL
==============================================================================
