-------------------------------- MODULE Main --------------------------------
(***************************************************************************)
(* Main.cpp: the configuration file, which outlives the process, and the   *)
(* process around one AudioStream object.  A start creates config.ini with *)
(* a new pair code or reads the one that is there; the process may die at  *)
(* any moment and be started again.                                        *)
(*                                                                         *)
(* The file is the sequence of its lines.  Lines and codes are strings;    *)
(* which of them std::stoi accepts and which are too long for a key is     *)
(* given by constants.                                                     *)
(***************************************************************************)
EXTENDS AudioStream

CONSTANTS
  Codes,      \* pair codes the random device may choose
  UserFiles,  \* contents the user may give config.ini
  Numbers,    \* lines std::stoi accepts
  LongCodes,  \* pair codes longer than a key
  MaxStarts   \* bound: times the program is started

DefaultPort == "5540"
NoCode      == "none"

MainFailures ==
  { "read",   \* config.ini is there and cannot be opened
    "open",   \* config.ini cannot be created, or not be replaced
    "write",  \* its lines cannot be written
    "list" }  \* the addresses cannot be listed

ASSUME MainAssumption ==
  /\ ProgramFailures \subseteq StreamFailures \cup MainFailures
  /\ Codes \cup { DefaultPort } \subseteq Numbers
  /\ DefaultPort \notin Codes
  /\ LongCodes \cap Codes = {}
  /\ \A f \in UserFiles : Len(f) \in { 0, 2 }
  /\ NoCode \notin Codes \cup Numbers
  /\ MaxStarts \in Nat

VARIABLES
  file,      \* config.ini
  exists,    \* config.ini exists
  main,      \* program point of main
  code,      \* pair_code
  warned,    \* the user was told that the code is temporary
  known,     \* the code the app was given while an earlier process ran
  replaced,  \* the file was overwritten since; only properties read it
  starts     \* times the program was started

mainVars == <<file, exists, main, code, warned, known, replaced, starts>>
vars     == <<streamVars, mainVars>>

MainPoints == { "off", "create", "write", "list", "construct", "init",
                "running", "exit", "join" }

Init ==
  /\ StreamInit
  /\ file = << >>
  /\ exists = FALSE
  /\ main = "off"
  /\ code = NoCode
  /\ warned = FALSE
  /\ known = NoCode
  /\ replaced = FALSE
  /\ starts = 0

(* The end of the process, in whatever way.  While it ran the user may have *)
(* typed the code it showed into the app, which keeps it for the next time *)
(* unless the user was told that the code is temporary.                    *)
End ==
  /\ main' = "off"
  /\ code' = NoCode
  /\ warned' = FALSE
  /\ \/ UNCHANGED <<known, replaced>>
     \/ main = "running" /\ ~warned /\ known' = code /\ replaced' = FALSE
  /\ StreamReset
  /\ UNCHANGED <<file, exists, starts>>

(* main opens config.ini.  A file that is there and cannot be opened is as  *)
(* good as none.  A line that is no number where the port should be ends    *)
(* the program: nobody catches what std::stoi throws.                       *)
Start ==
  /\ main = "off"
  /\ starts < MaxStarts
  /\ starts' = starts + 1
  /\ \/ /\ ~exists \/ "read" \in ProgramFailures
        /\ main' = "create"
        /\ UNCHANGED code
     \/ /\ exists
        /\ Len(file) = 2 /\ file[2] \in Numbers
        /\ main' = "list"
        /\ code' = file[1]
     \/ /\ exists
        /\ ~(Len(file) = 2 /\ file[2] \in Numbers)
        /\ UNCHANGED <<main, code>>
  /\ UNCHANGED <<streamVars, file, exists, warned, known, replaced>>

(* A new code; fout.open leaves an empty file, whatever was there, or the  *)
(* user is warned.                                                         *)
CreateConfig ==
  /\ main = "create"
  /\ code' \in Codes
  /\ \/ /\ file' = << >> /\ exists' = TRUE
        /\ replaced' = (known # NoCode /\ (exists \/ replaced))
        /\ main' = "write"
        /\ UNCHANGED warned
     \/ /\ "open" \in ProgramFailures
        /\ warned' = TRUE
        /\ main' = "list"
        /\ UNCHANGED <<file, exists, replaced>>
  /\ UNCHANGED <<streamVars, known, starts>>

(* Variants for checking: the lines in another order, or one missing.      *)
WriteConfigSwapped ==
  /\ main = "write"
  /\ main' = "list"
  /\ file' = << DefaultPort, code >>
  /\ UNCHANGED <<streamVars, exists, code, warned, known, replaced, starts>>

WriteConfigShort ==
  /\ main = "write"
  /\ main' = "list"
  /\ file' = << code >>
  /\ UNCHANGED <<streamVars, exists, code, warned, known, replaced, starts>>

(* The lines reach the file when it is closed; whether they do is not      *)
(* looked at.                                                              *)
WriteConfig ==
  /\ main = "write"
  /\ main' = "list"
  /\ file' = << code, DefaultPort >> \/ ("write" \in ProgramFailures /\ UNCHANGED file)
  /\ UNCHANGED <<streamVars, exists, code, warned, known, replaced, starts>>

ListAddresses ==
  /\ main = "list"
  /\ \/ main' = "construct" /\ UNCHANGED <<streamVars, file, exists, code, warned, known, replaced, starts>>
     \/ "list" \in ProgramFailures /\ End

(* The constructor throws when the code is longer than a key, and nobody   *)
(* catches that.                                                           *)
Construct ==
  /\ main = "construct"
  /\ \/ /\ code \notin LongCodes
        /\ main' = "init"
        /\ UNCHANGED <<streamVars, file, exists, code, warned, known, replaced, starts>>
     \/ code \in LongCodes /\ End

RunInit ==
  /\ main = "init"
  /\ \/ InitCall /\ UNCHANGED main
     \/ InitFails /\ main' = "exit"
     \/ StartThreads /\ main' = "running"
  /\ UNCHANGED <<file, exists, code, warned, known, replaced, starts>>

(* The destructor: close the sockets, join the threads.                    *)
Destroy ==
  \/ /\ main = "exit"
     /\ main' = "join"
     /\ CloseSockets
     /\ UNCHANGED <<file, exists, code, warned, known, replaced, starts>>
  \/ main = "join" /\ ThreadsJoined /\ End

(* main sleeps for ever: a running program ends in no other way.           *)
Crash == main # "off" /\ End

(* The user replaces or removes the file, and pairs anew.                  *)
EditConfig ==
  /\ main = "off"
  /\ \/ file' \in UserFiles /\ exists' = TRUE
     \/ file' = << >> /\ exists' = FALSE
  /\ known' = NoCode /\ replaced' = FALSE
  /\ UNCHANGED <<streamVars, main, code, warned, starts>>

While(step) == main = "running" /\ step /\ UNCHANGED mainVars

RunStream == While(StreamNext)

Next == \/ Start \/ CreateConfig \/ WriteConfig \/ ListAddresses \/ Construct
        \/ RunInit \/ Destroy \/ Crash \/ EditConfig \/ RunStream

Spec == Init /\ [][Next]_vars

(* The threads of the running program go on; nobody has to send anything.  *)
(* StopCapture waits for a callback to return while others may begin: that *)
(* it does return is StopReturns of PulseAudioCapture.  Of                 *)
(* InitializeAudioDevice it is not assumed that it returns.                *)
Fairness ==
  /\ WF_vars(While(HelloStep))
  /\ WF_vars(While(AudioStep))
  /\ SF_vars(While(StopCapture))

FairSpec == Spec /\ Fairness

-----------------------------------------------------------------------------
Files == { << >> } \cup UserFiles \cup { << c, DefaultPort >> : c \in Codes }

(* Every variable has its type.                                            *)
TypeOK ==
  /\ StreamTypeOK
  /\ file \in Files
  /\ exists \in BOOLEAN
  /\ main \in MainPoints
  /\ { code, known } \subseteq Codes \cup { f[1] : f \in UserFiles \ { << >> } } \cup { NoCode }
  /\ warned \in BOOLEAN /\ replaced \in BOOLEAN
  /\ starts \in 0 .. MaxStarts

(* A client that was paired stays paired: whatever crashes and failed      *)
(* writes there were, a program that runs uses the code the client knows.  *)
(* It does not when it had to warn that the code is temporary, when the    *)
(* user changed the file, and when the file was there but could not be     *)
(* opened: then main overwrites it with a new code and warns of nothing.   *)
PairingKept ==
  main = "running" /\ known # NoCode /\ ~warned /\ ~replaced => code = known
=============================================================================
