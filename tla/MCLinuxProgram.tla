--------------------------- MODULE MCLinuxProgram ---------------------------
(* Values for the constants of LinuxProgram.                               *)
EXTENDS LinuxProgram

AllCommands == CommandKinds
AllFailures == FailureKinds

(* The line main() writes, "pcm 16 48000", and what a user may make of it: *)
(* a word missing, another encoding with a rate out of range, an unknown   *)
(* encoding, a width no sample format has, a word for a number.            *)
Default == [words |-> 3, fmt |-> "pcm", bits |-> 16, rate |-> 48000, numeric |-> TRUE]
AllConfigs ==
  { Default, [Default EXCEPT !.words = 2], [Default EXCEPT !.fmt = "float", !.rate = 0],
    [Default EXCEPT !.fmt = "other"], [Default EXCEPT !.bits = 8],
    [Default EXCEPT !.numeric = FALSE] }

OneCode   == { "000042" }
MCNumbers == OneCode \cup { "5540" }
=============================================================================
