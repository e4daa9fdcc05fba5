------------------------------- MODULE MCMain -------------------------------
(***************************************************************************)
(* Main with one code for a new file and another the user chose, and files *)
(* in which the code is too long, the port is no number or everything is   *)
(* missing.                                                                *)
(***************************************************************************)
EXTENDS Main

MCCodes     == { "000042" }
MCLongCodes == { "much too long" }
MCNumbers   == MCCodes \cup { DefaultPort }
MCUserFiles == { << >>, << "999999", DefaultPort >>,
                 << "much too long", DefaultPort >>, << "000042", "port" >> }

AllFailures == StreamFailures \cup MainFailures
=============================================================================
