--------------------------- MODULE MCWASAPICapture ---------------------------
(* Values for the constants of WASAPICapture.                              *)
EXTENDS WASAPICapture

AllCommands == CommandKinds
OnlyStop    == { "stop" }

NoFailures   == {}
AllFailures  == FailureKinds

(* The failures after which a callback still reports back: neither the     *)
(* activation request nor an insertion into the work queue is refused.     *)
ReportedFailures == FailureKinds \ { "activateCall", "put" }

(* Nobody but StopCapture stops the capture: no stop commands, no answer    *)
(* that cannot be sent.                                                    *)
PlayCommands     == { "ping", "play", "pause" }
BlockingFailures == ReportedFailures \ { "send" }

(* The failure that leaves the device in another state than Capturing.     *)
StartFailures == { "start" }
==============================================================================
