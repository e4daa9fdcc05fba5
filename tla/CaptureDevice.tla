---------------------------- MODULE CaptureDevice ----------------------------
(***************************************************************************)
(* What AudioStream expects of a capture back end: between the return of   *)
(* StopCapture and the next AsyncStartCapture no audio is delivered, so    *)
(* that the connection thread may use the cipher and the random generator  *)
(* it shares with the audio callback without a lock.                       *)
(***************************************************************************)
VARIABLES
  open,        \* a capture was started and not stopped since
  delivering   \* the audio callback is running

vars == <<open, delivering>>

Init == open = FALSE /\ delivering = FALSE

Open    == ~open /\ open' = TRUE /\ UNCHANGED delivering
Deliver == open /\ ~delivering /\ delivering' = TRUE /\ UNCHANGED open
Return  == delivering /\ delivering' = FALSE /\ UNCHANGED open
Close   == open /\ ~delivering /\ open' = FALSE /\ UNCHANGED delivering

Next == Open \/ Deliver \/ Return \/ Close

Spec == Init /\ [][Next]_vars
==============================================================================
