------------------------- MODULE MCPulseAudioCapture -------------------------
(* Values for the constants of PulseAudioCapture.                          *)
EXTENDS PulseAudioCapture

OnlyPing    == { "ping" }
OnlyPlay    == { "play" }

Config(words, fmt, n, rate, numeric) ==
  [words |-> words, fmt |-> fmt, bits |-> n, rate |-> rate, numeric |-> numeric]

(* The configuration main() writes: "pcm 16 48000".                        *)
DefaultConfigs == { Config(3, "pcm", 16, 48000, TRUE) }

NoFailures      == {}
ContextFailures == { "context" }
==============================================================================
