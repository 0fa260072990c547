---------------------------- MODULE MCAudioOutput ----------------------------
(* The formats the output is configured with where TLC checks it.          *)
EXTENDS AudioOutput

Stereo(bits, hw) == [bits |-> bits, channels |-> 2, hw |-> hw]

Default   == Stereo(16, FALSE)
Hardware  == {Stereo(16, TRUE)}
HighDepth == {Stereo(24, FALSE)}

==============================================================================
