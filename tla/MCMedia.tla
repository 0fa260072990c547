------------------------------- MODULE MCMedia -------------------------------
(* The instance of Media that TLC checks.                                  *)
EXTENDS Media, MCAudioOutput

==============================================================================
