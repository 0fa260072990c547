-------------------------- MODULE MCAirplayServer --------------------------
(* The instance of AirplayServer that TLC checks: the symmetry of peers.   *)
EXTENDS AirplayServer, TLC

PeerSymmetry == Permutations(Peers)

============================================================================
