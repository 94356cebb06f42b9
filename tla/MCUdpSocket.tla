---------------------------- MODULE MCUdpSocket ----------------------------
(* UdpSocket for TLC: handles are interchangeable. *)
EXTENDS UdpSocket, TLC

HandleSymmetry == Permutations(Handles)
=============================================================================
