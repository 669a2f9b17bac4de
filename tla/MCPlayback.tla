----------------------------- MODULE MCPlayback -----------------------------
(***************************************************************************)
(* Model checking of Playback.  Connections are interchangeable: nothing   *)
(* in the specification or its safety properties tells them apart.         *)
(***************************************************************************)
EXTENDS Playback, TLC

SocketSymmetry == Permutations(Sockets)
=============================================================================
