---------------------------- MODULE MCHandshake ----------------------------
(* Model-checking instance of Handshake: three slots (enough for a         *)
(* self-dial pair next to a remote connection, or two connections from the *)
(* same remote peer), one remote peer announcing an older and a newer      *)
(* protocol version.                                                       *)
EXTENDS Handshake, TLC

MCPeerVersions == {1, 3}

(* Slots are interchangeable: no action tells two of them apart.           *)
ConnSymmetry == Permutations(Conn)
=============================================================================
