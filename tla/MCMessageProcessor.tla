------------------------- MODULE MCMessageProcessor -------------------------
(* Model-checking instance of MessageProcessor: two slots (one remote peer *)
(* can hold both, or a self-dial pair), a cooldown of two ticks and a     *)
(* clock from 2 to 4, so a second request can come both inside and      *)
(* after the window.  The ban and compact-block runs take               *)
(* blocks of difficulty 0 or 1 (MCTDs); the snapshot run takes only 0,     *)
(* since no snapshot step reads or writes chainTD.                         *)
EXTENDS MessageProcessor, TLC

MCPeerVersions == {1, 3}
MCTDs == {0, 1}

ConnSymmetry == Permutations(Conn)
=============================================================================
