---------------------------- MODULE MCSlateCodec ----------------------------
(* Small instance of SlateCodec: one slate, two signatures, two            *)
(* commitments, every optional field present or absent.                    *)
EXTENDS SlateCodec

MCSlateIds == {7}
MCOffsets == {0, 9}
MCAmounts == {0, 5}
MCParticipants == {2, 3}
MCHeights == {6}
MCSigValues == {11, 12}
MCCommits == {21, 22}
MCRangeProofs == {31}
MCPaymentProofs == {41}
=============================================================================
