----------------------------- MODULE SlateCodec -----------------------------
(***************************************************************************)
(* The Slate of the wallet (src/include/Wallet/Models/Slate/Slate.h): the  *)
(* record two wallets pass back and forth while they build a transaction,  *)
(* the builder operations on it, and its two encodings, the compact binary *)
(* one (Serialize / Deserialize) and JSON (ToJSON / FromJSON).             *)
(*                                                                         *)
(* A slate changes hands: whoever holds it changes fields, adds inputs,    *)
(* outputs and signatures, and sends it in one of the two encodings; the   *)
(* other side decodes it and goes on from what it decoded.                 *)
(*                                                                         *)
(* Data is abstracted: an id, an offset, a signature, a commitment, a      *)
(* range proof and a payment proof are small numbers, and the binary       *)
(* encoding is a sequence of tokens, one per Append of Serialize (a        *)
(* signature, a commitment entry and a payment proof each one token, as    *)
(* their own Serialize is not part of Slate.h).  The flag bytes are        *)
(* computed bit by bit as the code does, and the two length prefixes keep  *)
(* their width: (uint8_t)sigs.size() and (uint16_t)commitments.size().     *)
(***************************************************************************)
EXTENDS Naturals, Sequences, TLC

CONSTANTS
    SlateIds,        \* slate uuids
    Offsets,         \* blinding factor offsets; ZERO_OFFSET is the null one
    ZERO_OFFSET,
    Amounts,         \* values of amount, fee and ttl (0 means "absent")
    Participants,    \* values of numParticipants
    Heights,         \* lock heights
    SigValues,       \* signatures (excess, nonce, partial)
    Commits,         \* commitments
    RangeProofs,     \* output range proofs
    PaymentProofs,   \* payment proofs
    NoValue,         \* std::nullopt
    SIGS_LEN_MOD,    \* 2^8: sigs.size() is written as a uint8_t
    COMS_LEN_MOD,    \* 2^16: commitments.size() is written as a uint16_t
    MaxSigs,         \* bound on the signatures a slate collects
    MaxComs          \* bound on its inputs and outputs

ASSUME SlateAssumptions ==
    /\ ZERO_OFFSET \in Offsets
    /\ 0 \in Amounts /\ 2 \in Participants
    /\ SIGS_LEN_MOD \in Nat \ {0} /\ COMS_LEN_MOD \in Nat \ {0}
    /\ MaxSigs \in Nat /\ MaxComs \in Nat
    /\ NoValue \notin Heights \cup {0}   \* std::nullopt is no lock height

(* EKernelFeatures. *)
DEFAULT_KERNEL == 0
COINBASE_KERNEL == 1
HEIGHT_LOCKED == 2
NO_RECENT_DUPLICATE == 3
KernelFeatures == {DEFAULT_KERNEL, COINBASE_KERNEL, HEIGHT_LOCKED, NO_RECENT_DUPLICATE}

(* ESlateStage byte codes of the standard flow. *)
STANDARD_SENT == 1
STANDARD_RECEIVED == 2
STANDARD_FINALIZED == 3

(* Lines 89-106: the fields.  featArgs is featureArgsOpt, a record holding *)
(* lockHeightOpt; a commitment entry holds the features-free pair of its   *)
(* commitment and its optional range proof (proofOpt).                     *)
ComEntries == [commit : Commits, proof : RangeProofs \cup {NoValue}]
FeatureArgs == [lockHeight : Heights \cup {NoValue}]

(* Lines 108-125: a new slate. *)
NewSlate(id) ==
    [id |-> id, stage |-> STANDARD_SENT, version |-> 4, blockVersion |-> 4,
     numParts |-> 2, ttl |-> 0, feat |-> DEFAULT_KERNEL, featArgs |-> NoValue,
     offset |-> ZERO_OFFSET, amount |-> 0, fee |-> 0, sigs |-> <<>>, coms |-> <<>>,
     proof |-> NoValue]

(* Line 147. *)
GetLockHeight(s) ==
    IF s.featArgs # NoValue /\ s.featArgs.lockHeight # NoValue THEN s.featArgs.lockHeight ELSE 0

Bit(b) == IF b THEN 1 ELSE 0
IsSet(byte, k) == (byte \div (2 ^ k)) % 2 = 1

(* OptionalFieldStatus (lines 33-62): ToByte and FromByte. *)
FieldStatusToByte(f) ==
    Bit(f.num_parts) + 2 * Bit(f.amt) + 4 * Bit(f.fee) + 8 * Bit(f.feat) + 16 * Bit(f.ttl)
(* Mutant of FieldStatusFromByte: the amt and fee bits swapped.           *)
FieldStatusFromByteSwapped(byte) ==
    [num_parts |-> IsSet(byte, 0), amt |-> IsSet(byte, 2), fee |-> IsSet(byte, 1),
     feat |-> IsSet(byte, 3), ttl |-> IsSet(byte, 4)]
FieldStatusFromByte(byte) ==
    [num_parts |-> IsSet(byte, 0), amt |-> IsSet(byte, 1), fee |-> IsSet(byte, 2),
     feat |-> IsSet(byte, 3), ttl |-> IsSet(byte, 4)]

(* OptionalStructStatus (lines 66-86). *)
StructStatusToByte(st) == Bit(st.coms) + 2 * Bit(st.proof)
StructStatusFromByte(byte) == [coms |-> IsSet(byte, 0), proof |-> IsSet(byte, 1)]

Opt(b, x) == IF b THEN <<x>> ELSE <<>>

(* Serialize, lines 225-288. *)
Serialize(s) ==
    LET f == [num_parts |-> s.numParts # 2, amt |-> s.amount # 0, fee |-> s.fee # 0,
              feat |-> s.feat # DEFAULT_KERNEL, ttl |-> s.ttl # 0]
        st == [coms |-> s.coms # <<>>, proof |-> s.proof # NoValue]
    IN  <<s.version, s.blockVersion, s.id, s.stage, s.offset, FieldStatusToByte(f)>>
        \o Opt(f.num_parts, s.numParts) \o Opt(f.amt, s.amount) \o Opt(f.fee, s.fee)
        \o Opt(f.feat, s.feat) \o Opt(f.ttl, s.ttl)
        \o <<Len(s.sigs) % SIGS_LEN_MOD>> \o s.sigs
        \o <<StructStatusToByte(st)>>
        \o (IF st.coms THEN <<Len(s.coms) % COMS_LEN_MOD>> \o s.coms ELSE <<>>)
        \o Opt(st.proof, s.proof)
        \o Opt(s.feat = HEIGHT_LOCKED, GetLockHeight(s))

(* ByteBuffer throws DeserializationException on a read past the end.      *)
DeserializationError == [error |-> "DeserializationException"]

(* Deserialize, lines 290-356: each field is read at the position the      *)
(* fields before it leave; a read past the end fails the whole call.       *)
Deserialize(b) ==
    LET At(k) == IF k \in 1..Len(b) THEN b[k] ELSE 0
        f == FieldStatusFromByte(At(6))
        pAmt == 7 + Bit(f.num_parts)
        pFee == pAmt + Bit(f.amt)
        pFeat == pFee + Bit(f.fee)
        pTtl == pFeat + Bit(f.feat)
        pSigs == pTtl + Bit(f.ttl)
        numSigs == At(pSigs)
        pStruct == pSigs + 1 + numSigs
        st == StructStatusFromByte(At(pStruct))
        numComs == IF st.coms THEN At(pStruct + 1) ELSE 0
        pProof == pStruct + 1 + Bit(st.coms) + numComs
        pLock == pProof + Bit(st.proof)
        feat == IF f.feat THEN At(pFeat) ELSE DEFAULT_KERNEL
        pEnd == pLock + Bit(feat = HEIGHT_LOCKED)
    IN  IF pEnd - 1 > Len(b) THEN DeserializationError
        ELSE [id |-> At(3), stage |-> At(4), version |-> At(1), blockVersion |-> At(2),
              numParts |-> IF f.num_parts THEN At(7) ELSE 2,
              amount |-> IF f.amt THEN At(pAmt) ELSE 0,
              fee |-> IF f.fee THEN At(pFee) ELSE 0,
              feat |-> feat,
              ttl |-> IF f.ttl THEN At(pTtl) ELSE 0,
              offset |-> At(5),
              sigs |-> SubSeq(b, pSigs + 1, pSigs + numSigs),
              coms |-> SubSeq(b, pStruct + 2, pStruct + 1 + numComs),
              proof |-> IF st.proof THEN At(pProof) ELSE NoValue,
              featArgs |-> IF feat = DEFAULT_KERNEL THEN NoValue
                           ELSE [lockHeight |-> IF feat = HEIGHT_LOCKED THEN At(pLock)
                                                ELSE NoValue]]

(* A JSON object is a function from its keys to its values; "ver" is the  *)
(* pair that "{}:{}" formats and Split(":") takes apart again.             *)
(* ToJSON, lines 358-410: the keys it always sets, the ones it sets only   *)
(* when the field differs from its default, and the value of each.         *)
OptionalKeyPresent(s) ==
    [off |-> s.offset # ZERO_OFFSET, num_parts |-> s.numParts # 2, fee |-> s.fee # 0,
     amt |-> s.amount # 0, feat |-> s.feat # DEFAULT_KERNEL,
     feat_args |-> s.feat # DEFAULT_KERNEL, ttl |-> s.ttl # 0, proof |-> s.proof # NoValue]
JsonKeys(s) ==
    {"ver", "id", "sta", "sigs", "coms"}
    \cup {k \in DOMAIN OptionalKeyPresent(s) : OptionalKeyPresent(s)[k]}
ToJSON(s) ==
    [k \in JsonKeys(s) |->
        CASE k = "ver" -> <<s.version, s.blockVersion>>
          [] k = "id" -> s.id
          [] k = "sta" -> s.stage
          [] k = "off" -> s.offset
          [] k = "num_parts" -> s.numParts
          [] k = "fee" -> s.fee
          [] k = "amt" -> s.amount
          [] k = "feat" -> s.feat
          [] k = "feat_args" -> s.featArgs
          [] k = "ttl" -> s.ttl
          [] k = "sigs" -> s.sigs
          [] k = "coms" -> s.coms
          [] k = "proof" -> s.proof]

GetOpt(j, k, default) == IF k \in DOMAIN j THEN j[k] ELSE default

(* FromJSON, lines 412-460: optional keys take their defaults; feat_args   *)
(* is not read (line 439).                                                 *)
FromJSON(j) ==
    [id |-> j["id"], stage |-> j["sta"], version |-> j["ver"][1], blockVersion |-> j["ver"][2],
     offset |-> GetOpt(j, "off", ZERO_OFFSET),
     numParts |-> GetOpt(j, "num_parts", 2),
     fee |-> GetOpt(j, "fee", 0),
     amount |-> GetOpt(j, "amt", 0),
     feat |-> GetOpt(j, "feat", DEFAULT_KERNEL),
     featArgs |-> NoValue,
     ttl |-> GetOpt(j, "ttl", 0),
     sigs |-> j["sigs"], coms |-> GetOpt(j, "coms", <<>>),
     proof |-> GetOpt(j, "proof", NoValue)]

-----------------------------------------------------------------------------
VARIABLES
    slate,      \* the slate in the hands of the wallet holding it
    wire,       \* the encoded slate in transit, or NoValue
    sent,       \* the slate as it was when it was encoded
    received    \* [fmt, slate]: what the other side decoded, or NoValue

vars == <<slate, wire, sent, received>>

Init ==
    /\ slate \in {NewSlate(id) : id \in SlateIds}
    /\ wire = NoValue
    /\ sent = NoValue
    /\ received = NoValue

(* Only the wallet holding the slate changes it, so nothing is in transit; *)
(* the record of the last transfer is dropped.                             *)
Build(s) ==
    /\ wire = NoValue
    /\ slate' = s
    /\ wire' = NoValue
    /\ sent' = NoValue
    /\ received' = NoValue

(* Builders assign the public fields (lines 89-106). *)
SetAmounts ==
    \E a, fe, t \in Amounts, n \in Participants, o \in Offsets :
        Build([slate EXCEPT !.amount = a, !.fee = fe, !.ttl = t, !.numParts = n, !.offset = o])

(* A kernel with features other than the default carries feature args,    *)
(* the lock height for a height-locked one (the assert of line 383).       *)
SetStage ==
    \E st \in {STANDARD_SENT, STANDARD_RECEIVED, STANDARD_FINALIZED} :
        Build([slate EXCEPT !.stage = st])

SetKernelFeatures ==
    \E k \in KernelFeatures, h \in Heights :
        Build([slate EXCEPT !.feat = k,
                            !.featArgs = IF k = DEFAULT_KERNEL THEN NoValue
                                         ELSE [lockHeight |-> IF k = HEIGHT_LOCKED THEN h
                                                              ELSE NoValue]])

CommitIndex(c) == {m \in DOMAIN slate.coms : slate.coms[m].commit = c}

(* AddInput, lines 177-187: a commitment already present is not added.    *)
AddInput ==
    \E c \in Commits :
        /\ Len(slate.coms) < MaxComs
        /\ CommitIndex(c) = {}
        /\ Build([slate EXCEPT !.coms = Append(@, [commit |-> c, proof |-> NoValue])])

(* AddOutput, lines 189-203: a commitment already present as an input     *)
(* gets the range proof; one already an output is left as it is.           *)
AddOutput ==
    \E c \in Commits, p \in RangeProofs :
        IF CommitIndex(c) # {}
        THEN LET m == CHOOSE m \in CommitIndex(c) : TRUE IN
             /\ slate.coms[m].proof = NoValue
             /\ Build([slate EXCEPT !.coms[m].proof = p])
        ELSE /\ Len(slate.coms) < MaxComs
             /\ Build([slate EXCEPT !.coms = Append(@, [commit |-> c, proof |-> p])])

AddSignature ==
    \E g \in SigValues :
        /\ Len(slate.sigs) < MaxSigs
        /\ Build([slate EXCEPT !.sigs = Append(@, g)])

SetPaymentProof ==
    \E pp \in PaymentProofs : Build([slate EXCEPT !.proof = pp])

SendBinary ==
    /\ wire = NoValue
    /\ wire' = [fmt |-> "binary", data |-> Serialize(slate)]
    /\ sent' = slate
    /\ received' = NoValue
    /\ UNCHANGED slate

(* ToJSON asserts that a kernel with features has its feature args (line *)
(* 383); without them .value() throws and nothing is sent.                 *)
HasFeatureArgs(s) == s.feat # DEFAULT_KERNEL => s.featArgs # NoValue

SendJSON ==
    /\ wire = NoValue
    /\ HasFeatureArgs(slate)
    /\ wire' = [fmt |-> "json", data |-> ToJSON(slate)]
    /\ sent' = slate
    /\ received' = NoValue
    /\ UNCHANGED slate

(* The other side decodes the slate and goes on with what it decoded; a   *)
(* decoding error leaves the slate with the sender.                        *)
Receive ==
    /\ wire # NoValue
    /\ LET r == IF wire.fmt = "binary" THEN Deserialize(wire.data) ELSE FromJSON(wire.data)
       IN  /\ received' = [fmt |-> wire.fmt, slate |-> r]
           /\ slate' = IF r = DeserializationError THEN slate ELSE r
    /\ wire' = NoValue
    /\ UNCHANGED sent

Next ==
    \/ SetAmounts \/ SetStage \/ SetKernelFeatures \/ AddInput \/ AddOutput \/ AddSignature
    \/ SetPaymentProof \/ SendBinary \/ SendJSON \/ Receive

Spec == Init /\ [][Next]_vars

-----------------------------------------------------------------------------
(* Whatever a wallet builds, Deserialize gives the other side exactly the *)
(* slate Serialize was given, provided it has the feature args its kernel *)
(* needs: the two agree on the optional-field flags, the order of the      *)
(* fields, the length prefixes and the trailing lock height.               *)
BinaryRoundTrip ==
    (received # NoValue /\ received.fmt = "binary" /\ HasFeatureArgs(sent))
        => received.slate = sent

(* The same for the JSON encoding: FromJSON gives back what ToJSON was     *)
(* given.                                                                  *)
JsonRoundTrip ==
    (received # NoValue /\ received.fmt = "json") => received.slate = sent

=============================================================================
