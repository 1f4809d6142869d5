-------------------------- MODULE SlateCodecProofs --------------------------
(* Proofs about SlateCodec: the binary encoding of a slate decodes to the *)
(* slate it encodes, for every width of the length prefixes that the      *)
(* bounds on signatures and commitments fit in, and the JSON encoding     *)
(* loses exactly the feature args. The argument follows Serialize layer   *)
(* by layer: the length of each layer and the values written into it,     *)
(* then the positions Deserialize computes, which are shown to be the     *)
(* ends of those layers.                                                  *)

EXTENDS SlateCodec, SequenceTheorems, TLAPS

(* The flags the field-status byte packs.                                 *)
FieldFlags == [num_parts : BOOLEAN, amt : BOOLEAN, fee : BOOLEAN, feat : BOOLEAN, ttl : BOOLEAN]

(* The powers of two FieldStatus and StructStatus use as bit masks.       *)
LEMMA Pow2 == 2^0 = 1 /\ 2^1 = 2 /\ 2^2 = 4 /\ 2^3 = 8 /\ 2^4 = 16
BY SMT

(* Reading the field-status byte gives back the flags that were packed    *)
(* into it (the optional-field byte of Slate::Serialize and               *)
(* Slate::Deserialize).                                                   *)
LEMMA FieldStatusRoundTrip ==
    ASSUME NEW f \in FieldFlags
    PROVE  FieldStatusFromByte(FieldStatusToByte(f)) = f
<1>1. FieldStatusToByte(f) \in Nat
  BY DEF FieldStatusToByte, Bit
<1>. QED
  BY Pow2 DEF FieldStatusFromByte, FieldStatusToByte, Bit, IsSet, FieldFlags
(* The values a serialized slate holds, one per element of the byte       *)
(* sequence.                                                              *)
Elems == Nat \cup SlateIds \cup Offsets \cup Amounts \cup Participants \cup Heights
         \cup SigValues \cup ComEntries \cup PaymentProofs

(* The slates a wallet can build: every field of its type, the lists of   *)
(* any length.                                                            *)
Slates == [id : SlateIds, stage : Nat, version : Nat, blockVersion : Nat,
           numParts : Participants, ttl : Amounts, feat : KernelFeatures,
           featArgs : [lockHeight : Heights \cup {0, NoValue}] \cup {NoValue}, offset : Offsets,
           amount : Amounts, fee : Amounts, sigs : Seq(SigValues),
           coms : Seq(ComEntries), proof : PaymentProofs \cup {NoValue}]

(* Length and elements of a concatenation of two sequences.               *)
LEMMA ConcatAt ==
    ASSUME NEW S, NEW u \in Seq(S), NEW v \in Seq(S)
    PROVE  /\ u \o v \in Seq(S)
           /\ Len(u \o v) = Len(u) + Len(v)
           /\ \A i \in 1..Len(u) : (u \o v)[i] = u[i]
           /\ \A j \in 1..Len(v) : (u \o v)[Len(u) + j] = v[j]
OBVIOUS

(* An optional field is one element when present and none when absent.    *)
LEMMA OptShape ==
    ASSUME NEW S, NEW b \in BOOLEAN, NEW x \in S
    PROVE  /\ Opt(b, x) \in Seq(S)
           /\ Len(Opt(b, x)) = Bit(b)
           /\ b => Opt(b, x)[1] = x
BY DEF Opt, Bit

(* The layers of Serialize: L0 is the fixed header, and each next layer   *)
(* appends one field or list in the order Slate::Serialize writes them.   *)
Flags(s) == [num_parts |-> s.numParts # 2, amt |-> s.amount # 0, fee |-> s.fee # 0,
             feat |-> s.feat # DEFAULT_KERNEL, ttl |-> s.ttl # 0]
Structs(s) == [coms |-> s.coms # <<>>, proof |-> s.proof # NoValue]
L0(s) == <<s.version, s.blockVersion, s.id, s.stage, s.offset, FieldStatusToByte(Flags(s))>>
L1(s) == L0(s) \o Opt(Flags(s).num_parts, s.numParts)
L2(s) == L1(s) \o Opt(Flags(s).amt, s.amount)
L3(s) == L2(s) \o Opt(Flags(s).fee, s.fee)
L4(s) == L3(s) \o Opt(Flags(s).feat, s.feat)
L5(s) == L4(s) \o Opt(Flags(s).ttl, s.ttl)
L6(s) == L5(s) \o <<Len(s.sigs) % SIGS_LEN_MOD>>
L7(s) == L6(s) \o s.sigs
L8(s) == L7(s) \o <<StructStatusToByte(Structs(s))>>
L9(s) == L8(s) \o (IF Structs(s).coms THEN <<Len(s.coms) % COMS_LEN_MOD>> \o s.coms ELSE <<>>)
L10(s) == L9(s) \o Opt(Structs(s).proof, s.proof)
L11(s) == L10(s) \o Opt(s.feat = HEIGHT_LOCKED, GetLockHeight(s))

(* Serialize is the last of the layers above.                             *)
LEMMA SerializeLayers == \A s : Serialize(s) = L11(s)
BY DEF Serialize, L11, L10, L9, L8, L7, L6, L5, L4, L3, L2, L1, L0, Flags, Structs

(* u is a prefix of v.                                                    *)
IsPrefix(u, v) == Len(u) <= Len(v) /\ \A i \in 1..Len(u) : v[i] = u[i]

(* Appending to a byte sequence keeps what was there as a prefix.         *)
LEMMA ExtendPrefix ==
    ASSUME NEW u \in Seq(Elems), NEW v \in Seq(Elems)
    PROVE  /\ u \o v \in Seq(Elems)
           /\ Len(u \o v) = Len(u) + Len(v)
           /\ IsPrefix(u, u \o v)
           /\ \A j \in 1..Len(v) : (u \o v)[Len(u) + j] = v[j]
BY ConcatAt, SMTT(30) DEF IsPrefix

(* A prefix of a prefix is a prefix.                                      *)
LEMMA PrefixTrans ==
    ASSUME NEW u \in Seq(Elems), NEW v \in Seq(Elems), NEW w \in Seq(Elems),
           IsPrefix(u, v), IsPrefix(v, w)
    PROVE  IsPrefix(u, w)
BY DEF IsPrefix

(* A length reduced modulo the width of its prefix is still a natural     *)
(* number.                                                                *)
LEMMA ModInNat ==
    ASSUME NEW n \in Nat, NEW k \in Nat \ {0}
    PROVE  n % k \in Nat
BY SMT

(* Every piece Serialize writes is a value the byte sequence may hold.    *)
LEMMA PieceTypes ==
    ASSUME NEW s \in Slates
    PROVE  /\ L0(s) \in Seq(Elems) /\ Len(L0(s)) = 6
           /\ \A b \in BOOLEAN, x \in Elems : Opt(b, x) \in Seq(Elems) /\ Len(Opt(b, x)) = Bit(b)
                                             /\ (b => Opt(b, x)[1] = x)
           /\ s.sigs \in Seq(Elems) /\ s.coms \in Seq(Elems)
           /\ s.numParts \in Elems /\ s.amount \in Elems /\ s.fee \in Elems
           /\ s.feat \in Elems /\ s.ttl \in Elems /\ GetLockHeight(s) \in Elems
           /\ Len(s.sigs) % SIGS_LEN_MOD \in Elems /\ Len(s.coms) % COMS_LEN_MOD \in Elems
           /\ StructStatusToByte(Structs(s)) \in Elems
<1>1. FieldStatusToByte(Flags(s)) \in Nat
  BY DEF FieldStatusToByte, Bit
<1>2. L0(s) \in Seq(Elems) /\ Len(L0(s)) = 6
  BY <1>1 DEF L0, Slates, Elems
<1>3. \A b \in BOOLEAN, x \in Elems : Opt(b, x) \in Seq(Elems) /\ Len(Opt(b, x)) = Bit(b)
                                     /\ (b => Opt(b, x)[1] = x)
  BY DEF Opt, Bit
<1>4. s.sigs \in Seq(Elems) /\ s.coms \in Seq(Elems)
  <2>1. SigValues \subseteq Elems /\ ComEntries \subseteq Elems
    BY DEF Elems
  <2>. QED
    BY <2>1, SeqMonotonic DEF Slates
<1>5. GetLockHeight(s) \in Elems
  BY DEF GetLockHeight, Slates, Elems
<1>6. s.numParts \in Elems /\ s.amount \in Elems /\ s.fee \in Elems /\ s.ttl \in Elems
  BY DEF Slates, Elems
<1>7. s.feat \in Elems
  BY DEF Slates, Elems, KernelFeatures, DEFAULT_KERNEL, COINBASE_KERNEL, HEIGHT_LOCKED,
         NO_RECENT_DUPLICATE
<1>8. Len(s.sigs) % SIGS_LEN_MOD \in Elems /\ Len(s.coms) % COMS_LEN_MOD \in Elems
  <2>1. Len(s.sigs) \in Nat /\ Len(s.coms) \in Nat
    BY <1>4, LenProperties
  <2>2. Len(s.sigs) % SIGS_LEN_MOD \in Nat /\ Len(s.coms) % COMS_LEN_MOD \in Nat
    BY <2>1, SlateAssumptions, ModInNat
  <2>. QED
    BY <2>2 DEF Elems
<1>9. StructStatusToByte(Structs(s)) \in Elems
  BY DEF StructStatusToByte, Bit, Elems
<1>. QED
  BY <1>2, <1>3, <1>4, <1>5, <1>6, <1>7, <1>8, <1>9

(* Reading the struct-status byte gives back the flags that were packed   *)
(* into it.                                                               *)
LEMMA StructStatusRoundTrip ==
    ASSUME NEW c \in BOOLEAN, NEW p \in BOOLEAN
    PROVE  StructStatusFromByte(StructStatusToByte([coms |-> c, proof |-> p])) = [coms |-> c, proof |-> p]
BY Pow2 DEF StructStatusFromByte, StructStatusToByte, Bit, IsSet

(* The elements of a layer are found where that layer ends in any longer  *)
(* encoding.                                                              *)
LEMMA PrefixAt ==
    ASSUME NEW u \in Seq(Elems), NEW v \in Seq(Elems), NEW w \in Seq(Elems),
           IsPrefix(u \o v, w)
    PROVE  \A j \in 1..Len(v) : w[Len(u) + j] = v[j]
<1>. TAKE j \in 1..Len(v)
<1>1. Len(u \o v) = Len(u) + Len(v) /\ (u \o v)[Len(u) + j] = v[j]
  BY ConcatAt
<1>2. Len(u) + j \in 1..Len(u \o v)
  BY <1>1
<1>3. w[Len(u) + j] = (u \o v)[Len(u) + j]
  BY <1>2 DEF IsPrefix
<1>. QED
  BY <1>1, <1>3

(* Appending an optional field: its length and the prefix it keeps.       *)
LEMMA OptLayer ==
    ASSUME NEW u \in Seq(Elems), NEW b \in BOOLEAN, NEW x \in Elems
    PROVE  /\ u \o Opt(b, x) \in Seq(Elems)
           /\ Len(u \o Opt(b, x)) = Len(u) + Bit(b)
           /\ IsPrefix(u, u \o Opt(b, x))
<1>1. Opt(b, x) \in Seq(Elems) /\ Len(Opt(b, x)) = Bit(b)
  BY OptShape
<1>. QED
  BY <1>1, ExtendPrefix

(* Appending a single element: its length, the prefix it keeps and where  *)
(* the element sits.                                                      *)
LEMMA SingleLayer ==
    ASSUME NEW u \in Seq(Elems), NEW x \in Elems
    PROVE  /\ u \o <<x>> \in Seq(Elems)
           /\ Len(u \o <<x>>) = Len(u) + 1
           /\ IsPrefix(u, u \o <<x>>)
           /\ (u \o <<x>>)[Len(u) + 1] = x
<1>1. <<x>> \in Seq(Elems) /\ Len(<<x>>) = 1 /\ <<x>>[1] = x
  OBVIOUS
<1>2. /\ u \o <<x>> \in Seq(Elems)
      /\ Len(u \o <<x>>) = Len(u) + 1
      /\ IsPrefix(u, u \o <<x>>)
      /\ \A j \in 1..1 : (u \o <<x>>)[Len(u) + j] = <<x>>[j]
  BY <1>1, ExtendPrefix
<1>. QED
  BY <1>1, <1>2

(* The commitments part of the encoding.                                  *)
ComsPart(s) == IF Structs(s).coms THEN <<Len(s.coms) % COMS_LEN_MOD>> \o s.coms ELSE <<>>

(* The commitments part is a count followed by the entries, or nothing at *)
(* all.                                                                   *)
LEMMA ComsPartShape ==
    ASSUME NEW s \in Slates
    PROVE  /\ ComsPart(s) \in Seq(Elems)
           /\ Len(ComsPart(s)) = Bit(Structs(s).coms) + Len(s.coms)
<1>1. /\ s.coms \in Seq(Elems)
      /\ Len(s.coms) % COMS_LEN_MOD \in Elems
  BY PieceTypes
<1>2. CASE Structs(s).coms
  BY <1>1, <1>2, ConcatAt DEF ComsPart, Bit
<1>3. CASE ~Structs(s).coms
  <2>1. s.coms = <<>>
    BY <1>3 DEF Structs
  <2>. QED
    BY <2>1, <1>3 DEF ComsPart, Bit
<1>. QED
  BY <1>2, <1>3

(* The length of each layer of Serialize, from the flags and the list     *)
(* lengths.                                                               *)
LEMMA LayerLengths ==
    ASSUME NEW s \in Slates
    PROVE  /\ L11(s) \in Seq(Elems)
           /\ Len(L0(s)) = 6
           /\ Len(L1(s)) = Len(L0(s)) + Bit(Flags(s).num_parts)
           /\ Len(L2(s)) = Len(L1(s)) + Bit(Flags(s).amt)
           /\ Len(L3(s)) = Len(L2(s)) + Bit(Flags(s).fee)
           /\ Len(L4(s)) = Len(L3(s)) + Bit(Flags(s).feat)
           /\ Len(L5(s)) = Len(L4(s)) + Bit(Flags(s).ttl)
           /\ Len(L6(s)) = Len(L5(s)) + 1
           /\ Len(L7(s)) = Len(L6(s)) + Len(s.sigs)
           /\ Len(L8(s)) = Len(L7(s)) + 1
           /\ Len(L9(s)) = Len(L8(s)) + Bit(Structs(s).coms) + Len(s.coms)
           /\ Len(L10(s)) = Len(L9(s)) + Bit(Structs(s).proof)
           /\ Len(L11(s)) = Len(L10(s)) + Bit(s.feat = HEIGHT_LOCKED)
           /\ IsPrefix(L1(s), L11(s)) /\ IsPrefix(L2(s), L11(s))
           /\ IsPrefix(L3(s), L11(s)) /\ IsPrefix(L4(s), L11(s))
           /\ IsPrefix(L5(s), L11(s)) /\ IsPrefix(L6(s), L11(s))
           /\ IsPrefix(L7(s), L11(s)) /\ IsPrefix(L8(s), L11(s))
           /\ IsPrefix(L9(s), L11(s)) /\ IsPrefix(L10(s), L11(s))
           /\ IsPrefix(L0(s), L11(s))
           /\ L0(s) \in Seq(Elems) /\ L1(s) \in Seq(Elems) /\ L2(s) \in Seq(Elems)
           /\ L3(s) \in Seq(Elems) /\ L4(s) \in Seq(Elems) /\ L5(s) \in Seq(Elems)
           /\ L6(s) \in Seq(Elems) /\ L7(s) \in Seq(Elems) /\ L8(s) \in Seq(Elems)
           /\ L9(s) \in Seq(Elems) /\ L10(s) \in Seq(Elems)
<1>1. /\ L0(s) \in Seq(Elems) /\ Len(L0(s)) = 6
      /\ \A b \in BOOLEAN, x \in Elems : Opt(b, x) \in Seq(Elems) /\ Len(Opt(b, x)) = Bit(b)
      /\ s.sigs \in Seq(Elems)
      /\ s.numParts \in Elems /\ s.amount \in Elems /\ s.fee \in Elems
      /\ s.feat \in Elems /\ s.ttl \in Elems /\ GetLockHeight(s) \in Elems /\ s.proof \in Elems \cup {NoValue}
      /\ Len(s.sigs) % SIGS_LEN_MOD \in Elems
      /\ StructStatusToByte(Structs(s)) \in Elems
  BY PieceTypes DEF Slates, Elems
<1>2. Flags(s).num_parts \in BOOLEAN /\ Flags(s).amt \in BOOLEAN /\ Flags(s).fee \in BOOLEAN
      /\ Flags(s).feat \in BOOLEAN /\ Flags(s).ttl \in BOOLEAN
      /\ Structs(s).proof \in BOOLEAN /\ (s.feat = HEIGHT_LOCKED) \in BOOLEAN
  BY DEF Flags, Structs
<1>3. ComsPart(s) \in Seq(Elems) /\ Len(ComsPart(s)) = Bit(Structs(s).coms) + Len(s.coms)
  BY ComsPartShape
<1>4. Opt(Structs(s).proof, s.proof) \in Seq(Elems) /\ Len(Opt(Structs(s).proof, s.proof)) = Bit(Structs(s).proof)
  <2>1. CASE s.proof = NoValue
    <3>1. Structs(s).proof = FALSE
      BY <2>1 DEF Structs
    <3>2. Opt(FALSE, s.proof) = <<>> /\ Bit(FALSE) = 0
      BY DEF Opt, Bit
    <3>. QED
      BY <3>1 DEF Opt, Bit
  <2>2. CASE s.proof # NoValue
    <3>1. s.proof \in Elems
      BY <2>2 DEF Slates, Elems
    <3>. QED
      BY <2>2, <3>1, OptShape DEF Structs
  <2>. QED
    BY <2>1, <2>2
<1>l1. L1(s) \in Seq(Elems) /\ Len(L1(s)) = Len(L0(s)) + Bit(Flags(s).num_parts) /\ IsPrefix(L0(s), L1(s))
  BY <1>1, <1>1, <1>2, OptLayer DEF L1
<1>l2. L2(s) \in Seq(Elems) /\ Len(L2(s)) = Len(L1(s)) + Bit(Flags(s).amt) /\ IsPrefix(L1(s), L2(s))
  BY <1>l1, <1>1, <1>2, OptLayer DEF L2
<1>l3. L3(s) \in Seq(Elems) /\ Len(L3(s)) = Len(L2(s)) + Bit(Flags(s).fee) /\ IsPrefix(L2(s), L3(s))
  BY <1>l2, <1>1, <1>2, OptLayer DEF L3
<1>l4. L4(s) \in Seq(Elems) /\ Len(L4(s)) = Len(L3(s)) + Bit(Flags(s).feat) /\ IsPrefix(L3(s), L4(s))
  BY <1>l3, <1>1, <1>2, OptLayer DEF L4
<1>l5. L5(s) \in Seq(Elems) /\ Len(L5(s)) = Len(L4(s)) + Bit(Flags(s).ttl) /\ IsPrefix(L4(s), L5(s))
  BY <1>l4, <1>1, <1>2, OptLayer DEF L5
<1>l6. L6(s) \in Seq(Elems) /\ Len(L6(s)) = Len(L5(s)) + 1 /\ IsPrefix(L5(s), L6(s))
  BY <1>l5, <1>1, SingleLayer DEF L6
<1>l7. L7(s) \in Seq(Elems) /\ Len(L7(s)) = Len(L6(s)) + Len(s.sigs) /\ IsPrefix(L6(s), L7(s))
  BY <1>l6, <1>1, ExtendPrefix DEF L7
<1>l8. L8(s) \in Seq(Elems) /\ Len(L8(s)) = Len(L7(s)) + 1 /\ IsPrefix(L7(s), L8(s))
  BY <1>l7, <1>1, SingleLayer DEF L8
<1>l9. L9(s) \in Seq(Elems) /\ Len(L9(s)) = Len(L8(s)) + Bit(Structs(s).coms) + Len(s.coms)
       /\ IsPrefix(L8(s), L9(s))
  <2>1. L9(s) = L8(s) \o ComsPart(s)
    BY DEF L9, ComsPart
  <2>2. /\ L8(s) \o ComsPart(s) \in Seq(Elems)
        /\ Len(L8(s) \o ComsPart(s)) = Len(L8(s)) + Len(ComsPart(s))
        /\ IsPrefix(L8(s), L8(s) \o ComsPart(s))
    BY <1>l8, <1>3, ExtendPrefix
  <2>3. L9(s) \in Seq(Elems) /\ IsPrefix(L8(s), L9(s))
    BY <2>1, <2>2
  <2>4. Len(L9(s)) = Len(L8(s)) + Len(ComsPart(s))
    BY <2>1, <2>2
  <2>5. Len(L8(s)) \in Nat /\ Bit(Structs(s).coms) \in Nat /\ Len(s.coms) \in Nat
    BY <1>l8, <1>1 DEF Bit
  <2>. QED
    BY <2>3, <2>4, <2>5, <1>3
<1>l10. L10(s) \in Seq(Elems) /\ Len(L10(s)) = Len(L9(s)) + Bit(Structs(s).proof) /\ IsPrefix(L9(s), L10(s))
  BY <1>l9, <1>4, ExtendPrefix DEF L10
<1>l11. L11(s) \in Seq(Elems) /\ Len(L11(s)) = Len(L10(s)) + Bit(s.feat = HEIGHT_LOCKED)
        /\ IsPrefix(L10(s), L11(s))
  BY <1>l10, <1>1, <1>2, OptLayer DEF L11
<1>p10. IsPrefix(L9(s), L11(s))
  BY <1>l9, <1>l10, <1>l11, PrefixTrans
<1>p9. IsPrefix(L8(s), L11(s))
  BY <1>l8, <1>l9, <1>l11, <1>p10, PrefixTrans
<1>p8. IsPrefix(L7(s), L11(s))
  BY <1>l7, <1>l8, <1>l11, <1>p9, PrefixTrans
<1>p7. IsPrefix(L6(s), L11(s))
  BY <1>l6, <1>l7, <1>l11, <1>p8, PrefixTrans
<1>p6. IsPrefix(L5(s), L11(s))
  BY <1>l5, <1>l6, <1>l11, <1>p7, PrefixTrans
<1>p5. IsPrefix(L4(s), L11(s))
  BY <1>l4, <1>l5, <1>l11, <1>p6, PrefixTrans
<1>p4. IsPrefix(L3(s), L11(s))
  BY <1>l3, <1>l4, <1>l11, <1>p5, PrefixTrans
<1>p3. IsPrefix(L2(s), L11(s))
  BY <1>l2, <1>l3, <1>l11, <1>p4, PrefixTrans
<1>p2. IsPrefix(L1(s), L11(s))
  BY <1>l1, <1>l2, <1>l11, <1>p3, PrefixTrans
<1>p1. IsPrefix(L0(s), L11(s))
  BY <1>1, <1>l1, <1>l11, <1>p2, PrefixTrans
<1>. QED
  BY <1>p1, <1>1, <1>l1, <1>l2, <1>l3, <1>l4, <1>l5, <1>l6, <1>l7, <1>l8, <1>l9, <1>l10, <1>l11,
     <1>p2, <1>p3, <1>p4, <1>p5, <1>p6, <1>p7, <1>p8, <1>p9, <1>p10

(* An element appended at some layer is found right after that layer in   *)
(* the whole encoding.                                                    *)
LEMMA SingleAt ==
    ASSUME NEW u \in Seq(Elems), NEW x \in Elems, NEW w \in Seq(Elems),
           IsPrefix(u \o <<x>>, w)
    PROVE  w[Len(u) + 1] = x
<1>1. <<x>> \in Seq(Elems) /\ Len(<<x>>) = 1 /\ <<x>>[1] = x
  OBVIOUS
<1>2. \A j \in 1..Len(<<x>>) : w[Len(u) + j] = <<x>>[j]
  BY <1>1, PrefixAt
<1>. QED
  BY <1>1, <1>2

(* A present optional field is found right after the layer before it.     *)
LEMMA OptAt ==
    ASSUME NEW u \in Seq(Elems), NEW flag \in BOOLEAN, NEW x \in Elems, NEW w \in Seq(Elems),
           IsPrefix(u \o Opt(flag, x), w), flag
    PROVE  w[Len(u) + 1] = x
<1>1. Opt(flag, x) = <<x>>
  BY DEF Opt
<1>. QED
  BY <1>1, SingleAt

(* What Serialize writes at each position of the encoding.                *)
LEMMA LayerValues ==
    ASSUME NEW s \in Slates
    PROVE  LET b == L11(s) IN
           /\ b[1] = s.version /\ b[2] = s.blockVersion /\ b[3] = s.id
           /\ b[4] = s.stage /\ b[5] = s.offset /\ b[6] = FieldStatusToByte(Flags(s))
           /\ Flags(s).num_parts => b[Len(L0(s)) + 1] = s.numParts
           /\ Flags(s).amt => b[Len(L1(s)) + 1] = s.amount
           /\ Flags(s).fee => b[Len(L2(s)) + 1] = s.fee
           /\ Flags(s).feat => b[Len(L3(s)) + 1] = s.feat
           /\ Flags(s).ttl => b[Len(L4(s)) + 1] = s.ttl
           /\ b[Len(L5(s)) + 1] = Len(s.sigs) % SIGS_LEN_MOD
           /\ \A j \in 1..Len(s.sigs) : b[Len(L6(s)) + j] = s.sigs[j]
           /\ b[Len(L7(s)) + 1] = StructStatusToByte(Structs(s))
           /\ Structs(s).coms => b[Len(L8(s)) + 1] = Len(s.coms) % COMS_LEN_MOD
           /\ Structs(s).coms => \A j \in 1..Len(s.coms) : b[Len(L8(s)) + 1 + j] = s.coms[j]
           /\ Structs(s).proof => b[Len(L9(s)) + 1] = s.proof
           /\ s.feat = HEIGHT_LOCKED => b[Len(L10(s)) + 1] = GetLockHeight(s)
<1>. DEFINE b == L11(s)
<1>1. /\ L0(s) \in Seq(Elems) /\ Len(L0(s)) = 6 /\ b \in Seq(Elems)
      /\ s.sigs \in Seq(Elems) /\ s.coms \in Seq(Elems)
      /\ s.numParts \in Elems /\ s.amount \in Elems /\ s.fee \in Elems
      /\ s.feat \in Elems /\ s.ttl \in Elems /\ GetLockHeight(s) \in Elems
      /\ Len(s.sigs) % SIGS_LEN_MOD \in Elems /\ Len(s.coms) % COMS_LEN_MOD \in Elems
      /\ StructStatusToByte(Structs(s)) \in Elems
  BY PieceTypes, LayerLengths
<1>2. /\ IsPrefix(L0(s), b) /\ IsPrefix(L1(s), b) /\ IsPrefix(L2(s), b) /\ IsPrefix(L3(s), b)
      /\ IsPrefix(L4(s), b) /\ IsPrefix(L5(s), b) /\ IsPrefix(L6(s), b) /\ IsPrefix(L7(s), b)
      /\ IsPrefix(L8(s), b) /\ IsPrefix(L9(s), b) /\ IsPrefix(L10(s), b)
      /\ L1(s) \in Seq(Elems) /\ L2(s) \in Seq(Elems) /\ L3(s) \in Seq(Elems)
      /\ L4(s) \in Seq(Elems) /\ L5(s) \in Seq(Elems) /\ L6(s) \in Seq(Elems)
      /\ L7(s) \in Seq(Elems) /\ L8(s) \in Seq(Elems) /\ L9(s) \in Seq(Elems)
      /\ L10(s) \in Seq(Elems)
  BY LayerLengths
<1>3. Flags(s).num_parts \in BOOLEAN /\ Flags(s).amt \in BOOLEAN /\ Flags(s).fee \in BOOLEAN
      /\ Flags(s).feat \in BOOLEAN /\ Flags(s).ttl \in BOOLEAN
      /\ Structs(s).coms \in BOOLEAN /\ Structs(s).proof \in BOOLEAN
  BY DEF Flags, Structs
<1>h. /\ b[1] = s.version /\ b[2] = s.blockVersion /\ b[3] = s.id
      /\ b[4] = s.stage /\ b[5] = s.offset /\ b[6] = FieldStatusToByte(Flags(s))
  <2>1. \A i \in 1..6 : b[i] = L0(s)[i]
    BY <1>1, <1>2 DEF IsPrefix
  <2>2. /\ L0(s)[1] = s.version /\ L0(s)[2] = s.blockVersion /\ L0(s)[3] = s.id
        /\ L0(s)[4] = s.stage /\ L0(s)[5] = s.offset /\ L0(s)[6] = FieldStatusToByte(Flags(s))
    BY DEF L0
  <2>. QED
    BY <2>1, <2>2
<1>np. Flags(s).num_parts => b[Len(L0(s)) + 1] = s.numParts
  BY <1>1, <1>2, <1>3, OptAt DEF L1
<1>amt. Flags(s).amt => b[Len(L1(s)) + 1] = s.amount
  BY <1>1, <1>2, <1>3, OptAt DEF L2
<1>fee. Flags(s).fee => b[Len(L2(s)) + 1] = s.fee
  BY <1>1, <1>2, <1>3, OptAt DEF L3
<1>feat. Flags(s).feat => b[Len(L3(s)) + 1] = s.feat
  BY <1>1, <1>2, <1>3, OptAt DEF L4
<1>ttl. Flags(s).ttl => b[Len(L4(s)) + 1] = s.ttl
  BY <1>1, <1>2, <1>3, OptAt DEF L5
<1>ns. b[Len(L5(s)) + 1] = Len(s.sigs) % SIGS_LEN_MOD
  BY <1>1, <1>2, SingleAt DEF L6
<1>sigs. \A j \in 1..Len(s.sigs) : b[Len(L6(s)) + j] = s.sigs[j]
  BY <1>1, <1>2, PrefixAt DEF L7
<1>st. b[Len(L7(s)) + 1] = StructStatusToByte(Structs(s))
  BY <1>1, <1>2, SingleAt DEF L8
<1>coms. Structs(s).coms => /\ b[Len(L8(s)) + 1] = Len(s.coms) % COMS_LEN_MOD
                           /\ \A j \in 1..Len(s.coms) : b[Len(L8(s)) + 1 + j] = s.coms[j]
  <2>. HAVE Structs(s).coms
  <2>. DEFINE n == <<Len(s.coms) % COMS_LEN_MOD>>
  <2>1. n \in Seq(Elems) /\ Len(n) = 1 /\ n[1] = Len(s.coms) % COMS_LEN_MOD
    BY <1>1
  <2>2. L9(s) = L8(s) \o (n \o s.coms)
    BY DEF L9, Structs
  <2>3. n \o s.coms \in Seq(Elems) /\ Len(n \o s.coms) = 1 + Len(s.coms)
        /\ (n \o s.coms)[1] = Len(s.coms) % COMS_LEN_MOD
        /\ \A j \in 1..Len(s.coms) : (n \o s.coms)[1 + j] = s.coms[j]
    BY <2>1, <1>1, ConcatAt
  <2>4. \A j \in 1..Len(n \o s.coms) : b[Len(L8(s)) + j] = (n \o s.coms)[j]
    <3>1. IsPrefix(L8(s) \o (n \o s.coms), b)
      BY <2>2, <1>2
    <3>2. \A i \in 1..Len(L8(s) \o (n \o s.coms)) : b[i] = (L8(s) \o (n \o s.coms))[i]
      BY <3>1 DEF IsPrefix
    <3>3. /\ Len(L8(s) \o (n \o s.coms)) = Len(L8(s)) + Len(n \o s.coms)
          /\ \A j \in 1..Len(n \o s.coms) : (L8(s) \o (n \o s.coms))[Len(L8(s)) + j] = (n \o s.coms)[j]
          /\ Len(L8(s)) \in Nat
      BY <2>3, <1>2, ConcatAt
    <3>. QED
      BY <3>2, <3>3
  <2>5. b[Len(L8(s)) + 1] = Len(s.coms) % COMS_LEN_MOD
    BY <2>3, <2>4
  <2>6. \A j \in 1..Len(s.coms) : b[Len(L8(s)) + 1 + j] = s.coms[j]
    <3>. TAKE j \in 1..Len(s.coms)
    <3>1. 1 + j \in 1..Len(n \o s.coms) /\ Len(L8(s)) + 1 + j = Len(L8(s)) + (1 + j)
      BY <2>3, <1>2
    <3>. QED
      BY <3>1, <2>3, <2>4
  <2>. QED
    BY <2>5, <2>6
<1>proof. Structs(s).proof => b[Len(L9(s)) + 1] = s.proof
  <2>. HAVE Structs(s).proof
  <2>1. s.proof \in Elems
    BY DEF Structs, Slates, Elems
  <2>. QED
    BY <2>1, <1>1, <1>2, <1>3, OptAt DEF L10
<1>lock. s.feat = HEIGHT_LOCKED => b[Len(L10(s)) + 1] = GetLockHeight(s)
  <2>. HAVE s.feat = HEIGHT_LOCKED
  <2>1. L11(s) = L10(s) \o <<GetLockHeight(s)>>
    BY DEF L11, Opt
  <2>. QED
    BY <2>1, <1>1, <1>2, SingleAt
<1>. QED
  BY <1>h, <1>np, <1>amt, <1>fee, <1>feat, <1>ttl, <1>ns, <1>sigs, <1>st, <1>coms, <1>proof, <1>lock

(* The sub-sequence that Deserialize cuts out at a position is what was   *)
(* appended there.                                                        *)
LEMMA SubSeqAt ==
    ASSUME NEW w \in Seq(Elems), NEW v \in Seq(Elems), NEW m \in Nat,
           m + Len(v) <= Len(w), \A j \in 1..Len(v) : w[m + j] = v[j]
    PROVE  SubSeq(w, m + 1, m + Len(v)) = v
<1>1. \A i \in (m + 1)..(m + Len(v)) : w[i] \in Elems
  OBVIOUS
<1>2. /\ SubSeq(w, m + 1, m + Len(v)) \in Seq(Elems)
      /\ Len(SubSeq(w, m + 1, m + Len(v))) = Len(v)
      /\ \A i \in 1..Len(v) : SubSeq(w, m + 1, m + Len(v))[i] = w[m + i]
  BY <1>1, SubSeqProperties
<1>. QED
  BY <1>2, SeqEqual

(* The positions and values Deserialize computes, one operator per LET     *)
(* definition of Deserialize.                                               *)
(* The positions and values Deserialize computes, one operator per        *)
(* definition of its LET.                                                 *)
DAt(b, k) == IF k \in 1..Len(b) THEN b[k] ELSE 0
DF(b) == FieldStatusFromByte(DAt(b, 6))
DpAmt(b) == 7 + Bit(DF(b).num_parts)
DpFee(b) == DpAmt(b) + Bit(DF(b).amt)
DpFeat(b) == DpFee(b) + Bit(DF(b).fee)
DpTtl(b) == DpFeat(b) + Bit(DF(b).feat)
DpSigs(b) == DpTtl(b) + Bit(DF(b).ttl)
DnumSigs(b) == DAt(b, DpSigs(b))
DpStruct(b) == DpSigs(b) + 1 + DnumSigs(b)
DSt(b) == StructStatusFromByte(DAt(b, DpStruct(b)))
DnumComs(b) == IF DSt(b).coms THEN DAt(b, DpStruct(b) + 1) ELSE 0
DpProof(b) == DpStruct(b) + 1 + Bit(DSt(b).coms) + DnumComs(b)
DpLock(b) == DpProof(b) + Bit(DSt(b).proof)
DFeat(b) == IF DF(b).feat THEN DAt(b, DpFeat(b)) ELSE DEFAULT_KERNEL
DpEnd(b) == DpLock(b) + Bit(DFeat(b) = HEIGHT_LOCKED)
DRec(b) ==
    [id |-> DAt(b, 3), stage |-> DAt(b, 4), version |-> DAt(b, 1), blockVersion |-> DAt(b, 2),
     numParts |-> IF DF(b).num_parts THEN DAt(b, 7) ELSE 2,
     amount |-> IF DF(b).amt THEN DAt(b, DpAmt(b)) ELSE 0,
     fee |-> IF DF(b).fee THEN DAt(b, DpFee(b)) ELSE 0,
     feat |-> DFeat(b),
     ttl |-> IF DF(b).ttl THEN DAt(b, DpTtl(b)) ELSE 0,
     offset |-> DAt(b, 5),
     sigs |-> SubSeq(b, DpSigs(b) + 1, DpSigs(b) + DnumSigs(b)),
     coms |-> SubSeq(b, DpStruct(b) + 2, DpStruct(b) + 1 + DnumComs(b)),
     proof |-> IF DSt(b).proof THEN DAt(b, DpProof(b)) ELSE NoValue,
     featArgs |-> IF DFeat(b) = DEFAULT_KERNEL THEN NoValue
                  ELSE [lockHeight |-> IF DFeat(b) = HEIGHT_LOCKED THEN DAt(b, DpLock(b))
                                       ELSE NoValue]]

(* Deserialize spelled out through the positions it computes one after    *)
(* the other.                                                             *)
LEMMA DeserializeUnfold ==
    ASSUME NEW b
    PROVE  Deserialize(b) = IF DpEnd(b) - 1 > Len(b) THEN DeserializationError ELSE DRec(b)
BY DEF Deserialize, DAt, DF, DpAmt, DpFee, DpFeat, DpTtl, DpSigs, DnumSigs, DpStruct, DSt,
       DnumComs, DpProof, DpLock, DFeat, DpEnd, DRec

(* A count below the width of its prefix is written unchanged.            *)
LEMMA ModSmall ==
    ASSUME NEW n \in Nat, NEW k \in Nat, n < k
    PROVE  n % k = n
BY SMT

(* The feature args Deserialize rebuilds from the kernel features and the  *)
(* lock height Serialize wrote.                                             *)
Canon(s) ==
    IF s.feat = DEFAULT_KERNEL THEN NoValue
    ELSE [lockHeight |-> IF s.feat = HEIGHT_LOCKED THEN GetLockHeight(s) ELSE NoValue]

(* Each position Deserialize computes on an encoding is where Serialize   *)
(* put that field, as long as no list length wraps its prefix.            *)
LEMMA DecodePositions ==
    ASSUME NEW s \in Slates, Len(s.sigs) < SIGS_LEN_MOD, Len(s.coms) < COMS_LEN_MOD
    PROVE  LET b == L11(s) IN
           /\ DF(b) = Flags(s)
           /\ DpAmt(b) = Len(L1(s)) + 1 /\ DpFee(b) = Len(L2(s)) + 1
           /\ DpFeat(b) = Len(L3(s)) + 1 /\ DpTtl(b) = Len(L4(s)) + 1
           /\ DpSigs(b) = Len(L5(s)) + 1
           /\ DnumSigs(b) = Len(s.sigs)
           /\ DpStruct(b) = Len(L7(s)) + 1
           /\ DSt(b) = Structs(s)
           /\ DnumComs(b) = Len(s.coms)
           /\ DpProof(b) = Len(L9(s)) + 1
           /\ DpLock(b) = Len(L10(s)) + 1
           /\ DFeat(b) = s.feat
           /\ DpEnd(b) = Len(b) + 1
<1>. DEFINE b == L11(s)
             n0 == Len(L0(s))  n1 == Len(L1(s))  n2 == Len(L2(s))  n3 == Len(L3(s))
             n4 == Len(L4(s))  n5 == Len(L5(s))  n6 == Len(L6(s))  n7 == Len(L7(s))
             n8 == Len(L8(s))  n9 == Len(L9(s))  n10 == Len(L10(s))  n11 == Len(L11(s))
             F == Flags(s)  St == Structs(s)
             cNP == Bit(F.num_parts)  cAmt == Bit(F.amt)  cFee == Bit(F.fee)
             cFeat == Bit(F.feat)  cTtl == Bit(F.ttl)  cComs == Bit(St.coms)
             cProof == Bit(St.proof)  cLock == Bit(s.feat = HEIGHT_LOCKED)
             ls == Len(s.sigs)  lc == Len(s.coms)
<1>1. /\ b \in Seq(Elems) /\ n11 = Len(b)
      /\ n0 = 6 /\ n1 = n0 + cNP /\ n2 = n1 + cAmt /\ n3 = n2 + cFee
      /\ n4 = n3 + cFeat /\ n5 = n4 + cTtl /\ n6 = n5 + 1
      /\ n7 = n6 + ls /\ n8 = n7 + 1 /\ n9 = n8 + cComs + lc
      /\ n10 = n9 + cProof /\ n11 = n10 + cLock
  BY LayerLengths
<1>2. /\ b[6] = FieldStatusToByte(F)
      /\ b[n5 + 1] = ls % SIGS_LEN_MOD
      /\ b[n7 + 1] = StructStatusToByte(St)
      /\ St.coms => b[n8 + 1] = lc % COMS_LEN_MOD
      /\ F.feat => b[n3 + 1] = s.feat
  BY LayerValues
<1>3. /\ cNP \in {0, 1} /\ cAmt \in {0, 1} /\ cFee \in {0, 1} /\ cFeat \in {0, 1}
      /\ cTtl \in {0, 1} /\ cComs \in {0, 1} /\ cProof \in {0, 1} /\ cLock \in {0, 1}
      /\ ls \in Nat /\ lc \in Nat /\ ls < SIGS_LEN_MOD /\ lc < COMS_LEN_MOD
  BY DEF Bit, Slates
<1>4. /\ St.coms => cComs = 1
      /\ F.feat => cFeat = 1
  BY DEF Bit
<1>5. F \in FieldFlags /\ St = [coms |-> St.coms, proof |-> St.proof]
      /\ St.coms \in BOOLEAN /\ St.proof \in BOOLEAN
  BY DEF Flags, FieldFlags, Structs
<1>. HIDE DEF b, n0, n1, n2, n3, n4, n5, n6, n7, n8, n9, n10, n11, F, St,
              cNP, cAmt, cFee, cFeat, cTtl, cComs, cProof, cLock, ls, lc
<1>6. /\ 6 <= n11 /\ n5 + 1 <= n11 /\ n7 + 1 <= n11
      /\ (St.coms => n8 + 1 <= n11) /\ (F.feat => n3 + 1 <= n11)
  BY <1>1, <1>3, <1>4
<1>7. DF(b) = F
  <2>1. DAt(b, 6) = b[6]
    BY <1>1, <1>6 DEF DAt
  <2>. QED
    BY <2>1, <1>2, <1>5, FieldStatusRoundTrip DEF DF
<1>8. /\ DpAmt(b) = 7 + cNP /\ DpFee(b) = DpAmt(b) + cAmt /\ DpFeat(b) = DpFee(b) + cFee
      /\ DpTtl(b) = DpFeat(b) + cFeat /\ DpSigs(b) = DpTtl(b) + cTtl
  BY <1>7 DEF DpAmt, DpFee, DpFeat, DpTtl, DpSigs, cNP, cAmt, cFee, cFeat, cTtl
<1>9. /\ DpAmt(b) = n1 + 1 /\ DpFee(b) = n2 + 1 /\ DpFeat(b) = n3 + 1
      /\ DpTtl(b) = n4 + 1 /\ DpSigs(b) = n5 + 1
  BY <1>1, <1>3, <1>8
<1>10. DnumSigs(b) = ls
  <2>1. DAt(b, n5 + 1) = b[n5 + 1]
    BY <1>1, <1>3, <1>6 DEF DAt
  <2>2. ls % SIGS_LEN_MOD = ls
    BY <1>3, ModSmall, SlateAssumptions
  <2>. QED
    BY <2>1, <2>2, <1>2, <1>9 DEF DnumSigs
<1>11. DpStruct(b) = n7 + 1
  <2>1. DpStruct(b) = DpSigs(b) + 1 + DnumSigs(b)
    BY DEF DpStruct
  <2>. QED
    BY <2>1, <1>1, <1>3, <1>9, <1>10
<1>12. DSt(b) = St
  <2>1. DAt(b, n7 + 1) = b[n7 + 1]
    BY <1>1, <1>3, <1>6 DEF DAt
  <2>. QED
    BY <2>1, <1>2, <1>5, <1>11, StructStatusRoundTrip DEF DSt
<1>13. DnumComs(b) = lc
  <2>1. CASE St.coms
    <3>1. DAt(b, n8 + 1) = b[n8 + 1]
      BY <2>1, <1>1, <1>3, <1>6 DEF DAt
    <3>2. lc % COMS_LEN_MOD = lc
      BY <1>3, ModSmall, SlateAssumptions
    <3>3. DpStruct(b) + 1 = n8 + 1
      BY <1>1, <1>3, <1>11
    <3>. QED
      BY <2>1, <3>1, <3>2, <3>3, <1>2, <1>12 DEF DnumComs
  <2>2. CASE ~St.coms
    <3>1. lc = 0
      <4>1. s.coms = <<>>
        BY <2>2 DEF St, Structs
      <4>. QED
        BY <4>1 DEF lc
    <3>. QED
      BY <2>2, <3>1, <1>12 DEF DnumComs
  <2>. QED
    BY <2>1, <2>2
<1>14. DpProof(b) = DpStruct(b) + 1 + cComs + DnumComs(b) /\ DpLock(b) = DpProof(b) + cProof
  BY <1>12 DEF DpProof, DpLock, cComs, cProof
<1>15. DpProof(b) = n9 + 1 /\ DpLock(b) = n10 + 1
  BY <1>1, <1>3, <1>11, <1>13, <1>14
<1>16. DFeat(b) = s.feat
  <2>1. CASE F.feat
    <3>1. DAt(b, n3 + 1) = b[n3 + 1]
      BY <2>1, <1>1, <1>3, <1>6 DEF DAt
    <3>. QED
      BY <2>1, <3>1, <1>2, <1>7, <1>9 DEF DFeat
  <2>2. CASE ~F.feat
    <3>1. s.feat = DEFAULT_KERNEL
      BY <2>2 DEF F, Flags
    <3>. QED
      BY <2>2, <3>1, <1>7 DEF DFeat
  <2>. QED
    BY <2>1, <2>2
<1>17. DpEnd(b) = DpLock(b) + cLock
  BY <1>16 DEF DpEnd, cLock
<1>18. DpEnd(b) = Len(b) + 1
  BY <1>1, <1>3, <1>15, <1>17
<1>. QED
  BY <1>7, <1>9, <1>10, <1>11, <1>12, <1>13, <1>15, <1>16, <1>18
     DEF b, n1, n2, n3, n4, n5, n7, n9, n10, F, St, ls, lc

(* Decoding an encoding gives back the slate, with its feature args       *)
(* rebuilt from the kernel features and the lock height alone, as long as *)
(* no list length wraps its prefix.                                       *)
LEMMA DecodeEncoded ==
    ASSUME NEW s \in Slates, Len(s.sigs) < SIGS_LEN_MOD, Len(s.coms) < COMS_LEN_MOD
    PROVE  Deserialize(Serialize(s)) = [s EXCEPT !.featArgs = Canon(s)]
<1>. DEFINE b == L11(s)
             n0 == Len(L0(s))  n1 == Len(L1(s))  n2 == Len(L2(s))  n3 == Len(L3(s))
             n4 == Len(L4(s))  n5 == Len(L5(s))  n6 == Len(L6(s))  n7 == Len(L7(s))
             n8 == Len(L8(s))  n9 == Len(L9(s))  n10 == Len(L10(s))
             F == Flags(s)  St == Structs(s)
             cNP == Bit(F.num_parts)  cAmt == Bit(F.amt)  cFee == Bit(F.fee)
             cFeat == Bit(F.feat)  cTtl == Bit(F.ttl)  cComs == Bit(St.coms)
             cProof == Bit(St.proof)  cLock == Bit(s.feat = HEIGHT_LOCKED)
             ls == Len(s.sigs)  lc == Len(s.coms)
<1>1. /\ b \in Seq(Elems) /\ s.sigs \in Seq(Elems) /\ s.coms \in Seq(Elems)
      /\ n0 = 6 /\ n1 = n0 + cNP /\ n2 = n1 + cAmt /\ n3 = n2 + cFee
      /\ n4 = n3 + cFeat /\ n5 = n4 + cTtl /\ n6 = n5 + 1 /\ n7 = n6 + ls /\ n8 = n7 + 1
      /\ n9 = n8 + cComs + lc /\ n10 = n9 + cProof /\ Len(b) = n10 + cLock
  BY LayerLengths, PieceTypes
<1>2. /\ b[1] = s.version /\ b[2] = s.blockVersion /\ b[3] = s.id
      /\ b[4] = s.stage /\ b[5] = s.offset
      /\ F.num_parts => b[n0 + 1] = s.numParts
      /\ F.amt => b[n1 + 1] = s.amount
      /\ F.fee => b[n2 + 1] = s.fee
      /\ F.ttl => b[n4 + 1] = s.ttl
      /\ \A j \in 1..ls : b[n6 + j] = s.sigs[j]
      /\ St.coms => \A j \in 1..lc : b[n8 + 1 + j] = s.coms[j]
      /\ St.proof => b[n9 + 1] = s.proof
      /\ s.feat = HEIGHT_LOCKED => b[n10 + 1] = GetLockHeight(s)
  BY LayerValues
<1>3. /\ DF(b) = F
      /\ DpAmt(b) = n1 + 1 /\ DpFee(b) = n2 + 1 /\ DpTtl(b) = n4 + 1
      /\ DpSigs(b) = n5 + 1 /\ DnumSigs(b) = ls
      /\ DpStruct(b) = n7 + 1 /\ DSt(b) = St /\ DnumComs(b) = lc
      /\ DpProof(b) = n9 + 1 /\ DpLock(b) = n10 + 1
      /\ DFeat(b) = s.feat /\ DpEnd(b) = Len(b) + 1
  BY DecodePositions
<1>4. /\ cNP \in {0, 1} /\ cAmt \in {0, 1} /\ cFee \in {0, 1} /\ cFeat \in {0, 1}
      /\ cTtl \in {0, 1} /\ cComs \in {0, 1} /\ cProof \in {0, 1} /\ cLock \in {0, 1}
      /\ ls \in Nat /\ lc \in Nat
  BY DEF Bit, Slates
<1>5. /\ F.num_parts => cNP = 1
      /\ F.amt => cAmt = 1
      /\ F.fee => cFee = 1
      /\ F.ttl => cTtl = 1
      /\ St.coms => cComs = 1
      /\ St.proof => cProof = 1
      /\ s.feat = HEIGHT_LOCKED => cLock = 1
  BY DEF Bit
<1>6. /\ ~F.num_parts => s.numParts = 2
      /\ ~F.amt => s.amount = 0
      /\ ~F.fee => s.fee = 0
      /\ ~F.ttl => s.ttl = 0
      /\ ~St.coms => s.coms = <<>>
      /\ ~St.proof => s.proof = NoValue
  BY DEF F, St, Flags, Structs
<1>. HIDE DEF b, n0, n1, n2, n3, n4, n5, n6, n7, n8, n9, n10, F, St,
              cNP, cAmt, cFee, cFeat, cTtl, cComs, cProof, cLock, ls, lc
<1>7. /\ 5 <= Len(b)
      /\ F.num_parts => n0 + 1 \in 1..Len(b)
      /\ F.amt => n1 + 1 \in 1..Len(b)
      /\ F.fee => n2 + 1 \in 1..Len(b)
      /\ F.ttl => n4 + 1 \in 1..Len(b)
      /\ St.proof => n9 + 1 \in 1..Len(b)
      /\ s.feat = HEIGHT_LOCKED => n10 + 1 \in 1..Len(b)
      /\ n6 \in Nat /\ n6 + ls <= Len(b)
      /\ St.coms => n8 + 1 + lc <= Len(b)
      /\ n0 + 1 = 7 /\ n5 + 1 + 1 = n6 + 1
  <2>1. /\ 5 <= Len(b) /\ n0 + 1 = 7 /\ n5 + 1 + 1 = n6 + 1
        /\ n0 \in Nat /\ n1 \in Nat /\ n2 \in Nat /\ n4 \in Nat /\ n6 \in Nat
        /\ n8 \in Nat /\ n9 \in Nat /\ n10 \in Nat
        /\ n0 + cNP <= Len(b) /\ n1 + cAmt <= Len(b) /\ n2 + cFee <= Len(b)
        /\ n4 + cTtl <= Len(b) /\ n9 + cProof <= Len(b) /\ n10 + cLock <= Len(b)
        /\ n6 + ls <= Len(b) /\ n8 + cComs + lc <= Len(b)
    BY <1>1, <1>4
  <2>2. F.num_parts => n0 + 1 \in 1..Len(b)
    BY <2>1, <1>5
  <2>3. F.amt => n1 + 1 \in 1..Len(b)
    BY <2>1, <1>5
  <2>4. F.fee => n2 + 1 \in 1..Len(b)
    BY <2>1, <1>5
  <2>5. F.ttl => n4 + 1 \in 1..Len(b)
    BY <2>1, <1>5
  <2>6. St.proof => n9 + 1 \in 1..Len(b)
    BY <2>1, <1>5
  <2>7. s.feat = HEIGHT_LOCKED => n10 + 1 \in 1..Len(b)
    BY <2>1, <1>5
  <2>8. St.coms => n8 + 1 + lc <= Len(b)
    BY <2>1, <1>5
  <2>. QED
    BY <2>1, <2>2, <2>3, <2>4, <2>5, <2>6, <2>7, <2>8
<1>8. \A k \in 1..Len(b) : DAt(b, k) = b[k]
  BY DEF DAt
<1>9. Deserialize(Serialize(s)) = DRec(b)
  <2>1. Serialize(s) = b
    BY SerializeLayers DEF b
  <2>2. ~(DpEnd(b) - 1 > Len(b))
    <3>1. Len(b) \in Nat
      BY <1>1
    <3>. QED
      BY <3>1, <1>3
  <2>. QED
    BY <2>1, <2>2, DeserializeUnfold
<1>10. /\ DAt(b, 1) = s.version /\ DAt(b, 2) = s.blockVersion /\ DAt(b, 3) = s.id
       /\ DAt(b, 4) = s.stage /\ DAt(b, 5) = s.offset
  BY <1>2, <1>7, <1>8
<1>11. (IF DF(b).num_parts THEN DAt(b, 7) ELSE 2) = s.numParts
  BY <1>2, <1>3, <1>6, <1>7, <1>8
<1>12. (IF DF(b).amt THEN DAt(b, DpAmt(b)) ELSE 0) = s.amount
  BY <1>2, <1>3, <1>6, <1>7, <1>8
<1>13. (IF DF(b).fee THEN DAt(b, DpFee(b)) ELSE 0) = s.fee
  BY <1>2, <1>3, <1>6, <1>7, <1>8
<1>14. (IF DF(b).ttl THEN DAt(b, DpTtl(b)) ELSE 0) = s.ttl
  BY <1>2, <1>3, <1>6, <1>7, <1>8
<1>15. SubSeq(b, DpSigs(b) + 1, DpSigs(b) + DnumSigs(b)) = s.sigs
  <2>1. SubSeq(b, n6 + 1, n6 + ls) = s.sigs
    BY <1>1, <1>2, <1>7, SubSeqAt DEF ls
  <2>2. DpSigs(b) + 1 = n6 + 1 /\ DpSigs(b) + DnumSigs(b) = n6 + ls
    BY <1>1, <1>3, <1>4
  <2>. QED
    BY <2>1, <2>2
<1>16. SubSeq(b, DpStruct(b) + 2, DpStruct(b) + 1 + DnumComs(b)) = s.coms
  <2>1. CASE St.coms
    <3>1. SubSeq(b, (n8 + 1) + 1, (n8 + 1) + lc) = s.coms
      <4>1. n8 + 1 \in Nat /\ (n8 + 1) + lc <= Len(b)
        BY <2>1, <1>1, <1>4, <1>7
      <4>2. \A j \in 1..Len(s.coms) : b[(n8 + 1) + j] = s.coms[j]
        BY <2>1, <1>2 DEF lc
      <4>. QED
        BY <4>1, <4>2, <1>1, SubSeqAt DEF lc
    <3>2. DpStruct(b) + 2 = (n8 + 1) + 1 /\ DpStruct(b) + 1 + DnumComs(b) = (n8 + 1) + lc
      BY <1>1, <1>3, <1>4
    <3>. QED
      BY <3>1, <3>2
  <2>2. CASE ~St.coms
    <3>1. s.coms = <<>> /\ DnumComs(b) = 0
      <4>1. lc = 0
        BY <2>2, <1>6 DEF lc
      <4>. QED
        BY <2>2, <4>1, <1>3, <1>6
    <3>2. DpStruct(b) + 1 + DnumComs(b) < DpStruct(b) + 2 /\ DpStruct(b) \in Int
      BY <3>1, <1>1, <1>3, <1>4
    <3>. QED
      BY <3>1, <3>2, SubSeqEmpty
  <2>. QED
    BY <2>1, <2>2
<1>17. (IF DSt(b).proof THEN DAt(b, DpProof(b)) ELSE NoValue) = s.proof
  BY <1>2, <1>3, <1>6, <1>7, <1>8
<1>18. (IF DFeat(b) = DEFAULT_KERNEL THEN NoValue
        ELSE [lockHeight |-> IF DFeat(b) = HEIGHT_LOCKED THEN DAt(b, DpLock(b)) ELSE NoValue])
       = Canon(s)
  BY <1>2, <1>3, <1>7, <1>8 DEF Canon
<1>19. DRec(b) = [id |-> s.id, stage |-> s.stage, version |-> s.version,
                  blockVersion |-> s.blockVersion, numParts |-> s.numParts,
                  amount |-> s.amount, fee |-> s.fee, feat |-> s.feat, ttl |-> s.ttl,
                  offset |-> s.offset, sigs |-> s.sigs, coms |-> s.coms,
                  proof |-> s.proof, featArgs |-> Canon(s)]
  BY <1>3, <1>10, <1>11, <1>12, <1>13, <1>14, <1>15, <1>16, <1>17, <1>18 DEF DRec
<1>. QED
  BY <1>9, <1>19 DEF Slates

(* FromJSON of ToJSON gives back the slate except for its feature args,   *)
(* which it never reads.                                                  *)
LEMMA JsonDecodeEncoded ==
    ASSUME NEW s \in Slates
    PROVE  FromJSON(ToJSON(s)) = [s EXCEPT !.featArgs = NoValue]
<1>. DEFINE J == ToJSON(s)
<1>1. /\ DOMAIN J = JsonKeys(s)
      /\ {"ver", "id", "sta", "sigs", "coms"} \subseteq DOMAIN J
      /\ J["ver"] = <<s.version, s.blockVersion>> /\ J["id"] = s.id /\ J["sta"] = s.stage
      /\ J["sigs"] = s.sigs /\ J["coms"] = s.coms
  BY DEF ToJSON, JsonKeys
<1>2. /\ GetOpt(J, "off", ZERO_OFFSET) = s.offset
      /\ GetOpt(J, "num_parts", 2) = s.numParts
      /\ GetOpt(J, "fee", 0) = s.fee
      /\ GetOpt(J, "amt", 0) = s.amount
      /\ GetOpt(J, "feat", DEFAULT_KERNEL) = s.feat
      /\ GetOpt(J, "ttl", 0) = s.ttl
      /\ GetOpt(J, "coms", <<>>) = s.coms
      /\ GetOpt(J, "proof", NoValue) = s.proof
  BY <1>1 DEF GetOpt, ToJSON, JsonKeys, OptionalKeyPresent
<1>. QED
  BY <1>1, <1>2 DEF FromJSON, Slates
(* The feature args of a slate fit its kernel: none for the default       *)
(* kernel, and a lock height exactly when the kernel is height locked.     *)
(* Feature args agree with the kernel features: none for a plain kernel,  *)
(* and a lock height exactly when the kernel is height locked.            *)
FeatureArgsFit(s) ==
    /\ s.feat = DEFAULT_KERNEL => s.featArgs = NoValue
    /\ s.featArgs # NoValue => (s.featArgs.lockHeight # NoValue <=> s.feat = HEIGHT_LOCKED)

(* A slate the wallet can hold: well formed, within the bounds the         *)
(* builders keep, with feature args that fit.                              *)
(* A slate a wallet can hold: of its type, within the bounds, with        *)
(* fitting feature args.                                                  *)
Holdable(s) ==
    /\ s \in Slates
    /\ Len(s.sigs) <= MaxSigs /\ Len(s.coms) <= MaxComs
    /\ FeatureArgsFit(s)

(* Inductive invariant of SlateCodec: the slate in hand is holdable; what  *)
(* is on the wire is the encoding of the slate that was sent, which is     *)
(* still the one in hand; what was received is the decoding of that        *)
(* encoding.                                                               *)
SlateIInv ==
    /\ Holdable(slate)
    /\ wire # NoValue =>
          /\ sent = slate
          /\ \/ wire = [fmt |-> "binary", data |-> Serialize(sent)]
             \/ wire = [fmt |-> "json", data |-> ToJSON(sent)]
    /\ received # NoValue =>
          /\ wire = NoValue
          /\ Holdable(sent)
          /\ received.fmt \in {"binary", "json"}
          /\ received.fmt = "binary" => received.slate = Deserialize(Serialize(sent))
          /\ received.fmt = "json" => received.slate = [sent EXCEPT !.featArgs = NoValue]
(* The length prefixes do not wrap: a slate never holds more signatures    *)
(* than a uint8_t counts, nor more commitments than a uint16_t counts.     *)
LengthsFit == MaxSigs < SIGS_LEN_MOD /\ MaxComs < COMS_LEN_MOD

(* The rebuilt feature args are of the type a slate holds.                *)
LEMMA CanonType ==
    ASSUME NEW s \in Slates
    PROVE  Canon(s) \in [lockHeight : Heights \cup {0, NoValue}] \cup {NoValue}
<1>1. GetLockHeight(s) \in Heights \cup {0}
  BY DEF GetLockHeight, Slates
<1>. QED
  BY <1>1 DEF Canon

(* A slate with rebuilt feature args can still be held.                   *)
LEMMA CanonHoldable ==
    ASSUME NEW s, Holdable(s)
    PROVE  Holdable([s EXCEPT !.featArgs = Canon(s)])
<1>1. s \in Slates
  BY DEF Holdable
<1>2. Canon(s) \in [lockHeight : Heights \cup {0, NoValue}] \cup {NoValue}
  BY <1>1, CanonType
<1>3. GetLockHeight(s) # NoValue
  BY <1>1, SlateAssumptions DEF GetLockHeight, Slates
<1>4. FeatureArgsFit([s EXCEPT !.featArgs = Canon(s)])
  BY <1>1, <1>3 DEF FeatureArgsFit, Canon, Slates
<1>. QED
  BY <1>1, <1>2, <1>4 DEF Holdable, Slates

(* A slate without feature args can still be held.                        *)
LEMMA DropArgsHoldable ==
    ASSUME NEW s, Holdable(s)
    PROVE  Holdable([s EXCEPT !.featArgs = NoValue])
<1>1. s \in Slates
  BY DEF Holdable
<1>. QED
  BY <1>1 DEF Holdable, Slates, FeatureArgsFit

(* For a slate whose feature args match its kernel, rebuilding them       *)
(* changes nothing.                                                       *)
LEMMA CanonKeepsArgs ==
    ASSUME NEW s, Holdable(s), HasFeatureArgs(s)
    PROVE  Canon(s) = s.featArgs
<1>1. s \in Slates /\ FeatureArgsFit(s)
  BY DEF Holdable
<1>2. CASE s.feat = DEFAULT_KERNEL
  BY <1>1, <1>2 DEF Canon, FeatureArgsFit
<1>3. CASE s.feat # DEFAULT_KERNEL
  <2>1. s.featArgs # NoValue /\ s.featArgs \in [lockHeight : Heights \cup {0, NoValue}]
    BY <1>1, <1>3 DEF HasFeatureArgs, Slates
  <2>2. s.featArgs = [lockHeight |-> s.featArgs.lockHeight]
    BY <2>1
  <2>3. (s.featArgs.lockHeight # NoValue) = (s.feat = HEIGHT_LOCKED)
    BY <1>1, <2>1 DEF FeatureArgsFit
  <2>. QED
    BY <1>3, <2>1, <2>2, <2>3 DEF Canon, GetLockHeight
<1>. QED
  BY <1>2, <1>3

(* Under LengthsFit, the round trip of DecodeEncoded holds for every      *)
(* slate a wallet can hold.                                               *)
LEMMA DecodedHolds ==
    ASSUME LengthsFit, NEW s, Holdable(s)
    PROVE  Deserialize(Serialize(s)) = [s EXCEPT !.featArgs = Canon(s)]
<1>1. s \in Slates /\ Len(s.sigs) <= MaxSigs /\ Len(s.coms) <= MaxComs
  BY DEF Holdable
<1>2. Len(s.sigs) < SIGS_LEN_MOD /\ Len(s.coms) < COMS_LEN_MOD
  BY <1>1, SlateAssumptions DEF LengthsFit
<1>. QED
  BY <1>1, <1>2, DecodeEncoded

(* A fresh slate satisfies the inductive invariant.                       *)
LEMMA SlateInitIInv == Init => SlateIInv
<1>. SUFFICES ASSUME Init PROVE SlateIInv
  OBVIOUS
<1>1. PICK id \in SlateIds : slate = NewSlate(id)
  BY DEF Init
<1>2. slate \in Slates
  BY <1>1, SlateAssumptions DEF NewSlate, Slates, KernelFeatures, DEFAULT_KERNEL, STANDARD_SENT
<1>3. Len(slate.sigs) <= MaxSigs /\ Len(slate.coms) <= MaxComs
  BY <1>1, SlateAssumptions DEF NewSlate
<1>4. FeatureArgsFit(slate)
  BY <1>1 DEF NewSlate, FeatureArgsFit
<1>. QED
  BY <1>2, <1>3, <1>4 DEF SlateIInv, Holdable, Init

(* A builder step leaves a holdable slate and nothing in transit.          *)
LEMMA BuildIInv ==
    ASSUME NEW t, Holdable(t), Build(t)
    PROVE  SlateIInv'
BY DEF Build, SlateIInv, Holdable, FeatureArgsFit

(* Each operation preserves the inductive invariant.                      *)
LEMMA SetAmountsIInv ==
    ASSUME SlateIInv, SetAmounts
    PROVE  SlateIInv'
<1>1. Holdable(slate)
  BY DEF SlateIInv
<1>2. PICK a \in Amounts, fe \in Amounts, t \in Amounts, n \in Participants, o \in Offsets :
          Build([slate EXCEPT !.amount = a, !.fee = fe, !.ttl = t, !.numParts = n, !.offset = o])
  BY DEF SetAmounts
<1>3. Holdable([slate EXCEPT !.amount = a, !.fee = fe, !.ttl = t, !.numParts = n, !.offset = o])
  BY <1>1 DEF Holdable, Slates, FeatureArgsFit
<1>. QED
  BY <1>2, <1>3, BuildIInv

LEMMA SetStageIInv ==
    ASSUME SlateIInv, SetStage
    PROVE  SlateIInv'
<1>1. Holdable(slate)
  BY DEF SlateIInv
<1>2. PICK st \in {STANDARD_SENT, STANDARD_RECEIVED, STANDARD_FINALIZED} :
          Build([slate EXCEPT !.stage = st])
  BY DEF SetStage
<1>3. Holdable([slate EXCEPT !.stage = st])
  BY <1>1 DEF Holdable, Slates, FeatureArgsFit, STANDARD_SENT, STANDARD_RECEIVED,
              STANDARD_FINALIZED
<1>. QED
  BY <1>2, <1>3, BuildIInv

LEMMA SetKernelFeaturesIInv ==
    ASSUME SlateIInv, SetKernelFeatures
    PROVE  SlateIInv'
<1>1. Holdable(slate)
  BY DEF SlateIInv
<1>2. PICK k \in KernelFeatures, h \in Heights :
          Build([slate EXCEPT !.feat = k,
                              !.featArgs = IF k = DEFAULT_KERNEL THEN NoValue
                                           ELSE [lockHeight |-> IF k = HEIGHT_LOCKED THEN h
                                                                ELSE NoValue]])
  BY DEF SetKernelFeatures
<1>3. h # NoValue
  BY SlateAssumptions
<1>4. Holdable([slate EXCEPT !.feat = k,
                             !.featArgs = IF k = DEFAULT_KERNEL THEN NoValue
                                          ELSE [lockHeight |-> IF k = HEIGHT_LOCKED THEN h
                                                               ELSE NoValue]])
  BY <1>1, <1>3 DEF Holdable, Slates, FeatureArgsFit
<1>. QED
  BY <1>2, <1>4, BuildIInv

(* Appending a commitment below the bound keeps a slate holdable.         *)
LEMMA ComsAppendHoldable ==
    ASSUME NEW s, Holdable(s), NEW e \in ComEntries, Len(s.coms) < MaxComs
    PROVE  Holdable([s EXCEPT !.coms = Append(@, e)])
<1>1. s \in Slates /\ Len(s.coms) \in Nat
  BY DEF Holdable, Slates
<1>2. Append(s.coms, e) \in Seq(ComEntries) /\ Len(Append(s.coms, e)) <= MaxComs
  BY <1>1, SlateAssumptions DEF Slates
<1>. QED
  BY <1>1, <1>2 DEF Holdable, Slates, FeatureArgsFit

LEMMA AddInputIInv ==
    ASSUME SlateIInv, AddInput
    PROVE  SlateIInv'
<1>1. Holdable(slate)
  BY DEF SlateIInv
<1>2. PICK c \in Commits :
          /\ Len(slate.coms) < MaxComs
          /\ Build([slate EXCEPT !.coms = Append(@, [commit |-> c, proof |-> NoValue])])
  BY DEF AddInput
<1>3. [commit |-> c, proof |-> NoValue] \in ComEntries
  BY DEF ComEntries
<1>4. Holdable([slate EXCEPT !.coms = Append(@, [commit |-> c, proof |-> NoValue])])
  BY <1>1, <1>2, <1>3, ComsAppendHoldable
<1>. QED
  BY <1>2, <1>4, BuildIInv

LEMMA AddSignatureIInv ==
    ASSUME SlateIInv, AddSignature
    PROVE  SlateIInv'
<1>1. Holdable(slate)
  BY DEF SlateIInv
<1>2. PICK g \in SigValues :
          /\ Len(slate.sigs) < MaxSigs
          /\ Build([slate EXCEPT !.sigs = Append(@, g)])
  BY DEF AddSignature
<1>3. Holdable([slate EXCEPT !.sigs = Append(@, g)])
  <2>1. slate \in Slates /\ Len(slate.sigs) \in Nat
    BY <1>1 DEF Holdable, Slates
  <2>2. Append(slate.sigs, g) \in Seq(SigValues) /\ Len(Append(slate.sigs, g)) <= MaxSigs
    BY <1>2, <2>1, SlateAssumptions DEF Slates
  <2>. QED
    BY <1>1, <2>1, <2>2 DEF Holdable, Slates, FeatureArgsFit
<1>. QED
  BY <1>2, <1>3, BuildIInv

LEMMA SetPaymentProofIInv ==
    ASSUME SlateIInv, SetPaymentProof
    PROVE  SlateIInv'
<1>1. Holdable(slate)
  BY DEF SlateIInv
<1>2. PICK pp \in PaymentProofs : Build([slate EXCEPT !.proof = pp])
  BY DEF SetPaymentProof
<1>3. Holdable([slate EXCEPT !.proof = pp])
  BY <1>1 DEF Holdable, Slates, FeatureArgsFit
<1>. QED
  BY <1>2, <1>3, BuildIInv

LEMMA AddOutputIInv ==
    ASSUME SlateIInv, AddOutput
    PROVE  SlateIInv'
<1>1. Holdable(slate) /\ slate \in Slates
  BY DEF SlateIInv, Holdable
<1>2. PICK c \in Commits, p \in RangeProofs :
          IF CommitIndex(c) # {}
          THEN LET m == CHOOSE m \in CommitIndex(c) : TRUE IN
               /\ slate.coms[m].proof = NoValue
               /\ Build([slate EXCEPT !.coms[m].proof = p])
          ELSE /\ Len(slate.coms) < MaxComs
               /\ Build([slate EXCEPT !.coms = Append(@, [commit |-> c, proof |-> p])])
  BY DEF AddOutput
<1>3. CASE CommitIndex(c) # {}
  <2>. DEFINE m == CHOOSE m \in CommitIndex(c) : TRUE
  <2>1. m \in 1..Len(slate.coms)
    BY <1>1, <1>3 DEF CommitIndex, Slates
  <2>2. Build([slate EXCEPT !.coms[m].proof = p])
    BY <1>2, <1>3
  <2>3. slate.coms[m] \in ComEntries
    BY <1>1, <2>1 DEF Slates
  <2>4. [slate.coms[m] EXCEPT !.proof = p] \in ComEntries
    BY <2>3 DEF ComEntries
  <2>5. [slate.coms EXCEPT ![m] = [slate.coms[m] EXCEPT !.proof = p]] \in Seq(ComEntries)
        /\ Len([slate.coms EXCEPT ![m] = [slate.coms[m] EXCEPT !.proof = p]]) = Len(slate.coms)
    BY <1>1, <2>1, <2>4 DEF Slates
  <2>6. [slate EXCEPT !.coms[m].proof = p]
          = [slate EXCEPT !.coms = [slate.coms EXCEPT ![m] = [slate.coms[m] EXCEPT !.proof = p]]]
    OBVIOUS
  <2>7. Holdable([slate EXCEPT !.coms[m].proof = p])
    BY <1>1, <2>5, <2>6 DEF Holdable, Slates, FeatureArgsFit
  <2>. QED
    BY <2>2, <2>7, BuildIInv
<1>4. CASE CommitIndex(c) = {}
  <2>1. Len(slate.coms) < MaxComs
        /\ Build([slate EXCEPT !.coms = Append(@, [commit |-> c, proof |-> p])])
    BY <1>2, <1>4
  <2>2. [commit |-> c, proof |-> p] \in ComEntries
    BY DEF ComEntries
  <2>3. Holdable([slate EXCEPT !.coms = Append(@, [commit |-> c, proof |-> p])])
    BY <1>1, <2>1, <2>2, ComsAppendHoldable
  <2>. QED
    BY <2>1, <2>3, BuildIInv
<1>. QED
  BY <1>3, <1>4

(* Sending a slate in either encoding preserves the inductive invariant.  *)
LEMMA SendIInv ==
    ASSUME SlateIInv, SendBinary \/ SendJSON
    PROVE  SlateIInv'
BY DEF SlateIInv, SendBinary, SendJSON, Holdable, FeatureArgsFit

(* Neither decoding of a slate is the error Deserialize reports.           *)
LEMMA DecodedIsNoError ==
    ASSUME NEW s \in Slates
    PROVE  /\ [s EXCEPT !.featArgs = Canon(s)] # DeserializationError
           /\ [s EXCEPT !.featArgs = NoValue] # DeserializationError
<1>1. DOMAIN DeserializationError = {"error"}
  BY DEF DeserializationError
<1>2. "featArgs" \in DOMAIN s /\ "error" \notin DOMAIN s
  BY DEF Slates
<1>. QED
  BY <1>1, <1>2

(* Receiving a slate preserves the inductive invariant: it holds what     *)
(* decoding the encoding of the slate that was sent gives.                *)
LEMMA ReceiveIInv ==
    ASSUME LengthsFit, SlateIInv, Receive
    PROVE  SlateIInv'
<1>1. wire # NoValue /\ sent = slate /\ Holdable(slate)
  BY DEF Receive, SlateIInv
<1>2. wire' = NoValue /\ sent' = sent
  BY DEF Receive
<1>3. CASE wire.fmt = "binary"
  <2>. DEFINE r == Deserialize(wire.data)
  <2>1. wire = [fmt |-> "binary", data |-> Serialize(sent)]
    BY <1>1, <1>3 DEF SlateIInv
  <2>2. r = [slate EXCEPT !.featArgs = Canon(slate)]
    BY <1>1, <2>1, DecodedHolds
  <2>3. received' = [fmt |-> "binary", slate |-> r] /\ slate' = r
    BY <1>1, <1>3, <2>2, DecodedIsNoError DEF Receive, Holdable
  <2>4. Holdable(r)
    BY <1>1, <2>2, CanonHoldable
  <2>. QED
    BY <1>1, <1>2, <2>1, <2>3, <2>4 DEF SlateIInv
<1>4. CASE wire.fmt # "binary"
  <2>. DEFINE r == FromJSON(wire.data)
  <2>1. wire = [fmt |-> "json", data |-> ToJSON(sent)]
    BY <1>1, <1>4 DEF SlateIInv
  <2>2. r = [slate EXCEPT !.featArgs = NoValue]
    BY <1>1, <2>1, JsonDecodeEncoded DEF Holdable
  <2>3. received' = [fmt |-> "json", slate |-> r] /\ slate' = r
    BY <1>1, <1>4, <2>1, <2>2, DecodedIsNoError DEF Receive, Holdable
  <2>4. Holdable(r)
    BY <1>1, <2>2, DropArgsHoldable
  <2>. QED
    BY <1>1, <1>2, <2>1, <2>2, <2>3, <2>4 DEF SlateIInv
<1>. QED
  BY <1>3, <1>4

(* Every step of the slate exchange preserves the inductive invariant.    *)
LEMMA SlateNextIInv ==
    ASSUME LengthsFit, SlateIInv, [Next]_vars
    PROVE  SlateIInv'
<1>1. CASE UNCHANGED vars
  BY <1>1 DEF vars, SlateIInv, Holdable, FeatureArgsFit
<1>. QED
  BY <1>1, SetAmountsIInv, SetStageIInv, SetKernelFeaturesIInv, AddInputIInv, AddOutputIInv,
     AddSignatureIInv, SetPaymentProofIInv, SendIInv, ReceiveIInv DEF Next

(* The inductive invariant holds in every reachable state.                *)
LEMMA AlwaysSlateIInv ==
    ASSUME LengthsFit
    PROVE  Spec => []SlateIInv
<1>1. Init => SlateIInv
  BY SlateInitIInv
<1>2. SlateIInv /\ [Next]_vars => SlateIInv'
  BY SlateNextIInv
<1>. QED
  BY <1>1, <1>2, PTL DEF Spec

(* Whenever the length prefixes cannot wrap, the other side decodes from   *)
(* the binary encoding exactly the slate Serialize was given, provided the *)
(* slate has the feature args its kernel needs (Slate::Serialize and       *)
(* Slate::Deserialize, Slate.h lines 225-356).                             *)
THEOREM BinaryRoundTripHolds ==
    ASSUME LengthsFit
    PROVE  Spec => []BinaryRoundTrip
<1>1. SlateIInv => BinaryRoundTrip
  <2>. SUFFICES ASSUME SlateIInv, received # NoValue, received.fmt = "binary",
                      HasFeatureArgs(sent)
               PROVE  received.slate = sent
    BY DEF BinaryRoundTrip
  <2>1. Holdable(sent) /\ received.slate = Deserialize(Serialize(sent))
    BY DEF SlateIInv
  <2>2. Deserialize(Serialize(sent)) = [sent EXCEPT !.featArgs = Canon(sent)]
    BY <2>1, DecodedHolds
  <2>3. Canon(sent) = sent.featArgs /\ sent \in Slates
    BY <2>1, CanonKeepsArgs DEF Holdable
  <2>. QED
    BY <2>1, <2>2, <2>3 DEF Slates
<1>. QED
  BY <1>1, AlwaysSlateIInv, PTL

(* What the JSON transfer loses, and only that: a slate received as JSON   *)
(* is the slate that was sent with its feature args dropped, because       *)
(* Slate::ToJSON writes "feat_args" and Slate::FromJSON never reads it     *)
(* (Slate.h lines 358-460). This is the finding JsonRoundTrip's run shows, *)
(* stated for every instance.                                              *)
JsonDropsOnlyFeatureArgs ==
    (received # NoValue /\ received.fmt = "json")
        => received.slate = [sent EXCEPT !.featArgs = NoValue]

THEOREM JsonDropsOnlyFeatureArgsHolds ==
    ASSUME LengthsFit
    PROVE  Spec => []JsonDropsOnlyFeatureArgs
<1>1. SlateIInv => JsonDropsOnlyFeatureArgs
  BY DEF SlateIInv, JsonDropsOnlyFeatureArgs
<1>. QED
  BY <1>1, AlwaysSlateIInv, PTL

====
