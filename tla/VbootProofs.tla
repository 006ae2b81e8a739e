---------------------------- MODULE VbootProofs ----------------------------
(***************************************************************************)
(* Proofs about VbootImage, for every word size, layout of the headers,    *)
(* set of algorithms and file.                                             *)
(***************************************************************************)
EXTENDS VbootImage, TLAPS

\* The sums in VerifyMemberInside() do not wrap where it says yes: the struct
\* and the data it points to are inside the parent.
LEMMA InsideIsInside ==
    ASSUME NEW parent \in Nat, NEW offset \in Nat, NEW struct \in Nat,
           NEW doff \in Nat, NEW dsize \in Nat,
           VerifyMemberInside(parent, offset, struct, doff, dsize)
    PROVE  offset + struct <= parent /\ offset + doff + dsize <= parent
BY VbootAssumption DEF VerifyMemberInside, Add

\* The constants are natural numbers.
LEMMA Constants ==
    /\ MaxWord \in Nat /\ SigStruct \in Nat /\ KeyStruct \in Nat /\ KbHeader \in Nat
    /\ KbSigAt \in Nat /\ KbChkAt \in Nat /\ KbKeyAt \in Nat /\ PreHeader \in Nat
    /\ PreHeader20 \in Nat /\ PreSigAt \in Nat /\ SubkeyAt \in Nat /\ BodySigAt \in Nat
    /\ ChecksumSize \in Nat /\ KeyExtra \in Nat /\ NumAlgorithms \in Nat
BY VbootAssumption

\* A signature that VerifySignatureInside() accepts.
LEMMA SignatureInside ==
    ASSUME NEW parent \in Nat, NEW offset \in Nat, NEW s, IsSig(s),
           VerifySignatureInside(parent, offset, s)
    PROVE  Within(offset, SigStruct, s, parent)
BY InsideIsInside, Constants DEF VerifySignatureInside, Within, IsSig

\* A key that VerifyPublicKeyInside() accepts.
LEMMA KeyInside ==
    ASSUME NEW parent \in Nat, NEW offset \in Nat, NEW k, IsKey(k),
           VerifyPublicKeyInside(parent, offset, k)
    PROVE  Within(offset, KeyStruct, k, parent)
BY InsideIsInside, Constants DEF VerifyPublicKeyInside, Within, IsKey

\* The headers of an image that the tool made hold natural numbers.
MadeOK ==
    Made =>
        /\ IsSig(made.kb.header.sig) /\ IsSig(made.kb.header.chk)
        /\ IsKey(made.kb.header.key) /\ made.kb.header.size \in Nat
        /\ IsSig(made.pre.header.sig) /\ IsSig(made.pre.header.bodysig)
        /\ IsKey(made.pre.header.subkey) /\ made.pre.header.size \in Nat

\* Sizes that are computed while an image is made.
LEMMA KeySizes ==
    ASSUME NEW alg \in Algorithms
    PROVE  SigLen[alg] \in Nat /\ ProcessedKeySize(alg) \in Nat
BY VbootAssumption DEF ProcessedKeySize

\* A calculated signature fits the place that was prepared for it.
LEMMA CopyFits ==
    ASSUME NEW offset \in Nat, NEW dest \in Nat, NEW n \in Nat, NEW d0, NEW d
    PROVE  SignatureCopy(SignatureInit(offset, dest, n, d0), Calculated(n, d))
             = SignatureInit(offset, dest, n, d)
BY DEF SignatureCopy, SignatureInit, Calculated

\* The key block that KeyBlockCreate() makes; the header is the same when the
\* checksum is taken, when the signature is taken and in the end.
LEMMA KeyBlockMade ==
    ASSUME NEW root \in Algorithms, NEW alg \in Algorithms
    PROVE  LET k == KeyBlockCreate(root, alg)
               signed == KbHeader + ProcessedKeySize(alg)
           IN  /\ k.header = [good |-> TRUE,
                              size |-> signed + ChecksumSize + SigLen[root],
                              key  |-> PublicKeyPut(KbKeyAt, KbHeader, alg),
                              chk  |-> SignatureInit(KbChkAt, signed, ChecksumSize, signed),
                              sig  |-> SignatureInit(KbSigAt, signed + ChecksumSize,
                                                     SigLen[root], signed)]
               /\ k.chkOver = k.header /\ k.sigOver = k.header
<1> DEFINE signed == KbHeader + ProcessedKeySize(alg)
<1>1. SigLen[root] \in Nat /\ ProcessedKeySize(alg) \in Nat /\ signed \in Nat
      /\ signed + ChecksumSize \in Nat
  BY KeySizes, Constants
<1> HIDE DEF signed
<1>2. SignatureCopy(SignatureInit(KbChkAt, signed, ChecksumSize, signed),
                    Calculated(ChecksumSize, signed))
        = SignatureInit(KbChkAt, signed, ChecksumSize, signed)
  BY <1>1, CopyFits, Constants
<1>3. SignatureCopy(SignatureInit(KbSigAt, signed + ChecksumSize, SigLen[root], signed),
                    Calculated(SigLen[root], signed))
        = SignatureInit(KbSigAt, signed + ChecksumSize, SigLen[root], signed)
  BY <1>1, CopyFits, Constants
<1>4. KeyBlockSigDest(signed) = signed + ChecksumSize
  BY DEF KeyBlockSigDest
<1> DEFINE h0 == [good |-> TRUE,
                  size |-> signed + ChecksumSize + SigLen[root],
                  key  |-> PublicKeyPut(KbKeyAt, KbHeader, alg),
                  chk  |-> SignatureInit(KbChkAt, signed, ChecksumSize, signed),
                  sig  |-> SignatureInit(KbSigAt, signed + ChecksumSize, SigLen[root], signed)]
<1>5. KeyBlockCreate(root, alg) = [header |-> h0, chkOver |-> h0, sigOver |-> h0]
  BY <1>2, <1>3, <1>4 DEF KeyBlockCreate, signed
<1> HIDE DEF h0
<1>6. /\ KeyBlockCreate(root, alg).header = h0
      /\ KeyBlockCreate(root, alg).chkOver = h0
      /\ KeyBlockCreate(root, alg).sigOver = h0
  BY <1>5
<1> QED
  BY <1>6 DEF h0, signed

\* The preamble that CreateFirmwarePreamble() makes.
LEMMA PreambleMade ==
    ASSUME NEW alg \in Algorithms, NEW subkey \in Algorithms, NEW body \in Nat,
           NEW flags \in BOOLEAN
    PROVE  LET p == CreateFirmwarePreamble(alg, subkey, body, flags)
               bodyAt == PreHeader + ProcessedKeySize(subkey)
               signed == bodyAt + SigLen[alg]
           IN  /\ p.header = [good    |-> TRUE, minor |-> 1, ro |-> flags,
                              size    |-> signed + SigLen[alg],
                              subkey  |-> PublicKeyPut(SubkeyAt, PreHeader, subkey),
                              bodysig |-> SignatureInit(BodySigAt, bodyAt, SigLen[alg], body),
                              sig     |-> SignatureInit(PreSigAt, signed, SigLen[alg], signed)]
               /\ p.sigOver = p.header
<1> DEFINE bodyAt == PreHeader + ProcessedKeySize(subkey)
           signed == bodyAt + SigLen[alg]
<1>1. SigLen[alg] \in Nat /\ bodyAt \in Nat /\ signed \in Nat
  BY KeySizes, Constants
<1> HIDE DEF bodyAt, signed
<1>2. SignatureCopy(SignatureInit(BodySigAt, bodyAt, SigLen[alg], 0),
                    Calculated(SigLen[alg], body))
        = SignatureInit(BodySigAt, bodyAt, SigLen[alg], body)
  BY <1>1, CopyFits, Constants
<1>3. SignatureCopy(SignatureInit(PreSigAt, signed, SigLen[alg], signed),
                    Calculated(SigLen[alg], signed))
        = SignatureInit(PreSigAt, signed, SigLen[alg], signed)
  BY <1>1, CopyFits, Constants
<1> DEFINE h0 == [good    |-> TRUE, minor |-> 1, ro |-> flags,
                  size    |-> signed + SigLen[alg],
                  subkey  |-> PublicKeyPut(SubkeyAt, PreHeader, subkey),
                  bodysig |-> SignatureInit(BodySigAt, bodyAt, SigLen[alg], body),
                  sig     |-> SignatureInit(PreSigAt, signed, SigLen[alg], signed)]
<1>4. CreateFirmwarePreamble(alg, subkey, body, flags) = [header |-> h0, sigOver |-> h0]
  BY <1>2, <1>3 DEF CreateFirmwarePreamble, PreambleSigInit, bodyAt, signed
<1> HIDE DEF h0
<1>5. /\ CreateFirmwarePreamble(alg, subkey, body, flags).header = h0
      /\ CreateFirmwarePreamble(alg, subkey, body, flags).sigOver = h0
  BY <1>4
<1> QED
  BY <1>5 DEF h0, bodyAt, signed

-----------------------------------------------------------------------------
\* An image that was made is one that Image() describes; no step changes it.
MadeBy ==
    Made => \E root, alg, subkey \in Algorithms, body \in Nat, flags \in BOOLEAN :
                made = Image(root, alg, subkey, body, flags)

\* So its headers hold natural numbers.
LEMMA MadeHeaders == MadeBy => MadeOK
<1> SUFFICES ASSUME MadeBy, Made PROVE MadeOK
  BY DEF MadeOK
<1>1. PICK root \in Algorithms, alg \in Algorithms, subkey \in Algorithms, body \in Nat,
           flags \in BOOLEAN : made = Image(root, alg, subkey, body, flags)
  BY DEF MadeBy
<1>2. made.kb = KeyBlockCreate(root, alg)
      /\ made.pre = CreateFirmwarePreamble(alg, subkey, body, flags)
  BY <1>1 DEF Image
<1>3. /\ SigLen[root] \in Nat /\ SigLen[alg] \in Nat
      /\ ProcessedKeySize(alg) \in Nat /\ ProcessedKeySize(subkey) \in Nat
  BY KeySizes
<1> DEFINE signed == KbHeader + ProcessedKeySize(alg)
           bodyAt == PreHeader + ProcessedKeySize(subkey)
           K == [good |-> TRUE,
                 size |-> signed + ChecksumSize + SigLen[root],
                 key  |-> PublicKeyPut(KbKeyAt, KbHeader, alg),
                 chk  |-> SignatureInit(KbChkAt, signed, ChecksumSize, signed),
                 sig  |-> SignatureInit(KbSigAt, signed + ChecksumSize, SigLen[root], signed)]
           P == [good    |-> TRUE, minor |-> 1, ro |-> flags,
                 size    |-> bodyAt + SigLen[alg] + SigLen[alg],
                 subkey  |-> PublicKeyPut(SubkeyAt, PreHeader, subkey),
                 bodysig |-> SignatureInit(BodySigAt, bodyAt, SigLen[alg], body),
                 sig     |-> SignatureInit(PreSigAt, bodyAt + SigLen[alg], SigLen[alg],
                                           bodyAt + SigLen[alg])]
<1>4. made.kb.header = K
  <2>1. KeyBlockCreate(root, alg).header = K
    BY KeyBlockMade
  <2> HIDE DEF K
  <2> QED
    BY <1>2, <2>1
<1>5. made.pre.header = P
  <2>1. CreateFirmwarePreamble(alg, subkey, body, flags).header = P
    BY PreambleMade
  <2> HIDE DEF P
  <2> QED
    BY <1>2, <2>1
<1>6. /\ KbSigAt <= KbHeader /\ KbChkAt <= KbHeader /\ KbKeyAt <= KbHeader
      /\ PreSigAt <= PreHeader /\ SubkeyAt <= PreHeader /\ BodySigAt <= PreHeader
  BY VbootAssumption
<1>7. /\ IsSig(made.kb.header.sig) /\ IsSig(made.kb.header.chk)
      /\ IsKey(made.kb.header.key) /\ made.kb.header.size \in Nat
  BY <1>3, <1>4, <1>6, Constants DEF IsSig, IsKey, SignatureInit, PublicKeyPut
<1>8. /\ IsSig(made.pre.header.sig) /\ IsSig(made.pre.header.bodysig)
      /\ IsKey(made.pre.header.subkey) /\ made.pre.header.size \in Nat
  BY <1>3, <1>5, <1>6, Constants DEF IsSig, IsKey, SignatureInit, PublicKeyPut
<1> QED
  BY <1>7, <1>8 DEF MadeOK

\* Words are natural numbers, and so are the offsets and sizes of a header from
\* elsewhere.
LEMMA FieldsAreNat ==
    /\ Fields \subseteq Nat /\ Sizes \subseteq Nat
    /\ \A s \in Signatures : IsSig(s)
    /\ \A k \in Keys : IsKey(k)
    /\ \A k \in Subkeys : IsKey(k)
<1>1. Fields \subseteq Nat /\ Sizes \subseteq Nat
  BY VbootAssumption DEF Word
<1> QED
  BY <1>1 DEF Signatures, Keys, Subkeys, IsSig, IsKey

\* An image that was made at the start.
LEMMA InitMadeBy == Init => MadeBy
<1> SUFFICES ASSUME Init, Made PROVE MadeBy
  BY DEF MadeBy
<1>1. InitMade
  BY DEF Init, InitElsewhere, Made
<1>2. PICK root \in Algorithms, alg \in Algorithms, subkey \in Algorithms,
           body \in Sizes \ {0}, flags \in BOOLEAN :
             made = Image(root, alg, subkey, body, flags)
  BY <1>1 DEF InitMade
<1>3. body \in Nat
  BY FieldsAreNat
<1> QED
  BY <1>2, <1>3 DEF MadeBy

\* No step changes it.
LEMMA NextMade == [Next]_vars => made' = made
<1>1. KeyBlockSignature => made' = made
  BY DEF KeyBlockSignature, inputs
<1>2. KeyBlockKey => made' = made
  BY DEF KeyBlockKey, inputs
<1>3. DataKey => made' = made
  BY DEF DataKey, inputs
<1>4. PreambleSignature => made' = made
  BY DEF PreambleSignature, inputs
<1>5. PreambleBodySig => made' = made
  BY DEF PreambleBodySig, inputs
<1>6. PreambleSubkey => made' = made
  BY DEF PreambleSubkey, inputs
<1>7. VerifyBody => made' = made
  BY DEF VerifyBody
<1>8. UNCHANGED vars => made' = made
  BY DEF vars
<1> QED
  BY <1>1, <1>2, <1>3, <1>4, <1>5, <1>6, <1>7, <1>8 DEF Next

\* Hence the same in every state.
LEMMA StepMadeBy == MadeBy /\ [Next]_vars => MadeBy'
BY NextMade DEF MadeBy, Made

\* The invariant in the initial states.
LEMMA InitVInv == Init => VInv
<1> SUFFICES ASSUME Init PROVE VInv
  OBVIOUS
<1>1. size \in Nat /\ fv \in Nat \cup {-1} /\ sign_alg \in Algorithms
  <2>1. CASE InitElsewhere
    BY <2>1, FieldsAreNat DEF InitElsewhere
  <2>2. CASE InitMade
    <3>1. PICK root \in Algorithms, alg \in Algorithms, subkey \in Algorithms,
               body \in Sizes \ {0}, flags \in BOOLEAN, only \in BOOLEAN :
             LET image == Image(root, alg, subkey, body, flags)
                 blocks == image.kb.header.size + image.pre.header.size
             IN  /\ made = image /\ sign_alg = root
                 /\ size = blocks + IF only THEN 0 ELSE body
                 /\ fv = IF only THEN body ELSE -1
      BY <2>2 DEF InitMade
    <3>2. made # NotMade
      BY <3>1 DEF Image, NotMade
    <3>3. MadeOK
      BY InitMadeBy, MadeHeaders
    <3>4. made.kb.header.size \in Nat /\ made.pre.header.size \in Nat /\ body \in Nat
      BY <3>2, <3>3, FieldsAreNat DEF MadeOK, Made
    <3> QED
      BY <3>1, <3>4
  <2> QED
    BY <2>1, <2>2 DEF Init
<1>2. kb.size = 0 /\ pre.size = 0
  BY DEF Init, NoHeader
<1>3. TypeOK
  BY <1>1, <1>2 DEF Init, TypeOK, Steps, rest, now
<1> QED
  BY <1>3 DEF Init, VInv, KbChecked, PreChecked

-----------------------------------------------------------------------------
\* A step that rejects the image leaves no header behind.
LEMMA RejectedOK ==
    ASSUME TypeOK, at' = "rejected", kb' = NoHeader, pre' = NoHeader,
           size' = size, hash_only' = hash_only, sign_alg' = sign_alg,
           fv' \in Nat \cup {-1}
    PROVE  VInv'
<1>1. kb'.size = 0 /\ pre'.size = 0
  BY DEF NoHeader
<1>2. TypeOK'
  BY <1>1 DEF TypeOK, Steps, rest, now
<1> QED
  BY <1>2 DEF VInv, KbChecked, PreChecked

\* Every step of Verify() that has the two headers h and p, and passes.
LEMMA StepType ==
    ASSUME TypeOK, NEW h, NEW p, h.size \in Nat, p.size \in Nat, h.size + p.size <= size,
           at' \in Steps, kb' = h, pre' = p,
           size' = size, hash_only' = hash_only, sign_alg' = sign_alg, fv' \in Nat \cup {-1}
    PROVE  TypeOK'
BY DEF TypeOK, rest, now

\* The words of a key block header.
LEMMA KeyBlockWords ==
    ASSUME MadeOK, NEW h \in KeyBlocks
    PROVE  IsSig(UsedSig(h)) /\ h.size \in Nat
<1>1. CASE Made
  BY <1>1 DEF KeyBlocks, MadeOK, UsedSig
<1>2. CASE ~Made
  <2>1. PICK g \in BOOLEAN, n \in Fields, s \in Signatures :
           h = [good |-> g, size |-> n, chk |-> s, sig |-> s]
    BY <1>2 DEF KeyBlocks
  <2> QED
    BY <2>1, FieldsAreNat DEF UsedSig
<1> QED
  BY <1>1, <1>2

\* KeyBlockVerify() keeps the invariant and reads inside the file.
LEMMA StepKeyBlockSignature ==
    ASSUME VInv, MadeOK, KeyBlockSignature
    PROVE  VInv' /\ ReadsInside'
<1>1. PICK h \in KeyBlocks, good \in BOOLEAN :
        /\ Goes(KeyBlockSane(h) /\ good /\ UsedSig(h).data >= KbHeader, "kbkey", h, pre)
        /\ reads' = (IF size >= KbHeader THEN {Range(0, KbHeader)} ELSE {})
                    \cup IF KeyBlockSane(h)
                         THEN {Range(0, UsedSig(h).data), SigData(UsedSigAt, UsedSig(h))}
                         ELSE {}
  <2>1. \A h : \A good \in KeyBlockSigned(h) : good \in BOOLEAN
    BY DEF KeyBlockSigned
  <2> QED
    BY <2>1 DEF KeyBlockSignature
<1>2. IsSig(UsedSig(h)) /\ h.size \in Nat
  BY KeyBlockWords
<1>3. TypeOK /\ at = "keyblock" /\ kb = NoHeader /\ pre = NoHeader
  BY DEF VInv, KeyBlockSignature, PreChecked
<1>4. size' = size /\ fv' = fv /\ hash_only' = hash_only /\ sign_alg' = sign_alg
  BY DEF KeyBlockSignature, inputs
<1>5. UsedSigAt \in Nat
  BY Constants DEF UsedSigAt
<1>6. KeyBlockSane(h) => /\ size >= h.size /\ h.size >= UsedSig(h).data
                         /\ Within(UsedSigAt, SigStruct, UsedSig(h), h.size)
  BY <1>2, <1>5, SignatureInside DEF KeyBlockSane
<1>7. ReadsInside'
  <2>1. SUFFICES ASSUME NEW r \in reads'
                 PROVE  /\ 0 <= r.from /\ r.from <= r.to
                        /\ r.to <= IF r.file = "image" THEN size' ELSE fv'
    BY DEF ReadsInside
  <2>2. CASE r = Range(0, KbHeader) /\ size >= KbHeader
    BY <2>2, <1>4, Constants DEF Range
  <2>3. CASE r = Range(0, UsedSig(h).data) /\ KeyBlockSane(h)
    BY <2>3, <1>2, <1>3, <1>4, <1>6 DEF Range, IsSig, TypeOK
  <2>4. CASE r = SigData(UsedSigAt, UsedSig(h)) /\ KeyBlockSane(h)
    BY <2>4, <1>2, <1>3, <1>4, <1>5, <1>6 DEF Range, SigData, IsSig, TypeOK, Within
  <2> QED
    BY <1>1, <2>1, <2>2, <2>3, <2>4
<1>8. VInv'
  <2>1. CASE KeyBlockSane(h) /\ good /\ UsedSig(h).data >= KbHeader
    <3>1. at' = "kbkey" /\ kb' = h /\ pre' = pre
      BY <1>1, <2>1 DEF Goes
    <3>2. TypeOK'
      BY <3>1, <1>2, <1>3, <1>4, <1>6, <2>1, StepType DEF NoHeader, Steps, TypeOK
    <3>3. UsedSig(kb)' = UsedSig(h)
      BY <3>1, <1>4 DEF UsedSig
    <3> QED
      BY <3>1, <3>2, <3>3, <1>2, <1>3, <1>6, <2>1 DEF VInv, KbChecked, PreChecked
  <2>2. CASE ~(KeyBlockSane(h) /\ good /\ UsedSig(h).data >= KbHeader)
    <3>1. at' = "rejected" /\ kb' = NoHeader /\ pre' = NoHeader
      BY <1>1, <2>2 DEF Goes
    <3> QED
      BY <3>1, <1>3, <1>4, RejectedOK DEF TypeOK
  <2> QED
    BY <2>1, <2>2
<1> QED
  BY <1>7, <1>8

\* So does the check of the data key.
LEMMA StepKeyBlockKey ==
    ASSUME VInv, MadeOK, KeyBlockKey
    PROVE  VInv' /\ ReadsInside'
<1>1. PICK k \in KeyBlockKeys :
        Goes(DataKeyInside(k), IF hash_only THEN "accepted" ELSE "datakey",
             [size |-> kb.size, sig |-> UsedSig(kb), key |-> k], pre)
  BY DEF KeyBlockKey
<1>2. IsKey(k)
  BY FieldsAreNat DEF KeyBlockKeys, MadeOK
<1>3. /\ TypeOK /\ at = "kbkey" /\ pre = NoHeader
      /\ IsSig(UsedSig(kb)) /\ UsedSig(kb).data <= kb.size
  BY DEF VInv, KeyBlockKey, PreChecked
<1>4. /\ size' = size /\ fv' = fv /\ hash_only' = hash_only /\ sign_alg' = sign_alg
      /\ reads' = {}
  BY DEF KeyBlockKey, inputs
<1>5. CASE DataKeyInside(k)
  <2> DEFINE h == [size |-> kb.size, sig |-> UsedSig(kb), key |-> k]
  <2>1. at' = (IF hash_only THEN "accepted" ELSE "datakey") /\ kb' = h /\ pre' = pre
    BY <1>1, <1>5 DEF Goes
  <2>2. h.size = kb.size /\ h.sig = UsedSig(kb) /\ h.key = k
    OBVIOUS
  <2> HIDE DEF h
  <2>3. TypeOK'
    <3>1. at' \in Steps
      BY <2>1 DEF Steps
    <3>2. kb.size \in Nat /\ size \in Nat /\ kb.size + pre.size <= size /\ pre.size \in Nat
          /\ fv \in Nat \cup {-1}
      BY <1>3 DEF TypeOK, rest, now
    <3> QED
      BY <2>1, <2>2, <3>1, <3>2, <1>3, <1>4, StepType
  <2>4. Within(KbKeyAt, KeyStruct, k, UsedSig(kb).data)
    BY <1>2, <1>3, <1>5, KeyInside, Constants DEF DataKeyInside, IsSig
  <2> QED
    BY <2>1, <2>2, <2>3, <2>4, <1>2, <1>3, <1>4
    DEF VInv, KbChecked, PreChecked, ReadsInside, TypeOK
<1>6. CASE ~DataKeyInside(k)
  <2>1. at' = "rejected" /\ kb' = NoHeader /\ pre' = NoHeader
    BY <1>1, <1>6 DEF Goes
  <2> QED
    BY <2>1, <1>3, <1>4, RejectedOK DEF TypeOK, ReadsInside
<1> QED
  BY <1>5, <1>6

\* So does PublicKeyToRSA().
LEMMA StepDataKey ==
    ASSUME VInv, DataKey
    PROVE  VInv' /\ ReadsInside'
<1>1. PICK parsed \in BOOLEAN :
        Goes(/\ kb.key.alg \in Algorithms
             /\ kb.key.size = ProcessedKeySize(kb.key.alg)
             /\ parsed, "preamble", kb, pre)
  BY DEF DataKey
<1>2. /\ TypeOK /\ at = "datakey" /\ ~hash_only /\ pre = NoHeader
      /\ IsSig(kb.sig) /\ kb.sig.data <= kb.size
      /\ IsKey(kb.key) /\ Within(KbKeyAt, KeyStruct, kb.key, kb.sig.data)
  BY DEF VInv, DataKey, KbChecked, PreChecked
<1>3. /\ size' = size /\ fv' = fv /\ hash_only' = hash_only /\ sign_alg' = sign_alg
      /\ reads' = {KeyData(KbKeyAt, kb.key)}
  BY DEF DataKey, inputs
<1>4. ReadsInside'
  BY <1>2, <1>3, Constants
  DEF ReadsInside, KeyData, Range, IsSig, IsKey, Within, TypeOK, rest, now
<1>5. CASE at' = "preamble" /\ kb' = kb /\ pre' = pre /\ kb.key.alg \in Algorithms
  <2>1. TypeOK'
    BY <1>2, <1>3, <1>5 DEF TypeOK, Steps, rest, now
  <2>2. KbChecked' /\ ~PreChecked'
    BY <1>2, <1>3, <1>5 DEF KbChecked, PreChecked
  <2>3. /\ IsSig(kb.sig)' /\ (kb.sig.data <= kb.size)'
        /\ IsKey(kb.key)' /\ Within(KbKeyAt, KeyStruct, kb.key, kb.sig.data)'
        /\ (kb.key.alg \in Algorithms)'
    BY <1>2, <1>5 DEF IsSig, IsKey, Within
  <2> QED
    BY <2>1, <2>2, <2>3, <1>2, <1>3, <1>4, <1>5 DEF VInv
<1>6. CASE at' = "rejected" /\ kb' = NoHeader /\ pre' = NoHeader
  <2>1. fv' \in Nat \cup {-1}
    BY <1>2, <1>3 DEF TypeOK
  <2> QED
    BY <2>1, <1>6, <1>2, <1>3, <1>4, RejectedOK
<1> QED
  BY <1>1, <1>4, <1>5, <1>6 DEF Goes

\* What is known of the key block from the preamble on; no later step changes it.
KbFacts ==
    /\ IsSig(kb.sig) /\ kb.sig.data <= kb.size
    /\ IsKey(kb.key) /\ Within(KbKeyAt, KeyStruct, kb.key, kb.sig.data)
    /\ kb.key.alg \in Algorithms

\* The words of a preamble header.
LEMMA PreambleWords ==
    ASSUME MadeOK, NEW h \in Preambles
    PROVE  IsSig(h.sig) /\ h.size \in Nat
<1>1. CASE Made
  BY <1>1 DEF Preambles, MadeOK
<1>2. CASE ~Made
  <2>1. PICK g \in BOOLEAN, n \in Fields, s \in Signatures :
           h = [good |-> g, size |-> n, sig |-> s]
    BY <1>2 DEF Preambles
  <2> QED
    BY <2>1, FieldsAreNat
<1> QED
  BY <1>1, <1>2

\* VerifyFirmwarePreamble() keeps the invariant and reads inside the file.
LEMMA StepPreambleSignature ==
    ASSUME VInv, MadeOK, PreambleSignature
    PROVE  VInv' /\ ReadsInside'
<1>1. PICK h \in Preambles, good \in BOOLEAN :
        /\ Goes(PreambleSane(h) /\ good /\ h.sig.data >= PreHeader, "prebody", kb, h)
        /\ reads' = (IF rest >= PreHeader20 THEN {Range(now, PreHeader20)} ELSE {})
                    \cup IF PreambleSane(h)
                         THEN {Range(now, h.sig.data), SigData(now + PreSigAt, h.sig)}
                         ELSE {}
  <2>1. \A h : \A good \in PreambleSigned(h) : good \in BOOLEAN
    BY DEF PreambleSigned
  <2> QED
    BY <2>1 DEF PreambleSignature
<1>2. IsSig(h.sig) /\ h.size \in Nat
  BY PreambleWords
<1>3. TypeOK /\ at = "preamble" /\ ~hash_only /\ KbFacts
  BY DEF VInv, PreambleSignature, KbChecked, KbFacts
<1>4. size' = size /\ fv' = fv /\ hash_only' = hash_only /\ sign_alg' = sign_alg
  BY DEF PreambleSignature, inputs
<1>5. PreambleSane(h) => /\ rest >= h.size /\ h.size >= h.sig.data
                         /\ Within(PreSigAt, SigStruct, h.sig, h.size)
  BY <1>2, SignatureInside, Constants DEF PreambleSane
<1>6. now \in Nat /\ rest \in Nat /\ now + rest = size /\ size \in Nat
  BY <1>3 DEF TypeOK, rest, now
<1>7. ReadsInside'
  <2>1. SUFFICES ASSUME NEW r \in reads'
                 PROVE  /\ 0 <= r.from /\ r.from <= r.to
                        /\ r.to <= IF r.file = "image" THEN size' ELSE fv'
    BY DEF ReadsInside
  <2>2. CASE r = Range(now, PreHeader20) /\ rest >= PreHeader20
    BY <2>2, <1>4, <1>6, Constants DEF Range
  <2>3. CASE r = Range(now, h.sig.data) /\ PreambleSane(h)
    BY <2>3, <1>2, <1>4, <1>5, <1>6 DEF Range, IsSig
  <2>4. CASE r = SigData(now + PreSigAt, h.sig) /\ PreambleSane(h)
    BY <2>4, <1>2, <1>4, <1>5, <1>6, Constants DEF Range, SigData, IsSig, Within
  <2> QED
    BY <1>1, <2>1, <2>2, <2>3, <2>4
<1>8. CASE PreambleSane(h) /\ good /\ h.sig.data >= PreHeader
  <2>1. at' = "prebody" /\ kb' = kb /\ pre' = h
    BY <1>1, <1>8 DEF Goes
  <2>2. TypeOK'
    BY <2>1, <1>2, <1>3, <1>4, <1>5, <1>8 DEF Steps, TypeOK, rest, now
  <2>3. KbChecked' /\ PreChecked' /\ KbFacts'
    BY <2>1, <1>3 DEF KbChecked, PreChecked, KbFacts, IsSig, IsKey, Within
  <2>4. IsSig(pre.sig)' /\ (pre.sig.data <= pre.size)' /\ (PreHeader <= pre.sig.data)'
    BY <2>1, <1>2, <1>5, <1>8, Constants DEF IsSig
  <2> QED
    BY <2>1, <2>2, <2>3, <2>4, <1>3, <1>4, <1>7 DEF VInv, KbFacts
<1>9. CASE ~(PreambleSane(h) /\ good /\ h.sig.data >= PreHeader)
  <2>1. at' = "rejected" /\ kb' = NoHeader /\ pre' = NoHeader
    BY <1>1, <1>9 DEF Goes
  <2>2. fv' \in Nat \cup {-1}
    BY <1>3, <1>4 DEF TypeOK
  <2> QED
    BY <2>1, <2>2, <1>3, <1>4, <1>7, RejectedOK
<1> QED
  BY <1>8, <1>9

\* The check of the body signature keeps the invariant.
LEMMA StepPreambleBodySig ==
    ASSUME VInv, MadeOK, PreambleBodySig
    PROVE  VInv' /\ ReadsInside'
<1>1. PICK s \in IF Made THEN {made.pre.header.bodysig} ELSE Signatures :
        Goes(VerifySignatureInside(pre.sig.data, BodySigAt, s), "presubkey", kb,
             [size |-> pre.size, sig |-> pre.sig, bodysig |-> s])
  BY DEF PreambleBodySig
<1>2. IsSig(s)
  BY FieldsAreNat DEF MadeOK
<1>3. /\ TypeOK /\ at = "prebody" /\ ~hash_only /\ KbFacts
      /\ IsSig(pre.sig) /\ pre.sig.data <= pre.size /\ PreHeader <= pre.sig.data
  BY DEF VInv, PreambleBodySig, KbChecked, PreChecked, KbFacts
<1>4. /\ size' = size /\ fv' = fv /\ hash_only' = hash_only /\ sign_alg' = sign_alg
      /\ reads' = {}
  BY DEF PreambleBodySig, inputs
<1>5. ReadsInside'
  BY <1>4 DEF ReadsInside
<1>6. CASE VerifySignatureInside(pre.sig.data, BodySigAt, s)
  <2> DEFINE p == [size |-> pre.size, sig |-> pre.sig, bodysig |-> s]
  <2>1. at' = "presubkey" /\ kb' = kb /\ pre' = p
    BY <1>1, <1>6 DEF Goes
  <2>2. p.size = pre.size /\ p.sig = pre.sig /\ p.bodysig = s
    OBVIOUS
  <2> HIDE DEF p
  <2>3. TypeOK'
    BY <2>1, <2>2, <1>3, <1>4 DEF Steps, TypeOK, rest, now
  <2>4. KbChecked' /\ PreChecked' /\ KbFacts'
    BY <2>1, <1>3 DEF KbChecked, PreChecked, KbFacts, IsSig, IsKey, Within
  <2>5. Within(BodySigAt, SigStruct, s, pre.sig.data)
    BY <1>2, <1>3, <1>6, SignatureInside, Constants DEF IsSig
  <2>6. /\ IsSig(pre.sig)' /\ (pre.sig.data <= pre.size)' /\ (PreHeader <= pre.sig.data)'
        /\ IsSig(pre.bodysig)' /\ Within(BodySigAt, SigStruct, pre.bodysig, pre.sig.data)'
    BY <2>1, <2>2, <2>5, <1>2, <1>3 DEF IsSig, Within
  <2> QED
    BY <2>1, <2>3, <2>4, <2>6, <1>3, <1>4, <1>5 DEF VInv, KbFacts
<1>7. CASE ~VerifySignatureInside(pre.sig.data, BodySigAt, s)
  <2>1. at' = "rejected" /\ kb' = NoHeader /\ pre' = NoHeader
    BY <1>1, <1>7 DEF Goes
  <2>2. fv' \in Nat \cup {-1}
    BY <1>3, <1>4 DEF TypeOK
  <2> QED
    BY <2>1, <2>2, <1>3, <1>4, <1>5, RejectedOK
<1> QED
  BY <1>6, <1>7

\* The check of the kernel subkey and of the flags keeps the invariant.
LEMMA StepPreambleSubkey ==
    ASSUME VInv, MadeOK, PreambleSubkey
    PROVE  VInv' /\ ReadsInside'
<1>1. PICK k \in IF Made THEN {made.pre.header.subkey} ELSE Subkeys,
           minor \in IF Made THEN {made.pre.header.minor} ELSE {0, 1},
           ro \in IF Made THEN {made.pre.header.ro} ELSE BOOLEAN :
        /\ Goes(/\ VerifyPublicKeyInside(pre.sig.data, SubkeyAt, k)
                /\ minor >= 1 => rest >= PreHeader,
                "body", kb,
                [size |-> pre.size, sig |-> pre.sig, bodysig |-> pre.bodysig,
                 subkey |-> k, ro |-> (minor >= 1 /\ ro)])
        /\ reads' = IF at' = "rejected" THEN {}
                    ELSE {KeyData(now + SubkeyAt, k)}
                         \cup IF minor >= 1 THEN {Range(now, PreHeader)} ELSE {}
  BY DEF PreambleSubkey
<1>2. IsKey(k)
  BY FieldsAreNat DEF MadeOK
<1>3. /\ TypeOK /\ at = "presubkey" /\ ~hash_only /\ KbFacts
      /\ IsSig(pre.sig) /\ pre.sig.data <= pre.size /\ PreHeader <= pre.sig.data
      /\ IsSig(pre.bodysig) /\ Within(BodySigAt, SigStruct, pre.bodysig, pre.sig.data)
  BY DEF VInv, PreambleSubkey, KbChecked, PreChecked, KbFacts
<1>4. size' = size /\ fv' = fv /\ hash_only' = hash_only /\ sign_alg' = sign_alg
  BY DEF PreambleSubkey, inputs
<1> DEFINE ok == /\ VerifyPublicKeyInside(pre.sig.data, SubkeyAt, k)
                 /\ minor >= 1 => rest >= PreHeader
           p == [size |-> pre.size, sig |-> pre.sig, bodysig |-> pre.bodysig,
                 subkey |-> k, ro |-> (minor >= 1 /\ ro)]
<1>5. CASE ok
  <2>1. at' = "body" /\ kb' = kb /\ pre' = p
    BY <1>1, <1>5 DEF Goes
  <2>2. p.size = pre.size /\ p.sig = pre.sig /\ p.bodysig = pre.bodysig /\ p.subkey = k
    OBVIOUS
  <2>3. minor >= 1 => rest >= PreHeader
    BY <1>5
  <2> HIDE DEF p
  <2>4. TypeOK'
    BY <2>1, <2>2, <1>3, <1>4 DEF Steps, TypeOK, rest, now
  <2>5. KbChecked' /\ PreChecked' /\ KbFacts'
    BY <2>1, <1>3 DEF KbChecked, PreChecked, KbFacts, IsSig, IsKey, Within
  <2>6. Within(SubkeyAt, KeyStruct, k, pre.sig.data)
    BY <1>2, <1>3, <1>5, KeyInside, Constants DEF IsSig
  <2>7. /\ IsSig(pre.sig)' /\ (pre.sig.data <= pre.size)' /\ (PreHeader <= pre.sig.data)'
        /\ IsSig(pre.bodysig)' /\ Within(BodySigAt, SigStruct, pre.bodysig, pre.sig.data)'
        /\ IsKey(pre.subkey)' /\ Within(SubkeyAt, KeyStruct, pre.subkey, pre.sig.data)'
    BY <2>1, <2>2, <2>6, <1>2, <1>3 DEF IsSig, IsKey, Within
  <2>8. ReadsInside'
    <3>1. now \in Nat /\ rest \in Nat /\ now + rest = size /\ pre.size <= rest
          /\ pre.size \in Nat
      BY <1>3 DEF TypeOK, rest, now
    <3>2. reads' = {KeyData(now + SubkeyAt, k)}
                   \cup IF minor >= 1 THEN {Range(now, PreHeader)} ELSE {}
      BY <1>1, <2>1
    <3>3. SUFFICES ASSUME NEW r \in reads'
                   PROVE  /\ 0 <= r.from /\ r.from <= r.to
                          /\ r.to <= IF r.file = "image" THEN size' ELSE fv'
      BY DEF ReadsInside
    <3>4. CASE r = KeyData(now + SubkeyAt, k)
      BY <3>1, <3>4, <2>6, <1>2, <1>3, <1>4, Constants DEF KeyData, Range, IsKey, IsSig, Within
    <3>5. CASE r = Range(now, PreHeader) /\ rest >= PreHeader
      BY <3>1, <3>5, <1>4, Constants DEF Range
    <3> QED
      BY <2>3, <3>2, <3>3, <3>4, <3>5
  <2> QED
    BY <2>1, <2>4, <2>5, <2>7, <2>8, <1>3, <1>4 DEF VInv, KbFacts
<1>6. CASE ~ok
  <2>1. at' = "rejected" /\ kb' = NoHeader /\ pre' = NoHeader /\ reads' = {}
    BY <1>1, <1>6 DEF Goes
  <2>2. fv' \in Nat \cup {-1}
    BY <1>3, <1>4 DEF TypeOK
  <2>3. ReadsInside'
    BY <2>1 DEF ReadsInside
  <2> QED
    BY <2>1, <2>2, <2>3, <1>3, <1>4, RejectedOK
<1> QED
  BY <1>5, <1>6

\* The check of the body keeps the invariant and reads inside its file.
LEMMA StepVerifyBody ==
    ASSUME VInv, VerifyBody
    PROVE  VInv' /\ ReadsInside'
<1>1. PICK n \in IF Made THEN {fv} ELSE {-1} \cup Sizes, good \in BOOLEAN :
        /\ fv' = n
        /\ Goes(pre.ro \/ (BodySane(n) /\ good), "accepted", kb, pre)
        /\ reads' = IF pre.ro \/ ~BodySane(n) THEN {}
                    ELSE {SigData(now + BodySigAt, pre.bodysig),
                          LET from == IF n = -1 THEN now + pre.size ELSE 0
                          IN  [file |-> Body(n # -1), from |-> from,
                               to |-> from + pre.bodysig.data]}
  BY DEF VerifyBody
<1>2. /\ TypeOK /\ at = "body" /\ ~hash_only /\ KbFacts
      /\ IsSig(pre.sig) /\ pre.sig.data <= pre.size /\ PreHeader <= pre.sig.data
      /\ IsSig(pre.bodysig) /\ Within(BodySigAt, SigStruct, pre.bodysig, pre.sig.data)
      /\ IsKey(pre.subkey) /\ Within(SubkeyAt, KeyStruct, pre.subkey, pre.sig.data)
  BY DEF VInv, VerifyBody, KbChecked, PreChecked, KbFacts
<1>3. n \in Nat \cup {-1} /\ fv' = n
  BY <1>1, <1>2, FieldsAreNat DEF TypeOK
<1>4. size' = size /\ hash_only' = hash_only /\ sign_alg' = sign_alg
  BY DEF VerifyBody
<1>5. now \in Nat /\ rest \in Nat /\ now + rest = size /\ pre.size <= rest /\ pre.size \in Nat
  BY <1>2 DEF TypeOK, rest, now
<1>6. ReadsInside'
  <2> DEFINE from == IF n = -1 THEN now + pre.size ELSE 0
             fw == [file |-> Body(n # -1), from |-> from, to |-> from + pre.bodysig.data]
  <2>1. SUFFICES ASSUME NEW r \in reads'
                 PROVE  /\ 0 <= r.from /\ r.from <= r.to
                        /\ r.to <= IF r.file = "image" THEN size' ELSE fv'
    BY DEF ReadsInside
  <2>2. BodySane(n) /\ (r = SigData(now + BodySigAt, pre.bodysig) \/ r = fw)
    BY <1>1, <2>1
  <2>3. CASE r = SigData(now + BodySigAt, pre.bodysig)
    BY <2>3, <1>2, <1>4, <1>5, Constants DEF SigData, Range, IsSig, Within
  <2>4. CASE r = fw
    BY <2>2, <2>4, <1>2, <1>3, <1>4, <1>5 DEF BodySane, BodySize, Body, IsSig
  <2> QED
    BY <2>2, <2>3, <2>4
<1>7. CASE at' = "accepted" /\ kb' = kb /\ pre' = pre
  <2>1. TypeOK'
    BY <1>7, <1>2, <1>3, <1>4 DEF Steps, TypeOK, rest, now
  <2>2. KbChecked' /\ PreChecked' /\ KbFacts'
    BY <1>7, <1>2, <1>4 DEF KbChecked, PreChecked, KbFacts, IsSig, IsKey, Within
  <2>3. /\ IsSig(pre.sig)' /\ (pre.sig.data <= pre.size)' /\ (PreHeader <= pre.sig.data)'
        /\ IsSig(pre.bodysig)' /\ Within(BodySigAt, SigStruct, pre.bodysig, pre.sig.data)'
        /\ IsKey(pre.subkey)' /\ Within(SubkeyAt, KeyStruct, pre.subkey, pre.sig.data)'
    BY <1>7, <1>2 DEF IsSig, IsKey, Within
  <2> QED
    BY <1>7, <2>1, <2>2, <2>3, <1>6 DEF VInv, KbFacts
<1>8. CASE at' = "rejected" /\ kb' = NoHeader /\ pre' = NoHeader
  BY <1>8, <1>2, <1>3, <1>4, <1>6, RejectedOK
<1> QED
  BY <1>1, <1>7, <1>8 DEF Goes

\* No variable changes.
LEMMA StutterVInv ==
    ASSUME VInv, ReadsInside, UNCHANGED vars
    PROVE  VInv' /\ ReadsInside'
BY DEF vars, VInv, ReadsInside, TypeOK, rest, now, KbChecked, PreChecked, UsedSig, IsSig,
       IsKey, Within

-----------------------------------------------------------------------------
\* The invariant with what the steps need to keep it.
VIndInv == VInv /\ MadeBy /\ ReadsInside

LEMMA Inductive == Spec => []VIndInv
<1>1. Init => VIndInv
  BY InitVInv, InitMadeBy DEF Init, ReadsInside, VIndInv
<1>2. VIndInv /\ [Next]_vars => VIndInv'
  BY MadeHeaders, StepMadeBy, StepKeyBlockSignature, StepKeyBlockKey, StepDataKey,
     StepPreambleSignature, StepPreambleBodySig, StepPreambleSubkey, StepVerifyBody,
     StutterVInv DEF Next, VIndInv
<1> QED
  BY <1>1, <1>2, PTL DEF Spec

\* At every step of Verify() the headers read so far have passed the checks
\* before that step, whatever words they hold.
THEOREM VerifyInvariant == Spec => []VInv
BY Inductive, PTL DEF VIndInv

\* What is left of the file after the key block and the preamble does not wrap.
THEOREM TypeCorrect == Spec => []TypeOK
<1>1. VInv => TypeOK
  BY DEF VInv
<1> QED
  BY <1>1, VerifyInvariant, PTL

\* No step of Verify() reads outside the file, for every size of the words.
THEOREM NoReadOutside == Spec => []ReadsInside
BY Inductive, PTL DEF VIndInv

\* Everything that Verify() goes by was under a signature or a checksum.
THEOREM AcceptedWasSigned == Spec => []AcceptedIsSigned
<1>1. VInv => AcceptedIsSigned
  BY DEF VInv, AcceptedIsSigned, KbChecked, PreChecked, TypeOK, rest, now
<1> QED
  BY <1>1, VerifyInvariant, PTL

\* The parts of every image that the tool makes lie inside its blocks and apart
\* from each other, for every layout of the headers and every length of the keys.
THEOREM MadePartsApart == Spec => []PartsApart
<1>1. MadeBy => PartsApart
  <2> SUFFICES ASSUME MadeBy, Made PROVE PartsApart
    BY DEF PartsApart
  <2>1. PICK root \in Algorithms, alg \in Algorithms, subkey \in Algorithms, body \in Nat,
             flags \in BOOLEAN : made = Image(root, alg, subkey, body, flags)
    BY DEF MadeBy
  <2>2. made.kb = KeyBlockCreate(root, alg)
        /\ made.pre = CreateFirmwarePreamble(alg, subkey, body, flags)
    BY <2>1 DEF Image
  <2> DEFINE h == made.kb.header
             p == made.pre.header
             key == ProcessedKeySize(alg)
             sub == ProcessedKeySize(subkey)
  <2>3. /\ SigLen[root] \in Nat /\ SigLen[alg] \in Nat /\ key \in Nat /\ sub \in Nat
    BY KeySizes
  <2>4. /\ h.size = KbHeader + key + ChecksumSize + SigLen[root]
        /\ h.key = PublicKeyPut(KbKeyAt, KbHeader, alg)
        /\ h.chk = SignatureInit(KbChkAt, KbHeader + key, ChecksumSize, KbHeader + key)
        /\ h.sig = SignatureInit(KbSigAt, KbHeader + key + ChecksumSize, SigLen[root],
                                 KbHeader + key)
    <3> DEFINE K == [good |-> TRUE,
                     size |-> KbHeader + key + ChecksumSize + SigLen[root],
                     key  |-> PublicKeyPut(KbKeyAt, KbHeader, alg),
                     chk  |-> SignatureInit(KbChkAt, KbHeader + key, ChecksumSize,
                                            KbHeader + key),
                     sig  |-> SignatureInit(KbSigAt, KbHeader + key + ChecksumSize,
                                            SigLen[root], KbHeader + key)]
    <3>1. KeyBlockCreate(root, alg).header = K
      BY KeyBlockMade
    <3> HIDE DEF K
    <3>2. h = K
      BY <2>2, <3>1
    <3> HIDE DEF h
    <3> QED
      BY <3>2 DEF K
  <2>5. /\ p.size = PreHeader + sub + SigLen[alg] + SigLen[alg]
        /\ p.subkey = PublicKeyPut(SubkeyAt, PreHeader, subkey)
        /\ p.bodysig = SignatureInit(BodySigAt, PreHeader + sub, SigLen[alg], body)
        /\ p.sig = SignatureInit(PreSigAt, PreHeader + sub + SigLen[alg], SigLen[alg],
                                 PreHeader + sub + SigLen[alg])
    <3> DEFINE P == [good    |-> TRUE, minor |-> 1, ro |-> flags,
                     size    |-> PreHeader + sub + SigLen[alg] + SigLen[alg],
                     subkey  |-> PublicKeyPut(SubkeyAt, PreHeader, subkey),
                     bodysig |-> SignatureInit(BodySigAt, PreHeader + sub, SigLen[alg], body),
                     sig     |-> SignatureInit(PreSigAt, PreHeader + sub + SigLen[alg],
                                               SigLen[alg], PreHeader + sub + SigLen[alg])]
    <3>1. CreateFirmwarePreamble(alg, subkey, body, flags).header = P
      BY PreambleMade
    <3> HIDE DEF P
    <3>2. p = P
      BY <2>2, <3>1
    <3> HIDE DEF p
    <3> QED
      BY <3>2 DEF P
  <2> HIDE DEF h, p
  <2>6. /\ KeyData(KbKeyAt, h.key) = Range(KbHeader, key)
        /\ SigData(KbChkAt, h.chk) = Range(KbHeader + key, ChecksumSize)
        /\ SigData(KbSigAt, h.sig) = Range(KbHeader + key + ChecksumSize, SigLen[root])
    BY <2>3, <2>4, Constants DEF KeyData, SigData, PublicKeyPut, SignatureInit
  <2>7. /\ KeyData(SubkeyAt, p.subkey) = Range(PreHeader, sub)
        /\ SigData(BodySigAt, p.bodysig) = Range(PreHeader + sub, SigLen[alg])
        /\ SigData(PreSigAt, p.sig) = Range(PreHeader + sub + SigLen[alg], SigLen[alg])
    BY <2>3, <2>5, Constants DEF KeyData, SigData, PublicKeyPut, SignatureInit
  <2> HIDE DEF key, sub
  <2>8. \A a \in {Range(KbHeader, key), Range(KbHeader + key, ChecksumSize),
                  Range(KbHeader + key + ChecksumSize, SigLen[root])} :
          /\ KbHeader <= a.from /\ a.to <= h.size
          /\ \A b \in {Range(KbHeader, key), Range(KbHeader + key, ChecksumSize),
                       Range(KbHeader + key + ChecksumSize, SigLen[root])} :
                a = b \/ Apart(a, b)
    BY <2>3, <2>4, Constants DEF Range, Apart
  <2>9. \A a \in {Range(PreHeader, sub), Range(PreHeader + sub, SigLen[alg]),
                  Range(PreHeader + sub + SigLen[alg], SigLen[alg])} :
          /\ PreHeader <= a.from /\ a.to <= p.size
          /\ \A b \in {Range(PreHeader, sub), Range(PreHeader + sub, SigLen[alg]),
                       Range(PreHeader + sub + SigLen[alg], SigLen[alg])} :
                a = b \/ Apart(a, b)
    BY <2>3, <2>5, Constants DEF Range, Apart
  <2> QED
    BY <2>6, <2>7, <2>8, <2>9 DEF PartsApart, h, p
<1> QED
  BY <1>1, Inductive, PTL DEF VIndInv

-----------------------------------------------------------------------------
(* What the tool makes passes every check.                                 *)

\* The converse of InsideIsInside: VerifyMemberInside() finds no fault with a
\* struct and data that are inside the parent; nor do the checks of a signature
\* and of a key that were put there.
LEMMA FitsInside ==
    ASSUME NEW parent \in Nat, NEW offset \in Nat, NEW struct \in Nat,
           NEW dest \in Nat, NEW n \in Nat,
           parent <= MaxWord, offset + struct <= parent, offset <= dest, dest + n <= parent
    PROVE  VerifyMemberInside(parent, offset, struct, dest - offset, n)
<1>1. MaxWord \in Nat
  BY Constants
<1>2. Add(offset, struct) = offset + struct /\ Add(offset, dest - offset) = dest
      /\ Add(dest, n) = dest + n
  BY <1>1 DEF Add
<1> QED
  BY <1>1, <1>2 DEF VerifyMemberInside

LEMMA SignatureFits ==
    ASSUME NEW parent \in Nat, NEW offset \in Nat, NEW dest \in Nat, NEW n \in Nat,
           parent <= MaxWord, offset + SigStruct <= parent, offset <= dest, dest + n <= parent,
           NEW d
    PROVE  VerifySignatureInside(parent, offset, SignatureInit(offset, dest, n, d))
<1>1. VerifyMemberInside(parent, offset, SigStruct, dest - offset, n)
  BY FitsInside, Constants
<1> QED
  BY <1>1 DEF VerifySignatureInside, SignatureInit

LEMMA KeyFits ==
    ASSUME NEW parent \in Nat, NEW offset \in Nat, NEW dest \in Nat, NEW alg \in Algorithms,
           parent <= MaxWord, offset + KeyStruct <= parent, offset <= dest,
           dest + ProcessedKeySize(alg) <= parent
    PROVE  VerifyPublicKeyInside(parent, offset, PublicKeyPut(offset, dest, alg))
<1>1. VerifyMemberInside(parent, offset, KeyStruct, dest - offset, ProcessedKeySize(alg))
  BY FitsInside, Constants, KeySizes
<1> QED
  BY <1>1 DEF VerifyPublicKeyInside, PublicKeyPut

\* The other fields of a signature and a key that were put somewhere.
LEMMA PutFields ==
    /\ \A offset, dest, n, d : /\ SignatureInit(offset, dest, n, d).size = n
                               /\ SignatureInit(offset, dest, n, d).data = d
    /\ \A offset, dest, alg : /\ PublicKeyPut(offset, dest, alg).size = ProcessedKeySize(alg)
                              /\ PublicKeyPut(offset, dest, alg).alg = alg
BY DEF SignatureInit, PublicKeyPut

\* Each check of Verify(), of the headers that the tool made.
KeyBlockFits ==
    LET h == made.kb.header
    IN  /\ h.good /\ made.kb.chkOver = h /\ made.kb.sigOver = h
        /\ KbHeader <= h.size
        /\ VerifySignatureInside(h.size, KbSigAt, h.sig) /\ h.sig.size = SigLen[sign_alg]
        /\ VerifySignatureInside(h.size, KbChkAt, h.chk) /\ h.chk.size = ChecksumSize
        /\ KbHeader <= h.sig.data /\ h.sig.data <= h.size /\ h.chk.data = h.sig.data
        /\ VerifyPublicKeyInside(h.size, KbKeyAt, h.key)
        /\ VerifyPublicKeyInside(h.sig.data, KbKeyAt, h.key)
        /\ h.key.alg \in Algorithms /\ h.key.size = ProcessedKeySize(h.key.alg)

PreambleFits ==
    LET h == made.kb.header
        p == made.pre.header
    IN  /\ p.good /\ made.pre.sigOver = p
        /\ PreHeader <= p.size
        /\ VerifySignatureInside(p.size, PreSigAt, p.sig) /\ p.sig.size = SigLen[h.key.alg]
        /\ PreHeader <= p.sig.data /\ p.sig.data <= p.size
        /\ VerifySignatureInside(p.sig.data, BodySigAt, p.bodysig)
        /\ p.bodysig.size = SigLen[h.key.alg]
        /\ VerifyPublicKeyInside(p.sig.data, SubkeyAt, p.subkey)

FileFits ==
    LET h == made.kb.header
        p == made.pre.header
    IN  /\ h.size + p.size <= size
        /\ p.bodysig.data <= IF fv = -1 THEN size - h.size - p.size ELSE fv

MadeFits == Made => KeyBlockFits /\ PreambleFits /\ FileFits

\* They all hold of what Vblock() writes.
LEMMA InitMadeFits == Init => MadeFits
<1> SUFFICES ASSUME Init, Made PROVE KeyBlockFits /\ PreambleFits /\ FileFits
  BY DEF MadeFits
<1>1. InitMade
  BY DEF Init, InitElsewhere, Made
<1>2. PICK root \in Algorithms, alg \in Algorithms, subkey \in Algorithms,
           body \in Sizes \ {0}, flags \in BOOLEAN, only \in BOOLEAN :
         LET image == Image(root, alg, subkey, body, flags)
             blocks == image.kb.header.size + image.pre.header.size
         IN  /\ blocks + body <= MaxWord
             /\ made = image /\ sign_alg = root
             /\ size = blocks + IF only THEN 0 ELSE body
             /\ fv = IF only THEN body ELSE -1
  BY <1>1 DEF InitMade
<1>3. body \in Nat
  BY FieldsAreNat
<1>4. /\ made.kb = KeyBlockCreate(root, alg)
      /\ made.pre = CreateFirmwarePreamble(alg, subkey, body, flags)
  BY <1>2 DEF Image
<1> DEFINE h == made.kb.header
           p == made.pre.header
           key == ProcessedKeySize(alg)
           sub == ProcessedKeySize(subkey)
<1>5. /\ SigLen[root] \in Nat /\ SigLen[alg] \in Nat /\ key \in Nat /\ sub \in Nat
  BY KeySizes
<1>6. /\ h.size + p.size + body <= MaxWord
      /\ sign_alg = root
      /\ size = h.size + p.size + IF only THEN 0 ELSE body
      /\ fv = IF only THEN body ELSE -1
  BY <1>2
<1>7. /\ h.good /\ made.kb.chkOver = h /\ made.kb.sigOver = h
      /\ h.size = KbHeader + key + ChecksumSize + SigLen[root]
      /\ h.key = PublicKeyPut(KbKeyAt, KbHeader, alg)
      /\ h.chk = SignatureInit(KbChkAt, KbHeader + key, ChecksumSize, KbHeader + key)
      /\ h.sig = SignatureInit(KbSigAt, KbHeader + key + ChecksumSize, SigLen[root],
                               KbHeader + key)
  <2> DEFINE K == [good |-> TRUE,
                   size |-> KbHeader + key + ChecksumSize + SigLen[root],
                   key  |-> PublicKeyPut(KbKeyAt, KbHeader, alg),
                   chk  |-> SignatureInit(KbChkAt, KbHeader + key, ChecksumSize,
                                          KbHeader + key),
                   sig  |-> SignatureInit(KbSigAt, KbHeader + key + ChecksumSize,
                                          SigLen[root], KbHeader + key)]
  <2>1. /\ KeyBlockCreate(root, alg).header = K
        /\ KeyBlockCreate(root, alg).chkOver = KeyBlockCreate(root, alg).header
        /\ KeyBlockCreate(root, alg).sigOver = KeyBlockCreate(root, alg).header
    BY KeyBlockMade
  <2> HIDE DEF K
  <2>2. h = K /\ made.kb.chkOver = h /\ made.kb.sigOver = h
    BY <1>4, <2>1
  <2> HIDE DEF h
  <2> QED
    BY <2>2 DEF K
<1>8. /\ p.good /\ made.pre.sigOver = p
      /\ p.size = PreHeader + sub + SigLen[alg] + SigLen[alg]
      /\ p.subkey = PublicKeyPut(SubkeyAt, PreHeader, subkey)
      /\ p.bodysig = SignatureInit(BodySigAt, PreHeader + sub, SigLen[alg], body)
      /\ p.sig = SignatureInit(PreSigAt, PreHeader + sub + SigLen[alg], SigLen[alg],
                               PreHeader + sub + SigLen[alg])
  <2> DEFINE P == [good    |-> TRUE, minor |-> 1, ro |-> flags,
                   size    |-> PreHeader + sub + SigLen[alg] + SigLen[alg],
                   subkey  |-> PublicKeyPut(SubkeyAt, PreHeader, subkey),
                   bodysig |-> SignatureInit(BodySigAt, PreHeader + sub, SigLen[alg], body),
                   sig     |-> SignatureInit(PreSigAt, PreHeader + sub + SigLen[alg],
                                             SigLen[alg], PreHeader + sub + SigLen[alg])]
  <2>1. /\ CreateFirmwarePreamble(alg, subkey, body, flags).header = P
        /\ CreateFirmwarePreamble(alg, subkey, body, flags).sigOver
             = CreateFirmwarePreamble(alg, subkey, body, flags).header
    BY <1>3, PreambleMade
  <2> HIDE DEF P
  <2>2. p = P /\ made.pre.sigOver = p
    BY <1>4, <2>1
  <2> HIDE DEF p
  <2> QED
    BY <2>2 DEF P
<1>9. /\ KbSigAt + SigStruct <= KbHeader /\ KbChkAt + SigStruct <= KbHeader
      /\ KbKeyAt + KeyStruct <= KbHeader
      /\ PreSigAt + SigStruct <= PreHeader /\ SubkeyAt + KeyStruct <= PreHeader
      /\ BodySigAt + SigStruct <= PreHeader
  BY VbootAssumption
<1> HIDE DEF h, p
<1>10. /\ h.key.size = key /\ h.key.alg = alg
       /\ h.chk.size = ChecksumSize /\ h.chk.data = KbHeader + key
       /\ h.sig.size = SigLen[root] /\ h.sig.data = KbHeader + key
  BY <1>7, PutFields
<1>11. /\ p.bodysig.size = SigLen[alg] /\ p.bodysig.data = body
       /\ p.sig.size = SigLen[alg] /\ p.sig.data = PreHeader + sub + SigLen[alg]
  BY <1>8, PutFields
<1>12. h.key.size = ProcessedKeySize(h.key.alg)
  BY <1>10
<1>h. h.size = KbHeader + key + ChecksumSize + SigLen[root]
  BY <1>7
<1>p. p.size = PreHeader + sub + SigLen[alg] + SigLen[alg]
  BY <1>8
<1>k. key = ProcessedKeySize(alg) /\ sub = ProcessedKeySize(subkey)
  OBVIOUS
<1> DEFINE kd == KbHeader + key
           ks == kd + ChecksumSize
           pd == PreHeader + sub
           ps == pd + SigLen[alg]
<1> HIDE DEF key, sub
<1>13. h.size \in Nat /\ p.size \in Nat /\ h.size <= MaxWord /\ p.size <= MaxWord
  BY <1>3, <1>5, <1>6, <1>h, <1>p, Constants
<1>d. /\ kd \in Nat /\ ks \in Nat /\ pd \in Nat /\ ps \in Nat
      /\ KbHeader <= kd /\ kd <= ks /\ ks + SigLen[root] = h.size /\ kd <= h.size
      /\ kd + ChecksumSize = ks /\ ks <= h.size
      /\ PreHeader <= pd /\ pd <= ps /\ ps + SigLen[alg] = p.size /\ ps <= p.size
      /\ pd + SigLen[alg] = ps
      /\ kd <= MaxWord /\ ps <= MaxWord
      /\ KbHeader + key = kd /\ PreHeader + sub = pd
  BY <1>5, <1>h, <1>p, <1>13, Constants
<1>e. /\ h.sig = SignatureInit(KbSigAt, ks, SigLen[root], kd)
      /\ h.chk = SignatureInit(KbChkAt, kd, ChecksumSize, kd)
      /\ h.sig.data = kd /\ h.chk.data = kd
      /\ h.key = PublicKeyPut(KbKeyAt, KbHeader, alg)
      /\ p.sig = SignatureInit(PreSigAt, ps, SigLen[alg], ps) /\ p.sig.data = ps
      /\ p.bodysig = SignatureInit(BodySigAt, pd, SigLen[alg], body)
      /\ p.subkey = PublicKeyPut(SubkeyAt, PreHeader, subkey)
  BY <1>7, <1>8, <1>10, <1>11
<1> HIDE DEF kd, ks, pd, ps
<1>14. /\ VerifySignatureInside(h.size, KbSigAt, h.sig)
       /\ VerifySignatureInside(h.size, KbChkAt, h.chk)
  <2>1. VerifySignatureInside(h.size, KbSigAt, SignatureInit(KbSigAt, ks, SigLen[root], kd))
    <3>1. h.size \in Nat /\ KbSigAt \in Nat /\ ks \in Nat /\ SigLen[root] \in Nat
          /\ h.size <= MaxWord /\ KbSigAt + SigStruct <= h.size /\ KbSigAt <= ks
          /\ ks + SigLen[root] <= h.size
      BY <1>5, <1>9, <1>d, <1>13, Constants
    <3> QED
      BY <3>1, SignatureFits
  <2>2. VerifySignatureInside(h.size, KbChkAt, SignatureInit(KbChkAt, kd, ChecksumSize, kd))
    <3>1. h.size \in Nat /\ KbChkAt \in Nat /\ kd \in Nat /\ ChecksumSize \in Nat
          /\ h.size <= MaxWord /\ KbChkAt + SigStruct <= h.size /\ KbChkAt <= kd
          /\ kd + ChecksumSize <= h.size
      BY <1>5, <1>9, <1>d, <1>13, Constants
    <3> QED
      BY <3>1, SignatureFits
  <2> QED
    BY <2>1, <2>2, <1>e
<1>15. /\ VerifyPublicKeyInside(h.size, KbKeyAt, h.key)
       /\ VerifyPublicKeyInside(h.sig.data, KbKeyAt, h.key)
  <2>1. VerifyPublicKeyInside(h.size, KbKeyAt, PublicKeyPut(KbKeyAt, KbHeader, alg))
    <3>1. h.size \in Nat /\ KbKeyAt \in Nat /\ KbHeader \in Nat
          /\ h.size <= MaxWord /\ KbKeyAt + KeyStruct <= h.size /\ KbKeyAt <= KbHeader
          /\ KbHeader + ProcessedKeySize(alg) <= h.size
      BY <1>5, <1>9, <1>d, <1>k, <1>13, Constants
    <3> QED
      BY <3>1, KeyFits
  <2>2. VerifyPublicKeyInside(kd, KbKeyAt, PublicKeyPut(KbKeyAt, KbHeader, alg))
    <3>1. kd \in Nat /\ KbKeyAt \in Nat /\ KbHeader \in Nat
          /\ kd <= MaxWord /\ KbKeyAt + KeyStruct <= kd /\ KbKeyAt <= KbHeader
          /\ KbHeader + ProcessedKeySize(alg) <= kd
      BY <1>5, <1>9, <1>d, <1>k, <1>13, Constants
    <3> QED
      BY <3>1, KeyFits
  <2> QED
    BY <2>1, <2>2, <1>e
<1>16. /\ VerifySignatureInside(p.size, PreSigAt, p.sig)
       /\ VerifySignatureInside(p.sig.data, BodySigAt, p.bodysig)
       /\ VerifyPublicKeyInside(p.sig.data, SubkeyAt, p.subkey)
  <2>1. VerifySignatureInside(p.size, PreSigAt, SignatureInit(PreSigAt, ps, SigLen[alg], ps))
    <3>1. p.size \in Nat /\ PreSigAt \in Nat /\ ps \in Nat /\ SigLen[alg] \in Nat
          /\ p.size <= MaxWord /\ PreSigAt + SigStruct <= p.size /\ PreSigAt <= ps
          /\ ps + SigLen[alg] <= p.size
      BY <1>5, <1>9, <1>d, <1>13, Constants
    <3> QED
      BY <3>1, SignatureFits
  <2>2. VerifySignatureInside(ps, BodySigAt, SignatureInit(BodySigAt, pd, SigLen[alg], body))
    <3>1. ps \in Nat /\ BodySigAt \in Nat /\ pd \in Nat /\ SigLen[alg] \in Nat
          /\ ps <= MaxWord /\ BodySigAt + SigStruct <= ps /\ BodySigAt <= pd
          /\ pd + SigLen[alg] <= ps
      BY <1>5, <1>9, <1>d, <1>13, Constants
    <3> QED
      BY <3>1, SignatureFits
  <2>3. VerifyPublicKeyInside(ps, SubkeyAt, PublicKeyPut(SubkeyAt, PreHeader, subkey))
    <3>1. ps \in Nat /\ SubkeyAt \in Nat /\ PreHeader \in Nat
          /\ ps <= MaxWord /\ SubkeyAt + KeyStruct <= ps /\ SubkeyAt <= PreHeader
          /\ PreHeader + ProcessedKeySize(subkey) <= ps
      BY <1>5, <1>9, <1>d, <1>k, <1>13, Constants
    <3> QED
      BY <3>1, KeyFits
  <2> QED
    BY <2>1, <2>2, <2>3, <1>e
<1>17. KeyBlockFits
  <2>1. KbHeader <= h.size /\ KbHeader <= h.sig.data /\ h.sig.data <= h.size
    BY <1>5, <1>h, <1>10, Constants
  <2> QED
    BY <2>1, <1>6, <1>7, <1>10, <1>12, <1>14, <1>15 DEF KeyBlockFits, h
<1>18. PreambleFits
  <2>1. PreHeader <= p.size /\ PreHeader <= p.sig.data /\ p.sig.data <= p.size
    BY <1>5, <1>p, <1>11, Constants
  <2> QED
    BY <2>1, <1>8, <1>10, <1>11, <1>16 DEF PreambleFits, h, p
<1>19. FileFits
  <2>1. /\ h.size + p.size <= size
        /\ p.bodysig.data <= IF fv = -1 THEN size - h.size - p.size ELSE fv
    BY <1>3, <1>6, <1>11, <1>13
  <2> QED
    BY <2>1 DEF FileFits, h, p
<1> QED
  BY <1>17, <1>18, <1>19

\* How far the check of a made image has come, and that it goes on.
MadeProgress ==
    Made =>
        LET h == made.kb.header
            p == made.pre.header
        IN  /\ at # "rejected"
            /\ at = "kbkey" => kb = h
            /\ at \in {"datakey", "preamble", "prebody", "presubkey", "body"} =>
                  kb.size = h.size /\ kb.key = h.key
            /\ at \in {"prebody", "presubkey", "body"} => pre.size = p.size /\ pre.sig = p.sig
            /\ at \in {"presubkey", "body"} => pre.bodysig = p.bodysig

\* The numbers that the checks compare.
LEMMA MadeNumbers ==
    ASSUME VInv, MadeBy, MadeFits, Made
    PROVE  /\ made.kb.header.size \in Nat /\ made.pre.header.size \in Nat
           /\ size \in Nat /\ fv \in Nat \cup {-1}
           /\ made.kb.header.size + made.pre.header.size <= size
           /\ KbHeader \in Nat /\ PreHeader \in Nat /\ PreHeader20 \in Nat
           /\ PreHeader20 <= PreHeader
           /\ KeyBlockFits /\ PreambleFits /\ FileFits
<1>1. MadeOK
  BY MadeHeaders
<1>2. PreHeader20 <= PreHeader
  BY VbootAssumption
<1> QED
  BY <1>1, <1>2, Constants DEF MadeOK, MadeFits, VInv, TypeOK, FileFits

\* Its key block passes KeyBlockVerify(), whether the signature or the checksum
\* is looked at.
LEMMA MadeKeyBlockSignature ==
    ASSUME VInv, MadeBy, MadeFits, MadeProgress, Made, KeyBlockSignature
    PROVE  at' = "kbkey" /\ kb' = made.kb.header
<1> DEFINE h == made.kb.header
<1>1. PICK good \in KeyBlockSigned(h) :
        Goes(KeyBlockSane(h) /\ good /\ UsedSig(h).data >= KbHeader, "kbkey", h, pre)
  BY DEF KeyBlockSignature, KeyBlocks
<1>2. KeyBlockFits /\ h.size \in Nat /\ KbHeader \in Nat /\ size \in Nat /\ h.size <= size
  BY MadeNumbers
<1>3. h = made.kb.chkOver /\ h = made.kb.sigOver
  BY <1>2 DEF KeyBlockFits
<1>4. good = TRUE
  <2>1. KeyBlockSigned(h) = {h = IF hash_only THEN made.kb.chkOver ELSE made.kb.sigOver}
    BY DEF KeyBlockSigned
  <2>2. (h = IF hash_only THEN made.kb.chkOver ELSE made.kb.sigOver) = TRUE
    BY <1>3
  <2> QED
    BY <2>1, <2>2
<1>5. KeyBlockSane(h) /\ UsedSig(h).data >= KbHeader
  <2>0. /\ KbHeader <= h.size /\ h.good
        /\ VerifySignatureInside(h.size, KbSigAt, h.sig) /\ h.sig.size = SigLen[sign_alg]
        /\ VerifySignatureInside(h.size, KbChkAt, h.chk) /\ h.chk.size = ChecksumSize
        /\ KbHeader <= h.sig.data /\ h.sig.data <= h.size /\ h.chk.data = h.sig.data
    BY <1>2 DEF KeyBlockFits
  <2>d. h.sig.data \in Nat
    BY MadeHeaders DEF MadeOK, IsSig
  <2> HIDE DEF h
  <2>1. size >= KbHeader /\ size >= h.size /\ h.size >= h.sig.data /\ h.sig.data >= KbHeader
    BY <1>2, <2>0, <2>d
  <2>2. CASE hash_only
    BY <2>0, <2>1, <2>2 DEF KeyBlockSane, UsedSig, UsedSigAt
  <2>3. CASE ~hash_only
    BY <2>0, <2>1, <2>3 DEF KeyBlockSane, UsedSig, UsedSigAt
  <2> QED
    BY <2>2, <2>3
<1> QED
  BY <1>1, <1>4, <1>5 DEF Goes

\* So does its data key, which is inside the signed part of the block.
LEMMA MadeKeyBlockKey ==
    ASSUME VInv, MadeBy, MadeFits, MadeProgress, Made, KeyBlockKey
    PROVE  /\ at' \in {"accepted", "datakey"}
           /\ kb'.size = made.kb.header.size /\ kb'.key = made.kb.header.key
<1> DEFINE h == made.kb.header
           k == [size |-> kb.size, sig |-> UsedSig(kb), key |-> h.key]
<1>1. Goes(DataKeyInside(h.key), IF hash_only THEN "accepted" ELSE "datakey", k, pre)
  BY DEF KeyBlockKey, KeyBlockKeys
<1>2. KeyBlockFits
  BY MadeNumbers
<1>3. kb = h
  BY DEF MadeProgress, KeyBlockKey
<1>4. UsedSig(h).data = h.sig.data
  BY <1>2 DEF KeyBlockFits, UsedSig
<1>5. DataKeyInside(h.key)
  BY <1>2, <1>3, <1>4 DEF KeyBlockFits, DataKeyInside
<1>6. k.size = kb.size /\ k.key = h.key
  OBVIOUS
<1> HIDE DEF k, h
<1> QED
  BY <1>1, <1>3, <1>5, <1>6 DEF Goes, h

LEMMA MadeDataKey ==
    ASSUME VInv, MadeBy, MadeFits, MadeProgress, Made, DataKey
    PROVE  at' = "preamble" /\ kb' = kb
<1>1. KeyBlockFits
  BY MadeNumbers
<1>2. kb.key = made.kb.header.key
  BY DEF MadeProgress, DataKey
<1>3. kb.key.alg \in Algorithms /\ kb.key.size = ProcessedKeySize(kb.key.alg)
  BY <1>1, <1>2 DEF KeyBlockFits
<1>4. Goes(/\ kb.key.alg \in Algorithms
           /\ kb.key.size = ProcessedKeySize(kb.key.alg)
           /\ TRUE, "preamble", kb, pre)
  BY DEF DataKey
<1> QED
  BY <1>3, <1>4 DEF Goes

\* The preamble and its parts pass VerifyFirmwarePreamble().
LEMMA MadePreambleSignature ==
    ASSUME VInv, MadeBy, MadeFits, MadeProgress, Made, PreambleSignature
    PROVE  at' = "prebody" /\ kb' = kb /\ pre' = made.pre.header
<1> DEFINE p == made.pre.header
<1>1. PICK good \in PreambleSigned(p) :
        Goes(PreambleSane(p) /\ good /\ p.sig.data >= PreHeader, "prebody", kb, p)
  BY DEF PreambleSignature, Preambles
<1>2. /\ PreambleFits /\ made.kb.header.size \in Nat /\ p.size \in Nat /\ size \in Nat
      /\ PreHeader \in Nat /\ PreHeader20 \in Nat /\ PreHeader20 <= PreHeader
      /\ made.kb.header.size + p.size <= size
  BY MadeNumbers
<1>3. kb.key = made.kb.header.key /\ kb.size = made.kb.header.size
  BY DEF MadeProgress, PreambleSignature
<1>4. good = TRUE
  BY <1>2 DEF PreambleSigned, PreambleFits
<1>5. /\ p.good /\ PreHeader <= p.size
      /\ VerifySignatureInside(p.size, PreSigAt, p.sig) /\ p.sig.size = SigLen[kb.key.alg]
      /\ PreHeader <= p.sig.data /\ p.sig.data <= p.size
  BY <1>2, <1>3 DEF PreambleFits
<1>d. p.sig.data \in Nat
  BY MadeHeaders DEF MadeOK, IsSig
<1> HIDE DEF p
<1>6. rest >= PreHeader20 /\ rest >= p.size
  BY <1>2, <1>3, <1>5 DEF rest, now
<1>7. PreambleSane(p) /\ p.sig.data >= PreHeader
  BY <1>2, <1>5, <1>6, <1>d DEF PreambleSane
<1> QED
  BY <1>1, <1>4, <1>7 DEF Goes, p

LEMMA MadePreambleBodySig ==
    ASSUME VInv, MadeBy, MadeFits, MadeProgress, Made, PreambleBodySig
    PROVE  /\ at' = "presubkey" /\ kb' = kb
           /\ pre'.size = pre.size /\ pre'.sig = pre.sig
           /\ pre'.bodysig = made.pre.header.bodysig
<1> DEFINE s == made.pre.header.bodysig
           p == [size |-> pre.size, sig |-> pre.sig, bodysig |-> s]
<1>1. Goes(VerifySignatureInside(pre.sig.data, BodySigAt, s), "presubkey", kb, p)
  BY DEF PreambleBodySig
<1>2. PreambleFits
  BY MadeNumbers
<1>3. pre.sig = made.pre.header.sig
  BY DEF MadeProgress, PreambleBodySig
<1>4. VerifySignatureInside(pre.sig.data, BodySigAt, s)
  BY <1>2, <1>3 DEF PreambleFits
<1>5. p.size = pre.size /\ p.sig = pre.sig /\ p.bodysig = s
  OBVIOUS
<1> HIDE DEF p, s
<1> QED
  BY <1>1, <1>4, <1>5 DEF Goes, s

LEMMA MadePreambleSubkey ==
    ASSUME VInv, MadeBy, MadeFits, MadeProgress, Made, PreambleSubkey
    PROVE  /\ at' = "body" /\ kb' = kb
           /\ pre'.size = pre.size /\ pre'.sig = pre.sig /\ pre'.bodysig = pre.bodysig
<1> DEFINE k == made.pre.header.subkey
           P(minor, ro) == [size |-> pre.size, sig |-> pre.sig, bodysig |-> pre.bodysig,
                            subkey |-> k, ro |-> (minor >= 1 /\ ro)]
<1>1. PICK minor, ro : Goes(/\ VerifyPublicKeyInside(pre.sig.data, SubkeyAt, k)
                            /\ minor >= 1 => rest >= PreHeader,
                            "body", kb, P(minor, ro))
  BY DEF PreambleSubkey
<1>2. /\ PreambleFits /\ made.kb.header.size \in Nat /\ made.pre.header.size \in Nat
      /\ size \in Nat /\ PreHeader \in Nat
      /\ made.kb.header.size + made.pre.header.size <= size
  BY MadeNumbers
<1>3. kb.size = made.kb.header.size /\ pre.sig = made.pre.header.sig
  BY DEF MadeProgress, PreambleSubkey
<1>4. VerifyPublicKeyInside(pre.sig.data, SubkeyAt, k) /\ PreHeader <= made.pre.header.size
  BY <1>2, <1>3 DEF PreambleFits
<1>5. rest >= PreHeader
  BY <1>2, <1>3, <1>4 DEF rest, now
<1>6. /\ P(minor, ro).size = pre.size /\ P(minor, ro).sig = pre.sig
      /\ P(minor, ro).bodysig = pre.bodysig
  OBVIOUS
<1> HIDE DEF P, k
<1> QED
  BY <1>1, <1>4, <1>5, <1>6 DEF Goes

\* And the body is as long as the preamble says, in the file or in its own.
LEMMA MadeVerifyBody ==
    ASSUME VInv, MadeBy, MadeFits, MadeProgress, Made, VerifyBody
    PROVE  at' = "accepted" /\ fv' = fv
<1>1. fv' = fv /\ Goes(pre.ro \/ (BodySane(fv) /\ TRUE), "accepted", kb, pre)
  BY DEF VerifyBody
<1>2. PreambleFits /\ FileFits
  BY MadeNumbers
<1>3. /\ kb.size = made.kb.header.size /\ kb.key = made.kb.header.key
      /\ pre.size = made.pre.header.size /\ pre.bodysig = made.pre.header.bodysig
  BY DEF MadeProgress, VerifyBody
<1>4. pre.bodysig.size = SigLen[kb.key.alg]
  BY <1>2, <1>3 DEF PreambleFits
<1>5. pre.bodysig.data <= BodySize(fv)
  BY <1>2, <1>3 DEF FileFits, BodySize, rest, now
<1>6. BodySane(fv)
  BY <1>4, <1>5 DEF BodySane
<1> QED
  BY <1>1, <1>6 DEF Goes

\* The inputs of a made image stay, and with them what its headers pass.
LEMMA StepMadeFits ==
    ASSUME VInv, MadeBy, MadeFits, MadeProgress, [Next]_vars
    PROVE  MadeFits'
<1> SUFFICES ASSUME Made' PROVE MadeFits'
  BY DEF MadeFits
<1>1. made' = made /\ Made
  BY NextMade DEF Made
<1>2. size' = size /\ sign_alg' = sign_alg
  BY DEF Next, KeyBlockSignature, KeyBlockKey, DataKey, PreambleSignature, PreambleBodySig,
         PreambleSubkey, VerifyBody, inputs, vars
<1>3. fv' = fv
  BY <1>1, MadeVerifyBody
     DEF Next, KeyBlockSignature, KeyBlockKey, DataKey, PreambleSignature, PreambleBodySig,
         PreambleSubkey, inputs, vars
<1>4. KeyBlockFits /\ PreambleFits /\ FileFits
  BY <1>1 DEF MadeFits
<1>5. KeyBlockFits' /\ PreambleFits' /\ FileFits'
  BY <1>1, <1>2, <1>3, <1>4 DEF KeyBlockFits, PreambleFits, FileFits
<1> QED
  BY <1>5 DEF MadeFits

LEMMA StepMadeProgress ==
    ASSUME VInv, MadeBy, MadeFits, MadeProgress, [Next]_vars
    PROVE  MadeProgress'
<1> SUFFICES ASSUME Made' PROVE MadeProgress'
  BY DEF MadeProgress
<1>1. made' = made /\ Made
  BY NextMade DEF Made
<1>2. CASE KeyBlockSignature
  BY <1>1, <1>2, MadeKeyBlockSignature DEF MadeProgress
<1>3. CASE KeyBlockKey
  BY <1>1, <1>3, MadeKeyBlockKey DEF MadeProgress
<1>4. CASE DataKey
  BY <1>1, <1>4, MadeDataKey DEF MadeProgress, DataKey
<1>5. CASE PreambleSignature
  BY <1>1, <1>5, MadePreambleSignature DEF MadeProgress, PreambleSignature
<1>6. CASE PreambleBodySig
  BY <1>1, <1>6, MadePreambleBodySig DEF MadeProgress, PreambleBodySig
<1>7. CASE PreambleSubkey
  BY <1>1, <1>7, MadePreambleSubkey DEF MadeProgress, PreambleSubkey
<1>8. CASE VerifyBody
  BY <1>1, <1>8, MadeVerifyBody DEF MadeProgress
<1>9. CASE UNCHANGED vars
  BY <1>1, <1>9 DEF MadeProgress, vars
<1> QED
  BY <1>2, <1>3, <1>4, <1>5, <1>6, <1>7, <1>8, <1>9 DEF Next

\* Verify() accepts every image that vbutil_firmware makes, with any keys, body
\* and flags, with the body in the image or beside it, for every layout of the
\* headers, as long as the sizes fit in a word.
THEOREM MadeImagesAccepted == Spec => []MadeIsAccepted
<1>1. Init => MadeFits /\ MadeProgress
  BY InitMadeFits DEF Init, MadeProgress
<1>2. VIndInv /\ MadeFits /\ MadeProgress /\ [Next]_vars => MadeFits' /\ MadeProgress'
  BY StepMadeFits, StepMadeProgress DEF VIndInv
<1>3. MadeProgress => MadeIsAccepted
  BY DEF MadeProgress, MadeIsAccepted
<1> QED
  BY <1>1, <1>2, <1>3, Inductive, PTL DEF Spec
=============================================================================
