----------------------------- MODULE VbootImage -----------------------------
(***************************************************************************)
(* The signed firmware image: how vbutil_firmware makes one (KeyBlockCreate,*)
(* CreateFirmwarePreamble, Vblock) and how Verify() of fonrsa.c checks one *)
(* before an upgrade.                                                      *)
(*                                                                         *)
(* An image is a key block, a preamble and the firmware body.  Offsets and *)
(* sizes in its headers are unsigned words that the file's author chose;   *)
(* the code adds them up before it reads what they point to.  A header is  *)
(* a record of those words, and a read is the range of the buffer that it  *)
(* touches.  The contents of an image from elsewhere are arbitrary, so     *)
(* whether a signature in it is good is a choice; the signature of an      *)
(* image made by the tool is good if it is over the header in the file.    *)
(***************************************************************************)
EXTENDS Integers

CONSTANTS
    MaxWord,                       \* UINT64_MAX
    SigStruct, KeyStruct,          \* sizeof(VbSignature), sizeof(VbPublicKey)
    KbHeader, KbSigAt, KbChkAt, KbKeyAt,    \* VbKeyBlockHeader and its fields
    PreHeader, PreHeader20, PreSigAt, SubkeyAt, BodySigAt,
                                   \* VbFirmwarePreambleHeader, its size in
                                   \* version 2.0 and its fields
    ChecksumSize,                  \* SHA512_DIGEST_SIZE
    NumAlgorithms, SigLen,         \* kNumAlgorithms, siglen_map
    KeyExtra,                      \* what a processed key holds beside n and rr
    Fields,                        \* the words tried in headers
    Sizes                          \* the sizes tried for files

Algorithms == 0 .. NumAlgorithms - 1
Word == 0 .. MaxWord

ASSUME VbootAssumption ==
    /\ MaxWord \in Nat /\ NumAlgorithms \in Nat \ {0}
    /\ {SigStruct, KeyStruct, KbHeader, KbSigAt, KbChkAt, KbKeyAt, PreHeader, PreHeader20,
        PreSigAt, SubkeyAt, BodySigAt, ChecksumSize, KeyExtra} \subseteq Nat
    /\ KbSigAt + SigStruct <= KbHeader /\ KbChkAt + SigStruct <= KbHeader
    /\ KbKeyAt + KeyStruct <= KbHeader
    /\ PreSigAt + SigStruct <= PreHeader20 /\ SubkeyAt + KeyStruct <= PreHeader20
    /\ BodySigAt + SigStruct <= PreHeader20 /\ PreHeader20 <= PreHeader
    /\ KbHeader <= MaxWord /\ PreHeader <= MaxWord
    /\ SigLen \in [Algorithms -> Nat]
    /\ Fields \subseteq Word /\ Sizes \subseteq Word

VARIABLES at,        \* where Verify() is
          size,      \* size of the file
          fv,        \* size of a firmware volume in a file of its own, or -1
          hash_only, \* KeyBlockRead(): only the key block's checksum is checked
          sign_alg,  \* algorithm of the signing key given to Verify()
          made,      \* the image the tool made, or NotMade
          kb, pre,   \* the headers that were accepted
          reads      \* what the last step read of the files

vars == <<at, size, fv, hash_only, sign_alg, made, kb, pre, reads>>
inputs == <<size, fv, hash_only, sign_alg, made>>

-----------------------------------------------------------------------------
(* Unsigned arithmetic and the check that a member is inside its parent.   *)

\* a + b in uint64_t.
Add(a, b) == IF a + b > MaxWord THEN a + b - MaxWord - 1 ELSE a + b

\* Mutant: the sums are not checked for wraparound.
VerifyMemberInsideWraps(parent, offset, struct, doff, dsize) ==
    /\ offset <= parent
    /\ Add(offset, struct) <= parent
    /\ Add(offset, doff) <= parent
    /\ Add(Add(offset, doff), dsize) <= parent

\* The struct at offset, and the data it points to, are inside the parent.
VerifyMemberInside(parent, offset, struct, doff, dsize) ==
    /\ offset <= parent
    /\ MaxWord - offset >= struct /\ Add(offset, struct) <= parent
    /\ MaxWord - offset >= doff /\ Add(offset, doff) <= parent
    /\ MaxWord - Add(offset, doff) >= dsize /\ Add(Add(offset, doff), dsize) <= parent

VerifySignatureInside(parent, offset, s) ==
    VerifyMemberInside(parent, offset, SigStruct, s.off, s.size)

VerifyPublicKeyInside(parent, offset, k) ==
    VerifyMemberInside(parent, offset, KeyStruct, k.off, k.size)

ProcessedKeySize(alg) == 2 * SigLen[alg] + KeyExtra

-----------------------------------------------------------------------------
(* Making an image.                                                        *)

Signatures == [off : Fields, size : Fields, data : Fields]
Keys       == [off : Fields, size : Fields, alg : 0 .. NumAlgorithms]
Subkeys    == {k \in Keys : k.alg = 0}   \* whose algorithm is only printed

SignatureInit(offset, dest, n, data) == [off |-> dest - offset, size |-> n, data |-> data]

SignatureCopy(dest, src) ==
    IF dest.size < src.size THEN dest
    ELSE [off |-> dest.off, size |-> src.size, data |-> src.data]

\* PublicKeyInit() and PublicKeyCopy().
PublicKeyPut(offset, dest, alg) ==
    [off |-> dest - offset, size |-> ProcessedKeySize(alg), alg |-> alg]

\* CalculateSignature() and CalculateChecksum(): the struct they return.
Calculated(n, data) == [off |-> SigStruct, size |-> n, data |-> data]

\* Mutant: the signature goes where the checksum is.
KeyBlockSigDestSame(signed) == signed

\* Where the data behind the key block header goes: key, checksum, signature.
KeyBlockSigDest(signed) == signed + ChecksumSize

\* The header is complete before the checksum is taken over it, and the
\* signature is taken over the header with the checksum in place.
KeyBlockCreate(root, alg) ==
    LET signed == KbHeader + ProcessedKeySize(alg)
        chk0 == SignatureInit(KbChkAt, signed, ChecksumSize, signed)
        chk1 == SignatureCopy(chk0, Calculated(ChecksumSize, signed))
        sig0 == SignatureInit(KbSigAt, KeyBlockSigDest(signed), SigLen[root], signed)
        sig1 == SignatureCopy(sig0, Calculated(SigLen[root], signed))
        h(chk, sig) == [good |-> TRUE,
                        size |-> signed + ChecksumSize + SigLen[root],
                        key  |-> PublicKeyPut(KbKeyAt, KbHeader, alg),
                        chk  |-> chk, sig |-> sig]
    IN  [header |-> h(chk1, sig1), chkOver |-> h(chk0, sig0), sigOver |-> h(chk1, sig0)]

\* Mutant: the signed size is entered with the signature, after it was taken.
PreambleSigInitLate(signed, alg) == SignatureInit(PreSigAt, signed, SigLen[alg], 0)

PreambleSigInit(signed, alg) == SignatureInit(PreSigAt, signed, SigLen[alg], signed)

CreateFirmwarePreamble(alg, subkey, body, flags) ==
    LET bodyAt == PreHeader + ProcessedKeySize(subkey)
        signed == bodyAt + SigLen[alg]
        body0 == SignatureInit(BodySigAt, bodyAt, SigLen[alg], 0)
        body1 == SignatureCopy(body0, Calculated(SigLen[alg], body))
        sig0 == PreambleSigInit(signed, alg)
        sig1 == SignatureCopy(sig0, Calculated(SigLen[alg], signed))
        h(sig) == [good |-> TRUE, minor |-> 1, ro |-> flags,
                   size |-> signed + SigLen[alg],
                   subkey |-> PublicKeyPut(SubkeyAt, PreHeader, subkey),
                   bodysig |-> body1, sig |-> sig]
    IN  [header |-> h(sig1), sigOver |-> h(sig0)]

NotMade == [made |-> FALSE]

\* Vblock(): root signs the key block of the data key, whose private half signs
\* preamble and body.
Image(root, alg, subkey, body, flags) ==
    [made |-> TRUE, kb |-> KeyBlockCreate(root, alg),
     pre  |-> CreateFirmwarePreamble(alg, subkey, body, flags), body |-> body]

\* The file that Vblock() writes: with the body, or without it (--vblockonly),
\* when Verify() is given the body in a file of its own.
InitMade ==
    \E root, alg, subkey \in Algorithms, body \in Sizes \ {0}, flags, only \in BOOLEAN :
        LET image == Image(root, alg, subkey, body, flags)
            blocks == image.kb.header.size + image.pre.header.size
        IN  /\ blocks + body <= MaxWord
            /\ made = image /\ sign_alg = root
            /\ size = blocks + IF only THEN 0 ELSE body
            /\ fv = IF only THEN body ELSE -1

InitElsewhere ==
    /\ made = NotMade
    /\ size \in Sizes \ {0}
    /\ fv = -1
    /\ sign_alg \in Algorithms

NoHeader == [size |-> 0]

Init ==
    /\ at = "keyblock"
    /\ hash_only \in BOOLEAN
    /\ InitMade \/ InitElsewhere
    /\ kb = NoHeader /\ pre = NoHeader
    /\ reads = {}

-----------------------------------------------------------------------------
(* Checking an image.  An image from elsewhere may have any words in the   *)
(* headers, and its signatures may be good or bad.                         *)

Made == made # NotMade

Range(from, n) == [file |-> "image", from |-> from, to |-> from + n]

SigData(offset, s) == Range(offset + s.off, s.size)
KeyData(offset, k) == Range(offset + k.off, k.size)

\* On to the next step with the headers h and p, or out with an error.
Goes(ok, next, h, p) ==
    /\ at' = IF ok THEN next ELSE "rejected"
    /\ kb' = IF ok THEN h ELSE NoHeader
    /\ pre' = IF ok THEN p ELSE NoHeader

\* The checksum and the signature of a key block are looked at in the same way,
\* one or the other.
KeyBlocks ==
    IF Made THEN {made.kb.header}
    ELSE {[good |-> g, size |-> n, chk |-> s, sig |-> s] :
             g \in BOOLEAN, n \in Fields, s \in Signatures}

UsedSig(h) == IF hash_only THEN h.chk ELSE h.sig
UsedSigAt  == IF hash_only THEN KbChkAt ELSE KbSigAt

\* What VerifyData() or SafeMemcmp() find.
KeyBlockSigned(h) ==
    IF ~Made THEN BOOLEAN
    ELSE {h = IF hash_only THEN made.kb.chkOver ELSE made.kb.sigOver}

\* Mutant: the size in the header is not compared with the size of the file.
KeyBlockSaneTruncated(h) ==
    /\ size >= KbHeader /\ h.good
    /\ VerifySignatureInside(h.size, UsedSigAt, UsedSig(h))
    /\ UsedSig(h).size = IF hash_only THEN ChecksumSize ELSE SigLen[sign_alg]
    /\ h.size >= UsedSig(h).data

\* Mutant: the signed size is not compared with the size of the block.
KeyBlockSaneUnsized(h) ==
    /\ size >= KbHeader /\ h.good /\ size >= h.size
    /\ VerifySignatureInside(h.size, UsedSigAt, UsedSig(h))
    /\ UsedSig(h).size = IF hash_only THEN ChecksumSize ELSE SigLen[sign_alg]

\* The checks before the signature is computed, those of VerifyData() included.
KeyBlockSane(h) ==
    /\ size >= KbHeader /\ h.good /\ size >= h.size
    /\ VerifySignatureInside(h.size, UsedSigAt, UsedSig(h))
    /\ UsedSig(h).size = IF hash_only THEN ChecksumSize ELSE SigLen[sign_alg]
    /\ h.size >= UsedSig(h).data

\* KeyBlockVerify() up to the signature.
KeyBlockSignature ==
    /\ at = "keyblock"
    /\ \E h \in KeyBlocks : \E good \in KeyBlockSigned(h) :
          /\ Goes(KeyBlockSane(h) /\ good /\ UsedSig(h).data >= KbHeader, "kbkey", h, pre)
          /\ reads' = (IF size >= KbHeader THEN {Range(0, KbHeader)} ELSE {})
                      \cup IF KeyBlockSane(h)
                           THEN {Range(0, UsedSig(h).data), SigData(UsedSigAt, UsedSig(h))}
                           ELSE {}
    /\ UNCHANGED inputs

KeyBlockKeys == IF Made THEN {made.kb.header.key} ELSE Keys

\* Mutant: the data key may lie outside the signed part of the block.
DataKeyInsideBlock(k) == VerifyPublicKeyInside(kb.size, KbKeyAt, k)

DataKeyInside(k) ==
    /\ VerifyPublicKeyInside(kb.size, KbKeyAt, k)
    /\ VerifyPublicKeyInside(UsedSig(kb).data, KbKeyAt, k)

\* The rest of KeyBlockVerify(): the data key of the block.
KeyBlockKey ==
    /\ at = "kbkey"
    /\ \E k \in KeyBlockKeys :
          Goes(DataKeyInside(k), IF hash_only THEN "accepted" ELSE "datakey",
               [size |-> kb.size, sig |-> UsedSig(kb), key |-> k], pre)
    /\ reads' = {}
    /\ UNCHANGED inputs

\* Verify() prints the sum of the data key; PublicKeyToRSA() takes it apart.
DataKey ==
    /\ at = "datakey"
    /\ \E parsed \in IF Made THEN {TRUE} ELSE BOOLEAN :
          Goes(/\ kb.key.alg \in Algorithms
               /\ kb.key.size = ProcessedKeySize(kb.key.alg)
               /\ parsed, "preamble", kb, pre)
    /\ reads' = {KeyData(KbKeyAt, kb.key)}
    /\ UNCHANGED inputs

\* The preamble and what is left of the file from there on.
now  == kb.size
rest == size - now

Preambles ==
    IF Made THEN {made.pre.header}
    ELSE {[good |-> g, size |-> n, sig |-> s] :
             g \in BOOLEAN, n \in Fields, s \in Signatures}

PreambleSigned(h) == IF Made THEN {h = made.pre.sigOver} ELSE BOOLEAN

PreambleSane(h) ==
    /\ rest >= PreHeader20 /\ h.good /\ rest >= h.size
    /\ VerifySignatureInside(h.size, PreSigAt, h.sig)
    /\ h.size >= h.sig.data
    /\ h.sig.size = SigLen[kb.key.alg]

\* VerifyFirmwarePreamble() up to the signature.
PreambleSignature ==
    /\ at = "preamble"
    /\ \E h \in Preambles : \E good \in PreambleSigned(h) :
          /\ Goes(PreambleSane(h) /\ good /\ h.sig.data >= PreHeader, "prebody", kb, h)
          /\ reads' = (IF rest >= PreHeader20 THEN {Range(now, PreHeader20)} ELSE {})
                      \cup IF PreambleSane(h)
                           THEN {Range(now, h.sig.data), SigData(now + PreSigAt, h.sig)}
                           ELSE {}
    /\ UNCHANGED inputs

\* The body signature is inside the signed part of the preamble.
PreambleBodySig ==
    /\ at = "prebody"
    /\ \E s \in IF Made THEN {made.pre.header.bodysig} ELSE Signatures :
          Goes(VerifySignatureInside(pre.sig.data, BodySigAt, s), "presubkey", kb,
               [size |-> pre.size, sig |-> pre.sig, bodysig |-> s])
    /\ reads' = {}
    /\ UNCHANGED inputs

\* So is the kernel subkey; there are flags from version 2.1 on, and the header
\* of 2.1 has to fit.  VbGetFirmwarePreambleFlags() reads the flags, and Verify()
\* prints the sum of the subkey.
PreambleSubkey ==
    /\ at = "presubkey"
    /\ \E k \in IF Made THEN {made.pre.header.subkey} ELSE Subkeys,
          minor \in IF Made THEN {made.pre.header.minor} ELSE {0, 1},
          ro \in IF Made THEN {made.pre.header.ro} ELSE BOOLEAN :
          /\ Goes(/\ VerifyPublicKeyInside(pre.sig.data, SubkeyAt, k)
                  /\ minor >= 1 => rest >= PreHeader,
                  "body", kb,
                  [size |-> pre.size, sig |-> pre.sig, bodysig |-> pre.bodysig,
                   subkey |-> k, ro |-> (minor >= 1 /\ ro)])
          /\ reads' = IF at' = "rejected" THEN {}
                      ELSE {KeyData(now + SubkeyAt, k)}
                           \cup IF minor >= 1 THEN {Range(now, PreHeader)} ELSE {}
    /\ UNCHANGED inputs

\* The firmware volume: the rest of the file, or a file of its own.
Body(alone) == IF alone THEN "volume" ELSE "image"
BodySize(n) == IF n = -1 THEN rest - pre.size ELSE n

\* The checks of VerifyData() for the body.
BodySane(n) ==
    /\ pre.bodysig.size = SigLen[kb.key.alg]
    /\ pre.bodysig.data <= BodySize(n)

VerifyBody ==
    /\ at = "body"
    /\ \E n \in IF Made THEN {fv} ELSE {-1} \cup Sizes, good \in IF Made THEN {TRUE} ELSE BOOLEAN :
          /\ fv' = n
          /\ Goes(pre.ro \/ (BodySane(n) /\ good), "accepted", kb, pre)
          /\ reads' = IF pre.ro \/ ~BodySane(n) THEN {}
                      ELSE {SigData(now + BodySigAt, pre.bodysig),
                            LET from == IF n = -1 THEN now + pre.size ELSE 0
                            IN  [file |-> Body(n # -1), from |-> from,
                                 to |-> from + pre.bodysig.data]}
    /\ UNCHANGED <<size, hash_only, sign_alg, made>>

Next ==
    \/ KeyBlockSignature \/ KeyBlockKey \/ DataKey
    \/ PreambleSignature \/ PreambleBodySig \/ PreambleSubkey \/ VerifyBody

Spec == Init /\ [][Next]_vars

-----------------------------------------------------------------------------
Steps == {"keyblock", "kbkey", "datakey", "preamble", "prebody", "presubkey", "body",
          "accepted", "rejected"}

\* The type invariant.  What is left of the file after the key block and after
\* the preamble is computed in unsigned words and does not wrap.
TypeOK ==
    /\ at \in Steps
    /\ size \in Nat /\ fv \in Nat \cup {-1}
    /\ hash_only \in BOOLEAN /\ sign_alg \in Algorithms
    /\ kb.size \in Nat /\ pre.size \in Nat
    /\ rest \in Nat /\ rest - pre.size \in Nat

\* Whatever the words in its headers are, no step reads outside the file: the
\* sums of VerifyMemberInside() do not wrap, and every size that is used was
\* compared with the size of what is there.
ReadsInside ==
    \A r \in reads :
        /\ 0 <= r.from /\ r.from <= r.to
        /\ r.to <= IF r.file = "image" THEN size ELSE fv

Within(offset, struct, m, end) == offset + struct <= end /\ offset + m.off + m.size <= end

\* Of an image that is accepted, everything that Verify() goes by was under a
\* signature: the data key (also if only the checksum was checked), the kernel
\* subkey and the body's signature, and the three parts do not overlap.
AcceptedIsSigned ==
    at = "accepted" =>
        /\ Within(KbKeyAt, KeyStruct, kb.key, kb.sig.data) /\ kb.sig.data <= kb.size
        /\ ~hash_only =>
              /\ Within(SubkeyAt, KeyStruct, pre.subkey, pre.sig.data)
              /\ Within(BodySigAt, SigStruct, pre.bodysig, pre.sig.data)
              /\ pre.sig.data <= pre.size /\ kb.size + pre.size <= size

IsSig(s) == s.off \in Nat /\ s.size \in Nat /\ s.data \in Nat
IsKey(k) == k.off \in Nat /\ k.size \in Nat

KbChecked  == at \in {"datakey", "preamble", "prebody", "presubkey", "body", "accepted"}
PreChecked == at \in {"prebody", "presubkey", "body"} \/ (at = "accepted" /\ ~hash_only)

\* The inductive invariant: at every step of Verify() the headers read so far
\* have passed the checks before that step, so that the sums the next reads
\* rest on are sums of natural numbers inside the file.
VInv ==
    /\ TypeOK
    /\ at \in {"keyblock", "rejected"} => kb = NoHeader
    /\ at \in {"datakey", "preamble", "prebody", "presubkey", "body"} => ~hash_only
    /\ ~PreChecked => pre = NoHeader
    /\ at = "kbkey" => IsSig(UsedSig(kb)) /\ UsedSig(kb).data <= kb.size
    /\ KbChecked =>
          /\ IsSig(kb.sig) /\ kb.sig.data <= kb.size
          /\ IsKey(kb.key) /\ Within(KbKeyAt, KeyStruct, kb.key, kb.sig.data)
    /\ at \in {"preamble", "prebody", "presubkey", "body"} => kb.key.alg \in Algorithms
    /\ PreChecked => IsSig(pre.sig) /\ pre.sig.data <= pre.size /\ PreHeader <= pre.sig.data
    /\ PreChecked /\ at # "prebody" =>
          IsSig(pre.bodysig) /\ Within(BodySigAt, SigStruct, pre.bodysig, pre.sig.data)
    /\ PreChecked /\ at \notin {"prebody", "presubkey"} =>
          IsKey(pre.subkey) /\ Within(SubkeyAt, KeyStruct, pre.subkey, pre.sig.data)

\* What vbutil_firmware makes, Verify() accepts: the sizes that one computes pass
\* the checks of the other, and no header changes after it was signed.
MadeIsAccepted == Made => at # "rejected"

Apart(a, b) == a.to <= b.from \/ b.to <= a.from

\* The parts that KeyBlockCreate() and CreateFirmwarePreamble() put behind a
\* header are inside the block they allocated and do not overlap.
PartsApart ==
    Made =>
        LET h == made.kb.header
            p == made.pre.header
            kparts == {KeyData(KbKeyAt, h.key), SigData(KbChkAt, h.chk), SigData(KbSigAt, h.sig)}
            pparts == {KeyData(SubkeyAt, p.subkey), SigData(BodySigAt, p.bodysig),
                       SigData(PreSigAt, p.sig)}
        IN  /\ \A a \in kparts : KbHeader <= a.from /\ a.to <= h.size
            /\ \A a \in pparts : PreHeader <= a.from /\ a.to <= p.size
            /\ \A a, b \in kparts : a = b \/ Apart(a, b)
            /\ \A a, b \in pparts : a = b \/ Apart(a, b)
=============================================================================
