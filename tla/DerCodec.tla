------------------------------ MODULE DerCodec ------------------------------
(* A KMS signature on its way through lib/aws-kms-provider.js: KMS answers Sign
   with ASN.1 DER, decodeDerSignatureToRaw stores it as two components of fixed
   width, and encodeRawToDer makes DER of them again for Verify.  Bytes are the
   numbers below Base and components are Width bytes wide (256 and 32 in the
   code); the high bit of a byte is its upper half, the tags are SeqTag and
   IntTag (0x30 and 0x02). *)
EXTENDS Naturals, Sequences, SequencesExt

CONSTANTS Base, Width, SeqTag, IntTag,
          Contents,   \* the contents of the INTEGERs received
          Error       \* what a thrown error leaves

Byte == 0..(Base - 1)

\* The code's bodies have at most 70 bytes, and so have the ones KMS sends: their
\* length is a byte with the high bit free.
ASSUME DerCodecAssumption ==
  /\ Base \in Nat /\ Base % 2 = 0
  /\ Width \in Nat \ {0} /\ 2 * (Width + 3) < Base \div 2
  /\ {SeqTag, IntTag} \subseteq 0..(Base \div 2 - 1) /\ SeqTag # IntTag
  /\ \A c \in Contents : c \in Seq(Byte) /\ 2 * (Len(c) + 3) < Base \div 2
  /\ Error \notin [1..(2 * Width) -> Byte]

VARIABLES der,     \* what KMS answered
          numbers, \* history: the contents of the INTEGERs of a whole answer
          raw,     \* the stored signature
          again    \* what Verify sends

derVars == <<der, numbers, raw, again>>

High(byte) == byte >= Base \div 2
Zeros(n) == [i \in 1..n |-> 0]

-----------------------------------------------------------------------------
(* decodeDerSignatureToRaw. *)

Fail == [ok |-> FALSE, value |-> 0, next |-> 0]
Read(value, next) == [ok |-> TRUE, value |-> value, next |-> next]

\* Short form, or long form of one or two bytes.
readLength(s, o) ==
  LET n == s[o] - Base \div 2
  IN CASE o > Len(s) -> Fail
       [] o <= Len(s) /\ ~High(s[o]) -> Read(s[o], o + 1)
       [] o <= Len(s) /\ High(s[o]) /\ (n \notin 1..2 \/ o + n > Len(s)) -> Fail
       [] OTHER -> Read(IF n = 1 THEN s[o + 1] ELSE s[o + 1] * Base + s[o + 2], o + 1 + n)

\* Mutant: short values are padded on the wrong side.
FixedRight(bytes) ==
  IF Len(bytes) = Width + 1 THEN Tail(bytes) ELSE bytes \o Zeros(Width - Len(bytes))

\* A sign byte is taken off, short values get leading zeros.
Fixed(bytes) ==
  IF Len(bytes) = Width + 1 THEN Tail(bytes) ELSE Zeros(Width - Len(bytes)) \o bytes

readInt(s, o) ==
  IF o > Len(s) THEN Fail
  ELSE LET length == readLength(s, o + 1)
           bytes == SubSeq(s, length.next, length.next + length.value - 1)
       IN IF /\ s[o] = IntTag
             /\ length.ok /\ length.value \in 1..(Width + 1)
             /\ length.next + length.value - 1 <= Len(s)
             /\ ~High(bytes[1])
             /\ length.value = Width + 1 => bytes[1] = 0
          THEN Read(Fixed(bytes), length.next + length.value)
          ELSE Fail

decodeDerSignatureToRaw(s) ==
  LET length == readLength(s, 2)
      r == readInt(s, length.next)
      t == readInt(s, r.next)
  IN IF /\ s # << >> /\ s[1] = SeqTag
        /\ length.ok /\ length.next + length.value - 1 = Len(s)
        /\ r.ok /\ t.ok /\ t.next = Len(s) + 1
     THEN r.value \o t.value
     ELSE Error

-----------------------------------------------------------------------------
(* encodeRawToDer. *)

\* The component from its first byte that is not 0, or its last byte.
Trimmed(bytes) ==
  LET start == CHOOSE i \in 1..Width :
                 /\ \A j \in 1..(i - 1) : bytes[j] = 0
                 /\ bytes[i] # 0 \/ i = Width
  IN SubSeq(bytes, start, Width)

\* Mutant: the sign byte is forgotten.
encodeIntegerUnsigned(bytes) == <<IntTag, Len(Trimmed(bytes))>> \o Trimmed(bytes)
encodeInteger(bytes) ==
  LET trimmed == IF High(Trimmed(bytes)[1]) THEN <<0>> \o Trimmed(bytes) ELSE Trimmed(bytes)
  IN <<IntTag, Len(trimmed)>> \o trimmed

encodeRawToDer(signature) ==
  LET body == encodeInteger(SubSeq(signature, 1, Width))
                \o encodeInteger(SubSeq(signature, Width + 1, 2 * Width))
  IN <<SeqTag, Len(body)>> \o body

-----------------------------------------------------------------------------
(* The answers: two INTEGERs in either length form, whole, cut off by a byte or
   with a byte too many, or with a foreign tag. *)

Tlv(tag, long, content) ==
  <<tag>> \o (IF long THEN <<Base \div 2 + 1>> ELSE << >>) \o <<Len(content)>> \o content

Signature(form, c, d) == Tlv(SeqTag, FALSE, Tlv(IntTag, form, c) \o Tlv(IntTag, form, d))

\* Answers that are no signature, or one with a long form around it.
Damaged(c) ==
  {Tlv(SeqTag, TRUE, Tlv(IntTag, FALSE, c) \o Tlv(IntTag, TRUE, c)),
   Tlv(IntTag, FALSE, Tlv(IntTag, FALSE, c) \o Tlv(IntTag, FALSE, c)),
   Tlv(SeqTag, FALSE, Tlv(IntTag, FALSE, c) \o Tlv(SeqTag, FALSE, c)),
   Tlv(SeqTag, FALSE, Tlv(IntTag, FALSE, c)),
   Tlv(SeqTag, FALSE, Tlv(IntTag, FALSE, c) \o Tlv(IntTag, FALSE, c) \o <<0>>),
   Signature(FALSE, c, c) \o <<0>>,
   Front(Signature(FALSE, c, c))}

DerInit ==
  /\ \/ \E c, d \in Contents, form \in BOOLEAN : der = Signature(form, c, d) /\ numbers = <<c, d>>
     \/ \E c \in Contents : der \in Damaged(c) /\ numbers = << >>
  /\ raw = << >>
  /\ again = << >>

\* _signRawMessageWithMeta
Store ==
  /\ raw = << >>
  /\ raw' = decodeDerSignatureToRaw(der)
  /\ UNCHANGED <<der, numbers, again>>

\* _verifyRawMessageSignatureWithMeta
Present ==
  /\ raw \notin {<< >>, Error} /\ again = << >>
  /\ again' = encodeRawToDer(raw)
  /\ UNCHANGED <<der, numbers, raw>>

DerNext == Store \/ Present

DerSpec == DerInit /\ [][DerNext]_derVars

-----------------------------------------------------------------------------
(* Properties, against what DER says of the numbers. *)

Number(bytes) ==
  LET n[i \in 0..Len(bytes)] == IF i = 0 THEN 0 ELSE n[i - 1] * Base + bytes[i]
  IN n[Len(bytes)]

\* The contents DER prescribes for a component's number: no byte too many, the
\* highest bit free.
Minimal(content) ==
  /\ content # << >> /\ ~High(content[1])
  /\ Len(content) > 1 => content[1] # 0 \/ High(content[2])

\* The contents that are a number of a component, and not too long.
Fits(content) ==
  /\ Len(content) \in 1..(Width + 1)
  /\ ~High(content[1])
  /\ Number(content) <= Number([i \in 1..Width |-> Base - 1])

\* An answer of KMS is stored exactly if it spells two numbers that fit, and as
\* these numbers: with either length form, leading zeros, sign bytes and short
\* values (decodeDerSignatureToRaw).
StoredAreTheNumbers ==
  raw # << >> /\ numbers # << >> =>
    IF Fits(numbers[1]) /\ Fits(numbers[2])
    THEN /\ raw # Error
         /\ Number(SubSeq(raw, 1, Width)) = Number(numbers[1])
         /\ Number(SubSeq(raw, Width + 1, 2 * Width)) = Number(numbers[2])
    ELSE raw = Error

\* KMS gets back the bytes it gave: encodeRawToDer after decodeDerSignatureToRaw
\* is the identity on DER, and makes DER of laxer encodings of the same numbers.
VerifySendsTheSignature ==
  again # << >> =>
    /\ decodeDerSignatureToRaw(again) = raw
    /\ numbers # << >> /\ Minimal(numbers[1]) /\ Minimal(numbers[2]) =>
         again = Signature(FALSE, numbers[1], numbers[2])
=============================================================================
