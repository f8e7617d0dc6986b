---------------------------- MODULE IdentifiersProofs ----------------------------
(***************************************************************************)
(* Proofs about Identifiers, for every set of bytes: of all 2^32           *)
(* identifiers in particular, of which TLC looks at those with bytes at    *)
(* the boundaries.                                                         *)
(***************************************************************************)
EXTENDS Identifiers, TLAPS

\* The bits of a byte below the most significant, as the number they stand for.
LEMMA ByteAsNumber == \A n \in -128 .. 127 : n % 256 \in 0 .. 255
  OBVIOUS

\* All bits of a byte are set in -1.
LEMMA MinusOneAsNumber == ASSUME NEW n \in Int, n = -1 PROVE n % 256 = 255
<1>1. \A k \in Int : k % 256 = (k + 256) % 256
  OBVIOUS
<1>2. n + 256 = 255 /\ 255 % 256 = 255
  OBVIOUS
<1> QED
  BY <1>1, <1>2

\* Without a code an identifier is a number of 24 bits, and a code is added to it.
LEMMA CodeIsAdded ==
  ASSUME NEW bytes \in Bytes, bytes[3] = 0, NEW code \in Byte
  PROVE  /\ Number(bytes) \in 0 .. Unit - 1
         /\ Number([bytes EXCEPT ![3] = code]) = Number(bytes) + Unit * code
<1> DEFINE tagged == [bytes EXCEPT ![3] = code]
<1>1. code \in Int /\ \A i \in 0 .. 2 : bytes[i] \in -128 .. 127
  <2>1. \A n \in Byte : n \in -128 .. 127
    BY ByteAssumption
  <2>2. code \in -128 .. 127
    BY <2>1
  <2>3. \A i \in 0 .. 2 : bytes[i] \in Byte
    BY DEF Bytes
  <2>4. \A i \in 0 .. 2 : bytes[i] \in -128 .. 127
    BY <2>1, <2>3
  <2>5. code \in Int
    BY <2>2
  <2> QED
    BY <2>4, <2>5
<1>2. PICK x \in 0 .. 255 : x = bytes[0] % 256
  BY <1>1, ByteAsNumber
<1>3. PICK y \in 0 .. 255 : y = bytes[1] % 256
  BY <1>1, ByteAsNumber
<1>4. PICK z \in 0 .. 255 : z = bytes[2] % 256
  BY <1>1, ByteAsNumber
<1>5. /\ tagged[0] = bytes[0] /\ tagged[1] = bytes[1]
      /\ tagged[2] = bytes[2] /\ tagged[3] = code
  BY DEF Bytes
<1>6. Number(bytes) = x + 256 * (y + 256 * (z + 256 * 0))
  BY <1>2, <1>3, <1>4 DEF Number
<1>7. Number(tagged) = x + 256 * (y + 256 * (z + 256 * code))
  BY <1>2, <1>3, <1>4, <1>5 DEF Number
<1>8. Number(bytes) \in Int /\ Number(bytes) >= 0 /\ Number(bytes) <= Unit - 1
  BY <1>6 DEF Unit
<1>9. Number(tagged) = Number(bytes) + Unit * code
  BY <1>1, <1>6, <1>7 DEF Unit
<1>10. Unit \in Int
  BY DEF Unit
<1> QED
  BY <1>8, <1>9, <1>10

\* An identifier that has not been converted has no code, or the conversions refuse it.
Fresh == identifier = given \/ identifier[3] # 0

\* The invariant: an identifier without a code is the one that was given.
IInv == TypeOK /\ ConversionAddsTheCode /\ Fresh

\* A conversion gives the code to what was given, or refuses.
LEMMA ConversionStep ==
  ASSUME IInv,
         NEW code \in {ModuleIdentifierCode, ServiceIdentifierCode},
         identifier' = IF identifier[3] # 0 THEN Minus1
                       ELSE [identifier EXCEPT ![3] = code],
         UNCHANGED given
  PROVE  IInv'
<1>1. code \in Byte /\ code # 0 /\ Minus1 \in Bytes
  BY ByteAssumption DEF ModuleIdentifierCode, ServiceIdentifierCode, Minus1, Bytes
<1>2. TypeOK'
  BY <1>1 DEF IInv, TypeOK, Bytes
<1>3. CASE identifier[3] # 0
  <2>1. Number(Minus1) = -1 /\ Minus1[3] # 0
    <3>1. PICK n \in Int : n = -1
      OBVIOUS
    <3>2. Minus1[0] = n /\ Minus1[1] = n /\ Minus1[2] = n /\ Minus1[3] = n
      BY <3>1 DEF Minus1
    <3>3. n % 256 = 255
      BY <3>1, MinusOneAsNumber
    <3>4. Number(Minus1) = 255 + 256 * (255 + 256 * (255 + 256 * n))
      BY <3>2, <3>3 DEF Number
    <3> QED
      BY <3>1, <3>2, <3>4
  <2> QED
    BY <1>2, <1>3, <2>1 DEF IInv, ConversionAddsTheCode, Fresh
<1>4. CASE identifier[3] = 0
  <2>1. identifier = given /\ given \in Bytes
    BY <1>4 DEF IInv, Fresh, TypeOK
  <2>2. identifier' = [given EXCEPT ![3] = code] /\ identifier'[3] = code
    BY <1>4, <2>1 DEF Bytes
  <2>3. /\ Number(given) \in 0 .. Unit - 1
        /\ Number(identifier') = Number(given) + Unit * code
    BY <1>1, <1>4, <2>1, <2>2, CodeIsAdded
  <2>4. ConversionAddsTheCode'
    BY <2>2, <2>3 DEF ConversionAddsTheCode, isModuleIdentifier, isServiceIdentifier
  <2> QED
    BY <1>1, <1>2, <2>2, <2>4 DEF IInv, Fresh
<1> QED
  BY <1>3, <1>4

\* The initial state satisfies the invariant, and every step preserves it.
LEMMA IInvHolds == Spec => []IInv
<1>1. Init => IInv
  BY DEF Init, IInv, TypeOK, ConversionAddsTheCode, Fresh
<1>2. IInv /\ [Next]_vars => IInv'
  <2> SUFFICES ASSUME IInv, [Next]_vars PROVE IInv'
    OBVIOUS
  <2>1. CASE UNCHANGED vars
    BY <2>1 DEF vars, IInv, TypeOK, ConversionAddsTheCode, Fresh
  <2>2. CASE Next
    BY <2>2, ConversionStep DEF Next, toModuleIdentifier, toServiceIdentifier
  <2> QED
    BY <2>1, <2>2
<1> QED
  BY <1>1, <1>2, PTL DEF Spec

\* The bytes of an identifier stay bytes, whatever is converted and how often.
THEOREM TypeCorrect == Spec => []TypeOK
BY IInvHolds, PTL DEF IInv

\* Every identifier that conversions produce is the number that was given, that
\* number of 24 bits with a code above it, or -1.
THEOREM ConversionsAddTheCode == Spec => []ConversionAddsTheCode
BY IInvHolds, PTL DEF IInv

\* An identifier of one kind never becomes one of the other.
THEOREM KindsAreFinal == Spec => KindIsFinal
<1>1. [Next]_vars =>
        [/\ isModuleIdentifier(identifier) => ~isServiceIdentifier(identifier')
         /\ isServiceIdentifier(identifier) => ~isModuleIdentifier(identifier')]_vars
  BY DEF Next, toModuleIdentifier, toServiceIdentifier, isModuleIdentifier,
         isServiceIdentifier, ModuleIdentifierCode, ServiceIdentifierCode, Minus1
<1> QED
  BY <1>1, PTL DEF Spec, KindIsFinal
=============================================================================
