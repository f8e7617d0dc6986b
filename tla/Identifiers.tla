------------------------------ MODULE Identifiers ------------------------------
(***************************************************************************)
(* The identifiers of modules and services (Types.cpp): 32 bits of which   *)
(* the most significant byte says what they identify.  They are taken      *)
(* apart through a union with four signed bytes, on a machine that puts    *)
(* the least significant byte first, so that a conversion works on bytes   *)
(* and its caller sees a number.                                           *)
(*                                                                         *)
(* An identifier is converted again and again, to one kind or the other:   *)
(* nothing says in which order, and no type tells the kinds apart.         *)
(***************************************************************************)
EXTENDS Integers

CONSTANT Byte   \* the values of a byte

ModuleIdentifierCode  == 42
ServiceIdentifierCode == 52

ASSUME ByteAssumption ==
  /\ Byte \subseteq -128 .. 127
  /\ {-1, 0, ModuleIdentifierCode, ServiceIdentifierCode} \subseteq Byte

VARIABLES
  identifier,
  given         \* what it was before it was converted

vars == <<identifier, given>>

Bytes == [0 .. 3 -> Byte]

TypeOK == identifier \in Bytes /\ given \in Bytes

Init == given \in Bytes /\ identifier = given

\* The identifier as a number: three bytes without and one with a sign.
Number(bytes) ==
  (bytes[0] % 256) + 256 * ((bytes[1] % 256) + 256 * ((bytes[2] % 256) + 256 * bytes[3]))

\* What one in the most significant byte stands for.
Unit == 256 * 256 * 256

Minus1 == [i \in 0 .. 3 |-> -1]

isModuleIdentifier(bytes)  == bytes[3] = ModuleIdentifierCode
isServiceIdentifier(bytes) == bytes[3] = ServiceIdentifierCode

\* Mutants: an identifier that has a code is given another; the code is put into the
\* byte a machine of the other order has for it.
toModuleIdentifierAgain(bytes) == [bytes EXCEPT ![3] = ModuleIdentifierCode]

toModuleIdentifierReversed(bytes) ==
  IF bytes[3] # 0 THEN Minus1 ELSE [bytes EXCEPT ![0] = ModuleIdentifierCode]

toModuleIdentifier(bytes) ==
  IF bytes[3] # 0 THEN Minus1 ELSE [bytes EXCEPT ![3] = ModuleIdentifierCode]

\* Mutant: the code is one that a signed byte cannot hold.
toServiceIdentifierWide(bytes) ==
  IF bytes[3] # 0 THEN Minus1 ELSE [bytes EXCEPT ![3] = ServiceIdentifierCode + 128]

toServiceIdentifier(bytes) ==
  IF bytes[3] # 0 THEN Minus1 ELSE [bytes EXCEPT ![3] = ServiceIdentifierCode]

Next ==
  /\ \/ identifier' = toModuleIdentifier(identifier)
     \/ identifier' = toServiceIdentifier(identifier)
  /\ UNCHANGED given

Spec == Init /\ [][Next]_vars

(***************************************************************************)
(* Properties.                                                             *)
(***************************************************************************)

\* Whatever has been converted to whatever: the result is the number that was given,
\* or that number, of 24 bits, with one of the codes above it, or -1.
ConversionAddsTheCode ==
  \/ identifier = given
  \/ identifier = Minus1 /\ Number(identifier) = -1
  \/ /\ Number(given) \in 0 .. Unit - 1
     /\ \/ isModuleIdentifier(identifier)
           /\ Number(identifier) = Number(given) + Unit * ModuleIdentifierCode
        \/ isServiceIdentifier(identifier)
           /\ Number(identifier) = Number(given) + Unit * ServiceIdentifierCode

\* What identifies a module is never turned into what identifies a service, nor the
\* other way around, however often it is converted.
KindIsFinal ==
  [][/\ isModuleIdentifier(identifier) => ~isServiceIdentifier(identifier')
     /\ isServiceIdentifier(identifier) => ~isModuleIdentifier(identifier')]_vars
=============================================================================
