----------------------------- MODULE MCParsers -----------------------------
(***************************************************************************)
(* Transmissions for TLC.  A sender completes a message with its checksum, *)
(* the remainder of the message as a polynomial: the sum of the remainders *)
(* of the powers of x that its ones stand for.  For the CCITT checksum the *)
(* first 16 bits count inverted, and the remainder is sent inverted.       *)
(*                                                                         *)
(* A message is all zeros, or all ones, or one bit away from that, so that *)
(* every bit is once the only one of its kind.  Before it comes a message  *)
(* of the same type, for an IDM of either layout.  Errors hit the bits     *)
(* after the preamble, in a message after one that differs in every bit of *)
(* its content.                                                            *)
(***************************************************************************)
EXTENDS Parsers

Preamble == [scm |-> {0, 1, 2, 3, 4, 7, 9, 11, 14, 15, 18},
             scmPlus |-> {3, 5, 6, 8, 10, 14, 15},
             idm |-> {1, 3, 5, 7, 9, 11, 13, 15, 19, 21, 22, 24, 26, 30, 31}]
PreambleEnd == [scm |-> 21, scmPlus |-> 16, idm |-> 32]
CheckedFrom == [scm |-> 16, scmPlus |-> 16, idm |-> 32]
Length(type) == 8 * RawSize[type]
Content(type) == PreambleEnd[type]..(Length(type) - 17)
Exposed(type) == PreambleEnd[type]..(Length(type) - 1)

\* x^(16 + k) modulo the polynomial, eight powers from each of another.
TimesX(v, poly) ==
  IF 15 \in v THEN Xor(Left(v, 1, 16), poly) ELSE Left(v, 1, 16)
PowersOf(poly) ==
  LET eight[v \in SUBSET Low(16), n \in 0..8] ==
        IF n = 0 THEN v ELSE eight[TimesX(v, poly), n - 1]
      every8[q \in 0..86] == IF q = 0 THEN poly ELSE eight[every8[q - 1], 8]
  IN  [k \in 0..695 |-> eight[every8[k \div 8], k % 8]]
BCHPowers == PowersOf(Bits(\h6F63))
CCITTPowers == PowersOf(Bits(\h1021))

Remainder(ones, powers, end) ==
  {b \in Low(16) : Cardinality({p \in ones : b \in powers[end - 1 - p]}) % 2 = 1}

Sealed(type, content) ==
  LET m == Preamble[type] \cup content
      end == Length(type) - 16
      from == CheckedFrom[type]
      ones == m \cap from..(end - 1)
      crc == IF type = "scm" THEN Remainder(ones, BCHPowers, end)
             ELSE Xor(Low(16), Remainder(Xor(ones, from..(from + 15)), CCITTPowers, end))
  IN  m \cup {Length(type) - 1 - b : b \in crc}

\* An interval meter has ertType 0x18 in the ninth byte.
X18 == [scm |-> {}, scmPlus |-> {}, idm |-> {67, 68}]

Bases(type) ==
  {Sealed(type, {}), Sealed(type, X18[type]), Sealed(type, Content(type))}
Messages(type) ==
  Bases(type) \cup
  {Sealed(type, Xor(c, {p})) : c \in {{}, X18[type]}, p \in Content(type)} \cup
  {Sealed(type, Content(type) \ {p}) : p \in Content(type) \cap 0..127}

\* One wrong bit, two that lie near each other, or sixteen in a row.
Near == [scm |-> 8, scmPlus |-> 5, idm |-> 1]
Errors(type) ==
  {(IF d = -1 THEN p..(p + 15) ELSE {p, p + d}) \cap Exposed(type) :
     p \in Exposed(type), d \in -1..Near[type]}

Sending(type, m, err) == [type |-> type, sent |-> m, err |-> err]

\* A message after another of its type; a message with errors.
CleanPairs(type) ==
  LET before == {Sealed(type, X18[type]), Sealed(type, Content(type))}
      all == Messages(type)
  IN  {<<Sending(type, b, {}), Sending(type, m, {})>> : b \in before, m \in all}
Corrupted(type) ==
  LET before == Sealed(type, Content(type))
      m == Sealed(type, {})
  IN  {<<Sending(type, before, {}), Sending(type, m, e)>> : e \in Errors(type)}

SmallAirs(type) == CleanPairs(type) \cup Corrupted(type)

(* What the proof that errors are detected takes for granted of the tables. *)
ASSUME DetectionAssumption == TablesDetect

=============================================================================
