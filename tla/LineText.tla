------------------------------ MODULE LineText ------------------------------
(***************************************************************************)
(* What usb_task.cpp makes of the characters of one line: processLine      *)
(* cleans it, and tryExtractDetectorAddress looks for a detector address   *)
(* in it.  A character is one of a few that the code tells apart: two      *)
(* digits (6 may not begin a line), the dot, a capital and a space.  The   *)
(* line grows as onReceive appends to it, so that every line up to         *)
(* MaxLength is met.                                                       *)
(***************************************************************************)
EXTENDS Integers, Sequences, FiniteSetsExt

CONSTANTS
  Char,       \* the characters that arrive
  MaxLength   \* bound: length of lineBuffer

Digit == {"3", "6"}

ASSUME CharAssumption   == Char \subseteq Digit \cup {".", "A", " "}
ASSUME LengthAssumption == MaxLength \in Nat

VARIABLE chars   \* the text in lineBuffer

------------------------------------------------------------------------------
(* tryExtractDetectorAddress *)

\* Dots at which the search stops: a digit before, three digits behind.
Dots(l) == {k \in 2 .. Len(l) - 3 : l[k] = "." /\ l[k - 1] \in Digit
                                      /\ \A j \in 1 .. 3 : l[k + j] \in Digit}

\* Where the digits before the dot begin.
StartPos(l, k) == Min({s \in 1 .. k - 1 : \A j \in s .. k - 1 : l[j] \in Digit})

ThreeOnly(l, k) == k + 3                                 \* mutant of EndPos
\* A fourth digit is taken if another character follows it.
EndPos(l, k) == IF k + 4 < Len(l) /\ l[k + 4] \in Digit THEN k + 4 ELSE k + 3

tryExtractDetectorAddress(l) ==
  IF Dots(l) = {} THEN <<>>
  ELSE LET k == Min(Dots(l)) IN SubSeq(l, StartPos(l, k), EndPos(l, k))

------------------------------------------------------------------------------
(* processLine, up to the line it works on; <<>> if it skips the line. *)

isValidLeadingChar(c) == c \in {"3", "A"}

DropLeading(l) == IF isValidLeadingChar(l[1]) THEN l ELSE Tail(l)

Letter(l) == Len(l) > 2 /\ l[1] = "A" /\ l[2] = " "

\* The first character behind the letter that is no space.
Useful(l) == Min({k \in 2 .. Len(l) : l[k] # " "} \cup {Len(l) + 1})

DropLetter(l) == IF Letter(l) THEN SubSeq(l, Useful(l), Len(l)) ELSE l

Clean(l) ==
  IF Len(l) < 2 THEN <<>>
  ELSE LET m == DropLetter(DropLeading(l)) IN IF Len(m) < 2 THEN <<>> ELSE m

------------------------------------------------------------------------------
TextInit == chars = <<>>

Receive(c) == Len(chars) < MaxLength /\ chars' = Append(chars, c)

\* The end of the line, or handleGarbage drops what there is of it.
Clear == chars # <<>> /\ chars' = <<>>

TextNext == Clear \/ \E c \in Char : Receive(c)

TextSpec == TextInit /\ [][TextNext]_chars

------------------------------------------------------------------------------
(* Properties *)

\* "One or more digits, dot, three or four digits".
IsAddress(w) ==
  \E k \in 2 .. Len(w) : /\ w[k] = "." /\ Len(w) - k \in {3, 4}
                         /\ \A j \in DOMAIN w \ {k} : w[j] \in Digit

Places(l) == {p \in (DOMAIN l) \X (DOMAIN l) : IsAddress(SubSeq(l, p[1], p[2]))}

\* The address that begins first, in its full length.
FirstPlace(l) == CHOOSE p \in Places(l) :
                   \A q \in Places(l) : p[1] < q[1] \/ (p[1] = q[1] /\ p[2] >= q[2])

FirstAddress(l) ==
  IF Places(l) = {} THEN <<>> ELSE SubSeq(l, FirstPlace(l)[1], FirstPlace(l)[2])

\* Of a cleaned line tryExtractDetectorAddress finds an address exactly when the
\* panel's line has one, and it is the first in its full length, but for a fourth
\* digit that ends the line, which is cut off, and an address that begins the
\* line with a 6, which processLine strips off.
AddressFound ==
  LET found == tryExtractDetectorAddress(Clean(chars))  all == FirstAddress(chars) IN
  \/ found = all
  \/ /\ all # <<>>
     /\ \/ /\ FirstPlace(chars)[2] = Len(chars)
           /\ found = SubSeq(all, 1, Len(all) - 1) /\ IsAddress(found)
        \/ FirstPlace(chars)[1] = 1 /\ all[1] = "6"

\* "Pattern: one or more digits, dot, three or four digits (e.g., 3.031,
\* 10.0042)" (tryExtractDetectorAddress).  A line that is such an address and
\* nothing else is recognised as it stands.
AddressAlone ==
  IsAddress(chars) => tryExtractDetectorAddress(Clean(chars)) = chars

==============================================================================
