-------------------------------- MODULE Escaping --------------------------------
(***************************************************************************)
(* The three scanners that escape a text: Escape of SeqPayloadFormatter    *)
(* ("json", Essential.Diagnostics.SeqTraceListener/Diagnostics) and of     *)
(* StructuredPropertyFormatter ("text", Essential.Diagnostics.Core/        *)
(* Diagnostics), and AppendEscaped of RollingXmlTraceListener ("xml",      *)
(* Essential.Diagnostics.RollingXmlTraceListener/Diagnostics).  Each       *)
(* copies the clean segments between the characters it replaces.           *)
(*                                                                         *)
(* A text is a sequence of characters, which have names where they are no  *)
(* letters: QUOT, APOS, BSL, AMP, LT and SEMI for quotes, backslash, &, <  *)
(* and ;, LF for a line feed and CTL for a control character without a     *)
(* letter of its own; 0001 and xA are the digits of a code.                *)
(***************************************************************************)
EXTENDS Integers, Sequences, SequencesExt

CONSTANT MaxLength  \* bound: how long a text is

ASSUME MaxLengthAssumption == MaxLength \in Nat

VARIABLES
  writer,             \* which scanner it is
  text,               \* s, the text to escape
  i,                  \* the index of the loop
  cleanSegmentStart,  \* where the clean segment began
  escapedResult       \* what was appended so far, without the clean segment

escapingVars == <<writer, text, i, cleanSegmentStart, escapedResult>>

\* What each writer puts in the place of a character; it copies the others.
Escapes ==
  [json |-> [c \in {"QUOT", "BSL", "LF", "CTL"} |->
               CASE c = "LF" -> <<"BSL", "n">> [] c = "CTL" -> <<"BSL", "u", "0001">>
                 [] OTHER -> <<"BSL", c>>],
   text |-> [c \in {"APOS", "BSL"} |-> <<"BSL", c>>],
   xml |-> [c \in {"AMP", "LT", "QUOT", "LF"} |->
              CASE c = "AMP" -> <<"AMP", "amp", "SEMI">> [] c = "LT" -> <<"AMP", "lt", "SEMI">>
                [] c = "QUOT" -> <<"AMP", "quot", "SEMI">> [] c = "LF" -> <<"AMP", "xA", "SEMI">>]]

\* The characters of the texts: those it replaces, and those it replaces them by.
Alphabet(w) == DOMAIN Escapes[w] \cup (UNION {ToSet(Escapes[w][c]) : c \in DOMAIN Escapes[w]})
                                 \cup {"a"}

EscapingInit ==
  /\ writer \in DOMAIN Escapes
  /\ text \in UNION {[1..n -> Alphabet(writer)] : n \in 0..MaxLength}
  /\ i = 1
  /\ cleanSegmentStart = 1
  /\ escapedResult = <<>>

Escaped(c) == c \in DOMAIN Escapes[writer]

\* Mutant: the clean segment begins with the character that was replaced.
EscapeCharacter_Again ==
  /\ i <= Len(text) /\ Escaped(text[i])
  /\ escapedResult' = escapedResult \o SubSeq(text, cleanSegmentStart, i - 1)
                        \o Escapes[writer][text[i]]
  /\ cleanSegmentStart' = i
  /\ i' = i + 1

\* A character is replaced, and the clean segment before it is copied.
EscapeCharacter ==
  /\ i <= Len(text) /\ Escaped(text[i])
  /\ escapedResult' = escapedResult \o SubSeq(text, cleanSegmentStart, i - 1)
                        \o Escapes[writer][text[i]]
  /\ cleanSegmentStart' = i + 1
  /\ i' = i + 1

\* A character belongs to the clean segment.
PassCharacter ==
  /\ i <= Len(text) /\ ~Escaped(text[i])
  /\ i' = i + 1
  /\ UNCHANGED <<cleanSegmentStart, escapedResult>>

\* What is returned at the end of the text: with the last clean segment.
Result == escapedResult \o SubSeq(text, cleanSegmentStart, Len(text))

EscapingNext == (EscapeCharacter \/ PassCharacter) /\ UNCHANGED <<writer, text>>

EscapingSpec == EscapingInit /\ [][EscapingNext]_escapingVars

--------------------------------------------------------------------------------
(* A reader of what was written.                                           *)

\* The characters that have an escape in s at k.
EscapeAt(s, k) ==
  {c \in DOMAIN Escapes[writer] :
     LET e == Escapes[writer][c]
     IN  k + Len(e) <= Len(s) + 1 /\ \A m \in DOMAIN e : s[k + m - 1] = e[m]}

\* An escape stands for its character, and nothing else is special.
StandsFor(s, k) == IF EscapeAt(s, k) = {} THEN s[k] ELSE CHOOSE c \in EscapeAt(s, k) : TRUE

Width(s, k) == IF EscapeAt(s, k) = {} THEN 1 ELSE Len(Escapes[writer][StandsFor(s, k)])

\* Reading s from its beginning, one character or escape after the other.
Reading(s) ==
  LET start[n \in 0..Len(s)] == IF n = 0 THEN 1 ELSE start[n - 1] + Width(s, start[n - 1])
  IN  [n \in {m \in 1..Len(s) : start[m - 1] <= Len(s)} |-> StandsFor(s, start[n - 1])]

\* What is written is read back as the text, and has no quote or mark-up that would end it:
\* a replaced character is there only inside its escape, or that of another
\* (Escape and AppendEscaped).
ReadsBack ==
  i > Len(text) =>
    /\ Reading(Result) = text
    /\ \A k \in DOMAIN Result : Escaped(Result[k]) =>
         \E j \in 1..k : \E c \in EscapeAt(Result, j) : k < j + Len(Escapes[writer][c])
================================================================================
