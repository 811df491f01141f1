----------------------------- MODULE StringTemplate -----------------------------
(***************************************************************************)
(* StringTemplate.Format (Essential.Diagnostics.Core/StringTemplate.cs):   *)
(* the scanner behind the paths of the rolling files, the lines of the     *)
(* listeners and the messages of structured data.                          *)
(*                                                                         *)
(* The scanner keeps an index and ch, the character before it; each of its *)
(* loops reads on while ch belongs to some class and there are more        *)
(* characters.  A character has a name where it is no letter or digit:     *)
(* OPEN and CLOSE for the braces.  An item goes to the output as the       *)
(* record of what it asks for: how an argument is formatted and padded is  *)
(* left out.                                                               *)
(***************************************************************************)
EXTENDS Integers, Sequences, SequencesExt, TLC

CONSTANTS
  Templates, \* the templates formatted
  Known,     \* the names getValue has a value for, of those that can be written
  NoFormat   \* formatString, when it is null

NameStart == {"UNDERSCORE", "AT", "a"}
NameChars == NameStart \cup {"DOT", "MINUS", "1"}
Digits    == {"1"}
Braces    == {"OPEN", "CLOSE"}
Blank     == {"BLANK"}

ASSUME TemplateAssumption ==
  /\ \A t \in Templates : t \in Seq(ToSet(t))
  /\ \A name \in Known : /\ name \in Seq(NameChars)
                         /\ name # <<>> /\ name[1] \in NameStart

VARIABLES
  template, \* template
  index,    \* index
  builder,  \* builder: characters, and records for the items
  item,     \* argumentName, width, leftAlign and formatString
  pc        \* where Format is; "failed" when it refused the template

templateVars == <<template, index, builder, item, pc>>

TemplateInit ==
  /\ template \in Templates
  /\ index = 0
  /\ builder = <<>>
  /\ item = [name |-> <<>>, width |-> 0, left |-> FALSE, format |-> NoFormat]
  /\ pc = "text"

length == Len(template)

\* ch, the character read last.
ch == template[index]

\* The index after `while (index < length && chars has ch) { ch = ...; index++; }'.
While(chars, i) ==
  CHOOSE j \in i..length : /\ j = length \/ template[j] \notin chars
                           /\ \A k \in i..(j - 1) : template[k] \in chars

\* What a format may contain.
NoBrace == {template[i] : i \in 1..length} \ Braces

\* The number written by digits.
Number(digits) ==
  LET N[i \in 0..Len(digits)] ==
        IF i = 0 THEN 0 ELSE 10 * N[i - 1] + (CHOOSE d \in 0..9 : ToString(d) = digits[i])
  IN  N[Len(digits)]

\* throw new FormatException.
Refuse == pc' = "failed" /\ UNCHANGED <<template, index, builder, item>>

More == pc = "text" /\ index < length

\* The character comes twice: one of the two braces is text.
Doubled == index + 1 < length /\ template[index + 2] = template[index + 1]

LiteralBrace ==
  /\ More /\ template[index + 1] \in Braces /\ Doubled
  /\ builder' = Append(builder, template[index + 1])
  /\ index' = index + 2
  /\ UNCHANGED <<template, item, pc>>

StrayBrace == More /\ template[index + 1] = "CLOSE" /\ ~Doubled /\ Refuse

\* Literal text runs up to the next brace, or to the end.
LiteralEnd(i) ==
  CHOOSE j \in (i + 1)..length : /\ j = length \/ template[j + 1] \in Braces
                                 /\ \A k \in (i + 1)..j : template[k] \notin Braces

Literal ==
  /\ More /\ template[index + 1] \notin Braces
  /\ index' = LiteralEnd(index)
  /\ builder' = builder \o SubSeq(template, index + 1, LiteralEnd(index))
  /\ UNCHANGED <<template, item, pc>>

\* The name of an item: read to the first character that cannot be in one, which
\* has to be there; the value is looked up before the rest is read.
Name ==
  /\ More /\ template[index + 1] = "OPEN" /\ ~Doubled
  /\ LET start == index + 1
     IN  IF start = length \/ template[start + 1] \notin NameStart THEN Refuse ELSE
         LET next == While(NameChars, start + 1)
             name == SubSeq(template, start + 1, next - 1)
         IN  IF name = <<>> \/ name \notin Known THEN Refuse
             ELSE /\ item' = [name |-> name, width |-> 0, left |-> FALSE, format |-> NoFormat]
                  /\ index' = While(Blank, next)
                  /\ pc' = "alignment"
                  /\ UNCHANGED <<template, builder>>

\* Mutant: blanks after the comma are not skipped.
AlignmentStart_NoBlanks == index + 1

\* Where the alignment begins, after the comma and blanks.
AlignmentStart == While(Blank, index + 1)

\* A comma, blanks, a minus sign for left, and a number.
Alignment ==
  /\ pc = "alignment"
  /\ IF ch # "COMMA" THEN /\ pc' = "format"
                      /\ index' = While(Blank, index)
                      /\ UNCHANGED <<template, builder, item>>
     ELSE IF index = length THEN Refuse ELSE
     LET sign  == AlignmentStart
         left  == template[sign] = "MINUS"
         first == IF left THEN sign + 1 ELSE sign
     IN  IF sign = length \/ template[first] \notin Digits THEN Refuse
         ELSE LET next == While(Digits, first)
              IN  /\ item' = [name |-> item.name, left |-> left, format |-> item.format,
                              width |-> Number(SubSeq(template, first, next - 1))]
                  /\ index' = While(Blank, next)
                  /\ pc' = "format"
                  /\ UNCHANGED <<template, builder>>

\* A colon, and everything up to a brace.
Format ==
  /\ pc = "format"
  /\ IF ch # "COLON" THEN pc' = "insert" /\ UNCHANGED <<template, index, builder, item>>
     ELSE IF index = length THEN Refuse ELSE
     LET next == While(NoBrace, index + 1)
     IN  /\ item' = [item EXCEPT !.format = SubSeq(template, index + 1, next - 1)]
         /\ index' = next
         /\ pc' = "insert"
         /\ UNCHANGED <<template, builder>>

\* An item ends with a brace; then its value goes to the output.
Insert ==
  /\ pc = "insert"
  /\ IF ch # "CLOSE" THEN Refuse
     ELSE /\ builder' = Append(builder, item)
          /\ pc' = "text"
          /\ UNCHANGED <<template, index, item>>

ReturnText == /\ pc = "text" /\ index = length
              /\ pc' = "done"
              /\ UNCHANGED <<template, index, builder, item>>

TemplateNext ==
  LiteralBrace \/ StrayBrace \/ Literal \/ Name \/ Alignment \/ Format \/ Insert \/ ReturnText

TemplateSpec == TemplateInit /\ [][TemplateNext]_templateVars

--------------------------------------------------------------------------------
(***************************************************************************)
(* The grammar of a template.  The text between the braces of an item is   *)
(*   name blanks [, blanks [-] digits blanks] [: format]                   *)
(***************************************************************************)
\* What the template has from p to q are these characters.
Run(p, q, chars) == \A k \in p..q : template[k] \in chars

\* The readings of an alignment from p to q: a comma, blanks, and a number with or without
\* a minus sign.
Alignments(p, q) ==
  {[width |-> Number(SubSeq(template, j, q)), left |-> template[j - 1] = "MINUS"] :
     j \in {k \in (p + 1)..q :
              /\ template[p] = "COMMA" /\ Run(k, q, Digits)
              /\ \/ Run(p + 1, k - 1, Blank)
                 \/ template[k - 1] = "MINUS" /\ Run(p + 1, k - 2, Blank)}}

\* The readings of a format.
Formats(p, q) ==
  IF q < p THEN {NoFormat}
  ELSE IF template[p] = "COLON" /\ \A k \in (p + 1)..q : template[k] \notin Braces
  THEN {SubSeq(template, p + 1, q)} ELSE {}

\* The readings of what follows the name: a format alone, or an alignment, blanks and a
\* format, over all places where the first two end.
Tails(p, q) ==
  {[width |-> 0, left |-> FALSE, format |-> f] : f \in Formats(p, q)}
  \cup (UNION {{[width |-> w.width, left |-> w.left, format |-> f] :
                  w \in Alignments(p, c[1]), f \in Formats(c[2] + 1, q)} :
               c \in {d \in (p..q) \X (p..q) : d[1] <= d[2] /\ Run(d[1] + 1, d[2], Blank)}})

\* The readings of an item, over all places where the name ends and those where the
\* blanks after it do.
Items(p, q) ==
  UNION {{[name |-> SubSeq(template, p, c[1]), width |-> w.width, left |-> w.left, format |-> w.format] :
            w \in Tails(c[2] + 1, q)} :
         c \in {d \in (p..q) \X (p..q) : /\ d[1] <= d[2] /\ Run(d[1] + 1, d[2], Blank)
                                      /\ SubSeq(template, p, d[1]) \in Known}}

\* An element, and then what is read after it.
Ahead(x, rest) == {<<x>> \o r : r \in rest}

\* The closing braces from the n-th character on.
Closes(n) == {m \in n..length : template[m] = "CLOSE"}

\* The readings of the template from its n-th character on, when R has those from later
\* ones on: text, doubled braces and items one after the other.
ReadingsAt(n, R) ==
  IF n = length + 1 THEN {<<>>}
  ELSE IF template[n] \notin Braces THEN Ahead(template[n], R[n + 1])
  ELSE IF n < length /\ template[n + 1] = template[n] THEN Ahead(template[n], R[n + 2])
  ELSE IF template[n] = "CLOSE" THEN {}
  ELSE UNION {UNION {Ahead(x, R[m + 1]) : x \in Items(n + 1, m - 1)} : m \in Closes(n + 2)}

Readings == LET R[n \in 1..(length + 1)] == ReadingsAt(n, R) IN R[1]

\* Format returns what the grammar reads in the template, and throws when it reads
\* nothing: every brace, blank, sign and digit at every place, and templates that
\* end anywhere (StringTemplate.Format keeps an index one ahead of the character it
\* looks at, and compares it with the length in eight places).
FormatsAsWritten == /\ pc = "done" => Readings = {builder}
                    /\ pc = "failed" => Readings = {}
================================================================================
